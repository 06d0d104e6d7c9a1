------------------------------ MODULE MCSeries ------------------------------
(* Instances of Series for TLC: the block maps the bootstrapper hands in.  *)
EXTENDS Series

\* A disk block at the first block start, holding t=1.
MCDiskEarly == 0 :> <<Point(1, 2)>>

\* Disk blocks at both block starts; the later one lies in the buffer's
\* window when bootstrap runs early.
MCDiskBoth == (0 :> <<Point(0, 2)>>) @@ (2 :> <<Point(2, 2)>>)

MCBootstrapInputs == {MCDiskEarly, MCDiskBoth}

====
