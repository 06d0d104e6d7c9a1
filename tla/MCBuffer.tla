------------------------------ MODULE MCBuffer ------------------------------
(* The buffer with two blocks of two timestamps, two values and a clock   *)
(* that runs over both blocks, so that a timestamp is first in the        *)
(* future (out of order), then realtime, then in the past (out of order). *)
EXTENDS Buffer

MCBootstrapBlocks == {[start |-> 0, pts |-> <<Point(1, 1)>>]}

====
