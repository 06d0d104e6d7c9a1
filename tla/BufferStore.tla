----------------------------- MODULE BufferStore -----------------------------
(***************************************************************************)
(* What the series buffer promises its callers (spec.md 4.2, 8.1-8.3, I3,  *)
(* I4): a store from timestamps to values with last-write-wins upserts.    *)
(* store is what a read returns; acked is, per timestamp, the value of the *)
(* last write the caller was told succeeded.  A write sets both; a         *)
(* bootstrapped block only fills timestamps nothing was written at, since  *)
(* bootstrapped data is older than anything in the buffer.  Every other    *)
(* operation (tick, merge, reads, snapshots) leaves the store as it is.    *)
(***************************************************************************)
EXTENDS Integers, Sequences, SequencesExt

CONSTANTS Timestamps, Values, NoValue, BootstrapBlocks

VARIABLES store, acked

Init ==
    /\ store = [t \in Timestamps |-> NoValue]
    /\ acked = [t \in Timestamps |-> NoValue]

StoreWrite(t, v) ==
    /\ store' = [store EXCEPT ![t] = v]
    /\ acked' = [acked EXCEPT ![t] = v]

StoreBootstrap(bl) ==
    /\ store' = [t \in Timestamps |->
                   IF acked[t] = NoValue /\ \E p \in Range(bl.pts) : p[1] = t
                   THEN (CHOOSE p \in Range(bl.pts) : p[1] = t)[2]
                   ELSE store[t]]
    /\ UNCHANGED acked

Next ==
    \/ \E t \in Timestamps, v \in Values : StoreWrite(t, v)
    \/ \E bl \in BootstrapBlocks : StoreBootstrap(bl)

Spec == Init /\ [][Next]_<<store, acked>>

=============================================================================
