------------------------------ MODULE Encoding ------------------------------
(***************************************************************************)
(* The collaborators the series buffer is built on: the pooled columnar    *)
(* encoder and the multi-reader iterator.  Their code is not part of this  *)
(* repository, so these operators follow the contracts of spec.md 4.1 and  *)
(* 6; everything else in the project is translated from buffer.go and      *)
(* series.go and uses only these operators to touch encoder state.         *)
(*                                                                         *)
(* A datapoint is <<timestamp, value>>; annotations and units are carried  *)
(* through unchanged by every operation and are left out.  The encoder     *)
(* pool is a function from encoder identities to [live, pts]: an encoder   *)
(* taken from the pool and reset is live; Close resets it and puts it      *)
(* back (idempotently, spec.md 9 "put is idempotent when paired with       *)
(* close").  Identities matter because the buffer can keep a reference to  *)
(* an encoder it has already closed, and the pool hands that object out    *)
(* again.                                                                  *)
(***************************************************************************)
EXTENDS Integers, Sequences, SequencesExt, FiniteSets

CONSTANTS EncoderIds   \* the objects the encoder pool can hand out

\* lastWriteAt of an encoder slot that has never been written: Go's zero
\* time.Time, earlier than every timestamp of the model.
NoTime == -1

Point(t, v) == <<t, v>>
Ts(p) == p[1]
Val(p) == p[2]

\* The objects currently in the pool (not handed out).
FreeEncoders(E) == {e \in EncoderIds : ~E[e].live}

\* pool.Get() followed by encoder.Reset(start, allocSize).  The pool is
\* free to return any pooled object; which one is irrelevant up to renaming,
\* so the least one is taken.
GetEncoder(E) == CHOOSE e \in FreeEncoders(E) : \A f \in FreeEncoders(E) : e <= f
ResetEncoder(E, e) == [E EXCEPT ![e] = [live |-> TRUE, pts |-> <<>>]]

\* encoder.Close(): resets the encoder and returns it to the pool; closing a
\* closed encoder does nothing.
CloseEncoder(E, e) == [E EXCEPT ![e] = [live |-> FALSE, pts |-> <<>>]]

CloseEncoders(E, ids) ==
    [e \in DOMAIN E |-> IF e \in ids THEN [live |-> FALSE, pts |-> <<>>] ELSE E[e]]

\* encoder.NumEncoded() / encoder.Len(): zero exactly when nothing encoded.
EncLen(E, e) == Len(E[e].pts)

\* encoder.Encode(dp): Err(Closed) on a closed encoder, Err(OutOfOrder) for
\* a timestamp before the last encoded one, a no-op for an identical
\* repeat of the last datapoint, otherwise an append.
Encode(E, e, p) ==
    CASE ~E[e].live
            -> [E |-> E, err |-> "closed"]
      [] E[e].pts # <<>> /\ Ts(p) < Ts(Last(E[e].pts))
            -> [E |-> E, err |-> "outOfOrder"]
      [] E[e].pts # <<>> /\ p = Last(E[e].pts)
            -> [E |-> E, err |-> "none"]
      [] OTHER
            -> [E |-> [E EXCEPT ![e].pts = Append(@, p)], err |-> "none"]

\* Encoding a whole iterator output; stops at the first error and leaves
\* the datapoints encoded before it in the encoder.
RECURSIVE EncodeAll(_, _, _), EncodeRest(_, _, _)
EncodeRest(r, e, ps) == IF r.err # "none" THEN r ELSE EncodeAll(r.E, e, ps)

EncodeAll(E, e, ps) ==
    IF ps = <<>> THEN [E |-> E, err |-> "none"]
    ELSE EncodeRest(Encode(E, e, Head(ps)), e, Tail(ps))

\* encoder.Stream(): a snapshot of what was encoded, nil (<<>>) if empty.
Stream(E, e) == E[e].pts

\* encoder.LastEncoded(): the last datapoint; an error when empty.
HasLastEncoded(E, e) == E[e].pts # <<>>
LastEncoded(E, e) == Last(E[e].pts)

(***************************************************************************)
(* The multi-reader iterator (spec.md 6): a k-way merge of the sources by  *)
(* timestamp.  At each step it takes the least head timestamp; every       *)
(* source whose head carries it advances, and the datapoint emitted is the *)
(* one of the last of them in source order ("later source wins").  A       *)
(* source that is not sorted is consumed in its own order, as the heap of  *)
(* per-source iterators does.                                              *)
(***************************************************************************)
RECURSIVE MultiReaderIterate(_)
MultiReaderIterate(rs) ==
    LET open == {i \in DOMAIN rs : rs[i] # <<>>}
    IN IF open = {} THEN <<>>
       ELSE LET tmin == Min({Ts(Head(rs[i])) : i \in open})
                at   == {i \in open : Ts(Head(rs[i])) = tmin}
                win  == Max(at)
            IN <<Head(rs[win])>> \o
               MultiReaderIterate([i \in DOMAIN rs |->
                                     IF i \in at THEN Tail(rs[i]) ELSE rs[i]])

=============================================================================
