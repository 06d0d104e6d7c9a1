------------------------------ MODULE BucketOps ------------------------------
(***************************************************************************)
(* dbBucket of src/src/dbnode/storage/series/buffer.go as operators over a *)
(* bucket record and the encoder pool E.  Every operation returns the new  *)
(* bucket, the new pool and the error the Go method returns ("none" for a *)
(* nil error), so that Buffer can compose them inside one handler.         *)
(*                                                                         *)
(* A bucket is                                                             *)
(*   [start        |-> block start,                                        *)
(*    encoders     |-> [MetricTypes -> Seq([enc, lastWriteAt])],           *)
(*    bootstrapped |-> [MetricTypes -> Seq(block)],  a block = Seq(Point)  *)
(*    lastRead     |-> time of the last ReadEncoded]                       *)
(***************************************************************************)
EXTENDS Encoding

CONSTANTS BlockSize

realtimeType   == 0
outOfOrderType == 1
allMetricTypes == 2
MetricTypes    == {realtimeType, outOfOrderType}

Truncate(t) == t - (t % BlockSize)

Slot(e, lw) == [enc |-> e, lastWriteAt |-> lw]

\* The encoders a bucket refers to, in every class.
SlotIds(b, mt) == {b.encoders[mt][i].enc : i \in DOMAIN b.encoders[mt]}
BucketEncoderIds(b) == UNION {SlotIds(b, mt) : mt \in MetricTypes}

(* resetTo: finalize the old contents, then one fresh encoder per class    *)
(* with a zero lastWriteAt, no bootstrapped blocks and lastRead 0.  The    *)
(* bucket is fresh (the bucket pool is never given a bucket back), so      *)
(* finalize has nothing to close.  Needs two pooled encoders.              *)
FreshBucket(start, e0, e1) ==
    [start        |-> start,
     encoders     |-> [mt \in MetricTypes |->
                         <<Slot(IF mt = realtimeType THEN e0 ELSE e1, NoTime)>>],
     bootstrapped |-> [mt \in MetricTypes |-> <<>>],
     lastRead     |-> 0]

NewBucketWith(start, E1, e0) ==
    [b |-> FreshBucket(start, e0, GetEncoder(E1)),
     E |-> ResetEncoder(E1, GetEncoder(E1))]

NewBucket(E, start) == NewBucketWith(start, ResetEncoder(E, GetEncoder(E)), GetEncoder(E))

(* empty(): no bootstrapped block and no encoder holds a datapoint.        *)
Empty(b, E) ==
    \A mt \in MetricTypes :
        /\ \A i \in DOMAIN b.bootstrapped[mt] : b.bootstrapped[mt][i] = <<>>
        /\ \A i \in DOMAIN b.encoders[mt] : EncLen(E, b.encoders[mt][i].enc) = 0

(* bootstrap(bl): a block for the block containing now is taken to be      *)
(* realtime, any other block out of order.                                 *)
BootstrapBlock(b, now, bl) ==
    LET mt == IF b.start = Truncate(now) THEN realtimeType ELSE outOfOrderType
    IN [b EXCEPT !.bootstrapped[mt] = Append(@, bl)]

(* write(mType, t, v).  The scan stops at the first slot whose lastWriteAt *)
(* equals t and whose last encoded value is v (a no-op; an encoder with    *)
(* nothing encoded makes LastEncoded fail) or at the first slot whose      *)
(* lastWriteAt is before t (the write goes there).  A slot with lastWriteAt *)
(* = t and another value is passed over.  If the scan does not stop, a new *)
(* encoder is appended; if encoding into it fails it is closed and removed.*)
WriteToIndexResult(b, E, mt, i, p, r) ==
    IF r.err # "none" THEN [b |-> b, E |-> E, err |-> r.err]
    ELSE [b |-> [b EXCEPT !.encoders[mt][i].lastWriteAt = Ts(p)],
          E |-> r.E, err |-> "none"]

WriteToIndex(b, E, mt, i, p) ==
    WriteToIndexResult(b, E, mt, i, p, Encode(E, b.encoders[mt][i].enc, p))

\* The new slot's write gave r: keep it, or close e and drop the slot.
NewSlotResult(b, e, r) ==
    IF r.err = "none" THEN r
    ELSE [b |-> b, E |-> CloseEncoder(r.E, e), err |-> r.err]

WriteNewSlot(b, E, mt, t, v, e) ==
    NewSlotResult(b, e,
        WriteToIndex([b EXCEPT !.encoders[mt] = Append(@, Slot(e, t))],
                     ResetEncoder(E, e), mt, Len(b.encoders[mt]) + 1, Point(t, v)))

Write(b, E, mt, t, v) ==
    LET slots == b.encoders[mt]
        SameTs(i) == slots[i].lastWriteAt = t
        Dup(i)    == ~HasLastEncoded(E, slots[i].enc)
                     \/ Val(LastEncoded(E, slots[i].enc)) = v
        stops == {i \in DOMAIN slots : (SameTs(i) /\ Dup(i)) \/ slots[i].lastWriteAt < t}
    IN IF mt = allMetricTypes THEN [b |-> b, E |-> E, err |-> "invalidMetricType"]
       ELSE IF stops = {} THEN WriteNewSlot(b, E, mt, t, v, GetEncoder(E))
       ELSE IF ~SameTs(Min(stops)) THEN WriteToIndex(b, E, mt, Min(stops), Point(t, v))
       ELSE IF HasLastEncoded(E, slots[Min(stops)].enc)
            THEN [b |-> b, E |-> E, err |-> "none"]
            ELSE [b |-> b, E |-> E, err |-> "noEncodedDatapoints"]

(* streams(ctx, mType): per selected class, the non-empty bootstrapped     *)
(* blocks whose Stream(ctx) succeeds, then the stream of every encoder     *)
(* that has one.  A bootstrapped block may be unretrieved, so its Stream   *)
(* reads the disk and can fail; ok is the outcome of those reads in this   *)
(* call (FALSE: every bootstrapped block's Stream fails and is skipped).   *)
ClassStreams(b, E, mt, ok) ==
    (IF ok THEN SelectSeq(b.bootstrapped[mt], LAMBDA bl : bl # <<>>) ELSE <<>>)
    \o SelectSeq([i \in DOMAIN b.encoders[mt] |-> Stream(E, b.encoders[mt][i].enc)],
                 LAMBDA s : s # <<>>)

Streams(b, E, mType, ok) ==
    IF mType = allMetricTypes
    THEN ClassStreams(b, E, realtimeType, ok) \o ClassStreams(b, E, outOfOrderType, ok)
    ELSE ClassStreams(b, E, mType, ok)

(* needsMerge() and the four single-source shortcuts it tests.             *)
EncodersEmpty(b, E, mt) ==
    \/ Len(b.encoders[mt]) = 0
    \/ Len(b.encoders[mt]) = 1 /\ EncLen(E, b.encoders[mt][1].enc) = 0

\* Mutant: the single-encoder shortcut forgets to count the encoders.
JustSingleEncoderNoCount(b, E, mt, other) ==
    /\ Len(b.bootstrapped[mt]) = 0
    /\ EncodersEmpty(b, E, other) /\ Len(b.bootstrapped[other]) = 0

JustSingleEncoder(b, E, mt, other) ==
    /\ Len(b.encoders[mt]) = 1 /\ Len(b.bootstrapped[mt]) = 0
    /\ EncodersEmpty(b, E, other) /\ Len(b.bootstrapped[other]) = 0

JustSingleBootstrapped(b, E, mt, other) ==
    /\ EncodersEmpty(b, E, mt) /\ Len(b.bootstrapped[mt]) = 1
    /\ EncodersEmpty(b, E, other) /\ Len(b.bootstrapped[other]) = 0

NeedsMerge(b, E) ==
    /\ ~Empty(b, E)
    /\ ~JustSingleEncoder(b, E, outOfOrderType, realtimeType)
    /\ ~JustSingleEncoder(b, E, realtimeType, outOfOrderType)
    /\ ~JustSingleBootstrapped(b, E, outOfOrderType, realtimeType)
    /\ ~JustSingleBootstrapped(b, E, realtimeType, outOfOrderType)

(* resetBootstrapped(mt): close the class's bootstrapped blocks and drop  *)
(* them (blocks are values here, so closing leaves nothing to record).     *)
ResetBootstrapped(b, mt) == [b EXCEPT !.bootstrapped[mt] = <<>>]

\* The timestamp of the last datapoint merged, zero time if there is none.
LastTs(out) == IF out = <<>> THEN NoTime ELSE Ts(Last(out))

\* The end of one class's pass, once encoding the merged datapoints gave r.
MergeClassDone(b, e, mt, n, lw, r) ==
    IF r.err # "none" THEN [b |-> b, E |-> r.E, err |-> r.err, n |-> n]
    ELSE [b |-> [ResetBootstrapped(b, mt) EXCEPT !.encoders[mt] = <<Slot(e, lw)>>],
          E |-> CloseEncoders(r.E, SlotIds(b, mt)),
          err |-> "none", n |-> n]

MergeClassOut(b, E, e, mt, n, out) ==
    MergeClassDone(b, e, mt, n, LastTs(out), EncodeAll(E, e, out))

MergeClassReaders(b, E, e, mt, readers) ==
    MergeClassOut(b, E, e, mt, Len(readers), MultiReaderIterate(readers))

\* Mutant: the replaced encoders are not closed (resetEncoders forgotten).
MergeClassKeepsOldOut(b, E, e, mt, out) ==
    LET r == EncodeAll(E, e, out)
    IN IF r.err # "none" THEN [b |-> b, E |-> r.E, err |-> r.err, n |-> 0]
       ELSE [b |-> [b EXCEPT !.encoders[mt] = <<Slot(e, LastTs(out))>>,
                             !.bootstrapped[mt] = <<>>],
             E |-> r.E, err |-> "none", n |-> 0]

MergeClassKeepsOld(b, E, e, mt, ok) ==
    MergeClassKeepsOldOut(b, E, e, mt, MultiReaderIterate(ClassStreams(b, E, mt, ok)))

\* Mutant: the merge readers leave out the bootstrapped blocks, which are
\* still dropped by resetBootstrapped.
MergeClassNoBootstrapped(b, E, e, mt, ok) ==
    MergeClassReaders(b, E, e, mt, ClassStreams([b EXCEPT !.bootstrapped[mt] = <<>>], E, mt, ok))

(* One pass of the loop of merge() for class mt, encoding into the one     *)
(* target encoder e taken before the loop: read every bootstrapped block   *)
(* whose Stream succeeds (a failing one is skipped, 749-750) then every    *)
(* encoder stream, iterate them into e; on an encode error return it with  *)
(* e as it is.  Otherwise close the class's encoders, drop all its         *)
(* bootstrapped blocks, streamed or not, and make e its only slot.         *)
MergeClass(b, E, e, mt, ok) == MergeClassReaders(b, E, e, mt, ClassStreams(b, E, mt, ok))

\* The outcome of merge() from the results m0, m1 of its two passes; m1 is
\* only looked at when the realtime pass succeeded.
MergeResult(m0, m1) ==
    IF m0.err # "none" THEN [b |-> m0.b, E |-> m0.E, err |-> m0.err, merges |-> 0]
    ELSE IF m1.err # "none" THEN [b |-> m1.b, E |-> m1.E, err |-> m1.err, merges |-> 0]
    ELSE [b |-> m1.b, E |-> m1.E, err |-> "none", merges |-> m0.n + m1.n]

MergeOutOfOrderPass(m0, e, ok) == MergeResult(m0, MergeClass(m0.b, m0.E, e, outOfOrderType, ok))

\* Mutant: the target encoder is reset at the start of every class's pass.
MergeOutOfOrderPassReset(m0, e, ok) ==
    MergeResult(m0, MergeClass(m0.b, ResetEncoder(m0.E, e), e, outOfOrderType, ok))

MergeResetPerClass(b, E, ok) ==
    IF ~NeedsMerge(b, E) THEN [b |-> b, E |-> E, err |-> "none", merges |-> 0]
    ELSE MergeOutOfOrderPassReset(MergeClass(b, ResetEncoder(E, GetEncoder(E)),
                                             GetEncoder(E), realtimeType, ok),
                                  GetEncoder(E), ok)

(* merge(): nothing unless needsMerge; otherwise one target encoder from   *)
(* the pool, the realtime pass, then the out-of-order pass.  An error      *)
(* returns at once, keeping what the passes before it did.                 *)
Merge(b, E, ok) ==
    IF ~NeedsMerge(b, E) THEN [b |-> b, E |-> E, err |-> "none", merges |-> 0]
    ELSE MergeOutOfOrderPass(MergeClass(b, ResetEncoder(E, GetEncoder(E)),
                                        GetEncoder(E), realtimeType, ok),
                             GetEncoder(E), ok)

\* The outcome of stream() once merge() gave m.
StreamResult(m, mt, ok) ==
    IF m.err # "none" THEN [b |-> m.b, E |-> m.E, err |-> m.err]
    ELSE IF Len(Streams(m.b, m.E, mt, ok)) # 1
    THEN [b |-> m.b, E |-> m.E, err |-> "moreThanOneStreamAfterMerge"]
    ELSE [b |-> m.b, E |-> m.E, err |-> "none"]

(* stream(ctx, mType): an empty bucket gives the empty reader; otherwise   *)
(* merge, then exactly one stream of the class is expected.               *)
BucketStream(b, E, mt, ok) ==
    IF Empty(b, E) THEN [b |-> b, E |-> E, err |-> "none"]
    ELSE StreamResult(Merge(b, E, ok), mt, ok)

=============================================================================
