------------------------------- MODULE Buffer -------------------------------
(***************************************************************************)
(* dbBuffer of src/src/dbnode/storage/series/buffer.go: the map of         *)
(* buckets by block start, the two-slot bucket cache, classification of a  *)
(* write as realtime or out of order against the clock, and the handlers   *)
(* Write, Tick, Bootstrap, ReadEncoded and Snapshot.  The buffer runs      *)
(* under the series lock, so each handler is one atomic step; the clock    *)
(* moves between handlers.                                                 *)
(*                                                                         *)
(* The ghost variables written and handed record what callers were told:   *)
(* the value of the last write at each timestamp that returned no error,   *)
(* and the blocks handed to Bootstrap.  lastErr is the error the last      *)
(* handler returned.                                                       *)
(***************************************************************************)
EXTENDS BucketOps

CONSTANTS
    Timestamps,              \* the datapoint timestamps writes may carry
    Values,                  \* the datapoint values
    BufferPast, BufferFuture,
    OutOfOrderWritesEnabled,
    BootstrapBlocks,         \* blocks Bootstrap may be handed: [start, pts]
    MaxNow,                  \* bound: the clock runs from 0 to MaxNow
    MaxWrites,               \* bound: number of Write calls
    StreamFaults,            \* whether a bootstrapped block's Stream may fail
    NoValue                  \* model value: no datapoint at a timestamp

\* Bootstrapped blocks are the blocks of distinct block starts.
ASSUME \A b1, b2 \in BootstrapBlocks : b1.start = b2.start => b1 = b2
ASSUME NoValue \notin Values
ASSUME /\ BlockSize > 0 /\ BufferPast >= 0 /\ BufferFuture >= 0
       /\ Timestamps \subseteq Nat /\ OutOfOrderWritesEnabled \in BOOLEAN
       /\ StreamFaults \in BOOLEAN

VARIABLES now, buckets, bucketCache, enc, written, handed, nWrites, lastErr

vars == <<now, buckets, bucketCache, enc, written, handed, nWrites, lastErr>>


NoBucket == -1
cacheSize == 2

BlockStarts == {Truncate(t) : t \in Timestamps}
BlockOf(s) == {t \in Timestamps : Truncate(t) = s}

(* isRealtime(now, t): strictly inside (now - bufferPast, now + bufferFuture). *)
IsRealtime(n, t) == n - BufferPast < t /\ t < n + BufferFuture
MetricTypeOf(n, t) == IF IsRealtime(n, t) THEN realtimeType ELSE outOfOrderType

(* lruBucketIdxInCache(): the first empty slot, else the slot whose bucket *)
(* was read least recently (the first of equals).                          *)
LruBucketIdx(cache, bks) ==
    IF \E i \in 1..cacheSize : cache[i] = NoBucket
    THEN Min({i \in 1..cacheSize : cache[i] = NoBucket})
    ELSE Min({i \in 1..cacheSize :
                \A j \in 1..cacheSize : bks[cache[i]].lastRead <= bks[cache[j]].lastRead})

(* The outcomes of the Stream(ctx) reads of bootstrapped blocks in one    *)
(* merge() or streams() call: a block not yet retrieved is read from disk  *)
(* and may fail (the error is dropped by the caller).                      *)
StreamOutcomes == IF StreamFaults THEN BOOLEAN ELSE {TRUE}

UpdateBucketCache(cache, bks, s) == [cache EXCEPT ![LruBucketIdx(cache, bks)] = s]

(* bucketAt(t) else newBucketAt(t): the bucket map after the lookup.       *)
AddBucket(bks, s, nb) ==
    [bks |-> [x \in DOMAIN bks \cup {s} |-> IF x = s THEN nb.b ELSE bks[x]], E |-> nb.E]

WithBucketAt(bks, E, s) ==
    IF s \in DOMAIN bks THEN [bks |-> bks, E |-> E] ELSE AddBucket(bks, s, NewBucket(E, s))

\* Bound: the pool holds the objects EncoderIds; a handler that could need
\* more objects than are left in it is not taken (a write needs one for a
\* new slot and two more for a new bucket).
PoolHas(n) == Cardinality(FreeEncoders(enc)) >= n

-----------------------------------------------------------------------------
Init ==
    /\ now = 0
    /\ buckets = [s \in {} |-> 0]
    /\ bucketCache = [i \in 1..cacheSize |-> NoBucket]
    /\ enc = [e \in EncoderIds |-> [live |-> FALSE, pts |-> <<>>]]
    /\ written = [t \in Timestamps |-> NoValue]
    /\ handed = {}
    /\ nWrites = 0
    /\ lastErr = "none"

\* The end of Write once the bucket lookup gave w and bucket.write gave r.
WriteCommit(t, v, s, w, r) ==
    /\ buckets' = [w.bks EXCEPT ![s] = r.b]
    /\ bucketCache' = UpdateBucketCache(bucketCache, w.bks, s)
    /\ enc' = r.E
    /\ written' = IF r.err = "none" THEN [written EXCEPT ![t] = v] ELSE written
    /\ lastErr' = r.err
    /\ UNCHANGED <<now, handed>>

WriteToBucket(t, v, s, mt, w) == WriteCommit(t, v, s, w, Write(w.bks[s], w.E, mt, t, v))

(* Write(ctx, t, v): classify against now; reject an out-of-order write if *)
(* those are disabled; otherwise find or create the bucket, put it in the  *)
(* cache and write to it.                                                  *)
WriteAt(t, v, s) ==
    /\ nWrites < MaxWrites
    /\ PoolHas(IF s \in DOMAIN buckets THEN 1 ELSE 3)
    /\ nWrites' = nWrites + 1
    /\ IF ~OutOfOrderWritesEnabled /\ MetricTypeOf(now, t) = outOfOrderType
       THEN /\ lastErr' = "outOfOrderWriteTimeNotEnabled"
            /\ UNCHANGED <<now, buckets, bucketCache, enc, written, handed>>
       ELSE WriteToBucket(t, v, s, MetricTypeOf(now, t), WithBucketAt(buckets, enc, s))

\* Mutant: the block start is not truncated to the block size.
BufferWriteUntruncated(t, v) == WriteAt(t, v, t)

BufferWrite(t, v) == WriteAt(t, v, Truncate(t))

(* Tick(): merge every bucket.  Buckets are visited in ascending start     *)
(* order (Go's map order; the order only renames pooled encoders).  ok is  *)
(* the outcome of the bootstrapped blocks' Stream reads during this Tick.  *)
RECURSIVE TickOver(_, _, _, _), TickRest(_, _, _, _, _)
TickRest(bks, s, m, todo, ok) == TickOver([bks EXCEPT ![s] = m.b], m.E, todo \ {s}, ok)

TickOver(bks, E, todo, ok) ==
    IF todo = {} THEN [bks |-> bks, E |-> E]
    ELSE TickRest(bks, Min(todo), Merge(bks[Min(todo)], E, ok), todo, ok)

TickCommit(r) == buckets' = r.bks /\ enc' = r.E

Tick ==
    /\ PoolHas(Cardinality(DOMAIN buckets))
    /\ \E ok \in StreamOutcomes : TickCommit(TickOver(buckets, enc, DOMAIN buckets, ok))
    /\ lastErr' = "none"
    /\ UNCHANGED <<now, bucketCache, written, handed, nWrites>>

BootstrapCommit(bl, w) ==
    /\ buckets' = [w.bks EXCEPT ![bl.start] = BootstrapBlock(@, now, bl.pts)]
    /\ enc' = w.E

(* Bootstrap(bl): the bucket at the block's start, created if absent,      *)
(* takes the block.  Each block of BootstrapBlocks is handed over once.    *)
BufferBootstrap(bl) ==
    /\ bl \notin handed
    /\ PoolHas(2)
    /\ BootstrapCommit(bl, WithBucketAt(buckets, enc, bl.start))
    /\ handed' = handed \cup {bl}
    /\ lastErr' = "none"
    /\ UNCHANGED <<now, bucketCache, written, nWrites>>

(* ReadEncoded(ctx, start, end): the streams of every non-empty bucket     *)
(* overlapping [start, end); each such bucket's lastRead becomes now.      *)
ReadEncoded(start, end) ==
    LET hit == {s \in DOMAIN buckets :
                  ~Empty(buckets[s], enc) /\ start < s + BlockSize /\ s < end}
    IN /\ hit # {}
       /\ buckets' = [s \in DOMAIN buckets |->
                        IF s \in hit THEN [buckets[s] EXCEPT !.lastRead = now]
                        ELSE buckets[s]]
       /\ lastErr' = "none"
       /\ UNCHANGED <<now, bucketCache, enc, written, handed, nWrites>>

SnapshotCommit(s, r) ==
    /\ buckets' = [buckets EXCEPT ![s] = r.b]
    /\ enc' = r.E
    /\ lastErr' = r.err

(* Snapshot(ctx, mType, blockStart): stream(ctx, mType) of the bucket, or  *)
(* errStreamDidNotExistForBlock.                                           *)
Snapshot(mt, s) ==
    /\ PoolHas(1)
    /\ IF s \in DOMAIN buckets
       THEN \E ok \in StreamOutcomes : SnapshotCommit(s, BucketStream(buckets[s], enc, mt, ok))
       ELSE /\ lastErr' = "streamDidNotExistForBlock"
            /\ UNCHANGED <<buckets, enc>>
    /\ UNCHANGED <<now, bucketCache, written, handed, nWrites>>

(* The clock moves on between handlers.                                    *)
AdvanceTime ==
    /\ now < MaxNow
    /\ now' = now + 1
    /\ UNCHANGED <<buckets, bucketCache, enc, written, handed, nWrites, lastErr>>

Next ==
    \/ \E t \in Timestamps, v \in Values : BufferWrite(t, v)
    \/ Tick
    \/ \E bl \in BootstrapBlocks : BufferBootstrap(bl)
    \/ \E s, e \in BlockStarts : s <= e /\ ReadEncoded(s, e + BlockSize)
    \/ \E mt \in MetricTypes, s \in BlockStarts : Snapshot(mt, s)
    \/ AdvanceTime

Spec == Init /\ [][Next]_vars


-----------------------------------------------------------------------------
(* What a reader sees: the streams ReadEncoded returns for a block, merged *)
(* by the caller's multi-reader iterator, and what it should see: at each  *)
(* timestamp the last acknowledged write, else the bootstrapped datapoint. *)
(* The read is one whose Stream calls succeed.                             *)
ReadSeq(s) ==
    IF s \in DOMAIN buckets
    THEN MultiReaderIterate(Streams(buckets[s], enc, allMetricTypes, TRUE))
    ELSE <<>>

BootValue(t) ==
    IF \E bl \in handed : \E p \in Range(bl.pts) : Ts(p) = t
    THEN Val(CHOOSE p \in UNION {Range(bl.pts) : bl \in handed} : Ts(p) = t)
    ELSE NoValue

Expected(t) == IF written[t] # NoValue THEN written[t] ELSE BootValue(t)

\* The value a reader gets at t: the last datapoint at t the iterator emits.
LastValueAt(rs, t) ==
    LET at == {i \in DOMAIN rs : Ts(rs[i]) = t}
    IN IF at = {} THEN NoValue ELSE Val(rs[Max(at)])

ReadValue(t) == LastValueAt(ReadSeq(Truncate(t)), t)

\* The slots of all buckets that hold encoder e.
Holders(e) ==
    UNION {{<<s, mt, i>> : i \in {j \in DOMAIN buckets[s].encoders[mt] :
                                     buckets[s].encoders[mt][j].enc = e}} :
           s \in DOMAIN buckets, mt \in MetricTypes}

\* Types of the buffer's state.
TypeOK ==
    /\ now \in 0..MaxNow
    /\ DOMAIN buckets \subseteq BlockStarts
    /\ \A s \in DOMAIN buckets :
          /\ buckets[s].start = s
          /\ \A mt \in MetricTypes :
                \A i \in DOMAIN buckets[s].encoders[mt] :
                   buckets[s].encoders[mt][i] \in
                      [enc : EncoderIds, lastWriteAt : Timestamps \cup {NoTime}]
    /\ \A i \in 1..cacheSize : bucketCache[i] \in BlockStarts \cup {NoBucket}
    /\ \A e \in EncoderIds : enc[e].live \in BOOLEAN
    /\ written \in [Timestamps -> Values \cup {NoValue}]
    /\ handed \subseteq BootstrapBlocks
    /\ nWrites \in 0..MaxWrites

ReadTimestamps(s) == {Ts(p) : p \in Range(ReadSeq(s))}

(* A read of a block returns a datapoint at exactly the timestamps that    *)
(* were written or bootstrapped in that block: write(), merge() and the    *)
(* encoder pool together neither lose a datapoint nor show one of another  *)
(* block.  A Stream failure of a bootstrapped block during a merge is     *)
(* possible exactly when StreamFaults is TRUE.                             *)
ReadKeepsEveryTimestamp ==
    \A s \in BlockStarts :
        ReadTimestamps(s) = {t \in BlockOf(s) : Expected(t) # NoValue}

(* Every encoder taken from the pool is referred to by some bucket slot:   *)
(* merge() and write() give back every encoder they take or replace.       *)
NoEncoderLeak == \A e \in EncoderIds : enc[e].live => Holders(e) # {}

Store == INSTANCE BufferStore
            WITH store <- [t \in Timestamps |-> ReadValue(t)], acked <- written

(* The buffer implements the last-write-wins store: what reads return is   *)
(* changed only by a write (to the value written, spec.md 8.2) or by a     *)
(* bootstrap (where nothing was written), never by a tick, merge or read,  *)
(* and a write() that returns nil is visible to the next read.             *)
BufferImplementsStore == Store!Spec

(* Bucket.stream()'s guard errMoreThanOneStreamAfterMerge "should never   *)
(* happen": Snapshot never returns it.                                     *)
SnapshotGuardHolds == lastErr # "moreThanOneStreamAfterMerge"

(* After a Tick every bucket has exactly one encoder per class (spec.md    *)
(* S4): merge() collapses a class's encoders and bootstrapped blocks.      *)
TickCollapsesEncoders ==
    [][Tick => \A s \in DOMAIN buckets' : \A mt \in MetricTypes :
                  Len(buckets'[s].encoders[mt]) = 1]_vars

====
