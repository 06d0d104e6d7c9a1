------------------------------- MODULE Series -------------------------------
(***************************************************************************)
(* dbSeries of src/storage/series/series.go: the buffer, the map of        *)
(* drained blocks with its sealed flag, the bootstrap state machine and    *)
(* pendingBootstrap, Tick's two lock sections, Flush, Close and Reset.     *)
(*                                                                         *)
(* series.go is written against a buffer with NeedsDrain, DrainAndReset,   *)
(* MinMax and a drain callback (bufferDrained), which buffer.go of this    *)
(* repository does not have.  That buffer is modelled here by its contract *)
(* (spec.md 4.3, 4.4 and the comments of series.go): a last-write-wins map *)
(* from timestamps to values that, once a block is a full bufferPast      *)
(* behind the clock, hands the block's datapoints to bufferDrained.        *)
(*                                                                         *)
(* Every method runs under the series lock and is one step, except Tick,   *)
(* whose read-locked check and write-locked update are two steps of the    *)
(* tick process, and Flush, which persists after releasing the lock.       *)
(* The ghosts written and disk are what callers wrote and what the         *)
(* bootstrapper handed in; persistLog is every call of persistFn.          *)
(***************************************************************************)
EXTENDS Encoding

CONSTANTS
    Timestamps, Values, NoValue,
    BlockSize, BufferPast, BufferFuture,
    RetentionPeriod, ShortExpiry, ShortExpiryPeriod,
    BootstrapInputs,   \* block maps the bootstrapper may hand in: start -> Seq(Point)
    NilBlocks,         \* model value: Bootstrap(nil)
    Ids, NoId,         \* series identities; NoId once the id is closed
    MaxNow,            \* bound: the clock runs from 0 to MaxNow
    MaxWrites,         \* bound: number of Write calls
    MaxCloses          \* bound: number of Close calls

ASSUME NoValue \notin Values /\ NoId \notin Ids /\ NilBlocks \notin BootstrapInputs

VARIABLES
    now, id, bs, blocks, buf, pending,
    tickPc, tickDrain, tickUpdate,
    flushPc, flushStart, flushSeg, flushFrom, persistLog,
    written, disk, nWrites, nCloses

vars == <<now, id, bs, blocks, buf, pending, tickPc, tickDrain, tickUpdate,
          flushPc, flushStart, flushSeg, flushFrom, persistLog,
          written, disk, nWrites, nCloses>>

Truncate(t) == t - (t % BlockSize)
BlockStarts == {Truncate(t) : t \in Timestamps}
NoBlocks == [s \in {} |-> <<>>]
EmptyBuffer == [t \in Timestamps |-> NoValue]
\* Timestamps and block starts in ascending order.
TimeOrder == SetToSortSeq(Timestamps, <)
StartOrder == SetToSortSeq(BlockStarts, <)

-----------------------------------------------------------------------------
(* The buffer's contract (spec_modelled).                                  *)

\* Realtime iff now - bufferPast < t < now + bufferFuture.
IsRealtime(n, t) == n - BufferPast < t /\ t < n + BufferFuture

\* A block no realtime write can reach any more: drained by DrainAndReset.
Drainable(n, s) == s + BlockSize <= n - BufferPast

\* The datapoints the buffer holds for block s, in timestamp order.
BufPoints(b, s) ==
    LET q == SelectSeq(TimeOrder, LAMBDA t : Truncate(t) = s /\ b[t] # NoValue)
    IN [i \in 1..Len(q) |-> Point(q[i], b[q[i]])]

BufIsEmpty(b) == \A t \in Timestamps : b[t] = NoValue

NeedsDrain(b, n) == \E t \in Timestamps : b[t] # NoValue /\ Drainable(n, Truncate(t))

\* The blocks DrainAndReset hands to bufferDrained, in ascending order.
DrainStarts(b, n) ==
    SelectSeq(StartOrder, LAMBDA s : Drainable(n, s) /\ BufPoints(b, s) # <<>>)

\* After the drain, the earliest bucket start the buffer keeps.
BufMin(n) == Truncate(n - BufferPast)

\* buffer.Bootstrap(block): bootstrapped data is older than buffered data.
BufBootstrap(b, pts) ==
    [t \in Timestamps |->
        IF b[t] = NoValue /\ \E i \in DOMAIN pts : Ts(pts[i]) = t
        THEN Val(pts[CHOOSE i \in DOMAIN pts : Ts(pts[i]) = t]) ELSE b[t]]

\* DatabaseSeriesBlocks.AddBlock: an unsealed block unseals the container.
AddBlock(bc, s, pts) ==
    [elems  |-> (s :> [pts |-> pts, sealed |-> FALSE]) @@ bc.elems,
     sealed |-> FALSE]

-----------------------------------------------------------------------------
(* drainBufferedEncoderWithLock(blocks, start, enc): nothing for an empty  *)
(* stream; a new block if there is none at start; otherwise the           *)
(* multi-reader merge of [buffered stream, existing block] replaces it.    *)
\* Mutant: the buffered stream replaces the existing block.
DrainIntoReplace(bc, s, pts) == IF pts = <<>> THEN bc ELSE AddBlock(bc, s, pts)

DrainInto(bc, s, pts) ==
    IF pts = <<>> THEN bc
    ELSE IF s \notin DOMAIN bc.elems THEN AddBlock(bc, s, pts)
    ELSE AddBlock(bc, s, MultiReaderIterate(<<pts, bc.elems[s].pts>>))

RECURSIVE ReplayPending(_, _)
ReplayPending(bc, ps) ==
    IF ps = <<>> THEN bc
    ELSE ReplayPending(DrainInto(bc, Head(ps).start, Head(ps).pts), Tail(ps))

\* bufferDrained(start, enc) on the part st = [blocks, pending] of the series.
BufferDrained(st, state, s, pts) ==
    IF state # "bootstrapped"
    THEN [st EXCEPT !.pending = Append(@, [start |-> s, pts |-> pts])]
    ELSE IF s \notin DOMAIN st.blocks.elems
    THEN [st EXCEPT !.blocks = AddBlock(@, s, pts)]
    ELSE [st EXCEPT !.blocks = DrainInto(@, s, pts)]

\* DrainAndReset: every drainable block goes to bufferDrained, then leaves
\* the buffer.
RECURSIVE DrainEach(_, _, _, _)
DrainEach(st, state, b, ss) ==
    IF ss = <<>> THEN st
    ELSE DrainEach(BufferDrained(st, state, Head(ss), BufPoints(b, Head(ss))),
                   state, b, Tail(ss))

DrainedBuffer(b, n) ==
    [t \in Timestamps |-> IF Drainable(n, Truncate(t)) THEN NoValue ELSE b[t]]

DrainAndReset(st, state, b, n) ==
    [DrainEach(st, state, b, DrainStarts(b, n)) EXCEPT !.buf = DrainedBuffer(b, n)]

-----------------------------------------------------------------------------
(* Block maintenance.                                                      *)

ShouldExpire(n, s) ==
    IF ShortExpiry
    THEN s < Truncate(n - ShortExpiryPeriod - BlockSize)
    ELSE s < Truncate(n - RetentionPeriod)

ShouldSeal(n, s) == s <= Truncate(n - BufferPast - BlockSize)

MinBlockStart(bc) == Min(DOMAIN bc.elems)

\* Mutant: only expiry makes a block update necessary.
NeedsBlockUpdateExpiryOnly(bc, n) ==
    DOMAIN bc.elems # {} /\ ShouldExpire(n, MinBlockStart(bc))

NeedsBlockUpdate(bc, n) ==
    /\ DOMAIN bc.elems # {}
    /\ ShouldExpire(n, MinBlockStart(bc)) \/ ~bc.sealed

(* updateBlocksWithLock: expire, seal what is past bufferPast, and seal    *)
(* the container when no kept block is left unsealed.                      *)
UpdateBlocks(bc, n) ==
    LET kept == {s \in DOMAIN bc.elems : ~ShouldExpire(n, s)}
    IN [elems  |-> [s \in kept |->
                      [bc.elems[s] EXCEPT !.sealed = @ \/ ShouldSeal(n, s)]],
        sealed |-> bc.sealed \/ \A s \in kept : bc.elems[s].sealed \/ ShouldSeal(n, s)]

-----------------------------------------------------------------------------
(* IsEmpty: no block in the map and nothing in the buffer.                 *)
IsEmpty == DOMAIN blocks.elems = {} /\ BufIsEmpty(buf)

IsBootstrapped == bs = "bootstrapped"

-----------------------------------------------------------------------------
Init ==
    /\ now = 0
    /\ id \in Ids
    /\ bs = "notStarted"
    /\ blocks = [elems |-> NoBlocks, sealed |-> FALSE]
    /\ buf = EmptyBuffer
    /\ pending = <<>>
    /\ tickPc = "idle" /\ tickDrain = FALSE /\ tickUpdate = FALSE
    /\ flushPc = "idle" /\ flushStart = 0 /\ flushSeg = <<>> /\ flushFrom = NoId
    /\ persistLog = {}
    /\ written = EmptyBuffer
    /\ disk = EmptyBuffer
    /\ nWrites = 0 /\ nCloses = 0

\* Commit of a series-state record st = [blocks, pending, buf].
Commit(st) == blocks' = st.blocks /\ pending' = st.pending /\ buf' = st.buf

SeriesState == [blocks |-> blocks, pending |-> pending, buf |-> buf]

(* Write: under the lock, buffer.Write drains what needs draining, then   *)
(* upserts the datapoint; a write outside the realtime window fails.       *)
Write(t, v) ==
    /\ id # NoId
    /\ nWrites < MaxWrites
    /\ nWrites' = nWrites + 1
    /\ IsRealtime(now, t)
    /\ Commit([DrainAndReset(SeriesState, bs, buf, now) EXCEPT !.buf[t] = v])
    /\ written' = [written EXCEPT ![t] = v]
    /\ UNCHANGED <<now, id, bs, tickPc, tickDrain, tickUpdate, flushPc, flushStart,
                   flushSeg, flushFrom, persistLog, disk, nCloses>>

(* Tick, first lock section (read lock): IsEmpty returns                  *)
(* ErrSeriesAllDatapointsExpired and a tick with nothing to do returns     *)
(* early; otherwise needsDrain and needsBlockUpdate are kept and the lock  *)
(* is released before the write lock is taken.                             *)
TickCheck ==
    /\ tickPc = "idle"
    /\ id # NoId
    /\ ~IsEmpty
    /\ NeedsDrain(buf, now) \/ NeedsBlockUpdate(blocks, now)
    /\ tickPc' = "locked"
    /\ tickDrain' = NeedsDrain(buf, now)
    /\ tickUpdate' = NeedsBlockUpdate(blocks, now)
    /\ UNCHANGED <<now, id, bs, blocks, buf, pending, flushPc, flushStart, flushSeg,
                   flushFrom, persistLog, written, disk, nWrites, nCloses>>

\* The block update of the second section, on the state the drain left.
TickUpdateCommit(st) ==
    Commit(IF tickUpdate THEN [st EXCEPT !.blocks = UpdateBlocks(@, now)] ELSE st)

(* Tick, second lock section: drain and update as decided under the read  *)
(* lock, whatever happened in between.                                     *)
TickApply ==
    /\ tickPc = "locked"
    /\ TickUpdateCommit(IF tickDrain THEN DrainAndReset(SeriesState, bs, buf, now)
                        ELSE SeriesState)
    /\ tickPc' = "idle" /\ tickDrain' = FALSE /\ tickUpdate' = FALSE
    /\ UNCHANGED <<now, id, bs, flushPc, flushStart, flushSeg, flushFrom,
                   persistLog, written, disk, nWrites, nCloses>>

-----------------------------------------------------------------------------
(* Bootstrap(blocks).                                                      *)

\* Bootstrap blocks at or after the buffer's min go to buffer.Bootstrap and
\* leave the map.
RECURSIVE HandToBuffer(_, _, _)
HandToBuffer(b, B, ss) ==
    IF ss = {} THEN b
    ELSE LET s == Min(ss) IN HandToBuffer(BufBootstrap(b, B[s]), B, ss \ {s})

\* Mutant: blocks handed to buffer.Bootstrap are not removed from the map.
BootstrapCommitKeepAll(st, B) ==
    LET bc == [elems |-> [s \in DOMAIN B |-> [pts |-> B[s], sealed |-> FALSE]],
               sealed |-> FALSE]
    IN /\ buf' = HandToBuffer(st.buf, B, {s \in DOMAIN B : s >= BufMin(now)})
       /\ blocks' = ReplayPending(bc, st.pending)
       /\ pending' = <<>>

\* The state after DrainAndReset while bootstrapping: hand on what the
\* buffer does not keep, replay pendingBootstrap into the result, commit.
BootstrapCommit(st, B) ==
    LET min  == BufMin(now)
        kept == {s \in DOMAIN B : s < min}
        bc   == [elems |-> [s \in kept |-> [pts |-> B[s], sealed |-> FALSE]],
                 sealed |-> FALSE]
    IN /\ buf' = HandToBuffer(st.buf, B, DOMAIN B \ kept)
       /\ blocks' = ReplayPending(bc, st.pending)
       /\ pending' = <<>>

\* The ghost of what the bootstrapper handed in.
DiskOf(B) ==
    [t \in Timestamps |->
        IF Truncate(t) \in DOMAIN B /\ \E i \in DOMAIN B[Truncate(t)] : Ts(B[Truncate(t)][i]) = t
        THEN Val(B[Truncate(t)][CHOOSE i \in DOMAIN B[Truncate(t)] : Ts(B[Truncate(t)][i]) = t])
        ELSE NoValue]

\* Mutant: the state is left bootstrapping.
BootstrapUnfinished(B) ==
    /\ id # NoId
    /\ bs = "notStarted"
    /\ IF B = NilBlocks
       THEN /\ blocks' = ReplayPending(blocks, pending)
            /\ pending' = <<>>
            /\ disk' = EmptyBuffer
            /\ UNCHANGED buf
       ELSE /\ BootstrapCommit(DrainAndReset(SeriesState, "bootstrapping", buf, now), B)
            /\ disk' = DiskOf(B)
    /\ bs' = "bootstrapping"
    /\ UNCHANGED <<now, id, tickPc, tickDrain, tickUpdate, flushPc, flushStart,
                   flushSeg, flushFrom, persistLog, written, nWrites, nCloses>>

(* Bootstrap: a bootstrapped series returns at once; otherwise the buffer *)
(* is drained with the state bootstrapping, so drained blocks join         *)
(* pendingBootstrap.  With nil blocks the pending blocks are replayed into *)
(* the series' own blocks.  Then the state is bootstrapped.                *)
Bootstrap(B) ==
    /\ id # NoId
    /\ bs = "notStarted"
    /\ IF B = NilBlocks
       THEN /\ blocks' = ReplayPending(blocks, pending)
            /\ pending' = <<>>
            /\ disk' = EmptyBuffer
            /\ UNCHANGED buf
       ELSE /\ BootstrapCommit(DrainAndReset(SeriesState, "bootstrapping", buf, now), B)
            /\ disk' = DiskOf(B)
    /\ bs' = "bootstrapped"
    /\ UNCHANGED <<now, id, tickPc, tickDrain, tickUpdate, flushPc, flushStart,
                   flushSeg, flushFrom, persistLog, written, nWrites, nCloses>>

-----------------------------------------------------------------------------
(* Flush(blockStart, persistFn): under the read lock, an unbootstrapped   *)
(* series fails, a missing or empty block is nothing to do, else the       *)
(* block's stream is taken; persistFn(s.id, segment) runs after the        *)
(* unlock and reads s.id then.                                             *)
FlushRead(s) ==
    /\ flushPc = "idle"
    /\ id # NoId
    /\ bs = "bootstrapped"
    /\ s \in DOMAIN blocks.elems
    /\ blocks.elems[s].pts # <<>>
    /\ flushPc' = "persisting"
    /\ flushStart' = s /\ flushSeg' = blocks.elems[s].pts /\ flushFrom' = id
    /\ UNCHANGED <<now, id, bs, blocks, buf, pending, tickPc, tickDrain, tickUpdate,
                   persistLog, written, disk, nWrites, nCloses>>

FlushPersist ==
    /\ flushPc = "persisting"
    /\ persistLog' = persistLog \cup
          {[id |-> id, from |-> flushFrom, start |-> flushStart, seg |-> flushSeg]}
    /\ flushPc' = "idle"
    /\ UNCHANGED <<now, id, bs, blocks, buf, pending, tickPc, tickDrain, tickUpdate,
                   flushStart, flushSeg, flushFrom, written, disk, nWrites, nCloses>>

-----------------------------------------------------------------------------
(* Close: the id is closed, the buffer reset, the blocks closed and        *)
(* pendingBootstrap dropped; the bootstrap state is left as it is.         *)
Close ==
    /\ id # NoId
    /\ nCloses < MaxCloses
    /\ nCloses' = nCloses + 1
    /\ id' = NoId
    /\ buf' = EmptyBuffer
    /\ blocks' = [elems |-> NoBlocks, sealed |-> FALSE]
    /\ pending' = <<>>
    /\ written' = EmptyBuffer /\ disk' = EmptyBuffer
    /\ UNCHANGED <<now, bs, tickPc, tickDrain, tickUpdate, flushPc, flushStart,
                   flushSeg, flushFrom, persistLog, nWrites>>

(* Reset(id): the pooled series takes a new id and starts over, not        *)
(* bootstrapped.                                                           *)
Reset(i) ==
    /\ id = NoId
    /\ id' = i
    /\ buf' = EmptyBuffer
    /\ blocks' = [elems |-> NoBlocks, sealed |-> FALSE]
    /\ pending' = <<>>
    /\ bs' = "notStarted"
    /\ UNCHANGED <<now, tickPc, tickDrain, tickUpdate, flushPc, flushStart, flushSeg,
                   flushFrom, persistLog, written, disk, nWrites, nCloses>>

AdvanceTime ==
    /\ now < MaxNow
    /\ now' = now + 1
    /\ UNCHANGED <<id, bs, blocks, buf, pending, tickPc, tickDrain, tickUpdate,
                   flushPc, flushStart, flushSeg, flushFrom, persistLog,
                   written, disk, nWrites, nCloses>>

Next ==
    \/ \E t \in Timestamps, v \in Values : Write(t, v)
    \/ TickCheck
    \/ TickApply
    \/ \E B \in BootstrapInputs \cup {NilBlocks} : Bootstrap(B)
    \/ \E s \in BlockStarts : FlushRead(s)
    \/ FlushPersist
    \/ Close
    \/ \E i \in Ids : Reset(i)
    \/ AdvanceTime

Spec == Init /\ [][Next]_vars

\* The periodic shard tick keeps calling Tick on every series.
FairSpec == Spec /\ WF_vars(TickCheck) /\ WF_vars(TickApply)

-----------------------------------------------------------------------------
(* What ReadEncoded returns for block s: the block's stream, then the      *)
(* buffer's; the caller merges them and the later source wins a tie.       *)
ReadSeq(s) ==
    (IF s \in DOMAIN blocks.elems /\ blocks.elems[s].pts # <<>>
     THEN <<blocks.elems[s].pts>> ELSE <<>>)
    \o (IF BufPoints(buf, s) # <<>> THEN <<BufPoints(buf, s)>> ELSE <<>>)

ValueIn(pts, t) ==
    IF \E i \in DOMAIN pts : Ts(pts[i]) = t
    THEN Val(pts[CHOOSE i \in DOMAIN pts : Ts(pts[i]) = t]) ELSE NoValue

ReadValue(t) == ValueIn(MultiReaderIterate(ReadSeq(Truncate(t))), t)

Known(t) == written[t] # NoValue \/ disk[t] # NoValue

Live(t) == ~ShouldExpire(now, Truncate(t))

Settled(s) ==
    /\ BufPoints(buf, s) = <<>>
    /\ s \in DOMAIN blocks.elems => blocks.elems[s].sealed

Serving == id # NoId /\ IsBootstrapped

-----------------------------------------------------------------------------
TypeOK ==
    /\ now \in 0..MaxNow
    /\ id \in Ids \cup {NoId}
    /\ bs \in {"notStarted", "bootstrapped"}
    /\ DOMAIN blocks.elems \subseteq BlockStarts /\ blocks.sealed \in BOOLEAN
    /\ buf \in [Timestamps -> Values \cup {NoValue}]
    /\ \A i \in DOMAIN pending : pending[i].start \in BlockStarts
    /\ tickPc \in {"idle", "locked"} /\ flushPc \in {"idle", "persisting"}
    /\ written \in [Timestamps -> Values \cup {NoValue}]
    /\ nWrites \in 0..MaxWrites /\ nCloses \in 0..MaxCloses

(* Once bootstrapped, a read of a block returns exactly the timestamps     *)
(* written or bootstrapped into it that have not expired: drains during    *)
(* writes and ticks, pendingBootstrap replayed into the bootstrap blocks,  *)
(* blocks handed back to the buffer, and expiry lose nothing and invent    *)
(* nothing.                                                                *)
ReadKeepsEveryTimestamp ==
    Serving =>
        \A t \in Timestamps :
            /\ ReadValue(t) # NoValue => Known(t)
            /\ Known(t) /\ Live(t) => ReadValue(t) # NoValue

(* A sealed block is never changed: it stays as it is until it expires or  *)
(* the series is closed or reset.  Drains after bootstrap (Write, Tick)    *)
(* must never reach a block that the tick already sealed.                   *)
SealedBlockImmutable ==
    [][\A s \in DOMAIN blocks.elems :
          blocks.elems[s].sealed =>
              \/ s \notin DOMAIN blocks'.elems
              \/ blocks'.elems[s] = blocks.elems[s]]_vars

(* Every block that a bootstrapped series holds, in the buffer or in the    *)
(* block map, is eventually drained and sealed once it is a full           *)
(* bufferPast behind the clock (Tick's drain, updateBlocksWithLock and the *)
(* container's sealed flag), unless the series is closed or reset first.   *)
EventuallySealed ==
    \A s \in BlockStarts :
        (Serving /\ ShouldSeal(now, s)) ~> (Settled(s) \/ ~Serving)

(* Last write wins across bootstrap (spec.md I4, 9.2): a read returns the  *)
(* last value acknowledged for a timestamp, even when the write was        *)
(* drained into pendingBootstrap and a bootstrapped block holds the same   *)
(* timestamp.                                                               *)
SeriesLastWriteWins ==
    Serving =>
        \A t \in Timestamps : written[t] # NoValue /\ Live(t) => ReadValue(t) = written[t]

(* Flush hands persistFn the id of the series the segment was read from.   *)
FlushAttributesSegment ==
    \A r \in persistLog : r.id = r.from

====
