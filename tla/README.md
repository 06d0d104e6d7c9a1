# TLA+ models of the m3 series, its buffer, the etcd kv client and mapping rules

This directory holds TLC-checkable models of the per-series write buffer in
`src/src/dbnode/storage/series/buffer.go`. It also covers the collaborators that
buffer relies on, the etcd kv client, and the metrics mapping rules with their
resolution table. It records the plan for the remaining components of the
repository.

## The system

| Part | Source | Role |
|---|---|---|
| Encoder, multi-reader iterator | not in this repository (spec.md 4.1, 6) | Pooled, append-only columnar encoder. The k-way merge of encoder streams lets the later source win equal timestamps. |
| Bucket (`dbBucket`) | buffer.go 388-815 | One block start. Per metric class (realtime, out of order) it holds a stack of encoder slots `{encoder, lastWriteAt}` and a list of bootstrapped blocks. |
| Buffer (`dbBuffer`) | buffer.go 55-386 | Map from block start to bucket, plus a two-entry LRU bucket cache. It classifies each write as realtime or out of order against the clock. `Tick` merges every bucket. |
| Series (`dbSeries`) | src/storage/series/series.go | Owns the buffer and the sealed blocks. Runs the bootstrap state machine, drain, seal, expire and flush. |
| etcd kv client | src/src/cluster/kv/etcd/store.go | Get/Set/CheckAndSet. Watches run through a per-key goroutine with cleanup, and values are cached by revision and written to a cache file. |
| Mapping rule | src/src/metrics/rules/mapping.go | A versioned rule: a history of snapshots, each in effect from its cutover time, which can be tombstoned and revived, and written to and read from its protobuf form. |
| Resolution table | src/src/metrics/policy/resolution.go | The supported resolutions and their enum values, with the inverse table built at package init. |

**Data flow.** Series.Write calls Buffer.Write, which calls bucket.write into one
encoder slot. A read asks every non-empty bucket for its streams, and the caller
merges them with the multi-reader iterator. Tick calls merge() on each bucket,
which rewrites all slots and bootstrapped blocks of a class into one encoder.
Every handler of the buffer runs under the series lock, so each handler is one
atomic step. What interleaves is the order of handlers and the clock.

## Modules

- **`Encoding.tla`** models the encoder pool as a function from encoder
  identities to `[live, pts]`. Identities matter because buffer.go keeps
  references to encoders it has closed, and the pool reuses them.
  - `Encode` follows spec.md 4.1: closed, out of order, duplicate no-op, append.
  - `MultiReaderIterate` is a RECURSIVE k-way merge where the later source wins
    ties.
  - These are the only operators marked `spec_modelled` in the map.
- **`BucketOps.tla`** models each `dbBucket` method as an operator on a bucket
  record and the pool. Each one returns `[b, E, err]`, just as the Go method
  mutates the bucket and returns an error.
  - `Write` keeps the exact scan of `write()`: stop at a duplicate, stop at the
    first slot with an earlier `lastWriteAt`, otherwise append a new slot, and
    remove it again if encoding fails.
  - `Merge` keeps the single target encoder taken before the class loop, and the
    early return on an encode error.
- **`Buffer.tla`** models `dbBuffer`.
  - Variables:

    | Variable | Models |
    |---|---|
    | `now` | `nowFn` |
    | `buckets` | the map |
    | `bucketCache` | the cache, as block starts |
    | `enc` | the pool |
    | `written`, `handed` | ghost variables: the last acknowledged write per timestamp, and the blocks handed to Bootstrap |
    | `nWrites` | the write bound |
    | `lastErr` | the error the last handler returned |

  - Actions, one per handler: `BufferWrite`, `Tick`, `BufferBootstrap`,
    `ReadEncoded`, `Snapshot`, and `AdvanceTime` for the clock.
  - `FetchBlocks`, `FetchBlocksMetadata` and `streamsLen` change no state and
    are left out.
  - `StreamFaults` says whether the `Stream(ctx)` of a bootstrapped block may
    fail. Such a block may not have been retrieved yet, and then it reads the
    disk. `Tick` and `Snapshot` choose the outcome (`\E ok \in
    StreamOutcomes`), and `streams()` and `merge()` skip a failing block, as
    buffer.go:582 and 749-750 do. A read (`ReadSeq`) is taken on the
    successful path.
- **`BufferStore.tla`** is the abstract contract: a last-write-wins map from
  timestamps to values. A bootstrapped block only fills timestamps that were
  never written. `Buffer` maps onto it through
  `store <- [t |-> ReadValue(t)], acked <- written`.
- **`MCBuffer.tla`** extends Buffer and defines the bootstrap block used by the
  cfgs.
- **`Series.tla`** models `dbSeries` (src/storage/series/series.go).
  - series.go is written against an older buffer API (`NeedsDrain`,
    `DrainAndReset`, `MinMax`, and a drain callback passed to
    `newDatabaseBuffer`) that this buffer.go does not have. That buffer is
    modelled by its contract (spec.md 4.3, 4.4): a last-write-wins map from
    timestamp to value, realtime writes only, which hands a block to
    `bufferDrained` once it is a full bufferPast behind the clock. These
    operators are `spec_modelled` in the map. The concrete Buffer does not meet
    this contract (run `lww`), so Series checks the series logic on its own
    terms.
  - Variables:

    | Variable | Models |
    |---|---|
    | `now` | the clock |
    | `id` | `s.id` (`NoId` once closed) |
    | `bs` | the bootstrap state |
    | `blocks` | `s.blocks`, as `[elems, sealed]` with each block's datapoints and sealed flag |
    | `buf` | the buffer |
    | `pending` | `pendingBootstrap` |
    | `tickPc`, `tickDrain`, `tickUpdate` | the tick between its two lock sections |
    | `flushPc`, `flushStart`, `flushSeg`, `flushFrom` | a flush between its read and `persistFn` |
    | `persistLog` | every `persistFn` call |
    | `written`, `disk` | ghost variables: acknowledged writes and the bootstrap input |

  - Actions: `Write`, `TickCheck` and `TickApply`, `Bootstrap(B)` with
    `B` a disk input or nil, `FlushRead` and `FlushPersist`, `Close`, `Reset`,
    and `AdvanceTime`.
  - `Bootstrap` is one step, because the bootstrapping state is set and cleared
    inside one lock section. `errSeriesIsBootstrapping` is therefore
    unreachable, and `TypeOK` says so.
- **`MCSeries.tla`** defines two disk inputs: one block below the buffer's
  window, and one block at each start.

- **`EtcdStore.tla`** models the etcd kv client of
  `src/src/cluster/kv/etcd/store.go` together with etcd, the cache file and a
  crash of the client process.
  - A value is `[ver, rev]`, its version and mod revision. Payloads,
    marshalling, metrics and logging are left out.
  - State: `etcd`, `rev` and `up` (etcd); `cache`, `chanFull` (the
    one-slot `cacheUpdatedCh`), `writerPc` and `file` (the cache writer);
    `getPc`, `getKey` and `getResp` per Get caller; `callPc`, `callRef` and
    `watching` per Watch caller; `watchables` (the client's map); `wobj` (the
    watchable objects: key, open or closed, value, number of watches); and per
    watch goroutine `gr`, `notif` (a notification waiting on its channel),
    `wPc`, `wResp` and `wTry` (the retrier's attempts).
  - Get is two steps, `GetRead` (the round trip) and `GetReturn`. Between
    them other callers can merge newer answers into the cache, and on an error
    Get falls back to the cache.
  - Watch is `WatchLock` (under `c.Lock`: find the watchable, or create it and
    its goroutine) and `WatchSubscribe` (`watchable.Watch()` after the unlock),
    because the code unlocks between the two.
  - The watch goroutine is `WatchChanEvent` (a recreated channel or a progress
    notification), `UpdateRead` and `UpdateApply` (processNotification and
    update, with the retrier), and `TryCleanUp` (the ticker case).
  - The cache writer is `WriterCreate` (os.Create truncates the file) and
    `WriterEncode`, each with a failing variant when `DiskFaults` is set.
  - `Restart` is a crash: everything in memory is lost, and NewStore's
    `initCache` decodes the file, a truncated file giving an empty cache.
  - The watchable (`kv.ValueWatchable`) is not in this repository. Its
    `Watch`, `Close` and `Update` are modelled from how store.go uses them.
- **`MCEtcdStore.tla`** adds symmetry over Get callers.
- **`Resolution.tla`** is the table of resolution.go as operators: the
  enum values, `ValuesToResolution`, the two conversions, and
  `InitInverse(order)`, which is `init()`'s loop for one order of Go's map
  iteration (`RangeOrders`, all orders). A Resolution is `[window,
  precision]`, with the window in nanoseconds as the code writes it.
- **`MappingRule.tla`** models one `mappingRule`.
  - State: `snapshots` (the history), `stored` (the rule's protobuf form in
    the store) and `resolutionToValues` (the inverse table, chosen at Init
    from every iteration order).
  - A snapshot is `[name, tombstoned, cutoverNanos, policies]`. A policy is
    abstracted to its resolution, because that is what its protobuf form
    converts.
  - Actions: `NewMappingRuleFromFields`, `MarkTombstoned` and `Revive`, each
    with the code's error guards, plus `Persist` (`Schema`, nothing written on
    an error) and `Load` (`newMappingRule`).
  - `ActiveIndexFrom` is `activeIndex`'s backward scan as a recursive
    operator; `ActiveSnapshot` and `ActiveRule` are built on it.
  - Filters, the uuid, `clone` and the JSON form only copy fields that no
    query reads, and are left out.
- **`MCMappingRule.tla`** gives the policy lists callers pass, including an
  unsupported resolution, and a rule already in the store.

## Properties and runs

The passing run, `buffer`, checks four properties over writes, ticks, reads,
snapshots, the clock and one bootstrapped block. Every bootstrapped block's
`Stream` succeeds in it (`StreamFaults = FALSE`):

- `TypeOK`.
- `ReadKeepsEveryTimestamp`: reading a block returns exactly the timestamps
  written or bootstrapped into it. This covers losing data in merge and seeing
  another block's data.
- `NoEncoderLeak`: every live pooled encoder is referenced by some slot.
- `TickCollapsesEncoders`: after a Tick, each class has one encoder (spec.md S4).

Each property has a mutant, a plausible bug in the mapped code, that TLC
detects. The mutants are:

- the block start not truncated;
- the replaced encoders not closed;
- the single-encoder shortcut ignoring the encoder count;
- the merge target reset for each class;
- the merge readers skipping the bootstrapped blocks.

Violation runs (one property each) record what this version of buffer.go does
against its comments and spec.md:

| run | property | counterexample |
|---|---|---|
| `lww` | `BufferImplementsStore` | write (0,1), (0,2), (0,1): the third write is a no-op because slot 1 already has (0,1), so reads return 2 |
| `outoforder` | `ReadKeepsEveryTimestamp` | with out-of-order writes on, the second merge's out-of-order pass fails after the realtime pass closed the shared encoder. The stale slot's encoder goes to a new bucket, and block 2 then shows a point at t=1 |
| `snapshot` | `SnapshotGuardHolds` | Snapshot(outOfOrder) of a realtime-only bucket returns errMoreThanOneStreamAfterMerge |
| `streamfault` | `ReadKeepsEveryTimestamp` | with `StreamFaults = TRUE`: write (0,1), bootstrap block 0 with (1,1), then a tick whose disk read of the block fails. merge() skips the block (buffer.go:749-750), and `resetBootstrapped` (778) then closes it, so t=1 is no longer readable |

The passing run keeps out-of-order writes disabled, bootstraps only into
block 0, and lets no `Stream` fail. That is the configuration where none of
these defects makes the properties fail.

One more defect was seen while modelling but is not given a run. `merge()`
takes one target encoder before its class loop (buffer.go:706) and appends it
to both classes (780-783). That shared, non-empty encoder passes none of
`needsMerge()`'s single-source shortcuts, so every tick merges the bucket
again into a fresh encoder, although spec.md 9.6 calls merge idempotent. The
extra merges change no read. The `outoforder` run shows the harm the shared
encoder does.

Series runs:

- `series` (passing, under tick fairness) checks four properties:
  - `TypeOK`;
  - `ReadKeepsEveryTimestamp`: once bootstrapped, reads return exactly the
    written or bootstrapped timestamps that have not expired;
  - `SealedBlockImmutable`: a sealed block changes only by expiring or by the
    series being closed;
  - `EventuallySealed`: every block past bufferPast is eventually drained and
    sealed.

  The mutants are:
  - Bootstrap leaving the state bootstrapping;
  - the drain replacing the existing block instead of merging;
  - Bootstrap not removing blocks handed to the buffer. A stale tick seals the
    block, and the next drain then rewrites it;
  - needsBlockUpdate looking only at expiry.

- Violation runs:

| run | property | counterexample |
|---|---|---|
| `serieslww` | `SeriesLastWriteWins` | a write at t is acknowledged; the clock moves past its block; Bootstrap is given a disk block holding another value at t. Bootstrap's own drain puts the write into pendingBootstrap, the disk block stays in the map because it lies below the buffer's min, and the replay merges [buffered, existing], where the existing block wins the tie (series.go:436). Which t TLC reports depends on the search: with one worker it is write (0,1) against disk block 0 with (0,2); another search gave t=1 against a disk block with (1,2) |
| `flushid` | `FlushAttributesSegment` | FlushRead, Close, then persistFn(s.id, ...) runs with the closed id (series.go:557) |

While modelling, one more fact came out about series.go. Every block that
enters the map is already at or past the seal cutoff:

- drained blocks, because draining and sealing use the same cutoff;
- bootstrap blocks kept in the map, because they lie below `min`.

`bufferDrained` merges when a drained block is already in the map
(series.go:403-405, "a partial block after bootstrap"), and it discards the
error of that merge. The buffer's `MinMax` is modelled from its contract
(spec_modelled) as `Truncate(now - bufferPast)`, and a block's `Stream` and
encode do not fail in the model, so that error path is not explored. It is
listed as a hazard without a property.

So the `allBlocksSealed = false` branch of `updateBlocksWithLock` is never
taken. A mutant that always seals the container cannot be told apart from the
code, and is not used.

EtcdStore runs:

The passing run `etcd`, under the goroutines' fairness, interleaves a Get
caller, a Watch caller, the watch goroutine, the cache writer on a disk that
can fail, etcd outages and a crash. It checks four properties:

- `TypeOK`, whose mutant lets the retrier retry without a bound;
- `GetNeverRegresses`: within one process, a caller's Get of a key never
  returns an older revision than its previous Get of that key. This holds
  even though the watch goroutine's Gets merge answers into the same cache
  out of order, and when etcd is down and Get falls back to the cache. The
  mutant drops mergeCache's `isNewer` check;
- `CacheFileEventuallyCurrent`: whenever the cache differs from what the
  file would load, it later equals it, unless the writer's last attempt
  failed (the ghost `writeFailed`). The mutant signals the writer only when
  an entry is replaced;
- `WatchEventuallyCurrent`: a watchable whose goroutine runs holds etcd's
  current value infinitely often while etcd is up. The mutant updates only
  a watchable with no value.

A failed cache write is only logged and never retried; the file then stays
stale until the cache changes again. `CacheFileEventuallyCurrent` excludes
that case, and it is listed as a hazard without a property.

| run | property | counterexample |
|---|---|---|
| `cachecrash` | `RestartKeepsPersistedCache` | a value is Get and written to the file; a newer one is merged; os.Create truncates the file; the process crashes, and the restart loads an empty cache (store.go:341) |
| `watchclosed` | `WatchNeverFails` | Watch creates the watchable and unlocks; the goroutine's ticker finds no watches, closes it and deletes it; `watchable.Watch()` fails (store.go:197) |

One more fact came out about store.go: `update`'s `isNewer` check can never
reject a value. Each watchable has one goroutine, and every value it stores
went through `mergeCache` first, so the Get that update calls returns a value
at least as new as the watchable's. The mutant that drops the check is
therefore not used.

Mapping rule run:

`mappingrule` (passing) explores every history of up to four snapshots. The
histories are built by create, tombstone, revive, store and load, with
cutovers in any order, under every order of `init()`. It checks two
properties:

- `TypeOK`. The mutant makes markTombstoned append a fresh snapshot instead of
  a copy of the latest;
- `ActiveRuleAgrees`: for t <= u, `ActiveRule(t)` answers `ActiveSnapshot(u)`
  as the whole rule does. The mutant starts the active rule after the
  snapshot in effect.

The protobuf round trip (Schema, then newMappingRule) is modelled as the
actions `Persist` and `Load`, but no property is checked on it. Through
resolution.go it is the injectivity of a constant table, and the policy
conversions that would give it content live in policy.go, which is not in
this repository.

Two facts came out about mapping.go:

- ActiveRule's comment promises "all future snapshots after time
  timeNanos". With cutovers appended out of order, which markTombstoned and
  revive accept, it drops an earlier-appended snapshot whose cutover is
  after t. That snapshot is never active under the backward scan, so every
  query still agrees (`ActiveRuleAgrees`); only the comment overstates.
- A rule read from a schema with no snapshots is `Tombstoned()`, yet
  revive fails on it, because `Name()` fails first. Such a rule can be
  neither tombstoned nor revived.

## Bounds

These bounds apply to all cfgs:

| Bound | Value | Why |
|---|---|---|
| `BlockSize` | 2 | |
| `Timestamps` | 0..3 | two blocks |
| `Values` | {1,2} | enough for an upsert |
| `BufferPast`, `BufferFuture` | 2, 1 | |
| `MaxNow` | 3 | |
| `MaxWrites` | 3 in `buffer`, 4 in the violation runs | three writes reach a second slot and a second bucket; the bootstrapped block keeps the passing run within its time |
| `EncoderIds` | five pooled encoders | enough for two buckets, a second slot and a merge target |

Under these bounds:

- the clock sweeps every timestamp through realtime and out of order;
- writes create a second slot;
- a tick can follow another tick;
- the pool can reuse a closed encoder.

`PoolHas` blocks a handler that could exhaust the pool. Go's pool allocates
instead, and the model leaves that out.

Series bounds (`series.cfg`):

| Bound | Value |
|---|---|
| `Timestamps` | 0..3 (two blocks) |
| `BufferPast`, `BufferFuture` | 1, 2 |
| `RetentionPeriod` | 3 |
| `MaxNow` | 5 |
| `MaxWrites` | 3 |
| `MaxCloses` | 1 |
| `Ids` | one id |

Under these bounds:

- block 0 is drained and sealed, then expires at now=5;
- block 2 can be bootstrapped into the buffer and drained later;
- a write can precede bootstrap and be drained into pendingBootstrap.

Past MaxNow with the bounds spent, every method is a no-op, so the series cfgs
say `CHECK_DEADLOCK FALSE`.

EtcdStore bounds:

| Bound | `etcd` | violation runs | Why |
|---|---|---|---|
| `Keys` | {k1} | {k1} | |
| `Callers` / `Watchers` | one / one | `cachecrash`: one / none; `watchclosed`: none / one | the Get caller and the watch goroutine race on the cache |
| `WIds` | one | `watchclosed`: two | a cleaned-up watchable is not reused in the passing run; `watchclosed` needs a new one |
| `MaxRev` | 3 | 3 / 2 | number of puts |
| `MaxCrashes` | 1 | 1 | |
| `MaxRetries` | 1 | 1 | one retry before the notification is dropped |
| `DiskFaults` | TRUE | `cachecrash`: TRUE | |

The passing run is kept to one key, one caller and one watchable id so that
the liveness check stays within minutes; with two watchable ids it takes
over three.

The store never stops: etcd can always go down and come back, so the cfgs
check deadlock.

Mapping rule bounds (`mappingrule.cfg`): two names, cutovers 0..2, queries
0..3 (one past every cutover), three policy lists, and at most four
snapshots. That is enough for create, tombstone, revive and tombstone again,
with equal, increasing and decreasing cutovers. All 120 orders of `init()`
are initial states. The run has 16,371 states and takes seconds. The history
bound disables the editing actions, but storing and loading stay enabled, so
the run checks deadlock.

## Fairness

- **Buffer.** No liveness property is checked. Whether merges settle was first
  stated as `<>[]` under weak fairness of Tick, but that run did not finish
  within the time budget. The repeated merges are described above.
- **Series.** `FairSpec` assumes weak fairness of the two tick steps. The shard
  ticks every series periodically, and a tick, once begun, takes the write
  lock. Writes, bootstraps, flushes and the clock get no fairness.
- **EtcdStore.** `FairSpec` assumes weak fairness of the cache writer's two
  steps and of every watch goroutine's steps, including `WatchChanEvent`.
  The writer loops on its channel for the life of the client, and each watch
  goroutine on its watch channel. The watch is opened `WithProgressNotify`, so
  etcd keeps sending notifications. Callers, etcd and crashes get no fairness.

## Not modelled, and the plan

1. **Series** is modelled, against the buffer contract. It cannot be composed
   with `Buffer`, because the two files use different buffer APIs.
   `FetchBlocks` and `FetchBlocksMetadata` only read and are left out;
   `IsEmpty` and `IsBootstrapped` are operators. A block's `Stream` error is left out, because an in-memory
   block's stream does not fail. The leak of the replaced block in
   `drainBufferedEncoderWithLock` is listed as a hazard. It has no property:
   blocks are modelled by their datapoints, not as pooled objects, and the
   leak changes no read and no series state.
2. **EtcdStore** is modelled. `Get`'s `r.Count > 1` error path and the
   context timeouts are not modelled separately: a timeout is an error
   answer, which the model has. A put whose answer timed out is the same
   client state as an applied put.
3. **The iterator.** A bounded check of `MultiReaderIterate` against a
   reference definition.
4. **Mapping rules and resolutions** are modelled. Without the rule set and
   the matcher, which are not in this repository, nothing runs a rule
   concurrently, so the model is a sequential history.
5. **The protocol encoder** (msg/protocol/proto/encoder.go) is not modelled.
   `Encode` is one straight-line function: a size check, then the length
   header and the data as two writes. A failure between them leaves a header
   without data on the writer. Whether that matters depends on two things: does
   the caller keep using the writer after an error, and how does the decoder
   read a header without data? Neither is in this repository. On its own the encoder has no state to explore, so the
   hazard is listed with a note.
6. **The rest.** Options, interfaces, generated code, mocks and tests have no
   behaviour to model.

The bucket cache is written but never read (`bucketAt` scans the map), and the
buffer never expires buckets. The model reflects both facts.
