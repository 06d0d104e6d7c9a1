------------------------------ MODULE EtcdStore ------------------------------
(***************************************************************************)
(* The etcd kv client of src/src/cluster/kv/etcd/store.go.                 *)
(*                                                                         *)
(* etcd itself is the environment: per key a version (0 while absent) and  *)
(* the mod revision of the last put, a global revision, and an up flag:   *)
(* while etcd is down every request fails.  Payloads are left out; the     *)
(* revision identifies a value.                                            *)
(*                                                                         *)
(* The client's goroutines are processes with a pc each:                   *)
(*   - callers of Get (getPc) and of Watch (callPc), each with at most one *)
(*     call in flight; the etcd round trip of Get is one step and the       *)
(*     handling of its answer (mergeCache, return) another;                *)
(*   - the cache writer goroutine (writerPc), woken through the one-slot    *)
(*     channel cacheUpdatedCh (chanFull), which truncates the cache file    *)
(*     (os.Create) in one step and encodes the cache into it in the next;   *)
(*   - one watch goroutine per watchable (gr), which handles a watch        *)
(*     notification (notif) with a Get and an update of the watchable, or,  *)
(*     on its ticker, cleans the watchable up when nobody watches it.       *)
(* A crash loses everything but etcd and the cache file; the restarted      *)
(* client loads the cache from the file (initCache).                        *)
(*                                                                         *)
(* kv.ValueWatchable (m3cluster, not in this repository) is modelled by    *)
(* what store.go uses of it: a value, the number of watches, and Close,    *)
(* after which Watch fails.                                                *)
(***************************************************************************)
EXTENDS Integers, FiniteSets

CONSTANTS
    Keys,          \* keys of the store
    Callers,       \* goroutines calling Get
    Watchers,      \* goroutines calling Watch
    WIds,          \* watchable objects the client may create (bound)
    NoW,           \* model value: no watchable
    Err,           \* model value: a failed etcd request
    Corrupt,       \* model value: a cache file that does not decode
    MaxRev,        \* bound: number of puts to etcd
    MaxRetries,    \* retrier attempts after the first, per notification
    MaxCrashes,    \* bound: number of client crashes
    DiskFaults     \* whether creating or writing the cache file may fail

ASSUME NoW \notin WIds /\ MaxRev \in Nat /\ MaxRetries \in Nat

VARIABLES
    etcd, rev, up,                      \* etcd
    cache, chanFull, writerPc, file,    \* cache and cache file
    getPc, getKey, getResp,             \* Get callers
    callPc, callRef, watching,          \* Watch callers
    watchables, wobj,                   \* the watchables map and objects
    gr, notif, wPc, wResp, wTry,        \* watch goroutines
    ret, saved, watchErr, writeFailed,  \* ghosts
    nCrashes                            \* the crash bound

etcdVars == <<etcd, rev, up>>
cacheVars == <<cache, chanFull, writerPc, file>>
getVars == <<getPc, getKey, getResp>>
watchVars == <<callPc, callRef, watching, watchables, wobj>>
grVars == <<gr, notif, wPc, wResp, wTry>>
ghostVars == <<ret, saved, watchErr, writeFailed, nCrashes>>
vars == <<etcdVars, cacheVars, getVars, watchVars, grVars, ghostVars>>

-----------------------------------------------------------------------------
(* Values.  A value is [ver, rev]; None, with revision 0, is the absent    *)
(* key of etcd, an empty cache entry and a watchable with no value.        *)
Value == [ver : 0..MaxRev, rev : 0..MaxRev]
None == [ver |-> 0, rev |-> 0]

\* value.isNewer: a later mod revision.
IsNewer(v, other) == v.rev > other.rev

\* newCache.
EmptyCache == [k \in Keys |-> None]

\* Mutant: the revision check dropped.
MergeCacheAlways(C, full, k, v) == [cache |-> [C EXCEPT ![k] = v], full |-> TRUE]

\* Mutant: only a replaced entry signals the cache writer.
MergeCacheNoFirstSignal(C, full, k, v) ==
    IF C[k] = None \/ IsNewer(v, C[k])
    THEN [cache |-> [C EXCEPT ![k] = v], full |-> full \/ C[k] # None]
    ELSE [cache |-> C, full |-> full]

\* mergeCache: keep v if the key is not cached or v is newer, and then
\* signal the cache writer without blocking (a full channel stays full).
MergeCache(C, full, k, v) ==
    IF C[k] = None \/ IsNewer(v, C[k])
    THEN [cache |-> [C EXCEPT ![k] = v], full |-> TRUE]
    ELSE [cache |-> C, full |-> full]

\* The answer of etcd to a Get of key k.
EtcdGet(k) == IF up THEN etcd[k] ELSE Err

WithVal(m, v) == [val |-> v, cache |-> m.cache, full |-> m.full]

(* What Get returns for the answer r: on an error the cached value if the  *)
(* key is cached (else the error); ErrNotFound for an absent key; else the *)
(* value, after merging it into the cache.                                  *)
GetResult(C, full, k, r) ==
    CASE r = Err /\ C[k] # None -> [val |-> C[k], cache |-> C, full |-> full]
      [] r = Err                 -> [val |-> Err, cache |-> C, full |-> full]
      [] r.ver = 0               -> [val |-> None, cache |-> C, full |-> full]
      [] OTHER ->
           WithVal(MergeCache(C, full, k, r), r)

\* NewStore: the cache as initCache decodes it from the file.
LoadCache(f) == IF f = Corrupt THEN EmptyCache ELSE f

-----------------------------------------------------------------------------
Init ==
    /\ etcd = [k \in Keys |-> None] /\ rev = 0 /\ up = TRUE
    /\ file = Corrupt
    /\ cache = LoadCache(file) /\ chanFull = FALSE /\ writerPc = "idle"
    /\ getPc = [c \in Callers |-> "idle"]
    /\ getKey = [c \in Callers |-> CHOOSE k \in Keys : TRUE]
    /\ getResp = [c \in Callers |-> Err]
    /\ callPc = [c \in Watchers |-> "idle"]
    /\ callRef = [c \in Watchers |-> NoW]
    /\ watching = [c \in Watchers |-> NoW]
    /\ watchables = [k \in Keys |-> NoW]
    /\ wobj = [w \in WIds |-> [key |-> CHOOSE k \in Keys : TRUE, state |-> "unused",
                                val |-> None, n |-> 0]]
    /\ gr = [w \in WIds |-> "none"] /\ notif = [w \in WIds |-> FALSE]
    /\ wPc = [w \in WIds |-> "idle"] /\ wResp = [w \in WIds |-> Err]
    /\ wTry = [w \in WIds |-> 0]
    /\ ret = [c \in Callers |-> [k \in Keys |-> 0]]
    /\ saved = EmptyCache
    /\ watchErr = FALSE
    /\ writeFailed = FALSE
    /\ nCrashes = 0

-----------------------------------------------------------------------------
(* etcd and other writers.                                                 *)

\* A put of key k: the next revision, the next version, a notification on
\* every watch channel of k.
Put(k) ==
    /\ rev < MaxRev
    /\ rev' = rev + 1
    /\ etcd' = [etcd EXCEPT ![k] = [ver |-> @.ver + 1, rev |-> rev + 1]]
    /\ notif' = [w \in WIds |-> notif[w] \/ (gr[w] = "run" /\ wobj[w].key = k)]

(* Set: a put with the previous kv; it fails while etcd is down.  A put    *)
(* that etcd applied but whose answer timed out is the same step: the      *)
(* client state is the same either way.                                    *)
Set(k) ==
    /\ up
    /\ Put(k)
    /\ UNCHANGED <<up, cacheVars, getVars, watchVars, gr, wPc, wResp, wTry, ghostVars>>

(* CheckAndSet(key, version): a transaction that puts only if the key's    *)
(* version is still version; SetIfNotExists is version 0.  A mismatch      *)
(* (ErrVersionMismatch, ErrAlreadyExists) changes nothing.                  *)
CheckAndSet(k, ver) ==
    /\ up
    /\ etcd[k].ver = ver
    /\ Put(k)
    /\ UNCHANGED <<up, cacheVars, getVars, watchVars, gr, wPc, wResp, wTry, ghostVars>>

EtcdDown ==
    /\ up /\ up' = FALSE
    /\ UNCHANGED <<etcd, rev, cacheVars, getVars, watchVars, grVars, ghostVars>>

EtcdUp ==
    /\ ~up /\ up' = TRUE
    /\ UNCHANGED <<etcd, rev, cacheVars, getVars, watchVars, grVars, ghostVars>>

-----------------------------------------------------------------------------
(* Get(key) by caller c: the etcd round trip, then the answer's handling.  *)
GetRead(c, k) ==
    /\ getPc[c] = "idle"
    /\ getPc' = [getPc EXCEPT ![c] = "read"]
    /\ getKey' = [getKey EXCEPT ![c] = k]
    /\ getResp' = [getResp EXCEPT ![c] = EtcdGet(k)]
    /\ UNCHANGED <<etcdVars, cacheVars, watchVars, grVars, ghostVars>>

\* The return of Get with result g; ret records the revision returned.
GetReturnWith(c, g) ==
    /\ cache' = g.cache /\ chanFull' = g.full
    /\ ret' = IF g.val = Err THEN ret ELSE [ret EXCEPT ![c][getKey[c]] = g.val.rev]

GetReturn(c) ==
    /\ getPc[c] = "read"
    /\ getPc' = [getPc EXCEPT ![c] = "idle"]
    /\ GetReturnWith(c, GetResult(cache, chanFull, getKey[c], getResp[c]))
    /\ UNCHANGED <<etcdVars, writerPc, file, getKey, getResp, watchVars, grVars,
                   saved, watchErr, writeFailed, nCrashes>>

-----------------------------------------------------------------------------
(* The cache writer: one wake-up per signal of cacheUpdatedCh.             *)

\* os.Create truncates the file; then the cache is encoded into it.
WriterCreate ==
    /\ writerPc = "idle" /\ chanFull
    /\ chanFull' = FALSE
    /\ file' = Corrupt
    /\ writerPc' = "encode"
    /\ writeFailed' = FALSE
    /\ UNCHANGED <<etcdVars, cache, getVars, watchVars, grVars, ret, saved, watchErr, nCrashes>>

\* os.Create fails: the file is left as it was.
WriterCreateFail ==
    /\ DiskFaults
    /\ writerPc = "idle" /\ chanFull
    /\ chanFull' = FALSE
    /\ writeFailed' = TRUE
    /\ UNCHANGED <<etcdVars, cache, writerPc, file, getVars, watchVars, grVars, ret, saved, watchErr, nCrashes>>

\* encoder.Encode(c.cache) under the cache's read lock, then Close.
WriterEncode ==
    /\ writerPc = "encode"
    /\ file' = cache /\ saved' = cache
    /\ writerPc' = "idle"
    /\ UNCHANGED <<etcdVars, cache, chanFull, getVars, watchVars, grVars,
                   ret, watchErr, writeFailed, nCrashes>>

\* Encode fails: the truncated file stays undecodable.
WriterEncodeFail ==
    /\ DiskFaults
    /\ writerPc = "encode"
    /\ writerPc' = "idle"
    /\ writeFailed' = TRUE
    /\ UNCHANGED <<etcdVars, cache, chanFull, file, getVars, watchVars, grVars, ret, saved, watchErr, nCrashes>>

-----------------------------------------------------------------------------
(* Watch(key) by caller c.  Under the client lock: the key's watchable, or *)
(* a new one with a new watch goroutine whose channel delivers the created *)
(* notification.  After the unlock: watchable.Watch(), which fails once    *)
(* the watchable is closed.                                                 *)
FreeWIds == {w \in WIds : wobj[w].state = "unused"}

WatchLock(c, k) ==
    /\ callPc[c] = "idle" /\ watching[c] = NoW
    /\ watchables[k] = NoW => FreeWIds # {}
    /\ IF watchables[k] # NoW
       THEN /\ callRef' = [callRef EXCEPT ![c] = watchables[k]]
            /\ UNCHANGED <<watchables, wobj, gr, notif>>
       ELSE LET w == CHOOSE x \in FreeWIds : TRUE
            IN /\ callRef' = [callRef EXCEPT ![c] = w]
               /\ watchables' = [watchables EXCEPT ![k] = w]
               /\ wobj' = [wobj EXCEPT ![w] = [key |-> k, state |-> "open", val |-> None, n |-> 0]]
               /\ gr' = [gr EXCEPT ![w] = "run"]
               /\ notif' = [notif EXCEPT ![w] = TRUE]
    /\ callPc' = [callPc EXCEPT ![c] = "subscribe"]
    /\ UNCHANGED <<etcdVars, cacheVars, getVars, watching, wPc, wResp, wTry,
                   ret, saved, writeFailed, nCrashes>> /\ watchErr' = watchErr

WatchSubscribe(c) ==
    /\ callPc[c] = "subscribe"
    /\ callPc' = [callPc EXCEPT ![c] = "idle"]
    /\ IF wobj[callRef[c]].state = "closed"
       THEN /\ watchErr' = TRUE
            /\ UNCHANGED <<wobj, watching>>
       ELSE /\ wobj' = [wobj EXCEPT ![callRef[c]].n = @ + 1]
            /\ watching' = [watching EXCEPT ![c] = callRef[c]]
            /\ UNCHANGED watchErr
    /\ UNCHANGED <<etcdVars, cacheVars, getVars, callRef, watchables, grVars,
                   ret, saved, writeFailed, nCrashes>>

\* The caller closes its watch.
Unwatch(c) ==
    /\ watching[c] # NoW
    /\ wobj' = [wobj EXCEPT ![watching[c]].n = @ - 1]
    /\ watching' = [watching EXCEPT ![c] = NoW]
    /\ UNCHANGED <<etcdVars, cacheVars, getVars, callPc, callRef, watchables, grVars,
                   ghostVars>>

-----------------------------------------------------------------------------
(* The watch goroutine of watchable w.                                     *)

(* The ticker case: with no watches, tryCleanUp takes the lock; a key     *)
(* already cleaned up, or no watches under the lock, ends the goroutine,  *)
(* closing and deleting the watchable in the second case.                  *)
TryCleanUp(w) ==
    /\ gr[w] = "run" /\ wPc[w] = "idle"
    /\ wobj[w].n = 0
    /\ gr' = [gr EXCEPT ![w] = "stopped"]
    /\ IF watchables[wobj[w].key] # w
       THEN UNCHANGED <<watchables, wobj>>
       ELSE /\ wobj' = [wobj EXCEPT ![w].state = "closed"]
            /\ watchables' = [watchables EXCEPT ![wobj[w].key] = NoW]
    /\ UNCHANGED <<etcdVars, cacheVars, getVars, callPc, callRef, watching,
                   notif, wPc, wResp, wTry, ghostVars>>

(* The watch channel closes and is recreated (its created notification),  *)
(* or etcd sends a progress notification: either way a notification waits. *)
WatchChanEvent(w) ==
    /\ gr[w] = "run" /\ ~notif[w]
    /\ notif' = [notif EXCEPT ![w] = TRUE]
    /\ UNCHANGED <<etcdVars, cacheVars, getVars, watchVars, gr, wPc, wResp, wTry,
                   ghostVars>>

\* processNotification: an attempt of update() starts with Get's round trip;
\* a retry of the retrier starts the same way.
UpdateRead(w) ==
    /\ gr[w] = "run"
    /\ \/ wPc[w] = "idle" /\ notif[w] /\ notif' = [notif EXCEPT ![w] = FALSE]
       \/ wPc[w] = "retry" /\ UNCHANGED notif
    /\ wPc' = [wPc EXCEPT ![w] = "read"]
    /\ wResp' = [wResp EXCEPT ![w] = EtcdGet(wobj[w].key)]
    /\ UNCHANGED <<etcdVars, cacheVars, getVars, watchVars, gr, wTry, ghostVars>>

\* Mutant: only a watchable without a value is updated.
UpdateWithFirstOnly(w, g) ==
    /\ cache' = g.cache /\ chanFull' = g.full
    /\ IF g.val = Err /\ wTry[w] < MaxRetries
       THEN wPc' = [wPc EXCEPT ![w] = "retry"] /\ wTry' = [wTry EXCEPT ![w] = @ + 1]
       ELSE wPc' = [wPc EXCEPT ![w] = "idle"] /\ wTry' = [wTry EXCEPT ![w] = 0]
    /\ wobj' = IF g.val # Err /\ g.val # None /\ wobj[w].val = None
               THEN [wobj EXCEPT ![w].val = g.val] ELSE wobj

\* Mutant: the retrier's attempt count is not checked.
UpdateWithUnboundedRetry(w, g) ==
    /\ cache' = g.cache /\ chanFull' = g.full
    /\ IF g.val = Err
       THEN wPc' = [wPc EXCEPT ![w] = "retry"] /\ wTry' = [wTry EXCEPT ![w] = @ + 1]
       ELSE wPc' = [wPc EXCEPT ![w] = "idle"] /\ wTry' = [wTry EXCEPT ![w] = 0]
    /\ wobj' = IF g.val # Err /\ g.val # None
                  /\ (wobj[w].val = None \/ IsNewer(g.val, wobj[w].val))
               THEN [wobj EXCEPT ![w].val = g.val] ELSE wobj

\* update(w, key) with Get's result g: an error is retried while attempts
\* remain; ErrNotFound is nothing to do; a value is kept if the watchable
\* has none or it is newer.
UpdateWith(w, g) ==
    /\ cache' = g.cache /\ chanFull' = g.full
    /\ IF g.val = Err /\ wTry[w] < MaxRetries
       THEN wPc' = [wPc EXCEPT ![w] = "retry"] /\ wTry' = [wTry EXCEPT ![w] = @ + 1]
       ELSE wPc' = [wPc EXCEPT ![w] = "idle"] /\ wTry' = [wTry EXCEPT ![w] = 0]
    /\ wobj' = IF g.val # Err /\ g.val # None
                  /\ (wobj[w].val = None \/ IsNewer(g.val, wobj[w].val))
               THEN [wobj EXCEPT ![w].val = g.val] ELSE wobj

UpdateApply(w) ==
    /\ wPc[w] = "read"
    /\ UpdateWith(w, GetResult(cache, chanFull, wobj[w].key, wResp[w]))
    /\ UNCHANGED <<etcdVars, writerPc, file, getVars, callPc, callRef, watching,
                   watchables, gr, notif, wResp, ghostVars>>

-----------------------------------------------------------------------------
(* A crash of the client process: etcd and the cache file survive; the   *)
(* restarted client (NewStore) decodes its cache from the file.            *)
Restart ==
    /\ nCrashes < MaxCrashes
    /\ nCrashes' = nCrashes + 1
    /\ cache' = LoadCache(file) /\ chanFull' = FALSE /\ writerPc' = "idle"
    /\ getPc' = [c \in Callers |-> "idle"]
    /\ callPc' = [c \in Watchers |-> "idle"] /\ callRef' = [c \in Watchers |-> NoW]
    /\ watching' = [c \in Watchers |-> NoW]
    /\ watchables' = [k \in Keys |-> NoW]
    /\ wobj' = [w \in WIds |-> [wobj[w] EXCEPT !.state = "unused", !.val = None, !.n = 0]]
    /\ gr' = [w \in WIds |-> "none"] /\ notif' = [w \in WIds |-> FALSE]
    /\ wPc' = [w \in WIds |-> "idle"] /\ wTry' = [w \in WIds |-> 0]
    /\ ret' = [c \in Callers |-> [k \in Keys |-> 0]]
    /\ UNCHANGED <<etcdVars, file, getKey, getResp, wResp, saved, watchErr, writeFailed>>

Next ==
    \/ \E k \in Keys : Set(k)
    \/ \E k \in Keys, ver \in 0..MaxRev : CheckAndSet(k, ver)
    \/ EtcdDown \/ EtcdUp
    \/ \E c \in Callers, k \in Keys : GetRead(c, k)
    \/ \E c \in Callers : GetReturn(c)
    \/ \E c \in Watchers, k \in Keys : WatchLock(c, k)
    \/ \E c \in Watchers : WatchSubscribe(c) \/ Unwatch(c)
    \/ WriterCreate \/ WriterCreateFail \/ WriterEncode \/ WriterEncodeFail
    \/ \E w \in WIds : TryCleanUp(w) \/ WatchChanEvent(w) \/ UpdateRead(w) \/ UpdateApply(w)
    \/ Restart

Spec == Init /\ [][Next]_vars

(* The cache writer goroutine loops on its channel for the life of the    *)
(* client, and each watch goroutine on its watch channel; etcd sends a     *)
(* progress notification on every watch channel periodically               *)
(* (WithProgressNotify).                                                    *)
FairSpec ==
    /\ Spec
    /\ WF_vars(WriterCreate) /\ WF_vars(WriterEncode)
    /\ \A w \in WIds : WF_vars(UpdateRead(w)) /\ WF_vars(UpdateApply(w))
                       /\ WF_vars(WatchChanEvent(w))

-----------------------------------------------------------------------------
TypeOK ==
    /\ etcd \in [Keys -> Value] /\ rev \in 0..MaxRev /\ up \in BOOLEAN
    /\ cache \in [Keys -> Value] /\ chanFull \in BOOLEAN
    /\ writerPc \in {"idle", "encode"} /\ file \in [Keys -> Value] \cup {Corrupt}
    /\ getPc \in [Callers -> {"idle", "read"}]
    /\ callPc \in [Watchers -> {"idle", "subscribe"}]
    /\ watching \in [Watchers -> WIds \cup {NoW}]
    /\ watchables \in [Keys -> WIds \cup {NoW}]
    /\ \A w \in WIds : wobj[w].state \in {"unused", "open", "closed"} /\ wobj[w].n \in Nat
    /\ wPc \in [WIds -> {"idle", "read", "retry"}] /\ wTry \in [WIds -> 0..MaxRetries]
    /\ writeFailed \in BOOLEAN

(* Get never goes back in time: within one run of the process, every Get  *)
(* of a caller returns a revision of the key at least as new as the one   *)
(* its previous Get of that key returned, also when etcd is down and Get  *)
(* falls back to the cache that the answers of other callers' Gets,       *)
(* arriving out of order, were merged into (mergeCache's isNewer check).  *)
GetNeverRegresses ==
    [][nCrashes' = nCrashes => \A c \in Callers, k \in Keys : ret'[c][k] >= ret[c][k]]_vars

(* The cache file catches up with the cache: whenever they differ, the     *)
(* cache writer eventually writes the cache as it then is, although        *)
(* cacheUpdatedCh drops signals while one is pending, unless its last     *)
(* attempt failed (writeCacheToFile's errors are logged, never retried).  *)
CacheFileEventuallyCurrent ==
    (cache # LoadCache(file)) ~> (cache = LoadCache(file) \/ writeFailed)

(* Every running watchable eventually holds etcd's value of its key, once  *)
(* etcd stays up: notifications lost while etcd was down are made up by    *)
(* progress notifications, and retries give up only on errors.            *)
WatchEventuallyCurrent ==
    \A w \in WIds :
        []<>(gr[w] # "run" \/ ~up \/ wobj[w].val = etcd[wobj[w].key])

(* A restart loses nothing the cache writer had persisted: the restarted  *)
(* client's cache holds, for every key, a value at least as new as the    *)
(* last cache written to the file.                                         *)
RestartKeepsPersistedCache ==
    [][nCrashes' > nCrashes => \A k \in Keys : cache'[k].rev >= saved[k].rev]_vars

(* Watch(key) returns a watch: it never fails because the watchable it     *)
(* found under the lock was closed by the watch goroutine's cleanup before *)
(* watchable.Watch() ran.                                                  *)
WatchNeverFails == ~watchErr

====
