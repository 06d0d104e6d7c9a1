\* etcd kv client: one Get caller and one Watch caller of one key, the watch
\* goroutine with retries and cleanup, the cache writer with disk faults,
\* etcd outages and one crash, under the fairness of the client's goroutines.
CONSTANTS
    Keys = {k1}
    Callers = {c1}
    Watchers = {u1}
    WIds = {w1}
    NoW = NoW
    Err = Err
    Corrupt = Corrupt
    MaxRev = 3
    MaxRetries = 1
    MaxCrashes = 1
    DiskFaults = TRUE
SPECIFICATION FairSpec
INVARIANT TypeOK
PROPERTIES GetNeverRegresses CacheFileEventuallyCurrent WatchEventuallyCurrent
