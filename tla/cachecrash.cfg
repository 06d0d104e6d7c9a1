\* etcd kv client: RestartKeepsPersistedCache, expected to be violated.
CONSTANTS
    Keys = {k1}
    Callers = {c1}
    Watchers = {}
    WIds = {}
    NoW = NoW
    Err = Err
    Corrupt = Corrupt
    MaxRev = 3
    MaxRetries = 1
    MaxCrashes = 1
    DiskFaults = TRUE
SPECIFICATION Spec
PROPERTY RestartKeepsPersistedCache
