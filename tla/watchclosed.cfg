\* etcd kv client: WatchNeverFails, expected to be violated.
CONSTANTS
    Keys = {k1}
    Callers = {}
    Watchers = {u1}
    WIds = {w1, w2}
    NoW = NoW
    Err = Err
    Corrupt = Corrupt
    MaxRev = 2
    MaxRetries = 1
    MaxCrashes = 1
    DiskFaults = FALSE
SPECIFICATION Spec
INVARIANT WatchNeverFails
