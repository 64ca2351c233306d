\* store.py:1827 "Mark abandoned workers failed and requeue automatic batches".
SPECIFICATION Spec
CONSTANTS
    Paths = {f1}
    MaxRuns = 2
    MaxPending = 1
    Retention = 1
    Watchers = {w1}
    NoWatcher = NoWatcher
    MaxFiles = 1
INVARIANTS
    QueueNotBlocked
