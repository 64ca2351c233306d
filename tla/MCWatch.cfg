\* Two watchers (one left over from an earlier monitor), two reviews, or two files
\* of which a pending list holds one.
SPECIFICATION Spec
CONSTANTS
    Paths = {f1, f2}
    MaxRuns = 2
    MaxPending = 1
    Retention = 1
    Watchers = {w1, w2}
    NoWatcher = NoWatcher
    MaxFiles = 1
SYMMETRY Symmetry
CONSTRAINT OnlyOneIsTwo
INVARIANTS
    MonitorTypeOK
    NoChangeForgotten
    OneReviewAtATime
