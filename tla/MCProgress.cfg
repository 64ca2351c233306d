\* Two request threads, crashes and a failing dispatch, the Case through repair at most
\* once; or two Review Runs of one workspace, each start dropping the one before it.
SPECIFICATION ProgressSpec
CONSTANTS
    Cases = {c1}
    Patches = {p1}
    Commits = {b1}
    NoRef = NoRef
    GrantIds = {g1}
    NoGrant = NoGrant
    MaxRounds = 0
    Threads = {t1, t2}
    NoThread = NoThread
    NoCase = NoCase
    MaxUnrecorded = 1
    MaxRuns = 2
    Retention = 1
    Scopes <- WideAndNarrow
INVARIANTS
    OrchTypeOK
    RunTypeOK
    BusyMeansAtWork
    CompleteIsWhole
PROPERTIES
    RunsEnd
    NoStandstill
    ActiveRunKept
    DrivesEnd
