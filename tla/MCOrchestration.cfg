\* Requests, retries and crashes: two at once, or several patches and Grants.
SPECIFICATION Spec
CONSTANTS
    Cases = {c1}
    Patches = {p1, p2}
    Commits = {b1}
    NoRef = NoRef
    GrantIds = {g1, g2}
    NoGrant = NoGrant
    MaxRounds = 1
    Threads = {t1, t2}
    NoThread = NoThread
    NoCase = NoCase
    MaxUnrecorded = 1
SYMMETRY Symmetry
CONSTRAINT OnlyOneIsTwo
INVARIANTS
    PendingMatchesStatus
    GrantSpentOnce
    GateDecidedOnce
    ReleaseHasApproval
    ReleaseIsVerified
    RunsHoldLock
    TrustedAnchor
    RepairIsAuthorised
    ParkedOnlyAfterFailure
PROPERTIES
    DecisionsAreRecorded
    ImplementsStore
    ImplementsLifecycle
