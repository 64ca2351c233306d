\* Two intake requests for one Case.
SPECIFICATION Spec
CONSTANTS
    Cases = {c1}
    Patches = {p1}
    Commits = {b1}
    NoRef = NoRef
    GrantIds = {g1}
    NoGrant = NoGrant
    MaxRounds = 0
    Threads = {t1, t2}
    NoThread = NoThread
    NoCase = NoCase
    MaxUnrecorded = 1
INVARIANTS
    NoDoubleDispatch
