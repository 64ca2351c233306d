\* A cancelled repair and its retry, both under way.
SPECIFICATION Spec
CONSTANTS
    Cases = {c1}
    Patches = {p1, p2}
    Commits = {b1}
    NoRef = NoRef
    GrantIds = {g1}
    NoGrant = NoGrant
    MaxRounds = 1
    Threads = {t1, t2}
    NoThread = NoThread
    NoCase = NoCase
    MaxUnrecorded = 1
SYMMETRY Symmetry
INVARIANTS
    ReleaseIsVerified
