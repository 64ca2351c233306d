\* retry_repair straight from the plan gate.
SPECIFICATION Spec
CONSTANTS
    Cases = {c1}
    Patches = {p1}
    Commits = {b1}
    NoRef = NoRef
    GrantIds = {g1}
    NoGrant = NoGrant
    MaxRounds = 1
    Threads = {t1}
    NoThread = NoThread
    NoCase = NoCase
    MaxUnrecorded = 1
INVARIANTS
    RepairHasPlanApproval
