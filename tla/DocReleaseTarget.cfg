\* A release Grant left over from an earlier patch.
SPECIFICATION Spec
CONSTANTS
    Cases = {c1}
    Patches = {p1, p2}
    Commits = {b1}
    NoRef = NoRef
    GrantIds = {g1, g2}
    NoGrant = NoGrant
    MaxRounds = 1
    Threads = {t1}
    NoThread = NoThread
    NoCase = NoCase
    MaxUnrecorded = 1
SYMMETRY PatchGrantSymmetry
INVARIANTS
    ReleasedPatchIsApproved
