\* store.py:1434 "A mismatch means the audit trail was rewritten after insertion".
SPECIFICATION EvidenceSpec
CONSTANTS
    Kinds = {"patch_metadata", "quality_gate_report"}
    MaxArtifacts = 2
    MaxToolRuns = 2
INVARIANTS
    MismatchMeansRewritten
