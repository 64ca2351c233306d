\* An insert that fails half way, and the next generation.
SPECIFICATION RetroSpec
CONSTANTS
    Kinds = {"retrospective_report", "knowledge_manifest"}
    MaxArtifacts = 4
    Generators = {g1}
    NoGenerator = NoGenerator
    MaxMoves = 1
INVARIANTS
    NoDuplicateKnowledge
