\* The parts that share no state, one per behaviour.
CONSTANTS
    \* Intake
    Incidents = {i1}
    Unsigned = Unsigned
    IdempotencyWindow = 1
    AssociationWindow = 1
    IncidentWindow = 2
    MaxClock = 3
    MaxSources = 3
    \* Artifacts, Evidence, Retrospective
    Kinds = {"patch_metadata", "quality_gate_report", "retrospective_report", "knowledge_manifest"}
    MaxArtifacts = 4
    MaxToolRuns = 4
    Generators = {h1, h2}
    NoGenerator = NoGenerator
    MaxMoves = 2
    \* Agents
    MaxRuns = 3
    \* EventStream
    Sessions = {s1, s2}
    Dashboards = {d1, d2}
    Publishers = {h1, h2}
    NoMessage = NoMessage
    Retention = 1
    PruneEvery = 2
    QueueSize = 1
    MaxWrites = 5
    MaxRestarts = 1
    \* ViewCache
    Requests = {h1, h2}
    NoRequest = NoRequest
    GraphTTL = 1
    SummaryTTL = 2
    ErrorTTL = 1
    AssistantTTL = 1
    MaxViewClock = 2
    MaxChanges = 2
    MaxSwitches = 2
    \* ReviewFeedback
    Findings = {f1, f2, f3}
    NoIdentity = NoIdentity
    FeedbackRetention = 2
    LastSecond = 2
    \* Worklog
    WatchedFiles = {w1, w2}
    AgentNotes = {n1}
    MaxEdits = 2
    \* Discovery
    Ports = {q1, q2}
    MaxDaemons = 3
    MaxDescriptors = 2
    \* CommitFeed
    Pollers = {h1, h2}
    MaxCommits = 2
    LogLimit = 1
SPECIFICATION DeskSpec
SYMMETRY Symmetry
CONSTRAINT WritesWithDashboards
\* Bounds end every behaviour.
CHECK_DEADLOCK FALSE
INVARIANTS
    DeskTypeOK
    NeverToYoungerCase
    PromotedApart
    ChainAuditIsRight
    ResultRefResolves
    RepairIsEvidenced
    KnowledgeSettles
    RowTellsResult
    AnchorIsReal
    ViewIsCurrent
    EventsBounded
    StaleViewsExpire
    OldAnswersCleared
    FeedbackIsLastDecision
    ChangeReachesWorklog
    SearchFindsRunning
    RepeatsAreReopened
