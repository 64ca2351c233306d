---------------------------- MODULE Retrospective ----------------------------
(***************************************************************************)
(* Retrospectives and knowledge of one Case (retrospective/retrospective.py and *)
(* the knowledge_records of daemon/store.py): the hook's thread and requests     *)
(* generate a report, a manifest and knowledge rows under the lock of the Case; *)
(* any write may fail, and the process may die.  No caller passes force.        *)
(***************************************************************************)
EXTENDS Artifacts

CONSTANTS
    Generators,  \* threads that run generate_retrospective
    NoGenerator, \* nobody holds the retrospective_lock
    MaxMoves     \* bound: transitions of the Case

ASSUME GeneratorAssumption == NoGenerator \notin Generators /\ MaxMoves \in Nat
ASSUME RetroKindsAssumption == {"retrospective_report", "knowledge_manifest"} \subseteq Kinds

VARIABLES
    status,      \* of the Case, as far as the hook and the guard care
    moves,       \* number of transitions
    generator,   \* thread -> program counter, locals
    holder,      \* of the retrospective_lock
    records,     \* knowledge_records: their manifest, status and if the batch is whole
    broken       \* history: a generation was cut short by a crash, a failed manifest
                 \* or a failed clean-up

retroVars == <<artifactVars, status, moves, generator, holder, records, broken>>

RetroKinds == {"retrospective_report", "knowledge_manifest"}
FreeThread == [pc |-> "free", manifest |-> 0]
AtStep(g, pc) == generator[g].pc = pc
Goto(g, pc) == generator' = [generator EXCEPT ![g].pc = pc]
Ends(g) == generator' = [generator EXCEPT ![g] = FreeThread] /\ holder' = NoGenerator
Begins(g) == generator' = [generator EXCEPT ![g].pc = "waiting"]

Batch(manifest, whole) == [manifest |-> manifest, status |-> "pending_review", whole |-> whole]
CaseStatuses == {"active", "ESCALATED", "ROLLED_BACK", "CLOSED"}
Quiet == UNCHANGED <<status, moves>>

-----------------------------------------------------------------------------
(* Triggers *)

\* Where the Orchestrator asks transition_case to move a Case, and a retry.
OrchestratorTargets == {"active", "ESCALATED"}
RETROSPECTIVE_TRIGGER_STATES == {"CLOSED", "ROLLED_BACK"}

transition_case(to) ==
    /\ moves < MaxMoves /\ to # status /\ status # "CLOSED"
    /\ status' = to /\ moves' = moves + 1
    /\ IF to \in RETROSPECTIVE_TRIGGER_STATES
       THEN \E g \in Generators : AtStep(g, "free") /\ Begins(g)
       ELSE UNCHANGED generator
    /\ UNCHANGED <<artifactVars, holder, records, broken>>

\* Writes CLOSED itself and looks at no hook.
close_case ==
    /\ moves < MaxMoves /\ status # "CLOSED"
    /\ status' = "CLOSED" /\ moves' = moves + 1
    /\ UNCHANGED <<artifactVars, generator, holder, records, broken>>

\* POST /api/cases/{id}/retrospective; two requests may be served at once.
handle_generate_retrospective(g) ==
    /\ AtStep(g, "free") /\ status # "active"
    /\ Begins(g)
    /\ UNCHANGED <<artifactVars, holder, records, broken>> /\ Quiet

-----------------------------------------------------------------------------
(* _generate_locked *)

\* There is one as soon as there is a report or a manifest, readable or not.
get_retrospective == Recorded(RetroKinds)

\* (Mutant: the threads of a Case are not serialised.)
never_held == TRUE
lock_free == holder = NoGenerator

Guard(g) ==
    /\ AtStep(g, "waiting") /\ lock_free
    /\ IF get_retrospective # {}
       THEN Ends(g)
       ELSE Goto(g, "report") /\ holder' = g
    /\ UNCHANGED <<artifactVars, records, broken>> /\ Quiet

\* A failure here leaves nothing behind.
WriteReport(g) ==
    /\ AtStep(g, "report")
    /\ \/ record_artifact("retrospective_report") /\ Goto(g, "manifest") /\ UNCHANGED holder
       \/ UNCHANGED artifactVars /\ Ends(g)
    /\ UNCHANGED <<records, broken>> /\ Quiet

\* A failure here leaves the report, and no clean-up looks after it.
WriteManifest(g) ==
    /\ AtStep(g, "manifest")
    /\ \/ /\ record_artifact("knowledge_manifest")
          /\ generator' = [generator EXCEPT ![g].pc = "knowledge", ![g].manifest = NextArtifact]
          /\ UNCHANGED <<holder, broken>>
       \/ UNCHANGED artifactVars /\ Ends(g) /\ broken' = TRUE
    /\ UNCHANGED records /\ Quiet

\* Rows inserted before the failure stay in the open transaction, and the commit of
\* the clean-up, or of anybody who writes next, makes them permanent.
record_knowledge_records(g) ==
    /\ AtStep(g, "knowledge")
    /\ \/ records' = Append(records, Batch(generator[g].manifest, TRUE)) /\ Ends(g)
       \/ /\ \/ records' = Append(records, Batch(generator[g].manifest, FALSE))
             \/ UNCHANGED records
          /\ Goto(g, "cleanup") /\ UNCHANGED holder
    /\ UNCHANGED <<artifactVars, broken>> /\ Quiet

\* Removes every report and manifest of the Case, of earlier generations too; a
\* failure of the clean-up itself is swallowed.
clean_up == delete_artifacts_for_case(RetroKinds)

CleanUp(g) ==
    /\ AtStep(g, "cleanup")
    /\ \/ clean_up /\ UNCHANGED broken
       \/ DeleteInterrupted(RetroKinds) /\ broken' = TRUE
    /\ Ends(g)
    /\ UNCHANGED records /\ Quiet

-----------------------------------------------------------------------------

\* 'verified' makes a record reusable; a decision can be changed, not withdrawn.
review_knowledge_record(r, decision) ==
    /\ records[r].status # decision
    /\ records' = [records EXCEPT ![r].status = decision]
    /\ UNCHANGED <<artifactVars, generator, holder, broken>> /\ Quiet

CrashRetro ==
    /\ \E g \in Generators : ~AtStep(g, "free")
    /\ generator' = [g \in Generators |-> FreeThread]
    /\ holder' = NoGenerator
    /\ broken' = (broken \/ holder # NoGenerator)
    /\ IF holder # NoGenerator /\ AtStep(holder, "report")
       THEN CrashInRecord("retrospective_report") \/ UNCHANGED artifactVars
       ELSE UNCHANGED artifactVars
    /\ UNCHANGED records /\ Quiet

RetroInit ==
    /\ ArtifactInit
    /\ status = "active" /\ moves = 0
    /\ generator = [g \in Generators |-> FreeThread] /\ holder = NoGenerator
    /\ records = <<>> /\ broken = FALSE

Generate(g) ==
    Guard(g) \/ WriteReport(g) \/ WriteManifest(g) \/ record_knowledge_records(g) \/ CleanUp(g)

RetroNext ==
    \/ \E to \in OrchestratorTargets : transition_case(to)
    \/ close_case
    \/ \E g \in Generators : Generate(g) \/ handle_generate_retrospective(g)
    \/ \E r \in DOMAIN records, decision \in {"verified", "rejected"} :
          review_knowledge_record(r, decision)
    \/ CrashRetro

RetroSpec == RetroInit /\ [][RetroNext]_retroVars

-----------------------------------------------------------------------------
(* Correctness *)

RetroTypeOK ==
    /\ ArtifactTypeOK
    /\ status \in CaseStatuses /\ moves \in 0..MaxMoves
    /\ generator \in [Generators ->
          [pc : {"free", "waiting", "report", "manifest", "knowledge", "cleanup"},
           manifest : 0..MaxArtifacts]]
    /\ holder \in Generators \cup {NoGenerator}
    /\ \A r \in DOMAIN records :
          records[r] \in [manifest : 1..MaxArtifacts, whole : BOOLEAN,
                          status : {"pending_review", "verified", "rejected"}]
    /\ broken \in BOOLEAN

WholeBatches == {r \in DOMAIN records : records[r].whole}

\* Once a generation has inserted all its entries, no later one inserts any: whatever
\* else is on record is older and was left by an insert that failed (each of those is
\* followed by another extraction of the same entries, see NoDuplicateKnowledge).
\* And as long as nothing was cut short, the Case shows a report exactly when its
\* knowledge is whole, so that after a failure the next request generates again.
KnowledgeSettles ==
    /\ \A r \in WholeBatches : r = Len(records)
    /\ holder = NoGenerator /\ ~broken => (get_retrospective # {} <=> WholeBatches # {})

\* retrospective.py:97-98, of a failed insert: the artifacts "are persisted but
\* knowledge rows are not", so that generating again after the clean-up does not
\* duplicate knowledge (26-28).  The entries of a Case are on record once at most.
NoDuplicateKnowledge == Len(records) <= 1
=============================================================================
