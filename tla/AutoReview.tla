----------------------------- MODULE AutoReview -----------------------------
(***************************************************************************)
(* The rows behind automatic AI review in daemon/store.py: one               *)
(* monitored_projects row and its code_review_reports.  Projects share no     *)
(* row, so one is modelled.  Every method holds the store lock throughout      *)
(* and is one action; ProjectMonitor composes them with the threads that       *)
(* call them.                                                                  *)
(*                                                                           *)
(* ai_review_last_change is only ever compared with the clock: it is "none"    *)
(* (NULL), "recent", or "quiet" once the quiet window has passed.             *)
(***************************************************************************)
EXTENDS Integers, FiniteSets

CONSTANTS
    Paths,      \* files of the working tree
    MaxRuns,    \* bound: reports ever begun; run ids are 1..MaxRuns in start order
    MaxPending, \* the cap of a pending list (200 in the code)
    Retention   \* reports kept per project (DEFAULT_REVIEW_RETENTION)

ASSUME LimitsAssumption ==
    MaxRuns \in Nat /\ MaxPending \in Nat \ {0} /\ Retention \in Nat \ {0}

VARIABLES
    project,    \* the row; NoProject when it is not registered
    reports,    \* run id -> row of code_review_reports
    begun       \* number of reports begun

reviewVars == <<project, reports, begun>>

RunIds == 1..MaxRuns
ReviewStatuses ==
    {"disabled", "watching", "waiting", "running", "complete", "error"}
NoProject == [registered |-> FALSE, enabled |-> FALSE, status |-> "disabled",
              pending |-> {}, changed |-> "none"]
NoReport == [status |-> "absent", trigger |-> "manual", paths |-> {}]

\* A list of paths is the set of its members: each is in it once, and the order is
\* only looked at by the cap.
PathLists == {paths \in SUBSET Paths : Cardinality(paths) <= MaxPending}
ProjectRow ==
    [registered : BOOLEAN, enabled : BOOLEAN, status : ReviewStatuses,
     pending : PathLists, changed : {"none", "recent", "quiet"}]
ReportRow ==
    [status : {"absent", "running", "complete", "error"},
     trigger : {"manual", "automatic"}, paths : PathLists]

Running == {r \in RunIds : reports[r].status = "running"}

\* list(dict.fromkeys([*pending, *paths]))[:200]: what is in the list stays, and the
\* new paths fill it up; which of them come first is a matter of their names.
\* (Mutant: the lists are only joined.)
Joined(pending, paths) == {pending \cup paths}
Merged(pending, paths) ==
    {merged \in PathLists :
        /\ pending \subseteq merged /\ merged \subseteq pending \cup paths
        /\ paths \subseteq merged \/ Cardinality(merged) = MaxPending}

-----------------------------------------------------------------------------
(* The project row *)

\* Registering again keeps the review settings; base_commit is in CommitFeed.
register_monitored_project ==
    /\ project' = IF project.registered THEN project
                  ELSE [NoProject EXCEPT !.registered = TRUE]
    /\ UNCHANGED <<reports, begun>>

unregister_monitored_project ==
    /\ project.registered
    /\ project' = NoProject
    /\ UNCHANGED <<reports, begun>>

\* Either way the batch collected so far is forgotten.
set_auto_review_enabled(enabled) ==
    /\ project.registered
    /\ project' = [project EXCEPT !.enabled = enabled,
                                  !.status = IF enabled THEN "watching" ELSE "disabled",
                                  !.pending = {}, !.changed = "none"]
    /\ UNCHANGED <<reports, begun>>

\* The row after new paths are noted; a disabled project notes nothing.
Noted(row, paths) ==
    IF row.enabled
    THEN {[row EXCEPT !.pending = merged, !.changed = "recent", !.status = "waiting"] :
             merged \in Merged(row.pending, paths)}
    ELSE {row}

note_auto_review_changes(paths) == project' \in Noted(project, paths)

\* The clock passes the quiet window of the last change.
QuietPeriodEnds ==
    /\ project.changed = "recent"
    /\ project' = [project EXCEPT !.changed = "quiet"]
    /\ UNCHANGED <<reports, begun>>

Due ==
    /\ Running = {}
    /\ project.enabled
    /\ project.status # "running"
    /\ project.changed = "quiet"
    /\ project.pending # {}

\* Taking the batch empties it and marks the project, in one transaction.
claim_due_auto_review ==
    project' = IF Due
               THEN [project EXCEPT !.status = "running", !.pending = {},
                                    !.changed = "none"]
               ELSE project

\* A batch that could not be started goes back to the list.  (Mutant: only the
\* error is written.)
Requeued(row, paths) ==
    {LET waiting == row.enabled /\ merged # {}
     IN  [row EXCEPT !.pending = merged,
                     !.status = IF waiting THEN "waiting" ELSE "error",
                     !.changed = IF waiting THEN "recent" ELSE "none"] :
        merged \in Merged(row.pending, paths)}

mark_failure_only(paths) ==
    project' = IF project.registered THEN [project EXCEPT !.status = "error"] ELSE project
set_auto_review_failure(paths) ==
    project' \in IF project.registered THEN Requeued(project, paths) ELSE {project}

-----------------------------------------------------------------------------
(* Reports *)

\* Refused while another report of the project runs.
NoneRunning == Running = {}

begin_code_review_report(trigger, paths) ==
    /\ begun < MaxRuns
    /\ begun' = begun + 1
    /\ reports' = [reports EXCEPT ![begun + 1] =
                      [status |-> "running", trigger |-> trigger, paths |-> paths]]
    /\ project' = IF project.registered
                  THEN [project EXCEPT !.status = "running"] ELSE project

\* The paths of a failed automatic review are queued again.
QueueFailed(row, report, status) ==
    IF status # "complete" /\ report.trigger = "automatic" /\ row.enabled
    THEN {[row EXCEPT !.pending = merged,
                      !.changed = IF merged = {} THEN "none" ELSE "recent"] :
             merged \in Merged(row.pending, report.paths)}
    ELSE {row}

\* All but the newest Retention reports are deleted.
Pruned(rows) ==
    [r \in RunIds |-> IF r <= begun - Retention THEN NoReport ELSE rows[r]]

finish_code_review_report(r, status) ==
    /\ reports[r].status # "absent"
    /\ reports' = Pruned([reports EXCEPT ![r].status = status])
    /\ project' \in
          IF ~project.registered THEN {project}
          ELSE {[row EXCEPT !.status = IF row.enabled /\ row.pending # {}
                                       THEN "waiting" ELSE status] :
                   row \in QueueFailed(project, reports[r], status)}
    /\ UNCHANGED begun

\* After a restart every report still 'running' belongs to a dead worker.  Only
\* an automatic one says anything about the project row.
RecoveredProject(r) ==
    IF ~project.registered \/ reports[r].trigger # "automatic" THEN {project}
    ELSE IF project.enabled THEN Requeued(project, reports[r].paths)
    ELSE {[project EXCEPT !.status = "disabled"]}

recover_interrupted_code_reviews ==
    /\ reports' = [r \in RunIds |->
          IF r \in Running THEN [reports[r] EXCEPT !.status = "error"] ELSE reports[r]]
    /\ project' \in IF Running = {} THEN {project}
                    ELSE RecoveredProject(CHOOSE r \in Running : TRUE)
    /\ UNCHANGED begun

ReviewInit ==
    /\ project = NoProject
    /\ reports = [r \in RunIds |-> NoReport]
    /\ begun = 0

\* The rows have the columns the schema and the writers allow.
ReviewTypeOK ==
    /\ project \in ProjectRow
    /\ reports \in [RunIds -> ReportRow]
    /\ begun \in 0..MaxRuns
=============================================================================
