------------------------------ MODULE ReviewRun ------------------------------
(***************************************************************************)
(* Project Review Runs: the review_runs and review_task_runs rows of          *)
(* daemon/store.py, the /drive and /reviews handlers of daemon/server.py and   *)
(* the thread of daemon/drive.py that carries one run through its tasks.       *)
(* One workspace is modelled: the rows of two never meet.                      *)
(*                                                                           *)
(* run_drive is a fixed script of task updates, each followed by a publish.  A *)
(* publish may raise (queue.Full), like any other call; where that happens      *)
(* decides what becomes of the row.                                            *)
(***************************************************************************)
EXTENDS Integers, SequencesExt, FiniteSetsExt

CONSTANTS
    MaxRuns,    \* bound: runs ever started; ids are 1..MaxRuns in start order
    Retention,  \* DEFAULT_REVIEW_RETENTION
    Scopes      \* what normalize_review_scope may leave open, and if there is a Harness

AllScopes == [tests : BOOLEAN, static : BOOLEAN, harness : BOOLEAN]

ASSUME RunLimits ==
    MaxRuns \in Nat /\ Retention \in Nat \ {0} /\ Scopes \subseteq AllScopes

VARIABLES
    runs,        \* run id -> row of review_runs with its task rows
    drive,       \* run id -> its thread
    started,     \* number of runs started
    codeReview,  \* a code_review_reports row of the workspace is 'running'
    fate         \* history: what befell a run that did not end by itself: the process
                 \* died, its thread ended in a publish that raised, clear_all

driveVars == <<runs, drive, started, codeReview, fate>>

RunIds == 1..MaxRuns
TaskKeys == {"prepare", "project_review", "test_probe", "static_scan", "summary",
             "case_handling"}
TaskStatuses == {"pending", "running", "complete", "error", "skipped"}
Terminal == {"complete", "error", "skipped"}

NoScope == [tests |-> FALSE, static |-> FALSE, harness |-> FALSE]

NoRun == [status |-> "absent", tasks |-> [t \in TaskKeys |-> "pending"],
          linked |-> FALSE]
\* tested: the probe returned; promoted: it failed and a Case came of it.
NoDrive == [phase |-> "none", step |-> 1, tested |-> FALSE, promoted |-> FALSE,
             scope |-> NoScope]

Present == {r \in RunIds : runs[r].status # "absent"}
Running == {r \in RunIds : runs[r].status = "running"}
Alive(r) == drive[r].phase # "none"

-----------------------------------------------------------------------------
(* Rows *)

\* All but the newest Retention - 1 finished runs; running ones are kept.
stale ==
    LET finished == Present \ Running
    IN  {r \in finished : Cardinality({s \in finished : s > r}) >= Retention - 1}

\* Check and insert under one lock.  (Mutant: no check.)
AlwaysIdle == TRUE
Idle == Running = {}

begin_review_run_if_idle(scope) ==
    /\ started < MaxRuns
    /\ Idle
    /\ started' = started + 1
    /\ runs' = [r \in RunIds |->
          IF r = started + 1 THEN [NoRun EXCEPT !.status = "running"]
          ELSE IF r \in stale THEN NoRun ELSE runs[r]]
    /\ drive' = [drive EXCEPT ![started + 1] =
                    [NoDrive EXCEPT !.phase = "begun", !.scope = scope]]
    /\ UNCHANGED <<codeReview, fate>>

\* An update of a row that is gone does nothing.
update_review_task(row, task, status) ==
    IF row.status = "absent" THEN row ELSE [row EXCEPT !.tasks[task] = status]

finish_review_run(row, status, linked) ==
    IF row.status = "absent" THEN row
    ELSE [row EXCEPT !.status = status, !.linked = linked]

-----------------------------------------------------------------------------
(* run_drive *)

Step(task, to, due) == [task |-> task, to |-> to, due |-> due]
RunsOrSkips(in_scope) == {IF in_scope THEN "running" ELSE "skipped"}

\* The project review Agent answers in every runtime but the CLI; whatever goes wrong
\* on the way is an answer too.
dispatch_review_task == {"completed", "failed"}
dispatch_review ==
    {IF answer = "completed" THEN "complete" ELSE "error" : answer \in dispatch_review_task}

\* The updates in their order: a task, the statuses this update can write, and whether
\* the scope has it at all.
Script(scope) ==
    <<Step("prepare", {"running"}, TRUE),
      Step("prepare", {"complete"}, TRUE),
      Step("project_review", RunsOrSkips(scope.harness), TRUE),
      Step("project_review", dispatch_review, scope.harness),
      Step("test_probe", RunsOrSkips(scope.tests), TRUE),
      Step("static_scan", RunsOrSkips(scope.static), TRUE),
      Step("test_probe", {"complete", "error"}, scope.tests),
      Step("static_scan", {"complete", "error"}, scope.static),
      Step("case_handling", {"running"}, TRUE),
      Step("case_handling", {"complete"}, TRUE),
      Step("summary", {"running"}, TRUE),
      Step("summary", {"complete"}, TRUE)>>

End == 13

\* next is the first update after the n-th that the scope has.
Follows(scope, n, next) ==
    /\ \A m \in (n + 1)..(next - 1) : ~Script(scope)[m].due
    /\ next # End => Script(scope)[next].due

Current(r) == Script(drive[r].scope)[drive[r].step]
InScript(r) == drive[r].phase = "script" /\ drive[r].step < End

\* The updates that have an except clause of their own, which writes 'error'.
Guarded(r) == Current(r).to = {"complete", "error"} /\ Current(r).task # "project_review"

Promotes(r) == Current(r).task = "case_handling" /\ Current(r).to = {"complete"}

\* Only a test that ran and failed is promoted; the intake may refuse or park it.
\* (Mutant: whatever became of the test.)
promote_anything(r) ==
    IF Promotes(r) THEN BOOLEAN ELSE {drive[r].promoted}
promote_test_failure(r) ==
    IF Promotes(r) /\ drive[r].tested THEN BOOLEAN ELSE {drive[r].promoted}

Unchanged == UNCHANGED <<started, codeReview>>

\* The first publish comes before the try: if it raises, the thread is gone.
FirstPublish(r) ==
    /\ drive[r].phase = "begun"
    /\ \/ drive' = [drive EXCEPT ![r].phase = "script"] /\ UNCHANGED fate
       \/ drive' = [drive EXCEPT ![r] = NoDrive] /\ fate' = [fate EXCEPT ![r] = "unreported"]
    /\ UNCHANGED runs /\ Unchanged

TakeStep(r) ==
    /\ InScript(r)
    /\ \E status \in Current(r).to, promoted \in promote_test_failure(r),
          next \in (drive[r].step + 1)..End :
          /\ Follows(drive[r].scope, drive[r].step, next)
          /\ runs' = [runs EXCEPT ![r] = update_review_task(@, Current(r).task, status)]
          /\ drive' = [drive EXCEPT
                ![r].step = next, ![r].promoted = promoted,
                ![r].tested = @ \/ (Current(r).task = "test_probe" /\ status = "complete")]
    /\ UNCHANGED fate /\ Unchanged

\* The work of a step raises before its update, or the publish after it.
StepRaises(r) ==
    /\ InScript(r)
    /\ \E promoted \in promote_test_failure(r),
          status \in IF Guarded(r) THEN {"error"}
                     ELSE Current(r).to \cup {runs[r].tasks[Current(r).task]} :
          /\ runs' = [runs EXCEPT ![r] = update_review_task(@, Current(r).task, status)]
          /\ drive' = [drive EXCEPT ![r].phase = "failing", ![r].promoted = promoted]
    /\ UNCHANGED fate /\ Unchanged

Complete(r) ==
    /\ drive[r].phase = "script" /\ ~InScript(r)
    /\ runs' = [runs EXCEPT ![r] = finish_review_run(@, "complete", drive[r].promoted)]
    /\ drive' = [drive EXCEPT ![r].phase = "done"]
    /\ UNCHANGED fate /\ Unchanged

\* The last publishes are inside the try too.
LastPublish(r) ==
    /\ drive[r].phase = "done"
    /\ \/ drive' = [drive EXCEPT ![r] = NoDrive]
       \/ drive' = [drive EXCEPT ![r].phase = "failing"]
    /\ UNCHANGED <<runs, fate>> /\ Unchanged

\* The except clause: the summary task and the run become errors, whatever they
\* were, and the run loses its report and its linked Case.  The publish between the
\* two writes may raise, and then the second is skipped.  (Mutants: the run row is
\* left as it was, or gets a word that readers of the row do not know.)
leave_row(row) == row
run_failed(row) == finish_review_run(row, "failed", FALSE)
run_error(row) == finish_review_run(row, "error", FALSE)

ExceptClause(r) ==
    /\ drive[r].phase = "failing"
    /\ LET row == update_review_task(runs[r], "summary", "error")
       IN  \/ runs' = [runs EXCEPT ![r] = run_error(row)] /\ UNCHANGED fate
           \/ /\ runs' = [runs EXCEPT ![r] = row]
              /\ fate' = [fate EXCEPT ![r] = "unreported"]
    /\ drive' = [drive EXCEPT ![r] = NoDrive]
    /\ Unchanged

-----------------------------------------------------------------------------
(* The other requests, and a crash: no sweep looks at review_runs on a restart *)

\* (Mutant: only the reports are looked at.)
NoReportRunning == ~codeReview
NoReviewRunning == Running = {} /\ ~codeReview

delete_review_history ==
    /\ NoReviewRunning
    /\ Present # {}
    /\ runs' = [r \in RunIds |-> NoRun]
    /\ UNCHANGED <<drive, started, codeReview, fate>>

\* Deletes the rows of a run in progress too; its thread goes on.
clear_all ==
    /\ Present # {} \/ codeReview
    /\ runs' = [r \in RunIds |-> NoRun]
    /\ codeReview' = FALSE
    /\ fate' = [r \in RunIds |-> IF r \in Running THEN "cleared" ELSE fate[r]]
    /\ UNCHANGED <<drive, started>>

\* An automatic or manual AI review of the workspace begins or ends.
CodeReview ==
    /\ codeReview' = ~codeReview
    /\ UNCHANGED <<runs, drive, started, fate>>

DriveCrash ==
    /\ \E r \in RunIds : Alive(r)
    /\ fate' = [r \in RunIds |->
                   IF r \in Running /\ Alive(r) THEN "crashed" ELSE fate[r]]
    /\ drive' = [r \in RunIds |-> NoDrive]
    /\ UNCHANGED <<runs, started, codeReview>>

-----------------------------------------------------------------------------

DriveInit ==
    /\ runs = [r \in RunIds |-> NoRun]
    /\ drive = [r \in RunIds |-> NoDrive]
    /\ started = 0
    /\ codeReview = FALSE
    /\ fate = [r \in RunIds |-> "none"]

run_drive(r) ==
    \/ FirstPublish(r) \/ TakeStep(r) \/ StepRaises(r) \/ Complete(r) \/ LastPublish(r)
    \/ ExceptClause(r)

DriveNext ==
    \/ \E scope \in Scopes : begin_review_run_if_idle(scope)
    \/ \E r \in RunIds : run_drive(r)
    \/ delete_review_history \/ clear_all \/ CodeReview \/ DriveCrash

DriveSpec == DriveInit /\ [][DriveNext]_driveVars

-----------------------------------------------------------------------------
(* Correctness *)

\* Rows and threads keep the values their writers allow.
RunTypeOK ==
    /\ runs \in [RunIds -> [status : {"absent", "running", "complete", "error"},
                            tasks : [TaskKeys -> TaskStatuses], linked : BOOLEAN]]
    /\ drive \in [RunIds -> [phase : {"none", "begun", "script", "done", "failing"},
                             step : 1..End, tested : BOOLEAN, promoted : BOOLEAN,
                             scope : AllScopes]]
    /\ started \in 0..MaxRuns /\ codeReview \in BOOLEAN
    /\ fate \in [RunIds -> {"none", "crashed", "unreported", "cleared"}]

\* Two requests never start two runs of a workspace, and a workspace is busy only
\* while a thread works on the run, unless a crash or a publish that raised took
\* the thread away: no other way out of run_drive leaves the row 'running'.
BusyMeansAtWork ==
    /\ Cardinality(Running) <= 1
    /\ \A r \in Running : Alive(r) \/ fate[r] \in {"crashed", "unreported"}

\* A run that says 'complete' is whole: no task of it is pending or running, a
\* disabled or failed probe has linked no Case, and no linked Case is lost while
\* the thread still stands by its result.
CompleteIsWhole ==
    \A r \in RunIds : runs[r].status = "complete" =>
        /\ \A t \in TaskKeys : runs[r].tasks[t] \in Terminal
        /\ runs[r].linked => runs[r].tasks["test_probe"] = "complete"
        /\ Alive(r) => (runs[r].linked <=> drive[r].promoted)

\* Neither the retention of another run nor a deletion of the history takes away
\* the rows of a run in progress.
ActiveRunKept ==
    [][\A r \in Running : runs'[r].status = "absent" => fate'[r] = "cleared"]_driveVars

\* The thread of every run ends, whatever raises, and leaves it finished unless a
\* crash or a publish that raised came in between.
DrivesEnd ==
    \A r \in RunIds :
        Alive(r) ~> (~Alive(r) /\ (runs[r].status = "running" => fate[r] \in {"crashed", "unreported"}))
=============================================================================
