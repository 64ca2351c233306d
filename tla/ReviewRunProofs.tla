-------------------------- MODULE ReviewRunProofs --------------------------
(* What holds of the review runs of a workspace for every number of runs,       *)
(* every retention and every set of scopes: the row of a run in progress has a  *)
(* thread that works on it, and a run that says 'complete' is whole.            *)
EXTENDS ReviewRun, FiniteSetTheorems, TLAPS

Rows == [status : {"absent", "running", "complete", "error"},
         tasks : [TaskKeys -> TaskStatuses], linked : BOOLEAN]
Threads == [phase : {"none", "begun", "script", "done", "failing"},
            step : 1..End, tested : BOOLEAN, promoted : BOOLEAN, scope : AllScopes]
Fates == {"none", "crashed", "unreported", "cleared"}

\* What the thread stands on after n - 1 updates: the tasks it has left behind.
Settled(tasks, n, scope) ==
    /\ n > 2 => tasks["prepare"] \in Terminal
    /\ n > 4 => tasks["project_review"] \in Terminal
    /\ n > 7 \/ (n > 5 /\ ~scope.tests) => tasks["test_probe"] \in Terminal
    /\ n > 8 \/ (n > 6 /\ ~scope.static) => tasks["static_scan"] \in Terminal
    /\ n > 10 => tasks["case_handling"] \in Terminal
    /\ n > 12 => tasks["summary"] \in Terminal

\* The row and the thread of a run agree.
AgreeOn(row, thread) ==
    /\ thread.phase \in {"begun", "script"} => row.status \in {"running", "absent"}
    /\ thread.phase = "done" => row.status # "running"
    /\ thread.phase = "begun" =>
          thread.step = 1 /\ ~thread.tested /\ ~thread.promoted
    /\ thread.phase = "script" =>
          /\ thread.promoted => thread.tested
          /\ thread.tested => thread.step > 7
          /\ row.status = "running" =>
                /\ Settled(row.tasks, thread.step, thread.scope)
                /\ thread.tested => row.tasks["test_probe"] = "complete"

WholeRow(row, thread) ==
    row.status = "complete" =>
        /\ \A t \in TaskKeys : row.tasks[t] \in Terminal
        /\ row.linked => row.tasks["test_probe"] = "complete"
        /\ thread.phase # "none" => (row.linked <=> thread.promoted)

RunsAgree == \A r \in RunIds : AgreeOn(runs[r], drive[r]) /\ WholeRow(runs[r], drive[r])

OneAtWork ==
    /\ \A r, s \in Running : r = s
    /\ \A r \in Running : Alive(r) \/ fate[r] \in {"crashed", "unreported"}

-----------------------------------------------------------------------------
(* The script *)

\* What the twelve updates of run_drive are about and what they can write.
LEMMA ScriptSteps ==
    ASSUME NEW scope \in AllScopes
    PROVE  /\ Script(scope)[1].task = "prepare"
           /\ Script(scope)[2].task = "prepare" /\ Script(scope)[2].to = {"complete"}
           /\ Script(scope)[3].task = "project_review"
           /\ Script(scope)[3].to = RunsOrSkips(scope.harness)
           /\ Script(scope)[4].task = "project_review"
           /\ Script(scope)[4].to = dispatch_review /\ Script(scope)[4].due = scope.harness
           /\ Script(scope)[5].task = "test_probe"
           /\ Script(scope)[5].to = RunsOrSkips(scope.tests)
           /\ Script(scope)[6].task = "static_scan"
           /\ Script(scope)[6].to = RunsOrSkips(scope.static)
           /\ Script(scope)[7].task = "test_probe"
           /\ Script(scope)[7].to = {"complete", "error"}
           /\ Script(scope)[7].due = scope.tests
           /\ Script(scope)[8].task = "static_scan"
           /\ Script(scope)[8].to = {"complete", "error"}
           /\ Script(scope)[8].due = scope.static
           /\ Script(scope)[9].task = "case_handling" /\ Script(scope)[9].to = {"running"}
           /\ Script(scope)[10].task = "case_handling" /\ Script(scope)[10].to = {"complete"}
           /\ Script(scope)[11].task = "summary"
           /\ Script(scope)[12].task = "summary" /\ Script(scope)[12].to = {"complete"}
           /\ \A n \in {1, 2, 3, 5, 6, 9, 10, 11, 12} : Script(scope)[n].due
  BY DEF Script, Step


LEMMA AnswersAreStatuses == dispatch_review \subseteq {"complete", "error"}
  BY DEF dispatch_review, dispatch_review_task

\* Every update is about a task of the ledger and writes a status of it.
LEMMA ScriptType ==
    ASSUME NEW scope \in AllScopes, NEW n \in 1..(End - 1)
    PROVE  /\ Script(scope)[n].task \in TaskKeys
           /\ Script(scope)[n].to \subseteq TaskStatuses
  <1>1. n \in {1, 2, 3, 4, 5, 6, 7, 8, 9, 10, 11, 12}
    BY DEF End
  <1>2. Script(scope)[1].to = {"running"} /\ Script(scope)[11].to = {"running"}
    BY DEF Script, Step
  <1>3. Script(scope)[n].task \in TaskKeys
    BY <1>1, ScriptSteps DEF TaskKeys
  <1>4. /\ "running" \in TaskStatuses /\ "skipped" \in TaskStatuses
        /\ "complete" \in TaskStatuses /\ "error" \in TaskStatuses
    BY DEF TaskStatuses
  <1>5. /\ dispatch_review \subseteq TaskStatuses
        /\ \A in_scope : RunsOrSkips(in_scope) \subseteq TaskStatuses
        /\ {"running"} \subseteq TaskStatuses /\ {"complete"} \subseteq TaskStatuses
        /\ {"complete", "error"} \subseteq TaskStatuses
    BY <1>4, AnswersAreStatuses DEF RunsOrSkips
  <1>6. n \in {1, 2, 3, 4, 5, 6} => Script(scope)[n].to \subseteq TaskStatuses
    BY <1>2, <1>5, ScriptSteps
  <1>7. n \in {7, 8, 9, 10, 11, 12} => Script(scope)[n].to \subseteq TaskStatuses
    BY <1>2, <1>5, ScriptSteps
  <1> QED
    BY <1>1, <1>3, <1>6, <1>7

\* The step that comes after an update never jumps over one the scope has.
LEMMA WhatFollows ==
    ASSUME NEW scope \in AllScopes, NEW n \in 1..(End - 1), NEW next \in (n + 1)..End,
           Follows(scope, n, next)
    PROVE  /\ n \in {1, 2} => next = n + 1
           /\ n = 3 => next = IF scope.harness THEN 4 ELSE 5
           /\ n \in {4, 5} => next = n + 1
           /\ n = 6 => next = IF scope.tests THEN 7 ELSE IF scope.static THEN 8 ELSE 9
           /\ n = 7 => next = IF scope.static THEN 8 ELSE 9
           /\ n >= 8 => next = n + 1
  <1>1. n \in 1..12 /\ next \in (n + 1)..13
    BY DEF End
  <1>2. \A m \in {1, 2, 3, 5, 6, 9, 10, 11, 12} : n < m => next <= m
    <2> SUFFICES ASSUME NEW m \in {1, 2, 3, 5, 6, 9, 10, 11, 12}, n < m, m < next
                 PROVE  FALSE
      BY <1>1
    <2>1. m \in (n + 1)..(next - 1)
      BY <1>1
    <2> QED
      BY <2>1, ScriptSteps DEF Follows
  <1>3. /\ n < 4 /\ scope.harness => next <= 4
        /\ n < 7 /\ scope.tests => next <= 7
        /\ n < 8 /\ scope.static => next <= 8
    <2>1. n < 4 /\ 4 < next => ~Script(scope)[4].due
      BY <1>1 DEF Follows
    <2>2. n < 7 /\ 7 < next => ~Script(scope)[7].due
      BY <1>1 DEF Follows
    <2>3. n < 8 /\ 8 < next => ~Script(scope)[8].due
      BY <1>1 DEF Follows
    <2> QED
      BY <1>1, <2>1, <2>2, <2>3, ScriptSteps
  <1>4. /\ next = 4 => scope.harness
        /\ next = 7 => scope.tests
        /\ next = 8 => scope.static
    BY ScriptSteps DEF Follows, End
  <1> QED
    BY <1>1, <1>2, <1>3, <1>4

\* One update settles what the thread leaves behind it.
LEMMA UpdateSettles ==
    ASSUME NEW scope \in AllScopes, NEW n \in 1..(End - 1), NEW next \in (n + 1)..End,
           Follows(scope, n, next),
           NEW tasks \in [TaskKeys -> TaskStatuses], Settled(tasks, n, scope),
           NEW status \in Script(scope)[n].to
    PROVE  Settled([tasks EXCEPT ![Script(scope)[n].task] = status], next, scope)
  <1> DEFINE after == [tasks EXCEPT ![Script(scope)[n].task] = status]
  <1>1. n \in {1, 2, 3, 4, 5, 6, 7, 8, 9, 10, 11, 12} /\ next \in Nat
    BY DEF End
  <1>2. scope.harness \in BOOLEAN /\ scope.tests \in BOOLEAN /\ scope.static \in BOOLEAN
    BY DEF AllScopes
  <1>3. /\ "prepare" \in TaskKeys /\ "project_review" \in TaskKeys
        /\ "test_probe" \in TaskKeys /\ "static_scan" \in TaskKeys
        /\ "case_handling" \in TaskKeys /\ "summary" \in TaskKeys
    BY DEF TaskKeys
  <1>4. \A t \in TaskKeys :
           after[t] = IF t = Script(scope)[n].task THEN status ELSE tasks[t]
    OBVIOUS
  <1>5. n = 1 => Settled(after, next, scope)
    BY <1>1, <1>2, <1>3, <1>4, WhatFollows, ScriptSteps DEF Settled, Terminal
  <1>6. n = 2 => Settled(after, next, scope)
    BY <1>1, <1>3, <1>4, WhatFollows, ScriptSteps DEF Settled, Terminal
  <1>7. n = 3 => Settled(after, next, scope)
    BY <1>1, <1>2, <1>3, <1>4, WhatFollows, ScriptSteps DEF Settled, Terminal, RunsOrSkips
  <1>8. n = 4 => Settled(after, next, scope)
    <2> SUFFICES ASSUME n = 4 PROVE Settled(after, next, scope)
      OBVIOUS
    <2>1. status \in Terminal /\ Script(scope)[n].task = "project_review"
      BY ScriptSteps, AnswersAreStatuses DEF Terminal
    <2>2. next = 5
      BY WhatFollows
    <2> QED
      BY <1>2, <1>3, <1>4, <2>1, <2>2 DEF Settled
  <1>9. n = 5 => Settled(after, next, scope)
    BY <1>1, <1>2, <1>3, <1>4, WhatFollows, ScriptSteps DEF Settled, Terminal, RunsOrSkips
  <1>10. n = 6 => Settled(after, next, scope)
    BY <1>1, <1>2, <1>3, <1>4, WhatFollows, ScriptSteps DEF Settled, Terminal, RunsOrSkips
  <1>11. n = 7 => Settled(after, next, scope)
    BY <1>1, <1>2, <1>3, <1>4, WhatFollows, ScriptSteps DEF Settled, Terminal
  <1>12. n = 8 => Settled(after, next, scope)
    BY <1>1, <1>3, <1>4, WhatFollows, ScriptSteps DEF Settled, Terminal
  <1>13. n = 9 => Settled(after, next, scope)
    BY <1>1, <1>3, <1>4, WhatFollows, ScriptSteps DEF Settled, Terminal
  <1>14. n = 10 => Settled(after, next, scope)
    BY <1>1, <1>3, <1>4, WhatFollows, ScriptSteps DEF Settled, Terminal
  <1>15. n = 11 => Settled(after, next, scope)
    BY <1>1, <1>3, <1>4, WhatFollows, ScriptSteps DEF Settled, Terminal
  <1>16. n = 12 => Settled(after, next, scope)
    BY <1>1, <1>3, <1>4, WhatFollows, ScriptSteps DEF Settled, Terminal
  <1> QED
    BY <1>1, <1>5, <1>6, <1>7, <1>8, <1>9, <1>10, <1>11, <1>12, <1>13, <1>14, <1>15, <1>16

-----------------------------------------------------------------------------
(* Types *)

LEMMA TypesMean ==
    RunTypeOK <=> /\ runs \in [RunIds -> Rows] /\ drive \in [RunIds -> Threads]
                  /\ started \in 0..MaxRuns /\ codeReview \in BOOLEAN
                  /\ fate \in [RunIds -> Fates]
  BY DEF RunTypeOK, Rows, Threads, Fates

LEMMA Blanks == NoRun \in Rows /\ NoDrive \in Threads
  BY DEF NoRun, NoDrive, Rows, Threads, TaskStatuses, NoScope, AllScopes, End

\* The updates of the ledger keep a row a row.
LEMMA UpdateKeepsRow ==
    ASSUME NEW row \in Rows, NEW task \in TaskKeys, NEW status \in TaskStatuses
    PROVE  /\ update_review_task(row, task, status) \in Rows
           /\ update_review_task(row, task, status).status = row.status
           /\ update_review_task(row, task, status).linked = row.linked
           /\ row.status # "absent" =>
                 update_review_task(row, task, status).tasks
                     = [row.tasks EXCEPT ![task] = status]
  BY DEF update_review_task, Rows

LEMMA FinishKeepsRow ==
    ASSUME NEW row \in Rows, NEW status \in {"complete", "error"}, NEW linked \in BOOLEAN
    PROVE  /\ finish_review_run(row, status, linked) \in Rows
           /\ finish_review_run(row, status, linked).tasks = row.tasks
           /\ finish_review_run(row, status, linked).status
                = IF row.status = "absent" THEN "absent" ELSE status
           /\ row.status # "absent" =>
                 finish_review_run(row, status, linked).linked = linked
  BY DEF finish_review_run, Rows

LEMMA InitTypes == DriveInit => RunTypeOK
  <1> SUFFICES ASSUME DriveInit PROVE RunTypeOK
    OBVIOUS
  <1>1. runs \in [RunIds -> Rows] /\ drive \in [RunIds -> Threads]
    BY Blanks DEF DriveInit
  <1>2. started \in 0..MaxRuns
    BY RunLimits DEF DriveInit
  <1>3. codeReview \in BOOLEAN /\ fate \in [RunIds -> Fates]
    BY DEF DriveInit, Fates
  <1> QED
    BY <1>1, <1>2, <1>3, TypesMean

LEMMA PromotedIsBoolean ==
    ASSUME RunTypeOK, NEW r \in RunIds, NEW promoted \in promote_test_failure(r)
    PROVE  promoted \in BOOLEAN
  BY TypesMean DEF promote_test_failure, Threads

LEMMA TakeStepTypes ==
    ASSUME RunTypeOK, NEW r \in RunIds, TakeStep(r)
    PROVE  RunTypeOK'
  <1>1. PICK status \in Current(r).to, promoted \in promote_test_failure(r),
             next \in (drive[r].step + 1)..End :
          /\ runs' = [runs EXCEPT ![r] = update_review_task(@, Current(r).task, status)]
          /\ drive' = [drive EXCEPT
                ![r].step = next, ![r].promoted = promoted,
                ![r].tested = @ \/ (Current(r).task = "test_probe" /\ status = "complete")]
    BY DEF TakeStep
  <1>2. /\ drive[r] \in Threads /\ runs[r] \in Rows
        /\ drive[r].scope \in AllScopes /\ drive[r].step \in 1..(End - 1)
    BY TypesMean DEF TakeStep, InScript, Threads, End
  <1>3. Current(r).task \in TaskKeys /\ status \in TaskStatuses
    BY <1>2, ScriptType DEF Current
  <1>4. runs' \in [RunIds -> Rows]
    BY <1>1, <1>2, <1>3, UpdateKeepsRow, TypesMean
  <1>5. promoted \in BOOLEAN /\ next \in 1..End
    BY <1>2, PromotedIsBoolean DEF End
  <1>6. drive' \in [RunIds -> Threads]
    BY <1>1, <1>2, <1>5, TypesMean DEF Threads
  <1> QED
    BY <1>4, <1>6, TypesMean DEF TakeStep, Unchanged, RunTypeOK, Rows, Threads

LEMMA StepRaisesTypes ==
    ASSUME RunTypeOK, NEW r \in RunIds, StepRaises(r)
    PROVE  RunTypeOK'
  <1>1. PICK promoted \in promote_test_failure(r),
             status \in IF Guarded(r) THEN {"error"}
                        ELSE Current(r).to \cup {runs[r].tasks[Current(r).task]} :
          /\ runs' = [runs EXCEPT ![r] = update_review_task(@, Current(r).task, status)]
          /\ drive' = [drive EXCEPT ![r].phase = "failing", ![r].promoted = promoted]
    BY DEF StepRaises
  <1>2. /\ drive[r] \in Threads /\ runs[r] \in Rows
        /\ drive[r].scope \in AllScopes /\ drive[r].step \in 1..(End - 1)
    BY TypesMean DEF StepRaises, InScript, Threads, End
  <1>3. Current(r).task \in TaskKeys /\ Current(r).to \subseteq TaskStatuses
    BY <1>2, ScriptType DEF Current
  <1>4. status \in TaskStatuses
    BY <1>2, <1>3 DEF Rows, TaskStatuses
  <1>5. runs' \in [RunIds -> Rows]
    BY <1>1, <1>2, <1>3, <1>4, UpdateKeepsRow, TypesMean
  <1>6. promoted \in BOOLEAN
    BY PromotedIsBoolean
  <1>7. drive' \in [RunIds -> Threads]
    BY <1>1, <1>2, <1>6, TypesMean DEF Threads
  <1> QED
    BY <1>5, <1>7, TypesMean DEF StepRaises, Unchanged, RunTypeOK, Rows, Threads

LEMMA ExceptClauseTypes ==
    ASSUME RunTypeOK, NEW r \in RunIds, ExceptClause(r)
    PROVE  RunTypeOK'
  <1> DEFINE row == update_review_task(runs[r], "summary", "error")
  <1>1. row \in Rows
    <2>1. runs[r] \in Rows
      BY TypesMean
    <2>2. "summary" \in TaskKeys /\ "error" \in TaskStatuses
      BY DEF TaskKeys, TaskStatuses
    <2> QED
      BY <2>1, <2>2, UpdateKeepsRow
  <1>2. run_error(row) \in Rows
    BY <1>1, FinishKeepsRow DEF run_error
  <1>3. runs' = [runs EXCEPT ![r] = run_error(row)] \/ runs' = [runs EXCEPT ![r] = row]
    BY DEF ExceptClause
  <1>4. runs' \in [RunIds -> Rows]
    BY <1>1, <1>2, <1>3, TypesMean
  <1>5. drive' \in [RunIds -> Threads] /\ fate' \in [RunIds -> Fates]
    BY TypesMean, Blanks DEF ExceptClause, Fates
  <1> QED
    BY <1>4, <1>5, TypesMean DEF ExceptClause, Unchanged, RunTypeOK, Rows, Threads, Fates

LEMMA ThreadTypes ==
    ASSUME RunTypeOK, NEW r \in RunIds, run_drive(r)
    PROVE  RunTypeOK'
  <1>1. CASE FirstPublish(r)
    <2>1. drive' \in [RunIds -> Threads] /\ fate' \in [RunIds -> Fates]
      <3>1. CASE drive' = [drive EXCEPT ![r].phase = "script"] /\ UNCHANGED fate
        BY <3>1, TypesMean DEF Threads
      <3>2. CASE /\ drive' = [drive EXCEPT ![r] = NoDrive]
                 /\ fate' = [fate EXCEPT ![r] = "unreported"]
        BY <3>2, TypesMean, Blanks DEF Fates
      <3> QED
        BY <1>1, <3>1, <3>2 DEF FirstPublish
    <2> QED
      BY <1>1, <2>1 DEF FirstPublish, Unchanged, RunTypeOK, Threads, Fates
  <1>2. CASE TakeStep(r)
    BY <1>2, TakeStepTypes
  <1>3. CASE StepRaises(r)
    BY <1>3, StepRaisesTypes
  <1>4. CASE Complete(r)
    <2>1. runs' \in [RunIds -> Rows]
      <3>1. finish_review_run(runs[r], "complete", drive[r].promoted) \in Rows
        BY FinishKeepsRow, TypesMean DEF Threads
      <3> QED
        BY <1>4, <3>1, TypesMean DEF Complete
    <2>2. drive' \in [RunIds -> Threads]
      BY <1>4, TypesMean DEF Complete, Threads
    <2> QED
      BY <1>4, <2>1, <2>2 DEF Complete, Unchanged, RunTypeOK, Rows, Threads
  <1>5. CASE LastPublish(r)
    <2>1. drive' \in [RunIds -> Threads]
      BY <1>5, TypesMean, Blanks DEF LastPublish, Threads
    <2> QED
      BY <1>5, <2>1 DEF LastPublish, Unchanged, RunTypeOK, Threads
  <1>6. CASE ExceptClause(r)
    BY <1>6, ExceptClauseTypes
  <1> QED
    BY <1>1, <1>2, <1>3, <1>4, <1>5, <1>6 DEF run_drive

LEMMA BeginTypes ==
    ASSUME RunTypeOK, NEW scope \in Scopes, begin_review_run_if_idle(scope)
    PROVE  RunTypeOK'
  <1>1. scope \in AllScopes /\ started + 1 \in RunIds
    BY RunLimits DEF begin_review_run_if_idle, RunTypeOK, RunIds
  <1>2. [NoRun EXCEPT !.status = "running"] \in Rows
    BY Blanks DEF Rows
  <1>3. runs' \in [RunIds -> Rows]
    BY <1>2, Blanks, TypesMean DEF begin_review_run_if_idle
  <1>4. [NoDrive EXCEPT !.phase = "begun", !.scope = scope] \in Threads
    BY <1>1, Blanks DEF Threads
  <1>5. drive' \in [RunIds -> Threads]
    BY <1>4, TypesMean DEF begin_review_run_if_idle
  <1>6. started' \in 0..MaxRuns
    BY RunLimits DEF begin_review_run_if_idle, RunTypeOK
  <1> QED
    BY <1>3, <1>5, <1>6 DEF begin_review_run_if_idle, RunTypeOK, Rows, Threads

LEMMA NextTypes == RunTypeOK /\ [DriveNext]_driveVars => RunTypeOK'
  <1> SUFFICES ASSUME RunTypeOK, [DriveNext]_driveVars PROVE RunTypeOK'
    OBVIOUS
  <1>1. ASSUME NEW scope \in Scopes, begin_review_run_if_idle(scope) PROVE RunTypeOK'
    BY <1>1, BeginTypes
  <1>2. ASSUME NEW r \in RunIds, run_drive(r) PROVE RunTypeOK'
    BY <1>2, ThreadTypes
  <1>3. CASE delete_review_history
    BY <1>3, Blanks DEF delete_review_history, RunTypeOK, Rows
  <1>4. CASE clear_all
    <2>1. runs' \in [RunIds -> Rows] /\ fate' \in [RunIds -> Fates]
      BY <1>4, Blanks, TypesMean DEF clear_all, Fates
    <2> QED
      BY <1>4, <2>1 DEF clear_all, RunTypeOK, Rows, Fates
  <1>5. CASE CodeReview
    BY <1>5 DEF CodeReview, RunTypeOK
  <1>6. CASE DriveCrash
    <2>1. drive' \in [RunIds -> Threads] /\ fate' \in [RunIds -> Fates]
      BY <1>6, Blanks, TypesMean DEF DriveCrash, Fates
    <2> QED
      BY <1>6, <2>1 DEF DriveCrash, RunTypeOK, Threads, Fates
  <1>7. CASE UNCHANGED driveVars
    BY <1>7 DEF driveVars, RunTypeOK
  <1> QED
    BY <1>1, <1>2, <1>3, <1>4, <1>5, <1>6, <1>7 DEF DriveNext

\* Rows, tasks and threads keep the values their writers allow.
THEOREM RunTypes == DriveSpec => []RunTypeOK
  BY InitTypes, NextTypes, PTL DEF DriveSpec

-----------------------------------------------------------------------------
(* The row and the thread of a run agree *)

LEMMA BlanksAgree ==
    /\ \A thread \in Threads : AgreeOn(NoRun, thread) => WholeRow(NoRun, thread)
    /\ AgreeOn(NoRun, NoDrive)
    /\ \A row \in Rows : AgreeOn(row, NoDrive)
  BY DEF AgreeOn, WholeRow, NoRun, NoDrive

LEMMA InitAgrees == DriveInit => RunsAgree
  BY BlanksAgree, Blanks DEF DriveInit, RunsAgree

\* A thread works on its own row only.
LEMMA OthersUntouched ==
    ASSUME RunTypeOK, NEW r \in RunIds, run_drive(r)
    PROVE  \A s \in RunIds \ {r} : runs'[s] = runs[s] /\ drive'[s] = drive[s]
                                   /\ fate'[s] = fate[s]
  <1>1. runs \in [RunIds -> Rows] /\ drive \in [RunIds -> Threads]
        /\ fate \in [RunIds -> Fates]
    BY TypesMean
  <1>2. CASE FirstPublish(r)
    BY <1>1, <1>2 DEF FirstPublish
  <1>3. CASE TakeStep(r)
    BY <1>1, <1>3 DEF TakeStep
  <1>4. CASE StepRaises(r)
    BY <1>1, <1>4 DEF StepRaises
  <1>5. CASE Complete(r)
    BY <1>1, <1>5 DEF Complete
  <1>6. CASE LastPublish(r)
    BY <1>1, <1>6 DEF LastPublish
  <1>7. CASE ExceptClause(r)
    BY <1>1, <1>7 DEF ExceptClause
  <1> QED
    BY <1>2, <1>3, <1>4, <1>5, <1>6, <1>7 DEF run_drive

LEMMA AgreeFromOwn ==
    ASSUME RunTypeOK, RunsAgree, NEW r \in RunIds, run_drive(r),
           AgreeOn(runs'[r], drive'[r]), WholeRow(runs'[r], drive'[r])
    PROVE  RunsAgree'
  <1> SUFFICES ASSUME NEW s \in RunIds
               PROVE  AgreeOn(runs'[s], drive'[s]) /\ WholeRow(runs'[s], drive'[s])
    BY DEF RunsAgree
  <1>1. CASE s = r
    BY <1>1
  <1>2. CASE s # r
    BY <1>2, OthersUntouched DEF RunsAgree
  <1> QED
    BY <1>1, <1>2

\* An update: the task it writes is settled, and a Case comes only of a probe that
\* returned, whose task says 'complete' for good.
LEMMA TakeStepAgrees ==
    ASSUME RunTypeOK, RunsAgree, NEW r \in RunIds, TakeStep(r)
    PROVE  AgreeOn(runs'[r], drive'[r]) /\ WholeRow(runs'[r], drive'[r])
  <1>1. PICK status \in Current(r).to, promoted \in promote_test_failure(r),
             next \in (drive[r].step + 1)..End :
          /\ Follows(drive[r].scope, drive[r].step, next)
          /\ runs' = [runs EXCEPT ![r] = update_review_task(@, Current(r).task, status)]
          /\ drive' = [drive EXCEPT
                ![r].step = next, ![r].promoted = promoted,
                ![r].tested = @ \/ (Current(r).task = "test_probe" /\ status = "complete")]
    BY DEF TakeStep
  <1> DEFINE row == runs[r]
             thread == drive[r]
             tested == thread.tested
                          \/ (Current(r).task = "test_probe" /\ status = "complete")
  <1>2. /\ thread \in Threads /\ row \in Rows /\ thread.phase = "script"
        /\ thread.scope \in AllScopes /\ thread.step \in 1..(End - 1)
    BY TypesMean DEF TakeStep, InScript, Threads, End
  <1>3. Current(r).task \in TaskKeys /\ status \in TaskStatuses
    BY <1>2, ScriptType DEF Current
  <1>4. runs'[r] = update_review_task(row, Current(r).task, status)
    BY <1>1, TypesMean
  <1>5. /\ drive'[r].phase = "script" /\ drive'[r].step = next
        /\ drive'[r].promoted = promoted /\ drive'[r].tested = tested
        /\ drive'[r].scope = thread.scope
    BY <1>1, <1>2, TypesMean DEF Threads
  <1>6. AgreeOn(row, thread)
    BY DEF RunsAgree
  <1>7. row.status \in {"running", "absent"} /\ runs'[r].status = row.status
    <2>1. row.status \in {"running", "absent"}
      BY <1>2, <1>6 DEF AgreeOn
    <2>2. update_review_task(row, Current(r).task, status).status = row.status
      BY <1>2, <1>3, UpdateKeepsRow
    <2> QED
      BY <1>4, <2>1, <2>2
  <1>8. row.status = "running" =>
           runs'[r].tasks = [row.tasks EXCEPT ![Current(r).task] = status]
    BY <1>2, <1>3, <1>4, UpdateKeepsRow
  <1>9. row.status = "running" => Settled(runs'[r].tasks, next, thread.scope)
    <2> SUFFICES ASSUME row.status = "running"
                 PROVE  Settled(runs'[r].tasks, next, thread.scope)
      OBVIOUS
    <2>1. Settled(row.tasks, thread.step, thread.scope)
      BY <1>2, <1>6 DEF AgreeOn
    <2>2. row.tasks \in [TaskKeys -> TaskStatuses]
      BY <1>2 DEF Rows
    <2>3. Settled([row.tasks EXCEPT ![Script(thread.scope)[thread.step].task] = status],
                  next, thread.scope)
      BY <1>1, <1>2, <2>1, <2>2, UpdateSettles DEF Current
    <2> QED
      BY <1>8, <2>3 DEF Current
  <1>10. thread.step \in {1, 2, 3, 4, 5, 6, 7, 8, 9, 10, 11, 12}
    BY <1>2 DEF End
  <1>11. promoted => tested
    <2>1. thread.tested \/ ~promoted
      BY <1>2, <1>6 DEF AgreeOn, promote_test_failure
    <2> QED
      BY <2>1
  <1>12. tested => next > 7
    <2>1. CASE thread.tested
      BY <1>2, <1>6, <2>1 DEF AgreeOn, End
    <2>2. CASE Current(r).task = "test_probe" /\ status = "complete"
      <3>1. thread.step \in {5, 7}
        BY <1>2, <1>10, <2>2, ScriptSteps DEF Current
      <3>2. thread.step # 5
        BY <1>2, <2>2, ScriptSteps DEF Current, RunsOrSkips
      <3> QED
        BY <1>2, <3>1, <3>2 DEF End
    <2> QED
      BY <2>1, <2>2
  <1>13. tested /\ row.status = "running" => runs'[r].tasks["test_probe"] = "complete"
    <2> SUFFICES ASSUME tested, row.status = "running"
                 PROVE  runs'[r].tasks["test_probe"] = "complete"
      OBVIOUS
    <2>1. row.tasks \in [TaskKeys -> TaskStatuses] /\ "test_probe" \in TaskKeys
      BY <1>2 DEF Rows, TaskKeys
    <2>2. CASE Current(r).task = "test_probe" /\ status = "complete"
      BY <1>8, <2>1, <2>2
    <2>3. CASE thread.tested
      <3>1. thread.step > 7 /\ row.tasks["test_probe"] = "complete"
        BY <1>2, <1>6, <2>3 DEF AgreeOn
      <3>2. Current(r).task # "test_probe"
        BY <1>2, <1>10, <3>1, ScriptSteps DEF Current
      <3> QED
        BY <1>8, <2>1, <3>1, <3>2
    <2> QED
      BY <2>2, <2>3
  <1>14. AgreeOn(runs'[r], drive'[r])
    BY <1>5, <1>7, <1>9, <1>11, <1>12, <1>13 DEF AgreeOn
  <1> QED
    BY <1>7, <1>14 DEF WholeRow

LEMMA StepRaisesAgrees ==
    ASSUME RunTypeOK, RunsAgree, NEW r \in RunIds, StepRaises(r)
    PROVE  AgreeOn(runs'[r], drive'[r]) /\ WholeRow(runs'[r], drive'[r])
  <1>1. PICK promoted \in promote_test_failure(r),
             status \in IF Guarded(r) THEN {"error"}
                        ELSE Current(r).to \cup {runs[r].tasks[Current(r).task]} :
          /\ runs' = [runs EXCEPT ![r] = update_review_task(@, Current(r).task, status)]
          /\ drive' = [drive EXCEPT ![r].phase = "failing", ![r].promoted = promoted]
    BY DEF StepRaises
  <1>2. /\ drive[r] \in Threads /\ runs[r] \in Rows /\ drive[r].phase = "script"
    BY TypesMean DEF StepRaises, InScript
  <1>3. runs[r].status \in {"running", "absent"}
    BY <1>2 DEF RunsAgree, AgreeOn
  <1>4. runs'[r].status = runs[r].status
    <2>1. runs'[r] = update_review_task(runs[r], Current(r).task, status)
      BY <1>1, TypesMean
    <2> QED
      BY <1>2, <2>1 DEF update_review_task, Rows
  <1>5. drive'[r].phase = "failing"
    BY <1>1, <1>2, TypesMean DEF Threads
  <1> QED
    BY <1>3, <1>4, <1>5 DEF AgreeOn, WholeRow

\* The end of the script: everything before it is settled.
LEMMA CompleteAgrees ==
    ASSUME RunTypeOK, RunsAgree, NEW r \in RunIds, Complete(r)
    PROVE  AgreeOn(runs'[r], drive'[r]) /\ WholeRow(runs'[r], drive'[r])
  <1> DEFINE row == runs[r]
             thread == drive[r]
  <1>1. /\ thread \in Threads /\ row \in Rows /\ thread.phase = "script"
        /\ thread.step = End /\ thread.promoted \in BOOLEAN
    BY TypesMean DEF Complete, InScript, Threads, End
  <1>2. runs'[r] = finish_review_run(row, "complete", thread.promoted)
    BY TypesMean DEF Complete
  <1>3. drive'[r].phase = "done" /\ drive'[r].promoted = thread.promoted
    BY <1>1, TypesMean DEF Complete, Threads
  <1>4. row.status \in {"running", "absent"} /\ AgreeOn(row, thread)
    BY <1>1 DEF RunsAgree, AgreeOn
  <1>5. runs'[r].status \in {"complete", "absent"}
    BY <1>1, <1>2, FinishKeepsRow
  <1>6. CASE row.status = "absent"
    <2>1. runs'[r].status = "absent"
      BY <1>1, <1>2, <1>6, FinishKeepsRow
    <2> QED
      BY <1>3, <2>1 DEF AgreeOn, WholeRow
  <1>7. CASE row.status = "running"
    <2>1. runs'[r].tasks = row.tasks /\ runs'[r].linked = thread.promoted
      BY <1>1, <1>2, <1>7, FinishKeepsRow
    <2>2. Settled(row.tasks, 13, thread.scope)
      BY <1>1, <1>4, <1>7 DEF AgreeOn, End
    <2>3. \A t \in TaskKeys : row.tasks[t] \in Terminal
      BY <2>2 DEF Settled, TaskKeys
    <2>4. thread.promoted => row.tasks["test_probe"] = "complete"
      BY <1>1, <1>4, <1>7 DEF AgreeOn
    <2> QED
      BY <1>3, <1>5, <2>1, <2>3, <2>4 DEF AgreeOn, WholeRow
  <1> QED
    BY <1>4, <1>6, <1>7

LEMMA ExceptClauseAgrees ==
    ASSUME RunTypeOK, RunsAgree, NEW r \in RunIds, ExceptClause(r)
    PROVE  AgreeOn(runs'[r], drive'[r]) /\ WholeRow(runs'[r], drive'[r])
  <1> DEFINE row == update_review_task(runs[r], "summary", "error")
  <1>1. runs[r] \in Rows /\ "summary" \in TaskKeys /\ "error" \in TaskStatuses
        /\ "test_probe" \in TaskKeys
    BY TypesMean DEF TaskKeys, TaskStatuses
  <1>2. drive'[r] = NoDrive
    BY TypesMean DEF ExceptClause
  <1>3. /\ row \in Rows /\ row.status = runs[r].status /\ row.linked = runs[r].linked
        /\ row.status # "absent" => row.tasks = [runs[r].tasks EXCEPT !["summary"] = "error"]
    BY <1>1, UpdateKeepsRow
  <1>4. runs'[r] = run_error(row) \/ runs'[r] = row
    BY TypesMean DEF ExceptClause
  <1>5. NoDrive.phase = "none"
    BY DEF NoDrive
  <1>6. CASE runs'[r] = run_error(row)
    <2>1. runs'[r].status \in {"absent", "error"}
      BY <1>3, <1>6 DEF run_error, finish_review_run, Rows
    <2> QED
      BY <1>2, <1>5, <2>1 DEF AgreeOn, WholeRow
  <1>7. CASE runs'[r] = row
    <2>1. WholeRow(runs[r], drive[r])
      BY DEF RunsAgree
    <2>2. row.status = "complete" =>
             /\ \A t \in TaskKeys : row.tasks[t] \in Terminal
             /\ row.linked => row.tasks["test_probe"] = "complete"
      <3> SUFFICES ASSUME row.status = "complete"
                   PROVE  /\ \A t \in TaskKeys : row.tasks[t] \in Terminal
                          /\ row.linked => row.tasks["test_probe"] = "complete"
        OBVIOUS
      <3>1. runs[r].tasks \in [TaskKeys -> TaskStatuses]
        BY <1>1 DEF Rows
      <3>2. \A t \in TaskKeys :
               row.tasks[t] = IF t = "summary" THEN "error" ELSE runs[r].tasks[t]
        BY <1>3, <3>1
      <3> QED
        BY <1>1, <1>3, <2>1, <3>2 DEF WholeRow, Terminal
    <2> QED
      BY <1>2, <1>5, <1>7, <2>2 DEF AgreeOn, WholeRow
  <1> QED
    BY <1>4, <1>6, <1>7

LEMMA ThreadAgrees ==
    ASSUME RunTypeOK, RunsAgree, NEW r \in RunIds, run_drive(r)
    PROVE  RunsAgree'
  <1>1. /\ runs[r] \in Rows /\ drive[r] \in Threads
        /\ AgreeOn(runs[r], drive[r]) /\ WholeRow(runs[r], drive[r])
    BY TypesMean DEF RunsAgree
  <1>2. CASE FirstPublish(r)
    <2>1. runs'[r] = runs[r]
      BY <1>2 DEF FirstPublish
    <2>2. CASE drive' = [drive EXCEPT ![r].phase = "script"]
      <3>1. /\ drive'[r].phase = "script" /\ drive'[r].step = drive[r].step
            /\ drive'[r].tested = drive[r].tested
            /\ drive'[r].promoted = drive[r].promoted
        BY <1>1, <2>2, TypesMean DEF Threads
      <3>2. /\ drive[r].phase = "begun" /\ drive[r].step = 1
            /\ ~drive[r].tested /\ ~drive[r].promoted
            /\ runs[r].status \in {"running", "absent"}
        BY <1>1, <1>2 DEF FirstPublish, AgreeOn
      <3>3. Settled(runs[r].tasks, 1, drive'[r].scope)
        BY DEF Settled
      <3>4. AgreeOn(runs'[r], drive'[r]) /\ WholeRow(runs'[r], drive'[r])
        BY <2>1, <3>1, <3>2, <3>3 DEF AgreeOn, WholeRow
      <3> QED
        BY <3>4, AgreeFromOwn
    <2>3. CASE drive' = [drive EXCEPT ![r] = NoDrive]
      <3>1. drive'[r] = NoDrive /\ NoDrive.phase = "none"
        BY <2>3, TypesMean DEF NoDrive
      <3>2. AgreeOn(runs'[r], drive'[r]) /\ WholeRow(runs'[r], drive'[r])
        BY <1>1, <2>1, <3>1 DEF AgreeOn, WholeRow
      <3> QED
        BY <3>2, AgreeFromOwn
    <2> QED
      BY <1>2, <2>2, <2>3 DEF FirstPublish
  <1>3. CASE TakeStep(r)
    BY <1>3, TakeStepAgrees, AgreeFromOwn
  <1>4. CASE StepRaises(r)
    BY <1>4, StepRaisesAgrees, AgreeFromOwn
  <1>5. CASE Complete(r)
    BY <1>5, CompleteAgrees, AgreeFromOwn
  <1>6. CASE LastPublish(r)
    <2>1. runs'[r] = runs[r] /\ drive[r].phase = "done"
      BY <1>6 DEF LastPublish
    <2>2. /\ drive'[r].phase \in {"none", "failing"}
          /\ drive'[r].phase = "failing" => drive'[r].promoted = drive[r].promoted
      BY <1>1, <1>6, TypesMean DEF LastPublish, Threads, NoDrive
    <2>3. AgreeOn(runs'[r], drive'[r]) /\ WholeRow(runs'[r], drive'[r])
      BY <1>1, <2>1, <2>2 DEF AgreeOn, WholeRow
    <2> QED
      BY <2>3, AgreeFromOwn
  <1>7. CASE ExceptClause(r)
    BY <1>7, ExceptClauseAgrees, AgreeFromOwn
  <1> QED
    BY <1>2, <1>3, <1>4, <1>5, <1>6, <1>7 DEF run_drive

LEMMA BeginAgrees ==
    ASSUME RunTypeOK, RunsAgree, NEW scope \in Scopes, begin_review_run_if_idle(scope)
    PROVE  RunsAgree'
  <1> SUFFICES ASSUME NEW s \in RunIds
               PROVE  AgreeOn(runs'[s], drive'[s]) /\ WholeRow(runs'[s], drive'[s])
    BY DEF RunsAgree
  <1>1. AgreeOn(runs[s], drive[s]) /\ WholeRow(runs[s], drive[s])
    BY DEF RunsAgree
  <1>2. CASE s = started + 1
    <2>1. /\ runs'[s].status = "running"
          /\ drive'[s].phase = "begun" /\ drive'[s].step = 1
          /\ ~drive'[s].tested /\ ~drive'[s].promoted
      BY <1>2, TypesMean DEF begin_review_run_if_idle, NoRun, NoDrive
    <2> QED
      BY <2>1 DEF AgreeOn, WholeRow
  <1>3. CASE s # started + 1
    <2>1. drive'[s] = drive[s] /\ runs'[s] \in {runs[s], NoRun}
      BY <1>3, TypesMean DEF begin_review_run_if_idle
    <2>2. NoRun.status = "absent"
      BY DEF NoRun
    <2> QED
      BY <1>1, <2>1, <2>2 DEF AgreeOn, WholeRow
  <1> QED
    BY <1>2, <1>3

LEMMA NextAgrees == RunTypeOK /\ RunsAgree /\ [DriveNext]_driveVars => RunsAgree'
  <1> SUFFICES ASSUME RunTypeOK, RunsAgree, [DriveNext]_driveVars PROVE RunsAgree'
    OBVIOUS
  <1>1. ASSUME NEW scope \in Scopes, begin_review_run_if_idle(scope) PROVE RunsAgree'
    BY <1>1, BeginAgrees
  <1>2. ASSUME NEW r \in RunIds, run_drive(r) PROVE RunsAgree'
    BY <1>2, ThreadAgrees
  <1>3. CASE delete_review_history \/ clear_all
    <2> SUFFICES ASSUME NEW s \in RunIds
                 PROVE  AgreeOn(runs'[s], drive'[s]) /\ WholeRow(runs'[s], drive'[s])
      BY DEF RunsAgree
    <2>1. runs'[s].status = "absent" /\ drive'[s] = drive[s]
      BY <1>3 DEF delete_review_history, clear_all, NoRun
    <2> QED
      BY <2>1 DEF RunsAgree, AgreeOn, WholeRow
  <1>4. CASE DriveCrash
    <2> SUFFICES ASSUME NEW s \in RunIds
                 PROVE  AgreeOn(runs'[s], drive'[s]) /\ WholeRow(runs'[s], drive'[s])
      BY DEF RunsAgree
    <2>1. runs'[s] = runs[s] /\ drive'[s] = NoDrive /\ NoDrive.phase = "none"
      BY <1>4 DEF DriveCrash, NoDrive
    <2> QED
      BY <2>1 DEF RunsAgree, AgreeOn, WholeRow
  <1>5. CASE CodeReview \/ UNCHANGED driveVars
    BY <1>5 DEF CodeReview, driveVars, RunsAgree
  <1> QED
    BY <1>1, <1>2, <1>3, <1>4, <1>5 DEF DriveNext

LEMMA RunsAlwaysAgree == DriveSpec => [](RunTypeOK /\ RunsAgree)
  BY InitTypes, NextTypes, InitAgrees, NextAgrees, PTL DEF DriveSpec

\* A run that says 'complete' is whole, however many of its calls raised, whatever
\* deleted rows meanwhile and wherever the process died.
THEOREM CompleteRunsAreWhole == DriveSpec => []CompleteIsWhole
  <1>1. RunsAgree => CompleteIsWhole
    BY DEF RunsAgree, WholeRow, CompleteIsWhole, Alive
  <1> QED
    BY <1>1, RunsAlwaysAgree, PTL

-----------------------------------------------------------------------------
(* One run at a time, and somebody at work on it *)

LEMMA InitAtWork == DriveInit => OneAtWork
  BY DEF DriveInit, OneAtWork, Running, Present, NoRun

\* No step of a thread turns a row that is not 'running' into one that is, and a
\* thread that ends leaves its row finished or has an excuse.
LEMMA ThreadsLeaveNoRun ==
    ASSUME RunTypeOK, RunsAgree, NEW r \in RunIds, run_drive(r)
    PROVE  /\ runs'[r].status = "running" => runs[r].status = "running"
           /\ runs'[r].status = "running" =>
                 drive'[r].phase # "none" \/ fate'[r] \in {"crashed", "unreported"}
  <1>1. /\ runs[r] \in Rows /\ drive[r] \in Threads /\ fate[r] \in Fates
        /\ AgreeOn(runs[r], drive[r])
        /\ runs \in [RunIds -> Rows] /\ drive \in [RunIds -> Threads]
        /\ fate \in [RunIds -> Fates]
    BY TypesMean DEF RunsAgree
  <1>2. CASE FirstPublish(r)
    BY <1>1, <1>2 DEF FirstPublish, Threads
  <1>3. CASE TakeStep(r)
    <2>1. runs'[r].status = runs[r].status
      BY <1>1, <1>3 DEF TakeStep, update_review_task, Rows
    <2>2. drive'[r].phase = "script"
      BY <1>1, <1>3 DEF TakeStep, InScript, Threads
    <2> QED
      BY <2>1, <2>2
  <1>4. CASE StepRaises(r)
    <2>1. runs'[r].status = runs[r].status
      BY <1>1, <1>4 DEF StepRaises, update_review_task, Rows
    <2>2. drive'[r].phase = "failing"
      BY <1>1, <1>4 DEF StepRaises, Threads
    <2> QED
      BY <2>1, <2>2
  <1>5. CASE Complete(r)
    <2>1. runs'[r].status # "running"
      BY <1>1, <1>5 DEF Complete, finish_review_run, Rows
    <2> QED
      BY <2>1
  <1>6. CASE LastPublish(r)
    BY <1>1, <1>6 DEF LastPublish, AgreeOn
  <1>7. CASE ExceptClause(r)
    <2> DEFINE row == update_review_task(runs[r], "summary", "error")
    <2>1. row.status = runs[r].status
      BY <1>1 DEF update_review_task, Rows
    <2>2. CASE runs' = [runs EXCEPT ![r] = run_error(row)]
      <3>1. runs'[r].status # "running"
        BY <1>1, <2>1, <2>2 DEF run_error, finish_review_run, update_review_task, Rows
      <3> QED
        BY <3>1
    <2>3. CASE /\ runs' = [runs EXCEPT ![r] = row]
               /\ fate' = [fate EXCEPT ![r] = "unreported"]
      BY <1>1, <2>1, <2>3
    <2> QED
      BY <1>7, <2>2, <2>3 DEF ExceptClause
  <1> QED
    BY <1>2, <1>3, <1>4, <1>5, <1>6, <1>7 DEF run_drive

LEMMA ThreadKeepsAtWork ==
    ASSUME RunTypeOK, RunsAgree, OneAtWork, NEW r \in RunIds, run_drive(r)
    PROVE  OneAtWork'
  <1>1. \A s \in RunIds \ {r} : runs'[s] = runs[s] /\ drive'[s] = drive[s]
                                /\ fate'[s] = fate[s]
    BY OthersUntouched
  <1>2. Running' \subseteq Running
    BY <1>1, ThreadsLeaveNoRun DEF Running, Present
  <1>3. \A s \in Running' : Alive(s)' \/ fate'[s] \in {"crashed", "unreported"}
    BY <1>1, <1>2, ThreadsLeaveNoRun DEF OneAtWork, Running, Present, Alive
  <1> QED
    BY <1>2, <1>3 DEF OneAtWork

LEMMA NextAtWork == RunTypeOK /\ RunsAgree /\ OneAtWork /\ [DriveNext]_driveVars => OneAtWork'
  <1> SUFFICES ASSUME RunTypeOK, RunsAgree, OneAtWork, [DriveNext]_driveVars PROVE OneAtWork'
    OBVIOUS
  <1>1. ASSUME NEW scope \in Scopes, begin_review_run_if_idle(scope) PROVE OneAtWork'
    <2>1. \A s \in RunIds : runs'[s].status = "running" => s = started + 1
      <3> SUFFICES ASSUME NEW s \in RunIds, s # started + 1
                   PROVE  runs'[s].status # "running"
        OBVIOUS
      <3>1. runs[s].status # "running"
        BY <1>1 DEF begin_review_run_if_idle, Idle, Running, Present
      <3> QED
        BY <1>1, <3>1, TypesMean DEF begin_review_run_if_idle, NoRun
    <2>2. \A s \in RunIds : s = started + 1 => drive'[s].phase = "begun"
      BY <1>1, TypesMean DEF begin_review_run_if_idle, NoDrive
    <2> QED
      BY <2>1, <2>2 DEF OneAtWork, Running, Present, Alive
  <1>2. ASSUME NEW r \in RunIds, run_drive(r) PROVE OneAtWork'
    BY <1>2, ThreadKeepsAtWork
  <1>3. CASE delete_review_history \/ clear_all
    <2>1. \A s \in RunIds : runs'[s].status = "absent"
      BY <1>3 DEF delete_review_history, clear_all, NoRun
    <2> QED
      BY <2>1 DEF OneAtWork, Running, Present
  <1>4. CASE DriveCrash
    <2>1. Running' = Running
      BY <1>4 DEF DriveCrash, Running, Present
    <2>2. \A s \in Running : fate'[s] \in {"crashed", "unreported"}
      <3> SUFFICES ASSUME NEW s \in Running
                   PROVE  fate'[s] \in {"crashed", "unreported"}
        OBVIOUS
      <3>1. s \in RunIds
        BY DEF Running, Present
      <3> QED
        BY <1>4, <3>1 DEF DriveCrash, OneAtWork
    <2> QED
      BY <2>1, <2>2 DEF OneAtWork
  <1>5. CASE CodeReview \/ UNCHANGED driveVars
    BY <1>5 DEF CodeReview, driveVars, OneAtWork, Running, Present, Alive
  <1> QED
    BY <1>1, <1>2, <1>3, <1>4, <1>5 DEF DriveNext

\* Two requests never start two runs of the workspace, and a row says 'running' only
\* while a thread works on it or after a crash or a publish that raised took the
\* thread away.
THEOREM BusyRunsAreAtWork == DriveSpec => []BusyMeansAtWork
  <1>1. OneAtWork => BusyMeansAtWork
    <2> SUFFICES ASSUME OneAtWork PROVE Cardinality(Running) <= 1
      BY DEF OneAtWork, BusyMeansAtWork
    <2>1. CASE Running = {}
      BY <2>1, FS_EmptySet
    <2>2. CASE Running # {}
      <3>1. PICK r \in Running : Running = {r}
        BY <2>2 DEF OneAtWork
      <3> QED
        BY <3>1, FS_Singleton
    <2> QED
      BY <2>1, <2>2
  <1>2. RunTypeOK /\ RunsAgree /\ OneAtWork /\ [DriveNext]_driveVars => OneAtWork'
    BY NextAtWork
  <1> QED
    BY <1>1, <1>2, InitAtWork, RunsAlwaysAgree, PTL DEF DriveSpec

\* Neither the retention of a later run nor the deletion of the history takes away
\* the rows of a run in progress; only clear_all does, and it says so.
THEOREM RunsInProgressAreKept == DriveSpec => ActiveRunKept
  <1> DEFINE Kept == \A r \in Running : runs'[r].status = "absent" => fate'[r] = "cleared"
  <1>1. RunTypeOK /\ RunsAgree /\ [DriveNext]_driveVars => [Kept]_driveVars
    <2> SUFFICES ASSUME RunTypeOK, RunsAgree, DriveNext,
                        NEW r \in Running, runs'[r].status = "absent"
                 PROVE  fate'[r] = "cleared"
      BY DEF driveVars
    <2>1. r \in RunIds /\ runs[r].status = "running" /\ runs[r] \in Rows
      BY TypesMean DEF Running, Present
    <2>2. ASSUME NEW scope \in Scopes, begin_review_run_if_idle(scope) PROVE FALSE
      BY <2>1, <2>2 DEF begin_review_run_if_idle, Idle
    <2>3. ASSUME NEW s \in RunIds, run_drive(s) PROVE FALSE
      <3>1. CASE s # r
        BY <2>1, <2>3, <3>1, OthersUntouched
      <3>2. CASE s = r
        <4>1. runs[s] \in Rows /\ runs[s].status = "running"
              /\ runs \in [RunIds -> Rows] /\ runs'[s].status = "absent"
          BY <2>1, <3>2, TypesMean
        <4>2. CASE FirstPublish(s) \/ LastPublish(s)
          BY <4>1, <4>2 DEF FirstPublish, LastPublish
        <4>3. CASE TakeStep(s)
          BY <4>1, <4>3, <2>3 DEF TakeStep, update_review_task, Rows
        <4>4. CASE StepRaises(s)
          BY <4>1, <4>4, <2>3 DEF StepRaises, update_review_task, Rows
        <4>5. CASE Complete(s)
          BY <4>1, <4>5, <2>3 DEF Complete, finish_review_run, Rows
        <4>6. CASE ExceptClause(s)
          <5> DEFINE row == update_review_task(runs[s], "summary", "error")
          <5>1. row.status = "running" /\ run_error(row).status = "error"
            BY <4>1 DEF run_error, finish_review_run, update_review_task, Rows
          <5>2. runs'[s] = run_error(row) \/ runs'[s] = row
            BY <4>1, <4>6 DEF ExceptClause
          <5> QED
            BY <4>1, <5>1, <5>2
        <4> QED
          BY <2>3, <4>2, <4>3, <4>4, <4>5, <4>6 DEF run_drive
      <3> QED
        BY <3>1, <3>2
    <2>4. CASE delete_review_history
      BY <2>4 DEF delete_review_history, NoReviewRunning
    <2>5. CASE clear_all
      BY <2>1, <2>5 DEF clear_all
    <2>6. CASE CodeReview \/ DriveCrash
      BY <2>1, <2>6 DEF CodeReview, DriveCrash
    <2> QED
      BY <2>2, <2>3, <2>4, <2>5, <2>6 DEF DriveNext
  <1>2. [][Kept]_driveVars => ActiveRunKept
    BY DEF ActiveRunKept
  <1> QED
    BY <1>1, <1>2, RunsAlwaysAgree, PTL DEF DriveSpec
=============================================================================
