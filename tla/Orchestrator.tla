---------------------------- MODULE Orchestrator ----------------------------
(***************************************************************************)
(* agent_runtime/orchestrator.py as the request threads of daemon/server.py  *)
(* run it.  The HTTP server handles each request on its own thread; intake,   *)
(* approve_plan and retry_repair requests stay on their thread and drive the  *)
(* Case through the Agents (Orchestrator.advance), every other request is one *)
(* call of the Case store.  A thread step here is what the code does between  *)
(* two points where another thread can get in: one store call, or taking or    *)
(* leaving the per-Case dispatch lock.  A process crash loses the threads and *)
(* the locks; the restart runs recover_interrupted before it serves.          *)
(*                                                                           *)
(* The Agents are the environment: an Agent returns any result its adapter    *)
(* can produce (mock, AgentScope or CLI runtime).                             *)
(***************************************************************************)
EXTENDS CaseStore, FiniteSets

CONSTANTS
    Threads,        \* request threads; one is reused for request after request
    NoThread,       \* a dispatch lock nobody holds
    NoCase,         \* the Case of a thread that serves no request
    MaxUnrecorded   \* bound: failures of the dispatch itself (unrecorded)

ASSUME ThreadsAssumption == NoThread \notin Threads /\ NoCase \notin Cases
ASSUME UnrecordedAssumption == MaxUnrecorded \in Nat

VARIABLES
    mode,           \* "serving" requests, or "recovering" after a restart
    toSweep,        \* Cases the recovery has not looked at yet
    threads,        \* program counter and local variables of each thread
    dispatchLock,   \* Orchestrator._dispatch_locks: the holder for each Case
    runningRuns,    \* rows of agent_runs with status 'running', but for unrecorded ones
    finishedRuns,   \* (Case, state, round, outcome) of the finished rows
    unrecorded,     \* dispatches answered "failed" that no finished row tells of: begun
                    \* ones have a row that stays 'running', the others have none
    gateReports     \* verdicts recorded as quality_gate_report artifacts

runVars == <<runningRuns, finishedRuns, unrecorded, gateReports>>
serverVars == <<mode, toSweep>>
vars == <<storeVars, serverVars, threads, dispatchLock, runVars>>

-----------------------------------------------------------------------------
(* Local variables of a thread *)

PC == {"idle", "resume", "advance", "transition", "lock", "dispatch", "agent",
       "consume", "release"}

NoTarget == "none"
NoResult == "none"

\* What an Agent run comes to.  completed: a Triage or Diagnosis result.
\* patched/unusable: a completed repair with or without a patch in an allowed
\* sandbox.  passed/rejected/unchecked/gate_error: a completed verification.
\* failed: the adapter reports a failed run.
RESULTS == {"completed", "patched", "unusable", "passed", "rejected",
            "unchecked", "gate_error", "failed"}

\* Mutant of RunOutcome: the row takes the Agent's own word.
RawOutcome(result) == result

RunOutcome(result) == IF result = "failed" THEN "failed" ELSE "completed"

\* seen: the Case as advance() read it before taking any lock.
\* ctx: the context built under the dispatch lock and given to the Agent.
\* patch: the patch a "patched" result carries.
ThreadRow ==
    [pc     : PC,
     case   : Cases \cup {NoCase},
     target : AGENT_ACTIVE_STATES \cup {"PLAN_APPROVAL", NoTarget},
     seen   : [patch_ref : PatchRefs, sandbox_ref : PatchRefs],
     ctx    : [patch_ref : PatchRefs, sandbox_ref : PatchRefs, trusted : BOOLEAN],
     result : RESULTS \cup {NoResult},
     patch  : PatchRefs]

IdleThread ==
    [pc |-> "idle", case |-> NoCase, target |-> NoTarget,
     seen |-> [patch_ref |-> NoRef, sandbox_ref |-> NoRef],
     ctx |-> [patch_ref |-> NoRef, sandbox_ref |-> NoRef, trusted |-> FALSE],
     result |-> NoResult, patch |-> NoRef]

\* A thread about to call advance(c, target).
Calling(c, target) ==
    [IdleThread EXCEPT !.pc = "advance", !.case = c, !.target = target]

RunRow == [by : Threads, case : Cases, state : AGENT_ACTIVE_STATES, round : Nat]
FinishedRow == [case : Cases, state : AGENT_ACTIVE_STATES, round : Nat,
                outcome : {"completed", "failed", "interrupted"}]
UnrecordedRow == [case : Cases, state : AGENT_ACTIVE_STATES, round : Nat, begun : BOOLEAN]
GateRow == [case : Cases, patch_ref : PatchRefs, sandbox_ref : Patches,
            passed : BOOLEAN]

At(t, pc) == mode = "serving" /\ threads[t].pc = pc

Goto(t, row) == threads' = [threads EXCEPT ![t] = row]

\* The request is answered.
Done(t) == Goto(t, IdleThread)

StatusOf(t) == cases[threads[t].case].status

-----------------------------------------------------------------------------
(* Requests a thread stays with *)

\* POST /api/cases, and the self-test promotion of a project drive: record the
\* observation, then advance its Case to TRIAGED whatever state it is in.
Intake(t, c) ==
    /\ At(t, "idle")
    /\ \E trusted \in BOOLEAN :
          \/ \E base \in Commits \cup {NoRef} : CreateCase(c, base, trusted)
          \/ LinkSource(c, trusted)
    /\ Goto(t, Calling(c, "TRIAGED"))
    /\ UNCHANGED <<serverVars, dispatchLock, runVars>>

\* The approve_plan branch of handle_case_action: the Grant is consumed, then
\* run_active_state resumes the Case on the same thread.
ApprovePlan(t, g) ==
    /\ At(t, "idle")
    /\ g.action = "approve_plan"
    /\ ConsumeGrant(g)
    /\ Goto(t, [IdleThread EXCEPT !.pc = "resume", !.case = g.case])
    /\ UNCHANGED <<serverVars, dispatchLock, runVars>>

\* The retry_repair branch: service token only.
Retry(t, c) ==
    /\ At(t, "idle")
    /\ RetryRepair(c)
    /\ Goto(t, [IdleThread EXCEPT !.pc = "resume", !.case = c])
    /\ UNCHANGED <<serverVars, dispatchLock, runVars>>

\* run_active_state: the state found now is the one to work on.
RunActiveState(t) ==
    /\ At(t, "resume")
    /\ IF StatusOf(t) \in AGENT_ACTIVE_STATES
       THEN Goto(t, Calling(threads[t].case, StatusOf(t)))
       ELSE Done(t)
    /\ UNCHANGED <<storeVars, serverVars, dispatchLock, runVars>>

-----------------------------------------------------------------------------
(* Orchestrator.advance *)

\* The status read first decides: resume an active state, or move to it.
ReadCase(t) ==
    LET c == threads[t].case
        target == threads[t].target
        next == [threads[t] EXCEPT !.seen = [patch_ref   |-> cases[c].patch_ref,
                                             sandbox_ref |-> cases[c].sandbox_ref]]
    IN  /\ At(t, "advance")
        /\ Goto(t, IF StatusOf(t) = target /\ target \in AGENT_ACTIVE_STATES
                   THEN [next EXCEPT !.pc = "lock"]
                   ELSE IF is_valid_transition(StatusOf(t), target)
                        THEN [next EXCEPT !.pc = "transition"]
                        ELSE IdleThread)
        /\ UNCHANGED <<storeVars, serverVars, dispatchLock, runVars>>

\* transition_case validates again; a move made by another thread in between
\* ends this call.
Move(t) ==
    LET c == threads[t].case
        target == threads[t].target
    IN  /\ At(t, "transition")
        /\ IF is_valid_transition(StatusOf(t), target)
           THEN /\ transition_case(c, target)
                /\ IF target \in AGENT_ACTIVE_STATES
                   THEN Goto(t, [threads[t] EXCEPT !.pc = "lock"])
                   ELSE Done(t)
           ELSE Done(t) /\ UNCHANGED storeVars
        /\ UNCHANGED <<serverVars, dispatchLock, runVars>>

\* (Mutant: the lock is not waited for.)
NoWait(c) == TRUE
LockIsFree(c) == dispatchLock[c] = NoThread

\* A return inside the with block leaves no lock behind.
ReturnUnlocked(t) == Done(t) /\ UNCHANGED dispatchLock

\* The end of the with block.  (Mutant: the result is consumed, and the next Agent
\* asked for, inside the block; threading.Lock is not re-entrant.)
KeepLock(t) == UNCHANGED dispatchLock
ReleaseLock(t) == dispatchLock' = [dispatchLock EXCEPT ![threads[t].case] = NoThread]

\* Enter the dispatch lock of the Case; the status read under it must still be
\* the target, or the lock is left at once.
TakeLock(t) ==
    LET c == threads[t].case
    IN  /\ At(t, "lock")
        /\ LockIsFree(c)
        /\ IF StatusOf(t) = threads[t].target
           THEN /\ dispatchLock' = [dispatchLock EXCEPT ![c] = t]
                /\ Goto(t, [threads[t] EXCEPT !.pc = "dispatch"])
           ELSE ReturnUnlocked(t)
        /\ UNCHANGED <<storeVars, serverVars, runVars>>

\* The row begin_agent_run would write now.
NewRun(t) ==
    LET c == threads[t].case
    IN  [by |-> t, case |-> c, state |-> threads[t].target, round |-> cases[c].round]

\* Still under the lock: read the Case once more, build the context from it and
\* begin the run.  The status is not looked at again, and requests that do not
\* take the dispatch lock may have changed it.
Dispatch(t) ==
    LET row == cases[threads[t].case]
    IN  /\ At(t, "dispatch")
        /\ Goto(t, [threads[t] EXCEPT !.pc = "agent",
                        !.ctx = [patch_ref   |-> row.patch_ref,
                                 sandbox_ref |-> row.sandbox_ref,
                                 trusted     |-> row.trusted]])
        /\ runningRuns' = runningRuns \cup {NewRun(t)}
        /\ UNCHANGED <<storeVars, serverVars, dispatchLock, finishedRuns, unrecorded, gateReports>>

\* A failure of the dispatch itself, as the Harness answers it.
AnswerFailed(t) ==
    /\ Cardinality(unrecorded) < MaxUnrecorded
    /\ Goto(t, [threads[t] EXCEPT !.pc = "consume", !.result = "failed"])
    /\ ReleaseLock(t)

Unrecorded(r, begun) ==
    [case |-> r.case, state |-> r.state, round |-> r.round, begun |-> begun]

\* begin_agent_run raises, or the adapter has no Agent ready: "failed" without a row.
DispatchRefused(t) ==
    /\ At(t, "dispatch")
    /\ AnswerFailed(t)
    /\ unrecorded' = unrecorded \cup {Unrecorded(NewRun(t), FALSE)}
    /\ UNCHANGED <<storeVars, serverVars, runningRuns, finishedRuns, gateReports>>

\* What the Agent of a state may return.  With a sandbox the verdict is the
\* quality gate's; without one it is a stub or the model's own opinion.
ResultsOf(state, ctx) ==
    {"failed"} \cup
    CASE state \in {"TRIAGED", "DIAGNOSED"} -> {"completed"}
      [] state = "REPAIRING"               -> {"patched", "unusable"}
      [] OTHER -> {"passed", "rejected"} \cup
                  IF ctx.sandbox_ref # NoRef THEN {"gate_error"} ELSE {"unchecked"}

\* The verdict is persisted with the patch and the sandbox it is about.  (An Agent
\* that fails may have stored its report before; such a report is left out, as the one
\* property about reports asks for more of them.)
ReportOf(t, result) ==
    LET ctx == threads[t].ctx
    IN  IF result \in {"passed", "rejected"} /\ ctx.sandbox_ref # NoRef
        THEN {[case |-> threads[t].case, patch_ref |-> ctx.patch_ref,
               sandbox_ref |-> ctx.sandbox_ref, passed |-> result = "passed"]}
        ELSE {}

Finished(r, outcome) ==
    [case |-> r.case, state |-> r.state, round |-> r.round, outcome |-> outcome]

\* Mutant of finish_agent_run: an Agent that fails leaves its row 'running'.
finish_only_completed(t, outcome) ==
    LET mine == {r \in runningRuns : r.by = t /\ outcome = "completed"}
    IN  /\ runningRuns' = runningRuns \ mine
        /\ finishedRuns' = finishedRuns \cup {Finished(r, outcome) : r \in mine}

finish_agent_run(t, outcome) ==
    LET mine == {r \in runningRuns : r.by = t}
    IN  /\ runningRuns' = runningRuns \ mine
        /\ finishedRuns' = finishedRuns \cup {Finished(r, outcome) : r \in mine}

\* The Agent ends (or times out): the run row is finished, the lock released.
AgentReturns(t) ==
    /\ At(t, "agent")
    /\ \E result \in ResultsOf(threads[t].target, threads[t].ctx) :
       \E patch \in IF result = "patched" THEN Patches ELSE {NoRef} :
          /\ Goto(t, [threads[t] EXCEPT !.pc = "consume", !.result = result,
                                        !.patch = patch])
          /\ finish_agent_run(t, RunOutcome(result))
          /\ gateReports' = gateReports \cup ReportOf(t, result)
    /\ ReleaseLock(t)
    /\ UNCHANGED <<storeVars, serverVars, unrecorded>>

\* finish_agent_run raises, or the adapter outside its own try: the Harness swallows
\* it and answers "failed"; the row stays 'running' until a restart.
FinishRaises(t) ==
    /\ At(t, "agent")
    /\ AnswerFailed(t)
    /\ LET mine == {r \in runningRuns : r.by = t}
       IN  /\ runningRuns' = runningRuns \ mine
           /\ unrecorded' = unrecorded \cup {Unrecorded(r, TRUE) : r \in mine}
    /\ UNCHANGED <<storeVars, serverVars, finishedRuns, gateReports>>

-----------------------------------------------------------------------------
(* What advance does with the result, no longer under the dispatch lock *)

\* Mutant of Attempt: the status is written whatever it was.
ForceStatus(c, new_status) ==
    /\ cases' = [cases EXCEPT ![c].status = new_status,
                              ![c].pending = pending_action_for_state(new_status)]
    /\ UNCHANGED <<grants, usedGrants, expiredGrants, approvals>>

\* transition_case whose {"error": ...} the caller ignores.
Attempt(c, new_status) ==
    IF is_valid_transition(cases[c].status, new_status)
    THEN transition_case(c, new_status)
    ELSE UNCHANGED storeVars

\* Triage hands over to Diagnosis, Diagnosis to the plan approval.  A failed run
\* drives no transition: the Case stays where it is.
ConsumeHandoff(t) ==
    /\ At(t, "consume")
    /\ threads[t].target \in {"TRIAGED", "DIAGNOSED"}
    /\ Goto(t, IF threads[t].result = "completed"
               THEN Calling(threads[t].case,
                            IF threads[t].target = "TRIAGED"
                            THEN "DIAGNOSED" ELSE "PLAN_APPROVAL")
               ELSE IdleThread)
    /\ UNCHANGED <<storeVars, serverVars, dispatchLock, runVars>>

\* (Mutant: a claimed patch counts whatever the repair mode.)
TrustAnyRepair(t) == TRUE
repair_trusted(t) == threads[t].ctx.trusted

\* A patch counts only when the context enabled a trusted repair; a completed
\* repair without one escalates, a failed repair does nothing.
ConsumeRepair(t) ==
    LET c == threads[t].case
        result == threads[t].result
    IN  /\ At(t, "consume")
        /\ threads[t].target = "REPAIRING"
        /\ IF result = "patched" /\ repair_trusted(t)
           THEN /\ set_patch_context(c, threads[t].patch, threads[t].patch)
                /\ Goto(t, Calling(c, "VERIFYING"))
           ELSE /\ IF result = "failed" THEN UNCHANGED storeVars
                                       ELSE Attempt(c, "ESCALATED")
                /\ Done(t)
        /\ UNCHANGED <<serverVars, dispatchLock, runVars>>

\* A passed verdict needs a persisted anchor; the patch_ref written back is the
\* one advance read before it waited for the lock.
ConsumeVerification(t) ==
    LET c == threads[t].case
        result == threads[t].result
        seen == threads[t].seen
        anchored == /\ \/ threads[t].ctx.sandbox_ref # NoRef
                       \/ seen.sandbox_ref # NoRef
                    /\ seen.patch_ref # NoRef
    IN  /\ At(t, "consume")
        /\ threads[t].target = "VERIFYING"
        /\ IF result = "passed" /\ anchored
           THEN /\ set_patch_ref(c, seen.patch_ref)
                /\ Goto(t, [threads[t] EXCEPT !.pc = "release"])
           ELSE /\ CASE result \in {"failed", "gate_error"} -> Attempt(c, "ESCALATED")
                     [] result = "rejected" -> Attempt(c, "PATCH_REJECTED")
                     [] OTHER -> UNCHANGED storeVars
                /\ Done(t)
        /\ UNCHANGED <<serverVars, dispatchLock, runVars>>

RequestRelease(t) ==
    /\ At(t, "release")
    /\ Attempt(threads[t].case, "RELEASE_APPROVAL")
    /\ Done(t)
    /\ UNCHANGED <<serverVars, dispatchLock, runVars>>

-----------------------------------------------------------------------------
(* Requests that are one call of the store *)

StoreRequest ==
    /\ mode = "serving"
    /\ \/ \E c \in Cases, id \in GrantIds, action \in ALL_GRANTED_ACTIONS :
             IssueGrant(id, c, action)
       \/ \E g \in grants : g.action # "approve_plan" /\ ConsumeGrant(g)
       \/ \E g \in grants : ExpireGrant(g)
       \/ \E c \in Cases : CloseCase(c)
       \/ \E c \in Cases : Cancel(c)
    /\ UNCHANGED <<serverVars, threads, dispatchLock, runVars>>

-----------------------------------------------------------------------------
(* Crash and recover_interrupted *)

\* The process dies: the rows stay, the threads and their locks are gone.
Crash ==
    /\ mode = "serving"
    /\ mode' = "recovering"
    /\ toSweep' = Cases
    /\ threads' = [t \in Threads |-> IdleThread]
    /\ dispatchLock' = [c \in Cases |-> NoThread]
    /\ UNCHANGED <<storeVars, runVars>>

\* First every row left 'running' becomes failed ("interrupted by daemon
\* restart") ...
LeftRunning == runningRuns \cup {r \in unrecorded : r.begun}

FailStaleRun(r) ==
    /\ mode = "recovering"
    /\ r \in LeftRunning
    /\ runningRuns' = runningRuns \ {r}
    /\ unrecorded' = unrecorded \ {r}
    /\ finishedRuns' = finishedRuns \cup {Finished(r, "interrupted")}
    /\ UNCHANGED <<storeVars, serverVars, threads, dispatchLock, gateReports>>

\* What the sweep escalates.  (Mutants: whatever can be escalated; the query forgets
\* VERIFYING.)
AnyCase(c) == TRUE
NotYetVerifying(c) == cases[c].status \in AGENT_ACTIVE_STATES \ {"VERIFYING"}
Interrupted(c) == cases[c].status \in AGENT_ACTIVE_STATES

\* ... then every Case found in an Agent-active state is escalated.
SweepCase(c) ==
    /\ mode = "recovering"
    /\ LeftRunning = {}
    /\ c \in toSweep
    /\ toSweep' = toSweep \ {c}
    /\ IF Interrupted(c) THEN Attempt(c, "ESCALATED") ELSE UNCHANGED storeVars
    /\ UNCHANGED <<mode, threads, dispatchLock, runVars>>

\* The server is created only after the sweep returned.
StartServing ==
    /\ mode = "recovering"
    /\ LeftRunning = {}
    /\ toSweep = {}
    /\ mode' = "serving"
    /\ UNCHANGED <<storeVars, toSweep, threads, dispatchLock, runVars>>

-----------------------------------------------------------------------------

Init ==
    /\ StoreInit
    /\ mode = "recovering"
    /\ toSweep = Cases
    /\ threads = [t \in Threads |-> IdleThread]
    /\ dispatchLock = [c \in Cases |-> NoThread]
    /\ runningRuns = {}
    /\ finishedRuns = {}
    /\ unrecorded = {}
    /\ gateReports = {}

NewRequest(t) ==
    \/ \E c \in Cases : Intake(t, c) \/ Retry(t, c)
    \/ \E g \in grants : ApprovePlan(t, g)

ThreadStep(t) ==
    \/ RunActiveState(t)
    \/ ReadCase(t)
    \/ Move(t)
    \/ TakeLock(t)
    \/ Dispatch(t)
    \/ DispatchRefused(t)
    \/ AgentReturns(t)
    \/ FinishRaises(t)
    \/ ConsumeHandoff(t)
    \/ ConsumeRepair(t)
    \/ ConsumeVerification(t)
    \/ RequestRelease(t)

Recovery ==
    \/ \E r \in LeftRunning : FailStaleRun(r)
    \/ \E c \in Cases : SweepCase(c)
    \/ StartServing

Next ==
    \/ \E t \in Threads : NewRequest(t) \/ ThreadStep(t)
    \/ StoreRequest
    \/ Crash
    \/ Recovery

Spec == Init /\ [][Next]_vars

-----------------------------------------------------------------------------
(* What the orchestration guarantees *)

OrchTypeOK ==
    /\ StoreTypeOK
    /\ mode \in {"serving", "recovering"}
    /\ toSweep \subseteq Cases
    /\ threads \in [Threads -> ThreadRow]
    /\ dispatchLock \in [Cases -> Threads \cup {NoThread}]
    /\ runningRuns \subseteq RunRow
    /\ finishedRuns \subseteq FinishedRow
    /\ unrecorded \subseteq UnrecordedRow
    /\ gateReports \subseteq GateRow

\* While serving, a running agent_run belongs to the thread that holds the
\* dispatch lock of its Case and waits for that very Agent: no second Agent works
\* on a Case, and no row says 'running' once its request is over, but those whose
\* end could not be written (unrecorded).
RunsHoldLock ==
    mode = "serving" =>
        \A r \in runningRuns :
            /\ dispatchLock[r.case] = r.by
            /\ threads[r.by].pc = "agent"
            /\ threads[r.by].case = r.case
            /\ threads[r.by].target = r.state

\* One Agent at a time per Case, also among those a crash interrupted.
OneRunPerCase ==
    \A r, s \in runningRuns : r.case = s.case => r = s

\* A Repair Agent runs in the first round of a Case only after a consumed
\* approve_plan Grant, whatever calls, retries and crashes surround it.  (Later
\* rounds are opened by retry_repair; see RepairHasPlanApproval.)
RepairIsAuthorised ==
    \A r \in runningRuns \cup finishedRuns \cup unrecorded :
        r.state = "REPAIRING" /\ r.round = 0 =>
            \E a \in approvals : /\ a.case = r.case
                                 /\ a.round = 0
                                 /\ a.action = "approve_plan"

\* No patch anchor without a trusted repair mode: whatever an Agent claims, a
\* Case none of whose sources enabled a sandbox repair has no patch_ref and
\* never gets beyond REPAIRING on the release path.
TrustedAnchor ==
    \A c \in Cases :
        /\ cases[c].patch_ref # NoRef \/ cases[c].sandbox_ref # NoRef => cases[c].trusted
        /\ cases[c].status \in {"VERIFYING", "PATCH_REJECTED", "RELEASE_APPROVAL",
                                "RELEASED"}
              => /\ cases[c].trusted
                 /\ cases[c].patch_ref # NoRef
                 /\ cases[c].sandbox_ref # NoRef

\* A Case that waits for the release decision, or is released, has a gate report
\* that passed for its very patch, run in a sandbox that held that patch.
ReleaseIsVerified ==
    \A c \in Cases :
        cases[c].status \in {"RELEASE_APPROVAL", "RELEASED"} =>
            [case |-> c, patch_ref |-> cases[c].patch_ref,
             sandbox_ref |-> cases[c].patch_ref, passed |-> TRUE] \in gateReports

\* The human who approved the release approved the patch that is released.
ReleasedPatchIsApproved ==
    \A c \in Cases :
        cases[c].status = "RELEASED" =>
            \E a \in approvals : /\ a.case = c
                                 /\ a.action = "approve_release"
                                 /\ a.target_ref = cases[c].patch_ref

\* Some thread is still going to work on the Case.
Attended(c) == \E t \in Threads : threads[t].case = c

\* A failure of the Agent of this state and round: its row says so, or the dispatch
\* itself failed and left no such row.
Failure(state, c) ==
    \/ [case |-> c, state |-> state, round |-> cases[c].round,
        outcome |-> "failed"] \in finishedRuns
    \/ \E u \in unrecorded : u.case = c /\ u.state = state /\ u.round = cases[c].round

\* While serving, the only Agent-active Cases nobody works on are those whose
\* dispatch failed in this very state and round: no race between requests strands a
\* Case half way, and neither does a crash.
ParkedOnlyAfterFailure ==
    mode = "serving" =>
        \A c \in Cases :
            cases[c].status \in AGENT_ACTIVE_STATES /\ ~Attended(c) =>
                Failure(cases[c].status, c)

\* The orchestration calls the store only in ways the store's own specification
\* allows (and the store's guarantees therefore carry over).
ImplementsStore == StoreSpec

\* Some row of the Case says 'running' and there is somebody to end it: its Agent's
\* thread, or the recovery.  (A row whose end could not be written has only the
\* recovery.)
Ending(c) ==
    \E r \in LeftRunning : r.case = c /\ (r \in runningRuns \/ mode = "recovering")

\* Every agent_run ends: with its Agent, or with the recovery when the process died
\* under it or its end could not be written.
RunsEnd == \A c \in Cases : Ending(c) ~> ~Ending(c)

\* The stage of a Case for the people around it, and the decisions about it.
StageOf(status) ==
    CASE status = Absent -> "none"
      [] status = "PLAN_APPROVAL" -> "plan gate"
      [] status = "RELEASE_APPROVAL" -> "release gate"
      [] status \in {"RELEASED", "ROLLED_BACK"} -> "released"
      [] status = "CLOSED" -> "closed"
      [] OTHER -> "work"

Lifecycle == INSTANCE CaseLifecycle
    WITH stage <- [c \in Cases |-> StageOf(cases[c].status)],
         decided <- [c \in Cases |-> {a \in approvals : a.case = c}]

\* The threads, Agents and crashes implement the lifecycle people rely on: a Case
\* passes a gate (PLAN_APPROVAL, RELEASE_APPROVAL) only by a decision of its own,
\* recorded in that step; no Agent result that arrives late, no retry and no recovery
\* moves it through one.  A late result can take it out of RELEASE_APPROVAL.
ImplementsLifecycle == Lifecycle!LifeSpec

\* The requests never all wait for one another.
NoStandstill ==
    (\A t \in Threads : threads[t].pc # "idle") ~> (\E t \in Threads : threads[t].pc = "idle")

-----------------------------------------------------------------------------
(* What comments and documents say of the orchestration, and the code does not *)

\* orchestrator.py:43-44: two concurrent calls cannot double-dispatch the same
\* active state.  Every (round, state) of a Case is entered once, so no run may
\* start in one that already has a completed run.
NoDoubleDispatch ==
    \A r \in runningRuns : Finished(r, "completed") \notin finishedRuns

\* server.py:1804-1805: a repair never runs with a service/API token alone.
RepairHasPlanApproval ==
    \A r \in runningRuns :
        r.state = "REPAIRING" =>
            \E a \in approvals : a.case = r.case /\ a.action = "approve_plan"

=============================================================================
