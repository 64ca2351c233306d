-------------------------- MODULE OrchestratorProofs --------------------------
(***************************************************************************)
(* What the orchestration guarantees for any number of request threads,      *)
(* Cases, patches and Grants: it uses the Case store only as the store's own  *)
(* specification allows, and never lets two Agents work on one Case.          *)
(***************************************************************************)
EXTENDS Orchestrator, CaseStoreProofs

-----------------------------------------------------------------------------
(* The local variables of a thread *)

\* What a thread relies on at each point of advance().
RowReady(row) ==
    /\ row.pc # "idle" => row.case \in Cases
    /\ row.pc \in {"lock", "dispatch", "agent", "consume"} =>
          row.target \in AGENT_ACTIVE_STATES
    /\ row.pc = "consume" /\ row.result = "patched" => row.patch \in Patches

ThreadsReady == \A t \in Threads : RowReady(threads[t])

\* The inductive form of the type invariant.
TypesOK == OrchTypeOK /\ ThreadsReady

LEMMA IdleIsReady == IdleThread \in ThreadRow /\ RowReady(IdleThread)
BY DEF IdleThread, ThreadRow, RowReady, PC, NoTarget, NoResult, PatchRefs

LEMMA CallingIsReady ==
    ASSUME NEW c \in Cases, NEW target \in AGENT_ACTIVE_STATES \cup {"PLAN_APPROVAL"}
    PROVE  Calling(c, target) \in ThreadRow /\ RowReady(Calling(c, target))
BY DEF Calling, IdleThread, ThreadRow, RowReady, PC, NoTarget, NoResult, PatchRefs

\* A thread that resumes a Case after a request's store call.
LEMMA ResumingIsReady ==
    ASSUME NEW c \in Cases
    PROVE  LET row == [IdleThread EXCEPT !.pc = "resume", !.case = c]
           IN  row \in ThreadRow /\ RowReady(row)
BY DEF IdleThread, ThreadRow, RowReady, PC, NoTarget, NoResult, PatchRefs

\* A thread past its first step works on a Case.
LEMMA AtCase ==
    ASSUME TypesOK, NEW t \in Threads, NEW pc, pc # "idle", At(t, pc)
    PROVE  threads[t].case \in Cases
BY DEF TypesOK, ThreadsReady, RowReady, At

-----------------------------------------------------------------------------
(* Every step of a thread is a call of the store, or leaves the tables alone *)

LEMMA TransitionIsStoreStep ==
    ASSUME NEW c \in Cases, NEW s \in OrchestratorTargets, transition_case(c, s)
    PROVE  StoreNext
BY DEF StoreNext, CaseMethod

LEMMA AttemptIsStoreStep ==
    ASSUME NEW c \in Cases, NEW s \in OrchestratorTargets, Attempt(c, s)
    PROVE  [StoreNext]_storeVars
BY TransitionIsStoreStep DEF Attempt

LEMMA RequestIsStoreStep ==
    ASSUME NEW t \in Threads, NewRequest(t)
    PROVE  StoreNext
<1>1. ASSUME NEW c \in Cases, Intake(t, c) PROVE StoreNext
  BY <1>1 DEF Intake, StoreNext, CaseMethod
<1>2. ASSUME NEW c \in Cases, Retry(t, c) PROVE StoreNext
  BY <1>2 DEF Retry, StoreNext, CaseMethod
<1>3. ASSUME NEW g \in grants, ApprovePlan(t, g) PROVE StoreNext
  BY <1>3 DEF ApprovePlan, StoreNext, GrantMethod
<1>4. QED BY <1>1, <1>2, <1>3 DEF NewRequest

LEMMA StoreRequestIsStoreStep == StoreRequest => StoreNext
BY DEF StoreRequest, StoreNext, CaseMethod, GrantMethod

LEMMA ThreadStepIsStoreStep ==
    ASSUME TypesOK, NEW t \in Threads, ThreadStep(t)
    PROVE  [StoreNext]_storeVars
<1> DEFINE c == threads[t].case
           target == threads[t].target
<1>0. threads[t] \in ThreadRow
  BY DEF TypesOK, OrchTypeOK
<1>1. CASE RunActiveState(t) \/ ReadCase(t) \/ TakeLock(t) \/ Dispatch(t)
           \/ DispatchRefused(t) \/ AgentReturns(t) \/ FinishRaises(t) \/ ConsumeHandoff(t)
  BY <1>1 DEF RunActiveState, ReadCase, TakeLock, Dispatch, DispatchRefused, AgentReturns,
     FinishRaises, ConsumeHandoff
<1>2. CASE Move(t)
  <2>1. c \in Cases
    BY <1>2, AtCase DEF Move
  <2>2. CASE is_valid_transition(StatusOf(t), target)
    <3>1. transition_case(c, target)
      BY <1>2, <2>2 DEF Move
    <3>2. target \in OrchestratorTargets
      BY <1>0, <2>2, MovesBetweenStates
      DEF ThreadRow, NoTarget, AGENT_ACTIVE_STATES, OrchestratorTargets, ALL_STATES
    <3>3. QED BY <2>1, <3>1, <3>2, TransitionIsStoreStep
  <2>3. CASE ~is_valid_transition(StatusOf(t), target)
    BY <1>2, <2>3 DEF Move
  <2>4. QED BY <2>2, <2>3
<1>3. CASE ConsumeRepair(t)
  <2>1. c \in Cases
    BY <1>3, AtCase DEF ConsumeRepair
  <2>2. CASE threads[t].result = "patched" /\ repair_trusted(t)
    <3>1. set_patch_context(c, threads[t].patch, threads[t].patch)
      BY <1>3, <2>2 DEF ConsumeRepair
    <3>2. threads[t].patch \in Patches
      BY <1>3, <2>2 DEF ConsumeRepair, At, TypesOK, ThreadsReady, RowReady
    <3>3. QED BY <2>1, <3>1, <3>2 DEF StoreNext, CaseMethod
  <2>3. CASE ~(threads[t].result = "patched" /\ repair_trusted(t))
    <3>1. Attempt(c, "ESCALATED") \/ UNCHANGED storeVars
      BY <1>3, <2>3 DEF ConsumeRepair
    <3>2. QED BY <2>1, <3>1, AttemptIsStoreStep DEF OrchestratorTargets
  <2>4. QED BY <2>2, <2>3
<1>4. CASE ConsumeVerification(t)
  <2> DEFINE anchored == /\ \/ threads[t].ctx.sandbox_ref # NoRef
                            \/ threads[t].seen.sandbox_ref # NoRef
                         /\ threads[t].seen.patch_ref # NoRef
  <2>1. c \in Cases
    BY <1>4, AtCase DEF ConsumeVerification
  <2>2. CASE threads[t].result = "passed" /\ anchored
    <3>1. set_patch_ref(c, threads[t].seen.patch_ref)
      BY <1>4, <2>2 DEF ConsumeVerification
    <3>2. threads[t].seen.patch_ref \in Patches
      BY <1>0, <2>2 DEF ThreadRow, PatchRefs
    <3>3. QED BY <2>1, <3>1, <3>2 DEF StoreNext, CaseMethod
  <2>3. CASE ~(threads[t].result = "passed" /\ anchored)
    <3>1. \/ Attempt(c, "ESCALATED")
          \/ Attempt(c, "PATCH_REJECTED")
          \/ UNCHANGED storeVars
      BY <1>4, <2>3 DEF ConsumeVerification
    <3>2. QED BY <2>1, <3>1, AttemptIsStoreStep DEF OrchestratorTargets
  <2>4. QED BY <2>2, <2>3
<1>5. CASE RequestRelease(t)
  <2>1. c \in Cases
    BY <1>5, AtCase DEF RequestRelease
  <2>2. QED BY <1>5, <2>1, AttemptIsStoreStep DEF RequestRelease, OrchestratorTargets
<1>6. QED BY <1>1, <1>2, <1>3, <1>4, <1>5 DEF ThreadStep

LEMMA RecoveryIsStoreStep ==
    ASSUME Recovery
    PROVE  [StoreNext]_storeVars
<1>1. ASSUME NEW c \in Cases, SweepCase(c) PROVE [StoreNext]_storeVars
  BY <1>1, AttemptIsStoreStep DEF SweepCase, OrchestratorTargets
<1>2. QED BY <1>1 DEF Recovery, FailStaleRun, StartServing

LEMMA StepIsStoreStep == TypesOK /\ [Next]_vars => [StoreNext]_storeVars
<1> SUFFICES ASSUME TypesOK, [Next]_vars PROVE [StoreNext]_storeVars
  OBVIOUS
<1>1. CASE Crash
  BY <1>1 DEF Crash
<1>2. CASE UNCHANGED vars
  BY <1>2 DEF vars
<1>3. QED
  BY <1>1, <1>2, RequestIsStoreStep, ThreadStepIsStoreStep, StoreRequestIsStoreStep,
     RecoveryIsStoreStep DEF Next

-----------------------------------------------------------------------------
(* Type correctness *)

\* A step that gives one thread a new row and leaves the rest of the server alone
\* keeps the types.
LEMMA GotoKeepsTypes ==
    ASSUME TypesOK, StoreTypeOK', UNCHANGED <<serverVars, dispatchLock, runVars>>,
           NEW t \in Threads, NEW row \in ThreadRow, RowReady(row), Goto(t, row)
    PROVE  TypesOK'
<1>1. threads' \in [Threads -> ThreadRow]
  BY DEF TypesOK, OrchTypeOK, Goto
<1>2. \A u \in Threads : threads'[u] = row \/ threads'[u] = threads[u]
  BY DEF TypesOK, OrchTypeOK, Goto
<1>3. ThreadsReady'
  BY <1>2 DEF TypesOK, ThreadsReady, RowReady
<1>4. QED
  BY <1>1, <1>3 DEF TypesOK, OrchTypeOK, serverVars, runVars

LEMMA ReadCaseKeepsTypes ==
    ASSUME TypesOK, StoreTypeOK', NEW t \in Threads, ReadCase(t)
    PROVE  TypesOK'
<1> DEFINE c == threads[t].case
           target == threads[t].target
           next == [threads[t] EXCEPT !.seen = [patch_ref   |-> cases[c].patch_ref,
                                                sandbox_ref |-> cases[c].sandbox_ref]]
           toLock == [next EXCEPT !.pc = "lock"]
           toMove == [next EXCEPT !.pc = "transition"]
<1>1. threads[t] \in ThreadRow /\ c \in Cases
  BY AtCase DEF TypesOK, OrchTypeOK, ReadCase
<1>2. cases[c].patch_ref \in PatchRefs /\ cases[c].sandbox_ref \in PatchRefs
  BY <1>1 DEF TypesOK, OrchTypeOK, StoreTypeOK, CaseRow
<1>3. next \in ThreadRow /\ next.case = c /\ next.target = target
  BY <1>1, <1>2 DEF ThreadRow
<1>4. /\ toLock \in ThreadRow /\ toMove \in ThreadRow
      /\ toLock.pc = "lock" /\ toLock.case = c /\ toLock.target = target
      /\ toMove.pc = "transition" /\ toMove.case = c
  BY <1>3 DEF ThreadRow, PC
<1>5. target \in AGENT_ACTIVE_STATES => RowReady(toLock)
  BY <1>1, <1>4 DEF RowReady
<1>6. RowReady(toMove)
  BY <1>1, <1>4 DEF RowReady
<1>7. \/ target \in AGENT_ACTIVE_STATES /\ Goto(t, toLock)
      \/ Goto(t, toMove)
      \/ Goto(t, IdleThread)
  BY DEF ReadCase
<1>8. UNCHANGED <<serverVars, dispatchLock, runVars>>
  BY DEF ReadCase
<1>9. QED BY <1>4, <1>5, <1>6, <1>7, <1>8, IdleIsReady, GotoKeepsTypes

LEMMA MoveKeepsTypes ==
    ASSUME TypesOK, StoreTypeOK', NEW t \in Threads, Move(t)
    PROVE  TypesOK'
<1> DEFINE toLock == [threads[t] EXCEPT !.pc = "lock"]
<1>1. threads[t] \in ThreadRow /\ threads[t].case \in Cases
  BY AtCase DEF TypesOK, OrchTypeOK, Move
<1>2. /\ toLock \in ThreadRow
      /\ threads[t].target \in AGENT_ACTIVE_STATES => RowReady(toLock)
  BY <1>1 DEF ThreadRow, PC, RowReady
<1>3. \/ threads[t].target \in AGENT_ACTIVE_STATES /\ Goto(t, toLock)
      \/ Goto(t, IdleThread)
  BY DEF Move, Done
<1>4. UNCHANGED <<serverVars, dispatchLock, runVars>>
  BY DEF Move
<1>5. QED BY <1>2, <1>3, <1>4, IdleIsReady, GotoKeepsTypes

LEMMA TakeLockKeepsTypes ==
    ASSUME TypesOK, StoreTypeOK', NEW t \in Threads, TakeLock(t)
    PROVE  TypesOK'
<1> DEFINE inLock == [threads[t] EXCEPT !.pc = "dispatch"]
<1>1. /\ threads[t] \in ThreadRow /\ threads[t].case \in Cases
      /\ threads[t].target \in AGENT_ACTIVE_STATES
  BY AtCase DEF TypesOK, OrchTypeOK, TakeLock, At, ThreadsReady, RowReady
<1>2. inLock \in ThreadRow /\ RowReady(inLock)
  BY <1>1 DEF ThreadRow, PC, RowReady
<1>3. CASE StatusOf(t) = threads[t].target
  <2>1. Goto(t, inLock) /\ UNCHANGED <<serverVars, runVars>>
    BY <1>3 DEF TakeLock
  <2>2. dispatchLock' \in [Cases -> Threads \cup {NoThread}]
    BY <1>1, <1>3 DEF TakeLock, TypesOK, OrchTypeOK
  <2>3. threads' \in [Threads -> ThreadRow]
    BY <1>2, <2>1 DEF TypesOK, OrchTypeOK, Goto
  <2>4. \A u \in Threads : threads'[u] = inLock \/ threads'[u] = threads[u]
    BY <2>1 DEF TypesOK, OrchTypeOK, Goto
  <2>5. ThreadsReady'
    BY <1>2, <2>4 DEF TypesOK, ThreadsReady, RowReady
  <2>6. QED BY <2>1, <2>2, <2>3, <2>5 DEF TypesOK, OrchTypeOK, serverVars, runVars
<1>4. CASE StatusOf(t) # threads[t].target
  BY <1>4, IdleIsReady, GotoKeepsTypes DEF TakeLock, ReturnUnlocked, Done
<1>5. QED BY <1>3, <1>4

LEMMA DispatchKeepsTypes ==
    ASSUME TypesOK, StoreTypeOK', NEW t \in Threads, Dispatch(t)
    PROVE  TypesOK'
<1> DEFINE c == threads[t].case
           ctx == [patch_ref   |-> cases[c].patch_ref,
                   sandbox_ref |-> cases[c].sandbox_ref,
                   trusted     |-> cases[c].trusted]
           waiting == [threads[t] EXCEPT !.pc = "agent", !.ctx = ctx]
<1>1. /\ threads[t] \in ThreadRow /\ c \in Cases
      /\ threads[t].target \in AGENT_ACTIVE_STATES
  BY AtCase DEF TypesOK, OrchTypeOK, Dispatch, At, ThreadsReady, RowReady
<1>2. /\ cases[c].patch_ref \in PatchRefs /\ cases[c].sandbox_ref \in PatchRefs
      /\ cases[c].trusted \in BOOLEAN /\ cases[c].round \in Nat
  BY <1>1 DEF TypesOK, OrchTypeOK, StoreTypeOK, CaseRow
<1>3. waiting \in ThreadRow
  BY <1>1, <1>2 DEF ThreadRow, PC
<1>4. waiting.pc = "agent" /\ waiting.case = c /\ waiting.target = threads[t].target
  BY <1>1 DEF ThreadRow
<1>5. RowReady(waiting)
  BY <1>1, <1>4 DEF RowReady
<1>6. NewRun(t) \in RunRow
  BY <1>1, <1>2 DEF NewRun, RunRow
<1>7. /\ Goto(t, waiting) /\ runningRuns' = runningRuns \cup {NewRun(t)}
      /\ UNCHANGED <<serverVars, dispatchLock, finishedRuns, unrecorded, gateReports>>
  BY DEF Dispatch
<1>8. threads' \in [Threads -> ThreadRow]
  BY <1>3, <1>7 DEF TypesOK, OrchTypeOK, Goto
<1>9. \A u \in Threads : threads'[u] = waiting \/ threads'[u] = threads[u]
  BY <1>7 DEF TypesOK, OrchTypeOK, Goto
<1>10. ThreadsReady'
  BY <1>5, <1>9 DEF TypesOK, ThreadsReady, RowReady
<1>11. runningRuns' \subseteq RunRow
  BY <1>6, <1>7 DEF TypesOK, OrchTypeOK
<1>12. QED
  BY <1>7, <1>8, <1>10, <1>11 DEF TypesOK, OrchTypeOK, serverVars

\* A result of an Agent is one of RESULTS, and its run has one of the outcomes of
\* a finished row.
LEMMA AgentResult ==
    ASSUME NEW state, NEW ctx, NEW result \in ResultsOf(state, ctx)
    PROVE  result \in RESULTS /\ RunOutcome(result) \in {"completed", "failed"}
BY DEF ResultsOf, RESULTS, RunOutcome

LEMMA AgentReturnsKeepsTypes ==
    ASSUME TypesOK, StoreTypeOK', NEW t \in Threads, AgentReturns(t)
    PROVE  TypesOK'
<1> PICK result \in ResultsOf(threads[t].target, threads[t].ctx),
         patch \in PatchRefs :
       /\ result = "patched" => patch \in Patches
       /\ Goto(t, [threads[t] EXCEPT !.pc = "consume", !.result = result,
                                     !.patch = patch])
       /\ finish_agent_run(t, RunOutcome(result))
       /\ gateReports' = gateReports \cup ReportOf(t, result)
  BY DEF AgentReturns, PatchRefs
<1> DEFINE back == [threads[t] EXCEPT !.pc = "consume", !.result = result,
                                      !.patch = patch]
           mine == {r \in runningRuns : r.by = t}
           verdict == [case |-> threads[t].case, patch_ref |-> threads[t].ctx.patch_ref,
                       sandbox_ref |-> threads[t].ctx.sandbox_ref,
                       passed |-> result = "passed"]
<1>1. /\ threads[t] \in ThreadRow /\ threads[t].case \in Cases
      /\ threads[t].target \in AGENT_ACTIVE_STATES
  BY AtCase DEF TypesOK, OrchTypeOK, AgentReturns, At, ThreadsReady, RowReady
<1>2. /\ result \in RESULTS /\ RunOutcome(result) \in {"completed", "failed"}
  BY AgentResult
<1>3. back \in ThreadRow
  BY <1>1, <1>2 DEF ThreadRow, PC
<1>4. /\ back.pc = "consume" /\ back.case = threads[t].case
      /\ back.target = threads[t].target /\ back.result = result /\ back.patch = patch
  BY <1>1 DEF ThreadRow
<1>5. RowReady(back)
  BY <1>1, <1>2, <1>4 DEF RowReady
<1>6. threads' \in [Threads -> ThreadRow]
  BY <1>3 DEF TypesOK, OrchTypeOK, Goto
<1>7. \A u \in Threads : threads'[u] = back \/ threads'[u] = threads[u]
  BY DEF TypesOK, OrchTypeOK, Goto
<1>8. ThreadsReady'
  BY <1>5, <1>7 DEF TypesOK, ThreadsReady, RowReady
<1>9. runningRuns' \subseteq RunRow
  BY DEF finish_agent_run, TypesOK, OrchTypeOK
<1>10. finishedRuns' \subseteq FinishedRow
  <2>1. \A r \in mine : Finished(r, RunOutcome(result)) \in FinishedRow
    BY <1>2 DEF TypesOK, OrchTypeOK, RunRow, FinishedRow, Finished
  <2>2. QED BY <2>1 DEF finish_agent_run, TypesOK, OrchTypeOK
<1>11. ReportOf(t, result) \subseteq GateRow
  <2>1. CASE threads[t].ctx.sandbox_ref # NoRef
    <3>1. /\ threads[t].ctx.sandbox_ref \in Patches
          /\ threads[t].ctx.patch_ref \in PatchRefs
      BY <1>1, <2>1 DEF ThreadRow, PatchRefs
    <3>2. (result = "passed") \in BOOLEAN
      OBVIOUS
    <3>3. verdict \in GateRow
      BY <1>1, <3>1, <3>2 DEF GateRow
    <3>4. QED BY <3>3 DEF ReportOf
  <2>2. CASE threads[t].ctx.sandbox_ref = NoRef
    BY <2>2 DEF ReportOf
  <2>3. QED BY <2>1, <2>2
<1>12. dispatchLock' \in [Cases -> Threads \cup {NoThread}]
  BY <1>1 DEF AgentReturns, ReleaseLock, TypesOK, OrchTypeOK
<1>13. UNCHANGED <<serverVars, unrecorded>> /\ gateReports' \subseteq GateRow
  BY <1>11 DEF AgentReturns, TypesOK, OrchTypeOK
<1>14. QED
  BY <1>6, <1>8, <1>9, <1>10, <1>12, <1>13 DEF TypesOK, OrchTypeOK, serverVars

\* A dispatch that fails is answered "failed", and a row may be left behind.
LEMMA FailureKeepsTypes ==
    ASSUME TypesOK, StoreTypeOK', NEW t \in Threads, DispatchRefused(t) \/ FinishRaises(t)
    PROVE  TypesOK'
<1> DEFINE back == [threads[t] EXCEPT !.pc = "consume", !.result = "failed"]
<1>1. /\ threads[t] \in ThreadRow /\ threads[t].case \in Cases
      /\ threads[t].target \in AGENT_ACTIVE_STATES
  BY AtCase
  DEF TypesOK, OrchTypeOK, DispatchRefused, FinishRaises, At, ThreadsReady, RowReady
<1>2. back \in ThreadRow
  BY <1>1 DEF ThreadRow, PC, RESULTS
<1>3. RowReady(back)
  BY <1>1 DEF RowReady, ThreadRow
<1>4. Goto(t, back) /\ ReleaseLock(t)
  BY DEF DispatchRefused, FinishRaises, AnswerFailed
<1>5. threads' \in [Threads -> ThreadRow]
  BY <1>2, <1>4 DEF TypesOK, OrchTypeOK, Goto
<1>6. \A u \in Threads : threads'[u] = back \/ threads'[u] = threads[u]
  BY <1>4 DEF TypesOK, OrchTypeOK, Goto
<1>7. ThreadsReady'
  BY <1>3, <1>6 DEF TypesOK, ThreadsReady, RowReady
<1>8. dispatchLock' \in [Cases -> Threads \cup {NoThread}]
  BY <1>1, <1>4 DEF ReleaseLock, TypesOK, OrchTypeOK
<1>9. runningRuns' \subseteq RunRow /\ unrecorded' \subseteq UnrecordedRow
  <2>1. CASE DispatchRefused(t)
    <3>1. cases[threads[t].case].round \in Nat
      BY <1>1 DEF TypesOK, OrchTypeOK, StoreTypeOK, CaseRow
    <3>2. Unrecorded(NewRun(t), FALSE) \in UnrecordedRow
      BY <1>1, <3>1 DEF NewRun, Unrecorded, UnrecordedRow
    <3>3. QED BY <2>1, <3>2 DEF DispatchRefused, TypesOK, OrchTypeOK
  <2>2. CASE FinishRaises(t)
    <3>1. \A r \in runningRuns : Unrecorded(r, TRUE) \in UnrecordedRow
      BY DEF TypesOK, OrchTypeOK, RunRow, Unrecorded, UnrecordedRow
    <3>2. QED BY <2>2, <3>1 DEF FinishRaises, TypesOK, OrchTypeOK
  <2>3. QED BY <2>1, <2>2
<1>10. UNCHANGED <<serverVars, finishedRuns, gateReports>>
  BY DEF DispatchRefused, FinishRaises
<1>11. QED
  BY <1>5, <1>7, <1>8, <1>9, <1>10 DEF TypesOK, OrchTypeOK, serverVars

LEMMA ConsumeKeepsTypes ==
    ASSUME TypesOK, StoreTypeOK', NEW t \in Threads,
           \/ ConsumeHandoff(t) \/ ConsumeRepair(t)
           \/ ConsumeVerification(t) \/ RequestRelease(t)
    PROVE  TypesOK'
<1> DEFINE c == threads[t].case
           releasing == [threads[t] EXCEPT !.pc = "release"]
<1>1. threads[t] \in ThreadRow /\ c \in Cases
  BY AtCase
  DEF TypesOK, OrchTypeOK, ConsumeHandoff, ConsumeRepair, ConsumeVerification, RequestRelease
<1>2. UNCHANGED <<serverVars, dispatchLock, runVars>>
  BY DEF ConsumeHandoff, ConsumeRepair, ConsumeVerification, RequestRelease
<1>3. releasing \in ThreadRow /\ RowReady(releasing)
  BY <1>1 DEF ThreadRow, PC, RowReady
<1>4. \/ \E target \in AGENT_ACTIVE_STATES \cup {"PLAN_APPROVAL"} :
            Goto(t, Calling(c, target))
      \/ Goto(t, IdleThread)
      \/ Goto(t, releasing)
  BY DEF ConsumeHandoff, ConsumeRepair, ConsumeVerification, RequestRelease, Done,
         AGENT_ACTIVE_STATES
<1>5. QED BY <1>1, <1>2, <1>3, <1>4, CallingIsReady, IdleIsReady, GotoKeepsTypes

LEMMA RequestKeepsTypes ==
    ASSUME TypesOK, StoreTypeOK', NEW t \in Threads, NewRequest(t)
    PROVE  TypesOK'
<1>1. ASSUME NEW c \in Cases, Intake(t, c) PROVE TypesOK'
  <2>1. Goto(t, Calling(c, "TRIAGED")) /\ UNCHANGED <<serverVars, dispatchLock, runVars>>
    BY <1>1 DEF Intake
  <2>2. QED BY <2>1, CallingIsReady, GotoKeepsTypes DEF AGENT_ACTIVE_STATES
<1>2. ASSUME NEW c \in Cases, Retry(t, c) PROVE TypesOK'
  BY <1>2, ResumingIsReady, GotoKeepsTypes DEF Retry
<1>3. ASSUME NEW g \in grants, ApprovePlan(t, g) PROVE TypesOK'
  <2>1. g.case \in Cases
    BY DEF TypesOK, OrchTypeOK, StoreTypeOK, GrantRow
  <2>2. QED BY <1>3, <2>1, ResumingIsReady, GotoKeepsTypes DEF ApprovePlan
<1>4. QED BY <1>1, <1>2, <1>3 DEF NewRequest

LEMMA ResumeKeepsTypes ==
    ASSUME TypesOK, StoreTypeOK', NEW t \in Threads, RunActiveState(t)
    PROVE  TypesOK'
<1>1. threads[t].case \in Cases
  BY AtCase DEF RunActiveState
<1>2. \/ StatusOf(t) \in AGENT_ACTIVE_STATES /\ Goto(t, Calling(threads[t].case, StatusOf(t)))
      \/ Goto(t, IdleThread)
  BY DEF RunActiveState, Done
<1>3. UNCHANGED <<serverVars, dispatchLock, runVars>>
  BY DEF RunActiveState
<1>4. QED BY <1>1, <1>2, <1>3, CallingIsReady, IdleIsReady, GotoKeepsTypes

LEMMA RecoveryKeepsTypes ==
    ASSUME TypesOK, StoreTypeOK', Recovery
    PROVE  TypesOK'
<1>1. ASSUME NEW r \in LeftRunning, FailStaleRun(r) PROVE TypesOK'
  <2>1. Finished(r, "interrupted") \in FinishedRow
    BY DEF LeftRunning, TypesOK, OrchTypeOK, RunRow, UnrecordedRow, FinishedRow, Finished
  <2>2. QED
    BY <1>1, <2>1 DEF FailStaleRun, TypesOK, OrchTypeOK, ThreadsReady, serverVars
<1>2. ASSUME NEW c \in Cases, SweepCase(c) PROVE TypesOK'
  BY <1>2 DEF SweepCase, TypesOK, OrchTypeOK, ThreadsReady, runVars
<1>3. CASE StartServing
  BY <1>3 DEF StartServing, TypesOK, OrchTypeOK, ThreadsReady, runVars
<1>4. QED BY <1>1, <1>2, <1>3 DEF Recovery

LEMMA InitTypesOK == Init => TypesOK
BY InitTypeOK, IdleIsReady DEF Init, TypesOK, OrchTypeOK, ThreadsReady

LEMMA StepTypesOK == TypesOK /\ [Next]_vars => TypesOK'
<1> SUFFICES ASSUME TypesOK, [Next]_vars PROVE TypesOK'
  OBVIOUS
<1>1. StoreTypeOK'
  BY StepIsStoreStep, StepTypeOK DEF TypesOK, OrchTypeOK
<1>2. ASSUME NEW t \in Threads, NewRequest(t) PROVE TypesOK'
  BY <1>1, <1>2, RequestKeepsTypes
<1>3. ASSUME NEW t \in Threads, ThreadStep(t) PROVE TypesOK'
  BY <1>1, <1>3, ResumeKeepsTypes, ReadCaseKeepsTypes, MoveKeepsTypes, TakeLockKeepsTypes,
     DispatchKeepsTypes, AgentReturnsKeepsTypes, FailureKeepsTypes, ConsumeKeepsTypes
  DEF ThreadStep
<1>4. CASE StoreRequest
  BY <1>1, <1>4 DEF StoreRequest, TypesOK, OrchTypeOK, ThreadsReady, serverVars, runVars
<1>5. CASE Crash
  BY <1>1, <1>5, IdleIsReady DEF Crash, TypesOK, OrchTypeOK, ThreadsReady, runVars
<1>6. CASE Recovery
  BY <1>1, <1>6, RecoveryKeepsTypes
<1>7. CASE UNCHANGED vars
  BY <1>1, <1>7 DEF vars, TypesOK, OrchTypeOK, ThreadsReady, serverVars, runVars
<1>8. QED BY <1>2, <1>3, <1>4, <1>5, <1>6, <1>7 DEF Next

\* The tables, the threads' variables, the locks and the run rows keep their types.
THEOREM OrchTypeCorrect == Spec => []OrchTypeOK
<1>1. TypesOK => OrchTypeOK
  BY DEF TypesOK
<1>2. QED BY <1>1, InitTypesOK, StepTypesOK, PTL DEF Spec

\* Whatever requests, Agents, crashes and the recovery do, the Case tables only see
\* behaviours of the store's own specification: what CaseStoreProofs shows of it
\* holds of the running system.
THEOREM OrchestrationImplementsStore == Spec => ImplementsStore
<1>1. Init => StoreInit
  BY DEF Init
<1>2. QED
  BY <1>1, InitTypesOK, StepTypesOK, StepIsStoreStep, PTL DEF Spec, ImplementsStore, StoreSpec

\* In the running system, too, a Grant is spent once, a visit of a gate is decided
\* once, a release has its approval, and the columns of a row agree.
THEOREM StoreGuaranteesCarryOver ==
    Spec => [](/\ PendingMatchesStatus /\ ClosedAtMatchesStatus
               /\ GrantSpentOnce /\ GateDecidedOnce /\ ReleaseHasApproval)
BY OrchestrationImplementsStore, StatusColumnsAgree, GrantsSpentOnce, GateDecisionIsUnique,
   ReleaseIsApproved, PTL DEF ImplementsStore

-----------------------------------------------------------------------------
(* One Agent at a time *)

\* A thread inside the with block holds the dispatch lock of its Case.
LocksHeld ==
    \A t \in Threads :
        threads[t].pc \in {"dispatch", "agent"} => dispatchLock[threads[t].case] = t

ExclusionOK == LocksHeld /\ RunsHoldLock /\ OneRunPerCase

\* A thread outside the with block may go anywhere outside it.
LEMMA OutsideKeepsExclusion ==
    ASSUME TypesOK, ExclusionOK, UNCHANGED <<serverVars, dispatchLock, runningRuns>>,
           NEW t \in Threads, threads[t].pc \notin {"dispatch", "agent"},
           NEW row, row.pc \notin {"dispatch", "agent"}, Goto(t, row)
    PROVE  ExclusionOK'
<1>1. \A u \in Threads : threads'[u] = IF u = t THEN row ELSE threads[u]
  BY DEF TypesOK, OrchTypeOK, Goto
<1>2. LocksHeld'
  BY <1>1 DEF ExclusionOK, LocksHeld
<1>3. RunsHoldLock'
  BY <1>1 DEF ExclusionOK, RunsHoldLock, TypesOK, OrchTypeOK, RunRow, serverVars
<1>4. QED BY <1>2, <1>3 DEF ExclusionOK, OneRunPerCase

LEMMA OutsideStepKeepsExclusion ==
    ASSUME TypesOK, ExclusionOK, NEW t \in Threads,
           \/ NewRequest(t) \/ RunActiveState(t) \/ ReadCase(t) \/ Move(t)
           \/ ConsumeHandoff(t) \/ ConsumeRepair(t)
           \/ ConsumeVerification(t) \/ RequestRelease(t)
    PROVE  ExclusionOK'
<1> DEFINE Outside == {"idle", "resume", "advance", "transition", "lock", "consume",
                       "release"}
<1>0. threads[t] \in ThreadRow
  BY DEF TypesOK, OrchTypeOK
<1>1. IdleThread.pc \in Outside
  BY DEF IdleThread
<1>2. \A c, target : Calling(c, target).pc \in Outside
  BY DEF Calling, IdleThread
<1>3. \A c : [IdleThread EXCEPT !.pc = "resume", !.case = c].pc \in Outside
  BY DEF IdleThread
<1>4. CASE NewRequest(t)
  <2>1. /\ threads[t].pc \in Outside
        /\ UNCHANGED <<serverVars, dispatchLock, runningRuns>>
    BY <1>4 DEF NewRequest, Intake, Retry, ApprovePlan, At, runVars
  <2>2. \E c : \/ Goto(t, Calling(c, "TRIAGED"))
               \/ Goto(t, [IdleThread EXCEPT !.pc = "resume", !.case = c])
    BY <1>4 DEF NewRequest, Intake, Retry, ApprovePlan
  <2>3. QED BY <1>2, <1>3, <2>1, <2>2, OutsideKeepsExclusion
<1>5. CASE RunActiveState(t)
  <2>1. /\ threads[t].pc \in Outside
        /\ UNCHANGED <<serverVars, dispatchLock, runningRuns>>
        /\ \E row : row.pc \in Outside /\ Goto(t, row)
    BY <1>1, <1>2, <1>5 DEF RunActiveState, Done, At, runVars
  <2>2. QED BY <2>1, OutsideKeepsExclusion
<1>6. CASE ReadCase(t)
  <2> DEFINE next == [threads[t] EXCEPT
                        !.seen = [patch_ref   |-> cases[threads[t].case].patch_ref,
                                  sandbox_ref |-> cases[threads[t].case].sandbox_ref]]
  <2>1. /\ [next EXCEPT !.pc = "lock"].pc = "lock"
        /\ [next EXCEPT !.pc = "transition"].pc = "transition"
    BY <1>0 DEF ThreadRow
  <2>2. /\ threads[t].pc \in Outside
        /\ UNCHANGED <<serverVars, dispatchLock, runningRuns>>
        /\ \/ Goto(t, [next EXCEPT !.pc = "lock"])
           \/ Goto(t, [next EXCEPT !.pc = "transition"])
           \/ Goto(t, IdleThread)
    BY <1>6 DEF ReadCase, At, runVars
  <2>3. QED BY <1>1, <2>1, <2>2, OutsideKeepsExclusion
<1>7. CASE Move(t)
  <2>1. [threads[t] EXCEPT !.pc = "lock"].pc = "lock"
    BY <1>0 DEF ThreadRow
  <2>2. /\ threads[t].pc \in Outside
        /\ UNCHANGED <<serverVars, dispatchLock, runningRuns>>
        /\ Goto(t, [threads[t] EXCEPT !.pc = "lock"]) \/ Goto(t, IdleThread)
    BY <1>7 DEF Move, Done, At, runVars
  <2>3. QED BY <1>1, <2>1, <2>2, OutsideKeepsExclusion
<1>8. CASE ConsumeHandoff(t) \/ ConsumeRepair(t) \/ ConsumeVerification(t)
           \/ RequestRelease(t)
  <2>1. [threads[t] EXCEPT !.pc = "release"].pc = "release"
    BY <1>0 DEF ThreadRow
  <2>2. /\ threads[t].pc \in Outside
        /\ UNCHANGED <<serverVars, dispatchLock, runningRuns>>
    BY <1>8 DEF ConsumeHandoff, ConsumeRepair, ConsumeVerification, RequestRelease, At,
                runVars
  <2>3. \/ \E target : Goto(t, Calling(threads[t].case, target))
        \/ Goto(t, [threads[t] EXCEPT !.pc = "release"])
        \/ Goto(t, IdleThread)
    BY <1>8 DEF ConsumeHandoff, ConsumeRepair, ConsumeVerification, RequestRelease, Done
  <2>4. QED BY <1>1, <1>2, <2>1, <2>2, <2>3, OutsideKeepsExclusion
<1>9. QED BY <1>4, <1>5, <1>6, <1>7, <1>8

\* The lock was free, so no thread inside a with block has this Case.
LEMMA TakeLockKeepsExclusion ==
    ASSUME TypesOK, ExclusionOK, NEW t \in Threads, TakeLock(t)
    PROVE  ExclusionOK'
<1> DEFINE c == threads[t].case
           inLock == [threads[t] EXCEPT !.pc = "dispatch"]
<1>1. threads[t] \in ThreadRow /\ c \in Cases /\ threads[t].pc = "lock"
  BY AtCase DEF TypesOK, OrchTypeOK, TakeLock, At
<1>2. CASE StatusOf(t) = threads[t].target
  <2>1. /\ dispatchLock[c] = NoThread /\ dispatchLock' = [dispatchLock EXCEPT ![c] = t]
        /\ Goto(t, inLock) /\ UNCHANGED <<serverVars, runningRuns>>
    BY <1>2 DEF TakeLock, LockIsFree, runVars
  <2>2. inLock.pc = "dispatch" /\ inLock.case = c
    BY <1>1 DEF ThreadRow
  <2>3. \A u \in Threads : threads'[u] = IF u = t THEN inLock ELSE threads[u]
    BY <2>1 DEF TypesOK, OrchTypeOK, Goto
  <2>4. \A d \in Cases : dispatchLock'[d] = IF d = c THEN t ELSE dispatchLock[d]
    BY <2>1 DEF TypesOK, OrchTypeOK
  <2>5. LocksHeld'
    <3> SUFFICES ASSUME NEW u \in Threads, threads'[u].pc \in {"dispatch", "agent"}
                 PROVE  dispatchLock'[threads'[u].case] = u
      BY DEF LocksHeld
    <3>1. CASE u = t
      <4>1. threads'[u].case = c
        BY <2>2, <2>3, <3>1
      <4>2. dispatchLock'[c] = u
        BY <1>1, <2>4, <3>1
      <4>3. QED BY <4>1, <4>2
    <3>2. CASE u # t
      <4>1. dispatchLock[threads[u].case] = u /\ threads[u].case \in Cases
        BY <2>3, <3>2 DEF ExclusionOK, LocksHeld, TypesOK, ThreadsReady, RowReady
      <4>2. threads[u].case # c
        BY <2>1, <4>1, ThreadsAssumption
      <4>3. QED BY <2>3, <2>4, <3>2, <4>1, <4>2
    <3>3. QED BY <3>1, <3>2
  <2>6. RunsHoldLock'
    <3> SUFFICES ASSUME mode = "serving", NEW r \in runningRuns
                 PROVE  /\ dispatchLock'[r.case] = r.by
                        /\ threads'[r.by].pc = "agent"
                        /\ threads'[r.by].case = r.case
                        /\ threads'[r.by].target = r.state
      BY <2>1 DEF RunsHoldLock, serverVars
    <3>1. /\ dispatchLock[r.case] = r.by /\ threads[r.by].pc = "agent"
          /\ threads[r.by].case = r.case /\ threads[r.by].target = r.state
          /\ r.by \in Threads /\ r.case \in Cases
      BY DEF ExclusionOK, RunsHoldLock, TypesOK, OrchTypeOK, RunRow
    <3>2. r.case # c /\ r.by # t
      BY <1>1, <2>1, <3>1, ThreadsAssumption
    <3>3. QED BY <2>3, <2>4, <3>1, <3>2
  <2>7. QED BY <2>1, <2>5, <2>6 DEF ExclusionOK, OneRunPerCase
<1>3. CASE StatusOf(t) # threads[t].target
  <2>1. /\ Goto(t, IdleThread) /\ UNCHANGED <<serverVars, dispatchLock, runningRuns>>
        /\ IdleThread.pc = "idle"
    BY <1>3 DEF TakeLock, ReturnUnlocked, Done, runVars, IdleThread
  <2>2. QED BY <1>1, <2>1, OutsideKeepsExclusion
<1>4. QED BY <1>2, <1>3

\* A run that is already there for the Case would be of this very thread, which is
\* not waiting for an Agent yet.
LEMMA DispatchKeepsExclusion ==
    ASSUME TypesOK, ExclusionOK, NEW t \in Threads, Dispatch(t)
    PROVE  ExclusionOK'
<1> DEFINE c == threads[t].case
           waiting == [threads[t] EXCEPT !.pc = "agent",
                         !.ctx = [patch_ref   |-> cases[c].patch_ref,
                                  sandbox_ref |-> cases[c].sandbox_ref,
                                  trusted     |-> cases[c].trusted]]
           run == NewRun(t)
<1>1. /\ threads[t] \in ThreadRow /\ c \in Cases
      /\ threads[t].pc = "dispatch" /\ mode = "serving" /\ dispatchLock[c] = t
  BY AtCase DEF TypesOK, OrchTypeOK, Dispatch, At, ExclusionOK, LocksHeld
<1>2. /\ Goto(t, waiting) /\ runningRuns' = runningRuns \cup {run}
      /\ UNCHANGED <<serverVars, dispatchLock>>
  BY DEF Dispatch
<1>3. waiting.pc = "agent" /\ waiting.case = c /\ waiting.target = threads[t].target
  BY <1>1 DEF ThreadRow
<1>4. \A u \in Threads : threads'[u] = IF u = t THEN waiting ELSE threads[u]
  BY <1>2 DEF TypesOK, OrchTypeOK, Goto
<1>5. run.by = t /\ run.case = c /\ run.state = threads[t].target
  BY DEF NewRun
<1> HIDE DEF waiting, run
<1>6. \A r \in runningRuns : /\ r.by \in Threads /\ r.by # t /\ r.case # c
                             /\ dispatchLock[r.case] = r.by
                             /\ threads[r.by].pc = "agent"
                             /\ threads[r.by].case = r.case
                             /\ threads[r.by].target = r.state
  BY <1>1 DEF ExclusionOK, RunsHoldLock, TypesOK, OrchTypeOK, RunRow
<1>7. LocksHeld'
  BY <1>1, <1>2, <1>3, <1>4 DEF ExclusionOK, LocksHeld
<1>8. RunsHoldLock'
  BY <1>1, <1>2, <1>3, <1>4, <1>5, <1>6 DEF RunsHoldLock
<1>9. OneRunPerCase'
  BY <1>2, <1>5, <1>6 DEF ExclusionOK, OneRunPerCase
<1>10. QED BY <1>7, <1>8, <1>9 DEF ExclusionOK

\* The steps that leave the with block with an answer: the thread goes on to consume
\* it, the lock is given back, and the thread's runs are no longer in progress.
LEMMA LeavingMeans ==
    ASSUME TypesOK, ExclusionOK, NEW t \in Threads,
           AgentReturns(t) \/ FinishRaises(t) \/ DispatchRefused(t)
    PROVE  /\ threads[t].pc \in {"dispatch", "agent"} /\ mode = "serving"
           /\ \E row : row.pc = "consume" /\ Goto(t, row)
           /\ ReleaseLock(t) /\ UNCHANGED serverVars
           /\ runningRuns' = {r \in runningRuns : r.by # t}
<1>1. threads[t] \in ThreadRow
  BY DEF TypesOK, OrchTypeOK
<1>2. \A result, patch :
         /\ [threads[t] EXCEPT !.pc = "consume", !.result = result,
                               !.patch = patch].pc = "consume"
         /\ [threads[t] EXCEPT !.pc = "consume", !.result = result].pc = "consume"
  BY <1>1 DEF ThreadRow
<1>3. CASE AgentReturns(t)
  <2>1. \E result, patch :
           Goto(t, [threads[t] EXCEPT !.pc = "consume", !.result = result, !.patch = patch])
    BY <1>3 DEF AgentReturns
  <2>2. runningRuns' = {r \in runningRuns : r.by # t}
    BY <1>3 DEF AgentReturns, finish_agent_run
  <2>3. QED BY <1>2, <1>3, <2>1, <2>2 DEF AgentReturns, At
<1>4. CASE FinishRaises(t)
  <2>1. runningRuns' = {r \in runningRuns : r.by # t}
    BY <1>4 DEF FinishRaises
  <2>2. QED BY <1>2, <1>4, <2>1 DEF FinishRaises, AnswerFailed, At
<1>5. CASE DispatchRefused(t)
  <2>1. threads[t].pc = "dispatch" /\ mode = "serving" /\ runningRuns' = runningRuns
    BY <1>5 DEF DispatchRefused, At
  <2>2. \A r \in runningRuns : r.by # t
    BY <2>1 DEF ExclusionOK, RunsHoldLock
  <2>3. QED BY <1>2, <1>5, <2>1, <2>2 DEF DispatchRefused, AnswerFailed
<1>6. QED BY <1>3, <1>4, <1>5

\* The lock given back is the thread's own, and so are the runs it ends.
LEMMA LeavingKeepsExclusion ==
    ASSUME TypesOK, ExclusionOK, NEW t \in Threads,
           AgentReturns(t) \/ FinishRaises(t) \/ DispatchRefused(t)
    PROVE  ExclusionOK'
<1> DEFINE c == threads[t].case
<1>1. /\ threads[t].pc \in {"dispatch", "agent"} /\ mode = "serving"
      /\ c \in Cases /\ dispatchLock[c] = t
  BY LeavingMeans DEF ExclusionOK, LocksHeld, TypesOK, ThreadsReady, RowReady
<1>2. PICK back : back.pc = "consume" /\ Goto(t, back)
  BY LeavingMeans
<1>3. back.pc = "consume"
  BY <1>2
<1>4. \A u \in Threads : threads'[u] = IF u = t THEN back ELSE threads[u]
  BY <1>2 DEF TypesOK, OrchTypeOK, Goto
<1>5. \A d \in Cases : dispatchLock'[d] = IF d = c THEN NoThread ELSE dispatchLock[d]
  BY LeavingMeans DEF ReleaseLock, TypesOK, OrchTypeOK
<1>6. runningRuns' = {r \in runningRuns : r.by # t} /\ UNCHANGED serverVars
  BY LeavingMeans
<1>7. LocksHeld'
  <2> SUFFICES ASSUME NEW u \in Threads, threads'[u].pc \in {"dispatch", "agent"}
               PROVE  dispatchLock'[threads'[u].case] = u
    BY DEF LocksHeld
  <2>1. u # t /\ threads'[u] = threads[u]
    BY <1>3, <1>4
  <2>2. dispatchLock[threads[u].case] = u /\ threads[u].case \in Cases
    BY <2>1 DEF ExclusionOK, LocksHeld, TypesOK, ThreadsReady, RowReady
  <2>3. QED BY <1>1, <1>5, <2>1, <2>2
<1>8. RunsHoldLock'
  <2> SUFFICES ASSUME NEW r \in runningRuns, r.by # t
               PROVE  /\ dispatchLock'[r.case] = r.by
                      /\ threads'[r.by].pc = "agent"
                      /\ threads'[r.by].case = r.case
                      /\ threads'[r.by].target = r.state
    BY <1>6 DEF RunsHoldLock
  <2>1. /\ dispatchLock[r.case] = r.by /\ threads[r.by].pc = "agent"
        /\ threads[r.by].case = r.case /\ threads[r.by].target = r.state
        /\ r.by \in Threads /\ r.case \in Cases
    BY <1>1 DEF ExclusionOK, RunsHoldLock, TypesOK, OrchTypeOK, RunRow
  <2>2. QED BY <1>1, <1>4, <1>5, <2>1
<1>9. QED BY <1>6, <1>7, <1>8 DEF ExclusionOK, OneRunPerCase

LEMMA InitExclusionOK == Init => ExclusionOK
BY DEF Init, IdleThread, ExclusionOK, LocksHeld, RunsHoldLock, OneRunPerCase

LEMMA StepExclusionOK == TypesOK /\ ExclusionOK /\ [Next]_vars => ExclusionOK'
<1> SUFFICES ASSUME TypesOK, ExclusionOK, [Next]_vars PROVE ExclusionOK'
  OBVIOUS
<1> USE DEF ExclusionOK, LocksHeld, RunsHoldLock, OneRunPerCase
<1>1. ASSUME NEW t \in Threads, NewRequest(t) \/ ThreadStep(t) PROVE ExclusionOK'
  BY <1>1, OutsideStepKeepsExclusion, TakeLockKeepsExclusion, DispatchKeepsExclusion,
     LeavingKeepsExclusion DEF ThreadStep
<1>2. CASE StoreRequest
  BY <1>2 DEF StoreRequest, serverVars, runVars
<1>3. CASE Crash
  BY <1>3 DEF Crash, IdleThread, runVars
<1>4. ASSUME NEW r \in LeftRunning, FailStaleRun(r) PROVE ExclusionOK'
  BY <1>4 DEF FailStaleRun, serverVars
<1>5. ASSUME NEW c \in Cases, SweepCase(c) PROVE ExclusionOK'
  BY <1>5 DEF SweepCase, runVars
<1>6. CASE StartServing
  BY <1>6 DEF StartServing, LeftRunning, runVars
<1>7. CASE UNCHANGED vars
  BY <1>7 DEF vars, serverVars, runVars
<1>8. QED BY <1>1, <1>2, <1>3, <1>4, <1>5, <1>6, <1>7 DEF Next, Recovery

\* While requests are served, every running agent_run belongs to the one thread that
\* holds the dispatch lock of its Case, and no Case ever has two - but for rows whose end
\* could not be written, which say 'running' when their Agent is gone.
THEOREM AgentsExclude == Spec => [](RunsHoldLock /\ OneRunPerCase)
<1>1. ExclusionOK => RunsHoldLock /\ OneRunPerCase
  BY DEF ExclusionOK
<1>2. QED
  BY <1>1, InitTypesOK, StepTypesOK, InitExclusionOK, StepExclusionOK, PTL DEF Spec

-----------------------------------------------------------------------------
(* Patch anchors need a trusted repair *)

ReleasePath == {"VERIFYING", "PATCH_REJECTED", "RELEASE_APPROVAL", "RELEASED"}

Anchored(row) == row.trusted /\ row.patch_ref # NoRef /\ row.sandbox_ref # NoRef

\* What TrustedAnchor says of one Case, and that intake starts from nothing.
CaseAnchored(row) ==
    /\ row.patch_ref # NoRef \/ row.sandbox_ref # NoRef => row.trusted
    /\ row.status \in ReleasePath => Anchored(row)
    /\ row.status = Absent => ~row.trusted

\* What a thread carries from one read of its Case to the next: the trust its
\* context was built with (a patch comes from an Agent that got it), and a target VERIFYING that is only chosen once the
\* patch is anchored.
ThreadAnchored(thread, table) ==
    /\ /\ thread.pc = "agent" \/ (thread.pc = "consume" /\ thread.result = "patched")
       /\ thread.ctx.trusted
       => table[thread.case].trusted
    /\ thread.target = "VERIFYING" =>
          thread.pc # "idle" /\ Anchored(table[thread.case])

AnchorsOK ==
    /\ \A c \in Cases : CaseAnchored(cases[c])
    /\ \A t \in Threads : ThreadAnchored(threads[t], cases)

\* What every step does to the row of a Case: anchors and trust are not taken back,
\* no anchor comes without trust, and the release path is entered anchored.
Grown(old, new) ==
    /\ old.trusted => new.trusted
    /\ old.patch_ref # NoRef => new.patch_ref # NoRef
    /\ old.sandbox_ref # NoRef => new.sandbox_ref # NoRef
    /\ new.patch_ref # NoRef \/ new.sandbox_ref # NoRef =>
          old.patch_ref # NoRef \/ old.sandbox_ref # NoRef \/ new.trusted
    /\ new.status \in ReleasePath => old.status \in ReleasePath \/ Anchored(old)
    /\ new.status = Absent => ~new.trusted

CasesGrow == \A c \in Cases : Grown(cases[c], cases'[c])

LEMMA GrownIsAnchored ==
    ASSUME NEW old, NEW new, CaseAnchored(old), Grown(old, new)
    PROVE  CaseAnchored(new) /\ (Anchored(old) => Anchored(new))
BY DEF CaseAnchored, Grown, Anchored

\* It suffices to look at the row a step replaces.
LEMMA OneRowGrows ==
    ASSUME StoreTypeOK, AnchorsOK, NEW c \in Cases, NEW new,
           cases' = [cases EXCEPT ![c] = new], Grown(cases[c], new)
    PROVE  CasesGrow
<1>1. \A d \in Cases : Grown(cases[d], cases[d])
  BY DEF AnchorsOK, CaseAnchored, Grown
<1>2. QED BY <1>1 DEF StoreTypeOK, CasesGrow

LEMMA NoRowChanges ==
    ASSUME AnchorsOK, UNCHANGED cases
    PROVE  CasesGrow
BY DEF AnchorsOK, CaseAnchored, Grown, CasesGrow

\* Only a move to VERIFYING enters the release path.
LEMMA ReleasePathEntry ==
    ASSUME NEW s, NEW t, is_valid_transition(s, t), t \in ReleasePath, t # "VERIFYING"
    PROVE  s \in ReleasePath
BY DEF is_valid_transition, TRANSITIONS, ReleasePath

\* A status that moves along the table leaves the anchors alone.
LEMMA MovedGrows ==
    ASSUME NEW row \in CaseRow, CaseAnchored(row), NEW s, NEW p, NEW b,
           s # Absent,
           s \in ReleasePath => row.status \in ReleasePath \/ Anchored(row)
    PROVE  Grown(row, Moved(row, s, p, b)) /\ Grown(row, NextRound(Moved(row, s, p, b)))
BY DEF CaseRow, CaseAnchored, Grown, Moved, NextRound

LEMMA TransitionGrows ==
    ASSUME StoreTypeOK, AnchorsOK, NEW c \in Cases, NEW s, transition_case(c, s),
           s = "VERIFYING" => Anchored(cases[c])
    PROVE  CasesGrow
<1> DEFINE moved == Moved(cases[c], s, PendingArgument(s), Closes(s))
<1>1. cases[c] \in CaseRow /\ CaseAnchored(cases[c])
  BY DEF StoreTypeOK, AnchorsOK
<1>2. is_valid_transition(cases[c].status, s)
  BY DEF transition_case
<1>3. s # Absent /\ (s \in ReleasePath => cases[c].status \in ReleasePath \/ Anchored(cases[c]))
  BY <1>2, DeadEnds, ReleasePathEntry
<1>4. Grown(cases[c], moved) /\ Grown(cases[c], NextRound(moved))
  BY <1>1, <1>3, MovedGrows
<1>5. \/ cases' = [cases EXCEPT ![c] = moved]
      \/ cases' = [cases EXCEPT ![c] = NextRound(moved)]
  BY DEF transition_case
<1> HIDE DEF moved
<1>6. QED BY <1>4, <1>5, OneRowGrows

LEMMA AttemptGrows ==
    ASSUME StoreTypeOK, AnchorsOK, NEW c \in Cases, NEW s, Attempt(c, s), s # "VERIFYING"
    PROVE  CasesGrow
BY TransitionGrows, NoRowChanges DEF Attempt, storeVars

LEMMA IntakeGrows ==
    ASSUME StoreTypeOK, AnchorsOK, NEW c \in Cases, NEW trusted \in BOOLEAN,
           \/ \E base \in Commits \cup {NoRef} : CreateCase(c, base, trusted)
           \/ LinkSource(c, trusted)
    PROVE  CasesGrow
<1>1. cases[c] \in CaseRow /\ CaseAnchored(cases[c])
  BY DEF StoreTypeOK, AnchorsOK
<1>2. ASSUME NEW base \in Commits \cup {NoRef}, CreateCase(c, base, trusted)
      PROVE  CasesGrow
  <2> DEFINE new == [NewCase EXCEPT !.status = "RECEIVED", !.base_commit = base,
                                    !.trusted = trusted]
  <2>1. /\ new.status = "RECEIVED" /\ new.patch_ref = NoRef /\ new.sandbox_ref = NoRef
    BY DEF NewCase
  <2>2. cases' = [cases EXCEPT ![c] = new] /\ cases[c].status = Absent
    BY <1>2 DEF CreateCase
  <2> HIDE DEF new
  <2>3. Grown(cases[c], new)
    BY <1>1, <2>1, <2>2 DEF CaseAnchored, Grown, ReleasePath, Absent
  <2>4. QED BY <2>2, <2>3, OneRowGrows
<1>3. ASSUME LinkSource(c, trusted) PROVE CasesGrow
  <2> DEFINE new == [cases[c] EXCEPT !.trusted = @ \/ trusted]
  <2>1. /\ new.status = cases[c].status /\ new.patch_ref = cases[c].patch_ref
        /\ new.sandbox_ref = cases[c].sandbox_ref
        /\ cases[c].trusted => new.trusted
    BY <1>1 DEF CaseRow
  <2>2. cases' = [cases EXCEPT ![c] = new] /\ cases[c].status # Absent
    BY <1>3 DEF LinkSource
  <2> HIDE DEF new
  <2>3. Grown(cases[c], new)
    BY <1>1, <2>1, <2>2 DEF CaseAnchored, Grown
  <2>4. QED BY <2>2, <2>3, OneRowGrows
<1>4. QED BY <1>2, <1>3

LEMMA GrantGrows ==
    ASSUME StoreTypeOK, AnchorsOK, NEW g \in grants, ConsumeGrant(g)
    PROVE  CasesGrow
<1>1. /\ g.case \in Cases /\ g.action \in ALL_GRANTED_ACTIONS
      /\ cases[g.case] \in CaseRow /\ CaseAnchored(cases[g.case])
  BY DEF StoreTypeOK, AnchorsOK, GrantRow
<1>2. DecidedState(g.action) \in ReleasePath => cases[g.case].status \in ReleasePath
  BY <1>1 DEF ConsumeGrant, AwaitsDecision, DecidedState, GateState, ReleasePath,
     ALL_GRANTED_ACTIONS, APPROVAL_ACTIONS, REJECT_ACTIONS
<1>3. DecidedState(g.action) # Absent
  BY DEF DecidedState, Absent
<1>4. Grown(cases[g.case],
            Moved(cases[g.case], DecidedState(g.action), NoAction, cases[g.case].closed))
  BY <1>1, <1>2, <1>3, MovedGrows
<1>5. QED BY <1>1, <1>4, OneRowGrows DEF ConsumeGrant

LEMMA ServiceActionGrows ==
    ASSUME StoreTypeOK, AnchorsOK, NEW c \in Cases,
           CloseCase(c) \/ RetryRepair(c) \/ Cancel(c)
    PROVE  CasesGrow
<1>1. cases[c] \in CaseRow /\ CaseAnchored(cases[c])
  BY DEF StoreTypeOK, AnchorsOK
<1>2. \A s \in {"CLOSED", "REPAIRING", "ESCALATED"} : \A p, b :
         /\ Grown(cases[c], Moved(cases[c], s, p, b))
         /\ Grown(cases[c], NextRound(Moved(cases[c], s, p, b)))
  BY <1>1, MovedGrows DEF ReleasePath, Absent
<1>3. CASE CloseCase(c)
  BY <1>2, <1>3, OneRowGrows DEF CloseCase
<1>4. CASE RetryRepair(c)
  BY <1>2, <1>4, OneRowGrows DEF RetryRepair
<1>5. CASE Cancel(c)
  BY <1>2, <1>5, OneRowGrows DEF Cancel
<1>6. QED BY <1>3, <1>4, <1>5

\* A patch written to a Case that is trusted already.
LEMMA PatchGrows ==
    ASSUME StoreTypeOK, AnchorsOK, NEW c \in Cases, cases[c].trusted,
           NEW p, p # NoRef, set_patch_context(c, p, p) \/ set_patch_ref(c, p)
    PROVE  /\ CasesGrow
           /\ set_patch_context(c, p, p) => Anchored(cases'[c])
<1>1. cases[c] \in CaseRow /\ CaseAnchored(cases[c])
  BY DEF StoreTypeOK, AnchorsOK
<1>2. CASE set_patch_context(c, p, p)
  <2> DEFINE new == [cases[c] EXCEPT !.patch_ref = p, !.sandbox_ref = p]
  <2>1. /\ new.status = cases[c].status /\ new.patch_ref = p
        /\ new.sandbox_ref = p /\ new.trusted
    BY <1>1 DEF CaseRow
  <2>2. cases' = [cases EXCEPT ![c] = new] /\ cases[c].status # Absent
    BY <1>2 DEF set_patch_context
  <2> HIDE DEF new
  <2>3. Grown(cases[c], new)
    BY <1>1, <2>1, <2>2 DEF CaseAnchored, Grown
  <2>4. cases'[c] = new
    BY <2>2 DEF StoreTypeOK
  <2>5. QED BY <2>1, <2>2, <2>3, <2>4, OneRowGrows DEF Anchored
<1>3. CASE set_patch_ref(c, p) /\ ~set_patch_context(c, p, p)
  <2> DEFINE new == [cases[c] EXCEPT !.patch_ref = p]
  <2>1. /\ new.status = cases[c].status /\ new.patch_ref = p
        /\ new.sandbox_ref = cases[c].sandbox_ref /\ new.trusted
    BY <1>1 DEF CaseRow
  <2>2. cases' = [cases EXCEPT ![c] = new] /\ cases[c].status # Absent
    BY <1>3 DEF set_patch_ref
  <2> HIDE DEF new
  <2>3. Grown(cases[c], new)
    BY <1>1, <2>1, <2>2 DEF CaseAnchored, Grown
  <2>4. QED BY <1>3, <2>2, <2>3, OneRowGrows
<1>4. QED BY <1>2, <1>3

\* What a thread carries stays true while the rows grow.
LEMMA ThreadStays ==
    ASSUME TypesOK, AnchorsOK, CasesGrow, NEW t \in Threads
    PROVE  ThreadAnchored(threads[t], cases')
<1>1. ThreadAnchored(threads[t], cases) /\ RowReady(threads[t])
  BY DEF AnchorsOK, TypesOK, ThreadsReady
<1>2. threads[t].case \in Cases =>
         LET old == cases[threads[t].case]
             new == cases'[threads[t].case]
         IN  /\ Anchored(old) => Anchored(new)
             /\ old.trusted => new.trusted
  BY GrownIsAnchored DEF AnchorsOK, CasesGrow, Grown
<1>3. QED BY <1>1, <1>2 DEF ThreadAnchored, RowReady

\* A thread that goes on while the rows grow.
LEMMA GotoKeepsAnchors ==
    ASSUME TypesOK, AnchorsOK, CasesGrow, NEW t \in Threads, NEW row, Goto(t, row),
           ThreadAnchored(row, cases')
    PROVE  AnchorsOK'
<1>1. \A u \in Threads : threads'[u] = IF u = t THEN row ELSE threads[u]
  BY DEF TypesOK, OrchTypeOK, Goto
<1>2. \A c \in Cases : CaseAnchored(cases'[c])
  BY GrownIsAnchored DEF AnchorsOK, CasesGrow
<1>3. QED BY <1>1, <1>2, ThreadStays DEF AnchorsOK

\* A row that neither goes for VERIFYING nor holds a context carries nothing.
LEMMA NothingCarried ==
    ASSUME NEW row, NEW table, row.target # "VERIFYING", row.pc \notin {"agent", "consume"}
    PROVE  ThreadAnchored(row, table)
BY DEF ThreadAnchored

LEMMA IdleCarriesNothing == \A table : ThreadAnchored(IdleThread, table)
BY NothingCarried DEF IdleThread, NoTarget

LEMMA CallingCarries ==
    ASSUME NEW c, NEW target, NEW table, target = "VERIFYING" => Anchored(table[c])
    PROVE  ThreadAnchored(Calling(c, target), table)
BY DEF Calling, IdleThread, ThreadAnchored

LEMMA RequestKeepsAnchors ==
    ASSUME TypesOK, AnchorsOK, NEW t \in Threads, NewRequest(t)
    PROVE  AnchorsOK'
<1>0. StoreTypeOK
  BY DEF TypesOK, OrchTypeOK
<1>1. ASSUME NEW c PROVE ThreadAnchored([IdleThread EXCEPT !.pc = "resume", !.case = c], cases')
  BY DEF IdleThread, ThreadAnchored, NoTarget
<1>2. ASSUME NEW c \in Cases, Intake(t, c) PROVE AnchorsOK'
  <2>1. CasesGrow
    BY <1>0, <1>2, IntakeGrows DEF Intake
  <2>2. ThreadAnchored(Calling(c, "TRIAGED"), cases')
    BY CallingCarries
  <2>3. QED BY <1>2, <2>1, <2>2, GotoKeepsAnchors DEF Intake
<1>3. ASSUME NEW c \in Cases, Retry(t, c) PROVE AnchorsOK'
  <2>1. CasesGrow
    BY <1>0, <1>3, ServiceActionGrows DEF Retry
  <2>2. QED BY <1>1, <1>3, <2>1, GotoKeepsAnchors DEF Retry
<1>4. ASSUME NEW g \in grants, ApprovePlan(t, g) PROVE AnchorsOK'
  <2>1. CasesGrow
    BY <1>0, <1>4, GrantGrows DEF ApprovePlan
  <2>2. QED BY <1>1, <1>4, <2>1, GotoKeepsAnchors DEF ApprovePlan
<1>5. QED BY <1>2, <1>3, <1>4 DEF NewRequest

LEMMA ThreadAnchoredMeans ==
    ASSUME NEW thread, NEW table, ThreadAnchored(thread, table)
    PROVE  /\ thread.target = "VERIFYING" => Anchored(table[thread.case])
           /\ thread.pc = "agent" /\ thread.ctx.trusted => table[thread.case].trusted
BY DEF ThreadAnchored

\* The steps of a thread up to the result of the Agent.
LEMMA ReadStepKeepsAnchors ==
    ASSUME TypesOK, AnchorsOK, NEW t \in Threads,
           \/ RunActiveState(t) \/ ReadCase(t) \/ TakeLock(t) \/ Dispatch(t)
           \/ DispatchRefused(t) \/ AgentReturns(t) \/ FinishRaises(t)
    PROVE  AnchorsOK'
<1> DEFINE c == threads[t].case
           target == threads[t].target
<1>0. cases' = cases /\ CasesGrow
  BY NoRowChanges
  DEF RunActiveState, ReadCase, TakeLock, Dispatch, DispatchRefused, AgentReturns,
      FinishRaises, storeVars
<1>1. /\ threads[t] \in ThreadRow /\ c \in Cases
      /\ target = "VERIFYING" => Anchored(cases[c])
      /\ threads[t].pc = "agent" /\ threads[t].ctx.trusted => cases[c].trusted
  <2>1. c \in Cases
    BY AtCase DEF RunActiveState, ReadCase, TakeLock, Dispatch, DispatchRefused,
       AgentReturns, FinishRaises
  <2>2. threads[t] \in ThreadRow /\ ThreadAnchored(threads[t], cases)
    BY DEF TypesOK, OrchTypeOK, AnchorsOK
  <2>3. QED BY <2>1, <2>2, ThreadAnchoredMeans
<1>2. CASE RunActiveState(t)
  <2>1. StatusOf(t) = "VERIFYING" => Anchored(cases'[c])
    BY <1>0, <1>1 DEF AnchorsOK, CaseAnchored, ReleasePath, StatusOf
  <2>2. ThreadAnchored(Calling(c, StatusOf(t)), cases')
    BY <2>1, CallingCarries
  <2>3. Goto(t, Calling(c, StatusOf(t))) \/ Goto(t, IdleThread)
    BY <1>2 DEF RunActiveState, Done
  <2>4. QED BY <1>0, <2>2, <2>3, IdleCarriesNothing, GotoKeepsAnchors
<1>3. CASE ReadCase(t)
  <2> DEFINE next == [threads[t] EXCEPT !.seen = [patch_ref   |-> cases[c].patch_ref,
                                                  sandbox_ref |-> cases[c].sandbox_ref]]
             toLock == [next EXCEPT !.pc = "lock"]
             toMove == [next EXCEPT !.pc = "transition"]
  <2>1. /\ toLock.pc = "lock" /\ toLock.target = target /\ toLock.case = c
        /\ toMove.pc = "transition" /\ toMove.target = target /\ toMove.case = c
    BY <1>1 DEF ThreadRow
  <2>2. Goto(t, toLock) \/ Goto(t, toMove) \/ Goto(t, IdleThread)
    BY <1>3 DEF ReadCase
  <2> HIDE DEF toLock, toMove
  <2>3. ThreadAnchored(toLock, cases') /\ ThreadAnchored(toMove, cases')
    BY <1>0, <1>1, <2>1 DEF ThreadAnchored
  <2>4. QED BY <1>0, <2>2, <2>3, IdleCarriesNothing, GotoKeepsAnchors
<1>4. CASE TakeLock(t)
  <2> DEFINE inLock == [threads[t] EXCEPT !.pc = "dispatch"]
  <2>1. inLock.pc = "dispatch" /\ inLock.target = target /\ inLock.case = c
    BY <1>1 DEF ThreadRow
  <2>2. Goto(t, inLock) \/ Goto(t, IdleThread)
    BY <1>4 DEF TakeLock, ReturnUnlocked, Done
  <2> HIDE DEF inLock
  <2>3. ThreadAnchored(inLock, cases')
    BY <1>0, <1>1, <2>1 DEF ThreadAnchored
  <2>4. QED BY <1>0, <2>2, <2>3, IdleCarriesNothing, GotoKeepsAnchors
<1>5. CASE Dispatch(t)
  <2> DEFINE waiting == [threads[t] EXCEPT !.pc = "agent",
                           !.ctx = [patch_ref   |-> cases[c].patch_ref,
                                    sandbox_ref |-> cases[c].sandbox_ref,
                                    trusted     |-> cases[c].trusted]]
  <2>1. /\ waiting.pc = "agent" /\ waiting.target = target /\ waiting.case = c
        /\ waiting.ctx.trusted = cases[c].trusted
    BY <1>1 DEF ThreadRow
  <2>2. Goto(t, waiting)
    BY <1>5 DEF Dispatch
  <2> HIDE DEF waiting
  <2>3. ThreadAnchored(waiting, cases')
    BY <1>0, <1>1, <2>1 DEF ThreadAnchored
  <2>4. QED BY <1>0, <2>2, <2>3, GotoKeepsAnchors
<1>6. CASE AgentReturns(t)
  <2>1. PICK result, patch :
           Goto(t, [threads[t] EXCEPT !.pc = "consume", !.result = result,
                                      !.patch = patch])
    BY <1>6 DEF AgentReturns
  <2> DEFINE back == [threads[t] EXCEPT !.pc = "consume", !.result = result,
                                        !.patch = patch]
  <2>2. /\ back.pc = "consume" /\ back.target = target /\ back.case = c
        /\ back.ctx = threads[t].ctx
    BY <1>1 DEF ThreadRow
  <2>3. Goto(t, back)
    BY <2>1
  <2>4. threads[t].pc = "agent"
    BY <1>6 DEF AgentReturns, At
  <2> HIDE DEF back
  <2>5. ThreadAnchored(back, cases')
    BY <1>0, <1>1, <2>2, <2>4 DEF ThreadAnchored
  <2>6. QED BY <1>0, <2>3, <2>5, GotoKeepsAnchors
<1>7. CASE DispatchRefused(t) \/ FinishRaises(t)
  <2> DEFINE back == [threads[t] EXCEPT !.pc = "consume", !.result = "failed"]
  <2>1. /\ back.pc = "consume" /\ back.target = target /\ back.case = c
        /\ back.result = "failed"
    BY <1>1 DEF ThreadRow
  <2>2. Goto(t, back)
    BY <1>7 DEF DispatchRefused, FinishRaises, AnswerFailed
  <2> HIDE DEF back
  <2>3. ThreadAnchored(back, cases')
    BY <1>0, <1>1, <2>1 DEF ThreadAnchored
  <2>4. QED BY <1>0, <2>2, <2>3, GotoKeepsAnchors
<1>8. QED BY <1>2, <1>3, <1>4, <1>5, <1>6, <1>7

LEMMA MoveKeepsAnchors ==
    ASSUME TypesOK, AnchorsOK, NEW t \in Threads, Move(t)
    PROVE  AnchorsOK'
<1> DEFINE c == threads[t].case
           target == threads[t].target
           toLock == [threads[t] EXCEPT !.pc = "lock"]
<1>1. /\ threads[t] \in ThreadRow /\ c \in Cases
      /\ target = "VERIFYING" => Anchored(cases[c])
      /\ StoreTypeOK
  BY AtCase DEF Move, TypesOK, OrchTypeOK, AnchorsOK, ThreadAnchored
<1>2. CasesGrow
  BY <1>1, TransitionGrows, NoRowChanges DEF Move, storeVars
<1>3. target = "VERIFYING" => Anchored(cases'[c])
  BY <1>1, <1>2, GrownIsAnchored DEF AnchorsOK, CasesGrow
<1>4. toLock.pc = "lock" /\ toLock.target = target /\ toLock.case = c
  BY <1>1 DEF ThreadRow
<1>5. Goto(t, toLock) \/ Goto(t, IdleThread)
  BY DEF Move, Done
<1> HIDE DEF toLock
<1>6. ThreadAnchored(toLock, cases')
  BY <1>3, <1>4 DEF ThreadAnchored
<1>7. QED BY <1>2, <1>5, <1>6, IdleCarriesNothing, GotoKeepsAnchors

\* What advance does with a result: only a patch of a trusted context is written, and
\* only then is VERIFYING asked for.
LEMMA ConsumeKeepsAnchors ==
    ASSUME TypesOK, AnchorsOK, NEW t \in Threads,
           \/ ConsumeHandoff(t) \/ ConsumeRepair(t)
           \/ ConsumeVerification(t) \/ RequestRelease(t)
    PROVE  AnchorsOK'
<1> DEFINE c == threads[t].case
           patch == threads[t].patch
           seen == threads[t].seen
<1>1. /\ threads[t] \in ThreadRow /\ RowReady(threads[t]) /\ StoreTypeOK
      /\ ThreadAnchored(threads[t], cases)
  BY DEF TypesOK, OrchTypeOK, ThreadsReady, AnchorsOK
<1>2. c \in Cases
  BY AtCase DEF ConsumeHandoff, ConsumeRepair, ConsumeVerification, RequestRelease
<1>3. CASE ConsumeHandoff(t)
  <2>1. CasesGrow
    BY <1>3, NoRowChanges DEF ConsumeHandoff, storeVars
  <2>2. \/ Goto(t, Calling(c, "DIAGNOSED")) \/ Goto(t, Calling(c, "PLAN_APPROVAL"))
        \/ Goto(t, IdleThread)
    BY <1>3 DEF ConsumeHandoff
  <2>3. QED BY <2>1, <2>2, CallingCarries, IdleCarriesNothing, GotoKeepsAnchors
<1>4. CASE ConsumeRepair(t)
  <2>1. CASE threads[t].result = "patched" /\ repair_trusted(t)
    <3>1. set_patch_context(c, patch, patch) /\ Goto(t, Calling(c, "VERIFYING"))
      BY <1>4, <2>1 DEF ConsumeRepair
    <3>2. patch # NoRef
      BY <1>1, <1>4, <2>1, RefsAssumption DEF ConsumeRepair, At, RowReady
    <3>3. cases[c].trusted
      BY <1>1, <1>4, <2>1 DEF ConsumeRepair, At, ThreadAnchored, repair_trusted
    <3>4. CasesGrow /\ Anchored(cases'[c])
      BY <1>1, <1>2, <3>1, <3>2, <3>3, PatchGrows
    <3>5. QED BY <3>1, <3>4, CallingCarries, GotoKeepsAnchors
  <2>2. CASE ~(threads[t].result = "patched" /\ repair_trusted(t))
    <3>1. /\ Attempt(c, "ESCALATED") \/ UNCHANGED storeVars
          /\ Goto(t, IdleThread)
      BY <1>4, <2>2 DEF ConsumeRepair, Done
    <3>2. CasesGrow
      BY <1>1, <1>2, <3>1, AttemptGrows, NoRowChanges DEF storeVars
    <3>3. QED BY <3>1, <3>2, IdleCarriesNothing, GotoKeepsAnchors
  <2>3. QED BY <2>1, <2>2
<1>5. CASE ConsumeVerification(t)
  <2> DEFINE anchored == /\ threads[t].ctx.sandbox_ref # NoRef \/ seen.sandbox_ref # NoRef
                         /\ seen.patch_ref # NoRef
             releasing == [threads[t] EXCEPT !.pc = "release"]
  <2>1. Anchored(cases[c])
    BY <1>1, <1>5 DEF ConsumeVerification, ThreadAnchored
  <2>2. CASE threads[t].result = "passed" /\ anchored
    <3>1. set_patch_ref(c, seen.patch_ref) /\ Goto(t, releasing)
      BY <1>5, <2>2 DEF ConsumeVerification
    <3>2. CasesGrow
      BY <1>1, <1>2, <2>1, <2>2, <3>1, PatchGrows DEF Anchored
    <3>3. Anchored(cases'[c])
      BY <1>2, <2>1, <3>2, GrownIsAnchored DEF AnchorsOK, CasesGrow
    <3>4. releasing.pc = "release" /\ releasing.case = c
      BY <1>1 DEF ThreadRow
    <3>5. ThreadAnchored(releasing, cases')
      BY <3>3, <3>4 DEF ThreadAnchored
    <3>6. QED BY <3>1, <3>2, <3>5, GotoKeepsAnchors
  <2>3. CASE ~(threads[t].result = "passed" /\ anchored)
    <3>1. /\ \/ Attempt(c, "ESCALATED") \/ Attempt(c, "PATCH_REJECTED")
             \/ UNCHANGED storeVars
          /\ Goto(t, IdleThread)
      BY <1>5, <2>3 DEF ConsumeVerification, Done
    <3>2. CasesGrow
      BY <1>1, <1>2, <3>1, AttemptGrows, NoRowChanges DEF storeVars
    <3>3. QED BY <3>1, <3>2, IdleCarriesNothing, GotoKeepsAnchors
  <2>4. QED BY <2>2, <2>3
<1>6. CASE RequestRelease(t)
  <2>1. Attempt(c, "RELEASE_APPROVAL") /\ Goto(t, IdleThread)
    BY <1>6 DEF RequestRelease, Done
  <2>2. CasesGrow
    BY <1>1, <1>2, <2>1, AttemptGrows
  <2>3. QED BY <2>1, <2>2, IdleCarriesNothing, GotoKeepsAnchors
<1>7. QED BY <1>3, <1>4, <1>5, <1>6

\* Threads that do not move, while the rows grow.
LEMMA StandingKeepsAnchors ==
    ASSUME TypesOK, AnchorsOK, CasesGrow, UNCHANGED threads
    PROVE  AnchorsOK'
<1>1. \A c \in Cases : CaseAnchored(cases'[c])
  BY GrownIsAnchored DEF AnchorsOK, CasesGrow
<1>2. QED BY <1>1, ThreadStays DEF AnchorsOK

LEMMA StoreRequestKeepsAnchors ==
    ASSUME TypesOK, AnchorsOK, StoreRequest
    PROVE  AnchorsOK'
<1>0. StoreTypeOK /\ UNCHANGED threads
  BY DEF TypesOK, OrchTypeOK, StoreRequest
<1>1. ASSUME NEW c, NEW id, NEW action, IssueGrant(id, c, action) PROVE CasesGrow
  BY <1>1, NoRowChanges DEF IssueGrant
<1>2. ASSUME NEW g \in grants, ConsumeGrant(g) \/ ExpireGrant(g) PROVE CasesGrow
  BY <1>0, <1>2, GrantGrows, NoRowChanges DEF ExpireGrant
<1>3. ASSUME NEW c \in Cases, CloseCase(c) \/ Cancel(c) PROVE CasesGrow
  BY <1>0, <1>3, ServiceActionGrows
<1>4. CasesGrow
  BY <1>1, <1>2, <1>3 DEF StoreRequest
<1>5. QED BY <1>0, <1>4, StandingKeepsAnchors

LEMMA InitAnchorsOK == Init => AnchorsOK
BY IdleCarriesNothing
DEF Init, StoreInit, NewCase, AnchorsOK, CaseAnchored, ReleasePath, Absent

LEMMA StepAnchorsOK == TypesOK /\ AnchorsOK /\ [Next]_vars => AnchorsOK'
<1> SUFFICES ASSUME TypesOK, AnchorsOK, [Next]_vars PROVE AnchorsOK'
  OBVIOUS
<1>0. StoreTypeOK
  BY DEF TypesOK, OrchTypeOK
<1>1. ASSUME NEW t \in Threads, NewRequest(t) \/ ThreadStep(t) PROVE AnchorsOK'
  BY <1>1, RequestKeepsAnchors, ReadStepKeepsAnchors, MoveKeepsAnchors, ConsumeKeepsAnchors
  DEF ThreadStep
<1>2. CASE StoreRequest
  BY <1>2, StoreRequestKeepsAnchors
<1>3. CASE Crash
  BY <1>3, IdleCarriesNothing DEF Crash, AnchorsOK, storeVars
<1>4. CASE Recovery
  <2>1. ASSUME NEW c \in Cases, SweepCase(c) PROVE CasesGrow
    BY <1>0, <2>1, AttemptGrows, NoRowChanges DEF SweepCase, storeVars
  <2>2. CasesGrow /\ UNCHANGED threads
    BY <1>4, <2>1, NoRowChanges DEF Recovery, FailStaleRun, SweepCase, StartServing, storeVars
  <2>3. QED BY <2>2, StandingKeepsAnchors
<1>5. CASE UNCHANGED vars
  BY <1>5, NoRowChanges, StandingKeepsAnchors DEF vars, storeVars
<1>6. QED BY <1>1, <1>2, <1>3, <1>4, <1>5 DEF Next

\* Whatever an Agent claims and however requests, retries and crashes interleave, a
\* Case has a patch anchor, and is on the release path, only if one of its sources
\* enabled a trusted repair.
THEOREM AnchorsAreTrusted == Spec => []TrustedAnchor
<1>1. Init => AnchorsOK
  BY InitAnchorsOK
<1>2. AnchorsOK => TrustedAnchor
  BY DEF AnchorsOK, CaseAnchored, Anchored, ReleasePath, TrustedAnchor
<1>3. QED
  BY <1>1, <1>2, InitTypesOK, StepTypesOK, StepAnchorsOK, PTL DEF Spec
=============================================================================
