--------------------------- MODULE LifecycleProofs ---------------------------
(***************************************************************************)
(* What the people around a Case may rely on, for any number of threads and  *)
(* Cases: a first repair has its plan approval, a Case follows the lifecycle   *)
(* of CaseLifecycle, no race or crash leaves it half way, and one request at a  *)
(* time releases only what the gate has passed.                                *)
(***************************************************************************)
EXTENDS OrchestratorProofs

-----------------------------------------------------------------------------
(* Where the target of a thread comes from *)

\* A thread goes for REPAIRING or VERIFYING because its Case is there, or because it
\* already did; VERIFYING also follows its own REPAIRING.
Carried(t, row) ==
    row.target \in {"REPAIRING", "VERIFYING"} =>
        /\ row.case = threads[t].case
        /\ row.case \in Cases
        /\ \/ threads[t].target = row.target
           \/ cases[row.case].status = row.target
           \/ threads[t].target = "REPAIRING"

LEMMA NoTargetCarried ==
    ASSUME NEW t, NEW row, row.target \notin {"REPAIRING", "VERIFYING"}
    PROVE  Carried(t, row)
BY DEF Carried

LEMMA CallingTarget ==
    ASSUME NEW c, NEW s
    PROVE  /\ Calling(c, s).target = s /\ Calling(c, s).case = c
           /\ Calling(c, s).pc = "advance"
           /\ IdleThread.target = NoTarget /\ IdleThread.pc = "idle" /\ IdleThread.case = NoCase
BY DEF Calling, IdleThread

LEMMA RequestTarget ==
    ASSUME NEW t \in Threads, NewRequest(t)
    PROVE  \E row : Goto(t, row) /\ Carried(t, row)
<1>1. ASSUME NEW c \in Cases, Intake(t, c) PROVE \E row : Goto(t, row) /\ Carried(t, row)
  BY <1>1, CallingTarget, NoTargetCarried DEF Intake
<1> DEFINE resuming(c) == [IdleThread EXCEPT !.pc = "resume", !.case = c]
<1>2. \A c : resuming(c).target \notin {"REPAIRING", "VERIFYING"}
  BY DEF IdleThread, NoTarget
<1>3. ASSUME NEW c, Goto(t, resuming(c)) PROVE \E row : Goto(t, row) /\ Carried(t, row)
  BY <1>2, <1>3, NoTargetCarried
<1>4. QED BY <1>1, <1>3 DEF NewRequest, Retry, ApprovePlan

LEMMA ThreadTarget ==
    ASSUME TypesOK, NEW t \in Threads, ThreadStep(t)
    PROVE  \E row : Goto(t, row) /\ Carried(t, row)
<1> DEFINE Holds == \E row : Goto(t, row) /\ Carried(t, row)
           old == threads[t]
<1>0. old \in ThreadRow /\ (old.pc # "idle" => old.case \in Cases)
  BY DEF TypesOK, OrchTypeOK, ThreadsReady, RowReady
<1>1. ASSUME NEW row, Goto(t, row), row.target = old.target, row.case = old.case, old.pc # "idle"
      PROVE  Holds
  BY <1>0, <1>1 DEF Carried
<1>2. ASSUME Done(t) PROVE Holds
  BY <1>2, CallingTarget, NoTargetCarried DEF Done, NoTarget
<1>3. CASE RunActiveState(t)
  <2>1. CASE StatusOf(t) \in AGENT_ACTIVE_STATES
    <3> DEFINE row == Calling(old.case, StatusOf(t))
    <3>1. Goto(t, row) /\ row.case = old.case /\ row.target = cases[old.case].status
      BY <1>3, <2>1, CallingTarget DEF RunActiveState, StatusOf
    <3>2. old.case \in Cases
      BY <1>0, <1>3 DEF RunActiveState, At
    <3>3. Carried(t, row)
      BY <3>1, <3>2 DEF Carried
    <3>4. QED BY <3>1, <3>3
  <2>2. QED BY <1>2, <1>3, <2>1 DEF RunActiveState
<1>4. CASE ReadCase(t)
  <2> DEFINE next == [old EXCEPT !.seen = [patch_ref   |-> cases[old.case].patch_ref,
                                           sandbox_ref |-> cases[old.case].sandbox_ref]]
             locking == [next EXCEPT !.pc = "lock"]
             moving == [next EXCEPT !.pc = "transition"]
  <2>1. /\ locking.target = old.target /\ locking.case = old.case
        /\ moving.target = old.target /\ moving.case = old.case
    BY <1>0 DEF ThreadRow
  <2>2. Goto(t, locking) \/ Goto(t, moving) \/ Done(t)
    BY <1>4 DEF ReadCase, Done
  <2>3. old.pc # "idle"
    BY <1>4 DEF ReadCase, At
  <2> HIDE DEF locking, moving
  <2>4. QED BY <1>1, <1>2, <2>1, <2>2, <2>3
<1>5. CASE \/ Move(t) \/ TakeLock(t) \/ Dispatch(t) \/ DispatchRefused(t)
         \/ AgentReturns(t) \/ FinishRaises(t)
  <2> DEFINE at(pc) == [old EXCEPT !.pc = pc]
             working(ctx) == [old EXCEPT !.pc = "agent", !.ctx = ctx]
             returned(res, p) == [old EXCEPT !.pc = "consume", !.result = res, !.patch = p]
             failed == [old EXCEPT !.pc = "consume", !.result = "failed"]
  <2>1. /\ \A pc : at(pc).target = old.target /\ at(pc).case = old.case
        /\ \A ctx : working(ctx).target = old.target /\ working(ctx).case = old.case
        /\ \A res, p : returned(res, p).target = old.target /\ returned(res, p).case = old.case
        /\ failed.target = old.target /\ failed.case = old.case
    BY <1>0 DEF ThreadRow
  <2>2. \/ \E pc : Goto(t, at(pc))
        \/ \E ctx : Goto(t, working(ctx))
        \/ \E res, p : Goto(t, returned(res, p))
        \/ Goto(t, failed)
        \/ Done(t)
    BY <1>5 DEF Move, TakeLock, ReturnUnlocked, Dispatch, DispatchRefused, AgentReturns,
       FinishRaises, AnswerFailed
  <2>3. old.pc # "idle"
    BY <1>5 DEF Move, TakeLock, Dispatch, DispatchRefused, AgentReturns, FinishRaises, At
  <2> HIDE DEF at, working, returned, failed
  <2>4. QED BY <1>1, <1>2, <2>1, <2>2, <2>3
<1>6. CASE ConsumeHandoff(t)
  BY <1>6, CallingTarget, NoTargetCarried DEF ConsumeHandoff, NoTarget
<1>7. CASE ConsumeRepair(t)
  <2>1. old.case \in Cases /\ old.target = "REPAIRING"
    BY <1>0, <1>7 DEF ConsumeRepair, At
  <2>2. Goto(t, Calling(old.case, "VERIFYING")) \/ Done(t)
    BY <1>7 DEF ConsumeRepair
  <2>3. ASSUME Goto(t, Calling(old.case, "VERIFYING")) PROVE Holds
    <3>1. Carried(t, Calling(old.case, "VERIFYING"))
      BY <2>1, CallingTarget DEF Carried
    <3>2. QED BY <2>3, <3>1
  <2>4. QED BY <1>2, <2>2, <2>3
<1>8. CASE ConsumeVerification(t)
  <2> DEFINE row == [old EXCEPT !.pc = "release"]
  <2>1. row.target = old.target /\ row.case = old.case
    BY <1>0 DEF ThreadRow
  <2>2. Goto(t, row) \/ Done(t)
    BY <1>8 DEF ConsumeVerification
  <2>3. old.pc # "idle"
    BY <1>8 DEF ConsumeVerification, At
  <2> HIDE DEF row
  <2>4. QED BY <1>1, <1>2, <2>1, <2>2, <2>3
<1>9. CASE RequestRelease(t)
  BY <1>2, <1>9 DEF RequestRelease
<1>10. QED BY <1>3, <1>4, <1>5, <1>6, <1>7, <1>8, <1>9 DEF ThreadStep

-----------------------------------------------------------------------------
(* What a step of the store does to statuses, rounds and the audit trail *)

Same(c) == cases'[c].status = cases[c].status /\ cases'[c].round = cases[c].round
OthersSame(c) == \A d \in Cases \ {c} : Same(d)

\* A row is about a filed Case and of no round to come, and after a cancel a Case
\* stays escalated or is closed until its round is over.
TrailOK ==
    \A a \in approvals :
        /\ cases[a.case].status # Absent
        /\ a.round <= cases[a.case].round
        /\ a.action = "cancel" /\ a.round = cases[a.case].round =>
              cases[a.case].status \in {"ESCALATED", "CLOSED"}

Rests == UNCHANGED approvals /\ \A c \in Cases : Same(c)

Files(c) ==
    /\ cases[c].status = Absent
    /\ cases'[c].status = "RECEIVED" /\ cases'[c].round = 0
    /\ UNCHANGED approvals /\ OthersSame(c)

\* The move of a status that a row records, and the round it counts for.
GrantedMove(c, row) ==
    /\ row.action \in ALL_GRANTED_ACTIONS
    /\ cases[c].status = GateState(row.action)
    /\ cases'[c].status = DecidedState(row.action)
    /\ cases'[c].round = cases[c].round
ServiceMove(c, row) ==
    \/ /\ row.action = "close_case" /\ cases'[c].status = "CLOSED"
       /\ cases'[c].round = cases[c].round
    \/ /\ row.action = "cancel" /\ cases'[c].status = "ESCALATED"
       /\ cases'[c].round = cases[c].round
    \/ /\ row.action = "retry_repair" /\ cases'[c].status = "REPAIRING"
       /\ cases'[c].round = cases[c].round + 1
Decides(c, row) ==
    /\ row \notin approvals
    /\ approvals' = approvals \cup {row}
    /\ row.case = c /\ row.round = cases'[c].round
    /\ is_valid_transition(cases[c].status, cases'[c].status)
    /\ GrantedMove(c, row) \/ ServiceMove(c, row)
    /\ OthersSame(c)

Moves(c, s) ==
    /\ is_valid_transition(cases[c].status, s)
    /\ cases'[c].status = s
    /\ cases'[c].round = IF s = "REPAIRING" THEN cases[c].round + 1 ELSE cases[c].round
    /\ UNCHANGED approvals /\ OthersSame(c)

\* A step that replaces the row of one Case.
LEMMA OneRowOnly ==
    ASSUME StoreTypeOK, NEW c \in Cases, NEW new, cases' = [cases EXCEPT ![c] = new]
    PROVE  /\ cases'[c] = new
           /\ OthersSame(c)
           /\ new.status = cases[c].status /\ new.round = cases[c].round => \A d \in Cases : Same(d)
BY DEF StoreTypeOK, OthersSame, Same

\* The methods a request calls by itself.
LEMMA RequestAlone ==
    ASSUME StoreTypeOK, GrantsOK, ClosingsOK, TrailOK, NEW c \in Cases,
           \/ \E base \in Commits \cup {NoRef}, trusted \in BOOLEAN : CreateCase(c, base, trusted)
           \/ \E trusted \in BOOLEAN : LinkSource(c, trusted)
           \/ \E id \in GrantIds, action \in ALL_GRANTED_ACTIONS : IssueGrant(id, c, action)
           \/ CloseCase(c) \/ RetryRepair(c) \/ Cancel(c)
    PROVE  Rests \/ Files(c) \/ \E row : Decides(c, row)
<1> DEFINE Kinds == Rests \/ Files(c) \/ \E row : Decides(c, row)
<1>0. cases[c] \in CaseRow
  BY DEF StoreTypeOK
<1>1. ASSUME NEW base \in Commits \cup {NoRef}, NEW trusted \in BOOLEAN,
             CreateCase(c, base, trusted)
      PROVE  Kinds
  <2> DEFINE new == [NewCase EXCEPT !.status = "RECEIVED", !.base_commit = base, !.trusted = trusted]
  <2>1. new.status = "RECEIVED" /\ new.round = 0
    BY DEF NewCase
  <2>2. cases' = [cases EXCEPT ![c] = new] /\ UNCHANGED approvals /\ cases[c].status = Absent
    BY <1>1 DEF CreateCase
  <2> HIDE DEF new
  <2>3. QED BY <2>1, <2>2, OneRowOnly DEF Files
<1>2. ASSUME NEW trusted \in BOOLEAN, LinkSource(c, trusted) PROVE Kinds
  <2> DEFINE new == [cases[c] EXCEPT !.trusted = @ \/ trusted]
  <2>1. new.status = cases[c].status /\ new.round = cases[c].round
    BY <1>0 DEF CaseRow
  <2>2. cases' = [cases EXCEPT ![c] = new] /\ UNCHANGED approvals
    BY <1>2 DEF LinkSource
  <2> HIDE DEF new
  <2>3. QED BY <2>1, <2>2, OneRowOnly DEF Rests
<1>3. ASSUME NEW id \in GrantIds, NEW action \in ALL_GRANTED_ACTIONS, IssueGrant(id, c, action)
      PROVE  Kinds
  BY <1>3 DEF IssueGrant, Rests, Same
<1>4. CASE CloseCase(c)
  <2> DEFINE new == Moved(cases[c], "CLOSED", NoAction, TRUE)
             row == Approval(c, "close_case", NoGrant, NoRef)
  <2>1. new.status = "CLOSED" /\ new.round = cases[c].round
    BY <1>0 DEF Moved, CaseRow
  <2>2. row.case = c /\ row.action = "close_case" /\ row.round = cases[c].round
    BY DEF Approval
  <2>3. is_valid_transition(cases[c].status, "CLOSED") /\ row \notin approvals
    BY <1>4, <2>2, DeadEnds DEF CloseCase, ClosingsOK
  <2>4. cases' = [cases EXCEPT ![c] = new] /\ approvals' = approvals \cup {row}
    BY <1>4 DEF CloseCase, Record
  <2> HIDE DEF new, row
  <2>5. Decides(c, row)
    BY <2>1, <2>2, <2>3, <2>4, OneRowOnly DEF Decides, ServiceMove
  <2>6. QED BY <2>5
<1>5. CASE RetryRepair(c)
  <2> DEFINE new == NextRound(Moved(cases[c], "REPAIRING", NoAction, FALSE))
             row == NextRound(Approval(c, "retry_repair", NoGrant, NoRef))
  <2>1. new.status = "REPAIRING" /\ new.round = cases[c].round + 1
    BY <1>0 DEF Moved, NextRound, CaseRow
  <2>2. row.case = c /\ row.action = "retry_repair" /\ row.round = cases[c].round + 1
    BY DEF Approval, NextRound
  <2>3. cases[c].round \in Nat
    BY <1>0 DEF CaseRow
  <2>4. cases' = [cases EXCEPT ![c] = new] /\ approvals' = approvals \cup {row}
        /\ is_valid_transition(cases[c].status, "REPAIRING")
    BY <1>5 DEF RetryRepair, Record
  <2> HIDE DEF new, row
  <2>5. row \notin approvals
    BY <2>2, <2>3 DEF TrailOK
  <2>6. Decides(c, row)
    BY <2>1, <2>2, <2>4, <2>5, OneRowOnly DEF Decides, ServiceMove
  <2>7. QED BY <2>6
<1>6. CASE Cancel(c)
  <2> DEFINE new == Moved(cases[c], "ESCALATED", NoAction, cases[c].closed)
             row == Approval(c, "cancel", NoGrant, NoRef)
  <2>1. new.status = "ESCALATED" /\ new.round = cases[c].round
    BY <1>0 DEF Moved, CaseRow
  <2>2. row.case = c /\ row.action = "cancel" /\ row.round = cases[c].round
    BY DEF Approval
  <2>3. is_valid_transition(cases[c].status, "ESCALATED")
    BY <1>6 DEF Cancel
  <2>4. cases[c].status \notin {"ESCALATED", "CLOSED"}
    BY <2>3 DEF is_valid_transition, TRANSITIONS
  <2>5. cases' = [cases EXCEPT ![c] = new] /\ approvals' = approvals \cup {row}
    BY <1>6 DEF Cancel, Record
  <2> HIDE DEF new, row
  <2>6. row \notin approvals
    BY <2>2, <2>4 DEF TrailOK
  <2>7. Decides(c, row)
    BY <2>1, <2>2, <2>3, <2>5, <2>6, OneRowOnly DEF Decides, ServiceMove
  <2>8. QED BY <2>7
<1>7. QED BY <1>1, <1>2, <1>3, <1>4, <1>5, <1>6

LEMMA TransitionMoves ==
    ASSUME StoreTypeOK, NEW c \in Cases, NEW s, transition_case(c, s)
    PROVE  Moves(c, s)
<1> DEFINE moved == Moved(cases[c], s, PendingArgument(s), Closes(s))
           new == IF s = "REPAIRING" THEN NextRound(moved) ELSE moved
<1>1. /\ new.status = s
      /\ new.round = IF s = "REPAIRING" THEN cases[c].round + 1 ELSE cases[c].round
  BY DEF Moved, NextRound, CaseRow, StoreTypeOK
<1>2. cases' = [cases EXCEPT ![c] = new] /\ is_valid_transition(cases[c].status, s)
      /\ UNCHANGED approvals
  BY DEF transition_case
<1> HIDE DEF new
<1>3. QED BY <1>1, <1>2, OneRowOnly DEF Moves

LEMMA CaseAlone ==
    ASSUME StoreTypeOK, GrantsOK, ClosingsOK, TrailOK, NEW c \in Cases, CaseMethod(c)
    PROVE  \/ Rests
           \/ Files(c)
           \/ \E row : Decides(c, row)
           \/ \E s \in OrchestratorTargets : Moves(c, s)
<1>0. cases[c] \in CaseRow
  BY DEF StoreTypeOK
<1>1. ASSUME NEW s \in OrchestratorTargets, transition_case(c, s) PROVE Moves(c, s)
  BY <1>1, TransitionMoves
<1>2. ASSUME NEW p \in Patches, NEW q \in Patches, set_patch_context(c, p, q) PROVE Rests
  <2> DEFINE new == [cases[c] EXCEPT !.patch_ref = p, !.sandbox_ref = q]
  <2>1. new.status = cases[c].status /\ new.round = cases[c].round
    BY <1>0 DEF CaseRow
  <2>2. cases' = [cases EXCEPT ![c] = new] /\ UNCHANGED approvals
    BY <1>2 DEF set_patch_context
  <2> HIDE DEF new
  <2>3. QED BY <2>1, <2>2, OneRowOnly DEF Rests
<1>3. ASSUME NEW p \in Patches, set_patch_ref(c, p) PROVE Rests
  <2> DEFINE new == [cases[c] EXCEPT !.patch_ref = p]
  <2>1. new.status = cases[c].status /\ new.round = cases[c].round
    BY <1>0 DEF CaseRow
  <2>2. cases' = [cases EXCEPT ![c] = new] /\ UNCHANGED approvals
    BY <1>3 DEF set_patch_ref
  <2> HIDE DEF new
  <2>3. QED BY <2>1, <2>2, OneRowOnly DEF Rests
<1>4. QED BY <1>1, <1>2, <1>3, RequestAlone DEF CaseMethod

LEMMA GrantAlone ==
    ASSUME StoreTypeOK, GrantsOK, NEW g \in grants, GrantMethod(g)
    PROVE  Rests \/ \E row : Decides(g.case, row)
<1>1. CASE ExpireGrant(g)
  BY <1>1 DEF ExpireGrant, Rests, Same
<1>2. CASE ConsumeGrant(g)
  <2> DEFINE c == g.case
             new == Moved(cases[c], DecidedState(g.action), NoAction, cases[c].closed)
             row == Approval(c, g.action, g.id, g.target_ref)
  <2>1. c \in Cases /\ g.action \in ALL_GRANTED_ACTIONS /\ cases[c] \in CaseRow
    BY DEF StoreTypeOK, GrantRow
  <2>2. new.status = DecidedState(g.action) /\ new.round = cases[c].round
    BY <2>1 DEF Moved, CaseRow
  <2>3. row.case = c /\ row.action = g.action /\ row.grant = g.id /\ row.round = cases[c].round
    BY DEF Approval
  <2>4. row \notin approvals
    BY <1>2, <2>3 DEF ConsumeGrant, GrantsOK, GrantSpentOnce
  <2>5. cases' = [cases EXCEPT ![c] = new] /\ approvals' = approvals \cup {row}
        /\ cases[c].status = GateState(g.action)
    BY <1>2 DEF ConsumeGrant, Record, AwaitsDecision
  <2>6. is_valid_transition(GateState(g.action), DecidedState(g.action))
    BY <2>1 DEF is_valid_transition, TRANSITIONS, GateState, DecidedState,
       ALL_GRANTED_ACTIONS, APPROVAL_ACTIONS, REJECT_ACTIONS
  <2> HIDE DEF new, row, c
  <2>7. Decides(c, row)
    BY <2>1, <2>2, <2>3, <2>4, <2>5, <2>6, OneRowOnly DEF Decides, GrantedMove
  <2>8. QED BY <2>7 DEF c
<1>3. QED BY <1>1, <1>2 DEF GrantMethod

Kind ==
    \/ Rests
    \/ \E c \in Cases : \/ Files(c)
                        \/ \E row : Decides(c, row)
                        \/ \E s \in OrchestratorTargets : Moves(c, s)

LEMMA StoreStepKinds ==
    ASSUME StoreTypeOK, GrantsOK, ClosingsOK, TrailOK, [StoreNext]_storeVars
    PROVE  Kind
<1>1. ASSUME NEW g \in grants, GrantMethod(g) PROVE Kind
  <2>1. g.case \in Cases
    BY DEF StoreTypeOK, GrantRow
  <2>2. QED BY <1>1, <2>1, GrantAlone DEF Kind
<1>2. CASE UNCHANGED storeVars
  BY <1>2 DEF storeVars, Rests, Same, Kind
<1>3. QED BY <1>1, <1>2, CaseAlone DEF StoreNext, Kind

LEMMA StepTrailOK ==
    ASSUME StoreTypeOK, TrailOK, Kind, [StoreNext]_storeVars
    PROVE  TrailOK'
<1>0. \A a \in approvals : a.case \in Cases /\ a.round \in Nat
  BY DEF StoreTypeOK, ApprovalRow
<1>1. \A c \in Cases : cases[c].round \in Nat
  BY DEF StoreTypeOK, CaseRow
<1>2. CASE Rests
  BY <1>0, <1>2 DEF Rests, Same, TrailOK
<1>3. ASSUME NEW c \in Cases, Files(c) PROVE TrailOK'
  <2>1. \A a \in approvals : a.case # c
    BY <1>3 DEF Files, TrailOK
  <2>2. QED BY <1>0, <1>3, <2>1 DEF Files, OthersSame, Same, TrailOK
<1>4. ASSUME NEW c \in Cases, NEW s \in OrchestratorTargets, Moves(c, s) PROVE TrailOK'
  <2>1. cases[c].status = "ESCALATED" /\ s # "REPAIRING" => s = "CLOSED"
    BY <1>4 DEF Moves, is_valid_transition, TRANSITIONS
  <2>2. cases[c].status # "CLOSED" /\ s # Absent
    BY <1>4, DeadEnds DEF Moves
  <2>3. QED BY <1>0, <1>1, <1>4, <2>1, <2>2 DEF Moves, OthersSame, Same, TrailOK
<1>5. ASSUME NEW c \in Cases, NEW row, Decides(c, row) PROVE TrailOK'
  <2>1. cases[c].status = "ESCALATED" =>
           cases'[c].status = "CLOSED" \/ cases'[c].round = cases[c].round + 1
    BY <1>5 DEF Decides, GrantedMove, ServiceMove, is_valid_transition, TRANSITIONS, GateState
  <2>2. cases[c].status # "CLOSED" /\ cases'[c].status # Absent
    BY <1>5, DeadEnds DEF Decides
  <2>3. cases'[c].round \in {cases[c].round, cases[c].round + 1}
        /\ (row.action = "cancel" => cases'[c].status = "ESCALATED")
    BY <1>5 DEF Decides, GrantedMove, ServiceMove, ALL_GRANTED_ACTIONS, APPROVAL_ACTIONS,
       REJECT_ACTIONS
  <2>4. \A a \in approvals : a.case = c =>
           /\ a.round <= cases'[c].round
           /\ a.action = "cancel" /\ a.round = cases'[c].round =>
                 cases'[c].status \in {"ESCALATED", "CLOSED"}
    BY <1>0, <1>1, <2>1, <2>2, <2>3 DEF TrailOK
  <2>5. cases'[c].round \in Nat
    BY <1>1, <2>3
  <2> DEFINE Fine(a) == /\ cases'[a.case].status # Absent
                        /\ a.round <= cases'[a.case].round
                        /\ a.action = "cancel" /\ a.round = cases'[a.case].round =>
                              cases'[a.case].status \in {"ESCALATED", "CLOSED"}
  <2>6. Fine(row) /\ approvals' = approvals \cup {row}
    BY <1>5, <2>2, <2>3, <2>5 DEF Decides
  <2>7. ASSUME NEW a \in approvals PROVE Fine(a)
    <3>1. CASE a.case = c
      BY <2>2, <2>4, <3>1
    <3>2. CASE a.case # c
      BY <1>0, <1>5, <3>2 DEF Decides, OthersSame, Same, TrailOK
    <3>3. QED BY <3>1, <3>2
  <2>8. QED BY <2>6, <2>7 DEF TrailOK
<1>6. QED BY <1>2, <1>3, <1>4, <1>5 DEF Kind

\* What the tables satisfy besides their types.
TablesOK == GrantsOK /\ ClosingsOK /\ TrailOK

LEMMA InitTablesOK == Init => TablesOK
BY DEF Init, StoreInit, TablesOK, GrantsOK, GrantIdsUnique, GrantSpentOnce, ClosingsOK, TrailOK

LEMMA StepTablesOK ==
    ASSUME TypesOK, TablesOK, [Next]_vars
    PROVE  TablesOK' /\ Kind /\ [StoreNext]_storeVars
<1>1. StoreTypeOK /\ [StoreNext]_storeVars
  BY StepIsStoreStep DEF TypesOK, OrchTypeOK
<1>2. Kind
  BY <1>1, StoreStepKinds DEF TablesOK
<1>3. QED BY <1>1, <1>2, StepGrantsOK, StepClosingsOK, StepTrailOK DEF TablesOK

-----------------------------------------------------------------------------
(* A first repair has its plan approval *)

\* Whoever goes for a repair or its verification, the plan of the Case is decided.
ThreadsPast ==
    \A t \in Threads :
        threads[t].target \in {"REPAIRING", "VERIFYING"} =>
            threads[t].case \in Cases /\ cases[threads[t].case].status \in PlanDecided

\* The next row of a thread, whoever moves.
LEMMA NextThreads ==
    ASSUME TypesOK, ThreadsPast, [Next]_vars, NEW t \in Threads
    PROVE  Carried(t, threads'[t])
<1>0. threads \in [Threads -> ThreadRow]
  BY DEF TypesOK, OrchTypeOK
<1>1. ASSUME threads'[t] = threads[t] PROVE Carried(t, threads'[t])
  BY <1>1 DEF Carried, ThreadsPast
<1>2. ASSUME NEW u \in Threads, NEW row, Goto(u, row), Carried(u, row)
      PROVE  Carried(t, threads'[t])
  <2>1. CASE t = u
    BY <1>0, <1>2, <2>1 DEF Goto
  <2>2. CASE t # u
    BY <1>0, <1>1, <1>2, <2>2 DEF Goto
  <2>3. QED BY <2>1, <2>2
<1>3. ASSUME NEW u \in Threads, NewRequest(u) \/ ThreadStep(u) PROVE Carried(t, threads'[t])
  BY <1>2, <1>3, RequestTarget, ThreadTarget
<1>4. CASE Crash
  BY <1>4, CallingTarget, NoTargetCarried DEF Crash, NoTarget
<1>5. CASE StoreRequest \/ Recovery \/ UNCHANGED vars
  BY <1>1, <1>5 DEF StoreRequest, Recovery, FailStaleRun, SweepCase, StartServing, vars
<1>6. QED BY <1>3, <1>4, <1>5 DEF Next

LEMMA StepThreadsPast ==
    ASSUME TypesOK, ThreadsPast, [Next]_vars
    PROVE  ThreadsPast'
<1> SUFFICES ASSUME NEW t \in Threads, threads'[t].target \in {"REPAIRING", "VERIFYING"}
             PROVE  /\ threads'[t].case \in Cases
                    /\ cases'[threads'[t].case].status \in PlanDecided
  BY DEF ThreadsPast
<1> DEFINE c == threads'[t].case
<1>1. c \in Cases /\ cases[c].status \in PlanDecided
  BY NextThreads DEF Carried, ThreadsPast, PlanDecided
<1>2. [StoreNext]_storeVars /\ StoreTypeOK
  BY StepIsStoreStep DEF TypesOK, OrchTypeOK
<1>3. cases[c].status # Absent
  BY <1>1 DEF PlanDecided, Absent
<1>4. QED BY <1>1, <1>2, <1>3, StatusMoves, NoWayBack

PlanApproved(c) ==
    \E a \in approvals : a.case = c /\ a.round = 0 /\ a.action = "approve_plan"

\* A Case in its first repair, and a thread that goes for one, have the approval.
AuthorisedOK ==
    /\ \A c \in Cases :
          cases[c].status = "REPAIRING" /\ cases[c].round = 0 => PlanApproved(c)
    /\ \A t \in Threads :
          threads[t].target = "REPAIRING" /\ cases[threads[t].case].round = 0 =>
              PlanApproved(threads[t].case)
    /\ RepairIsAuthorised

\* No row is taken back, and only the filing of a Case starts a round at 0.
LEMMA TrailGrows ==
    ASSUME TypesOK, Kind
    PROVE  /\ approvals \subseteq approvals'
           /\ \A c \in Cases : cases[c].status # Absent => cases[c].round <= cases'[c].round
<1>1. \A c \in Cases : cases[c].round \in Nat
  BY DEF TypesOK, OrchTypeOK, StoreTypeOK, CaseRow
<1>2. QED BY <1>1 DEF Kind, Rests, Files, Decides, GrantedMove, ServiceMove, Moves, OthersSame, Same

LEMMA FirstRepair ==
    ASSUME TypesOK, Kind, NEW c \in Cases,
           cases[c].status = "REPAIRING" /\ cases[c].round = 0 => PlanApproved(c),
           cases'[c].status = "REPAIRING", cases'[c].round = 0
    PROVE  PlanApproved(c)'
<1>0. cases[c].round \in Nat
  BY DEF TypesOK, OrchTypeOK, StoreTypeOK, CaseRow
<1>1. CASE Same(c)
  BY <1>1, TrailGrows DEF Same, PlanApproved
<1>2. ASSUME NEW d \in Cases, d # c, OthersSame(d) PROVE Same(c)
  BY <1>2 DEF OthersSame
<1>3. ASSUME NEW row, Decides(c, row) PROVE PlanApproved(c)'
  <2>1. row.action \in ALL_GRANTED_ACTIONS /\ DecidedState(row.action) = "REPAIRING"
    BY <1>0, <1>3 DEF Decides, GrantedMove, ServiceMove
  <2>2. row.action = "approve_plan"
    BY <2>1 DEF DecidedState, ALL_GRANTED_ACTIONS, APPROVAL_ACTIONS, REJECT_ACTIONS
  <2>3. QED BY <1>3, <2>2 DEF Decides, PlanApproved
<1>4. ASSUME NEW s, Moves(c, s) PROVE FALSE
  BY <1>0, <1>4 DEF Moves
<1>5. CASE Rests
  BY <1>1, <1>5 DEF Rests
<1>6. ASSUME NEW d \in Cases,
             Files(d) \/ (\E row : Decides(d, row)) \/ \E s \in OrchestratorTargets : Moves(d, s)
      PROVE  PlanApproved(c)'
  <2>1. CASE d = c
    BY <1>3, <1>4, <1>6, <2>1 DEF Files
  <2>2. CASE d # c
    BY <1>1, <1>2, <1>6, <2>2 DEF Files, Decides, Moves
  <2>3. QED BY <2>1, <2>2
<1>7. QED BY <1>5, <1>6 DEF Kind

\* Where the run rows of the next state come from.
Runs == runningRuns \cup finishedRuns \cup unrecorded

LEMMA NextRuns ==
    ASSUME TypesOK, [Next]_vars, NEW r \in Runs'
    PROVE  \/ \E q \in Runs :
                 q.case = r.case /\ q.state = r.state /\ q.round = r.round
           \/ \E t \in Threads : /\ r.case = threads[t].case /\ r.state = threads[t].target
                                 /\ r.round = cases[threads[t].case].round
<1> DEFINE Old == \E q \in Runs :
                     q.case = r.case /\ q.state = r.state /\ q.round = r.round
<1>1. CASE UNCHANGED <<runningRuns, finishedRuns, unrecorded>>
  BY <1>1 DEF Runs
<1>2. ASSUME NEW t \in Threads, Dispatch(t) \/ DispatchRefused(t), ~Old
      PROVE  /\ r.case = threads[t].case /\ r.state = threads[t].target
             /\ r.round = cases[threads[t].case].round
  BY <1>2 DEF Dispatch, DispatchRefused, NewRun, Unrecorded, Runs
<1>3. ASSUME NEW t \in Threads, AgentReturns(t) \/ FinishRaises(t) PROVE Old
  <2>1. CASE AgentReturns(t)
    BY <2>1 DEF AgentReturns, finish_agent_run, Finished, Runs
  <2>2. CASE FinishRaises(t)
    BY <2>2 DEF FinishRaises, Unrecorded, Runs
  <2>3. QED BY <1>3, <2>1, <2>2
<1>4. ASSUME NEW q \in LeftRunning, FailStaleRun(q) PROVE Old
  BY <1>4 DEF FailStaleRun, LeftRunning, Finished, Runs
<1>5. ASSUME NEW t \in Threads, NewRequest(t) \/ ThreadStep(t)
      PROVE  \/ Dispatch(t) \/ DispatchRefused(t) \/ AgentReturns(t) \/ FinishRaises(t)
             \/ UNCHANGED <<runningRuns, finishedRuns, unrecorded>>
  BY <1>5 DEF NewRequest, ThreadStep, Intake, Retry, ApprovePlan, RunActiveState, ReadCase, Move,
     TakeLock, ConsumeHandoff, ConsumeRepair, ConsumeVerification, RequestRelease, runVars
<1>6. QED
  BY <1>1, <1>2, <1>3, <1>4, <1>5
  DEF Next, StoreRequest, Crash, Recovery, SweepCase, StartServing, runVars, vars

LEMMA StepAuthorisedOK ==
    ASSUME TypesOK, ThreadsPast, Kind, AuthorisedOK, [Next]_vars
    PROVE  AuthorisedOK'
<1>0. /\ \A c \in Cases : cases[c].round \in Nat /\ cases'[c].round \in Nat
      /\ \A c : PlanApproved(c) => PlanApproved(c)'
  BY StepTypesOK, TrailGrows DEF TypesOK, OrchTypeOK, StoreTypeOK, CaseRow, PlanApproved
<1>1. ASSUME NEW c \in Cases, cases'[c].status = "REPAIRING", cases'[c].round = 0
      PROVE  PlanApproved(c)'
  BY <1>1, FirstRepair DEF AuthorisedOK
<1>2. ASSUME NEW t \in Threads, NEW c, c = threads'[t].case,
             threads'[t].target = "REPAIRING", cases'[c].round = 0
      PROVE  PlanApproved(c)'
  <2>1. /\ c = threads[t].case /\ c \in Cases
        /\ threads[t].target = "REPAIRING" \/ cases[c].status = "REPAIRING"
    BY <1>2, NextThreads DEF Carried
  <2>2. cases[c].status # Absent
    BY <2>1 DEF ThreadsPast, PlanDecided, Absent
  <2>3. cases[c].round = 0
    BY <1>0, <1>2, <2>1, <2>2, TrailGrows
  <2>4. PlanApproved(c)
    BY <2>1, <2>3 DEF AuthorisedOK
  <2>5. QED BY <1>0, <2>4
<1>3. ASSUME NEW r \in Runs', r.state = "REPAIRING", r.round = 0
      PROVE  \E a \in approvals' : a.case = r.case /\ a.round = 0 /\ a.action = "approve_plan"
  <2>1. PlanApproved(r.case)
    BY <1>3, NextRuns DEF AuthorisedOK, RepairIsAuthorised, PlanApproved, Runs
  <2>2. QED BY <2>1, TrailGrows DEF PlanApproved
<1>4. RepairIsAuthorised'
  BY <1>3 DEF RepairIsAuthorised, PlanApproved, Runs
<1>5. \A t \in Threads :
         threads'[t].target = "REPAIRING" /\ cases'[threads'[t].case].round = 0 =>
             \E a \in approvals' : /\ a.case = threads'[t].case /\ a.round = 0
                                  /\ a.action = "approve_plan"
  BY <1>2 DEF PlanApproved
<1>6. QED BY <1>1, <1>4, <1>5 DEF AuthorisedOK, PlanApproved

\* Whatever calls, retries, refused moves and crashes surround it, a Repair Agent runs
\* in the first round of a Case only after a consumed approve_plan Grant.
THEOREM FirstRepairIsAuthorised == Spec => []RepairIsAuthorised
<1>1. Init => ThreadsPast /\ AuthorisedOK
  BY DEF Init, StoreInit, NewCase, IdleThread, NoTarget, Absent, ThreadsPast, AuthorisedOK,
     RepairIsAuthorised
<1>2. TypesOK /\ TablesOK /\ ThreadsPast /\ AuthorisedOK /\ [Next]_vars
      => TablesOK' /\ ThreadsPast' /\ AuthorisedOK'
  BY StepTablesOK, StepThreadsPast, StepAuthorisedOK
<1>3. AuthorisedOK => RepairIsAuthorised
  BY DEF AuthorisedOK
<1>4. QED
  BY <1>1, <1>2, <1>3, InitTypesOK, StepTypesOK, InitTablesOK, PTL DEF Spec

-----------------------------------------------------------------------------
(* A Case follows the lifecycle the people around it rely on *)

\* A request that calls the store itself files a Case or decides about one.
LEMMA RequestKinds ==
    ASSUME TypesOK, TablesOK,
           StoreRequest \/ \E t \in Threads : NewRequest(t)
    PROVE  Rests \/ \E c \in Cases : Files(c) \/ \E row : Decides(c, row)
<1>0. StoreTypeOK /\ GrantsOK /\ ClosingsOK /\ TrailOK /\ \A g \in grants : g.case \in Cases
  BY DEF TypesOK, OrchTypeOK, TablesOK, StoreTypeOK, GrantRow
<1>1. ASSUME NEW c \in Cases,
             \/ \E id \in GrantIds, action \in ALL_GRANTED_ACTIONS : IssueGrant(id, c, action)
             \/ CloseCase(c) \/ RetryRepair(c) \/ Cancel(c)
             \/ \E t \in Threads : Intake(t, c)
      PROVE  Rests \/ Files(c) \/ \E row : Decides(c, row)
  BY <1>0, <1>1, RequestAlone DEF Intake
<1>2. ASSUME NEW g \in grants, ConsumeGrant(g) \/ ExpireGrant(g)
      PROVE  Rests \/ \E row : Decides(g.case, row)
  BY <1>0, <1>2, GrantAlone DEF GrantMethod
<1>3. CASE StoreRequest
  BY <1>0, <1>1, <1>2, <1>3 DEF StoreRequest
<1>4. ASSUME NEW t \in Threads, NewRequest(t)
      PROVE  Rests \/ \E c \in Cases : Files(c) \/ \E row : Decides(c, row)
  BY <1>0, <1>1, <1>2, <1>4 DEF NewRequest, Retry, ApprovePlan
<1>5. QED BY <1>3, <1>4

\* Nothing a thread or the recovery does takes a Case out of PLAN_APPROVAL.
LEMMA PlanGateHolds ==
    ASSUME TypesOK, ThreadsPast, NEW c \in Cases, cases[c].status = "PLAN_APPROVAL",
           Recovery \/ \E t \in Threads : ThreadStep(t)
    PROVE  cases'[c].status = "PLAN_APPROVAL"
<1>0. StoreTypeOK /\ cases \in [Cases -> CaseRow]
  BY DEF TypesOK, OrchTypeOK, StoreTypeOK
<1>1. ASSUME UNCHANGED cases PROVE cases'[c].status = "PLAN_APPROVAL"
  BY <1>1
<1>2. ASSUME NEW d, d # c, NEW new, cases' = [cases EXCEPT ![d] = new]
      PROVE  cases'[c].status = "PLAN_APPROVAL"
  BY <1>0, <1>2
<1>3. ASSUME NEW d, NEW s, d # c \/ s \notin {"REPAIRING", "ESCALATED"}, transition_case(d, s)
      PROVE  cases'[c].status = "PLAN_APPROVAL"
  <2>1. d # c
    BY <1>3 DEF transition_case, is_valid_transition, TRANSITIONS
  <2>2. QED BY <1>2, <1>3, <2>1 DEF transition_case
<1>4. ASSUME NEW d, NEW s, d # c \/ s \notin {"REPAIRING", "ESCALATED"}, Attempt(d, s)
      PROVE  cases'[c].status = "PLAN_APPROVAL"
  BY <1>1, <1>3, <1>4 DEF Attempt, storeVars
<1>5. ASSUME NEW t \in Threads, ThreadStep(t) PROVE cases'[c].status = "PLAN_APPROVAL"
  <2>1. threads[t].target \in {"REPAIRING", "VERIFYING"} => threads[t].case # c
    BY DEF ThreadsPast, PlanDecided
  <2>2. threads[t].target # "ESCALATED"
    BY DEF TypesOK, OrchTypeOK, ThreadRow, AGENT_ACTIVE_STATES, NoTarget
  <2>3. CASE Move(t)
    BY <1>1, <1>3, <2>1, <2>2, <2>3 DEF Move, storeVars
  <2>4. CASE ConsumeRepair(t)
    <3>1. threads[t].case # c
      BY <2>1, <2>4 DEF ConsumeRepair
    <3>2. ASSUME NEW p, set_patch_context(threads[t].case, p, p)
          PROVE  cases'[c].status = "PLAN_APPROVAL"
      BY <1>0, <3>1, <3>2 DEF set_patch_context
    <3>3. QED BY <1>1, <1>4, <2>4, <3>1, <3>2 DEF ConsumeRepair, storeVars
  <2>5. CASE ConsumeVerification(t)
    <3>1. threads[t].case # c
      BY <2>1, <2>5 DEF ConsumeVerification
    <3>2. ASSUME NEW p, set_patch_ref(threads[t].case, p)
          PROVE  cases'[c].status = "PLAN_APPROVAL"
      BY <1>0, <3>1, <3>2 DEF set_patch_ref
    <3>3. QED BY <1>1, <1>4, <2>5, <3>1, <3>2 DEF ConsumeVerification, storeVars
  <2>6. CASE RequestRelease(t)
    BY <1>4, <2>6 DEF RequestRelease
  <2>7. QED
    BY <1>1, <1>5, <2>3, <2>4, <2>5, <2>6
    DEF ThreadStep, RunActiveState, ReadCase, TakeLock, Dispatch, DispatchRefused,
        AgentReturns, FinishRaises, ConsumeHandoff, storeVars
<1>6. ASSUME NEW d \in Cases, SweepCase(d) PROVE cases'[c].status = "PLAN_APPROVAL"
  <2>1. d = c => ~Interrupted(d)
    BY DEF Interrupted, AGENT_ACTIVE_STATES
  <2>2. QED BY <1>1, <1>4, <1>6, <2>1 DEF SweepCase, storeVars
<1>7. QED
  BY <1>1, <1>5, <1>6 DEF Recovery, FailStaleRun, StartServing, storeVars

WorkStates == {"RECEIVED", "TRIAGED", "DIAGNOSED", "REPAIRING", "VERIFYING", "PATCH_REJECTED",
               "ESCALATED"}

LEMMA Stages ==
    /\ StageOf(Absent) = "none"
    /\ StageOf("PLAN_APPROVAL") = "plan gate" /\ StageOf("RELEASE_APPROVAL") = "release gate"
    /\ StageOf("RELEASED") = "released" /\ StageOf("ROLLED_BACK") = "released"
    /\ StageOf("CLOSED") = "closed"
    /\ \A s \in WorkStates : StageOf(s) = "work"
BY DEF StageOf, Absent, WorkStates

StageNow == [d \in Cases |-> StageOf(cases[d].status)]
LogNow == [d \in Cases |-> {a \in approvals : a.case = d}]

LEMMA StageMoves ==
    ASSUME NEW c \in Cases, OthersSame(c)
    PROVE  /\ StageNow' = [StageNow EXCEPT ![c] = StageOf(cases'[c].status)]
           /\ StageNow[c] = StageOf(cases[c].status)
BY DEF StageNow, OthersSame, Same

LEMMA LogGrows ==
    ASSUME NEW c \in Cases, NEW row, row \notin approvals, approvals' = approvals \cup {row},
           row.case = c
    PROVE  /\ row \in LogNow'[c] \ LogNow[c]
           /\ LogNow' = [LogNow EXCEPT ![c] = @ \cup {row}]
<1>1. /\ \A d \in Cases : LogNow[d] = {a \in approvals : a.case = d}
      /\ \A d \in Cases : LogNow'[d] = {a \in approvals' : a.case = d}
  BY DEF LogNow
<1>2. row \in LogNow'[c] \ LogNow[c]
  BY <1>1
<1>3. LogNow'[c] = LogNow[c] \cup {row}
  BY <1>1
<1>4. ASSUME NEW d \in Cases, d # c PROVE LogNow'[d] = LogNow[d]
  <2>1. {a \in approvals' : a.case = d} = {a \in approvals : a.case = d}
    BY <1>4
  <2>2. QED BY <1>1, <2>1
<1>5. QED BY <1>2, <1>3, <1>4 DEF LogNow

\* The steps of the lifecycle, in the words of the store.
LEMMA FilesIsFile ==
    ASSUME NEW c \in Cases, Files(c)
    PROVE  Lifecycle!File(c)
<1>1. StageOf(cases[c].status) = "none" /\ StageOf(cases'[c].status) = "work"
  BY Stages DEF Files, WorkStates
<1>2. StageNow[c] = "none" /\ StageNow' = [StageNow EXCEPT ![c] = "work"]
  BY <1>1, StageMoves DEF Files
<1>3. UNCHANGED LogNow
  BY DEF Files, LogNow
<1>4. QED BY <1>2, <1>3 DEF Lifecycle!File, StageNow, LogNow

LEMMA DecidesIsDecide ==
    ASSUME NEW c \in Cases, NEW row, Decides(c, row)
    PROVE  Lifecycle!Decide(c)
<1>1. /\ StageNow' = [StageNow EXCEPT ![c] = StageOf(cases'[c].status)]
      /\ StageNow[c] = StageOf(cases[c].status)
  BY StageMoves DEF Decides
<1>2. \E r \in LogNow'[c] \ LogNow[c] : LogNow' = [LogNow EXCEPT ![c] = @ \cup {r}]
  BY LogGrows DEF Decides
<1> DEFINE from == StageOf(cases[c].status)
           to == StageOf(cases'[c].status)
<1>3. /\ to \in {"work", "released", "closed"}
      /\ <<from, to>> \in Lifecycle!Decisions
  <2>1. CASE GrantedMove(c, row)
    <3>1. /\ from \in {"plan gate", "release gate"} /\ to \in {"work", "released"}
          /\ to = "released" => from = "release gate"
      <4>1. /\ cases[c].status \in {"PLAN_APPROVAL", "RELEASE_APPROVAL"}
            /\ cases'[c].status \in WorkStates \cup {"RELEASED"}
            /\ cases'[c].status = "RELEASED" => cases[c].status = "RELEASE_APPROVAL"
        BY <2>1 DEF GrantedMove, GateState, DecidedState, ALL_GRANTED_ACTIONS,
           APPROVAL_ACTIONS, REJECT_ACTIONS, WorkStates
      <4>2. QED BY <4>1, Stages
    <3>2. QED BY <3>1 DEF Lifecycle!Decisions
  <2>2. CASE ServiceMove(c, row)
    <3>1. cases'[c].status \in {"CLOSED", "ESCALATED", "REPAIRING"}
          /\ is_valid_transition(cases[c].status, cases'[c].status)
      BY <2>2 DEF ServiceMove, Decides
    <3>2. \/ /\ cases'[c].status = "CLOSED"
             /\ cases[c].status \in WorkStates \cup {"RELEASED", "ROLLED_BACK"}
          \/ /\ cases'[c].status \in WorkStates
             /\ cases[c].status \in WorkStates \cup {"PLAN_APPROVAL", "RELEASE_APPROVAL"}
      BY <3>1 DEF is_valid_transition, TRANSITIONS, WorkStates
    <3>3. \/ to = "closed" /\ from \in {"work", "released"}
          \/ to = "work" /\ from \in {"work", "plan gate", "release gate"}
      BY <3>2, Stages
    <3>4. QED BY <3>3 DEF Lifecycle!Decisions
  <2>3. QED BY <2>1, <2>2 DEF Decides
<1>4. QED BY <1>1, <1>2, <1>3 DEF Lifecycle!Decide, StageNow, LogNow

LEMMA MovesIsGate ==
    ASSUME NEW c \in Cases, NEW s \in OrchestratorTargets, Moves(c, s),
           cases[c].status # "PLAN_APPROVAL"
    PROVE  \/ Lifecycle!ReachGate(c) \/ Lifecycle!Withdraw(c)
           \/ UNCHANGED Lifecycle!lifeVars
<1>1. /\ StageNow' = [StageNow EXCEPT ![c] = StageOf(s)] /\ UNCHANGED LogNow
      /\ StageNow[c] = StageOf(cases[c].status)
  BY StageMoves DEF Moves, LogNow
<1>2. is_valid_transition(cases[c].status, s)
  BY DEF Moves
<1>3. \/ StageOf(cases[c].status) = "work" /\ StageOf(s) \in {"plan gate", "release gate"}
      \/ StageOf(cases[c].status) = "release gate" /\ StageOf(s) = "work"
      \/ StageOf(cases[c].status) = StageOf(s)
  <2>1. \/ cases[c].status \in WorkStates /\ s \in {"PLAN_APPROVAL", "RELEASE_APPROVAL"}
        \/ cases[c].status = "RELEASE_APPROVAL" /\ s \in WorkStates
        \/ cases[c].status \in WorkStates /\ s \in WorkStates
    BY <1>2 DEF is_valid_transition, TRANSITIONS, OrchestratorTargets, WorkStates
  <2>2. QED BY <2>1, Stages
<1>4. CASE StageOf(cases[c].status) = "work" /\ StageOf(s) \in {"plan gate", "release gate"}
  BY <1>1, <1>4 DEF Lifecycle!ReachGate, StageNow, LogNow
<1>5. CASE StageOf(cases[c].status) = "release gate" /\ StageOf(s) = "work"
  BY <1>1, <1>5 DEF Lifecycle!Withdraw, StageNow, LogNow
<1>6. CASE StageOf(cases[c].status) = StageOf(s)
  <2>1. StageNow' = StageNow
    BY <1>1, <1>6 DEF StageNow
  <2>2. QED BY <1>1, <2>1 DEF Lifecycle!lifeVars, StageNow, LogNow
<1>7. QED BY <1>3, <1>4, <1>5, <1>6

LEMMA LifeStep ==
    ASSUME TypesOK, TablesOK, ThreadsPast, [Next]_vars
    PROVE  [Lifecycle!LifeNext]_(Lifecycle!lifeVars)
<1> DEFINE Step == Lifecycle!LifeNext \/ UNCHANGED Lifecycle!lifeVars
<1>1. CASE Rests
  <2>1. UNCHANGED <<StageNow, LogNow>>
    BY <1>1 DEF Rests, Same, StageNow, LogNow
  <2>2. QED BY <2>1 DEF Lifecycle!lifeVars, StageNow, LogNow
<1>2. ASSUME NEW c \in Cases, Files(c) \/ \E row : Decides(c, row) PROVE Step
  BY <1>2, FilesIsFile, DecidesIsDecide DEF Lifecycle!LifeNext
<1>3. ASSUME NEW c \in Cases, NEW s \in OrchestratorTargets, Moves(c, s),
             Recovery \/ \E t \in Threads : ThreadStep(t)
      PROVE  Step
  <2>1. cases[c].status # "PLAN_APPROVAL"
    <3>1. is_valid_transition(cases[c].status, s) /\ cases'[c].status = s
      BY <1>3 DEF Moves
    <3>2. CASE cases[c].status = "PLAN_APPROVAL"
      BY <1>3, <3>1, <3>2, PlanGateHolds DEF is_valid_transition, TRANSITIONS
    <3>3. QED BY <3>2
  <2>2. QED BY <1>3, <2>1, MovesIsGate DEF Lifecycle!LifeNext
<1>4. CASE StoreRequest \/ \E t \in Threads : NewRequest(t)
  BY <1>1, <1>2, <1>4, RequestKinds
<1>5. CASE Recovery \/ \E t \in Threads : ThreadStep(t)
  BY <1>1, <1>2, <1>3, <1>5, StepTablesOK DEF Kind
<1>6. CASE Crash \/ UNCHANGED vars
  BY <1>1, <1>6 DEF Crash, vars, storeVars, Rests, Same
<1>7. QED BY <1>4, <1>5, <1>6 DEF Next

\* Whatever Agents, requests, retries, crashes and recoveries interleave, a Case goes
\* through the lifecycle of CaseLifecycle: no gate is passed but by a decision that is
\* on record, and nothing is released but through the release gate.
THEOREM OrchestrationImplementsLifecycle == Spec => ImplementsLifecycle
<1>1. Init => Lifecycle!LifeInit /\ ThreadsPast
  <2> SUFFICES ASSUME Init PROVE Lifecycle!LifeInit /\ ThreadsPast
    OBVIOUS
  <2>1. StageNow = [c \in Cases |-> "none"] /\ LogNow = [c \in Cases |-> {}]
    BY Stages DEF Init, StoreInit, NewCase, StageNow, LogNow
  <2>2. QED
    BY <2>1 DEF Lifecycle!LifeInit, StageNow, LogNow, Init, IdleThread, NoTarget, ThreadsPast
<1>2. TypesOK /\ TablesOK /\ ThreadsPast /\ [Next]_vars
      => TablesOK' /\ ThreadsPast' /\ [Lifecycle!LifeNext]_(Lifecycle!lifeVars)
  BY StepTablesOK, StepThreadsPast, LifeStep
<1>3. QED
  BY <1>1, <1>2, InitTypesOK, StepTypesOK, InitTablesOK, PTL
  DEF Spec, ImplementsLifecycle, Lifecycle!LifeSpec

-----------------------------------------------------------------------------
(* No race and no crash leaves a Case half way *)

\* What a thread knows once it has read its Case: a verification goes by an anchored
\* patch, so its Agent answers with a verdict about it.
ThreadInformed(thread) ==
    /\ /\ thread.target = "VERIFYING"
       /\ thread.pc \in {"transition", "lock", "dispatch", "agent", "consume"}
       => thread.seen.patch_ref # NoRef
    /\ /\ thread.target = "VERIFYING"
       /\ thread.pc = "agent" \/ (thread.pc = "consume" /\ thread.result # "failed")
       => thread.ctx.sandbox_ref # NoRef
    /\ thread.pc = "consume" =>
          \/ thread.result = "failed"
          \/ thread.target \in {"TRIAGED", "DIAGNOSED"} /\ thread.result = "completed"
          \/ thread.target = "REPAIRING" /\ thread.result \in {"patched", "unusable"}
          \/ thread.target = "VERIFYING" /\ thread.result \in {"passed", "rejected", "gate_error"}

InformedOK == \A t \in Threads : ThreadInformed(threads[t])

\* The next steps of t carry the Case on from where it is.
Works(t, c) ==
    /\ threads[t].case = c
    /\ \/ threads[t].pc = "resume"
       \/ threads[t].pc = "advance" /\ threads[t].target = cases[c].status
       \/ /\ threads[t].pc \in {"advance", "transition"}
          /\ is_valid_transition(cases[c].status, threads[t].target)
       \/ threads[t].pc \in {"lock", "dispatch"} /\ threads[t].target = cases[c].status
       \/ /\ threads[t].pc = "agent" /\ threads[t].target = cases[c].status
          /\ [by |-> t, case |-> c, state |-> cases[c].status,
              round |-> cases[c].round] \in runningRuns
       \/ /\ threads[t].pc = "consume" /\ threads[t].result # "failed"
          /\ threads[t].target = cases[c].status
       \/ threads[t].pc = "release" /\ cases[c].status = "VERIFYING"

AgentFailed(c) == Failure(cases[c].status, c)

\* While serving, an Agent-active Case has a failed Agent or a thread that carries it
\* on; during a recovery, the Cases already swept are not active.
ServedOK ==
    /\ mode = "serving" =>
          \A c \in Cases : \/ cases[c].status \notin AGENT_ACTIVE_STATES
                           \/ AgentFailed(c)
                           \/ \E t \in Threads : Works(t, c)
    /\ mode = "recovering" =>
          \A c \in Cases \ toSweep : cases[c].status \notin AGENT_ACTIVE_STATES

LEMMA NotYetRead ==
    ASSUME NEW row, row.pc \notin {"transition", "lock", "dispatch", "agent", "consume"}
    PROVE  ThreadInformed(row)
BY DEF ThreadInformed

LEMMA RowsNotYetRead ==
    /\ ThreadInformed(IdleThread)
    /\ \A c, s : ThreadInformed(Calling(c, s))
    /\ \A c : ThreadInformed([IdleThread EXCEPT !.pc = "resume", !.case = c])
<1>1. ThreadInformed(IdleThread) /\ \A c, s : ThreadInformed(Calling(c, s))
  BY CallingTarget, NotYetRead
<1>2. ASSUME NEW c PROVE ThreadInformed([IdleThread EXCEPT !.pc = "resume", !.case = c])
  <2> DEFINE row == [IdleThread EXCEPT !.pc = "resume", !.case = c]
  <2>1. row.pc = "resume"
    BY DEF IdleThread
  <2> HIDE DEF row
  <2>2. ThreadInformed(row)
    BY <2>1, NotYetRead
  <2>3. QED BY <2>2 DEF row
<1>3. QED BY <1>1, <1>2

LEMMA ThreadStaysInformed ==
    ASSUME TypesOK, AnchorsOK, InformedOK, NEW t \in Threads, NewRequest(t) \/ ThreadStep(t)
    PROVE  \E row : Goto(t, row) /\ ThreadInformed(row)
<1> DEFINE old == threads[t]
           c == old.case
           Holds == \E row : Goto(t, row) /\ ThreadInformed(row)
<1>0. /\ old \in ThreadRow /\ RowReady(old) /\ ThreadInformed(old)
      /\ old.pc # "idle" /\ old.target = "VERIFYING" =>
            cases[c].patch_ref # NoRef /\ cases[c].sandbox_ref # NoRef
  BY DEF TypesOK, OrchTypeOK, ThreadsReady, InformedOK, AnchorsOK, ThreadAnchored, Anchored
<1>1. CASE NewRequest(t)
  BY <1>1, RowsNotYetRead DEF NewRequest, Intake, Retry, ApprovePlan
<1>2. CASE RunActiveState(t) \/ ConsumeHandoff(t) \/ ConsumeRepair(t) \/ RequestRelease(t)
  BY <1>2, RowsNotYetRead DEF RunActiveState, ConsumeHandoff, ConsumeRepair, RequestRelease, Done
<1>3. CASE ReadCase(t)
  <2> DEFINE seen == [patch_ref   |-> cases[c].patch_ref, sandbox_ref |-> cases[c].sandbox_ref]
             next == [old EXCEPT !.seen = seen]
             locking == [next EXCEPT !.pc = "lock"]
             moving == [next EXCEPT !.pc = "transition"]
  <2>1. /\ locking.target = old.target /\ locking.seen = seen /\ locking.pc = "lock"
        /\ moving.target = old.target /\ moving.seen = seen /\ moving.pc = "transition"
    BY <1>0 DEF ThreadRow
  <2>2. old.pc # "idle" /\ seen.patch_ref = cases[c].patch_ref
    BY <1>3 DEF ReadCase, At
  <2>3. Goto(t, locking) \/ Goto(t, moving) \/ Goto(t, IdleThread)
    BY <1>3 DEF ReadCase
  <2> HIDE DEF locking, moving, seen
  <2>4. ThreadInformed(locking) /\ ThreadInformed(moving)
    BY <1>0, <2>1, <2>2 DEF ThreadInformed
  <2>5. QED BY <2>3, <2>4, RowsNotYetRead
<1>4. CASE Move(t) \/ TakeLock(t)
  <2> DEFINE at(pc) == [old EXCEPT !.pc = pc]
  <2>1. \A pc : at(pc).pc = pc /\ at(pc).target = old.target /\ at(pc).seen = old.seen
    BY <1>0 DEF ThreadRow
  <2>2. /\ old.pc \in {"transition", "lock"}
        /\ Goto(t, at("lock")) \/ Goto(t, at("dispatch")) \/ Goto(t, IdleThread)
    BY <1>4 DEF Move, TakeLock, ReturnUnlocked, Done, At
  <2> HIDE DEF at
  <2>3. ThreadInformed(at("lock")) /\ ThreadInformed(at("dispatch"))
    BY <1>0, <2>1, <2>2 DEF ThreadInformed
  <2>4. QED BY <2>2, <2>3, RowsNotYetRead
<1>5. CASE Dispatch(t)
  <2> DEFINE ctx == [patch_ref   |-> cases[c].patch_ref, sandbox_ref |-> cases[c].sandbox_ref,
                     trusted     |-> cases[c].trusted]
             row == [old EXCEPT !.pc = "agent", !.ctx = ctx]
  <2>1. row.pc = "agent" /\ row.target = old.target /\ row.seen = old.seen /\ row.ctx = ctx
        /\ ctx.sandbox_ref = cases[c].sandbox_ref
    BY <1>0 DEF ThreadRow
  <2>2. Goto(t, row) /\ old.pc = "dispatch"
    BY <1>5 DEF Dispatch, At
  <2> HIDE DEF row, ctx
  <2>3. ThreadInformed(row)
    BY <1>0, <2>1, <2>2 DEF ThreadInformed
  <2>4. QED BY <2>2, <2>3
<1>6. CASE AgentReturns(t)
  <2> DEFINE row(result, patch) == [old EXCEPT !.pc = "consume", !.result = result, !.patch = patch]
  <2>1. PICK result, patch : result \in ResultsOf(old.target, old.ctx) /\ Goto(t, row(result, patch))
    BY <1>6 DEF AgentReturns
  <2>2. \A r, p : /\ row(r, p).pc = "consume" /\ row(r, p).target = old.target
                  /\ row(r, p).seen = old.seen /\ row(r, p).ctx = old.ctx
                  /\ row(r, p).result = r
    BY <1>0 DEF ThreadRow
  <2>3. old.pc = "agent" /\ old.target \in AGENT_ACTIVE_STATES
    BY <1>0, <1>6 DEF AgentReturns, At, RowReady
  <2>4. \/ result = "failed"
        \/ old.target \in {"TRIAGED", "DIAGNOSED"} /\ result = "completed"
        \/ old.target = "REPAIRING" /\ result \in {"patched", "unusable"}
        \/ /\ old.target = "VERIFYING"
           /\ result \in {"passed", "rejected", "gate_error"} \/ old.ctx.sandbox_ref = NoRef
    BY <2>1, <2>3 DEF ResultsOf, AGENT_ACTIVE_STATES
  <2> HIDE DEF row
  <2>5. ThreadInformed(row(result, patch))
    BY <1>0, <2>2, <2>3, <2>4 DEF ThreadInformed
  <2>6. QED BY <2>1, <2>5
<1>7. CASE DispatchRefused(t) \/ FinishRaises(t)
  <2> DEFINE row == [old EXCEPT !.pc = "consume", !.result = "failed"]
  <2>1. /\ row.pc = "consume" /\ row.target = old.target /\ row.seen = old.seen
        /\ row.result = "failed"
    BY <1>0 DEF ThreadRow
  <2>2. Goto(t, row) /\ old.pc \in {"dispatch", "agent"}
    BY <1>7 DEF DispatchRefused, FinishRaises, AnswerFailed, At
  <2> HIDE DEF row
  <2>3. ThreadInformed(row)
    BY <1>0, <2>1, <2>2 DEF ThreadInformed
  <2>4. QED BY <2>2, <2>3
<1>8. CASE ConsumeVerification(t)
  <2> DEFINE row == [old EXCEPT !.pc = "release"]
  <2>1. row.pc = "release"
    BY <1>0 DEF ThreadRow
  <2>2. Goto(t, row) \/ Goto(t, IdleThread)
    BY <1>8 DEF ConsumeVerification, Done
  <2> HIDE DEF row
  <2>3. QED BY <2>1, <2>2, NotYetRead, RowsNotYetRead
<1>9. QED BY <1>1, <1>2, <1>3, <1>4, <1>5, <1>6, <1>7, <1>8 DEF ThreadStep

LEMMA StepInformedOK ==
    ASSUME TypesOK, AnchorsOK, InformedOK, [Next]_vars
    PROVE  InformedOK'
<1>0. threads \in [Threads -> ThreadRow]
  BY DEF TypesOK, OrchTypeOK
<1>1. ASSUME NEW t \in Threads, NewRequest(t) \/ ThreadStep(t) PROVE InformedOK'
  BY <1>0, <1>1, ThreadStaysInformed DEF InformedOK, Goto
<1>2. CASE Crash
  BY <1>2, RowsNotYetRead DEF Crash, InformedOK
<1>3. CASE StoreRequest \/ Recovery \/ UNCHANGED vars
  BY <1>3 DEF StoreRequest, Recovery, FailStaleRun, SweepCase, StartServing, vars, InformedOK
<1>4. QED BY <1>1, <1>2, <1>3 DEF Next

\* A call of transition_case that the table may refuse.
LEMMA AttemptMoves ==
    ASSUME StoreTypeOK, NEW d \in Cases, NEW s, Attempt(d, s)
    PROVE  /\ OthersSame(d)
           /\ IF is_valid_transition(cases[d].status, s) THEN cases'[d].status = s ELSE Same(d)
BY TransitionMoves DEF Attempt, Moves, OthersSame, Same, storeVars

LEMMA PatchWritesKeepStatus ==
    ASSUME StoreTypeOK, NEW d \in Cases, NEW p, set_patch_context(d, p, p) \/ set_patch_ref(d, p)
    PROVE  \A c \in Cases : Same(c)
<1>0. cases[d] \in CaseRow
  BY DEF StoreTypeOK
<1> DEFINE both == [cases[d] EXCEPT !.patch_ref = p, !.sandbox_ref = p]
           one == [cases[d] EXCEPT !.patch_ref = p]
<1>1. /\ both.status = cases[d].status /\ both.round = cases[d].round
      /\ one.status = cases[d].status /\ one.round = cases[d].round
  BY <1>0 DEF CaseRow
<1>2. cases' = [cases EXCEPT ![d] = both] \/ cases' = [cases EXCEPT ![d] = one]
  BY DEF set_patch_context, set_patch_ref
<1> HIDE DEF both, one
<1>3. QED BY <1>1, <1>2, OneRowOnly

\* What the step of a thread is to a Case: it brings the Case where no Agent is due,
\* takes charge of it, finds that its Agent failed, or was not in charge.
Answers(t, c) ==
    \/ cases'[c].status \notin AGENT_ACTIVE_STATES
    \/ Works(t, c)'
    \/ AgentFailed(c)'
    \/ Same(c) /\ ~Works(t, c)

LEMMA RequestAnswers ==
    ASSUME TypesOK, NEW t \in Threads, NewRequest(t), NEW c \in Cases
    PROVE  Answers(t, c)
<1>0. /\ threads \in [Threads -> ThreadRow] /\ StoreTypeOK /\ ~Works(t, c)
      /\ \A g \in grants : g.case \in Cases
  BY DEF TypesOK, OrchTypeOK, NewRequest, Intake, Retry, ApprovePlan, At, Works, StoreTypeOK,
     GrantRow
<1> DEFINE resuming(d) == [IdleThread EXCEPT !.pc = "resume", !.case = d]
<1>1. ASSUME NEW d, Goto(t, resuming(d)) PROVE threads'[t].pc = "resume" /\ threads'[t].case = d
  BY <1>0, <1>1 DEF Goto, IdleThread
<1>2. ASSUME NEW d \in Cases, Intake(t, d) PROVE Answers(t, c)
  <2>1. PICK trusted \in BOOLEAN :
           \/ \E base \in Commits \cup {NoRef} : CreateCase(d, base, trusted)
           \/ LinkSource(d, trusted)
    BY <1>2 DEF Intake
  <2>2. CASE LinkSource(d, trusted)
    <3> DEFINE new == [cases[d] EXCEPT !.trusted = @ \/ trusted]
    <3>1. new.status = cases[d].status /\ new.round = cases[d].round
      BY <1>0 DEF StoreTypeOK, CaseRow
    <3>2. cases' = [cases EXCEPT ![d] = new]
      BY <2>2 DEF LinkSource
    <3> HIDE DEF new
    <3>3. QED BY <1>0, <3>1, <3>2, OneRowOnly DEF Answers
  <2>3. ASSUME NEW base, CreateCase(d, base, trusted) PROVE Answers(t, c)
    <3> DEFINE new == [NewCase EXCEPT !.status = "RECEIVED", !.base_commit = base,
                                      !.trusted = trusted]
    <3>1. new.status \notin AGENT_ACTIVE_STATES
      BY DEF NewCase, AGENT_ACTIVE_STATES
    <3>2. cases' = [cases EXCEPT ![d] = new]
      BY <2>3 DEF CreateCase
    <3> HIDE DEF new
    <3>3. QED BY <1>0, <3>1, <3>2, OneRowOnly DEF Answers, OthersSame
  <2>4. QED BY <2>1, <2>2, <2>3
<1>3. ASSUME NEW d \in Cases, Goto(t, resuming(d)), OthersSame(d) PROVE Answers(t, c)
  <2>1. CASE c = d
    BY <1>1, <1>3, <2>1 DEF Answers, Works
  <2>2. CASE c # d
    BY <1>0, <1>3, <2>2 DEF Answers, OthersSame
  <2>3. QED BY <2>1, <2>2
<1>4. ASSUME NEW d \in Cases, Retry(t, d) PROVE Answers(t, c)
  BY <1>0, <1>3, <1>4, OneRowOnly DEF Retry, RetryRepair
<1>5. ASSUME NEW g \in grants, ApprovePlan(t, g) PROVE Answers(t, c)
  <2>1. g.case \in Cases /\ Goto(t, resuming(g.case)) /\ ConsumeGrant(g)
    BY <1>0, <1>5 DEF ApprovePlan
  <2>2. OthersSame(g.case)
    BY <1>0, <2>1, OneRowOnly DEF ConsumeGrant
  <2>3. QED BY <1>3, <2>1, <2>2
<1>6. QED BY <1>2, <1>4, <1>5 DEF NewRequest

\* The Case the thread works on; the others are not its business.
LEMMA OthersAnswered ==
    ASSUME NEW t \in Threads, NEW c \in Cases, threads[t].case # c, Same(c)
    PROVE  Answers(t, c)
BY DEF Answers, Works

LEMMA AdvanceAnswers ==
    ASSUME TypesOK, NEW t \in Threads, NEW c \in Cases,
           RunActiveState(t) \/ ReadCase(t) \/ TakeLock(t) \/ ConsumeHandoff(t), InformedOK
    PROVE  Answers(t, c)
<1> DEFINE old == threads[t]
<1>0. old \in ThreadRow /\ threads \in [Threads -> ThreadRow] /\ UNCHANGED cases /\ Same(c)
      /\ ThreadInformed(old)
  BY DEF TypesOK, OrchTypeOK, RunActiveState, ReadCase, TakeLock, ConsumeHandoff, storeVars, Same,
     InformedOK
<1>1. CASE old.case # c
  BY <1>0, <1>1, OthersAnswered
<1>2. ASSUME old.case = c, Works(t, c), cases[c].status \in AGENT_ACTIVE_STATES PROVE Works(t, c)'
  <2>1. CASE RunActiveState(t)
    <3>1. threads'[t] = Calling(c, cases[c].status)
      BY <1>0, <1>2, <2>1 DEF RunActiveState, StatusOf, Goto
    <3>2. QED BY <1>0, <3>1, CallingTarget DEF Works
  <2>2. CASE ReadCase(t)
    <3> DEFINE next == [old EXCEPT !.seen = [patch_ref   |-> cases[c].patch_ref,
                                             sandbox_ref |-> cases[c].sandbox_ref]]
               locking == [next EXCEPT !.pc = "lock"]
               moving == [next EXCEPT !.pc = "transition"]
    <3>1. /\ locking.pc = "lock" /\ locking.target = old.target /\ locking.case = c
          /\ moving.pc = "transition" /\ moving.target = old.target /\ moving.case = c
      BY <1>0, <1>2 DEF ThreadRow
    <3>2. old.target = cases[c].status \/ is_valid_transition(cases[c].status, old.target)
      BY <1>2, <2>2 DEF Works, ReadCase, At
    <3>3. \/ threads'[t] = locking /\ old.target = cases[c].status
          \/ threads'[t] = moving /\ is_valid_transition(cases[c].status, old.target)
      BY <1>0, <1>2, <2>2, <3>2 DEF ReadCase, StatusOf, Goto
    <3> HIDE DEF locking, moving
    <3>4. QED BY <1>0, <3>1, <3>3 DEF Works
  <2>3. CASE TakeLock(t)
    <3> DEFINE row == [old EXCEPT !.pc = "dispatch"]
    <3>1. row.pc = "dispatch" /\ row.target = old.target /\ row.case = c
      BY <1>0, <1>2 DEF ThreadRow
    <3>2. old.target = cases[c].status
      BY <1>2, <2>3 DEF Works, TakeLock, At
    <3>3. threads'[t] = row
      BY <1>0, <1>2, <2>3, <3>2 DEF TakeLock, StatusOf, Goto
    <3> HIDE DEF row
    <3>4. QED BY <1>0, <3>1, <3>2, <3>3 DEF Works
  <2>4. CASE ConsumeHandoff(t)
    <3>1. /\ old.pc = "consume" /\ old.target \in {"TRIAGED", "DIAGNOSED"}
          /\ old.target = cases[c].status /\ old.result # "failed"
      BY <1>2, <2>4 DEF Works, ConsumeHandoff, At
    <3>2. old.result = "completed"
      BY <1>0, <3>1 DEF ThreadInformed
    <3> DEFINE next == IF old.target = "TRIAGED" THEN "DIAGNOSED" ELSE "PLAN_APPROVAL"
    <3>3. threads'[t] = Calling(c, next)
      BY <1>0, <1>2, <2>4, <3>2 DEF ConsumeHandoff, Goto
    <3>4. is_valid_transition(cases[c].status, next)
      BY <3>1 DEF is_valid_transition, TRANSITIONS
    <3> HIDE DEF next
    <3>5. QED BY <1>0, <3>3, <3>4, CallingTarget DEF Works
  <2>5. QED BY <2>1, <2>2, <2>3, <2>4
<1>3. QED BY <1>0, <1>1, <1>2 DEF Answers

LEMMA MoveAnswers ==
    ASSUME TypesOK, NEW t \in Threads, NEW c \in Cases, Move(t)
    PROVE  Answers(t, c)
<1> DEFINE old == threads[t]
           locking == [old EXCEPT !.pc = "lock"]
<1>0. /\ old \in ThreadRow /\ threads \in [Threads -> ThreadRow] /\ StoreTypeOK
      /\ old.case \in Cases /\ old.pc = "transition"
  BY AtCase DEF TypesOK, OrchTypeOK, Move, At
<1>1. locking.pc = "lock" /\ locking.target = old.target /\ locking.case = old.case
  BY <1>0 DEF ThreadRow
<1>2. CASE is_valid_transition(cases[old.case].status, old.target)
  <2>1. OthersSame(old.case) /\ cases'[old.case].status = old.target
    BY <1>0, <1>2, TransitionMoves DEF Move, StatusOf, Moves
  <2>2. old.target \in AGENT_ACTIVE_STATES => threads'[t] = locking
    BY <1>0, <1>2 DEF Move, StatusOf, Goto
  <2> HIDE DEF locking
  <2>3. CASE c = old.case
    BY <1>1, <2>1, <2>2, <2>3 DEF Answers, Works
  <2>4. CASE c # old.case
    BY <2>1, <2>4, OthersAnswered DEF OthersSame
  <2>5. QED BY <2>3, <2>4
<1>3. CASE ~is_valid_transition(cases[old.case].status, old.target)
  <2>1. Same(c)
    BY <1>3 DEF Move, StatusOf, storeVars, Same
  <2>2. ~Works(t, c)
    BY <1>0, <1>3 DEF Works
  <2>3. QED BY <2>1, <2>2 DEF Answers
<1>4. QED BY <1>2, <1>3

LEMMA AgentAnswers ==
    ASSUME TypesOK, NEW t \in Threads, NEW c \in Cases,
           Dispatch(t) \/ DispatchRefused(t) \/ AgentReturns(t) \/ FinishRaises(t)
    PROVE  Answers(t, c)
<1> DEFINE old == threads[t]
<1>0. /\ old \in ThreadRow /\ threads \in [Threads -> ThreadRow] /\ UNCHANGED cases /\ Same(c)
  BY DEF TypesOK, OrchTypeOK, Dispatch, DispatchRefused, AgentReturns, FinishRaises, storeVars,
     Same
<1>1. CASE old.case # c
  BY <1>0, <1>1, OthersAnswered
<1>2. ASSUME old.case = c, Works(t, c) PROVE Works(t, c)' \/ AgentFailed(c)'
  <2>1. CASE Dispatch(t)
    <3> DEFINE ctx == [patch_ref   |-> cases[c].patch_ref, sandbox_ref |-> cases[c].sandbox_ref,
                       trusted     |-> cases[c].trusted]
               row == [old EXCEPT !.pc = "agent", !.ctx = ctx]
    <3>1. row.pc = "agent" /\ row.target = old.target /\ row.case = c
      BY <1>0, <1>2 DEF ThreadRow
    <3>2. old.target = cases[c].status
      BY <1>2, <2>1 DEF Works, Dispatch, At
    <3>3. threads'[t] = row
      BY <1>0, <1>2, <2>1 DEF Dispatch, Goto
    <3>4. [by |-> t, case |-> c, state |-> old.target, round |-> cases[c].round] \in runningRuns'
      BY <1>2, <2>1 DEF Dispatch, NewRun
    <3> HIDE DEF row
    <3>5. QED BY <1>0, <3>1, <3>2, <3>3, <3>4 DEF Works
  <2>2. CASE AgentReturns(t)
    <3> DEFINE row(result, patch) == [old EXCEPT !.pc = "consume", !.result = result,
                                                 !.patch = patch]
               run == [by |-> t, case |-> c, state |-> cases[c].status, round |-> cases[c].round]
    <3>1. PICK result, patch :
             Goto(t, row(result, patch)) /\ finish_agent_run(t, RunOutcome(result))
      BY <2>2 DEF AgentReturns
    <3>2. \A r, p : /\ row(r, p).pc = "consume" /\ row(r, p).target = old.target
                    /\ row(r, p).case = c /\ row(r, p).result = r
      BY <1>0, <1>2 DEF ThreadRow
    <3>3. old.target = cases[c].status /\ run \in runningRuns
      BY <1>2, <2>2 DEF Works, AgentReturns, At
    <3>4. threads'[t] = row(result, patch)
      BY <1>0, <3>1 DEF Goto
    <3> HIDE DEF row
    <3>5. CASE result # "failed"
      BY <1>0, <3>2, <3>3, <3>4, <3>5 DEF Works
    <3>6. CASE result = "failed"
      <4>1. Finished(run, "failed") \in finishedRuns'
        BY <3>1, <3>3, <3>6 DEF finish_agent_run, RunOutcome
      <4>2. QED BY <1>0, <4>1 DEF Finished, AgentFailed, Failure
    <3>7. QED BY <3>5, <3>6
  <2>3. CASE DispatchRefused(t)
    <3>1. Unrecorded(NewRun(t), FALSE) \in unrecorded' /\ old.target = cases[c].status
      BY <1>2, <2>3 DEF DispatchRefused, Works, At
    <3>2. QED BY <1>0, <1>2, <3>1 DEF NewRun, Unrecorded, AgentFailed, Failure
  <2>4. CASE FinishRaises(t)
    <3> DEFINE run == [by |-> t, case |-> c, state |-> cases[c].status, round |-> cases[c].round]
    <3>1. run \in runningRuns
      BY <1>2, <2>4 DEF Works, FinishRaises, At
    <3>2. Unrecorded(run, TRUE) \in unrecorded'
      BY <2>4, <3>1 DEF FinishRaises
    <3>3. QED BY <1>0, <3>2 DEF Unrecorded, AgentFailed, Failure
  <2>5. QED BY <2>1, <2>2, <2>3, <2>4
<1>3. QED BY <1>0, <1>1, <1>2 DEF Answers

LEMMA OutcomeAnswers ==
    ASSUME TypesOK, InformedOK, NEW t \in Threads, NEW c \in Cases,
           ConsumeRepair(t) \/ ConsumeVerification(t) \/ RequestRelease(t)
    PROVE  Answers(t, c)
<1> DEFINE old == threads[t]
           d == old.case
<1>0. /\ old \in ThreadRow /\ threads \in [Threads -> ThreadRow] /\ StoreTypeOK
      /\ d \in Cases /\ ThreadInformed(old)
  BY AtCase DEF TypesOK, OrchTypeOK, InformedOK, ConsumeRepair, ConsumeVerification, RequestRelease
<1>1. ASSUME NEW s, s \notin AGENT_ACTIVE_STATES, Attempt(d, s),
             Works(t, d) => is_valid_transition(cases[d].status, s)
      PROVE  Answers(t, c)
  <2>1. CASE c = d
    BY <1>0, <1>1, <2>1, AttemptMoves DEF Answers
  <2>2. CASE c # d
    BY <1>0, <1>1, <2>2, AttemptMoves, OthersAnswered DEF OthersSame
  <2>3. QED BY <2>1, <2>2
<1>2. ASSUME \A e \in Cases : Same(e), Works(t, c) => Works(t, c)' PROVE Answers(t, c)
  BY <1>2 DEF Answers
<1>3. "ESCALATED" \notin AGENT_ACTIVE_STATES /\ "PATCH_REJECTED" \notin AGENT_ACTIVE_STATES
      /\ "RELEASE_APPROVAL" \notin AGENT_ACTIVE_STATES
  BY DEF AGENT_ACTIVE_STATES
<1>4. /\ is_valid_transition("REPAIRING", "VERIFYING")
      /\ is_valid_transition("REPAIRING", "ESCALATED")
      /\ is_valid_transition("VERIFYING", "ESCALATED")
      /\ is_valid_transition("VERIFYING", "PATCH_REJECTED")
      /\ is_valid_transition("VERIFYING", "RELEASE_APPROVAL")
  BY DEF is_valid_transition, TRANSITIONS
<1>5. CASE ConsumeRepair(t)
  <2>1. old.pc = "consume" /\ old.target = "REPAIRING"
    BY <1>5 DEF ConsumeRepair, At
  <2>2. Works(t, d) => cases[d].status = "REPAIRING" /\ old.result # "failed"
    BY <2>1 DEF Works
  <2>3. CASE old.result = "patched" /\ repair_trusted(t)
    <3>1. \A e \in Cases : Same(e)
      BY <1>0, <1>5, <2>3, PatchWritesKeepStatus DEF ConsumeRepair
    <3>2. threads'[t] = Calling(d, "VERIFYING")
      BY <1>0, <1>5, <2>3 DEF ConsumeRepair, Goto
    <3>3. Works(t, c) => Works(t, c)'
      BY <1>0, <1>4, <2>1, <3>1, <3>2, CallingTarget DEF Works, Same
    <3>4. QED BY <1>2, <3>1, <3>3
  <2>4. CASE ~(old.result = "patched" /\ repair_trusted(t)) /\ old.result = "failed"
    <3>1. Same(c)
      BY <1>5, <2>4 DEF ConsumeRepair, storeVars, Same
    <3>2. ~Works(t, c)
      BY <2>1, <2>4 DEF Works
    <3>3. QED BY <3>1, <3>2 DEF Answers
  <2>5. CASE ~(old.result = "patched" /\ repair_trusted(t)) /\ old.result # "failed"
    BY <1>1, <1>3, <1>4, <1>5, <2>2, <2>5 DEF ConsumeRepair
  <2>6. QED BY <2>3, <2>4, <2>5
<1>6. CASE ConsumeVerification(t)
  <2>1. old.pc = "consume" /\ old.target = "VERIFYING"
    BY <1>6 DEF ConsumeVerification, At
  <2>2. Works(t, d) => cases[d].status = "VERIFYING" /\ old.result # "failed"
    BY <2>1 DEF Works
  <2>3. /\ old.seen.patch_ref # NoRef
        /\ old.result # "failed" => old.ctx.sandbox_ref # NoRef
        /\ old.result \in {"passed", "rejected", "gate_error", "failed"}
    BY <1>0, <2>1 DEF ThreadInformed
  <2>4. CASE old.result = "passed"
    <3>1. /\ set_patch_ref(d, old.seen.patch_ref)
          /\ Goto(t, [old EXCEPT !.pc = "release"])
      BY <1>6, <2>3, <2>4 DEF ConsumeVerification
    <3>2. \A e \in Cases : Same(e)
      BY <1>0, <3>1, PatchWritesKeepStatus
    <3> DEFINE row == [old EXCEPT !.pc = "release"]
    <3>3. threads'[t] = row /\ row.pc = "release" /\ row.case = d
      BY <1>0, <3>1 DEF Goto, ThreadRow
    <3> HIDE DEF row
    <3>4. Works(t, c) => Works(t, c)'
      BY <1>0, <2>1, <3>2, <3>3 DEF Works, Same
    <3>5. QED BY <1>2, <3>2, <3>4
  <2>5. CASE old.result \in {"failed", "gate_error"}
    <3>1. Attempt(d, "ESCALATED")
      BY <1>6, <2>5 DEF ConsumeVerification
    <3>2. QED BY <1>1, <1>3, <1>4, <2>2, <3>1
  <2>6. CASE old.result = "rejected"
    <3>1. Attempt(d, "PATCH_REJECTED")
      BY <1>6, <2>6 DEF ConsumeVerification
    <3>2. QED BY <1>1, <1>3, <1>4, <2>2, <3>1
  <2>7. QED BY <2>3, <2>4, <2>5, <2>6
<1>7. CASE RequestRelease(t)
  <2>1. old.pc = "release" /\ Attempt(d, "RELEASE_APPROVAL")
    BY <1>7 DEF RequestRelease, At
  <2>2. Works(t, d) => cases[d].status = "VERIFYING"
    BY <2>1 DEF Works
  <2>3. QED BY <1>1, <1>3, <1>4, <2>1, <2>2
<1>8. QED BY <1>5, <1>6, <1>7

LEMMA ThreadAnswers ==
    ASSUME TypesOK, InformedOK, NEW t \in Threads, NewRequest(t) \/ ThreadStep(t),
           NEW c \in Cases
    PROVE  Answers(t, c)
BY RequestAnswers, AdvanceAnswers, MoveAnswers, AgentAnswers, OutcomeAnswers DEF ThreadStep

LEMMA FailuresStay ==
    ASSUME NEW t \in Threads, NewRequest(t) \/ ThreadStep(t)
    PROVE  finishedRuns \subseteq finishedRuns' /\ unrecorded \subseteq unrecorded'
<1>1. CASE Dispatch(t) \/ DispatchRefused(t) \/ AgentReturns(t) \/ FinishRaises(t)
  BY <1>1 DEF Dispatch, DispatchRefused, AgentReturns, FinishRaises, finish_agent_run
<1>2. CASE NewRequest(t)
  BY <1>2 DEF NewRequest, Intake, Retry, ApprovePlan, runVars
<1>3. CASE \/ RunActiveState(t) \/ ReadCase(t) \/ Move(t) \/ TakeLock(t) \/ ConsumeHandoff(t)
         \/ ConsumeRepair(t) \/ ConsumeVerification(t) \/ RequestRelease(t)
  BY <1>3 DEF RunActiveState, ReadCase, Move, TakeLock, ConsumeHandoff, ConsumeRepair,
     ConsumeVerification, RequestRelease, runVars
<1>4. QED BY <1>1, <1>2, <1>3 DEF ThreadStep

\* What a step of one thread leaves to the others.
LEMMA OthersGoOn ==
    ASSUME TypesOK, NEW t \in Threads, NewRequest(t) \/ ThreadStep(t), NEW u \in Threads, u # t
    PROVE  /\ threads'[u] = threads[u]
           /\ \A r \in runningRuns : r.by = u => r \in runningRuns'
<1>0. threads \in [Threads -> ThreadRow]
  BY DEF TypesOK, OrchTypeOK
<1>1. \E row : Goto(t, row)
  BY RequestTarget, ThreadTarget
<1>2. threads'[u] = threads[u]
  BY <1>0, <1>1 DEF Goto
<1>3. CASE AgentReturns(t)
  BY <1>2, <1>3 DEF AgentReturns, finish_agent_run
<1>4. CASE Dispatch(t) \/ DispatchRefused(t) \/ FinishRaises(t)
  BY <1>2, <1>4 DEF Dispatch, DispatchRefused, FinishRaises
<1>5. CASE NewRequest(t)
  BY <1>2, <1>5 DEF NewRequest, Intake, Retry, ApprovePlan, runVars
<1>6. CASE \/ RunActiveState(t) \/ ReadCase(t) \/ Move(t) \/ TakeLock(t) \/ ConsumeHandoff(t)
         \/ ConsumeRepair(t) \/ ConsumeVerification(t) \/ RequestRelease(t)
  <2>1. UNCHANGED runVars
    BY <1>6 DEF RunActiveState, ReadCase, Move, TakeLock, ConsumeHandoff, ConsumeRepair,
       ConsumeVerification, RequestRelease
  <2>2. QED BY <1>2, <2>1 DEF runVars
<1>7. QED BY <1>3, <1>4, <1>5, <1>6 DEF ThreadStep

LEMMA StepServedOK ==
    ASSUME TypesOK, TablesOK, InformedOK, ServedOK, [Next]_vars
    PROVE  ServedOK'
<1> DEFINE Inactive(c) == cases[c].status \notin AGENT_ACTIVE_STATES
<1>0. StoreTypeOK
  BY DEF TypesOK, OrchTypeOK
<1>1. ASSUME NEW t \in Threads, NewRequest(t) \/ ThreadStep(t) PROVE ServedOK'
  <2>1. mode = "serving" /\ mode' = "serving"
    BY <1>1 DEF NewRequest, ThreadStep, Intake, Retry, ApprovePlan, RunActiveState, ReadCase,
       Move, TakeLock, Dispatch, DispatchRefused, AgentReturns, FinishRaises, ConsumeHandoff,
       ConsumeRepair, ConsumeVerification, RequestRelease, At, serverVars
  <2>2. ASSUME NEW c \in Cases
        PROVE  Inactive(c)' \/ AgentFailed(c)' \/ \E u \in Threads : Works(u, c)'
    <3>1. Answers(t, c)
      BY <1>1, ThreadAnswers
    <3>2. CASE Same(c) /\ ~Works(t, c)
      <4>1. finishedRuns \subseteq finishedRuns' /\ unrecorded \subseteq unrecorded'
        BY <1>1, FailuresStay
      <4>2. CASE AgentFailed(c)
        BY <3>2, <4>1, <4>2 DEF AgentFailed, Failure, Same
      <4>3. ASSUME NEW u \in Threads, Works(u, c) PROVE Works(u, c)'
        <5>1. /\ threads'[u] = threads[u]
              /\ \A r \in runningRuns : r.by = u => r \in runningRuns'
          BY <1>1, <3>2, <4>3, OthersGoOn
        <5>2. [by |-> u, case |-> c, state |-> cases[c].status, round |-> cases[c].round]
                 \in runningRuns
              => [by |-> u, case |-> c, state |-> cases'[c].status, round |-> cases'[c].round]
                 \in runningRuns'
          BY <3>2, <5>1 DEF Same
        <5>3. QED BY <3>2, <4>3, <5>1, <5>2 DEF Works, Same
      <4>4. QED BY <2>1, <3>2, <4>2, <4>3 DEF ServedOK, Same
    <3>3. QED BY <3>1, <3>2 DEF Answers
  <2>3. QED BY <2>1, <2>2 DEF ServedOK
<1>2. CASE StoreRequest
  <2>1. /\ mode = "serving" /\ mode' = "serving"
        /\ UNCHANGED <<threads, runningRuns, finishedRuns, unrecorded>>
    BY <1>2 DEF StoreRequest, serverVars, runVars
  <2>2. ASSUME NEW c \in Cases PROVE Inactive(c)' \/ Same(c)
    <3>1. ASSUME NEW d \in Cases, NEW new, cases' = [cases EXCEPT ![d] = new],
                 new.status \notin AGENT_ACTIVE_STATES
          PROVE  Inactive(c)' \/ Same(c)
      BY <1>0, <3>1, OneRowOnly DEF OthersSame
    <3>2. ASSUME NEW d \in Cases, CloseCase(d) \/ Cancel(d) PROVE Inactive(c)' \/ Same(c)
      <4>1. \A p, b : /\ Moved(cases[d], "CLOSED", p, b).status \notin AGENT_ACTIVE_STATES
                      /\ Moved(cases[d], "ESCALATED", p, b).status \notin AGENT_ACTIVE_STATES
        BY <1>0 DEF Moved, StoreTypeOK, CaseRow, AGENT_ACTIVE_STATES
      <4>2. QED BY <3>1, <3>2, <4>1 DEF CloseCase, Cancel
    <3>3. ASSUME NEW g \in grants, g.action # "approve_plan", ConsumeGrant(g)
          PROVE  Inactive(c)' \/ Same(c)
      <4>1. g.case \in Cases /\ g.action \in ALL_GRANTED_ACTIONS
        BY <1>0 DEF StoreTypeOK, GrantRow
      <4>2. DecidedState(g.action) \in {"RELEASED", "ESCALATED"}
        BY <3>3, <4>1 DEF DecidedState, ALL_GRANTED_ACTIONS, APPROVAL_ACTIONS, REJECT_ACTIONS
      <4>3. \A p, b : Moved(cases[g.case], DecidedState(g.action), p, b).status
                         \notin AGENT_ACTIVE_STATES
        BY <1>0, <4>1, <4>2 DEF Moved, StoreTypeOK, CaseRow, AGENT_ACTIVE_STATES
      <4>4. QED BY <3>1, <3>3, <4>1, <4>3 DEF ConsumeGrant
    <3>4. CASE UNCHANGED cases
      BY <3>4 DEF Same
    <3>5. QED BY <1>2, <3>2, <3>3, <3>4 DEF StoreRequest, IssueGrant, ExpireGrant
  <2>3. ASSUME NEW c \in Cases, Same(c)
        PROVE  /\ AgentFailed(c) => AgentFailed(c)'
               /\ \A t \in Threads : Works(t, c) => Works(t, c)'
    BY <2>1, <2>3 DEF Same, AgentFailed, Failure, Works
  <2>4. QED BY <2>1, <2>2, <2>3 DEF ServedOK, Same
<1>3. CASE Crash
  BY <1>3 DEF Crash, ServedOK
<1>4. CASE UNCHANGED vars
  BY <1>4 DEF vars, storeVars, serverVars, runVars, ServedOK, Works, AgentFailed, Failure
<1>5. ASSUME NEW r \in LeftRunning, FailStaleRun(r) PROVE ServedOK'
  BY <1>5 DEF FailStaleRun, storeVars, serverVars, ServedOK
<1>6. CASE StartServing
  BY <1>6 DEF StartServing, storeVars, ServedOK
<1>7. ASSUME NEW d \in Cases, SweepCase(d) PROVE ServedOK'
  <2>1. mode = "recovering" /\ mode' = "recovering" /\ toSweep' = toSweep \ {d}
    BY <1>7 DEF SweepCase
  <2>2. OthersSame(d) /\ Inactive(d)'
    <3>1. CASE Interrupted(d)
      <4>1. is_valid_transition(cases[d].status, "ESCALATED")
        BY <3>1 DEF Interrupted, AGENT_ACTIVE_STATES, is_valid_transition, TRANSITIONS
      <4>2. QED BY <1>0, <1>7, <3>1, <4>1, AttemptMoves DEF SweepCase, AGENT_ACTIVE_STATES
    <3>2. CASE ~Interrupted(d)
      BY <1>7, <3>2 DEF SweepCase, Interrupted, storeVars, OthersSame, Same
    <3>3. QED BY <3>1, <3>2
  <2>3. QED BY <2>1, <2>2 DEF ServedOK, OthersSame, Same
<1>8. QED BY <1>1, <1>2, <1>3, <1>4, <1>5, <1>6, <1>7 DEF Next, Recovery

\* While the server serves, no race between requests and no crash strands a Case: one
\* that is due for an Agent and has no thread is there because its Agent, or the dispatch
\* of it, failed.
THEOREM NobodyIsStranded == Spec => []ParkedOnlyAfterFailure
<1>1. Init => InformedOK /\ ServedOK
  BY RowsNotYetRead DEF Init, StoreInit, NewCase, Absent, InformedOK, ServedOK
<1>2. Init => AnchorsOK
  BY InitAnchorsOK
<1>3. TypesOK /\ AnchorsOK /\ TablesOK /\ InformedOK /\ ServedOK /\ [Next]_vars
      => AnchorsOK' /\ TablesOK' /\ InformedOK' /\ ServedOK'
  BY StepAnchorsOK, StepTablesOK, StepInformedOK, StepServedOK
<1>4. ServedOK => ParkedOnlyAfterFailure
  BY DEF ServedOK, ParkedOnlyAfterFailure, Attended, Works, AgentFailed
<1>5. QED
  BY <1>1, <1>2, <1>3, <1>4, InitTypesOK, StepTypesOK, InitTablesOK, PTL DEF Spec

-----------------------------------------------------------------------------
(* One request at a time, what waits for release passed the gate *)

ReleaseStates == {"RELEASE_APPROVAL", "RELEASED"}

\* The gate has passed the patch of a Case, in a sandbox that held it.
PassedIn(reports, c, row) ==
    [case |-> c, patch_ref |-> row.patch_ref, sandbox_ref |-> row.patch_ref,
     passed |-> TRUE] \in reports

\* What a thread has read is what is there, its Case does not wait for release while
\* an Agent is due or at work, and it brings a verdict only from the gate.
ThreadVerified(thread, table, reports) ==
    LET row == table[thread.case]
    IN  /\ thread.pc \in {"transition", "lock", "dispatch", "agent", "consume"} =>
              /\ thread.seen.patch_ref = row.patch_ref
              /\ thread.seen.sandbox_ref = row.sandbox_ref
        /\ thread.pc \in {"lock", "dispatch", "agent", "consume"} =>
              row.status \notin ReleaseStates
        /\ thread.pc = "agent" \/ (thread.pc = "consume" /\ thread.result = "passed") =>
              /\ thread.ctx.patch_ref = row.patch_ref
              /\ thread.ctx.sandbox_ref = row.sandbox_ref
        /\ thread.pc = "consume" /\ thread.result = "passed" /\ row.sandbox_ref # NoRef =>
              PassedIn(reports, thread.case, row)
        /\ thread.pc = "release" => PassedIn(reports, thread.case, row)

\* A sandbox is kept with the patch it holds.
VerifiedOK ==
    /\ \A c \in Cases :
          /\ cases[c].patch_ref = cases[c].sandbox_ref
          /\ cases[c].status \in ReleaseStates => PassedIn(gateReports, c, cases[c])
    /\ \A t \in Threads : ThreadVerified(threads[t], cases, gateReports)

\* A step that writes no patch and brings no Case to its release.
QuietRow(old, new) ==
    /\ new.patch_ref = old.patch_ref /\ new.sandbox_ref = old.sandbox_ref
    /\ new.status \in ReleaseStates => old.status \in ReleaseStates
Quiet == \A c \in Cases : QuietRow(cases[c], cases'[c])

LEMMA OneRowQuiet ==
    ASSUME StoreTypeOK, NEW c \in Cases, NEW new,
           cases' = [cases EXCEPT ![c] = new], QuietRow(cases[c], new)
    PROVE  Quiet
<1>1. \A d \in Cases : QuietRow(cases[d], cases[d])
  BY DEF QuietRow
<1>2. QED BY <1>1 DEF StoreTypeOK, Quiet

LEMMA NoRowQuiet == UNCHANGED cases => Quiet
BY DEF Quiet, QuietRow

LEMMA MovedQuiet ==
    ASSUME NEW row \in CaseRow, NEW s, NEW p, NEW b,
           s \in ReleaseStates => row.status \in ReleaseStates
    PROVE  QuietRow(row, Moved(row, s, p, b)) /\ QuietRow(row, NextRound(Moved(row, s, p, b)))
BY DEF CaseRow, QuietRow, Moved, NextRound

LEMMA TransitionQuiet ==
    ASSUME StoreTypeOK, NEW c \in Cases, NEW s, transition_case(c, s), s \notin ReleaseStates
    PROVE  Quiet
<1> DEFINE moved == Moved(cases[c], s, PendingArgument(s), Closes(s))
<1>1. cases[c] \in CaseRow
  BY DEF StoreTypeOK
<1>2. QuietRow(cases[c], moved) /\ QuietRow(cases[c], NextRound(moved))
  BY <1>1, MovedQuiet
<1>3. \/ cases' = [cases EXCEPT ![c] = moved]
      \/ cases' = [cases EXCEPT ![c] = NextRound(moved)]
  BY DEF transition_case
<1> HIDE DEF moved
<1>4. QED BY <1>2, <1>3, OneRowQuiet

LEMMA AttemptQuiet ==
    ASSUME StoreTypeOK, NEW c \in Cases, NEW s, Attempt(c, s), s \notin ReleaseStates
    PROVE  Quiet
BY TransitionQuiet, NoRowQuiet DEF Attempt, storeVars

\* A Case that was not there before intake has no patch yet.
LEMMA IntakeQuiet ==
    ASSUME StoreTypeOK, AnchorsOK, NEW c \in Cases, NEW trusted \in BOOLEAN,
           \/ \E base \in Commits \cup {NoRef} : CreateCase(c, base, trusted)
           \/ LinkSource(c, trusted)
    PROVE  Quiet
<1>1. cases[c] \in CaseRow /\ CaseAnchored(cases[c])
  BY DEF StoreTypeOK, AnchorsOK
<1>2. ASSUME NEW base \in Commits \cup {NoRef}, CreateCase(c, base, trusted)
      PROVE  Quiet
  <2> DEFINE new == [NewCase EXCEPT !.status = "RECEIVED", !.base_commit = base,
                                    !.trusted = trusted]
  <2>1. /\ new.status = "RECEIVED" /\ new.patch_ref = NoRef /\ new.sandbox_ref = NoRef
    BY DEF NewCase
  <2>2. cases' = [cases EXCEPT ![c] = new] /\ cases[c].status = Absent
    BY <1>2 DEF CreateCase
  <2> HIDE DEF new
  <2>3. QuietRow(cases[c], new)
    BY <1>1, <2>1, <2>2 DEF CaseAnchored, QuietRow, ReleaseStates
  <2>4. QED BY <2>2, <2>3, OneRowQuiet
<1>3. ASSUME LinkSource(c, trusted) PROVE Quiet
  <2> DEFINE new == [cases[c] EXCEPT !.trusted = @ \/ trusted]
  <2>1. QuietRow(cases[c], new)
    BY <1>1 DEF CaseRow, QuietRow
  <2>2. cases' = [cases EXCEPT ![c] = new]
    BY <1>3 DEF LinkSource
  <2> HIDE DEF new
  <2>3. QED BY <2>1, <2>2, OneRowQuiet
<1>4. QED BY <1>2, <1>3

LEMMA GrantQuiet ==
    ASSUME StoreTypeOK, NEW g \in grants, ConsumeGrant(g)
    PROVE  Quiet
<1>1. /\ g.case \in Cases /\ g.action \in ALL_GRANTED_ACTIONS
      /\ cases[g.case] \in CaseRow
  BY DEF StoreTypeOK, GrantRow
<1>2. DecidedState(g.action) \in ReleaseStates => cases[g.case].status \in ReleaseStates
  BY <1>1 DEF ConsumeGrant, AwaitsDecision, DecidedState, GateState, ReleaseStates,
     ALL_GRANTED_ACTIONS, APPROVAL_ACTIONS, REJECT_ACTIONS
<1>3. QuietRow(cases[g.case],
               Moved(cases[g.case], DecidedState(g.action), NoAction, cases[g.case].closed))
  BY <1>1, <1>2, MovedQuiet
<1>4. QED BY <1>1, <1>3, OneRowQuiet DEF ConsumeGrant

LEMMA ServiceActionQuiet ==
    ASSUME StoreTypeOK, NEW c \in Cases, CloseCase(c) \/ RetryRepair(c) \/ Cancel(c)
    PROVE  Quiet
<1>1. cases[c] \in CaseRow
  BY DEF StoreTypeOK
<1>2. \A s \in {"CLOSED", "REPAIRING", "ESCALATED"} : \A p, b :
         /\ QuietRow(cases[c], Moved(cases[c], s, p, b))
         /\ QuietRow(cases[c], NextRound(Moved(cases[c], s, p, b)))
  BY <1>1, MovedQuiet DEF ReleaseStates
<1>3. CASE CloseCase(c)
  BY <1>2, <1>3, OneRowQuiet DEF CloseCase
<1>4. CASE RetryRepair(c)
  BY <1>2, <1>4, OneRowQuiet DEF RetryRepair
<1>5. CASE Cancel(c)
  BY <1>2, <1>5, OneRowQuiet DEF Cancel
<1>6. QED BY <1>3, <1>4, <1>5

\* What holds of a Case, and what a thread knows of its Case, through a quiet step.
LEMMA QuietCases ==
    ASSUME VerifiedOK, Quiet, gateReports \subseteq gateReports', NEW c \in Cases
    PROVE  /\ cases'[c].patch_ref = cases'[c].sandbox_ref
           /\ cases'[c].status \in ReleaseStates => PassedIn(gateReports', c, cases'[c])
BY DEF VerifiedOK, Quiet, QuietRow, PassedIn

LEMMA QuietThread ==
    ASSUME NEW thread, thread.pc = "idle" \/ thread.case \in Cases, Quiet,
           gateReports \subseteq gateReports', ThreadVerified(thread, cases, gateReports)
    PROVE  ThreadVerified(thread, cases', gateReports')
<1>1. CASE thread.pc = "idle"
  BY <1>1 DEF ThreadVerified
<1>2. CASE thread.case \in Cases
  BY <1>2 DEF ThreadVerified, Quiet, QuietRow, PassedIn
<1>3. QED BY <1>1, <1>2

LEMMA StandingVerified ==
    ASSUME TypesOK, VerifiedOK, Quiet, gateReports \subseteq gateReports', UNCHANGED threads
    PROVE  VerifiedOK'
<1>1. \A t \in Threads : threads[t].pc = "idle" \/ threads[t].case \in Cases
  BY DEF TypesOK, ThreadsReady, RowReady
<1>2. \A t \in Threads : ThreadVerified(threads[t], cases', gateReports')
  BY <1>1, QuietThread DEF VerifiedOK
<1>3. QED BY <1>2, QuietCases DEF VerifiedOK

\* The only thread goes on.
OneThread == \A t, u \in Threads : t = u

LEMMA GotoVerified ==
    ASSUME TypesOK, OneThread, NEW t \in Threads, NEW row, Goto(t, row),
           ThreadVerified(row, cases', gateReports'),
           \A c \in Cases :
              /\ cases'[c].patch_ref = cases'[c].sandbox_ref
              /\ cases'[c].status \in ReleaseStates => PassedIn(gateReports', c, cases'[c])
    PROVE  VerifiedOK'
<1>1. \A u \in Threads : threads'[u] = row
  BY DEF TypesOK, OrchTypeOK, Goto, OneThread
<1>2. QED BY <1>1 DEF VerifiedOK

LEMMA NothingToVerify ==
    ASSUME NEW row, row.pc \in {"idle", "resume", "advance"}, NEW table, NEW reports
    PROVE  ThreadVerified(row, table, reports)
BY DEF ThreadVerified

LEMMA IdleVerified ==
    /\ \A table, reports : ThreadVerified(IdleThread, table, reports)
    /\ \A c, s, table, reports : ThreadVerified(Calling(c, s), table, reports)
BY CallingTarget, NothingToVerify

LEMMA RequestVerified ==
    ASSUME TypesOK, AnchorsOK, VerifiedOK, OneThread, NEW t \in Threads, NewRequest(t)
    PROVE  VerifiedOK'
<1>0. StoreTypeOK
  BY DEF TypesOK, OrchTypeOK
<1>1. UNCHANGED gateReports
  BY DEF NewRequest, Intake, Retry, ApprovePlan, runVars
<1>2. Quiet
  BY <1>0, IntakeQuiet, ServiceActionQuiet, GrantQuiet DEF NewRequest, Intake, Retry, ApprovePlan
<1> DEFINE resuming(c) == [IdleThread EXCEPT !.pc = "resume", !.case = c]
<1>3. \A c : resuming(c).pc = "resume"
  BY DEF IdleThread
<1> HIDE DEF resuming
<1>4. \E row : Goto(t, row) /\ row.pc \in {"idle", "resume", "advance"}
  <2>1. ASSUME NEW c, Intake(t, c) PROVE Goto(t, Calling(c, "TRIAGED"))
    BY <2>1 DEF Intake
  <2>2. ASSUME NEW c, Retry(t, c) PROVE Goto(t, resuming(c))
    BY <2>2 DEF Retry, resuming
  <2>3. ASSUME NEW g, ApprovePlan(t, g) PROVE Goto(t, resuming(g.case))
    BY <2>3 DEF ApprovePlan, resuming
  <2>4. QED BY <1>3, <2>1, <2>2, <2>3, CallingTarget DEF NewRequest
<1>5. QED BY <1>1, <1>2, <1>4, NothingToVerify, QuietCases, GotoVerified

LEMMA ReadStepVerified ==
    ASSUME TypesOK, VerifiedOK, OneThread, NEW t \in Threads,
           RunActiveState(t) \/ ReadCase(t) \/ TakeLock(t) \/ Dispatch(t) \/ ConsumeHandoff(t)
    PROVE  VerifiedOK'
<1> DEFINE thread == threads[t]
           c == thread.case
<1>1. /\ thread \in ThreadRow
      /\ thread.pc # "idle" => c \in Cases
      /\ ThreadVerified(thread, cases, gateReports)
  BY DEF TypesOK, OrchTypeOK, ThreadsReady, RowReady, VerifiedOK
<1>2. UNCHANGED cases /\ UNCHANGED gateReports
  BY DEF RunActiveState, ReadCase, TakeLock, Dispatch, ConsumeHandoff, storeVars, runVars
<1>3. ASSUME NEW row, Goto(t, row), ThreadVerified(row, cases, gateReports) PROVE VerifiedOK'
  BY <1>2, <1>3, NoRowQuiet, QuietCases, GotoVerified
<1>4. CASE RunActiveState(t)
  BY <1>3, <1>4, IdleVerified DEF RunActiveState, Done
<1>5. CASE ReadCase(t)
  <2> DEFINE next == [thread EXCEPT !.seen = [patch_ref   |-> cases[c].patch_ref,
                                              sandbox_ref |-> cases[c].sandbox_ref]]
             locking == [next EXCEPT !.pc = "lock"]
             moving == [next EXCEPT !.pc = "transition"]
  <2>1. /\ locking.pc = "lock" /\ locking.case = c
        /\ locking.seen.patch_ref = cases[c].patch_ref
        /\ locking.seen.sandbox_ref = cases[c].sandbox_ref
        /\ moving.pc = "transition" /\ moving.case = c
        /\ moving.seen.patch_ref = cases[c].patch_ref
        /\ moving.seen.sandbox_ref = cases[c].sandbox_ref
    BY <1>1 DEF ThreadRow
  <2>2. \/ Goto(t, locking) /\ cases[c].status \in AGENT_ACTIVE_STATES
        \/ Goto(t, moving)
        \/ Goto(t, IdleThread)
    BY <1>5 DEF ReadCase, StatusOf
  <2> HIDE DEF locking, moving, next
  <2>3. ThreadVerified(moving, cases, gateReports)
    BY <2>1 DEF ThreadVerified
  <2>4. cases[c].status \in AGENT_ACTIVE_STATES => ThreadVerified(locking, cases, gateReports)
    BY <2>1 DEF ThreadVerified, AGENT_ACTIVE_STATES, ReleaseStates
  <2>5. QED BY <1>3, <2>2, <2>3, <2>4, IdleVerified
<1>6. CASE TakeLock(t)
  <2> DEFINE row == [thread EXCEPT !.pc = "dispatch"]
  <2>1. row.pc = "dispatch" /\ row.case = c /\ row.seen = thread.seen
    BY <1>1 DEF ThreadRow
  <2>2. thread.pc = "lock" /\ (Goto(t, row) \/ Goto(t, IdleThread))
    BY <1>6 DEF TakeLock, ReturnUnlocked, Done, At
  <2> HIDE DEF row
  <2>3. ThreadVerified(row, cases, gateReports)
    BY <1>1, <2>1, <2>2 DEF ThreadVerified
  <2>4. QED BY <1>3, <2>2, <2>3, IdleVerified
<1>7. CASE Dispatch(t)
  <2> DEFINE row == [thread EXCEPT !.pc = "agent",
                        !.ctx = [patch_ref   |-> cases[c].patch_ref,
                                 sandbox_ref |-> cases[c].sandbox_ref,
                                 trusted     |-> cases[c].trusted]]
  <2>1. /\ row.pc = "agent" /\ row.case = c /\ row.seen = thread.seen
        /\ row.ctx.patch_ref = cases[c].patch_ref
        /\ row.ctx.sandbox_ref = cases[c].sandbox_ref
    BY <1>1 DEF ThreadRow
  <2>2. thread.pc = "dispatch" /\ Goto(t, row)
    BY <1>7 DEF Dispatch, At
  <2> HIDE DEF row
  <2>3. ThreadVerified(row, cases, gateReports)
    BY <1>1, <2>1, <2>2 DEF ThreadVerified
  <2>4. QED BY <1>3, <2>2, <2>3
<1>8. CASE ConsumeHandoff(t)
  BY <1>3, <1>8, IdleVerified DEF ConsumeHandoff
<1>9. QED BY <1>4, <1>5, <1>6, <1>7, <1>8

LEMMA MoveVerified ==
    ASSUME TypesOK, VerifiedOK, OneThread, NEW t \in Threads, Move(t)
    PROVE  VerifiedOK'
<1> DEFINE thread == threads[t]
           c == thread.case
           s == thread.target
           row == [thread EXCEPT !.pc = "lock"]
<1>1. /\ StoreTypeOK /\ thread \in ThreadRow /\ c \in Cases /\ thread.pc = "transition"
      /\ ThreadVerified(thread, cases, gateReports) /\ UNCHANGED gateReports
  BY DEF Move, At, TypesOK, OrchTypeOK, ThreadsReady, RowReady, VerifiedOK, runVars
<1>2. s \notin ReleaseStates
  BY <1>1 DEF ThreadRow, AGENT_ACTIVE_STATES, ReleaseStates, NoTarget
<1>3. Quiet
  BY <1>1, <1>2, TransitionQuiet, NoRowQuiet DEF Move, storeVars
<1>4. row.pc = "lock" /\ row.case = c /\ row.seen = thread.seen
  BY <1>1 DEF ThreadRow
<1>5. \/ Goto(t, row) /\ transition_case(c, s)
      \/ Goto(t, IdleThread)
  BY DEF Move, Done
<1> HIDE DEF row
<1>6. ASSUME transition_case(c, s) PROVE ThreadVerified(row, cases', gateReports')
  <2>1. cases'[c].status = s
    BY <1>1, <1>6, TransitionMoves DEF Moves
  <2>2. ThreadVerified(thread, cases', gateReports')
    BY <1>1, <1>3, QuietThread
  <2>3. QED BY <1>1, <1>2, <1>4, <2>1, <2>2 DEF ThreadVerified
<1>7. QED BY <1>1, <1>3, <1>5, <1>6, IdleVerified, QuietCases, GotoVerified

LEMMA AgentVerified ==
    ASSUME TypesOK, VerifiedOK, OneThread, NEW t \in Threads, AgentReturns(t)
    PROVE  VerifiedOK'
<1> DEFINE thread == threads[t]
           c == thread.case
<1>1. PICK result \in ResultsOf(thread.target, thread.ctx), patch \in PatchRefs :
         /\ Goto(t, [thread EXCEPT !.pc = "consume", !.result = result, !.patch = patch])
         /\ gateReports' = gateReports \cup ReportOf(t, result)
  BY DEF AgentReturns, PatchRefs
<1> DEFINE row == [thread EXCEPT !.pc = "consume", !.result = result, !.patch = patch]
<1>2. /\ thread \in ThreadRow /\ c \in Cases /\ thread.pc = "agent"
      /\ ThreadVerified(thread, cases, gateReports) /\ UNCHANGED cases
  BY DEF AgentReturns, At, TypesOK, OrchTypeOK, ThreadsReady, RowReady, VerifiedOK, storeVars
<1>3. /\ row.pc = "consume" /\ row.case = c /\ row.result = result
      /\ row.seen = thread.seen /\ row.ctx = thread.ctx
  BY <1>2 DEF ThreadRow
<1>4. Goto(t, row)
  BY <1>1
<1> HIDE DEF row
<1>5. cases[c].patch_ref = cases[c].sandbox_ref
  BY <1>2 DEF VerifiedOK
<1>6. result = "passed" /\ cases[c].sandbox_ref # NoRef => PassedIn(gateReports', c, cases[c])
  BY <1>1, <1>2, <1>5 DEF ReportOf, ThreadVerified, PassedIn
<1>7. ThreadVerified(row, cases', gateReports')
  BY <1>2, <1>3, <1>6 DEF ThreadVerified
<1>8. Quiet /\ gateReports \subseteq gateReports'
  BY <1>1, <1>2, NoRowQuiet
<1>9. QED BY <1>4, <1>7, <1>8, QuietCases, GotoVerified

\* A dispatch that failed says nothing about the patch.
LEMMA FailureVerified ==
    ASSUME TypesOK, VerifiedOK, OneThread, NEW t \in Threads,
           DispatchRefused(t) \/ FinishRaises(t)
    PROVE  VerifiedOK'
<1> DEFINE thread == threads[t]
           row == [thread EXCEPT !.pc = "consume", !.result = "failed"]
<1>1. /\ thread \in ThreadRow /\ thread.pc \in {"dispatch", "agent"}
      /\ ThreadVerified(thread, cases, gateReports)
      /\ UNCHANGED cases /\ UNCHANGED gateReports
  BY DEF DispatchRefused, FinishRaises, At, TypesOK, OrchTypeOK, VerifiedOK, storeVars
<1>2. /\ row.pc = "consume" /\ row.case = thread.case /\ row.result = "failed"
      /\ row.seen = thread.seen
  BY <1>1 DEF ThreadRow
<1>3. Goto(t, row)
  BY DEF DispatchRefused, FinishRaises, AnswerFailed
<1> HIDE DEF row
<1>4. ThreadVerified(row, cases, gateReports)
  BY <1>1, <1>2 DEF ThreadVerified
<1>5. QED BY <1>1, <1>3, <1>4, NoRowQuiet, QuietCases, GotoVerified

\* A repair replaces the patch of a Case that does not wait for release.
LEMMA RepairVerified ==
    ASSUME TypesOK, VerifiedOK, OneThread, NEW t \in Threads, ConsumeRepair(t)
    PROVE  VerifiedOK'
<1> DEFINE thread == threads[t]
           c == thread.case
           p == thread.patch
<1>1. /\ StoreTypeOK /\ c \in Cases /\ cases[c] \in CaseRow /\ thread.pc = "consume"
      /\ ThreadVerified(thread, cases, gateReports) /\ UNCHANGED gateReports
  BY DEF ConsumeRepair, At, TypesOK, OrchTypeOK, StoreTypeOK, ThreadsReady, RowReady, VerifiedOK,
     runVars
<1>2. CASE set_patch_context(c, p, p) /\ Goto(t, Calling(c, "VERIFYING"))
  <2> DEFINE new == [cases[c] EXCEPT !.patch_ref = p, !.sandbox_ref = p]
  <2>1. new.patch_ref = new.sandbox_ref /\ new.status = cases[c].status
    BY <1>1 DEF CaseRow
  <2>2. \A d \in Cases : cases'[d] = IF d = c THEN new ELSE cases[d]
    BY <1>1, <1>2 DEF set_patch_context, StoreTypeOK
  <2> HIDE DEF new
  <2>3. cases[c].status \notin ReleaseStates
    BY <1>1 DEF ThreadVerified
  <2>4. \A d \in Cases :
           /\ cases'[d].patch_ref = cases'[d].sandbox_ref
           /\ cases'[d].status \in ReleaseStates => PassedIn(gateReports', d, cases'[d])
    BY <1>1, <2>1, <2>2, <2>3 DEF VerifiedOK
  <2>5. QED BY <1>2, <2>4, IdleVerified, GotoVerified
<1>3. CASE (UNCHANGED storeVars \/ Attempt(c, "ESCALATED")) /\ Done(t)
  <2>1. Quiet
    BY <1>1, <1>3, AttemptQuiet, NoRowQuiet DEF storeVars, ReleaseStates
  <2>2. QED BY <1>1, <1>3, <2>1, IdleVerified, QuietCases, GotoVerified DEF Done
<1>4. QED BY <1>2, <1>3 DEF ConsumeRepair

LEMMA VerdictVerified ==
    ASSUME TypesOK, VerifiedOK, OneThread, NEW t \in Threads, ConsumeVerification(t)
    PROVE  VerifiedOK'
<1> DEFINE thread == threads[t]
           c == thread.case
           p == thread.seen.patch_ref
           row == [thread EXCEPT !.pc = "release"]
<1>1. /\ StoreTypeOK /\ c \in Cases /\ cases[c] \in CaseRow /\ thread.pc = "consume"
      /\ thread \in ThreadRow
      /\ ThreadVerified(thread, cases, gateReports) /\ UNCHANGED gateReports
      /\ cases[c].patch_ref = cases[c].sandbox_ref
  BY DEF ConsumeVerification, At, TypesOK, OrchTypeOK, StoreTypeOK, ThreadsReady, RowReady,
     VerifiedOK, runVars
<1>2. CASE set_patch_ref(c, p) /\ Goto(t, row) /\ thread.result = "passed" /\ p # NoRef
  <2> DEFINE new == [cases[c] EXCEPT !.patch_ref = p]
  <2>1. p = cases[c].patch_ref
    BY <1>1 DEF ThreadVerified
  <2>2. QuietRow(cases[c], new)
    BY <1>1, <2>1 DEF CaseRow, QuietRow
  <2>3. cases' = [cases EXCEPT ![c] = new]
    BY <1>2 DEF set_patch_ref
  <2> HIDE DEF new
  <2>4. Quiet
    BY <1>1, <2>2, <2>3, OneRowQuiet
  <2>5. row.pc = "release" /\ row.case = c
    BY <1>1 DEF ThreadRow
  <2> HIDE DEF row
  <2>6. PassedIn(gateReports, c, cases[c])
    BY <1>1, <1>2, <2>1 DEF ThreadVerified
  <2>7. ThreadVerified(row, cases', gateReports')
    BY <1>1, <2>4, <2>5, <2>6 DEF ThreadVerified, Quiet, QuietRow, PassedIn
  <2>8. QED BY <1>1, <1>2, <2>4, <2>7, QuietCases, GotoVerified
<1>3. CASE /\ Done(t)
           /\ UNCHANGED storeVars \/ Attempt(c, "ESCALATED") \/ Attempt(c, "PATCH_REJECTED")
  <2>1. Quiet
    BY <1>1, <1>3, AttemptQuiet, NoRowQuiet DEF storeVars, ReleaseStates
  <2>2. QED BY <1>1, <1>3, <2>1, IdleVerified, QuietCases, GotoVerified DEF Done
<1>4. QED BY <1>2, <1>3 DEF ConsumeVerification

\* Only here a Case comes to its release, with the verdict at hand.
LEMMA ReleaseVerified ==
    ASSUME TypesOK, VerifiedOK, OneThread, NEW t \in Threads, RequestRelease(t)
    PROVE  VerifiedOK'
<1> DEFINE c == threads[t].case
<1>1. /\ StoreTypeOK /\ c \in Cases /\ cases[c] \in CaseRow
      /\ PassedIn(gateReports, c, cases[c]) /\ UNCHANGED gateReports
  BY DEF RequestRelease, At, TypesOK, OrchTypeOK, StoreTypeOK, ThreadsReady, RowReady, VerifiedOK,
     ThreadVerified, runVars
<1>2. CASE UNCHANGED storeVars
  BY <1>1, <1>2, NoRowQuiet, IdleVerified, QuietCases, GotoVerified DEF RequestRelease, Done, storeVars
<1>3. CASE transition_case(c, "RELEASE_APPROVAL")
  <2> DEFINE new == Moved(cases[c], "RELEASE_APPROVAL", PendingArgument("RELEASE_APPROVAL"),
                          Closes("RELEASE_APPROVAL"))
  <2>1. new.patch_ref = cases[c].patch_ref /\ new.sandbox_ref = cases[c].sandbox_ref
    BY <1>1 DEF Moved, CaseRow
  <2>2. \A d \in Cases : cases'[d] = IF d = c THEN new ELSE cases[d]
    BY <1>1, <1>3 DEF transition_case, StoreTypeOK
  <2> HIDE DEF new
  <2>3. \A d \in Cases :
           /\ cases'[d].patch_ref = cases'[d].sandbox_ref
           /\ cases'[d].status \in ReleaseStates => PassedIn(gateReports', d, cases'[d])
    BY <1>1, <2>1, <2>2 DEF VerifiedOK, PassedIn
  <2>4. QED BY <2>3, IdleVerified, GotoVerified DEF RequestRelease, Done
<1>4. QED BY <1>2, <1>3 DEF RequestRelease, Attempt

LEMMA StepVerifiedOK ==
    ASSUME TypesOK, AnchorsOK, VerifiedOK, OneThread, [Next]_vars
    PROVE  VerifiedOK'
<1>0. StoreTypeOK
  BY DEF TypesOK, OrchTypeOK
<1>1. ASSUME NEW t \in Threads, NewRequest(t) \/ ThreadStep(t) PROVE VerifiedOK'
  BY <1>1, RequestVerified, ReadStepVerified, MoveVerified, AgentVerified, FailureVerified,
     RepairVerified, VerdictVerified, ReleaseVerified DEF ThreadStep
<1>2. CASE StoreRequest
  <2>1. Quiet
    BY <1>0, <1>2, GrantQuiet, ServiceActionQuiet, NoRowQuiet DEF StoreRequest, IssueGrant, ExpireGrant
  <2>2. QED BY <1>2, <2>1, StandingVerified DEF StoreRequest, runVars
<1>3. CASE Crash
  <2>1. Quiet /\ UNCHANGED gateReports
    BY <1>3, NoRowQuiet DEF Crash, storeVars, runVars
  <2>2. \A t \in Threads : threads'[t] = IdleThread
    BY <1>3 DEF Crash
  <2>3. QED BY <2>1, <2>2, QuietCases, IdleVerified DEF VerifiedOK
<1>4. CASE Recovery \/ UNCHANGED vars
  <2>1. ASSUME NEW c \in Cases, SweepCase(c) PROVE Quiet
    BY <1>0, <2>1, AttemptQuiet, NoRowQuiet DEF SweepCase, storeVars, ReleaseStates
  <2>2. Quiet /\ UNCHANGED threads /\ UNCHANGED gateReports
    BY <1>4, <2>1, NoRowQuiet
    DEF Recovery, FailStaleRun, SweepCase, StartServing, vars, storeVars, runVars
  <2>3. QED BY <2>2, StandingVerified
<1>5. QED BY <1>1, <1>2, <1>3, <1>4 DEF Next

LEMMA InitVerifiedOK == Init => VerifiedOK
BY IdleVerified DEF Init, StoreInit, NewCase, VerifiedOK, ReleaseStates, Absent

\* As long as one request is under way at a time, through crashes, retries and cancels,
\* the patch that waits for release, or is released, is one the gate has passed in a
\* sandbox that held it.  With two requests this is false: see unverified_release.
THEOREM ReleasesAreVerified == OneThread /\ Spec => []ReleaseIsVerified
<1>1. VerifiedOK => ReleaseIsVerified
  BY DEF VerifiedOK, PassedIn, ReleaseStates, ReleaseIsVerified
<1>2. OneThread /\ TypesOK /\ AnchorsOK /\ VerifiedOK /\ [Next]_vars => VerifiedOK'
  BY StepVerifiedOK
<1>3. CASE OneThread
  BY <1>1, <1>2, <1>3, InitTypesOK, StepTypesOK, InitAnchorsOK, StepAnchorsOK, InitVerifiedOK, PTL
  DEF Spec
<1>4. QED BY <1>3
=============================================================================
