--------------------------- MODULE CaseStoreProofs ---------------------------
(***************************************************************************)
(* What CaseStore guarantees for any number of Cases, patches, commits and    *)
(* Grants, and however often a Case re-enters repair.                         *)
(***************************************************************************)
EXTENDS CaseStore, TLAPS

-----------------------------------------------------------------------------
(* The table of moves *)

\* Statuses a Case can have once its plan gate, or its release gate, was decided
\* in the current round.
PlanDecided ==
    {"REPAIRING", "VERIFYING", "PATCH_REJECTED", "RELEASE_APPROVAL", "RELEASED",
     "ROLLED_BACK", "ESCALATED", "CLOSED"}
ReleaseDecided == {"RELEASED", "ROLLED_BACK", "ESCALATED", "CLOSED"}

Decided(action) ==
    IF GateState(action) = "PLAN_APPROVAL" THEN PlanDecided ELSE ReleaseDecided

\* Both ends of a legal move are states of the machine.
LEMMA MovesBetweenStates ==
    ASSUME NEW s, NEW t, is_valid_transition(s, t)
    PROVE  s \in ALL_STATES /\ t \in ALL_STATES
BY DEF is_valid_transition, TRANSITIONS, ALL_STATES

\* A decided gate stays behind: no move leads back before the plan gate, and only
\* re-entering REPAIRING leads back before the release gate.
LEMMA NoWayBack ==
    ASSUME NEW s, NEW t, is_valid_transition(s, t)
    PROVE  /\ s \in PlanDecided => t \in PlanDecided
           /\ s \in ReleaseDecided /\ t # "REPAIRING" => t \in ReleaseDecided
BY DEF is_valid_transition, TRANSITIONS, PlanDecided, ReleaseDecided

\* An absent or closed Case makes no move, and RELEASED is only reached from the
\* release gate.
LEMMA DeadEnds ==
    ASSUME NEW s, NEW t, is_valid_transition(s, t)
    PROVE  /\ s # Absent /\ s # "CLOSED" /\ t # Absent
           /\ t = "RELEASED" => s = "RELEASE_APPROVAL"
BY DEF is_valid_transition, TRANSITIONS, Absent

\* A decision leads to a state past its gate.
LEMMA DecisionPassesGate ==
    ASSUME NEW action \in ALL_GRANTED_ACTIONS
    PROVE  /\ DecidedState(action) \in Decided(action)
           /\ DecidedState(action) \in PlanDecided
           /\ GateState(action) \notin Decided(action)
           /\ DecidedState(action) \in ALL_STATES
           /\ pending_action_for_state(DecidedState(action)) = NoAction
           /\ DecidedState(action) # "CLOSED"
           /\ DecidedState(action) = "RELEASED" => action = "approve_release"
           /\ DecidedState(action) # "ROLLED_BACK"
BY DEF ALL_GRANTED_ACTIONS, APPROVAL_ACTIONS, REJECT_ACTIONS, DecidedState, Decided,
       GateState, PlanDecided, ReleaseDecided, ALL_STATES, pending_action_for_state,
       NoAction

LEMMA PendingType ==
    ASSUME NEW s
    PROVE  pending_action_for_state(s) \in APPROVAL_ACTIONS \cup {NoAction}
BY DEF pending_action_for_state, APPROVAL_ACTIONS, NoAction

-----------------------------------------------------------------------------
(* Type correctness *)

LEMMA InitTypeOK == StoreInit => StoreTypeOK
BY DEF StoreInit, StoreTypeOK, NewCase, CaseRow, PatchRefs, Absent, NoAction

\* A row that changes in some columns is still a row.
LEMMA MovedRow ==
    ASSUME NEW row \in CaseRow, NEW s \in ALL_STATES, NEW b \in BOOLEAN,
           NEW p \in APPROVAL_ACTIONS \cup {NoAction}
    PROVE  /\ Moved(row, s, p, b) \in CaseRow
           /\ NextRound(Moved(row, s, p, b)) \in CaseRow
<1>1. Moved(row, s, p, b) \in CaseRow
  BY DEF Moved, CaseRow
<1>2. ASSUME NEW r \in CaseRow PROVE NextRound(r) \in CaseRow
  <2>1. r.round + 1 \in Nat
    BY DEF CaseRow
  <2>2. QED BY <2>1 DEF CaseRow, NextRound
<1>3. QED BY <1>1, <1>2

\* The version a Grant refers to is a patch or a commit.
LEMMA VersionType ==
    ASSUME StoreTypeOK, NEW c \in Cases, NEW action, HasVersion(c, action)
    PROVE  VersionOf(cases[c], action) \in Patches \cup Commits
BY DEF StoreTypeOK, CaseRow, PatchRefs, VersionOf, HasVersion

\* A row recorded for a Case is an approvals row.
LEMMA ApprovalType ==
    ASSUME StoreTypeOK, NEW c \in Cases,
           NEW action \in ALL_GRANTED_ACTIONS \cup SERVICE_ACTIONS,
           NEW id \in GrantIds \cup {NoGrant},
           NEW ref \in Patches \cup Commits \cup {NoRef}
    PROVE  /\ Approval(c, action, id, ref) \in ApprovalRow
           /\ NextRound(Approval(c, action, id, ref)) \in ApprovalRow
<1>1. cases[c].round \in Nat /\ cases[c].round + 1 \in Nat
  BY DEF StoreTypeOK, CaseRow
<1>2. QED BY <1>1 DEF Approval, ApprovalRow, NextRound

LEMMA StepTypeOK == StoreTypeOK /\ [StoreNext]_storeVars => StoreTypeOK'
<1> SUFFICES ASSUME StoreTypeOK, [StoreNext]_storeVars PROVE StoreTypeOK'
  OBVIOUS
<1> USE DEF StoreTypeOK
<1>1. ASSUME NEW c \in Cases, NEW base \in Commits \cup {NoRef},
             NEW trusted \in BOOLEAN, CreateCase(c, base, trusted)
      PROVE  StoreTypeOK'
  <2>1. [NewCase EXCEPT !.status = "RECEIVED", !.base_commit = base,
                        !.trusted = trusted] \in CaseRow
    BY DEF NewCase, CaseRow, PatchRefs, ALL_STATES, NoAction
  <2>2. QED BY <1>1, <2>1 DEF CreateCase
<1>2. ASSUME NEW c \in Cases, NEW trusted \in BOOLEAN, LinkSource(c, trusted)
      PROVE  StoreTypeOK'
  <2>1. [cases[c] EXCEPT !.trusted = @ \/ trusted] \in CaseRow
    BY DEF CaseRow
  <2>2. cases' = [cases EXCEPT ![c] = [cases[c] EXCEPT !.trusted = @ \/ trusted]]
    BY <1>2 DEF LinkSource
  <2>3. QED BY <1>2, <2>1, <2>2 DEF LinkSource
<1>3. ASSUME NEW c \in Cases, NEW id \in GrantIds,
             NEW action \in ALL_GRANTED_ACTIONS, IssueGrant(id, c, action)
      PROVE  StoreTypeOK'
  <2>1. VersionOf(cases[c], action) \in Patches \cup Commits
    BY <1>3, VersionType DEF IssueGrant
  <2>2. QED BY <1>3, <2>1 DEF IssueGrant, GrantRow
<1>4. ASSUME NEW c \in Cases, CloseCase(c) PROVE StoreTypeOK'
  <2>1. Moved(cases[c], "CLOSED", NoAction, TRUE) \in CaseRow
    BY MovedRow DEF ALL_STATES
  <2>2. Approval(c, "close_case", NoGrant, NoRef) \in ApprovalRow
    BY ApprovalType DEF SERVICE_ACTIONS
  <2>3. QED BY <1>4, <2>1, <2>2 DEF CloseCase, Record
<1>5. ASSUME NEW c \in Cases, RetryRepair(c) PROVE StoreTypeOK'
  <2>1. NextRound(Moved(cases[c], "REPAIRING", NoAction, FALSE)) \in CaseRow
    BY MovedRow DEF ALL_STATES
  <2>2. NextRound(Approval(c, "retry_repair", NoGrant, NoRef)) \in ApprovalRow
    BY ApprovalType DEF SERVICE_ACTIONS
  <2>3. QED BY <1>5, <2>1, <2>2 DEF RetryRepair, Record
<1>6. ASSUME NEW c \in Cases, Cancel(c) PROVE StoreTypeOK'
  <2> cases[c] \in CaseRow /\ cases[c].closed \in BOOLEAN
    BY DEF CaseRow
  <2>1. Moved(cases[c], "ESCALATED", NoAction, cases[c].closed) \in CaseRow
    BY MovedRow DEF ALL_STATES
  <2>2. Approval(c, "cancel", NoGrant, NoRef) \in ApprovalRow
    BY ApprovalType DEF SERVICE_ACTIONS
  <2>3. QED BY <1>6, <2>1, <2>2 DEF Cancel, Record
<1>7. ASSUME NEW c \in Cases, NEW s \in OrchestratorTargets, transition_case(c, s)
      PROVE  StoreTypeOK'
  <2> DEFINE moved == Moved(cases[c], s, PendingArgument(s), Closes(s))
  <2>1. moved \in CaseRow /\ NextRound(moved) \in CaseRow
    BY <1>7, MovedRow, PendingType, MovesBetweenStates
    DEF transition_case, PendingArgument, Closes
  <2>2. QED BY <1>7, <2>1 DEF transition_case
<1>8. ASSUME NEW c \in Cases, NEW p \in Patches, NEW q \in Patches,
             set_patch_context(c, p, q)
      PROVE  StoreTypeOK'
  <2>1. [cases[c] EXCEPT !.patch_ref = p, !.sandbox_ref = q] \in CaseRow
    BY DEF CaseRow, PatchRefs
  <2>2. cases' = [cases EXCEPT ![c] = [cases[c] EXCEPT !.patch_ref = p, !.sandbox_ref = q]]
    BY <1>8 DEF set_patch_context
  <2>3. QED BY <1>8, <2>1, <2>2 DEF set_patch_context
<1>9. ASSUME NEW c \in Cases, NEW p \in Patches, set_patch_ref(c, p)
      PROVE  StoreTypeOK'
  <2>1. [cases[c] EXCEPT !.patch_ref = p] \in CaseRow
    BY DEF CaseRow, PatchRefs
  <2>2. cases' = [cases EXCEPT ![c] = [cases[c] EXCEPT !.patch_ref = p]]
    BY <1>9 DEF set_patch_ref
  <2>3. QED BY <1>9, <2>1, <2>2 DEF set_patch_ref
<1>10. ASSUME NEW g \in grants, ConsumeGrant(g) PROVE StoreTypeOK'
  <2>1. g.case \in Cases /\ g.action \in ALL_GRANTED_ACTIONS /\ g.id \in GrantIds
        /\ g.target_ref \in Patches \cup Commits
    BY DEF GrantRow
  <2>2. Moved(cases[g.case], DecidedState(g.action), NoAction, cases[g.case].closed)
           \in CaseRow
    BY <2>1, MovedRow, DecisionPassesGate DEF CaseRow
  <2>3. Approval(g.case, g.action, g.id, g.target_ref) \in ApprovalRow
    BY <2>1, ApprovalType
  <2>4. QED BY <1>10, <2>1, <2>2, <2>3 DEF ConsumeGrant, Record, MarkUsed
<1>11. ASSUME NEW g \in grants, ExpireGrant(g) PROVE StoreTypeOK'
  BY <1>11 DEF ExpireGrant
<1>12. CASE UNCHANGED storeVars
  BY <1>12 DEF storeVars
<1>13. QED
  BY <1>1, <1>2, <1>3, <1>4, <1>5, <1>6, <1>7, <1>8, <1>9, <1>10, <1>11, <1>12
  DEF StoreNext, CaseMethod, GrantMethod

\* The rows always have the columns and values of the schema.
THEOREM StoreTypeCorrect == StoreSpec => []StoreTypeOK
BY InitTypeOK, StepTypeOK, PTL DEF StoreSpec

-----------------------------------------------------------------------------
(* pending_action and closed_at follow the status *)

RowOK(row) ==
    /\ row.pending = pending_action_for_state(row.status)
    /\ row.closed <=> (row.status = "CLOSED")

RowsOK == \A c \in Cases : RowOK(cases[c])

\* A status written together with its pending_action and closed_at is consistent,
\* and so is the row with its round raised.
LEMMA MovedRowOK ==
    ASSUME NEW row \in CaseRow, NEW s, NEW b \in BOOLEAN, b <=> (s = "CLOSED"),
           NEW p, p = pending_action_for_state(s)
    PROVE  RowOK(Moved(row, s, p, b)) /\ RowOK(NextRound(Moved(row, s, p, b)))
BY DEF Moved, RowOK, NextRound, CaseRow

\* It suffices to look at the row an action replaces.
LEMMA OneRowChanges ==
    ASSUME StoreTypeOK, RowsOK, NEW c \in Cases, NEW row,
           cases' = [cases EXCEPT ![c] = row], RowOK(row)
    PROVE  RowsOK'
BY DEF StoreTypeOK, RowsOK, RowOK

LEMMA StepRowsOK ==
    ASSUME StoreTypeOK, RowsOK, [StoreNext]_storeVars
    PROVE  RowsOK'
<1>0. ASSUME NEW c \in Cases PROVE cases[c] \in CaseRow /\ RowOK(cases[c])
  BY <1>0 DEF StoreTypeOK, RowsOK
<1>1. ASSUME NEW c \in Cases, NEW base \in Commits \cup {NoRef},
             NEW trusted \in BOOLEAN, CreateCase(c, base, trusted)
      PROVE  RowsOK'
  <2>1. RowOK([NewCase EXCEPT !.status = "RECEIVED", !.base_commit = base,
                              !.trusted = trusted])
    BY DEF NewCase, RowOK, pending_action_for_state, NoAction
  <2>2. QED BY <1>1, <2>1, OneRowChanges DEF CreateCase
<1>2. ASSUME NEW c \in Cases, NEW trusted \in BOOLEAN, LinkSource(c, trusted)
      PROVE  RowsOK'
  <2>1. RowOK([cases[c] EXCEPT !.trusted = @ \/ trusted])
    BY <1>0 DEF CaseRow, RowOK
  <2>2. cases' = [cases EXCEPT ![c] = [cases[c] EXCEPT !.trusted = @ \/ trusted]]
    BY <1>2 DEF LinkSource
  <2>3. QED BY <2>1, <2>2, OneRowChanges
<1>3. ASSUME NEW c \in Cases, NEW id \in GrantIds,
             NEW action \in ALL_GRANTED_ACTIONS, IssueGrant(id, c, action)
      PROVE  RowsOK'
  BY <1>3 DEF IssueGrant, RowsOK, RowOK
<1>4. ASSUME NEW c \in Cases, CloseCase(c) PROVE RowsOK'
  <2>1. RowOK(Moved(cases[c], "CLOSED", NoAction, TRUE))
    BY <1>0, MovedRowOK DEF pending_action_for_state
  <2>2. QED BY <1>4, <2>1, OneRowChanges DEF CloseCase
<1>5. ASSUME NEW c \in Cases, RetryRepair(c) PROVE RowsOK'
  <2>1. RowOK(NextRound(Moved(cases[c], "REPAIRING", NoAction, FALSE)))
    BY <1>0, MovedRowOK DEF pending_action_for_state
  <2>2. QED BY <1>5, <2>1, OneRowChanges DEF RetryRepair
<1>6. ASSUME NEW c \in Cases, Cancel(c) PROVE RowsOK'
  <2>1. cases[c].closed \in BOOLEAN /\ ~cases[c].closed
    BY <1>0, <1>6, DeadEnds DEF Cancel, RowOK, CaseRow
  <2>2. cases[c].closed = FALSE
    BY <2>1
  <2>3. RowOK(Moved(cases[c], "ESCALATED", NoAction, FALSE))
    BY <1>0, MovedRowOK DEF pending_action_for_state
  <2>4. QED BY <1>6, <2>2, <2>3, OneRowChanges DEF Cancel
<1>7. ASSUME NEW c \in Cases, NEW s \in OrchestratorTargets, transition_case(c, s)
      PROVE  RowsOK'
  <2> DEFINE moved == Moved(cases[c], s, PendingArgument(s), Closes(s))
  <2>1. RowOK(moved) /\ RowOK(NextRound(moved))
    BY <1>0, MovedRowOK DEF PendingArgument, Closes
  <2>2. QED BY <1>7, <2>1, OneRowChanges DEF transition_case
<1>8. ASSUME NEW c \in Cases, NEW p \in Patches, NEW q \in Patches,
             set_patch_context(c, p, q)
      PROVE  RowsOK'
  <2>1. RowOK([cases[c] EXCEPT !.patch_ref = p, !.sandbox_ref = q])
    BY <1>0 DEF CaseRow, RowOK
  <2>2. cases' = [cases EXCEPT ![c] = [cases[c] EXCEPT !.patch_ref = p, !.sandbox_ref = q]]
    BY <1>8 DEF set_patch_context
  <2>3. QED BY <2>1, <2>2, OneRowChanges
<1>9. ASSUME NEW c \in Cases, NEW p \in Patches, set_patch_ref(c, p)
      PROVE  RowsOK'
  <2>1. RowOK([cases[c] EXCEPT !.patch_ref = p])
    BY <1>0 DEF CaseRow, RowOK
  <2>2. cases' = [cases EXCEPT ![c] = [cases[c] EXCEPT !.patch_ref = p]]
    BY <1>9 DEF set_patch_ref
  <2>3. QED BY <2>1, <2>2, OneRowChanges
<1>10. ASSUME NEW g \in grants, ConsumeGrant(g) PROVE RowsOK'
  <2>1. g.case \in Cases /\ g.action \in ALL_GRANTED_ACTIONS
    BY DEF StoreTypeOK, GrantRow
  <2>2. cases[g.case].status # "CLOSED"
    BY <1>10 DEF ConsumeGrant, AwaitsDecision, GateState
  <2>3. cases[g.case].closed = FALSE
    BY <1>0, <2>1, <2>2 DEF RowOK, CaseRow
  <2>4. RowOK(Moved(cases[g.case], DecidedState(g.action), NoAction, FALSE))
    BY <1>0, <2>1, MovedRowOK, DecisionPassesGate
  <2>5. QED BY <1>10, <2>1, <2>3, <2>4, OneRowChanges DEF ConsumeGrant
<1>11. ASSUME NEW g \in grants, ExpireGrant(g) PROVE RowsOK'
  BY <1>11 DEF ExpireGrant, RowsOK, RowOK
<1>12. CASE UNCHANGED storeVars
  BY <1>12 DEF storeVars, RowsOK, RowOK
<1>13. QED
  BY <1>1, <1>2, <1>3, <1>4, <1>5, <1>6, <1>7, <1>8, <1>9, <1>10, <1>11, <1>12
  DEF StoreNext, CaseMethod, GrantMethod

\* pending_action and closed_at always agree with the status.
THEOREM StatusColumnsAgree == StoreSpec => [](PendingMatchesStatus /\ ClosedAtMatchesStatus)
<1>1. StoreInit => RowsOK
  BY DEF StoreInit, RowsOK, RowOK, NewCase, pending_action_for_state, Absent
<1>2. StoreTypeOK /\ RowsOK /\ [StoreNext]_storeVars => RowsOK'
  BY StepRowsOK
<1>3. RowsOK => PendingMatchesStatus /\ ClosedAtMatchesStatus
  BY DEF RowsOK, RowOK, PendingMatchesStatus, ClosedAtMatchesStatus
<1>4. QED BY <1>1, <1>2, <1>3, StoreTypeCorrect, PTL DEF StoreSpec

-----------------------------------------------------------------------------
(* Grants are spent once *)

GrantIdsUnique == \A g, h \in grants : g.id = h.id => g = h

GrantsOK == GrantIdsUnique /\ GrantSpentOnce

\* Issuing a Grant: its id is on no Grant, hence on no approval.
LEMMA IssueKeepsGrants ==
    ASSUME StoreTypeOK, GrantsOK, NEW c \in Cases, NEW id \in GrantIds,
           NEW action \in ALL_GRANTED_ACTIONS, IssueGrant(id, c, action)
    PROVE  GrantsOK'
<1> DEFINE new == [id |-> id, case |-> c, action |-> action,
                   target_ref |-> VersionOf(cases[c], action)]
<1>1. /\ grants' = grants \cup {new} /\ new.id = id
      /\ usedGrants' = usedGrants /\ approvals' = approvals
      /\ \A g \in grants : g.id # id
  BY DEF IssueGrant
<1>2. \A a \in approvals : a.grant # id
  BY <1>1, GrantsAssumption DEF GrantsOK, GrantSpentOnce, StoreTypeOK
<1>3. new \notin usedGrants
  BY <1>1 DEF StoreTypeOK
<1>4. GrantIdsUnique'
  BY <1>1 DEF GrantsOK, GrantIdsUnique
<1>5. GrantSpentOnce'
  BY <1>1, <1>2, <1>3 DEF GrantsOK, GrantSpentOnce
<1>6. QED BY <1>4, <1>5 DEF GrantsOK

\* A row without a Grant changes nothing.
LEMMA UngrantedRowKeepsGrants ==
    ASSUME GrantsOK, NEW row, row.grant = NoGrant, StoreTypeOK,
           approvals' = approvals \cup {row}, UNCHANGED <<grants, usedGrants>>
    PROVE  GrantsOK'
<1>1. \A g \in grants : g.id # NoGrant
  BY GrantsAssumption DEF StoreTypeOK, GrantRow
<1>2. GrantIdsUnique'
  BY DEF GrantsOK, GrantIdsUnique
<1>3. GrantSpentOnce'
  BY <1>1 DEF GrantsOK, GrantSpentOnce
<1>4. QED BY <1>2, <1>3 DEF GrantsOK

\* Consuming a Grant adds it to the used ones together with its row.
LEMMA ConsumeKeepsGrants ==
    ASSUME StoreTypeOK, GrantsOK, NEW g \in grants, ConsumeGrant(g)
    PROVE  GrantsOK'
<1> DEFINE row == Approval(g.case, g.action, g.id, g.target_ref)
<1>1. /\ grants' = grants
      /\ usedGrants' = usedGrants \cup {g}
      /\ approvals' = approvals \cup {row}
      /\ g \notin usedGrants
  BY DEF ConsumeGrant, MarkUsed, Record
<1>2. /\ row.grant = g.id /\ row.case = g.case
      /\ row.action = g.action /\ row.target_ref = g.target_ref
  BY DEF Approval
<1>3. \A a \in approvals : a.grant # g.id
  BY <1>1 DEF GrantsOK, GrantSpentOnce
<1>4. GrantIdsUnique'
  BY <1>1 DEF GrantsOK, GrantIdsUnique
<1>5. \A h \in grants : h.id = g.id => h = g
  BY DEF GrantsOK, GrantIdsUnique
<1> HIDE DEF row
<1>6. GrantSpentOnce'
  <2>1. \A h \in grants' : (h \in usedGrants') <=> \E a \in approvals' : a.grant = h.id
    BY <1>1, <1>2, <1>3, <1>5 DEF GrantsOK, GrantSpentOnce
  <2>2. \A a \in approvals' :
           a.grant # NoGrant =>
              \E h \in usedGrants' : /\ h.id = a.grant /\ h.case = a.case
                                     /\ h.action = a.action
                                     /\ h.target_ref = a.target_ref
    BY <1>1, <1>2 DEF GrantsOK, GrantSpentOnce
  <2>3. \A a, b \in approvals' : a.grant = b.grant /\ a.grant # NoGrant => a = b
    BY <1>1, <1>2, <1>3 DEF GrantsOK, GrantSpentOnce
  <2>4. QED BY <2>1, <2>2, <2>3 DEF GrantSpentOnce
<1>7. QED BY <1>4, <1>6 DEF GrantsOK

LEMMA StepGrantsOK ==
    ASSUME StoreTypeOK, GrantsOK, [StoreNext]_storeVars
    PROVE  GrantsOK'
<1>1. CASE UNCHANGED <<grants, usedGrants, approvals>>
  BY <1>1 DEF GrantsOK, GrantIdsUnique, GrantSpentOnce
<1>2. ASSUME NEW c \in Cases, CloseCase(c) \/ RetryRepair(c) \/ Cancel(c)
      PROVE  GrantsOK'
  <2>1. \A action, ref : LET row == Approval(c, action, NoGrant, ref)
                         IN  row.grant = NoGrant /\ NextRound(row).grant = NoGrant
    BY DEF Approval, NextRound
  <2>2. QED BY <1>2, <2>1, UngrantedRowKeepsGrants DEF CloseCase, RetryRepair, Cancel, Record
<1>3. QED
  BY <1>1, <1>2, IssueKeepsGrants, ConsumeKeepsGrants
  DEF StoreNext, CaseMethod, GrantMethod, CreateCase, LinkSource, transition_case,
      set_patch_context, set_patch_ref, ExpireGrant, storeVars

\* However requests interleave, a one-time Grant is spent at most once, and every
\* granted decision names the Grant that allowed it.
THEOREM GrantsSpentOnce == StoreSpec => []GrantSpentOnce
<1>1. StoreInit => GrantsOK
  BY DEF StoreInit, GrantsOK, GrantIdsUnique, GrantSpentOnce
<1>2. StoreTypeOK /\ GrantsOK /\ [StoreNext]_storeVars => GrantsOK'
  BY StepGrantsOK
<1>3. GrantsOK => GrantSpentOnce
  BY DEF GrantsOK
<1>4. QED BY <1>1, <1>2, <1>3, StoreTypeCorrect, PTL DEF StoreSpec

-----------------------------------------------------------------------------
(* A gate is decided once per round *)

\* Row a records a decision the Case has left behind.
Past(a, row) ==
    /\ a.round <= row.round
    /\ row.status \in PlanDecided
    /\ a.round = row.round => row.status \in Decided(a.action)

DecisionsArePast ==
    \A a \in approvals :
        a.grant # NoGrant => a.action \in ALL_GRANTED_ACTIONS /\ Past(a, cases[a.case])

DecisionsOK == DecisionsArePast /\ GateDecidedOnce

\* The status moves along the table, and the round rises on a re-entry.
Advances(row, new) ==
    \/ new.status = row.status /\ new.round = row.round
    \/ /\ is_valid_transition(row.status, new.status)
       /\ new.round = IF new.status = "REPAIRING" /\ row.status # "PLAN_APPROVAL"
                      THEN row.round + 1 ELSE row.round
    \/ /\ is_valid_transition(row.status, new.status)
       /\ new.round = row.round + 1

\* What is past stays past.
LEMMA PastStaysPast ==
    ASSUME NEW a, NEW row, NEW new, a.round \in Nat, row.round \in Nat,
           Past(a, row), Advances(row, new)
    PROVE  Past(a, new)
<1>1. CASE new.status = row.status /\ new.round = row.round
  BY <1>1 DEF Past
<1>2. CASE is_valid_transition(row.status, new.status) /\ new.round = row.round + 1
  BY <1>2, NoWayBack DEF Past
<1>3. CASE /\ is_valid_transition(row.status, new.status)
           /\ new.round = row.round
           /\ new.status # "REPAIRING" \/ row.status = "PLAN_APPROVAL"
  <2>1. row.status # "PLAN_APPROVAL"
    BY DEF Past, PlanDecided
  <2>2. QED BY <1>3, <2>1, NoWayBack DEF Past, Decided
<1>4. QED BY <1>1, <1>2, <1>3 DEF Advances

\* A step that advances Cases and records no granted decision.
LEMMA AdvanceKeepsDecisions ==
    ASSUME StoreTypeOK, DecisionsOK,
           \A c \in Cases : cases[c].status = Absent \/ Advances(cases[c], cases'[c]),
           \A a \in approvals' \ approvals : a.grant = NoGrant
    PROVE  DecisionsOK'
<1>1. ASSUME NEW a \in approvals', a.grant # NoGrant
      PROVE  a \in approvals /\ a.action \in ALL_GRANTED_ACTIONS /\ Past(a, cases'[a.case])
  <2>1. a \in approvals
    BY <1>1
  <2>2. a.case \in Cases /\ a.round \in Nat
    BY <2>1 DEF StoreTypeOK, ApprovalRow
  <2>3. a.action \in ALL_GRANTED_ACTIONS /\ Past(a, cases[a.case])
    BY <1>1, <2>1 DEF DecisionsOK, DecisionsArePast
  <2>4. cases[a.case].status # Absent /\ cases[a.case].round \in Nat
    BY <2>2, <2>3 DEF Past, PlanDecided, Absent, StoreTypeOK, CaseRow
  <2>5. QED BY <2>1, <2>2, <2>3, <2>4, PastStaysPast
<1>2. DecisionsArePast'
  BY <1>1 DEF DecisionsArePast
<1>3. GateDecidedOnce'
  BY <1>1 DEF DecisionsOK, GateDecidedOnce
<1>4. QED BY <1>2, <1>3 DEF DecisionsOK

\* A consumed Grant decides a gate nothing decided in this round.
LEMMA ConsumeKeepsDecisions ==
    ASSUME StoreTypeOK, DecisionsOK, NEW g \in grants, ConsumeGrant(g)
    PROVE  DecisionsOK'
<1> DEFINE row == Approval(g.case, g.action, g.id, g.target_ref)
           new == Moved(cases[g.case], DecidedState(g.action), NoAction,
                        cases[g.case].closed)
<1>1. g.case \in Cases /\ g.action \in ALL_GRANTED_ACTIONS
  BY DEF StoreTypeOK, GrantRow
<1>2. /\ cases[g.case] \in CaseRow /\ cases[g.case].round \in Nat
      /\ cases[g.case].status = GateState(g.action)
  BY <1>1 DEF StoreTypeOK, CaseRow, ConsumeGrant, AwaitsDecision
<1>3. cases' = [cases EXCEPT ![g.case] = new] /\ approvals' = approvals \cup {row}
  BY DEF ConsumeGrant, Record
<1>4. new.status = DecidedState(g.action) /\ new.round = cases[g.case].round
  BY <1>2 DEF Moved, CaseRow
<1>5. /\ row.case = g.case /\ row.action = g.action
      /\ row.round = cases[g.case].round
  BY DEF Approval
<1>6. Past(row, new)
  BY <1>1, <1>2, <1>4, <1>5, DecisionPassesGate DEF Past
<1>7. Advances(cases[g.case], new)
  <2>1. is_valid_transition(GateState(g.action), DecidedState(g.action))
    BY <1>1 DEF is_valid_transition, TRANSITIONS, GateState, DecidedState,
       ALL_GRANTED_ACTIONS, APPROVAL_ACTIONS, REJECT_ACTIONS
  <2>2. DecidedState(g.action) = "REPAIRING" => GateState(g.action) = "PLAN_APPROVAL"
    BY <1>1 DEF GateState, DecidedState, ALL_GRANTED_ACTIONS, APPROVAL_ACTIONS,
       REJECT_ACTIONS
  <2>3. QED BY <1>2, <1>4, <2>1, <2>2 DEF Advances
<1> HIDE DEF row, new
<1>8. \A c \in Cases : cases'[c] = IF c = g.case THEN new ELSE cases[c]
  BY <1>1, <1>3 DEF StoreTypeOK
<1>9. ASSUME NEW a \in approvals, a.grant # NoGrant
      PROVE  /\ a.case \in Cases /\ a.action \in ALL_GRANTED_ACTIONS
             /\ Past(a, cases[a.case]) /\ Past(a, cases'[a.case])
  <2>1. a.case \in Cases /\ a.round \in Nat
    BY DEF StoreTypeOK, ApprovalRow
  <2>2. a.action \in ALL_GRANTED_ACTIONS /\ Past(a, cases[a.case])
    BY <1>9 DEF DecisionsOK, DecisionsArePast
  <2>3. cases[a.case].round \in Nat
    BY <2>1 DEF StoreTypeOK, CaseRow
  <2>4. Advances(cases[a.case], cases'[a.case])
    BY <1>7, <1>8, <2>1 DEF Advances
  <2>5. QED BY <2>1, <2>2, <2>3, <2>4, PastStaysPast
<1>10. DecisionsArePast'
  BY <1>1, <1>3, <1>5, <1>6, <1>8, <1>9 DEF DecisionsArePast
<1>11. \A a \in approvals : a.grant # NoGrant /\ a.case = row.case /\ a.round = row.round
                               => GateState(a.action) # GateState(row.action)
  <2> SUFFICES ASSUME NEW a \in approvals, a.grant # NoGrant, a.case = row.case,
                      a.round = row.round
               PROVE  GateState(a.action) # GateState(row.action)
    OBVIOUS
  <2>1. Past(a, cases[g.case])
    BY <1>9, <1>5
  <2>2. GateState(g.action) \in Decided(a.action)
    BY <1>2, <1>5, <2>1 DEF Past
  <2>3. GateState(a.action) \notin Decided(a.action)
    BY <1>9, DecisionPassesGate
  <2>4. QED BY <1>5, <2>2, <2>3
<1>12. GateDecidedOnce'
  BY <1>3, <1>11 DEF DecisionsOK, GateDecidedOnce
<1>13. QED BY <1>10, <1>12 DEF DecisionsOK

\* Every step but a consumed Grant advances the Cases and records no granted
\* decision.
LEMMA StepDecisionsOK ==
    ASSUME StoreTypeOK, DecisionsOK, [StoreNext]_storeVars
    PROVE  DecisionsOK'
<1>0. ASSUME NEW c \in Cases PROVE cases[c] \in CaseRow
  BY <1>0 DEF StoreTypeOK
<1>1. ASSUME NEW c \in Cases, NEW new, cases' = [cases EXCEPT ![c] = new],
             cases[c].status = Absent \/ Advances(cases[c], new),
             \A a \in approvals' \ approvals : a.grant = NoGrant
      PROVE  DecisionsOK'
  <2>1. \A d \in Cases : cases[d].status = Absent \/ Advances(cases[d], cases'[d])
    BY <1>1 DEF StoreTypeOK, Advances
  <2>2. QED BY <1>1, <2>1, AdvanceKeepsDecisions
<1>2. ASSUME NEW c \in Cases, NEW new, cases' = [cases EXCEPT ![c] = new],
             new.status = cases[c].status, new.round = cases[c].round,
             UNCHANGED approvals
      PROVE  DecisionsOK'
  BY <1>1, <1>2 DEF Advances
<1>3. ASSUME NEW c \in Cases, NEW base \in Commits \cup {NoRef},
             NEW trusted \in BOOLEAN, CreateCase(c, base, trusted)
      PROVE  DecisionsOK'
  BY <1>1, <1>3 DEF CreateCase
<1>4. ASSUME NEW c \in Cases, NEW trusted \in BOOLEAN, LinkSource(c, trusted)
      PROVE  DecisionsOK'
  <2> DEFINE new == [cases[c] EXCEPT !.trusted = @ \/ trusted]
  <2>1. cases' = [cases EXCEPT ![c] = new] /\ UNCHANGED approvals
    BY <1>4 DEF LinkSource
  <2>2. new.status = cases[c].status /\ new.round = cases[c].round
    BY <1>0 DEF CaseRow
  <2>3. QED BY <1>2, <2>1, <2>2
<1>5. ASSUME NEW c \in Cases, CloseCase(c) PROVE DecisionsOK'
  <2> DEFINE new == Moved(cases[c], "CLOSED", NoAction, TRUE)
  <2>1. new.status = "CLOSED" /\ new.round = cases[c].round
    BY <1>0 DEF Moved, CaseRow
  <2>2. /\ cases' = [cases EXCEPT ![c] = new]
        /\ is_valid_transition(cases[c].status, "CLOSED")
        /\ \A a \in approvals' \ approvals : a.grant = NoGrant
    BY <1>5 DEF CloseCase, Record, Approval
  <2>3. Advances(cases[c], new)
    BY <2>1, <2>2 DEF Advances
  <2>4. QED BY <1>1, <2>2, <2>3
<1>6. ASSUME NEW c \in Cases, RetryRepair(c) PROVE DecisionsOK'
  <2> DEFINE new == NextRound(Moved(cases[c], "REPAIRING", NoAction, FALSE))
  <2>1. new.status = "REPAIRING" /\ new.round = cases[c].round + 1
    BY <1>0 DEF Moved, NextRound, CaseRow
  <2>2. /\ cases' = [cases EXCEPT ![c] = new]
        /\ is_valid_transition(cases[c].status, "REPAIRING")
        /\ \A a \in approvals' \ approvals : a.grant = NoGrant
    BY <1>6 DEF RetryRepair, Record, Approval, NextRound
  <2>3. Advances(cases[c], new)
    BY <2>1, <2>2 DEF Advances
  <2>4. QED BY <1>1, <2>2, <2>3
<1>7. ASSUME NEW c \in Cases, Cancel(c) PROVE DecisionsOK'
  <2> DEFINE new == Moved(cases[c], "ESCALATED", NoAction, cases[c].closed)
  <2>1. new.status = "ESCALATED" /\ new.round = cases[c].round
    BY <1>0 DEF Moved, CaseRow
  <2>2. /\ cases' = [cases EXCEPT ![c] = new]
        /\ is_valid_transition(cases[c].status, "ESCALATED")
        /\ \A a \in approvals' \ approvals : a.grant = NoGrant
    BY <1>7 DEF Cancel, Record, Approval
  <2>3. Advances(cases[c], new)
    BY <2>1, <2>2 DEF Advances
  <2>4. QED BY <1>1, <2>2, <2>3
<1>8. ASSUME NEW c \in Cases, NEW s \in OrchestratorTargets, transition_case(c, s)
      PROVE  DecisionsOK'
  <2> DEFINE moved == Moved(cases[c], s, PendingArgument(s), Closes(s))
             new == IF s = "REPAIRING" THEN NextRound(moved) ELSE moved
  <2>1. /\ new.status = s
        /\ new.round = IF s = "REPAIRING" THEN cases[c].round + 1 ELSE cases[c].round
    BY <1>0 DEF Moved, NextRound, CaseRow
  <2>2. /\ cases' = [cases EXCEPT ![c] = new]
        /\ is_valid_transition(cases[c].status, s)
        /\ \A a \in approvals' \ approvals : a.grant = NoGrant
    BY <1>8 DEF transition_case
  <2>3. Advances(cases[c], new)
    BY <2>1, <2>2 DEF Advances
  <2>4. QED BY <1>1, <2>2, <2>3
<1>9. ASSUME NEW c \in Cases, NEW p \in Patches, NEW q \in Patches,
             set_patch_context(c, p, q)
      PROVE  DecisionsOK'
  <2> DEFINE new == [cases[c] EXCEPT !.patch_ref = p, !.sandbox_ref = q]
  <2>1. cases' = [cases EXCEPT ![c] = new] /\ UNCHANGED approvals
    BY <1>9 DEF set_patch_context
  <2>2. new.status = cases[c].status /\ new.round = cases[c].round
    BY <1>0 DEF CaseRow
  <2>3. QED BY <1>2, <2>1, <2>2
<1>10. ASSUME NEW c \in Cases, NEW p \in Patches, set_patch_ref(c, p)
       PROVE  DecisionsOK'
  <2> DEFINE new == [cases[c] EXCEPT !.patch_ref = p]
  <2>1. cases' = [cases EXCEPT ![c] = new] /\ UNCHANGED approvals
    BY <1>10 DEF set_patch_ref
  <2>2. new.status = cases[c].status /\ new.round = cases[c].round
    BY <1>0 DEF CaseRow
  <2>3. QED BY <1>2, <2>1, <2>2
<1>11. CASE UNCHANGED <<cases, approvals>>
  BY <1>11 DEF DecisionsOK, DecisionsArePast, GateDecidedOnce, Past
<1>12. QED
  BY <1>3, <1>4, <1>5, <1>6, <1>7, <1>8, <1>9, <1>10, <1>11, ConsumeKeepsDecisions
  DEF StoreNext, CaseMethod, GrantMethod, IssueGrant, ExpireGrant, storeVars

\* However many Grants are out for a gate, one decision per round takes effect.
THEOREM GateDecisionIsUnique == StoreSpec => []GateDecidedOnce
<1>1. StoreInit => DecisionsOK
  BY DEF StoreInit, DecisionsOK, DecisionsArePast, GateDecidedOnce
<1>2. StoreTypeOK /\ DecisionsOK /\ [StoreNext]_storeVars => DecisionsOK'
  BY StepDecisionsOK
<1>3. DecisionsOK => GateDecidedOnce
  BY DEF DecisionsOK
<1>4. QED BY <1>1, <1>2, <1>3, StoreTypeCorrect, PTL DEF StoreSpec

-----------------------------------------------------------------------------
(* RELEASED only by a recorded approval *)

\* A step that moves no Case into RELEASED or ROLLED_BACK.
LEMMA NoReleaseHere ==
    ASSUME StoreTypeOK, ReleaseHasApproval, NEW c \in Cases, NEW new,
           cases' = [cases EXCEPT ![c] = new], approvals \subseteq approvals',
           \/ new.status = cases[c].status /\ new.round = cases[c].round
           \/ new.status \notin {"RELEASED", "ROLLED_BACK"}
    PROVE  ReleaseHasApproval'
<1> SUFFICES ASSUME NEW d \in Cases, cases'[d].status \in {"RELEASED", "ROLLED_BACK"}
             PROVE  \E a \in approvals' : /\ a.case = d
                                          /\ a.action = "approve_release"
                                          /\ a.round = cases'[d].round
  BY DEF ReleaseHasApproval
<1>1. cases'[d].status = cases[d].status /\ cases'[d].round = cases[d].round
  BY DEF StoreTypeOK
<1>2. QED BY <1>1 DEF ReleaseHasApproval

LEMMA StepReleaseHasApproval ==
    ASSUME StoreTypeOK, ReleaseHasApproval, [StoreNext]_storeVars
    PROVE  ReleaseHasApproval'
<1>0. ASSUME NEW c \in Cases PROVE cases[c] \in CaseRow
  BY <1>0 DEF StoreTypeOK
<1>1. ASSUME NEW c \in Cases, NEW base \in Commits \cup {NoRef},
             NEW trusted \in BOOLEAN, CreateCase(c, base, trusted)
      PROVE  ReleaseHasApproval'
  <2>1. [NewCase EXCEPT !.status = "RECEIVED", !.base_commit = base,
                        !.trusted = trusted].status = "RECEIVED"
    BY DEF NewCase
  <2>2. QED BY <1>1, <2>1, NoReleaseHere DEF CreateCase
<1>2. ASSUME NEW c \in Cases, NEW trusted \in BOOLEAN, LinkSource(c, trusted)
      PROVE  ReleaseHasApproval'
  <2> DEFINE new == [cases[c] EXCEPT !.trusted = @ \/ trusted]
  <2>1. cases' = [cases EXCEPT ![c] = new] /\ UNCHANGED approvals
    BY <1>2 DEF LinkSource
  <2>2. new.status = cases[c].status /\ new.round = cases[c].round
    BY <1>0 DEF CaseRow
  <2>3. QED BY <2>1, <2>2, NoReleaseHere
<1>3. ASSUME NEW c \in Cases, CloseCase(c) PROVE ReleaseHasApproval'
  <2>1. Moved(cases[c], "CLOSED", NoAction, TRUE).status = "CLOSED"
    BY <1>0 DEF Moved, CaseRow
  <2>2. QED BY <1>3, <2>1, NoReleaseHere DEF CloseCase, Record
<1>4. ASSUME NEW c \in Cases, RetryRepair(c) PROVE ReleaseHasApproval'
  <2>1. NextRound(Moved(cases[c], "REPAIRING", NoAction, FALSE)).status = "REPAIRING"
    BY <1>0 DEF Moved, NextRound, CaseRow
  <2>2. QED BY <1>4, <2>1, NoReleaseHere DEF RetryRepair, Record
<1>5. ASSUME NEW c \in Cases, Cancel(c) PROVE ReleaseHasApproval'
  <2>1. Moved(cases[c], "ESCALATED", NoAction, cases[c].closed).status = "ESCALATED"
    BY <1>0 DEF Moved, CaseRow
  <2>2. QED BY <1>5, <2>1, NoReleaseHere DEF Cancel, Record
<1>6. ASSUME NEW c \in Cases, NEW s \in OrchestratorTargets, transition_case(c, s)
      PROVE  ReleaseHasApproval'
  <2> DEFINE moved == Moved(cases[c], s, PendingArgument(s), Closes(s))
             new == IF s = "REPAIRING" THEN NextRound(moved) ELSE moved
  <2>1. new.status = s /\ s \notin {"RELEASED", "ROLLED_BACK"}
    BY <1>0 DEF Moved, NextRound, CaseRow, OrchestratorTargets
  <2>2. cases' = [cases EXCEPT ![c] = new] /\ UNCHANGED approvals
    BY <1>6 DEF transition_case
  <2>3. QED BY <2>1, <2>2, NoReleaseHere
<1>7. ASSUME NEW c \in Cases, NEW p \in Patches, NEW q \in Patches,
             set_patch_context(c, p, q)
      PROVE  ReleaseHasApproval'
  <2> DEFINE new == [cases[c] EXCEPT !.patch_ref = p, !.sandbox_ref = q]
  <2>1. cases' = [cases EXCEPT ![c] = new] /\ UNCHANGED approvals
    BY <1>7 DEF set_patch_context
  <2>2. new.status = cases[c].status /\ new.round = cases[c].round
    BY <1>0 DEF CaseRow
  <2>3. QED BY <2>1, <2>2, NoReleaseHere
<1>8. ASSUME NEW c \in Cases, NEW p \in Patches, set_patch_ref(c, p)
      PROVE  ReleaseHasApproval'
  <2> DEFINE new == [cases[c] EXCEPT !.patch_ref = p]
  <2>1. cases' = [cases EXCEPT ![c] = new] /\ UNCHANGED approvals
    BY <1>8 DEF set_patch_ref
  <2>2. new.status = cases[c].status /\ new.round = cases[c].round
    BY <1>0 DEF CaseRow
  <2>3. QED BY <2>1, <2>2, NoReleaseHere
<1>9. ASSUME NEW g \in grants, ConsumeGrant(g) PROVE ReleaseHasApproval'
  <2> DEFINE new == Moved(cases[g.case], DecidedState(g.action), NoAction,
                          cases[g.case].closed)
             row == Approval(g.case, g.action, g.id, g.target_ref)
  <2>1. g.case \in Cases /\ g.action \in ALL_GRANTED_ACTIONS
    BY DEF StoreTypeOK, GrantRow
  <2>2. new.status = DecidedState(g.action) /\ new.round = cases[g.case].round
    BY <1>0, <2>1 DEF Moved, CaseRow
  <2>3. cases' = [cases EXCEPT ![g.case] = new] /\ approvals' = approvals \cup {row}
    BY <1>9 DEF ConsumeGrant, Record
  <2>4. row.case = g.case /\ row.action = g.action /\ row.round = cases[g.case].round
    BY DEF Approval
  <2>5. /\ DecidedState(g.action) # "ROLLED_BACK"
        /\ DecidedState(g.action) = "RELEASED" => g.action = "approve_release"
    BY <2>1, DecisionPassesGate
  <2> HIDE DEF new, row
  <2>6. CASE DecidedState(g.action) # "RELEASED"
    BY <2>1, <2>2, <2>3, <2>5, <2>6, NoReleaseHere
  <2>7. CASE DecidedState(g.action) = "RELEASED"
    <3>1. \A d \in Cases : cases'[d] = IF d = g.case THEN new ELSE cases[d]
      BY <2>1, <2>3 DEF StoreTypeOK
    <3>2. QED BY <2>2, <2>3, <2>4, <2>5, <2>7, <3>1 DEF ReleaseHasApproval
  <2>8. QED BY <2>6, <2>7
<1>10. CASE UNCHANGED <<cases, approvals>>
  BY <1>10 DEF ReleaseHasApproval
<1>11. QED
  BY <1>1, <1>2, <1>3, <1>4, <1>5, <1>6, <1>7, <1>8, <1>9, <1>10
  DEF StoreNext, CaseMethod, GrantMethod, IssueGrant, ExpireGrant, storeVars

\* No sequence of store calls releases a Case without a human approval recorded in
\* its current round.
THEOREM ReleaseIsApproved == StoreSpec => []ReleaseHasApproval
<1>1. StoreInit => ReleaseHasApproval
  BY DEF StoreInit, ReleaseHasApproval, NewCase, Absent
<1>2. StoreTypeOK /\ ReleaseHasApproval /\ [StoreNext]_storeVars => ReleaseHasApproval'
  BY StepReleaseHasApproval
<1>3. QED BY <1>1, <1>2, StoreTypeCorrect, PTL DEF StoreSpec

-----------------------------------------------------------------------------
(* Every decision is recorded *)

\* What a step writes to the row of a Case moves its status along the table, or
\* leaves it alone.
LEMMA OneRowMoves ==
    ASSUME StoreTypeOK, NEW d \in Cases, NEW new,
           cases' = [cases EXCEPT ![d] = new],
           \/ new.status = cases[d].status
           \/ is_valid_transition(cases[d].status, new.status)
           \/ cases[d].status = Absent,
           NEW c \in Cases
    PROVE  \/ cases'[c].status = cases[c].status
           \/ is_valid_transition(cases[c].status, cases'[c].status)
           \/ cases[c].status = Absent
BY DEF StoreTypeOK

LEMMA StatusMoves ==
    ASSUME StoreTypeOK, [StoreNext]_storeVars, NEW c \in Cases
    PROVE  \/ cases'[c].status = cases[c].status
           \/ is_valid_transition(cases[c].status, cases'[c].status)
           \/ cases[c].status = Absent
<1> DEFINE Moves == \/ cases'[c].status = cases[c].status
                    \/ is_valid_transition(cases[c].status, cases'[c].status)
                    \/ cases[c].status = Absent
<1>0. ASSUME NEW d \in Cases PROVE cases[d] \in CaseRow
  BY <1>0 DEF StoreTypeOK
<1>1. ASSUME NEW d \in Cases, NEW base \in Commits \cup {NoRef},
             NEW trusted \in BOOLEAN, CreateCase(d, base, trusted)
      PROVE  Moves
  BY <1>1, OneRowMoves DEF CreateCase
<1>2. ASSUME NEW d \in Cases, NEW trusted \in BOOLEAN, LinkSource(d, trusted)
      PROVE  Moves
  <2> DEFINE new == [cases[d] EXCEPT !.trusted = @ \/ trusted]
  <2>1. cases' = [cases EXCEPT ![d] = new]
    BY <1>2 DEF LinkSource
  <2>2. new.status = cases[d].status
    BY <1>0 DEF CaseRow
  <2>3. QED BY <2>1, <2>2, OneRowMoves
<1>3. ASSUME NEW d \in Cases, CloseCase(d) PROVE Moves
  <2>1. Moved(cases[d], "CLOSED", NoAction, TRUE).status = "CLOSED"
    BY <1>0 DEF Moved, CaseRow
  <2>2. QED BY <1>3, <2>1, OneRowMoves DEF CloseCase
<1>4. ASSUME NEW d \in Cases, RetryRepair(d) PROVE Moves
  <2>1. NextRound(Moved(cases[d], "REPAIRING", NoAction, FALSE)).status = "REPAIRING"
    BY <1>0 DEF Moved, NextRound, CaseRow
  <2>2. QED BY <1>4, <2>1, OneRowMoves DEF RetryRepair
<1>5. ASSUME NEW d \in Cases, Cancel(d) PROVE Moves
  <2>1. Moved(cases[d], "ESCALATED", NoAction, cases[d].closed).status = "ESCALATED"
    BY <1>0 DEF Moved, CaseRow
  <2>2. QED BY <1>5, <2>1, OneRowMoves DEF Cancel
<1>6. ASSUME NEW d \in Cases, NEW s \in OrchestratorTargets, transition_case(d, s)
      PROVE  Moves
  <2> DEFINE moved == Moved(cases[d], s, PendingArgument(s), Closes(s))
             new == IF s = "REPAIRING" THEN NextRound(moved) ELSE moved
  <2>1. new.status = s
    BY <1>0 DEF Moved, NextRound, CaseRow
  <2>2. cases' = [cases EXCEPT ![d] = new] /\ is_valid_transition(cases[d].status, s)
    BY <1>6 DEF transition_case
  <2>3. QED BY <2>1, <2>2, OneRowMoves
<1>7. ASSUME NEW d \in Cases, NEW p \in Patches, NEW q \in Patches,
             set_patch_context(d, p, q)
      PROVE  Moves
  <2> DEFINE new == [cases[d] EXCEPT !.patch_ref = p, !.sandbox_ref = q]
  <2>1. cases' = [cases EXCEPT ![d] = new]
    BY <1>7 DEF set_patch_context
  <2>2. new.status = cases[d].status
    BY <1>0 DEF CaseRow
  <2>3. QED BY <2>1, <2>2, OneRowMoves
<1>8. ASSUME NEW d \in Cases, NEW p \in Patches, set_patch_ref(d, p) PROVE Moves
  <2> DEFINE new == [cases[d] EXCEPT !.patch_ref = p]
  <2>1. cases' = [cases EXCEPT ![d] = new]
    BY <1>8 DEF set_patch_ref
  <2>2. new.status = cases[d].status
    BY <1>0 DEF CaseRow
  <2>3. QED BY <2>1, <2>2, OneRowMoves
<1>9. ASSUME NEW g \in grants, ConsumeGrant(g) PROVE Moves
  <2>1. g.case \in Cases /\ g.action \in ALL_GRANTED_ACTIONS
    BY DEF StoreTypeOK, GrantRow
  <2>2. Moved(cases[g.case], DecidedState(g.action), NoAction,
              cases[g.case].closed).status = DecidedState(g.action)
    BY <1>0, <2>1 DEF Moved, CaseRow
  <2>3. is_valid_transition(GateState(g.action), DecidedState(g.action))
    BY <2>1 DEF is_valid_transition, TRANSITIONS, GateState, DecidedState,
       ALL_GRANTED_ACTIONS, APPROVAL_ACTIONS, REJECT_ACTIONS
  <2>4. QED BY <1>9, <2>1, <2>2, <2>3, OneRowMoves DEF ConsumeGrant, AwaitsDecision
<1>10. CASE UNCHANGED cases
  BY <1>10
<1>11. QED
  BY <1>1, <1>2, <1>3, <1>4, <1>5, <1>6, <1>7, <1>8, <1>9, <1>10
  DEF StoreNext, CaseMethod, GrantMethod, IssueGrant, ExpireGrant, storeVars

\* A Case with a close_case row is closed, and stays so.
ClosingsOK ==
    \A a \in approvals : a.action = "close_case" => cases[a.case].status = "CLOSED"

\* The rows a step adds: one, by the action that moves the Case it is about.
LEMMA RowsAdded ==
    ASSUME StoreTypeOK, GrantsOK, ClosingsOK, [StoreNext]_storeVars
    PROVE  /\ approvals \subseteq approvals'
           /\ \A a \in approvals' \ approvals :
                 /\ cases'[a.case].status # cases[a.case].status
                 /\ a.action = "close_case" => cases'[a.case].status = "CLOSED"
           /\ \A c \in Cases :
                 /\ cases'[c].status \in {"RELEASED", "CLOSED"}
                 /\ cases'[c].status # cases[c].status
                 => \E a \in approvals' \ approvals : a.case = c
<1> DEFINE Added == /\ approvals \subseteq approvals'
                    /\ \A a \in approvals' \ approvals :
                          /\ cases'[a.case].status # cases[a.case].status
                          /\ a.action = "close_case" => cases'[a.case].status = "CLOSED"
                    /\ \A c \in Cases :
                          /\ cases'[c].status \in {"RELEASED", "CLOSED"}
                          /\ cases'[c].status # cases[c].status
                          => \E a \in approvals' \ approvals : a.case = c
<1>0. ASSUME NEW d \in Cases PROVE cases[d] \in CaseRow
  BY <1>0 DEF StoreTypeOK
<1>A. ASSUME NEW d \in Cases, NEW new, cases' = [cases EXCEPT ![d] = new],
             UNCHANGED approvals,
             new.status = cases[d].status \/ new.status \notin {"RELEASED", "CLOSED"}
      PROVE  Added
  BY <1>A DEF StoreTypeOK
<1>B. ASSUME NEW d \in Cases, NEW new, cases' = [cases EXCEPT ![d] = new],
             NEW row, approvals' = approvals \cup {row}, row.case = d,
             new.status # cases[d].status,
             row.action = "close_case" => new.status = "CLOSED",
             row \notin approvals \/ new.status \notin {"RELEASED", "CLOSED"}
      PROVE  Added
  <2>1. \A c \in Cases : cases'[c] = IF c = d THEN new ELSE cases[c]
    BY <1>B DEF StoreTypeOK
  <2>2. QED BY <1>B, <2>1
<1>1. ASSUME NEW d \in Cases, NEW base \in Commits \cup {NoRef},
             NEW trusted \in BOOLEAN, CreateCase(d, base, trusted)
      PROVE  Added
  <2>1. [NewCase EXCEPT !.status = "RECEIVED", !.base_commit = base,
                        !.trusted = trusted].status = "RECEIVED"
    BY DEF NewCase
  <2>2. QED BY <1>1, <1>A, <2>1 DEF CreateCase
<1>2. ASSUME NEW d \in Cases, NEW trusted \in BOOLEAN, LinkSource(d, trusted)
      PROVE  Added
  <2> DEFINE new == [cases[d] EXCEPT !.trusted = @ \/ trusted]
  <2>1. cases' = [cases EXCEPT ![d] = new] /\ UNCHANGED approvals
    BY <1>2 DEF LinkSource
  <2>2. new.status = cases[d].status
    BY <1>0 DEF CaseRow
  <2> HIDE DEF new
  <2>3. QED BY <1>A, <2>1, <2>2
<1>3. ASSUME NEW d \in Cases, CloseCase(d) PROVE Added
  <2> DEFINE new == Moved(cases[d], "CLOSED", NoAction, TRUE)
             row == Approval(d, "close_case", NoGrant, NoRef)
  <2>1. new.status = "CLOSED" /\ row.case = d /\ row.action = "close_case"
    BY <1>0 DEF Moved, CaseRow, Approval
  <2>2. cases[d].status # "CLOSED"
    BY <1>3, DeadEnds DEF CloseCase
  <2>3. row \notin approvals
    BY <2>1, <2>2 DEF ClosingsOK
  <2>4. cases' = [cases EXCEPT ![d] = new] /\ approvals' = approvals \cup {row}
    BY <1>3 DEF CloseCase, Record
  <2> HIDE DEF new, row
  <2>5. QED BY <1>B, <2>1, <2>2, <2>3, <2>4
<1>4. ASSUME NEW d \in Cases, RetryRepair(d) PROVE Added
  <2> DEFINE new == NextRound(Moved(cases[d], "REPAIRING", NoAction, FALSE))
             row == NextRound(Approval(d, "retry_repair", NoGrant, NoRef))
  <2>1. new.status = "REPAIRING" /\ row.case = d /\ row.action = "retry_repair"
    BY <1>0 DEF Moved, NextRound, CaseRow, Approval
  <2>2. cases[d].status # "REPAIRING"
    BY <1>4 DEF RetryRepair, is_valid_transition, TRANSITIONS
  <2>3. cases' = [cases EXCEPT ![d] = new] /\ approvals' = approvals \cup {row}
    BY <1>4 DEF RetryRepair, Record
  <2> HIDE DEF new, row
  <2>4. QED BY <1>B, <2>1, <2>2, <2>3
<1>5. ASSUME NEW d \in Cases, Cancel(d) PROVE Added
  <2> DEFINE new == Moved(cases[d], "ESCALATED", NoAction, cases[d].closed)
             row == Approval(d, "cancel", NoGrant, NoRef)
  <2>1. new.status = "ESCALATED" /\ row.case = d /\ row.action = "cancel"
    BY <1>0 DEF Moved, CaseRow, Approval
  <2>2. cases[d].status # "ESCALATED"
    BY <1>5 DEF Cancel, is_valid_transition, TRANSITIONS
  <2>3. cases' = [cases EXCEPT ![d] = new] /\ approvals' = approvals \cup {row}
    BY <1>5 DEF Cancel, Record
  <2> HIDE DEF new, row
  <2>4. QED BY <1>B, <2>1, <2>2, <2>3
<1>6. ASSUME NEW d \in Cases, NEW s \in OrchestratorTargets, transition_case(d, s)
      PROVE  Added
  <2> DEFINE moved == Moved(cases[d], s, PendingArgument(s), Closes(s))
             new == IF s = "REPAIRING" THEN NextRound(moved) ELSE moved
  <2>1. new.status = s /\ s \notin {"RELEASED", "CLOSED"}
    BY <1>0 DEF Moved, NextRound, CaseRow, OrchestratorTargets
  <2>2. cases' = [cases EXCEPT ![d] = new] /\ UNCHANGED approvals
    BY <1>6 DEF transition_case
  <2> HIDE DEF new
  <2>3. QED BY <1>A, <2>1, <2>2
<1>7. ASSUME NEW d \in Cases, NEW p \in Patches, NEW q \in Patches,
             set_patch_context(d, p, q)
      PROVE  Added
  <2> DEFINE new == [cases[d] EXCEPT !.patch_ref = p, !.sandbox_ref = q]
  <2>1. cases' = [cases EXCEPT ![d] = new] /\ UNCHANGED approvals
    BY <1>7 DEF set_patch_context
  <2>2. new.status = cases[d].status
    BY <1>0 DEF CaseRow
  <2> HIDE DEF new
  <2>3. QED BY <1>A, <2>1, <2>2
<1>8. ASSUME NEW d \in Cases, NEW p \in Patches, set_patch_ref(d, p) PROVE Added
  <2> DEFINE new == [cases[d] EXCEPT !.patch_ref = p]
  <2>1. cases' = [cases EXCEPT ![d] = new] /\ UNCHANGED approvals
    BY <1>8 DEF set_patch_ref
  <2>2. new.status = cases[d].status
    BY <1>0 DEF CaseRow
  <2> HIDE DEF new
  <2>3. QED BY <1>A, <2>1, <2>2
<1>9. ASSUME NEW g \in grants, ConsumeGrant(g) PROVE Added
  <2> DEFINE new == Moved(cases[g.case], DecidedState(g.action), NoAction,
                          cases[g.case].closed)
             row == Approval(g.case, g.action, g.id, g.target_ref)
  <2>1. g.case \in Cases /\ g.action \in ALL_GRANTED_ACTIONS
    BY DEF StoreTypeOK, GrantRow
  <2>2. new.status = DecidedState(g.action) /\ row.case = g.case
        /\ row.action = g.action /\ row.grant = g.id
    BY <1>0, <2>1 DEF Moved, CaseRow, Approval
  <2>3. row \notin approvals
    BY <1>9, <2>2 DEF ConsumeGrant, GrantsOK, GrantSpentOnce
  <2>4. cases[g.case].status # DecidedState(g.action) /\ g.action # "close_case"
    BY <1>9, <2>1 DEF ConsumeGrant, AwaitsDecision, GateState, DecidedState,
       ALL_GRANTED_ACTIONS, APPROVAL_ACTIONS, REJECT_ACTIONS
  <2>5. cases' = [cases EXCEPT ![g.case] = new] /\ approvals' = approvals \cup {row}
    BY <1>9 DEF ConsumeGrant, Record
  <2> HIDE DEF new, row
  <2>6. QED BY <1>B, <2>1, <2>2, <2>3, <2>4, <2>5
<1>10. CASE UNCHANGED <<cases, approvals>>
  BY <1>10
<1>11. QED
  BY <1>1, <1>2, <1>3, <1>4, <1>5, <1>6, <1>7, <1>8, <1>9, <1>10
  DEF StoreNext, CaseMethod, GrantMethod, IssueGrant, ExpireGrant, storeVars

LEMMA StepClosingsOK ==
    ASSUME StoreTypeOK, GrantsOK, ClosingsOK, [StoreNext]_storeVars
    PROVE  ClosingsOK'
<1> SUFFICES ASSUME NEW a \in approvals', a.action = "close_case"
             PROVE  cases'[a.case].status = "CLOSED"
  BY DEF ClosingsOK
<1>1. CASE a \notin approvals
  BY <1>1, RowsAdded
<1>2. CASE a \in approvals
  <2>1. a.case \in Cases /\ cases[a.case].status = "CLOSED"
    BY <1>2 DEF StoreTypeOK, ApprovalRow, ClosingsOK
  <2>2. QED BY <2>1, StatusMoves, DeadEnds DEF Absent
<1>3. QED BY <1>1, <1>2

\* The audit trail only grows, a Case is never released or closed without a row
\* that says so, and no row is written for a Case that does not move.
THEOREM DecisionsRecorded == StoreSpec => DecisionsAreRecorded
<1>1. StoreInit => ClosingsOK /\ GrantsOK
  BY DEF StoreInit, ClosingsOK, GrantsOK, GrantIdsUnique, GrantSpentOnce
<1>2. /\ StoreTypeOK /\ GrantsOK /\ ClosingsOK /\ [StoreNext]_storeVars
      => ClosingsOK' /\ GrantsOK'
  BY StepClosingsOK, StepGrantsOK
<1>3. StoreTypeOK /\ GrantsOK /\ ClosingsOK /\ [StoreNext]_storeVars
      => [/\ approvals \subseteq approvals'
          /\ \A c \in Cases :
               LET new == {a \in approvals' \ approvals : a.case = c}
               IN  /\ cases'[c].status \in {"RELEASED", "CLOSED"}
                      /\ cases'[c].status # cases[c].status => new # {}
                   /\ new # {} => cases'[c].status # cases[c].status]_storeVars
  BY RowsAdded
<1>4. QED BY <1>1, <1>2, <1>3, StoreTypeCorrect, PTL DEF StoreSpec, DecisionsAreRecorded
=============================================================================
