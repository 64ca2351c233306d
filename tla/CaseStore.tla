------------------------------ MODULE CaseStore ------------------------------
(***************************************************************************)
(* The Case tables of daemon/store.py: cases, approval_grants, approvals.    *)
(* Every public method of StateStore holds one re-entrant lock from its first *)
(* SELECT to its commit (`with self.lock`), so each is one atomic action.     *)
(* This module says nothing about who calls a method, when, or with what it   *)
(* read earlier: StoreSpec allows any method at any time with any argument a       *)
(* caller in src/ can pass.  Orchestrator composes these actions with the     *)
(* threads that call them and implements StoreSpec.                               *)
(*                                                                           *)
(* A rejected call ({"error": ...}) writes nothing and is not an action.      *)
(***************************************************************************)
EXTENDS CaseStateMachine, Naturals

CONSTANTS
    Cases,      \* case ids
    Patches,    \* patch identities; a sandbox is named by the patch it holds
    Commits,    \* git SHAs resolve_base_commit can return at intake
    NoRef,      \* a NULL base_commit, patch_ref or sandbox_ref
    GrantIds,   \* grant ids; the bearer token is fresh for each, so it is the id
    NoGrant,    \* approvals.grant_id of an action that needs no Grant
    MaxRounds   \* bound: how often one Case may re-enter REPAIRING

ASSUME RefsAssumption == NoRef \notin Patches \cup Commits
ASSUME GrantsAssumption == NoGrant \notin GrantIds
ASSUME BoundAssumption == MaxRounds \in Nat

VARIABLES
    cases,          \* the row of each Case, status Absent before its intake
    grants,         \* rows of approval_grants, written once
    usedGrants,     \* rows of grants whose `used` is 1
    expiredGrants,  \* rows of grants whose `expires_at` has passed
    approvals       \* rows of approvals, written once

storeVars == <<cases, grants, usedGrants, expiredGrants, approvals>>

-----------------------------------------------------------------------------
(* Rows *)

Absent == "absent"

APPROVAL_ACTIONS == {"approve_plan", "approve_release"}
REJECT_ACTIONS == {"reject_plan", "reject_release"}
ALL_GRANTED_ACTIONS == APPROVAL_ACTIONS \cup REJECT_ACTIONS
SERVICE_ACTIONS == {"close_case", "retry_repair", "cancel"}

PatchRefs == Patches \cup {NoRef}

\* trusted: some source of the Case carries a repair_mode in
\* TRUSTED_SANDBOX_MODES.  round is a history variable: how often the Case has
\* re-entered REPAIRING other than by its approved plan.
CaseRow ==
    [status      : ALL_STATES \cup {Absent},
     pending     : APPROVAL_ACTIONS \cup {NoAction},
     base_commit : Commits \cup {NoRef},
     trusted     : BOOLEAN,
     patch_ref   : PatchRefs,
     sandbox_ref : PatchRefs,
     closed      : BOOLEAN,
     round       : Nat]

GrantRow ==
    [id         : GrantIds,
     case       : Cases,
     action     : ALL_GRANTED_ACTIONS,
     target_ref : Patches \cup Commits]

ApprovalRow ==
    [case       : Cases,
     action     : ALL_GRANTED_ACTIONS \cup SERVICE_ACTIONS,
     grant      : GrantIds \cup {NoGrant},
     target_ref : Patches \cup Commits \cup {NoRef},
     round      : Nat]

NewCase ==
    [status |-> Absent, pending |-> NoAction, base_commit |-> NoRef,
     trusted |-> FALSE, patch_ref |-> NoRef, sandbox_ref |-> NoRef,
     closed |-> FALSE, round |-> 0]

\* The state a Grant decides in, and the state each decision leads to.
GateState(action) ==
    IF action \in {"approve_plan", "reject_plan"}
    THEN "PLAN_APPROVAL" ELSE "RELEASE_APPROVAL"

DecidedState(action) ==
    CASE action = "approve_plan"    -> "REPAIRING"
      [] action = "approve_release" -> "RELEASED"
      [] OTHER                      -> "ESCALATED"

\* The version a Grant is issued for: base_commit or patch_ref.
VersionOf(row, action) ==
    IF GateState(action) = "PLAN_APPROVAL" THEN row.base_commit ELSE row.patch_ref

\* A Grant needs a version to refer to.  (Mutant: any Case will do.)
NoVersionCheck(c, action) == TRUE
HasVersion(c, action) == VersionOf(cases[c], action) # NoRef

\* The Case waits, in the right state, for the decision `action` makes.  (Mutant:
\* the Case is not looked at.)
NoStateCheck(c, action) == TRUE
AwaitsDecision(c, action) ==
    /\ cases[c].status = GateState(action)
    /\ cases[c].pending = pending_action_for_state(GateState(action))

\* MaxRounds bounds the exploration; the code sets no limit.
MayReenter(c) == cases[c].round < MaxRounds

\* UPDATE cases SET status, pending_action, closed_at.
Moved(row, status, pending, closed) ==
    [row EXCEPT !.status = status, !.pending = pending, !.closed = closed]

\* The same row, one re-entry later.
NextRound(row) == [row EXCEPT !.round = @ + 1]

Approval(c, action, grant, target_ref) ==
    [case |-> c, action |-> action, grant |-> grant,
     target_ref |-> target_ref, round |-> cases[c].round]

\* INSERT INTO approvals.  (Mutant: the decision leaves no row.)
RecordNothing(row) == UNCHANGED approvals
Record(row) == approvals' = approvals \cup {row}

\* UPDATE approval_grants SET used = 1.  (Mutant: forgotten.)
LeaveUnused(g) == UNCHANGED usedGrants
MarkUsed(g) == usedGrants' = usedGrants \cup {g}

-----------------------------------------------------------------------------
(* Intake: create_or_find_case, once the observation is known to be new *)

\* Complete signals that match no open Case create one in RECEIVED.
CreateCase(c, base, trusted) ==
    /\ cases[c].status = Absent
    /\ cases' = [cases EXCEPT ![c] =
                    [NewCase EXCEPT !.status = "RECEIVED",
                                    !.base_commit = base,
                                    !.trusted = trusted]]
    /\ UNCHANGED <<grants, usedGrants, expiredGrants, approvals>>

\* A matching open Case gets the new source linked to it; the source may bring
\* the repair_mode that later enables a trusted repair.
LinkSource(c, trusted) ==
    /\ cases[c].status \notin {Absent, "CLOSED", "ESCALATED"}
    /\ cases' = [cases EXCEPT ![c].trusted = @ \/ trusted]
    /\ UNCHANGED <<grants, usedGrants, expiredGrants, approvals>>

-----------------------------------------------------------------------------
(* Grants: issue_approval_grant and the granted half of perform_case_action *)

IssueGrant(id, c, action) ==
    /\ \A g \in grants : g.id # id
    /\ AwaitsDecision(c, action)
    /\ HasVersion(c, action)
    /\ grants' = grants \cup
          {[id |-> id, case |-> c, action |-> action,
            target_ref |-> VersionOf(cases[c], action)]}
    /\ UNCHANGED <<cases, usedGrants, expiredGrants, approvals>>

\* The clock passes expires_at.
ExpireGrant(g) ==
    /\ g \in grants \ expiredGrants
    /\ expiredGrants' = expiredGrants \cup {g}
    /\ UNCHANGED <<cases, grants, usedGrants, approvals>>

\* The bearer of g's token decides: the Grant is looked up by token, Case and
\* action, must be unused and unexpired, and the Case must (again) await the
\* decision.  The optional payload target_ref is compared with the Grant only.
ConsumeGrant(g) ==
    /\ g \in grants \ (usedGrants \cup expiredGrants)
    /\ AwaitsDecision(g.case, g.action)
    /\ MarkUsed(g)
    /\ Record(Approval(g.case, g.action, g.id, g.target_ref))
    /\ cases' = [cases EXCEPT ![g.case] =
                    Moved(@, DecidedState(g.action), NoAction, @.closed)]
    /\ UNCHANGED <<grants, expiredGrants>>

-----------------------------------------------------------------------------
(* Service-token actions: the other branches of perform_case_action *)

CloseCase(c) ==
    /\ is_valid_transition(cases[c].status, "CLOSED")
    /\ Record(Approval(c, "close_case", NoGrant, NoRef))
    /\ cases' = [cases EXCEPT ![c] = Moved(@, "CLOSED", NoAction, TRUE)]
    /\ UNCHANGED <<grants, usedGrants, expiredGrants>>

\* The table decides where a retry may start, so PLAN_APPROVAL qualifies as well
\* as the PATCH_REJECTED and ESCALATED the code's comment names.
RetryRepair(c) ==
    /\ is_valid_transition(cases[c].status, "REPAIRING")
    /\ MayReenter(c)
    /\ cases' = [cases EXCEPT ![c] =
                    NextRound(Moved(@, "REPAIRING", NoAction, FALSE))]
    /\ Record(NextRound(Approval(c, "retry_repair", NoGrant, NoRef)))
    /\ UNCHANGED <<grants, usedGrants, expiredGrants>>

Cancel(c) ==
    /\ is_valid_transition(cases[c].status, "ESCALATED")
    /\ Record(Approval(c, "cancel", NoGrant, NoRef))
    /\ cases' = [cases EXCEPT ![c] = Moved(@, "ESCALATED", NoAction, @.closed)]
    /\ UNCHANGED <<grants, usedGrants, expiredGrants>>

-----------------------------------------------------------------------------
(* Orchestration-layer writes *)

\* The states the callers in agent_runtime/orchestrator.py ask for.  REPAIRING is
\* asked for by run_active_state when the Case left it between two reads.
\* (Mutant: a passed gate releases at once.)
TargetsWithRelease ==
    {"TRIAGED", "DIAGNOSED", "PLAN_APPROVAL", "REPAIRING", "VERIFYING",
     "PATCH_REJECTED", "RELEASE_APPROVAL", "RELEASED", "ESCALATED"}
OrchestratorTargets ==
    {"TRIAGED", "DIAGNOSED", "PLAN_APPROVAL", "REPAIRING", "VERIFYING",
     "PATCH_REJECTED", "RELEASE_APPROVAL", "ESCALATED"}

\* The pending_action callers pass: that of the target.  (Mutant: the parameter
\* is left to its default.)
DefaultPending(new_status) == NoAction
PendingArgument(new_status) == pending_action_for_state(new_status)

\* closed_at is set on CLOSED and cleared otherwise.  (Mutant: ESCALATED counts
\* as terminal.)
ClosesIfTerminal(new_status) == new_status \in {"CLOSED", "ESCALATED"}
Closes(new_status) == new_status = "CLOSED"

\* The transition is validated again, under the store lock.
transition_case(c, new_status) ==
    LET reenters == new_status = "REPAIRING"
        moved == Moved(cases[c], new_status, PendingArgument(new_status),
                       Closes(new_status))
    IN  /\ is_valid_transition(cases[c].status, new_status)
        /\ reenters => MayReenter(c)
        /\ cases' = [cases EXCEPT ![c] =
                        IF reenters THEN NextRound(moved) ELSE moved]
        /\ UNCHANGED <<grants, usedGrants, expiredGrants, approvals>>

\* Neither UPDATE looks at the status of the Case.  (Mutant: a sandbox once set is
\* kept, as COALESCE would.)
set_patch_keeping_sandbox(c, patch, sandbox) ==
    /\ cases[c].status # Absent
    /\ cases' = [cases EXCEPT ![c].patch_ref = patch,
                              ![c].sandbox_ref = IF @ = NoRef THEN sandbox ELSE @]
    /\ UNCHANGED <<grants, usedGrants, expiredGrants, approvals>>

set_patch_context(c, patch, sandbox) ==
    /\ cases[c].status # Absent
    /\ cases' = [cases EXCEPT ![c].patch_ref = patch, ![c].sandbox_ref = sandbox]
    /\ UNCHANGED <<grants, usedGrants, expiredGrants, approvals>>

set_patch_ref(c, patch) ==
    /\ cases[c].status # Absent
    /\ cases' = [cases EXCEPT ![c].patch_ref = patch]
    /\ UNCHANGED <<grants, usedGrants, expiredGrants, approvals>>

-----------------------------------------------------------------------------

StoreInit ==
    /\ cases = [c \in Cases |-> NewCase]
    /\ grants = {}
    /\ usedGrants = {}
    /\ expiredGrants = {}
    /\ approvals = {}

CaseMethod(c) ==
    \/ \E base \in Commits \cup {NoRef}, trusted \in BOOLEAN :
          CreateCase(c, base, trusted)
    \/ \E trusted \in BOOLEAN : LinkSource(c, trusted)
    \/ \E id \in GrantIds, action \in ALL_GRANTED_ACTIONS :
          IssueGrant(id, c, action)
    \/ CloseCase(c)
    \/ RetryRepair(c)
    \/ Cancel(c)
    \/ \E new_status \in OrchestratorTargets : transition_case(c, new_status)
    \/ \E patch, sandbox \in Patches : set_patch_context(c, patch, sandbox)
    \/ \E patch \in Patches : set_patch_ref(c, patch)

GrantMethod(g) == ConsumeGrant(g) \/ ExpireGrant(g)

StoreNext ==
    \/ \E c \in Cases : CaseMethod(c)
    \/ \E g \in grants : GrantMethod(g)

StoreSpec == StoreInit /\ [][StoreNext]_storeVars

-----------------------------------------------------------------------------
(* What the Case tables guarantee whoever calls the methods *)

\* Every row has the columns and values the schema and the writers allow.
StoreTypeOK ==
    /\ cases \in [Cases -> CaseRow]
    /\ grants \subseteq GrantRow
    /\ usedGrants \subseteq grants
    /\ expiredGrants \subseteq grants
    /\ approvals \subseteq ApprovalRow

\* pending_action always names the decision the status waits for, and is NULL in
\* every other state: otherwise issue_approval_grant and perform_case_action,
\* which test both columns, would refuse every decision and strand the Case.
PendingMatchesStatus ==
    \A c \in Cases : cases[c].pending = pending_action_for_state(cases[c].status)

\* closed_at is set exactly while the Case is CLOSED: no branch that re-opens,
\* escalates or re-runs a Case leaves a stale closed_at behind.
ClosedAtMatchesStatus ==
    \A c \in Cases : cases[c].closed <=> (cases[c].status = "CLOSED")

\* A Grant is spent exactly once: the used Grants and the approvals that name a
\* Grant correspond one to one, with the Grant's own Case, action and target.
GrantSpentOnce ==
    /\ \A g \in grants :
          (g \in usedGrants) <=> \E a \in approvals : a.grant = g.id
    /\ \A a \in approvals :
          a.grant # NoGrant =>
             \E g \in usedGrants : /\ g.id = a.grant
                                   /\ g.case = a.case
                                   /\ g.action = a.action
                                   /\ g.target_ref = a.target_ref
    /\ \A a, b \in approvals : a.grant = b.grant /\ a.grant # NoGrant => a = b

\* A gate is decided at most once between two repairs: however many Grants were
\* issued for it, two of them (one approving, one rejecting, say) never both
\* take effect on the same visit.
GateDecidedOnce ==
    \A a, b \in approvals :
        /\ a.grant # NoGrant /\ b.grant # NoGrant
        /\ a.case = b.case /\ a.round = b.round
        /\ GateState(a.action) = GateState(b.action)
        => a = b

\* A released Case (and a rolled-back one) carries the approve_release row of its
\* latest repair round; no path of transition_case or of a service-token action
\* reaches RELEASED.
ReleaseHasApproval ==
    \A c \in Cases :
        cases[c].status \in {"RELEASED", "ROLLED_BACK"} =>
            \E a \in approvals : /\ a.case = c
                                 /\ a.action = "approve_release"
                                 /\ a.round = cases[c].round

\* No row of the audit trail is ever taken back or rewritten, and every decision
\* about a Case is recorded in the very step that carries it out: a status that
\* only a person or a service action can bring about never appears without its
\* row, and a row never appears without the move it records.
DecisionsAreRecorded ==
    [][/\ approvals \subseteq approvals'
       /\ \A c \in Cases :
            LET new == {a \in approvals' \ approvals : a.case = c}
            IN  /\ cases'[c].status \in {"RELEASED", "CLOSED"}
                   /\ cases'[c].status # cases[c].status => new # {}
                /\ new # {} => cases'[c].status # cases[c].status]_storeVars
=============================================================================
