-------------------------- MODULE CaseStateMachine --------------------------
(***************************************************************************)
(* The Case state machine of agent_runtime/state_machine.py: the states, the *)
(* table of legal moves, and the human decision a state waits for.  It has no *)
(* variables; CaseStore consults it before it writes a status and             *)
(* Orchestrator before it asks for one.                                       *)
(***************************************************************************)

\* States in the order state_machine.py lists them (ALL_STATES).
ALL_STATES ==
    {"RECEIVED", "TRIAGED", "DIAGNOSED", "PLAN_APPROVAL", "REPAIRING",
     "VERIFYING", "PATCH_REJECTED", "RELEASE_APPROVAL", "RELEASED",
     "ROLLED_BACK", "ESCALATED", "CLOSED"}

\* The table of legal moves, as a relation.
TRANSITIONS ==
    ({"RECEIVED"}         \X {"TRIAGED", "ESCALATED"})       \cup
    ({"TRIAGED"}          \X {"DIAGNOSED", "ESCALATED"})     \cup
    ({"DIAGNOSED"}        \X {"PLAN_APPROVAL", "ESCALATED"}) \cup
    ({"PLAN_APPROVAL"}    \X {"REPAIRING", "ESCALATED"})     \cup
    ({"REPAIRING"}        \X {"VERIFYING", "ESCALATED"})     \cup
    ({"VERIFYING"}        \X {"PATCH_REJECTED", "RELEASE_APPROVAL",
                              "ESCALATED"})                  \cup
    ({"PATCH_REJECTED"}   \X {"REPAIRING", "CLOSED"})        \cup
    ({"RELEASE_APPROVAL"} \X {"RELEASED", "ESCALATED"})      \cup
    ({"RELEASED"}         \X {"CLOSED", "ROLLED_BACK"})      \cup
    ({"ROLLED_BACK"}      \X {"CLOSED"})                     \cup
    ({"ESCALATED"}        \X {"CLOSED", "REPAIRING"})

\* States in which one of the four business Agents works on the Case.
AGENT_ACTIVE_STATES == {"TRIAGED", "DIAGNOSED", "REPAIRING", "VERIFYING"}

\* No pending_action (SQL NULL).
NoAction == "none"

is_valid_transition(current, target) == <<current, target>> \in TRANSITIONS

\* pending_action to store when a Case enters a state.
pending_action_for_state(state) ==
    CASE state = "PLAN_APPROVAL"    -> "approve_plan"
      [] state = "RELEASE_APPROVAL" -> "approve_release"
      [] OTHER                      -> NoAction
=============================================================================
