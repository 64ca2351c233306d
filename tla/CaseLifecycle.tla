---------------------------- MODULE CaseLifecycle ----------------------------
(***************************************************************************)
(* What the people around a Case may rely on, whatever Agents, threads, retries *)
(* and crashes do (docs of the two approval gates; Orchestrator implements it):   *)
(* work on a Case goes on by itself only between the gates; nobody passes a gate   *)
(* but by a decision that is then on record, and no decision passes two; nothing  *)
(* is released but through the release gate; and closed is final.  One thing      *)
(* happens without them: a release that waits may be withdrawn.                  *)
(***************************************************************************)

CONSTANTS Cases

VARIABLES
    stage,    \* "none", "work", "plan gate", "release gate", "released", "closed"
    decided   \* the decisions on record about each Case

lifeVars == <<stage, decided>>

\* The decisions a person or a service may make, by the stage they are made in.
Decisions ==
    {"plan gate"} \X {"work"} \cup
    {"release gate"} \X {"work", "released"} \cup
    {"work"} \X {"work", "closed"} \cup
    {"released"} \X {"closed"}

LifeInit ==
    /\ stage = [c \in Cases |-> "none"]
    /\ decided = [c \in Cases |-> {}]

File(c) ==
    /\ stage[c] = "none"
    /\ stage' = [stage EXCEPT ![c] = "work"]
    /\ UNCHANGED decided

\* The Agents' results lead to a gate.
ReachGate(c) ==
    /\ stage[c] = "work"
    /\ \E gate \in {"plan gate", "release gate"} : stage' = [stage EXCEPT ![c] = gate]
    /\ UNCHANGED decided

\* A second verification, or a late one, of a Case that was retried fails.
Withdraw(c) ==
    /\ stage[c] = "release gate"
    /\ stage' = [stage EXCEPT ![c] = "work"]
    /\ UNCHANGED decided

\* One decision, on record for good.
Decide(c) ==
    /\ \E new \in {"work", "released", "closed"} :
          /\ <<stage[c], new>> \in Decisions
          /\ stage' = [stage EXCEPT ![c] = new]
    /\ \E row \in decided'[c] \ decided[c] :
          decided' = [decided EXCEPT ![c] = @ \cup {row}]

LifeNext == \E c \in Cases : File(c) \/ ReachGate(c) \/ Withdraw(c) \/ Decide(c)

LifeSpec == LifeInit /\ [][LifeNext]_lifeVars
=============================================================================
