-------------------------------- MODULE Agents --------------------------------
(***************************************************************************)
(* One Case's Agent tasks from Harness.dispatch (agent_runtime/harness.py) to    *)
(* what the Orchestrator keeps of the result, through the three executors: mock  *)
(* and AgentScope (teams_adapter.py) and the local CLI (cli_teams_adapter.py).   *)
(* An executor turns what a model claims and what a tool did into one result,    *)
(* and records the run in agent_runs; either write may fail.  One dispatch at a  *)
(* time: what two do to each other is in Orchestrator.                           *)
(***************************************************************************)
EXTENDS Integers, Sequences

CONSTANTS MaxRuns   \* bound: rows of agent_runs

ASSUME MaxRunsAssumption == MaxRuns \in Nat

VARIABLES
    executor,   \* "mock", "agentscope" or "cli"
    signal,     \* the repair_mode carried by the source of the Case
    agentRuns,  \* agent_runs: the status of each row
    unwritten,  \* history: rows whose finish_agent_run never succeeded
    evidenced,  \* runs whose CLI call is in the tool chain
    task,       \* the task being dispatched
    trees,      \* sandboxes: what the tree holds compared with the source
    patched,    \* patch_ref and sandbox_ref of the Case
    accepted    \* history: the last verdict that may request a release

agentVars == <<executor, signal, agentRuns, unwritten, evidenced, task, trees, patched, accepted>>

AgentStates == {"TRIAGED", "DIAGNOSED", "REPAIRING", "VERIFYING"}
RepairModes == {"none", "demo_sandbox", "cli_sandbox"}
NoTree == 0
DemoTree == MaxRuns + 1     \* one directory for the reviewed patch; one per CLI run
Trees == 1..DemoTree

\* What an executor returns: the fields the Orchestrator reads.
Completed == [status |-> "completed", patch |-> "", tree |-> NoTree, gate |-> "none", ran |-> NoTree]
Failed == [Completed EXCEPT !.status = "failed"]
NoStatus == [Completed EXCEPT !.status = "none"]    \* {"error": ...}

-----------------------------------------------------------------------------
(* The tools: what the program itself does, whoever asks for it *)

\* agents/repair.py: the reviewed patch in its sandbox, or a rejection.
controlled_repair == {[Completed EXCEPT !.patch = "tool", !.tree = DemoTree], Completed}

\* agents/verification.py: without a sandbox an unchecked stub.
quality_gate(tree) ==
    IF tree = NoTree THEN {Completed}
    ELSE {[Completed EXCEPT !.gate = g, !.ran = tree] : g \in {"passed", "failed", "error"}}

\* A valid structured reply: a patch_ref is any string, a verdict a boolean.
claims(state) ==
    CASE state = "REPAIRING" -> {[Completed EXCEPT !.patch = p] : p \in {"", "claimed"}}
      [] state = "VERIFYING" -> {[Completed EXCEPT !.gate = g] : g \in {"passed", "failed"}}
      [] OTHER -> {Completed}

-----------------------------------------------------------------------------
(* The executors *)

_run_mock(state, tree) ==
    CASE state = "REPAIRING" -> IF signal = "demo_sandbox" THEN controlled_repair ELSE {Completed}
      [] state = "VERIFYING" -> quality_gate(tree)
      [] OTHER -> {Completed}

\* {**promoted, **authoritative}: the tool's fields replace the model's.
\* (Mutant: the other way round.)
promoted_last(claim, tool) ==
    [tool EXCEPT !.patch = IF claim.patch = "" THEN @ ELSE claim.patch,
                 !.gate = IF claim.gate = "none" THEN @ ELSE claim.gate]
authoritative_last(claim, tool) == tool

_run_agentscope(state, tree) ==
    LET tools == CASE state = "REPAIRING" /\ signal = "demo_sandbox" -> controlled_repair
                   [] state = "VERIFYING" /\ tree # NoTree -> quality_gate(tree)
                   [] OTHER -> {}
    IN  IF tools = {} THEN claims(state)
        ELSE {authoritative_last(claim, tool) : claim \in claims(state), tool \in tools}

\* The diff of the fresh sandbox names the patch; without one patch_ref is empty.
\* A change that yields no text (a binary file, a source edited alike) has none.
_repair_outcome(claim, tree, edited) ==
    {[claim EXCEPT !.tree = tree, !.patch = ""]} \cup
    IF edited THEN {[claim EXCEPT !.tree = tree, !.patch = "diff"]} ELSE {}

\* The outcome of a CLI that exited with a valid structured reply.
_run_cli(state, tree, own, edited) ==
    CASE state = "VERIFYING" -> quality_gate(tree)
      [] state = "REPAIRING" -> UNION {_repair_outcome(c, own, edited) : c \in claims(state)}
      [] OTHER -> {[c EXCEPT !.tree = own] : c \in claims(state)}

-----------------------------------------------------------------------------
(* One dispatch *)

NoTask == [pc |-> "idle", state |-> "TRIAGED", tree |-> NoTree, run |-> 0, result |-> NoStatus]

\* The context is built from the row of the Case; begin_agent_run commits its row.
begin_agent_run(state) ==
    /\ task.pc = "idle" /\ Len(agentRuns) < MaxRuns
    /\ task' = [NoTask EXCEPT !.pc = "running", !.state = state, !.tree = patched.tree,
                              !.run = Len(agentRuns) + 1]
    /\ agentRuns' = Append(agentRuns, "running")
    /\ UNCHANGED <<executor, signal, unwritten, evidenced, trees, patched, accepted>>

\* Refused before any row: no Agent for the state, another Case's context, or an
\* AgentScope team that was never set up (an answer without a status).
DispatchRefused(state) ==
    /\ task.pc = "idle"
    /\ \E answer \in {Failed} \cup IF executor = "agentscope" THEN {NoStatus} ELSE {} :
          task' = [NoTask EXCEPT !.pc = "returned", !.state = state, !.result = answer]
    /\ UNCHANGED <<executor, signal, agentRuns, unwritten, evidenced, trees, patched, accepted>>

Returns(result) == task' = [task EXCEPT !.pc = "finishing", !.result = result]

\* An exception, a timeout, a reply that fails the text, event or schema checks, a
\* CLI that exits with an error: all return "failed".
AgentFails ==
    /\ task.pc \in {"running", "ran", "recorded"}
    /\ Returns(Failed)
    /\ \/ UNCHANGED trees
       \/ executor # "cli" /\ task.state = "REPAIRING" /\ signal = "demo_sandbox"
          /\ trees' = [trees EXCEPT ![DemoTree] = "tool"]
    /\ UNCHANGED <<executor, signal, agentRuns, unwritten, evidenced, patched, accepted>>

LocalAgentEnds ==
    /\ task.pc = "running" /\ executor \in {"mock", "agentscope"}
    /\ \E result \in IF executor = "mock" THEN _run_mock(task.state, task.tree)
                     ELSE _run_agentscope(task.state, task.tree) :
          /\ Returns(result)
          /\ trees' = IF result.patch = "tool" THEN [trees EXCEPT ![DemoTree] = "tool"] ELSE trees
    /\ UNCHANGED <<executor, signal, agentRuns, unwritten, evidenced, patched, accepted>>

\* The CLI works in a fresh copy of the source, until it exits or its time is up.
CLIRuns ==
    /\ task.pc = "running" /\ executor = "cli" /\ task.state # "VERIFYING"
    /\ task' = [task EXCEPT !.pc = "ran"]
    /\ \E content \in {"source", "diff"} : trees' = [trees EXCEPT ![task.run] = content]
    /\ UNCHANGED <<executor, signal, agentRuns, unwritten, evidenced, patched, accepted>>

\* The call goes into the tool chain before its reply is looked at; the transcript
\* may be missing.
_record_cli_evidence ==
    /\ task.pc = "ran"
    /\ evidenced' = evidenced \cup {task.run}
    /\ task' = [task EXCEPT !.pc = "recorded"]
    /\ UNCHANGED <<executor, signal, agentRuns, unwritten, trees, patched, accepted>>

CLIAgentEnds ==
    /\ executor = "cli"
    /\ task.pc = IF task.state = "VERIFYING" THEN "running" ELSE "recorded"
    /\ \E result \in _run_cli(task.state, task.tree, task.run, trees[task.run] = "diff") :
          Returns(result)
    /\ UNCHANGED <<executor, signal, agentRuns, unwritten, evidenced, trees, patched, accepted>>

\* Mutant of finish_agent_run: an Agent that failed leaves its row 'running'.
only_completed(run, status) ==
    agentRuns' = IF status = "completed" THEN [agentRuns EXCEPT ![run] = status] ELSE agentRuns
finish_agent_run(run, status) == agentRuns' = [agentRuns EXCEPT ![run] = status]

FinishRun ==
    /\ task.pc = "finishing"
    /\ finish_agent_run(task.run, task.result.status)
    /\ task' = [task EXCEPT !.pc = "returned"]
    /\ UNCHANGED <<executor, signal, unwritten, evidenced, trees, patched, accepted>>

\* The write raises: mock and AgentScope try once more with "failed", then it is the
\* Harness that answers "failed", and the row stays 'running' until a restart.
FinishRaises ==
    /\ task.pc = "finishing"
    /\ \/ /\ executor # "cli"
          /\ finish_agent_run(task.run, "failed")
          /\ UNCHANGED unwritten
       \/ /\ unwritten' = unwritten \cup {task.run}
          /\ UNCHANGED agentRuns
    /\ task' = [task EXCEPT !.pc = "returned", !.result = Failed]
    /\ UNCHANGED <<executor, signal, evidenced, trees, patched, accepted>>

-----------------------------------------------------------------------------
(* The Orchestrator's use of the result *)

\* Only a repair of a trusted mode anchors the Case, and only with both references.
KeepPatch ==
    LET r == task.result
    IN  patched' = IF /\ task.state = "REPAIRING" /\ r.status = "completed"
                      /\ signal \in {"demo_sandbox", "cli_sandbox"}
                      /\ r.patch # "" /\ r.tree # NoTree
                   THEN [patch |-> r.patch, tree |-> r.tree] ELSE patched

\* A passing verdict counts for a Case with a patch and a sandbox.
ReleaseMayBeRequested ==
    /\ task.state = "VERIFYING" /\ task.result.status = "completed"
    /\ task.result.gate = "passed"
    /\ patched.tree # NoTree

Consume ==
    /\ task.pc = "returned"
    /\ KeepPatch
    /\ accepted' = IF ReleaseMayBeRequested
                   THEN [patch |-> patched.patch, ran |-> task.result.ran, tree |-> patched.tree]
                   ELSE accepted
    /\ task' = NoTask
    /\ UNCHANGED <<executor, signal, agentRuns, unwritten, evidenced, trees>>

\* The daemon stops; recover_interrupted fails the rows left 'running'.
CrashAndRecover ==
    /\ task.pc # "idle" \/ unwritten # {}
    /\ task' = NoTask
    /\ agentRuns' = [n \in DOMAIN agentRuns |->
                        IF agentRuns[n] = "running" THEN "failed" ELSE agentRuns[n]]
    /\ unwritten' = {}
    /\ UNCHANGED <<executor, signal, evidenced, trees, patched, accepted>>

AgentsInit ==
    /\ executor \in {"mock", "agentscope", "cli"}
    /\ signal \in RepairModes
    /\ agentRuns = <<>> /\ unwritten = {} /\ evidenced = {} /\ task = NoTask
    /\ trees = [t \in Trees |-> "source"]
    /\ patched = [patch |-> "", tree |-> NoTree]
    /\ accepted = [patch |-> "", ran |-> NoTree, tree |-> NoTree]

AgentsNext ==
    \/ \E state \in AgentStates : begin_agent_run(state) \/ DispatchRefused(state)
    \/ AgentFails \/ LocalAgentEnds \/ CLIRuns \/ _record_cli_evidence \/ CLIAgentEnds
    \/ FinishRun \/ FinishRaises \/ Consume \/ CrashAndRecover

AgentsSpec == AgentsInit /\ [][AgentsNext]_agentVars

-----------------------------------------------------------------------------
(* Correctness *)

AgentsTypeOK ==
    /\ agentRuns \in Seq({"running", "completed", "failed"}) /\ Len(agentRuns) <= MaxRuns
    /\ unwritten \cup evidenced \subseteq DOMAIN agentRuns
    /\ task.pc \in {"idle", "running", "ran", "recorded", "finishing", "returned"}
    /\ task.result.status \in {"none", "completed", "failed"}
    /\ trees \in [Trees -> {"source", "diff", "tool"}]
    /\ patched.tree \in Trees \cup {NoTree} /\ accepted.tree \in Trees \cup {NoTree}

\* What is on record about a run is what its caller was told, for every executor and
\* every failure: a row is 'running' only while its Agent is, or when it could not
\* be written, and a returned result has the status of its row.  And a CLI whose
\* work is told as completed has its call in the tool chain.
RowTellsResult ==
    /\ \A n \in DOMAIN agentRuns :
          agentRuns[n] = "running" =>
             n \in unwritten \/ (n = task.run /\ task.pc \notin {"idle", "returned"})
    /\ task.pc = "returned" /\ task.run \in DOMAIN agentRuns \ unwritten =>
          agentRuns[task.run] = task.result.status
    /\ executor = "cli" /\ task.pc = "returned" /\ task.result.status = "completed" =>
          task.state = "VERIFYING" \/ task.run \in evidenced

\* The patch a Case is anchored to is in the sandbox it names, put there by the
\* reviewed tool or seen in the diff of a CLI run; no model's word stands for one.
\* And a verdict that may request a release is the quality gate's, run on that
\* sandbox: the Case's patch is then the one that was verified.
AnchorIsReal ==
    /\ patched.tree # NoTree => patched.patch = trees[patched.tree]
    /\ accepted.tree # NoTree => accepted.ran = accepted.tree
                              /\ accepted.patch = trees[accepted.tree]
=============================================================================
