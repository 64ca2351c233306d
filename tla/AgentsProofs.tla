---------------------------- MODULE AgentsProofs ----------------------------
(* What holds of the Agent tasks of a Case for every number of runs: the record  *)
(* of a run says what its caller was told, and the patch and the verdict a Case  *)
(* is released on are the program's own, never a model's word.                   *)
EXTENDS Agents, SequenceTheorems, TLAPS

Active == {"running", "ran", "recorded", "finishing"}
RunStatuses == {"running", "completed", "failed"}
Patches == {"", "tool", "claimed", "diff"}
SomeTree == Trees \cup {NoTree}
Results == [status : {"none", "completed", "failed"}, patch : Patches, tree : SomeTree,
            gate : {"none", "passed", "failed", "error"}, ran : SomeTree]
TaskRow == [pc : Active \cup {"idle", "returned"}, state : AgentStates, tree : SomeTree,
            run : 0..MaxRuns, result : Results]

RowsOK ==
    /\ agentRuns \in Seq(RunStatuses) /\ Len(agentRuns) <= MaxRuns
    /\ unwritten \subseteq 1..Len(agentRuns) /\ evidenced \subseteq 1..Len(agentRuns)
    /\ task \in TaskRow
    /\ trees \in [Trees -> {"source", "diff", "tool"}]
    /\ patched \in [patch : Patches, tree : SomeTree]
    /\ accepted \in [patch : Patches, ran : SomeTree, tree : SomeTree]
    /\ executor \in {"mock", "agentscope", "cli"} /\ signal \in RepairModes

\* A dispatch at work has the newest row, and was given the sandbox the Case still
\* names; what a CLI run goes through leaves its call in the tool chain.
DispatchOK ==
    /\ task.pc \in Active => /\ task.run = Len(agentRuns) /\ task.run # 0
                             /\ task.tree = patched.tree
    /\ task.pc = "finishing" => task.result.status # "none"
    /\ task.pc \in {"ran", "recorded"} => executor = "cli" /\ task.state # "VERIFYING"
    /\ task.pc = "recorded" => task.run \in evidenced
    /\ executor = "cli" /\ task.pc = "finishing" /\ task.result.status = "completed" =>
          task.state = "VERIFYING" \/ task.run \in evidenced

\* A tree whose content stays: the reviewed patch is always the same, and the tree of
\* a run is written by that run only.
Settled(tree) ==
    \/ tree = DemoTree /\ trees[tree] = "tool"
    \/ tree \in 1..Len(agentRuns) /\ ~(task.pc \in {"running", "ran", "recorded"} /\ tree = task.run)

\* The trees the Case is anchored to are settled, and so is the one a repair brings;
\* a verdict that passes was found in the sandbox of the Case.
Answered == task.pc \in {"finishing", "returned"}
TreesOK ==
    /\ patched.tree # NoTree => Settled(patched.tree)
    /\ accepted.tree # NoTree => Settled(accepted.tree)
    /\ Answered /\ task.state = "REPAIRING" /\ task.result.tree # NoTree /\ task.result.patch # "" =>
          /\ Settled(task.result.tree)
          /\ task.result.patch = trees[task.result.tree]
    /\ Answered /\ task.state = "VERIFYING" /\ task.result.status = "completed"
          /\ task.result.gate = "passed" /\ patched.tree # NoTree =>
          task.result.ran = patched.tree

AgentsInvariant == RowsOK /\ DispatchOK /\ RowTellsResult /\ TreesOK /\ AnchorIsReal

-----------------------------------------------------------------------------
(* What the executors return *)

LEMMA TreesAreNumbers == DemoTree \in Trees /\ NoTree \notin Trees /\ 1..MaxRuns \subseteq Trees
                         /\ DemoTree \notin 1..MaxRuns
  BY MaxRunsAssumption DEF DemoTree, NoTree, Trees

LEMMA PlainResults ==
    /\ Completed \in Results /\ Failed \in Results /\ NoStatus \in Results
    /\ Completed.status = "completed" /\ Completed.patch = "" /\ Completed.gate = "none"
    /\ Completed.tree = NoTree
    /\ Failed.status = "failed" /\ NoStatus.status = "none"
    /\ Failed.patch = "" /\ NoStatus.patch = ""
  BY DEF Completed, Failed, NoStatus, Results, Patches, SomeTree

LEMMA NoTaskIsATask ==
    NoTask \in TaskRow /\ NoTask.pc = "idle" /\ NoTask.run = 0 /\ NoTask.result = NoStatus
  <1>1. 0 \in 0..MaxRuns
    BY MaxRunsAssumption
  <1>2. NoStatus \in Results
    BY PlainResults
  <1> QED
    BY <1>1, <1>2 DEF NoTask, TaskRow, AgentStates, SomeTree, Active

LEMMA RunCount ==
    RowsOK => Len(agentRuns) \in 0..MaxRuns /\ DOMAIN agentRuns = 1..Len(agentRuns)
  BY LenProperties, MaxRunsAssumption DEF RowsOK

LEMMA SameInterval == ASSUME NEW m \in Nat, NEW n \in Nat, 1..m = 1..n PROVE m = n
  OBVIOUS

LEMMA TreesOfRuns ==
    ASSUME RowsOK, NEW t \in 1..Len(agentRuns)
    PROVE  t \in Trees /\ t # DemoTree
  BY RunCount, MaxRunsAssumption DEF Trees, DemoTree

LEMMA RunAtWork ==
    ASSUME RowsOK, DispatchOK, task.pc \in Active
    PROVE  /\ task.run = Len(agentRuns) /\ task.run \in 1..Len(agentRuns) /\ task.run \in 1..MaxRuns
           /\ task.tree = patched.tree
  <1>1. Len(agentRuns) \in 0..MaxRuns
    BY RunCount
  <1>2. task.run = Len(agentRuns) /\ task.run # 0 /\ task.tree = patched.tree
    BY DEF DispatchOK
  <1> QED
    BY <1>1, <1>2, MaxRunsAssumption

\* The reviewed patch is in its own sandbox, or there is none.
LEMMA RepairResults ==
    \A r \in controlled_repair : /\ r \in Results /\ r.status = "completed"
                                 /\ r.patch # "" => (r.patch = "tool" /\ r.tree = DemoTree)
  <1> DEFINE described == [Completed EXCEPT !.patch = "tool"]
             fixed     == [described EXCEPT !.tree = DemoTree]
  <1>1. described \in Results /\ described.status = "completed" /\ described.patch = "tool"
    BY PlainResults DEF Results, Patches
  <1>2. fixed \in Results /\ fixed.status = "completed" /\ fixed.patch = "tool" /\ fixed.tree = DemoTree
    <2> HIDE DEF described
    <2> QED
      BY <1>1, TreesAreNumbers DEF Results, SomeTree
  <1>3. controlled_repair = {fixed, Completed}
    BY DEF controlled_repair
  <1> HIDE DEF fixed
  <1> QED
    BY <1>2, <1>3, PlainResults

\* A verdict on a sandbox was found by running in it.
LEMMA GateResults ==
    ASSUME NEW tree \in SomeTree, NEW r \in quality_gate(tree)
    PROVE  /\ r \in Results /\ r.status = "completed" /\ r.patch = ""
           /\ r.gate = "passed" => r.ran = tree
  <1>1. CASE tree = NoTree
    BY <1>1, PlainResults DEF quality_gate
  <1>2. CASE tree # NoTree
    <2>1. PICK g \in {"passed", "failed", "error"} : r = [Completed EXCEPT !.gate = g, !.ran = tree]
      BY <1>2 DEF quality_gate
    <2>2. r = [status |-> "completed", patch |-> "", tree |-> NoTree, gate |-> g, ran |-> tree]
      BY <2>1 DEF Completed
    <2> QED
      BY <2>2 DEF Results, Patches, SomeTree
  <1> QED
    BY <1>1, <1>2

\* What a model says names no sandbox.
LEMMA ClaimedResults ==
    ASSUME NEW state \in AgentStates, NEW r \in claims(state)
    PROVE  r \in Results /\ r.status = "completed" /\ r.tree = NoTree /\ r.patch # "tool"
  <1>1. CASE state = "REPAIRING"
    <2>1. PICK p \in {"", "claimed"} : r = [Completed EXCEPT !.patch = p]
      BY <1>1 DEF claims
    <2>2. r = [status |-> "completed", patch |-> p, tree |-> NoTree, gate |-> "none", ran |-> NoTree]
      BY <2>1 DEF Completed
    <2> QED
      BY <2>2 DEF Results, Patches, SomeTree
  <1>2. CASE state = "VERIFYING"
    <2>1. PICK g \in {"passed", "failed"} : r = [Completed EXCEPT !.gate = g]
      BY <1>2 DEF claims
    <2>2. r = [status |-> "completed", patch |-> "", tree |-> NoTree, gate |-> g, ran |-> NoTree]
      BY <2>1 DEF Completed
    <2> QED
      BY <2>2 DEF Results, Patches, SomeTree
  <1>3. CASE state \notin {"REPAIRING", "VERIFYING"}
    <2>1. r = Completed
      BY <1>3 DEF claims
    <2> QED
      BY <2>1, PlainResults
  <1> QED
    BY <1>1, <1>2, <1>3

\* What the Orchestrator may rely on, whatever the executor.
Sound(r, state, tree) ==
    /\ r \in Results /\ r.status = "completed"
    /\ state = "REPAIRING" /\ r.tree # NoTree /\ r.patch # "" => r.patch = "tool" /\ r.tree = DemoTree
    /\ state = "VERIFYING" /\ r.gate = "passed" /\ tree # NoTree => r.ran = tree
    /\ r.patch = "tool" => r.tree = DemoTree

LEMMA LocalResults ==
    ASSUME NEW state \in AgentStates, NEW tree \in SomeTree,
           NEW r \in _run_mock(state, tree) \cup _run_agentscope(state, tree)
    PROVE  Sound(r, state, tree)
  <1>1. CASE r \in controlled_repair /\ state = "REPAIRING"
    BY <1>1, RepairResults DEF Sound
  <1>2. CASE r \in quality_gate(tree) /\ state = "VERIFYING"
    BY <1>2, GateResults DEF Sound
  <1>3. CASE r = Completed
    BY <1>3, PlainResults DEF Sound
  <1>4. CASE r \in claims(state) /\ (state = "VERIFYING" => tree = NoTree)
    BY <1>4, ClaimedResults DEF Sound
  <1>5. r \in _run_mock(state, tree) => \/ r \in controlled_repair /\ state = "REPAIRING"
                                        \/ r \in quality_gate(tree) /\ state = "VERIFYING"
                                        \/ r = Completed
    BY DEF _run_mock
  <1>6. ASSUME r \in _run_agentscope(state, tree)
        PROVE  \/ r \in controlled_repair /\ state = "REPAIRING"
               \/ r \in quality_gate(tree) /\ state = "VERIFYING"
               \/ r \in claims(state) /\ (state = "VERIFYING" => tree = NoTree)
    <2>1. CASE state = "REPAIRING" /\ signal = "demo_sandbox"
      <3>1. _run_agentscope(state, tree) =
              IF controlled_repair = {} THEN claims(state)
              ELSE {authoritative_last(claim, tool) : claim \in claims(state), tool \in controlled_repair}
        BY <2>1 DEF _run_agentscope
      <3> QED
        BY <1>6, <2>1, <3>1 DEF authoritative_last
    <2>2. CASE state = "VERIFYING" /\ tree # NoTree
      <3>1. _run_agentscope(state, tree) =
              IF quality_gate(tree) = {} THEN claims(state)
              ELSE {authoritative_last(claim, tool) : claim \in claims(state), tool \in quality_gate(tree)}
        BY <2>2 DEF _run_agentscope
      <3>2. [Completed EXCEPT !.gate = "passed", !.ran = tree] \in quality_gate(tree)
        BY <2>2 DEF quality_gate
      <3> QED
        BY <1>6, <2>2, <3>1, <3>2 DEF authoritative_last
    <2>3. CASE ~(state = "REPAIRING" /\ signal = "demo_sandbox") /\ ~(state = "VERIFYING" /\ tree # NoTree)
      <3>1. _run_agentscope(state, tree) = claims(state)
        BY <2>3 DEF _run_agentscope
      <3> QED
        BY <1>6, <2>3, <3>1
    <2> QED
      BY <2>1, <2>2, <2>3
  <1> QED
    BY <1>1, <1>2, <1>3, <1>4, <1>5, <1>6
\* A patch of a CLI run is the change in its own sandbox.
LEMMA CLIResults ==
    ASSUME task.state \in AgentStates, task.tree \in SomeTree, task.run \in 1..MaxRuns,
           NEW r \in _run_cli(task.state, task.tree, task.run, trees[task.run] = "diff")
    PROVE  /\ r \in Results /\ r.status = "completed"
           /\ task.state = "REPAIRING" /\ r.patch # "" => r.patch = "diff" /\ trees[task.run] = "diff" /\ r.tree = task.run
           /\ task.state = "VERIFYING" /\ r.gate = "passed" => r.ran = task.tree
  <1>1. CASE task.state = "VERIFYING"
    BY <1>1, GateResults DEF _run_cli
  <1>2. CASE task.state = "REPAIRING"
    <2>1. PICK c \in claims(task.state) : r \in _repair_outcome(c, task.run, trees[task.run] = "diff")
      BY <1>2 DEF _run_cli
    <2>2. c \in Results /\ c.status = "completed"
      BY <2>1, ClaimedResults
    <2>3. task.run \in SomeTree
      BY TreesAreNumbers DEF SomeTree
    <2>4. ASSUME NEW p \in {"", "diff"}, r = [c EXCEPT !.tree = task.run, !.patch = p]
          PROVE  r \in Results /\ r.status = "completed" /\ r.patch = p /\ r.tree = task.run
      <3> DEFINE placed == [c EXCEPT !.tree = task.run]
      <3>1. placed \in Results /\ placed.status = "completed" /\ placed.tree = task.run
        BY <2>2, <2>3 DEF Results
      <3>2. r = [placed EXCEPT !.patch = p]
        BY <2>4
      <3> HIDE DEF placed
      <3> QED
        BY <3>1, <3>2 DEF Results, Patches
    <2> QED
      BY <1>2, <2>1, <2>4 DEF _repair_outcome
  <1>3. CASE task.state \notin {"REPAIRING", "VERIFYING"}
    <2>1. PICK c \in claims(task.state) : r = [c EXCEPT !.tree = task.run]
      BY <1>3 DEF _run_cli
    <2>2. c \in Results /\ c.status = "completed"
      BY <2>1, ClaimedResults
    <2> QED
      BY <1>3, <2>1, <2>2, TreesAreNumbers DEF Results, SomeTree
  <1> QED
    BY <1>1, <1>2, <1>3

-----------------------------------------------------------------------------
(* The steps *)

LEMMA TaskBegins ==
    ASSUME AgentsInvariant, NEW state \in AgentStates, begin_agent_run(state)
    PROVE  AgentsInvariant'
  <1> USE DEF AgentsInvariant
  <1> DEFINE n == Len(agentRuns)
  <1>1. n \in Nat /\ n + 1 \in 1..MaxRuns /\ DOMAIN agentRuns = 1..n
    BY MaxRunsAssumption, LenProperties DEF RowsOK, begin_agent_run
  <1>2. /\ agentRuns' \in Seq(RunStatuses) /\ Len(agentRuns') = n + 1
        /\ DOMAIN agentRuns' = 1..(n + 1)
        /\ agentRuns'[n + 1] = "running" /\ \A k \in 1..n : agentRuns'[k] = agentRuns[k]
    BY <1>1 DEF RowsOK, begin_agent_run, RunStatuses
  <1>3. /\ task' \in TaskRow /\ task'.pc = "running" /\ task'.run = n + 1
        /\ task'.tree = patched.tree /\ task'.result = NoStatus
    <2>1. n + 1 \in 0..MaxRuns /\ patched.tree \in SomeTree
      BY <1>1 DEF RowsOK
    <2>2. task' = [NoTask EXCEPT !.pc = "running", !.state = state, !.tree = patched.tree, !.run = n + 1]
      BY DEF begin_agent_run
    <2> HIDE DEF n
    <2> QED
      BY <2>1, <2>2, NoTaskIsATask DEF TaskRow, Active
  <1>4. UNCHANGED <<executor, signal, unwritten, evidenced, trees, patched, accepted>>
    BY DEF begin_agent_run
  <1>5. RowsOK'
    BY <1>1, <1>2, <1>3, <1>4 DEF RowsOK
  <1>6. DispatchOK'
    BY <1>1, <1>2, <1>3, <1>4 DEF DispatchOK, Active
  <1>7. RowTellsResult'
    <2>1. \A k \in 1..n : agentRuns[k] = "running" => k \in unwritten
      BY <1>1 DEF RowTellsResult, begin_agent_run
    <2>2. \A k \in DOMAIN agentRuns' : agentRuns'[k] = "running" => k \in unwritten' \/ k = n + 1
      BY <1>1, <1>2, <1>4, <2>1
    <2> QED
      BY <1>2, <1>3, <2>2 DEF RowTellsResult
  <1>8. \A t \in SomeTree : Settled(t) => Settled(t)'
    BY <1>1, <1>2, <1>3, <1>4 DEF Settled
  <1>9. TreesOK'
    BY <1>3, <1>4, <1>8 DEF TreesOK, Answered, RowsOK
  <1>10. AnchorIsReal'
    BY <1>4 DEF AnchorIsReal
  <1> QED
    BY <1>5, <1>6, <1>7, <1>9, <1>10

LEMMA TaskRefused ==
    ASSUME AgentsInvariant, NEW state \in AgentStates, DispatchRefused(state)
    PROVE  AgentsInvariant'
  <1> USE DEF AgentsInvariant
  <1>1. PICK answer \in {Failed, NoStatus} :
            task' = [NoTask EXCEPT !.pc = "returned", !.state = state, !.result = answer]
    BY DEF DispatchRefused
  <1>2. /\ task' \in TaskRow /\ task'.pc = "returned" /\ task'.run = 0
        /\ task'.result = answer
    BY <1>1, NoTaskIsATask, PlainResults DEF TaskRow
  <1>3. answer.status # "completed" /\ answer.patch = ""
    BY PlainResults
  <1>4. UNCHANGED <<executor, signal, agentRuns, unwritten, evidenced, trees, patched, accepted>>
    BY DEF DispatchRefused
  <1>5. DOMAIN agentRuns = 1..Len(agentRuns) /\ Len(agentRuns) \in Nat /\ task.pc = "idle"
    BY RunCount DEF RowsOK, DispatchRefused
  <1>6. RowsOK'
    BY <1>2, <1>4 DEF RowsOK
  <1>7. DispatchOK'
    BY <1>2, <1>4 DEF DispatchOK, Active
  <1>8. RowTellsResult'
    <2>1. \A k \in DOMAIN agentRuns : agentRuns[k] = "running" => k \in unwritten
      BY <1>5 DEF RowTellsResult
    <2>2. 0 \notin DOMAIN agentRuns
      BY <1>5
    <2> QED
      BY <1>2, <1>3, <1>4, <2>1, <2>2 DEF RowTellsResult
  <1>9. \A t \in SomeTree : Settled(t) => Settled(t)'
    BY <1>2, <1>4 DEF Settled
  <1>10. TreesOK'
    BY <1>2, <1>3, <1>4, <1>9 DEF TreesOK, Answered, RowsOK
  <1>11. AnchorIsReal'
    BY <1>4 DEF AnchorIsReal
  <1> QED
    BY <1>6, <1>7, <1>8, <1>10, <1>11

\* An answer of any Agent: what the Case rests on stays where it is.
LEMMA TaskAnswers ==
    ASSUME AgentsInvariant, task.pc \in {"running", "ran", "recorded"},
           NEW r \in Results, r.status # "none", Returns(r),
           UNCHANGED <<executor, signal, agentRuns, unwritten, evidenced, patched, accepted>>,
           \/ trees' = trees
           \/ trees' = [trees EXCEPT ![DemoTree] = "tool"],
           task.state = "REPAIRING" /\ r.tree # NoTree /\ r.patch # "" =>
              \/ r.tree = DemoTree /\ r.patch = "tool" /\ trees'[DemoTree] = "tool"
              \/ r.tree = task.run /\ r.patch = trees'[task.run],
           task.state = "VERIFYING" /\ r.status = "completed" /\ r.gate = "passed"
              /\ patched.tree # NoTree => r.ran = patched.tree,
           executor = "cli" /\ r.status = "completed" => task.state = "VERIFYING" \/ task.pc = "recorded"
    PROVE  AgentsInvariant'
  <1> USE DEF AgentsInvariant
  <1>1. /\ task' \in TaskRow /\ task'.pc = "finishing" /\ task'.run = task.run
        /\ task'.tree = task.tree /\ task'.state = task.state /\ task'.result = r
    BY DEF Returns, RowsOK, TaskRow, Active
  <1>2. /\ trees' \in [Trees -> {"source", "diff", "tool"}]
        /\ \A t \in Trees : t # DemoTree => trees'[t] = trees[t]
        /\ trees[DemoTree] = "tool" => trees'[DemoTree] = "tool"
    BY TreesAreNumbers DEF RowsOK
  <1>3. DOMAIN agentRuns = 1..Len(agentRuns) /\ Len(agentRuns) \in 0..MaxRuns
    BY RunCount DEF RowsOK
  <1>4. task.run = Len(agentRuns) /\ task.run \in 1..Len(agentRuns)
    BY RunAtWork DEF Active
  <1>5. RowsOK'
    BY <1>1, <1>2 DEF RowsOK
  <1>6. DispatchOK'
    BY <1>1 DEF DispatchOK, Active
  <1>7. RowTellsResult'
    BY <1>1, <1>3 DEF RowTellsResult
  <1>8. ASSUME NEW t \in SomeTree, Settled(t)
        PROVE  Settled(t)' /\ trees'[t] = trees[t]
    <2>1. CASE t = DemoTree /\ trees[t] = "tool"
      BY <1>2, <2>1 DEF Settled
    <2>2. CASE t \in 1..Len(agentRuns)
      <3>1. t \in Trees /\ t # DemoTree
        BY <2>2, TreesOfRuns
      <3> QED
        BY <1>1, <1>2, <2>2, <3>1 DEF Settled
    <2> QED
      BY <1>8, <2>1, <2>2 DEF Settled
  <1>9. TreesOK'
    <2>1. (patched.tree # NoTree => Settled(patched.tree)') /\ (accepted.tree # NoTree => Settled(accepted.tree)')
      BY <1>8 DEF TreesOK, RowsOK
    <2>2. ASSUME task.state = "REPAIRING", r.tree # NoTree, r.patch # ""
          PROVE  Settled(r.tree)' /\ r.patch = trees'[r.tree]
      <3>1. CASE r.tree = DemoTree /\ r.patch = "tool" /\ trees'[DemoTree] = "tool"
        BY <3>1 DEF Settled
      <3>2. CASE r.tree = task.run /\ r.patch = trees'[task.run]
        BY <1>1, <1>4, <3>2 DEF Settled
      <3> QED
        BY <2>2, <3>1, <3>2
    <2> QED
      BY <1>1, <2>1, <2>2 DEF TreesOK, Answered
  <1>10. AnchorIsReal'
    BY <1>8 DEF AnchorIsReal, TreesOK, RowsOK
  <1> QED
    BY <1>5, <1>6, <1>7, <1>9, <1>10

LEMMA TaskFails ==
    ASSUME AgentsInvariant, AgentFails
    PROVE  AgentsInvariant'
  <1>1. /\ task.pc \in {"running", "ran", "recorded"} /\ Returns(Failed)
        /\ UNCHANGED <<executor, signal, agentRuns, unwritten, evidenced, patched, accepted>>
    BY DEF AgentFails
  <1>2. trees' = trees \/ trees' = [trees EXCEPT ![DemoTree] = "tool"]
    BY DEF AgentFails
  <1>3. Failed \in Results /\ Failed.status = "failed" /\ Failed.patch = ""
    BY PlainResults
  <1> QED
    BY <1>1, <1>2, <1>3, TaskAnswers

LEMMA LocalTaskEnds ==
    ASSUME AgentsInvariant, LocalAgentEnds
    PROVE  AgentsInvariant'
  <1>1. PICK r \in _run_mock(task.state, task.tree) \cup _run_agentscope(task.state, task.tree) :
            /\ Returns(r)
            /\ trees' = IF r.patch = "tool" THEN [trees EXCEPT ![DemoTree] = "tool"] ELSE trees
    BY DEF LocalAgentEnds
  <1>2. /\ task.pc = "running" /\ executor # "cli"
        /\ UNCHANGED <<executor, signal, agentRuns, unwritten, evidenced, patched, accepted>>
    BY DEF LocalAgentEnds
  <1>3. task.state \in AgentStates /\ task.tree \in SomeTree /\ task.tree = patched.tree
    BY <1>2 DEF AgentsInvariant, RowsOK, TaskRow, DispatchOK, Active
  <1>4. Sound(r, task.state, task.tree)
    BY <1>3, LocalResults
  <1>5. r.patch = "tool" => trees'[DemoTree] = "tool"
    BY <1>1, TreesAreNumbers DEF AgentsInvariant, RowsOK
  <1> QED
    BY <1>1, <1>2, <1>3, <1>4, <1>5, TaskAnswers DEF Sound

LEMMA CLITaskEnds ==
    ASSUME AgentsInvariant, CLIAgentEnds
    PROVE  AgentsInvariant'
  <1>1. PICK r \in _run_cli(task.state, task.tree, task.run, trees[task.run] = "diff") : Returns(r)
    BY DEF CLIAgentEnds
  <1>2. /\ task.pc \in {"running", "recorded"}
        /\ task.state # "VERIFYING" => task.pc = "recorded"
        /\ UNCHANGED <<executor, signal, agentRuns, unwritten, evidenced, trees, patched, accepted>>
    BY DEF CLIAgentEnds
  <1>3. task.state \in AgentStates /\ task.tree \in SomeTree /\ task.tree = patched.tree
    BY <1>2 DEF AgentsInvariant, RowsOK, TaskRow, DispatchOK, Active
  <1>4. task.run \in 1..MaxRuns
    BY <1>2, RunCount DEF AgentsInvariant, DispatchOK, Active
  <1>5. /\ r \in Results /\ r.status = "completed"
        /\ task.state = "REPAIRING" /\ r.patch # "" =>
              r.patch = "diff" /\ trees[task.run] = "diff" /\ r.tree = task.run
        /\ task.state = "VERIFYING" /\ r.gate = "passed" => r.ran = task.tree
    BY <1>1, <1>3, <1>4, CLIResults
  <1> QED
    BY <1>1, <1>2, <1>3, <1>5, TaskAnswers

\* The CLI writes its own tree, which nothing rests on yet.
LEMMA CLITaskWorks ==
    ASSUME AgentsInvariant, CLIRuns
    PROVE  AgentsInvariant'
  <1> USE DEF AgentsInvariant
  <1>1. /\ task' \in TaskRow /\ task'.pc = "ran" /\ task'.run = task.run /\ task'.tree = task.tree
        /\ task'.state = task.state /\ task'.result = task.result
    BY DEF CLIRuns, RowsOK, TaskRow, Active
  <1>2. task.pc = "running" /\ executor = "cli" /\ task.state # "VERIFYING"
    BY DEF CLIRuns
  <1>3. PICK content \in {"source", "diff"} : trees' = [trees EXCEPT ![task.run] = content]
    BY DEF CLIRuns
  <1>4. UNCHANGED <<executor, signal, agentRuns, unwritten, evidenced, patched, accepted>>
    BY DEF CLIRuns
  <1>5. task.run \in 1..Len(agentRuns) /\ task.run \in Trees /\ task.run # DemoTree
    BY <1>2, RunAtWork, TreesOfRuns DEF Active
  <1>6. /\ trees' \in [Trees -> {"source", "diff", "tool"}]
        /\ \A t \in Trees : t # task.run => trees'[t] = trees[t]
    BY <1>3, <1>5 DEF RowsOK
  <1>7. RowsOK'
    BY <1>1, <1>4, <1>6 DEF RowsOK
  <1>8. DispatchOK'
    BY <1>1, <1>2, <1>4 DEF DispatchOK, Active
  <1>9. RowTellsResult'
    BY <1>1, <1>2, <1>4 DEF RowTellsResult
  <1>10. ASSUME NEW t \in SomeTree, Settled(t)
         PROVE  Settled(t)' /\ trees'[t] = trees[t]
    <2>1. CASE t = DemoTree /\ trees[t] = "tool"
      BY <1>5, <1>6, <2>1, TreesAreNumbers DEF Settled
    <2>2. CASE t \in 1..Len(agentRuns) /\ t # task.run
      BY <1>1, <1>4, <1>6, <2>2, TreesOfRuns DEF Settled
    <2> QED
      BY <1>2, <1>10, <2>1, <2>2 DEF Settled
  <1>11. TreesOK'
    BY <1>1, <1>4, <1>10 DEF TreesOK, Answered, RowsOK
  <1>12. AnchorIsReal'
    BY <1>4, <1>10 DEF AnchorIsReal, TreesOK, RowsOK
  <1> QED
    BY <1>7, <1>8, <1>9, <1>11, <1>12

LEMMA CLITaskRecorded ==
    ASSUME AgentsInvariant, _record_cli_evidence
    PROVE  AgentsInvariant'
  <1> USE DEF AgentsInvariant
  <1>1. /\ task' \in TaskRow /\ task'.pc = "recorded" /\ task'.run = task.run /\ task'.tree = task.tree
        /\ task'.state = task.state /\ task'.result = task.result
    BY DEF _record_cli_evidence, RowsOK, TaskRow, Active
  <1>2. task.pc = "ran" /\ evidenced' = evidenced \cup {task.run}
    BY DEF _record_cli_evidence
  <1>3. UNCHANGED <<executor, signal, agentRuns, unwritten, trees, patched, accepted>>
    BY DEF _record_cli_evidence
  <1>4. task.run \in 1..Len(agentRuns)
    BY <1>2, RunAtWork DEF Active
  <1>5. RowsOK'
    BY <1>1, <1>2, <1>3, <1>4 DEF RowsOK
  <1>6. DispatchOK'
    BY <1>1, <1>2, <1>3 DEF DispatchOK, Active
  <1>7. RowTellsResult'
    BY <1>1, <1>2, <1>3 DEF RowTellsResult
  <1>8. \A t \in SomeTree : Settled(t) => Settled(t)'
    BY <1>1, <1>2, <1>3 DEF Settled
  <1>9. TreesOK'
    BY <1>1, <1>3, <1>8 DEF TreesOK, Answered, RowsOK
  <1>10. AnchorIsReal'
    BY <1>3 DEF AnchorIsReal
  <1> QED
    BY <1>5, <1>6, <1>7, <1>9, <1>10

\* The row of a run gets a final status, or is one of the unwritten.
LEMMA TaskRunEnds ==
    ASSUME AgentsInvariant, task.pc = "finishing",
           NEW r \in Results, r = task.result \/ r = Failed,
           task' = [task EXCEPT !.pc = "returned", !.result = r],
           UNCHANGED <<executor, signal, evidenced, trees, patched, accepted>>,
           \/ /\ agentRuns' = [agentRuns EXCEPT ![task.run] = r.status]
              /\ unwritten' = unwritten
           \/ /\ agentRuns' = agentRuns
              /\ unwritten' = unwritten \cup {task.run}
    PROVE  AgentsInvariant'
  <1> USE DEF AgentsInvariant
  <1>1. /\ task' \in TaskRow /\ task'.pc = "returned" /\ task'.run = task.run /\ task'.tree = task.tree
        /\ task'.state = task.state /\ task'.result = r
    BY DEF RowsOK, TaskRow, Active
  <1>2. r.status \in {"completed", "failed"}
    BY PlainResults DEF DispatchOK, Results
  <1>3. task.run \in 1..Len(agentRuns) /\ DOMAIN agentRuns = 1..Len(agentRuns)
    BY RunAtWork, RunCount DEF Active
  <1>4. /\ agentRuns' \in Seq(RunStatuses) /\ Len(agentRuns') = Len(agentRuns)
        /\ DOMAIN agentRuns' = DOMAIN agentRuns
        /\ \A k \in DOMAIN agentRuns : agentRuns'[k] = agentRuns[k] \/ k = task.run
        /\ task.run \in DOMAIN agentRuns \ unwritten' => agentRuns'[task.run] = r.status
    <2>1. CASE agentRuns' = [agentRuns EXCEPT ![task.run] = r.status] /\ unwritten' = unwritten
      <3>1. r.status \in RunStatuses
        BY <1>2 DEF RunStatuses
      <3>2. agentRuns' \in Seq(RunStatuses) /\ Len(agentRuns') = Len(agentRuns)
        BY <1>3, <2>1, <3>1, ExceptSeq DEF RowsOK
      <3> QED
        BY <1>3, <2>1, <3>2
    <2>2. CASE agentRuns' = agentRuns /\ unwritten' = unwritten \cup {task.run}
      BY <2>2 DEF RowsOK
    <2> QED
      BY <2>1, <2>2
  <1>5. /\ unwritten' \subseteq 1..Len(agentRuns) /\ unwritten \subseteq unwritten'
        /\ agentRuns' = agentRuns => task.run \in unwritten' \/ agentRuns'[task.run] = r.status
    BY <1>3, <1>4 DEF RowsOK
  <1>6. RowsOK'
    BY <1>1, <1>4, <1>5 DEF RowsOK
  <1>7. DispatchOK'
    BY <1>1 DEF DispatchOK, Active
  <1>8. RowTellsResult'
    <2>1. \A k \in DOMAIN agentRuns' : agentRuns'[k] = "running" => k \in unwritten'
      <3> SUFFICES ASSUME NEW k \in DOMAIN agentRuns', agentRuns'[k] = "running"
                   PROVE  k \in unwritten'
        OBVIOUS
      <3>1. CASE k = task.run
        BY <1>2, <1>4, <3>1
      <3>2. CASE k # task.run
        BY <1>4, <1>5, <3>2 DEF RowTellsResult
      <3> QED
        BY <3>1, <3>2
    <2>2. executor = "cli" /\ r.status = "completed" => task.state = "VERIFYING" \/ task.run \in evidenced
      BY PlainResults DEF DispatchOK
    <2> QED
      BY <1>1, <1>4, <2>1, <2>2 DEF RowTellsResult
  <1>9. \A t \in SomeTree : Settled(t) => Settled(t)'
    BY <1>1, <1>4 DEF Settled
  <1>10. TreesOK'
    <2>1. (patched.tree # NoTree => Settled(patched.tree)') /\ (accepted.tree # NoTree => Settled(accepted.tree)')
      BY <1>9 DEF TreesOK, RowsOK
    <2>2. CASE r = task.result
      <3>1. r.tree \in SomeTree
        BY DEF Results
      <3> QED
        BY <1>1, <1>9, <2>1, <2>2, <3>1 DEF TreesOK, Answered
    <2>3. CASE r = Failed
      BY <1>1, <2>1, <2>3, PlainResults DEF TreesOK
    <2> QED
      BY <2>2, <2>3
  <1>11. AnchorIsReal'
    BY DEF AnchorIsReal
  <1> QED
    BY <1>6, <1>7, <1>8, <1>10, <1>11

LEMMA TaskFinishes ==
    ASSUME AgentsInvariant, FinishRun \/ FinishRaises
    PROVE  AgentsInvariant'
  <1>1. task \in TaskRow /\ task.result \in Results /\ Failed \in Results /\ Failed.status = "failed"
    BY PlainResults DEF AgentsInvariant, RowsOK, TaskRow
  <1>2. CASE FinishRun
    <2>1. task' = [task EXCEPT !.pc = "returned", !.result = task.result]
      BY <1>1, <1>2 DEF FinishRun, TaskRow
    <2> QED
      BY <1>1, <1>2, <2>1, TaskRunEnds DEF FinishRun, finish_agent_run
  <1>3. CASE FinishRaises
    BY <1>1, <1>3, TaskRunEnds DEF FinishRaises, finish_agent_run
  <1> QED
    BY <1>2, <1>3

\* Only what a trusted repair brought becomes the anchor of the Case.
LEMMA TaskConsumed ==
    ASSUME AgentsInvariant, Consume
    PROVE  AgentsInvariant'
  <1> USE DEF AgentsInvariant
  <1> DEFINE r == task.result
             kept == /\ task.state = "REPAIRING" /\ r.status = "completed"
                     /\ signal \in {"demo_sandbox", "cli_sandbox"}
                     /\ r.patch # "" /\ r.tree # NoTree
  <1>1. task' = NoTask /\ task.pc = "returned"
    BY DEF Consume
  <1>2. UNCHANGED <<executor, signal, agentRuns, unwritten, evidenced, trees>>
    BY DEF Consume
  <1>3. r \in Results
    BY DEF RowsOK, TaskRow
  <1> DEFINE Stays(t) == \/ t = DemoTree /\ trees[t] = "tool"
                         \/ t \in 1..Len(agentRuns)
  <1>4. \A t \in SomeTree : Settled(t) => Stays(t)
    BY DEF Settled
  <1> HIDE DEF Stays
  <1>5. /\ patched' \in [patch : Patches, tree : SomeTree]
        /\ patched'.tree # NoTree => Stays(patched'.tree) /\ patched'.patch = trees[patched'.tree]
    <2>1. CASE kept
      <3>1. patched' = [patch |-> r.patch, tree |-> r.tree]
        BY <2>1 DEF Consume, KeepPatch
      <3>2. Settled(r.tree) /\ r.patch = trees[r.tree]
        BY <1>1, <2>1 DEF TreesOK, Answered
      <3>3. r.patch \in Patches /\ r.tree \in SomeTree
        BY <1>3 DEF Results
      <3> HIDE DEF r
      <3> QED
        BY <1>4, <3>1, <3>2, <3>3
    <2>2. CASE ~kept
      <3>1. patched' = patched
        BY <2>2 DEF Consume, KeepPatch
      <3> QED
        BY <1>4, <3>1 DEF RowsOK, TreesOK, AnchorIsReal
    <2> QED
      BY <2>1, <2>2
  <1>6. /\ accepted' \in [patch : Patches, ran : SomeTree, tree : SomeTree]
        /\ accepted'.tree # NoTree => /\ Stays(accepted'.tree) /\ accepted'.ran = accepted'.tree
                                      /\ accepted'.patch = trees[accepted'.tree]
    <2>1. CASE ReleaseMayBeRequested
      <3>1. accepted' = [patch |-> patched.patch, ran |-> r.ran, tree |-> patched.tree]
        BY <2>1 DEF Consume
      <3>2. Settled(patched.tree) /\ r.ran = patched.tree /\ patched.patch = trees[patched.tree]
        BY <1>1, <2>1 DEF TreesOK, Answered, ReleaseMayBeRequested, AnchorIsReal
      <3>3. patched.patch \in Patches /\ patched.tree \in SomeTree
        BY DEF RowsOK
      <3> QED
        BY <1>3, <1>4, <3>1, <3>2, <3>3 DEF Results
    <2>2. CASE ~ReleaseMayBeRequested
      <3>1. accepted' = accepted
        BY <2>2 DEF Consume
      <3> QED
        BY <1>4, <3>1 DEF RowsOK, TreesOK, AnchorIsReal
    <2> QED
      BY <2>1, <2>2
  <1>7. RowsOK'
    BY <1>1, <1>2, <1>5, <1>6, NoTaskIsATask DEF RowsOK
  <1>8. DispatchOK'
    BY <1>1, NoTaskIsATask DEF DispatchOK, Active
  <1>9. RowTellsResult'
    BY <1>1, <1>2, NoTaskIsATask DEF RowTellsResult
  <1>10. TreesOK'
    BY <1>1, <1>2, <1>5, <1>6, NoTaskIsATask DEF TreesOK, Answered, Settled, Stays
  <1>11. AnchorIsReal'
    BY <1>2, <1>5, <1>6 DEF AnchorIsReal
  <1> QED
    BY <1>7, <1>8, <1>9, <1>10, <1>11

LEMMA TaskForgotten ==
    ASSUME AgentsInvariant, CrashAndRecover
    PROVE  AgentsInvariant'
  <1> USE DEF AgentsInvariant
  <1>1. /\ task' = NoTask /\ unwritten' = {}
        /\ UNCHANGED <<executor, signal, evidenced, trees, patched, accepted>>
    BY DEF CrashAndRecover
  <1>2. DOMAIN agentRuns = 1..Len(agentRuns) /\ Len(agentRuns) \in Nat
    BY RunCount, LenProperties DEF RowsOK
  <1>3. /\ agentRuns' \in Seq(RunStatuses) /\ Len(agentRuns') = Len(agentRuns)
        /\ \A k \in DOMAIN agentRuns' : agentRuns'[k] # "running"
    <2>1. \A k \in 1..Len(agentRuns) : agentRuns[k] \in RunStatuses
      BY ElementOfSeq DEF RowsOK
    <2>2. agentRuns' = [k \in 1..Len(agentRuns) |->
                          IF agentRuns[k] = "running" THEN "failed" ELSE agentRuns[k]]
      BY <1>2 DEF CrashAndRecover
    <2>3. agentRuns' \in [1..Len(agentRuns) -> RunStatuses]
      BY <2>1, <2>2 DEF RunStatuses
    <2>4. agentRuns' \in Seq(RunStatuses)
      BY <1>2, <2>3, SeqDef
    <2>5. Len(agentRuns') = Len(agentRuns)
      <3>1. Len(agentRuns') \in Nat /\ DOMAIN agentRuns' = 1..Len(agentRuns')
        BY <2>4, LenProperties
      <3>2. 1..Len(agentRuns') = 1..Len(agentRuns)
        BY <2>3, <3>1
      <3> HIDE DEF RowsOK
      <3> QED
        BY <1>2, <3>1, <3>2, SameInterval
    <2> QED
      BY <2>2, <2>4, <2>5
  <1>4. RowsOK'
    BY <1>1, <1>3, NoTaskIsATask DEF RowsOK
  <1>5. DispatchOK'
    BY <1>1, NoTaskIsATask DEF DispatchOK, Active
  <1>6. RowTellsResult'
    BY <1>1, <1>3, NoTaskIsATask DEF RowTellsResult
  <1>7. \A t \in SomeTree : Settled(t) => Settled(t)'
    BY <1>1, <1>3, NoTaskIsATask DEF Settled
  <1>8. TreesOK'
    BY <1>1, <1>7, NoTaskIsATask DEF TreesOK, Answered, RowsOK
  <1>9. AnchorIsReal'
    BY <1>1 DEF AnchorIsReal
  <1> QED
    BY <1>4, <1>5, <1>6, <1>8, <1>9

-----------------------------------------------------------------------------
(* The theorems *)

LEMMA AgentsStart == AgentsInit => AgentsInvariant
  <1> SUFFICES ASSUME AgentsInit PROVE AgentsInvariant
    OBVIOUS
  <1>1. /\ agentRuns = <<>> /\ Len(agentRuns) = 0 /\ agentRuns \in Seq(RunStatuses)
        /\ DOMAIN agentRuns = {}
    <2>1. agentRuns = <<>>
      BY DEF AgentsInit
    <2>2. <<>> \in Seq(RunStatuses) /\ Len(<<>>) = 0
      BY EmptySeq
    <2> QED
      BY <2>1, <2>2
  <1>2. /\ task = NoTask /\ unwritten = {} /\ evidenced = {}
        /\ patched = [patch |-> "", tree |-> NoTree]
        /\ accepted = [patch |-> "", ran |-> NoTree, tree |-> NoTree]
        /\ trees = [t \in Trees |-> "source"]
        /\ executor \in {"mock", "agentscope", "cli"} /\ signal \in RepairModes
    BY DEF AgentsInit
  <1>3. RowsOK
    <2>1. patched \in [patch : Patches, tree : SomeTree]
          /\ accepted \in [patch : Patches, ran : SomeTree, tree : SomeTree]
      BY <1>2 DEF Patches, SomeTree
    <2>2. trees \in [Trees -> {"source", "diff", "tool"}]
      BY <1>2
    <2>3. Len(agentRuns) <= MaxRuns
      BY <1>1, MaxRunsAssumption
    <2> QED
      BY <1>1, <1>2, <2>1, <2>2, <2>3, NoTaskIsATask DEF RowsOK
  <1>4. DispatchOK /\ RowTellsResult /\ TreesOK /\ AnchorIsReal
    BY <1>1, <1>2, NoTaskIsATask DEF DispatchOK, Active, RowTellsResult, TreesOK, Answered, AnchorIsReal
  <1> QED
    BY <1>3, <1>4 DEF AgentsInvariant

LEMMA AgentsKeep == AgentsInvariant /\ [AgentsNext]_agentVars => AgentsInvariant'
  <1> SUFFICES ASSUME AgentsInvariant, [AgentsNext]_agentVars PROVE AgentsInvariant'
    OBVIOUS
  <1>1. ASSUME NEW state \in AgentStates, begin_agent_run(state) PROVE AgentsInvariant'
    BY <1>1, TaskBegins
  <1>2. ASSUME NEW state \in AgentStates, DispatchRefused(state) PROVE AgentsInvariant'
    BY <1>2, TaskRefused
  <1>3. CASE AgentFails
    BY <1>3, TaskFails
  <1>4. CASE LocalAgentEnds
    BY <1>4, LocalTaskEnds
  <1>5. CASE CLIRuns
    BY <1>5, CLITaskWorks
  <1>6. CASE _record_cli_evidence
    BY <1>6, CLITaskRecorded
  <1>7. CASE CLIAgentEnds
    BY <1>7, CLITaskEnds
  <1>8. CASE FinishRun \/ FinishRaises
    BY <1>8, TaskFinishes
  <1>9. CASE Consume
    BY <1>9, TaskConsumed
  <1>10. CASE CrashAndRecover
    BY <1>10, TaskForgotten
  <1>11. CASE UNCHANGED agentVars
    <2>1. UNCHANGED <<executor, signal, agentRuns, unwritten, evidenced, task, trees, patched, accepted>>
      BY <1>11 DEF agentVars
    <2>2. RowsOK' /\ DispatchOK'
      BY <2>1 DEF AgentsInvariant, RowsOK, DispatchOK
    <2>3. RowTellsResult' /\ AnchorIsReal'
      BY <2>1 DEF AgentsInvariant, RowTellsResult, AnchorIsReal
    <2>4. TreesOK'
      BY <2>1 DEF AgentsInvariant, TreesOK, Settled, Answered
    <2> QED
      BY <2>2, <2>3, <2>4 DEF AgentsInvariant
  <1> QED
    BY <1>1, <1>2, <1>3, <1>4, <1>5, <1>6, <1>7, <1>8, <1>9, <1>10, <1>11 DEF AgentsNext

LEMMA AgentsAlways == AgentsSpec => []AgentsInvariant
  BY AgentsStart, AgentsKeep, PTL DEF AgentsSpec

\* The values of the rows and of the task at work are those their writers allow
\* (harness.py, teams_adapter.py, cli_teams_adapter.py).
THEOREM AgentTypes == AgentsSpec => []AgentsTypeOK
  <1>1. AgentsInvariant => AgentsTypeOK
    BY RunCount DEF AgentsInvariant, RowsOK, AgentsTypeOK, TaskRow, Results, Active, RunStatuses, SomeTree
  <1> QED
    BY <1>1, AgentsAlways, PTL

\* Whatever the executor and wherever it fails, the row of agent_runs says what the
\* Orchestrator was told, and a completed CLI run has its call in the tool chain.
THEOREM RowsTellResults == AgentsSpec => []RowTellsResult
  <1>1. AgentsInvariant => RowTellsResult
    BY DEF AgentsInvariant
  <1> QED
    BY <1>1, AgentsAlways, PTL

\* No model's word stands for a patch or for a verdict: the Case is anchored to what
\* its sandbox holds, and released on a gate that ran there.
THEOREM AnchorsAreReal == AgentsSpec => []AnchorIsReal
  <1>1. AgentsInvariant => AnchorIsReal
    BY DEF AgentsInvariant
  <1> QED
    BY <1>1, AgentsAlways, PTL
=============================================================================
