# code-defog in TLA+

Specifications of code-defog: what the Case store guarantees whoever calls it,
how the Orchestrator drives a Case through the Agents and two human gates, how
automatic reviews, Review Runs and the daemon's journals and caches behave under
concurrent requests, failures, crashes and restarts.  Paths below are relative to
the repository (`src/`).

## The system

code-defog is a local multi-agent review workbench: one daemon process
(`daemon/serve.py`) with an HTTP server that handles each request on its own
thread, one SQLite database behind one re-entrant lock (`daemon/store.py`),
watcher and worker threads, and Agents that run in the process, through AgentScope,
or as a command-line tool.

| Component | State | Operations | Talks to | Hard part | Correct when |
|---|---|---|---|---|---|
| Case state machine (`agent_runtime/state_machine.py`) | none | `is_valid_transition`, `pending_action_for_state` | read by store and Orchestrator | the table decides for every caller | gates cannot be skipped |
| Case store (`daemon/store.py`) | `cases`, `approval_grants`, `approvals`, `agent_runs` | intake, actions, Grants, transitions, patch anchor | called by every thread | several Grants per gate, expiry, re-entry of repair | decisions unique, recorded, columns consistent |
| Orchestrator (`agent_runtime/orchestrator.py`) | dispatch lock per Case | `on_source_received`, `run_active_state`, `advance`, `recover_interrupted` | store, Harness | reads before locks, results used after unlock, crash | one Agent per Case, nothing stranded, only verified patches released |
| Harness and adapters (`harness.py`, `teams_adapter.py`, `cli_teams_adapter.py`, `agents/`) | running Agent, sandboxes | `dispatch` and three executors | store, tools | timeouts, failures, untrusted results | rows tell what happened, claims never stand for evidence |
| Request handlers (`daemon/server.py`) | one thread per request | intake, grant and action routes | Orchestrator, store | any interleaving | - |
| Source intake (`store.py`) | `case_sources` | `create_or_find_case`, `resolve_pending_sources` | handlers, drive | time windows, duplicates, pending sources | an incident does not scatter over Cases |
| Evidence and controlled repair (`store.py`, `tools/controlled_repair.py`, `agents/verification.py`) | `tool_runs`, `artifacts`, files, sandbox | record, verify, delete, read, repair, gate | Agents | crash between file and row, cleaned values | the chain audit is right, references resolve |
| Automatic AI review (`project_monitor.py`, `server.py`, `store.py`) | pending batch, report rows, threads | note, claim, begin, finish, recover | watcher, worker | crash between claim and begin, failure merge | no change lost but in named ways, one review at a time |
| Commit feed (`project_monitor.py`, `repo_identity.py`) | `base_commit`, remembered HEAD | poll, advance, register | git, journal | git is asked twice, two pollers | a commit told again, or not, only after a named failure |
| Review Runs (`drive.py`, `store.py`) | `review_runs`, `review_task_runs` | start if idle, task updates, finish, delete | worker, server | a publish that raises, crash | a run ends and 'complete' means it |
| Retrospective and knowledge (`retrospective/`) | artifacts, knowledge rows | generate, hook, review | store | double triggers, partial failure | a failure is followed by a new generation, and nothing after a whole one |
| Journal and live stream (`store.py`, `server.py`) | events, bounded queues | ingest, prune, subscribe, publish | all writers | full queue, concurrent publishers, messages of other kinds | newest state arrives but for named losses |
| Server caches and LLM providers (`server.py`, `llm_providers.py`) | graph, summary, assistant, semantic caches | get, store, invalidate, switch | monitor, requests | stored after invalidation, half a switch | no stale view for ever |
| Review feedback (`store.py`) | `review_finding_feedback` | mark, re-open, adopt | requests | rows of an old key format, retention | the last decision shows |
| Worklog (`scripts/watch_worklog.py`, `update_worklog.py`) | snapshot file, worklog | poll, update | an agent's updater | failures, read-modify-write | no change lost silently |
| Discovery (`daemon/service_discovery.py`, `serve.py`) | descriptors, legacy config | start, stop, search | other daemons | crashed daemons, reused ports | running daemons are found |

Project paths, dashboards, code graph, semantics, prompts, the web UI and the report
scripts keep no protocol state; see *Not modelled*.

## Modules

| Module | Models | Composition |
|---|---|---|
| `CaseStateMachine` | `state_machine.py` | the table as a relation, no variables |
| `CaseStore` | the Case half of `StateStore` | **abstract specification** `StoreSpec`: any method, any time, any argument a caller can pass |
| `CaseLifecycle` | what people around a Case may rely on | **abstract specification** `LifeSpec`: stages and decisions on record |
| `Orchestrator` | `orchestrator.py` under the threads of `server.py`, crash, recovery | extends `CaseStore`; **implements** `StoreSpec` and, under a mapping, `LifeSpec` |
| `AutoReview`, `ProjectMonitor` | rows of automatic review; the threads on them | `ProjectMonitor` extends `AutoReview` |
| `ReviewRun` | `drive.py` and its rows | beside `Orchestrator` in `Progress` |
| `Progress` | the fairness of the threads of both | one of the two per behaviour |
| `Artifacts` | artifact files and rows | extended by `Evidence` and `Retrospective` |
| `Intake`, `Evidence`, `Retrospective`, `Agents`, `EventStream`, `ViewCache`, `ReviewFeedback`, `Worklog`, `Discovery`, `CommitFeed` | one part of the daemon each | side by side in `Desk` |
| `MCOrchestrator`, `MCProgress`, `MCProjectMonitor`, `MCDesk` | - | symmetry sets and constants for TLC |
| `CaseStoreProofs`, `OrchestratorProofs`, `LifecycleProofs` | - | theorems about Cases and the Orchestrator |
| `ReviewRunProofs`, `MonitorProofs` | - | theorems about Review Runs and automatic reviews |
| `AgentsProofs`, `EvidenceProofs`, `DeskProofs` | - | theorems about the parts of `Desk`; `EvidenceProofs` is also about `Retrospective`, `DeskProofs` about the other parts and the whole |

`Desk` chooses one part per behaviour and lets the others rest (`OnePart` gives the
resting ones one initial state each).  The ten parts share no state in the
code either, so nothing they could do to each other is lost; `Evidence` and `Retrospective`
share the variables of `Artifacts`, because both write artifacts of the Case, but a behaviour runs
one of them.

### CaseStore

Each public method of `StateStore` holds `self.lock` from its first SELECT to
its commit, so each is one action: `CreateCase` and `LinkSource`
(`create_or_find_case` once the observation is new), `IssueGrant`,
`ConsumeGrant` (the granted branch of `perform_case_action`: mark the Grant
used, insert the approvals row, move the Case), `CloseCase`, `RetryRepair`,
`Cancel` (its service branches), `transition_case`, `set_patch_context`,
`set_patch_ref`.  A call that returns an error writes nothing and is no action.
`ExpireGrant` is the clock.  A row keeps status, pending_action, base_commit,
patch_ref, sandbox_ref, whether closed_at is set, and `trusted`: whether a
source carries a repair mode of `TRUSTED_SANDBOX_MODES`.  Titles, signatures
and times are left out.  The bearer token of a Grant is fresh, so it is the
Grant's id.

`round` is a history variable: the number of times the Case entered REPAIRING
other than by its approved plan.  It exists so that properties can speak of one
visit of a gate; no guard of the code depends on it.

### Orchestrator

A thread has a program counter and the local variables the code keeps across
store calls; an action is what it does between two points where another thread
can get in.

| pc | Action | Code |
|---|---|---|
| idle | `Intake`, `ApprovePlan`, `Retry` | the requests that stay on their thread; the first store call |
| resume | `RunActiveState` | `run_active_state` reads the status |
| advance | `ReadCase` | `advance` reads the Case **before** any lock |
| transition | `Move` | `transition_case` validates again, or the call ends |
| lock | `TakeLock` | dispatch lock and the re-read of the status |
| dispatch | `Dispatch` | third read, context, `begin_agent_run` |
| dispatch | `DispatchRefused` | no row: `begin_agent_run` raised, or no Agent is ready |
| agent | `AgentReturns` | gate report, `finish_agent_run`, lock released |
| agent | `FinishRaises` | `finish_agent_run` raised; the Harness answers 'failed' and the row stays 'running' |
| consume | `ConsumeHandoff`, `ConsumeRepair`, `ConsumeVerification` | what `advance` does with the result, **outside** the lock |
| release | `RequestRelease` | second store call of a passed verification |

`StoreRequest` is every request that is one store call.  `Crash` loses threads
and locks in any state; `FailStaleRun`, `SweepCase`, `StartServing` are
`recover_interrupted`, which `serve.py` runs before it serves (`Init` is such a
start on an empty database).  An Agent returns any result its adapter can
produce; `ResultsOf` lists them, and `Agents` models how they come about.  `unrecorded`
keeps the failed dispatches whose row does not say so: there is none, or it stays
'running' until a recovery (`LeftRunning`); the Case goes on meanwhile as after any
failed run.  A
sandbox is named by the patch it holds: the CLI adapter makes a fresh directory
per run, the demo repair one per patch.  The two-patch behaviours need the CLI
runtime, since the demo patch is fixed.

Abstractions to know: the gate report and the end of the run are one step
(nothing reads the report in between); a crash of the recovery itself is a later
`Crash`; the case that recovery raises and `serve.py` goes on without it, a
server without Harness, and `clear_all` are not modelled; ROLLED_BACK is in the
table and nothing in `src/` asks for it.  Cases share nothing but threads, so
one Case per instance is enough for safety, and a stuck Case cannot block another's
lock.

### CaseLifecycle

Five stages and the decisions on record.  `Orchestrator` maps a status to its
stage (`StageOf`) and the approvals rows of a Case to its decisions, and
`ImplementsLifecycle` says that every step - of racing threads, late Agent
results, retries, recovery - is one of: file a Case, reach a gate, one recorded
decision, or withdraw a release.  The last one is an observation about the code:
a second or late verification that fails takes a Case out of RELEASE_APPROVAL
without anybody deciding; an abstract lifecycle without `Withdraw` is not implemented.

### AutoReview and ProjectMonitor

`AutoReview` has one action or row operator per store method; `ProjectMonitor` has the watcher thread
(`_watcher_loop`: read the row, baseline, reconcile, then poll, scan, claim,
begin), the review worker, the settings handler with its two store calls, and
crash and recovery.  A watcher decides with the copy of the row it took at the top of its
poll, as the code does.  `current` is what `ProjectMonitor._threads` knows; a
stopped watcher that outlived the two seconds' join goes on beside its successor.
A list of pending paths is a set: the code keeps it sorted and without doubles, and
nothing depends on its order but which paths the cap drops, which the model leaves
open.  A look at the dirty files lists `MaxFiles` of them at most (the code's 40), or none when
git fails (`changed_paths`), and a review reads at most as many of its batch, any
subset of them: eligibility, size and budget are left open (`WorkerReads`).
`covered` and `missed` are history: what a completed review read, and what was lost to the
cap of the pending list, a stale copy of the row, a look that failed or was cut off, or a
completed review that passed it over.

### ReviewRun

`run_drive` is a script of task updates that depends on the scope (`Script`); a step is
an update with its publish.  Any step may raise: `StepRaises` leads to the except
clause, `FirstPublish` and `ExceptClause` may lose the thread with the row still
'running'.  `fate` records why a run did not end by itself.  No sweep looks at
`review_runs`, so `DriveCrash` needs no recovery step.

### The parts in Desk

- `Intake`: `_create_or_find_case_locked` with its three windows (idempotency,
  incident, association), candidates and deadline, and the promotion of
  overdue sources.  One canonical repository; signatures never cross two.
- `Artifacts`, `Evidence`: file before row, the hash chain (a hash is the list of all
  it covers, back to the first row, so equal hashes have equal contents), the sandbox steps of
  `apply_case_a_patch`, the gate's report and run, edits of the database
  behind the store's back, and a crash or exception between any two writes.
- `Retrospective`: hook, requests, per-Case lock, guard, report, manifest, knowledge
  rows, clean-up; each write may fail, and a failed insert leaves rows that the
  clean-up commits.
- `Agents`: one dispatch at a time through mock, AgentScope and CLI executors; what
  of a model's claim survives beside a tool's result; the CLI's evidence between
  its exit and the reading of its reply; lost writes of the run row.
- `EventStream`: a state is a version (the number of journal writes it shows); a
  publisher delivers queue by queue outside the lock; pruning every n-th ingest.
  Messages of other kinds (`News`: tasks, reviews, Cases, providers) take places in the
  same queues, and push out whatever is oldest there.
  `publish` works on a copy of the list of queues, so it may still serve one that
  nobody reads any more; when that one is full a second time, the exception ends
  the delivery to the queues after it (`DepartedQueueFull`).
- `ViewCache`: a request looks, works without a lock, stores; entries expire or
  are evicted; files change; a provider switch is memory, file, then three caches.
- `ReviewFeedback`: marks under the new and the old key, adoption, retention.
- `Worklog`: watcher and updater processes, an agent's updater, a lost state file.  A
  note is a file and its version; the code names at most `max_files_per_note` of
  the changed files in one update, the model names all.
- `Discovery`: daemons that start in four steps and may die in each, ports used
  again, and a search that probes with timeouts.
- `CommitFeed`: two pollers between two questions to git, a row read and written
  apart, a registration with a remembered HEAD.  History is linear; base 0 is a
  row without a base.

## Runs

| Run | Instance | Shows |
|---|---|---|
| `orchestration` | 1 Case, 2 threads, 2 patches, 2 Grants, 1 re-entry, 1 failed dispatch, not all at once | Grants, gates and columns keep their promises in the composed system; one Agent per Case, trusted anchor, authorised repair, nothing stranded; `StoreSpec` and `LifeSpec` are implemented |
| `progress` | 1 Case, 2 threads, 1 failed dispatch; or 2 Review Runs, retention 1, the widest scope and one without Harness and tests; fair | runs end, no standstill; a workspace is busy only while somebody works, 'complete' is whole, a run in progress is kept, drives end |
| `watch` | 2 watchers, 2 reviews or 2 files, with one of each of the others; pending cap 1, a look or a review takes 1 file, retention 1 | rows and threads keep their types, no change of an enabled project is forgotten but in four named ways, reviews exclude each other |
| `desk` | one part per behaviour, constants in `MCDesk.cfg` | one to three promises of each of the ten parts |
| `double_dispatch`, `repair_without_plan`, `release_target`, `unverified_release`, `blocked_batch`, `audit`, `commits`, `knowledge` | the smallest instance that shows it | eight statements of comments and documents the code does not keep (PROJECT.json, findings) |

`desk` sets CHECK_DEADLOCK FALSE: its parts stop where a bound is reached (clock,
rows, writes), while the program would go on.  All other runs check deadlock.

### Bounds and why they are enough

`MaxRounds` bounds re-entries of REPAIRING, `MaxRuns` reports, Review Runs or Agent runs, the
other `Max` constants clocks, rows, edits, commits and restarts; the code has no such
limits, and each is a guard named in its module.

- `orchestration`: two threads suffice for every race of the hazards around a Case: each
  involves one request that read and one that wrote.  One re-entry gives an old and a new
  visit of each gate, two patches tell a current anchor from a stale one, two Grants
  allow a left-over and a fresh one.  The constraint `OnlyOneIsTwo` follows two requests
  at once with one patch and one Grant, two patches or Grants with one request, and a
  dispatch that fails with one of everything: together they would not finish.  A step
  beyond it is checked, and what it leaves out is covered by the theorems.
- `progress`: liveness needs the graph without symmetry, so there is no re-entry, and no
  retried Case.  `MaxUnrecorded` is 1: a second row without an end adds nothing to
  the first.  A second Review Run meets a finished, a crashed or a deleted first
  one, and with retention 1 it drops it.
- `watch`: a second watcher is the one left over from a restart.  One file is enough
  for a change to be lost, and two for the cap of 1 to drop one; retention 1 drops a
  report; two reviews let a manual and an automatic one follow each other.
  The constraint `OnlyOneIsTwo` keeps at most one of files, watchers and reviews at
  two (a second review begun beside a second watcher is checked, and not followed):
  together they would not finish.
  What it leaves out is covered by the theorems about the same properties.
- `desk`: each window is at least one tick and the clock passes them all; queues have one
  place, so they overflow; the constraint `WritesWithDashboards` allows five journal
  writes without a dashboard (pruning), four with one (overflow and overtaking) and three
  with two dashboards (one delivery after the other; messages of other kinds under way then only
  before the first write); two requests, publishers,
  generators or pollers make the race between a read and a write; three findings make one text shared and
  one retained away; three daemons on two ports make a port used again.  Rows of
  two workspaces, Cases or projects never meet, so one of each is modelled.

### The same property twice

`ReleaseIsVerified` holds while requests come one at a time (in `orchestration`
two patches are followed with one request) and fails when a
cancelled repair overlaps its retry (`unverified_release`): the second is the finding,
the first shows that nothing else breaks it.

### What properties say about known losses

Several properties name the ways in which the code may lose or repeat something as
history variables, and state that there are no others.  Where one of these ways contradicts
what a comment says in so many words, that statement has a run of its own:

| History | What is lost or repeated | Text a run refutes |
|---|---|---|
| `missed` | a change over a cap, behind a failed look, before a stale poll, passed over by a review (its coverage notes name it) | - |
| - | a batch beside an interrupted manual review | `store.py:1827`, run `blocked_batch` |
| `unrecorded` | the end of an Agent run that could not be written, or a dispatch without a row | - |
| `fate` | a Review Run whose thread a crash or a publish took | - |
| `slipped` | the newest state for a dashboard: race for a full queue, overtaken, pushed out by other messages | - |
| `odd`, `edits` | an untouched chain accused; an emptied or covered one accepted | `store.py:1434`, run `audit` |
| `broken`, rows of a failed insert | knowledge without a report; the same entries twice | `retrospective.py:26-28, 97-98`, run `knowledge` |
| `again`, `reopened`, `holes` | a commit told twice, or never | `project_monitor.py:280`, run `commits` |
| `overwritten` | a note that another updater wrote over | - |
| `dropped` | the feedback on a finding beyond the retention | - |
| `halfDeleted` | a file whose row an interrupted deletion left | - |

## Fairness

`Progress!ProgressSpec` has, for the part that a behaviour runs, weak fairness of each
request thread's steps, because a runnable thread runs and each adapter bounds its Agent (CLI `timeout_s`, AgentScope hard
timeout, 30 s for the gate), and of the recovery steps.  Requests are never
assumed to come, people never to decide, and `threading.Lock` promises no order
among waiters, so `TakeLock` gets no strong fairness; no property needs it.

The other part has weak fairness of `run_drive`'s steps of each Review Run: every call of its script (tests,
scan, Agent) has a timeout.  Nothing is assumed of requests, and a crash may take
the thread at any time; `DrivesEnd` names that outcome.

`ProjectMonitor` and `Desk` state no fairness and have safety properties only:
`BaselineFails` ends a watcher for good and a model provider may never answer, so
"every change is reviewed in the end" is not something this code promises.

## Proofs

Eight modules prove, for every value of the constants, the safety properties that the
passing runs check on small instances; `PROJECT.json` lists the theorems.  A proof
assumes of the constants only what the module that declares them assumes by name
(`RefsAssumption`, `GrantsAssumption`, `BoundAssumption`, `ThreadsAssumption`,
`RunLimits`, `LimitsAssumption`, `WatcherAssumption`, `MaxRunsAssumption`,
`ArtifactsAssumption`, `ToolRunsAssumption`, `GeneratorAssumption`, `RetroKindsAssumption`,
`IntakeAssumption`, `StreamAssumption`, `ViewAssumption`, `FeedbackAssumption`,
`WorklogAssumption`, `DiscoveryAssumption`, `CommitsAssumption`): bounds are numbers, and
what stands for nothing is none of the things it is the absence of.  Two theorems have a
hypothesis of their own besides: `ReleasesAreVerified` is about one request thread
(`OneThread`), `JournalIsBounded` about finitely many sessions.

Nearly no property is inductive as the runs state it.  Each proof has the same shape:
an invariant that says why the property holds (most were checked by TLC on a small
instance before they were proved), one lemma per action that says the action keeps it, and the
theorem that draws the property from it.  The module's comments say what each part of
the invariant is there for; here is the short form.

`CaseStoreProofs` proves, for any sets of Cases, patches, commits and Grants
and any `MaxRounds`, from the three assumptions on constants in `CaseStore`:

- `StoreTypeCorrect`: `StoreTypeOK` is inductive by itself.
- `StatusColumnsAgree`: `PendingMatchesStatus` and `ClosedAtMatchesStatus`,
  from `RowsOK`; a cancel keeps closed_at, so the proof needs that a closed Case
  makes no move (`DeadEnds`).
- `GrantsSpentOnce`: from `GrantsOK`, which adds that ids are unique.
- `GateDecisionIsUnique`: `GateDecidedOnce` is not inductive: nothing in it says that
  the Case of a decided gate cannot be back at that gate.  `DecisionsOK` adds it:
  after a decision in round r the Case is either in a later round or in a status
  past the gate (`PlanDecided`, `ReleaseDecided`), which the table never leaves
  backwards without raising the round (`NoWayBack`).
- `ReleaseIsApproved`: only `ConsumeGrant` writes RELEASED, and its row is of
  the current round.
- `DecisionsRecorded`, an action property: that a recorded row is new needs, for a
  Grant, that it was unspent (`GrantsOK`), and for a close, that no Case closes
  twice (`ClosingsOK`: a Case with a close_case row is and stays CLOSED).

`OrchestratorProofs` proves, for any number of threads besides, and from
`ThreadsAssumption`:

- `OrchTypeCorrect`: from `TypesOK`, which adds to `OrchTypeOK` what a thread
  relies on at each pc (`RowReady`: it has a Case; its target is an
  Agent-active state once it is past the transition; a "patched" result carries
  a patch).
- `OrchestrationImplementsStore`: the mapping is the identity on the Case
  tables; each step is a method of the store or leaves them alone
  (`StepIsStoreStep`).  `StoreGuaranteesCarryOver` draws the consequence.
- `AgentsExclude`: `RunsHoldLock` and `OneRunPerCase` together with `LocksHeld`
  (a thread inside the with block holds the lock of its Case, also before its
  run row exists) are inductive.
- `AnchorsAreTrusted`: `TrustedAnchor` is about rows only; its proof needs what
  threads carry from read to read (`ThreadAnchored`: trust in a context never
  exceeds that of the Case, a thread goes for VERIFYING only when the Case is
  anchored), and that rows only grow in this respect (`Grown`).

`LifecycleProofs`, from the same assumptions:

- `FirstRepairIsAuthorised` (`RepairIsAuthorised`): a Case enters repair by a thread that
  decided to go there some reads ago.  `ThreadsPast` says that the plan of the Case of
  such a thread is decided for good, `AuthorisedOK` that it has the approval as long
  as it was never retried.
- `OrchestrationImplementsLifecycle` (`ImplementsLifecycle`): every store step is of one of a
  few kinds (`Kind`), and each kind is a step of `CaseLifecycle` or a stutter.  It
  takes `TrailOK`: rows are about filed Cases and no future round, and after a cancel a
  Case stays escalated or is closed until its round is over.
- `NobodyIsStranded` (`ParkedOnlyAfterFailure`): `ServedOK` says that an Agent-active Case of
  a serving daemon has a failed Agent or a thread whose next steps carry it on
  (`Works`), and that the Cases a recovery has swept are at rest; `InformedOK` is what a
  thread still knows from its reads, so that no step it takes can be refused.
- `ReleasesAreVerified` (`ReleaseIsVerified`), for one request thread (`OneThread`) and any
  number of Cases, patches, Grants and re-entries; with two threads the property is
  false, which is the finding of `unverified_release`.  `VerifiedOK` says what a second
  request would break: what the thread has read of its Case, and the context its
  Agent was given, are what is there; and a Case does not wait for release while an
  Agent is due.

`ReviewRunProofs`, from `RunLimits`:

- `CompleteRunsAreWhole` (`CompleteIsWhole`): `RunsAgree` says that the row and the thread agree,
  in particular which tasks the thread has left behind at each place of its script
  (`Settled`), and that only a tested run promotes Cases.
- `BusyRunsAreAtWork` (`BusyMeansAtWork`): `OneAtWork`, at most one row is running, and its
  thread is alive, crashed or lost by a publish.
- `RunsInProgressAreKept`, the action property `ActiveRunKept`; `RunTypes`.

`MonitorProofs`, from `LimitsAssumption` and `WatcherAssumption`:

- `ReviewsRunAlone` (`OneReviewAtATime`): `ReviewsOK`, only the report begun last can be
  running and its worker is at work while the daemon is up.
- `ChangesAreNotForgotten` (`NoChangeForgotten`): `ChangesKept`, in which a watcher that
  was told to stop counts for nothing but the batch it holds; with `WatchersOK`, which says
  that the only watcher not told to stop is the one in `_threads`, and that a batch
  is held only on the way to its review.
- `MonitorTypes`, with the cap of the lists of paths.

`AgentsProofs`, from `MaxRunsAssumption`, by one invariant `AgentsInvariant`:

- `RowsTellResults` (`RowTellsResult`): `DispatchOK` says where a dispatch is and what evidence it
  has left by then.
- `AnchorsAreReal` (`AnchorIsReal`): `TreesOK` says that the trees a Case is anchored to are
  `Settled`: nothing will write to them again.

`EvidenceProofs`, from the assumptions of `Artifacts`, `Evidence` and `Retrospective`:

- `AuditIsRight` (`ChainAuditIsRight`): `ChainOK`.  As long as nobody edits, the hash of row k is
  the list of all k rows as they were passed; hence an edited row no longer matches, and
  where every row matches again because hashes were made anew or rows cut off, it is the
  anchor that tells, until the next row moves it.
- `ResultsResolve` (`ResultRefResolves`) and `RepairsAreEvidenced` (`RepairIsEvidenced`): `FilesOK`,
  `ResultsOnFile`, and what the repair has on record at each of its steps (`RepairOK`,
  `ReturnedOK`).  A chain that was cut may have lost the rows a repair names; the
  invariant says so (`Intact`), as the property does.
- `KnowledgeIsSettled` (`KnowledgeSettles`): `HolderOK`, who works on a retrospective holds
  the lock, and `ReportOK`, how far report and knowledge have come.
- `EvidenceTypes`, `RetroTypes`.

`DeskProofs`, from the assumptions of the parts:

- `SourcesGoToOlderCases`, `PromotedSourcesStandApart`: each source is where its state says
  (`Placed`), promoted ones have Cases of their own (`OwnCases`; overdue sources are
  promoted in one step, to Cases counted from their rank among the overdue).
- `ViewsAreCurrent`: every subscriber is being served, slipped, or is caught up: the last
  thing it has or shows is at least as new as what was announced (`ScreensCurrent`).
- `JournalIsBounded` (`EventsBounded`), for finitely many sessions: beyond the retention are
  at most `sincePrune` rows and `PruneEvery - 1` for each restart (`JournalInvariant`).  The sum
  over the sessions is a fold.  What a fold is, and that it grows by at most what one of its
  numbers grows (`TotalsExist`, `TotalsCompare`), is proved by the least number of
  elements for which it would fail, since no induction theorem can be applied.
- `ViewsExpire`, `SwitchesClearAnswers`: what a request or an entry misses came after the
  request began (`RequestsOK`), so its time to live runs out soon after (`EntriesExpire`).
- `FeedbackSaysLastDecision`: a finding's own row is its newest and says what was decided,
  an adopted one does where there is no own (`FindingsOK`, `FeedbackKeys`).
- `ChangesReachTheWorklog`: what the snapshots have moved past was in the log
  (`SnapshotsReported`); copies are whole until two updaters overlap (`CopiesWhole`).
- `SearchesFindRunning`: who stayed is a candidate until its probe (`StayedFound`).
- `OnlyReopenedToldAgain` (`RepeatsAreReopened`): what is below a base is told, skipped or with a poller that will tell
  it (`NonePassed`); what is told or about to be is below every base from which a poll
  goes on, and with one poller only (`ToldOnce`).
- `WholeIsEachPart`: `DeskSpec` implements the specification of each part, so that every theorem
  about a part holds of the whole; `DeskTypes` (`DeskTypeOK`).

Only model-checked: `RunsEnd`, `NoStandstill` and `DrivesEnd`.
They are about fairness or about what is enabled, which is out of the prover's reach.
The statements that violation runs refute are false and have no theorem.

## Not modelled

- Project discovery and paths: queries of the operating system and of git that
  keep nothing (`resolve_base_commit` and its memory are in `CommitFeed`).
- Dashboards, code graph, semantics, prompts and parsing of Agent output: functions
  of their input with no state; what caches do with the answers is in
  `ViewCache`, and a reply is valid or not in `Agents`.
- Web UI and report scripts: clients of the HTTP interface and formatters.
- HTTP itself: authentication, JSON and status codes; a refused call does nothing.
- Two hazards are noted without a property.  A Case left in RECEIVED by a crash: no text
  promises that anything resumes it.  A close that never fires the retrospective hook:
  `retrospective.py:3-5`, `serve.py:266` and `store.py:58-62` do promise a retrospective
  of a closed Case, and `close_case`, the only call that closes one, does not ask for it.
  The call is absent, whatever the order of events; `Retrospective!close_case` models
  the absence, and a check would only repeat it.

## Plan

Every safety property that a passing run checks has its theorem.  What is left:

1. Lemmas that `OrchestratorProofs` and `LifecycleProofs` state once per property (what
   each store call does to the row of a Case) stated once for all of them.
2. Each part of `Desk` as an implementation of a short specification of what it promises,
   as `CaseLifecycle` is one for the Orchestrator; first `EventStream` (a dashboard as a
   register that only moves forward but for named losses) and `CommitFeed`.
3. Type correctness and the recovery of several Cases under one crash in the runs, once
   an instance of two Cases finishes within the time of a run.
