--------------------------- MODULE ProjectMonitor ---------------------------
(***************************************************************************)
(* Automatic AI review of one git project: the watcher threads of            *)
(* daemon/project_monitor.py, the settings handler and the review workers of   *)
(* daemon/server.py, on the rows of AutoReview, with crashes and restarts.     *)
(* A watcher works on a copy of the row it read at the top of its poll.  Of the *)
(* content of a file only matters who has looked at its present version.       *)
(***************************************************************************)
EXTENDS AutoReview

CONSTANTS
    Watchers,   \* watcher threads that can exist at once
    NoWatcher,  \* no thread in ProjectMonitor._threads
    MaxFiles    \* files that changed_paths returns and a review reads (MAX_FILES)

ASSUME WatcherAssumption == NoWatcher \notin Watchers
ASSUME MaxFilesAssumption == MaxFiles \in Nat \ {0}

VARIABLES
    dirty,      \* files that differ from HEAD: ai_review.changed_paths
    covered,    \* history: files whose present content a completed review read
    missed,     \* history: changes that a step should have listed or read, and did not
    up,         \* the daemon runs
    current,    \* the watcher in _threads
    watcher,    \* watcher -> its program counter and locals
    worker,     \* run id -> worker thread
    handler     \* the enabling request between its two store calls

monitorVars == <<dirty, covered, missed, up, current, watcher, worker, handler>>
vars == <<project, reports, begun, monitorVars>>

Free == [pc |-> "free", stop |-> FALSE, enabled |-> FALSE,
         unseen |-> {}, batch |-> {}]
NoWorker == [pc |-> "none", read |-> {}, skipped |-> {}]

WatcherPCs == {"free", "start", "baseline", "reconcile", "sleep", "scan", "claim", "start_review", "begin", "failed"}
WorkerPCs == {"none", "reading", "answering", "publishing"}

Alive(w) == watcher[w].pc # "free"
Goes(w, pc) == watcher' = [watcher EXCEPT ![w].pc = pc]

\* What found no room in the list is missed.
ListIsFull == Cardinality(project'.pending) = MaxPending
Lost(paths) ==
    IF project.enabled /\ ListIsFull THEN paths \ project'.pending ELSE {}

-----------------------------------------------------------------------------
(* The working tree *)

\* unseen: changed since the last snapshot of the watcher; read and skipped: not
\* changed since the worker read it or passed it over.
Edit(p) ==
    /\ dirty' = dirty \cup {p}
    /\ covered' = covered \ {p}
    /\ watcher' = [w \in Watchers |->
          IF watcher[w].pc \in {"free", "start", "baseline"} THEN watcher[w]
          ELSE [watcher[w] EXCEPT !.unseen = @ \cup {p}]]
    /\ worker' = [r \in RunIds |->
          [worker[r] EXCEPT !.read = @ \ {p}, !.skipped = @ \ {p}]]
    /\ missed' = missed \ {p}
    /\ UNCHANGED <<reviewVars, up, current, handler>>

Commit ==
    /\ dirty # {}
    /\ dirty' = {} /\ covered' = {} /\ missed' = {}
    /\ UNCHANGED <<reviewVars, up, current, watcher, worker, handler>>

-----------------------------------------------------------------------------
(* Lifecycle of watchers *)

\* start_project: nothing to do while the known thread is alive.
Started ==
    IF current # NoWatcher /\ Alive(current)
    THEN UNCHANGED <<current, watcher>>
    ELSE LET w == CHOOSE w \in Watchers : ~Alive(w)
         IN /\ \E v \in Watchers : ~Alive(v)
            /\ current' = w
            /\ watcher' = [watcher EXCEPT ![w] = [Free EXCEPT !.pc = "start"]]

\* stop_project: the thread is told to stop, joined for two seconds at most, and
\* forgotten; it goes on until it looks at its stop event (a sleeping one only
\* wakes to end, and is taken as ended).
Stopped ==
    /\ current' = NoWatcher
    /\ watcher' = IF current = NoWatcher THEN watcher
                  ELSE IF watcher[current].pc = "sleep"
                  THEN [watcher EXCEPT ![current] = Free]
                  ELSE [watcher EXCEPT ![current].stop = TRUE]

Register ==
    /\ up
    /\ register_monitored_project
    /\ Started
    /\ UNCHANGED <<dirty, covered, missed, up, worker, handler>>

Unregister ==
    /\ up
    /\ unregister_monitored_project
    /\ Stopped
    /\ UNCHANGED <<dirty, covered, missed, up, worker, handler>>

-----------------------------------------------------------------------------
(* _watcher_loop *)

WatcherReads(w) ==
    /\ watcher[w].pc = "start"
    /\ IF project.registered
       THEN watcher' = [watcher EXCEPT ![w].pc = "baseline",
                                       ![w].enabled = project.enabled]
       ELSE watcher' = [watcher EXCEPT ![w] = Free]
    /\ UNCHANGED <<reviewVars, dirty, covered, missed, up, current, worker, handler>>

\* The first snapshot; a thread that cannot take it ends.
Baseline(w) ==
    /\ watcher[w].pc = "baseline"
    /\ watcher' = [watcher EXCEPT ![w].pc = IF watcher[w].enabled THEN "reconcile" ELSE "sleep"]
    /\ missed' = IF project.enabled /\ ~watcher[w].enabled
                 THEN missed \cup dirty ELSE missed
    /\ UNCHANGED <<reviewVars, dirty, covered, up, current, worker, handler>>

BaselineFails(w) ==
    /\ watcher[w].pc \in {"baseline", "reconcile"}
    /\ watcher' = [watcher EXCEPT ![w] = Free]
    /\ UNCHANGED <<reviewVars, dirty, covered, missed, up, current, worker, handler>>

\* The first MAX_FILES of the dirty files, by name; none of them when git fails, which
\* ends in an empty except clause.  (Its timeout is in none, and ends the thread.)
changed_paths ==
    {{}} \cup {some \in SUBSET dirty :
                  Cardinality(some) = MaxFiles \/ (some = dirty /\ Cardinality(dirty) < MaxFiles)}

\* Files that are dirty already count as changed now; what is not listed is missed.
reconcile ==
    \E paths \in changed_paths :
        /\ IF paths = {} THEN UNCHANGED project ELSE note_auto_review_changes(paths)
        /\ missed' = IF project.enabled THEN missed \cup (dirty \ project'.pending) ELSE missed

Reconcile(w) ==
    /\ watcher[w].pc = "reconcile"
    /\ reconcile
    /\ Goes(w, "sleep")
    /\ UNCHANGED <<reports, begun, dirty, covered, up, current, worker, handler>>

\* The poll begins: the stop event, then a fresh copy of the row if there is one.
Poll(w) ==
    /\ watcher[w].pc = "sleep"
    /\ watcher' = IF watcher[w].stop
                  THEN [watcher EXCEPT ![w] = Free]
                  ELSE [watcher EXCEPT ![w].pc = "scan",
                           ![w].enabled = IF project.registered
                                          THEN project.enabled ELSE @]
    /\ UNCHANGED <<reviewVars, dirty, covered, missed, up, current, worker, handler>>

\* diff_snapshots against the last one; the changes are noted if the copy of the
\* row says that review is enabled.
Scan(w) ==
    LET found == watcher[w].unseen
    IN  /\ watcher[w].pc = "scan"
        /\ IF found # {} /\ watcher[w].enabled
           THEN note_auto_review_changes(found)
           ELSE UNCHANGED project
        /\ missed' = IF project.enabled /\ ~watcher[w].enabled THEN missed \cup found
                     ELSE missed \cup Lost(found)
        /\ watcher' = [watcher EXCEPT ![w].pc = "claim", ![w].unseen = {}]
        /\ UNCHANGED <<reports, begun, dirty, covered, up, current, worker, handler>>

\* _start_due_auto_review takes the batch and calls start_code_review.
Claim(w) ==
    /\ watcher[w].pc = "claim"
    /\ claim_due_auto_review
    /\ watcher' = IF Due THEN [watcher EXCEPT ![w].pc = "start_review",
                                              ![w].batch = project.pending]
                  ELSE [watcher EXCEPT ![w].pc = "sleep"]
    /\ UNCHANGED <<reports, begun, dirty, covered, missed, up, current,
                   worker, handler>>

\* start_code_review reads the row again, before it takes the thread lock.
StartReview(w) ==
    /\ watcher[w].pc = "start_review"
    /\ Goes(w, IF project.enabled THEN "begin" ELSE "failed")
    /\ UNCHANGED <<reviewVars, dirty, covered, missed, up, current, worker, handler>>

-----------------------------------------------------------------------------
(* start_code_review under ai_review_threads_lock, and the workers *)

\* _threads of the server knows the latest worker only; it is alive until it has
\* published.  (Mutant: neither is looked at.)
WorkerAlive == begun > 0 /\ worker[begun].pc # "none"
AnyoneMayBegin == begun < MaxRuns
MayBegin == ~WorkerAlive /\ NoneRunning /\ begun < MaxRuns

begin_review(trigger, paths) ==
    /\ begin_code_review_report(trigger, paths)
    /\ worker' = [worker EXCEPT ![begun + 1].pc = "reading"]

Begin(w) ==
    /\ watcher[w].pc = "begin"
    /\ IF MayBegin
       THEN /\ begin_review("automatic", watcher[w].batch)
            /\ watcher' = [watcher EXCEPT ![w].pc = "sleep", ![w].batch = {}]
       ELSE /\ Goes(w, "failed")
            /\ UNCHANGED <<reviewVars, worker>>
    /\ UNCHANGED <<dirty, covered, missed, up, current, handler>>

BatchFails(w) ==
    /\ watcher[w].pc = "failed"
    /\ set_auto_review_failure(watcher[w].batch)
    /\ watcher' = [watcher EXCEPT ![w].pc = "sleep", ![w].batch = {}]
    /\ missed' = missed \cup Lost(watcher[w].batch)
    /\ UNCHANGED <<reports, begun, dirty, covered, up, current, worker, handler>>

ManualReview(p) ==
    /\ up
    /\ project.registered
    /\ p \in dirty
    /\ MayBegin
    /\ begin_review("manual", {p})
    /\ UNCHANGED <<dirty, covered, missed, up, current, watcher, handler>>

\* review_working_tree reads the first MAX_FILES of them, but for those that are not
\* text, too large, over the budget of the prompt or not to be read; then it waits for
\* the model.
WorkerReads(r) ==
    /\ worker[r].pc = "reading"
    /\ \E files \in SUBSET reports[r].paths :
          /\ Cardinality(files) <= MaxFiles
          /\ worker' = [worker EXCEPT ![r] = [pc |-> "answering", read |-> files,
                                              skipped |-> reports[r].paths \ files]]
    /\ UNCHANGED <<reviewVars, dirty, covered, missed, up, current, watcher, handler>>

\* The report is 'complete' whatever was skipped (its coverage notes name the files),
\* and the batch is done with.
WorkerCompletes(r) ==
    /\ worker[r].pc = "answering"
    /\ finish_code_review_report(r, "complete")
    /\ covered' = covered \cup (worker[r].read \cap dirty)
    /\ missed' = IF reports[r].trigger = "automatic"
                 THEN missed \cup worker[r].skipped ELSE missed
    /\ worker' = [worker EXCEPT ![r] = [NoWorker EXCEPT !.pc = "publishing"]]
    /\ UNCHANGED <<dirty, up, current, watcher, handler>>

\* Provider changed, network, unusable answer; or publish() raised after the report
\* was complete: both end in the same except clause.
WorkerFails(r) ==
    /\ worker[r].pc # "none"
    /\ finish_code_review_report(r, "error")
    /\ missed' = IF reports[r].trigger = "automatic"
                 THEN missed \cup Lost(reports[r].paths) ELSE missed
    /\ worker' = [worker EXCEPT ![r] = NoWorker]
    /\ UNCHANGED <<dirty, covered, up, current, watcher, handler>>

WorkerEnds(r) ==
    /\ worker[r].pc = "publishing"
    /\ worker' = [worker EXCEPT ![r] = NoWorker]
    /\ UNCHANGED <<reviewVars, dirty, covered, missed, up, current, watcher, handler>>

-----------------------------------------------------------------------------
(* POST /api/projects/.../ai-review-settings *)

Enable ==
    /\ up
    /\ handler = "idle"
    /\ set_auto_review_enabled(TRUE)
    /\ handler' = "note"
    /\ missed' = {}
    /\ UNCHANGED <<dirty, covered, up, current, watcher, worker>>

\* ... "include already-dirty files".
EnableNotes ==
    /\ handler = "note"
    /\ reconcile
    /\ handler' = "idle"
    /\ UNCHANGED <<reports, begun, dirty, covered, up, current, watcher, worker>>

Disable ==
    /\ up
    /\ set_auto_review_enabled(FALSE)
    /\ UNCHANGED monitorVars

Clock ==
    /\ begun < MaxRuns
    /\ QuietPeriodEnds
    /\ UNCHANGED monitorVars

-----------------------------------------------------------------------------
(* Crash and restart (serve.main) *)

Crash ==
    /\ up
    /\ up' = FALSE
    /\ current' = NoWatcher
    /\ watcher' = [w \in Watchers |-> Free]
    /\ worker' = [r \in RunIds |-> NoWorker]
    /\ handler' = "idle"
    /\ UNCHANGED <<reviewVars, dirty, covered, missed>>

\* The sweep, project_monitor.start() and serve_forever(); nothing else runs yet.
Recover ==
    /\ ~up
    /\ up' = TRUE
    /\ recover_interrupted_code_reviews
    /\ missed' = missed \cup UNION {Lost(reports[r].paths) :
                                      r \in {s \in Running : reports[s].trigger = "automatic"}}
    /\ IF project.registered THEN Started ELSE UNCHANGED <<current, watcher>>
    /\ UNCHANGED <<dirty, covered, worker, handler>>

-----------------------------------------------------------------------------

Init ==
    /\ ReviewInit
    /\ dirty = {}
    /\ covered = {}
    /\ missed = {}
    /\ up = FALSE
    /\ current = NoWatcher
    /\ watcher = [w \in Watchers |-> Free]
    /\ worker = [r \in RunIds |-> NoWorker]
    /\ handler = "idle"

WatcherStep(w) ==
    \/ WatcherReads(w) \/ Baseline(w) \/ BaselineFails(w) \/ Reconcile(w) \/ Poll(w)
    \/ Scan(w) \/ Claim(w) \/ StartReview(w) \/ Begin(w) \/ BatchFails(w)
WorkerStep(r) ==
    \/ WorkerReads(r) \/ WorkerCompletes(r) \/ WorkerFails(r) \/ WorkerEnds(r)
Request ==
    \/ Register \/ Unregister \/ Enable \/ Disable
    \/ \E p \in Paths : ManualReview(p)

Next ==
    \/ \E p \in Paths : Edit(p)
    \/ Commit \/ Request \/ EnableNotes \/ Clock
    \/ \E w \in Watchers : WatcherStep(w)
    \/ \E r \in RunIds : WorkerStep(r)
    \/ Crash \/ Recover

Spec == Init /\ [][Next]_vars

-----------------------------------------------------------------------------
(* Correctness *)

\* Threads, working tree and history keep their types.
MonitorTypeOK ==
    /\ ReviewTypeOK
    /\ dirty \subseteq Paths /\ covered \subseteq Paths /\ missed \subseteq Paths
    /\ up \in BOOLEAN /\ handler \in {"idle", "note"}
    /\ current \in Watchers \cup {NoWatcher}
    /\ watcher \in [Watchers ->
          [pc : WatcherPCs, stop : BOOLEAN, enabled : BOOLEAN,
           unseen : SUBSET Paths, batch : PathLists]]
    /\ worker \in [RunIds -> [pc : WorkerPCs, read : SUBSET Paths, skipped : SUBSET Paths]]

\* Somebody still holds the change of p or has yet to look at it.
InHand(w, p) ==
    \/ watcher[w].pc \in {"start", "baseline", "reconcile"} /\ ~watcher[w].stop
    \/ watcher[w].pc = "sleep" /\ ~watcher[w].stop /\ p \in watcher[w].unseen
    \/ watcher[w].pc \in {"scan", "claim", "start_review", "begin", "failed"}
       /\ p \in watcher[w].unseen \cup watcher[w].batch
UnderReview(r, p) ==
    /\ r \in Running
    /\ reports[r].trigger = "automatic"
    /\ p \in reports[r].paths
    /\ worker[r].pc = "reading" \/ p \in worker[r].read \cup worker[r].skipped
AccountedFor(p) ==
    \/ p \in project.pending
    \/ \E r \in RunIds : UnderReview(r, p)
    \/ \E w \in Watchers : InHand(w, p)
    \/ handler = "note"
    \/ ~up
    \/ \A w \in Watchers : ~Alive(w) \/ watcher[w].stop
Unreviewed == dirty \ covered

\* The change of an enabled project is not forgotten but in the four ways the code has
\* (missed): the cap of the list, a poll that began before the project was enabled, a
\* look at the dirty files that failed or ended at the MAX_FILES-th, and a file that a
\* completed review of its batch passed over.  Any other change that is neither
\* committed nor read by a completed review is queued, under review, or still ahead of
\* some thread - through failed and interrupted reviews, lost claims, crashes and
\* replaced watchers.
NoChangeForgotten ==
    project.enabled => \A p \in Unreviewed \ missed : AccountedFor(p)

\* One review of the project at a time, whoever asked for it, and a report that
\* says 'running' has the worker that will finish it.
OneReviewAtATime ==
    /\ Cardinality(Running) <= 1
    /\ up => \A r \in Running : worker[r].pc \in {"reading", "answering"}

\* store.py:1827: automatic batches are requeued after a restart.  With a watcher
\* polling, and no review running or about to begin, nothing holds back a batch:
\* on the status 'running' claim_due_auto_review refuses it until another change
\* is noted, and the committed change it stands for may have been the last.
QueueNotBlocked ==
    /\ up /\ project.enabled /\ project.pending # {} /\ Running = {}
    /\ \E w \in Watchers : watcher[w].pc = "sleep"
    /\ \A w \in Watchers : watcher[w].pc \notin {"start_review", "begin", "failed"}
    => project.status # "running"
=============================================================================
