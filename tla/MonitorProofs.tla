--------------------------- MODULE MonitorProofs ---------------------------
(* What holds of the automatic review of a project for every set of files,     *)
(* every number of watchers and reviews, and every cap and retention: one      *)
(* review at a time, and no change forgotten.                                  *)
EXTENDS ProjectMonitor, FiniteSetTheorems, TLAPS

WatcherRow == [pc : WatcherPCs, stop : BOOLEAN, enabled : BOOLEAN,
               unseen : SUBSET Paths, batch : PathLists]
WorkerRow == [pc : WorkerPCs, read : SUBSET Paths, skipped : SUBSET Paths]

\* Only the last report begun can be 'running', and its worker has not answered.
ReviewsOK ==
    /\ \A r \in Running : r = begun
    /\ up => \A r \in Running : worker[r].pc \in {"reading", "answering"}
    /\ ~up => \A r \in RunIds : worker[r] = NoWorker

\* A watcher that was not told to stop is the one in _threads, a batch is only held
\* on the way to its review, and nothing runs in a daemon that is down.
HoldsBatch == {"start_review", "begin", "failed"}
WatchersOK ==
    /\ project.enabled => project.registered
    /\ \A w \in Watchers : Alive(w) /\ ~watcher[w].stop => w = current
    /\ current # NoWatcher => ~watcher[current].stop
    /\ \A w \in Watchers : watcher[w].pc \notin HoldsBatch => watcher[w].batch = {}
    /\ ~up => /\ current = NoWatcher /\ handler = "idle"
              /\ \A w \in Watchers : watcher[w] = Free

\* What is left of InHand when the stop event is looked at everywhere: a thread that
\* was told to stop will do nothing for what it has seen change, and its successor
\* sees that too.
Holds(w, p) ==
    \/ watcher[w].pc \in {"start", "baseline", "reconcile"} /\ ~watcher[w].stop
    \/ Alive(w) /\ ~watcher[w].stop /\ p \in watcher[w].unseen
    \/ watcher[w].pc \in HoldsBatch /\ p \in watcher[w].batch

NobodyPolls == \A w \in Watchers : ~Alive(w) \/ watcher[w].stop
Kept(p) ==
    \/ p \in project.pending
    \/ \E r \in RunIds : UnderReview(r, p)
    \/ \E w \in Watchers : Holds(w, p)
    \/ handler = "note" \/ ~up \/ NobodyPolls

ChangesKept == project.enabled => \A p \in Unreviewed \ missed : Kept(p)

-----------------------------------------------------------------------------
(* The rows *)

LEMMA TypesMean ==
    MonitorTypeOK <=>
        /\ project \in ProjectRow /\ reports \in [RunIds -> ReportRow]
        /\ begun \in 0..MaxRuns
        /\ dirty \subseteq Paths /\ covered \subseteq Paths /\ missed \subseteq Paths
        /\ up \in BOOLEAN /\ handler \in {"idle", "note"}
        /\ current \in Watchers \cup {NoWatcher}
        /\ watcher \in [Watchers -> WatcherRow] /\ worker \in [RunIds -> WorkerRow]
  BY DEF MonitorTypeOK, ReviewTypeOK, WatcherRow, WorkerRow

LEMMA NoPathsIsAList == {} \in PathLists
  <1>1. Cardinality({}) = 0
    BY FS_EmptySet
  <1>2. 0 <= MaxPending
    BY LimitsAssumption
  <1> QED
    BY <1>1, <1>2 DEF PathLists

LEMMA OnePathIsAList == \A p \in Paths : {p} \in PathLists
  <1> SUFFICES ASSUME NEW p \in Paths PROVE {p} \in PathLists
    OBVIOUS
  <1>1. Cardinality({p}) = 1
    BY FS_Singleton
  <1>2. 1 <= MaxPending
    BY LimitsAssumption
  <1> QED
    BY <1>1, <1>2 DEF PathLists

LEMMA ListsArePaths == \A paths \in PathLists : paths \subseteq Paths
  BY DEF PathLists

LEMMA Blanks ==
    NoProject \in ProjectRow /\ NoReport \in ReportRow /\ Free \in WatcherRow
    /\ NoWorker \in WorkerRow
  <1>1. NoProject \in ProjectRow
    BY NoPathsIsAList DEF NoProject, ProjectRow, ReviewStatuses
  <1>2. NoReport \in ReportRow
    BY NoPathsIsAList DEF NoReport, ReportRow
  <1>3. Free \in WatcherRow
    BY NoPathsIsAList DEF Free, WatcherRow, WatcherPCs
  <1>4. NoWorker \in WorkerRow
    BY DEF NoWorker, WorkerRow, WorkerPCs
  <1> QED
    BY <1>1, <1>2, <1>3, <1>4

\* What happens to the list when paths are merged into it.
LEMMA MergedMeans ==
    ASSUME NEW pending, NEW paths, NEW merged \in Merged(pending, paths)
    PROVE  /\ merged \in PathLists /\ pending \subseteq merged
           /\ paths \subseteq merged \/ Cardinality(merged) = MaxPending
  BY DEF Merged

\* Noting, requeueing and finishing leave a row of the table, with the settings it
\* had, whose list has lost nothing and has room for what it did not take.
After(row, paths, next) ==
    /\ next \in ProjectRow
    /\ next.enabled = row.enabled /\ next.registered = row.registered
    /\ row.pending \subseteq next.pending
    /\ paths \subseteq next.pending \/ Cardinality(next.pending) = MaxPending

LEMMA NotedMeans ==
    ASSUME NEW row \in ProjectRow, NEW paths, NEW next \in Noted(row, paths)
    PROVE  /\ next \in ProjectRow
           /\ next.enabled = row.enabled /\ next.registered = row.registered
           /\ row.pending \subseteq next.pending
           /\ row.enabled => After(row, paths, next)
  <1>1. CASE row.enabled
    <2>1. PICK merged \in Merged(row.pending, paths) :
             next = [row EXCEPT !.pending = merged, !.changed = "recent",
                                !.status = "waiting"]
      BY <1>1 DEF Noted
    <2>2. /\ next.pending = merged
          /\ next.enabled = row.enabled /\ next.registered = row.registered
      BY <2>1 DEF ProjectRow
    <2>3. merged \in PathLists
      BY MergedMeans
    <2>4. next \in ProjectRow
      BY <2>1, <2>3 DEF ProjectRow, ReviewStatuses
    <2> QED
      BY <2>2, <2>4, MergedMeans DEF After
  <1>2. CASE ~row.enabled
    BY <1>2 DEF Noted
  <1> QED
    BY <1>1, <1>2

LEMMA RequeuedMeans ==
    ASSUME NEW row \in ProjectRow, NEW paths, NEW next \in Requeued(row, paths)
    PROVE  After(row, paths, next)
  <1>1. PICK merged \in Merged(row.pending, paths) :
           \E status \in ReviewStatuses, changed \in {"none", "recent", "quiet"} :
              next = [row EXCEPT !.pending = merged, !.status = status,
                                 !.changed = changed]
    BY DEF Requeued, ReviewStatuses
  <1>2. PICK status \in ReviewStatuses, changed \in {"none", "recent", "quiet"} :
           next = [row EXCEPT !.pending = merged, !.status = status, !.changed = changed]
    BY <1>1
  <1>3. /\ next.pending = merged
        /\ next.enabled = row.enabled /\ next.registered = row.registered
    BY <1>2 DEF ProjectRow
  <1>4. merged \in PathLists
    BY MergedMeans
  <1>5. next \in ProjectRow
    BY <1>2, <1>4 DEF ProjectRow
  <1> QED
    BY <1>3, <1>5, MergedMeans DEF After

LEMMA QueueFailedMeans ==
    ASSUME NEW row \in ProjectRow, NEW report \in ReportRow, NEW status,
           NEW next \in QueueFailed(row, report, status)
    PROVE  /\ next \in ProjectRow
           /\ next.enabled = row.enabled /\ next.registered = row.registered
           /\ row.pending \subseteq next.pending
           /\ status # "complete" /\ report.trigger = "automatic" /\ row.enabled
                 => After(row, report.paths, next)
  <1>1. CASE status # "complete" /\ report.trigger = "automatic" /\ row.enabled
    <2>1. PICK merged \in Merged(row.pending, report.paths) :
             next = [row EXCEPT !.pending = merged,
                                !.changed = IF merged = {} THEN "none" ELSE "recent"]
      BY <1>1 DEF QueueFailed
    <2>2. /\ next.pending = merged
          /\ next.enabled = row.enabled /\ next.registered = row.registered
      BY <2>1 DEF ProjectRow
    <2>3. merged \in PathLists
      BY MergedMeans
    <2>4. next \in ProjectRow
      BY <2>1, <2>3 DEF ProjectRow
    <2> QED
      BY <2>2, <2>4, MergedMeans DEF After
  <1>2. CASE ~(status # "complete" /\ report.trigger = "automatic" /\ row.enabled)
    BY <1>2 DEF QueueFailed
  <1> QED
    BY <1>1, <1>2

\* The end of a review for the project row.
LEMMA FinishMeans ==
    ASSUME MonitorTypeOK, NEW r \in RunIds, NEW status \in {"complete", "error"},
           finish_code_review_report(r, status)
    PROVE  /\ project' \in ProjectRow
           /\ project'.enabled = project.enabled
           /\ project'.registered = project.registered
           /\ project.pending \subseteq project'.pending
           /\ status # "complete" /\ reports[r].trigger = "automatic"
              /\ project.enabled /\ project.registered
                 => After(project, reports[r].paths, project')
  <1>1. project \in ProjectRow /\ reports[r] \in ReportRow
    BY TypesMean
  <1>2. CASE ~project.registered
    BY <1>1, <1>2 DEF finish_code_review_report
  <1>3. CASE project.registered
    <2>1. PICK row \in QueueFailed(project, reports[r], status) :
             \E word \in ReviewStatuses : project' = [row EXCEPT !.status = word]
      BY <1>3 DEF finish_code_review_report, ReviewStatuses
    <2>2. PICK word \in ReviewStatuses : project' = [row EXCEPT !.status = word]
      BY <2>1
    <2>3. /\ row \in ProjectRow
          /\ row.enabled = project.enabled /\ row.registered = project.registered
          /\ project.pending \subseteq row.pending
      BY <1>1, QueueFailedMeans
    <2>4. /\ project' \in ProjectRow /\ project'.pending = row.pending
          /\ project'.enabled = row.enabled /\ project'.registered = row.registered
      BY <2>2, <2>3 DEF ProjectRow
    <2>5. status # "complete" /\ reports[r].trigger = "automatic" /\ project.enabled
             => After(project, reports[r].paths, row)
      BY <1>1, QueueFailedMeans
    <2> QED
      BY <2>3, <2>4, <2>5 DEF After
  <1> QED
    BY <1>2, <1>3

LEMMA FinishedReports ==
    ASSUME MonitorTypeOK, NEW r \in RunIds, NEW status \in {"complete", "error"},
           finish_code_review_report(r, status)
    PROVE  /\ reports' \in [RunIds -> ReportRow] /\ begun' = begun
           /\ \A s \in RunIds \ {r} : reports'[s] \in {reports[s], NoReport}
           /\ \A s \in RunIds \ {r} : s = begun => reports'[s] = reports[s]
           /\ reports'[r].status # "running"
  <1>1. reports \in [RunIds -> ReportRow] /\ begun \in 0..MaxRuns
    BY TypesMean
  <1> DEFINE written == [reports EXCEPT ![r].status = status]
  <1>2. written \in [RunIds -> ReportRow]
    BY <1>1 DEF ReportRow
  <1>3. reports' = [s \in RunIds |-> IF s <= begun - Retention THEN NoReport
                                     ELSE written[s]]
    BY DEF finish_code_review_report, Pruned
  <1>4. reports' \in [RunIds -> ReportRow]
    BY <1>2, <1>3, Blanks
  <1>5. \A s \in RunIds \ {r} : written[s] = reports[s]
    BY <1>1
  <1>6. written[r].status = status /\ NoReport.status = "absent"
    BY <1>1 DEF ReportRow, NoReport
  <1>7. ~(begun <= begun - Retention)
    BY <1>1, LimitsAssumption
  <1>8. reports'[r].status # "running"
    BY <1>3, <1>6
  <1> QED
    BY <1>3, <1>4, <1>5, <1>7, <1>8 DEF finish_code_review_report

\* The row, the report and the worker of a review that begins.
LEMMA BeginMeans ==
    ASSUME MonitorTypeOK, NEW trigger \in {"manual", "automatic"}, NEW paths \in PathLists,
           begin_review(trigger, paths)
    PROVE  /\ begun' = begun + 1 /\ begun' \in RunIds /\ begun' \in 0..MaxRuns
           /\ reports' \in [RunIds -> ReportRow]
           /\ reports'[begun'] =
                 [status |-> "running", trigger |-> trigger, paths |-> paths]
           /\ \A s \in RunIds \ {begun'} : reports'[s] = reports[s]
                                           /\ worker'[s] = worker[s]
           /\ worker' \in [RunIds -> WorkerRow] /\ worker'[begun'].pc = "reading"
           /\ project' \in ProjectRow /\ project'.pending = project.pending
           /\ project'.enabled = project.enabled
           /\ project'.registered = project.registered
  <1>1. /\ reports \in [RunIds -> ReportRow] /\ begun \in 0..MaxRuns
        /\ project \in ProjectRow /\ worker \in [RunIds -> WorkerRow]
    BY TypesMean
  <1>2. begun' = begun + 1 /\ begun' \in RunIds /\ begun' \in 0..MaxRuns
    BY <1>1, LimitsAssumption DEF begin_review, begin_code_review_report, RunIds
  <1>3. [status |-> "running", trigger |-> trigger, paths |-> paths] \in ReportRow
    BY DEF ReportRow
  <1>4. reports' = [reports EXCEPT ![begun'] =
                       [status |-> "running", trigger |-> trigger, paths |-> paths]]
    BY <1>2 DEF begin_review, begin_code_review_report
  <1>5. worker' = [worker EXCEPT ![begun'].pc = "reading"]
    BY <1>2 DEF begin_review
  <1>6. worker' \in [RunIds -> WorkerRow] /\ worker'[begun'].pc = "reading"
    BY <1>1, <1>2, <1>5 DEF WorkerRow, WorkerPCs
  <1>7. /\ project' \in ProjectRow /\ project'.pending = project.pending
        /\ project'.enabled = project.enabled
        /\ project'.registered = project.registered
    BY <1>1 DEF begin_review, begin_code_review_report, ProjectRow, ReviewStatuses
  <1> QED
    BY <1>1, <1>2, <1>3, <1>4, <1>5, <1>6, <1>7

\* start_project puts a thread into _threads that was not at work, or leaves things be.
LEMMA StartedMeans ==
    ASSUME MonitorTypeOK, Started
    PROVE  /\ current' \in Watchers /\ watcher' \in [Watchers -> WatcherRow]
           /\ \/ /\ current' = current /\ watcher' = watcher
                 /\ Alive(current)
              \/ /\ current' \in Watchers /\ ~Alive(current')
                 /\ current = NoWatcher \/ ~Alive(current)
                 /\ watcher'[current'] = [Free EXCEPT !.pc = "start"]
                 /\ \A w \in Watchers \ {current'} : watcher'[w] = watcher[w]
  <1>1. watcher \in [Watchers -> WatcherRow] /\ current \in Watchers \cup {NoWatcher}
    BY TypesMean
  <1>2. CASE current # NoWatcher /\ Alive(current)
    BY <1>1, <1>2 DEF Started
  <1>3. CASE ~(current # NoWatcher /\ Alive(current))
    <2> DEFINE w == CHOOSE v \in Watchers : ~Alive(v)
    <2>1. /\ \E v \in Watchers : ~Alive(v)
          /\ current' = w
          /\ watcher' = [watcher EXCEPT ![w] = [Free EXCEPT !.pc = "start"]]
      BY <1>3 DEF Started
    <2>2. w \in Watchers /\ ~Alive(w)
      BY <2>1
    <2>3. [Free EXCEPT !.pc = "start"] \in WatcherRow
      BY Blanks DEF WatcherRow, WatcherPCs
    <2> HIDE DEF w
    <2> QED
      BY <1>1, <1>3, <2>1, <2>2, <2>3
  <1> QED
    BY <1>2, <1>3

LEMMA InitTypes == Init => MonitorTypeOK
  <1> SUFFICES ASSUME Init PROVE MonitorTypeOK
    OBVIOUS
  <1>1. project \in ProjectRow /\ reports \in [RunIds -> ReportRow]
        /\ watcher \in [Watchers -> WatcherRow] /\ worker \in [RunIds -> WorkerRow]
    BY Blanks DEF Init, ReviewInit
  <1>2. begun \in 0..MaxRuns
    BY LimitsAssumption DEF Init, ReviewInit
  <1>3. up \in BOOLEAN /\ handler \in {"idle", "note"} /\ dirty \subseteq Paths
        /\ covered \subseteq Paths /\ missed \subseteq Paths
        /\ current \in Watchers \cup {NoWatcher}
    BY DEF Init
  <1> QED
    BY <1>1, <1>2, <1>3, TypesMean

\* What the requests and the clock do to the project row.
LEMMA SettingsTypes ==
    ASSUME MonitorTypeOK
    PROVE  /\ register_monitored_project => project' \in ProjectRow
           /\ unregister_monitored_project => project' \in ProjectRow
           /\ \A enabled \in BOOLEAN :
                 set_auto_review_enabled(enabled) => project' \in ProjectRow
           /\ QuietPeriodEnds => project' \in ProjectRow
           /\ claim_due_auto_review => project' \in ProjectRow
  <1>1. project \in ProjectRow
    BY TypesMean
  <1>2. register_monitored_project => project' \in ProjectRow
    BY <1>1, Blanks DEF register_monitored_project, ProjectRow
  <1>3. unregister_monitored_project => project' \in ProjectRow
    BY Blanks DEF unregister_monitored_project
  <1>4. \A enabled \in BOOLEAN :
           set_auto_review_enabled(enabled) => project' \in ProjectRow
    BY <1>1, NoPathsIsAList DEF set_auto_review_enabled, ProjectRow, ReviewStatuses
  <1>5. QuietPeriodEnds => project' \in ProjectRow
    BY <1>1 DEF QuietPeriodEnds, ProjectRow
  <1>6. claim_due_auto_review => project' \in ProjectRow
    BY <1>1, NoPathsIsAList DEF claim_due_auto_review, ProjectRow, ReviewStatuses
  <1> QED
    BY <1>2, <1>3, <1>4, <1>5, <1>6

\* A look at the dirty files adds some of them to the list, and misses what is not in it.
LEMMA ReconcileMeans ==
    ASSUME MonitorTypeOK, reconcile
    PROVE  /\ project' \in ProjectRow /\ project'.enabled = project.enabled
           /\ project'.registered = project.registered
           /\ project.pending \subseteq project'.pending
           /\ missed' = IF project.enabled THEN missed \cup (dirty \ project'.pending) ELSE missed
           /\ missed' \subseteq Paths
  <1>1. project \in ProjectRow /\ dirty \subseteq Paths /\ missed \subseteq Paths
    BY TypesMean
  <1>2. PICK paths \in changed_paths :
           /\ IF paths = {} THEN UNCHANGED project ELSE note_auto_review_changes(paths)
           /\ missed' = IF project.enabled THEN missed \cup (dirty \ project'.pending) ELSE missed
    BY DEF reconcile
  <1>3. CASE paths = {}
    BY <1>1, <1>2, <1>3
  <1>4. CASE paths # {}
    <2>1. project' \in Noted(project, paths)
      BY <1>2, <1>4 DEF note_auto_review_changes
    <2>2. /\ project' \in ProjectRow /\ project'.enabled = project.enabled
          /\ project'.registered = project.registered
          /\ project.pending \subseteq project'.pending
      BY <1>1, <2>1, NotedMeans
    <2> QED
      BY <1>1, <1>2, <2>2
  <1> QED
    BY <1>3, <1>4

LEMMA LostArePaths == \A paths \in SUBSET Paths : Lost(paths) \subseteq Paths
  BY DEF Lost

LEMMA WatcherTypes ==
    ASSUME MonitorTypeOK, NEW w \in Watchers, WatcherStep(w)
    PROVE  MonitorTypeOK'
  <1>1. /\ watcher \in [Watchers -> WatcherRow] /\ project \in ProjectRow
        /\ watcher[w] \in WatcherRow /\ project.enabled \in BOOLEAN
        /\ project.pending \in PathLists
        /\ dirty \subseteq Paths /\ missed \subseteq Paths
    BY TypesMean DEF ProjectRow
  <1>2. CASE WatcherReads(w)
    <2>1. watcher' \in [Watchers -> WatcherRow]
      BY <1>1, <1>2, Blanks DEF WatcherReads, WatcherRow, WatcherPCs
    <2> QED
      BY <1>2, <2>1 DEF WatcherReads, reviewVars, MonitorTypeOK, ReviewTypeOK, WatcherRow
  <1>3. CASE Baseline(w)
    <2>1. watcher' \in [Watchers -> WatcherRow]
      BY <1>1, <1>3 DEF Baseline, WatcherRow, WatcherPCs
    <2>2. missed' \subseteq Paths
      BY <1>1, <1>3 DEF Baseline
    <2> QED
      BY <1>3, <2>1, <2>2
         DEF Baseline, reviewVars, MonitorTypeOK, ReviewTypeOK, WatcherRow
  <1>4. CASE BaselineFails(w)
    <2>1. watcher' \in [Watchers -> WatcherRow]
      BY <1>1, <1>4, Blanks DEF BaselineFails
    <2> QED
      BY <1>4, <2>1 DEF BaselineFails, reviewVars, MonitorTypeOK, ReviewTypeOK, WatcherRow
  <1>5. CASE Reconcile(w)
    <2>1. watcher' \in [Watchers -> WatcherRow]
      BY <1>1, <1>5 DEF Reconcile, Goes, WatcherRow, WatcherPCs
    <2>2. project' \in ProjectRow /\ missed' \subseteq Paths
      BY <1>5, ReconcileMeans DEF Reconcile
    <2> QED
      BY <1>5, <2>1, <2>2
         DEF Reconcile, MonitorTypeOK, ReviewTypeOK, WatcherRow
  <1>6. CASE Poll(w)
    <2>1. watcher' \in [Watchers -> WatcherRow]
      BY <1>1, <1>6, Blanks DEF Poll, WatcherRow, WatcherPCs
    <2> QED
      BY <1>6, <2>1 DEF Poll, reviewVars, MonitorTypeOK, ReviewTypeOK, WatcherRow
  <1>7. CASE Scan(w)
    <2>1. watcher' \in [Watchers -> WatcherRow]
      BY <1>1, <1>7 DEF Scan, WatcherRow, WatcherPCs
    <2>2. project' \in ProjectRow
      BY <1>1, <1>7, NotedMeans DEF Scan, note_auto_review_changes
    <2>3. watcher[w].unseen \subseteq Paths
      BY <1>1 DEF WatcherRow
    <2>4. missed' \subseteq Paths
      BY <1>1, <1>7, <2>3, LostArePaths DEF Scan
    <2> QED
      BY <1>7, <2>1, <2>2, <2>4 DEF Scan, MonitorTypeOK, ReviewTypeOK, WatcherRow
  <1>8. CASE Claim(w)
    <2>1. watcher' \in [Watchers -> WatcherRow]
      BY <1>1, <1>8 DEF Claim, WatcherRow, WatcherPCs
    <2>2. project' \in ProjectRow
      BY <1>8, SettingsTypes DEF Claim
    <2> QED
      BY <1>8, <2>1, <2>2 DEF Claim, MonitorTypeOK, ReviewTypeOK, WatcherRow
  <1>9. CASE StartReview(w)
    <2>1. watcher' \in [Watchers -> WatcherRow]
      BY <1>1, <1>9 DEF StartReview, Goes, WatcherRow, WatcherPCs
    <2> QED
      BY <1>9, <2>1 DEF StartReview, reviewVars, MonitorTypeOK, ReviewTypeOK, WatcherRow
  <1>10. CASE Begin(w)
    <2>1. CASE MayBegin
      <3>1. /\ begin_review("automatic", watcher[w].batch)
            /\ watcher' = [watcher EXCEPT ![w].pc = "sleep", ![w].batch = {}]
        BY <1>10, <2>1 DEF Begin
      <3>2. watcher[w].batch \in PathLists
        BY <1>1 DEF WatcherRow
      <3>3. watcher' \in [Watchers -> WatcherRow]
        BY <1>1, <3>1, NoPathsIsAList DEF WatcherRow, WatcherPCs
      <3>4. /\ begun' \in 0..MaxRuns /\ reports' \in [RunIds -> ReportRow]
            /\ worker' \in [RunIds -> WorkerRow] /\ project' \in ProjectRow
        BY <3>1, <3>2, BeginMeans
      <3> QED
        BY <1>10, <3>3, <3>4 DEF Begin, MonitorTypeOK, ReviewTypeOK, WatcherRow, WorkerRow
    <2>2. CASE ~MayBegin
      <3>1. watcher' \in [Watchers -> WatcherRow]
        BY <1>1, <1>10, <2>2 DEF Begin, Goes, WatcherRow, WatcherPCs
      <3> QED
        BY <1>10, <2>2, <3>1
           DEF Begin, reviewVars, MonitorTypeOK, ReviewTypeOK, WatcherRow
    <2> QED
      BY <2>1, <2>2
  <1>11. CASE BatchFails(w)
    <2>1. watcher' \in [Watchers -> WatcherRow]
      BY <1>1, <1>11, NoPathsIsAList DEF BatchFails, WatcherRow, WatcherPCs
    <2>2. project' \in ProjectRow
      BY <1>1, <1>11, RequeuedMeans DEF BatchFails, set_auto_review_failure, After
    <2>3. watcher[w].batch \subseteq Paths
      BY <1>1, ListsArePaths DEF WatcherRow
    <2>4. missed' \subseteq Paths
      BY <1>1, <1>11, <2>3, LostArePaths DEF BatchFails
    <2> QED
      BY <1>11, <2>1, <2>2, <2>4 DEF BatchFails, MonitorTypeOK, ReviewTypeOK, WatcherRow
  <1> QED
    BY <1>2, <1>3, <1>4, <1>5, <1>6, <1>7, <1>8, <1>9, <1>10, <1>11 DEF WatcherStep

LEMMA WorkerTypes ==
    ASSUME MonitorTypeOK, NEW r \in RunIds, WorkerStep(r)
    PROVE  MonitorTypeOK'
  <1>1. /\ worker \in [RunIds -> WorkerRow] /\ reports[r] \in ReportRow
        /\ worker[r] \in WorkerRow /\ reports[r].paths \in PathLists
        /\ dirty \subseteq Paths /\ missed \subseteq Paths /\ covered \subseteq Paths
    BY TypesMean DEF ReportRow
  <1>2. CASE WorkerReads(r)
    <2>1. worker' \in [RunIds -> WorkerRow]
      BY <1>1, <1>2, ListsArePaths DEF WorkerReads, WorkerRow, WorkerPCs
    <2> QED
      BY <1>2, <2>1 DEF WorkerReads, reviewVars, MonitorTypeOK, ReviewTypeOK, WorkerRow
  <1>3. CASE WorkerCompletes(r)
    <2>1. worker' \in [RunIds -> WorkerRow]
      BY <1>1, <1>3 DEF WorkerCompletes, NoWorker, WorkerRow, WorkerPCs
    <2>2. project' \in ProjectRow /\ reports' \in [RunIds -> ReportRow] /\ begun' = begun
      BY <1>3, FinishMeans, FinishedReports DEF WorkerCompletes
    <2>3. covered' \subseteq Paths /\ missed' \subseteq Paths
      <3>1. worker[r].skipped \subseteq Paths
        BY <1>1 DEF WorkerRow
      <3> QED
        BY <1>1, <1>3, <3>1 DEF WorkerCompletes
    <2> QED
      BY <1>3, <2>1, <2>2, <2>3 DEF WorkerCompletes, MonitorTypeOK, ReviewTypeOK, WorkerRow
  <1>4. CASE WorkerFails(r)
    <2>1. worker' \in [RunIds -> WorkerRow]
      BY <1>1, <1>4, Blanks DEF WorkerFails
    <2>2. project' \in ProjectRow /\ reports' \in [RunIds -> ReportRow] /\ begun' = begun
      BY <1>4, FinishMeans, FinishedReports DEF WorkerFails
    <2>3. missed' \subseteq Paths
      BY <1>1, <1>4, ListsArePaths, LostArePaths DEF WorkerFails
    <2> QED
      BY <1>4, <2>1, <2>2, <2>3 DEF WorkerFails, MonitorTypeOK, ReviewTypeOK, WorkerRow
  <1>5. CASE WorkerEnds(r)
    <2>1. worker' \in [RunIds -> WorkerRow]
      BY <1>1, <1>5, Blanks DEF WorkerEnds
    <2> QED
      BY <1>5, <2>1 DEF WorkerEnds, reviewVars, MonitorTypeOK, ReviewTypeOK, WorkerRow
  <1> QED
    BY <1>2, <1>3, <1>4, <1>5 DEF WorkerStep

\* The sweep of the reports when the daemon starts.
LEMMA SweepMeans ==
    ASSUME MonitorTypeOK, recover_interrupted_code_reviews
    PROVE  /\ project' \in ProjectRow /\ project'.enabled = project.enabled
           /\ project'.registered = project.registered
           /\ reports' \in [RunIds -> ReportRow] /\ begun' = begun
           /\ \A r \in RunIds : reports'[r].status # "running"
  <1>1. project \in ProjectRow /\ reports \in [RunIds -> ReportRow]
    BY TypesMean
  <1>2. \A r : /\ RecoveredProject(r) \subseteq ProjectRow
               /\ \A next \in RecoveredProject(r) :
                     next.enabled = project.enabled /\ next.registered = project.registered
    <2> SUFFICES ASSUME NEW r, NEW next \in RecoveredProject(r)
                 PROVE  next \in ProjectRow /\ next.enabled = project.enabled
                        /\ next.registered = project.registered
      OBVIOUS
    <2>1. CASE next = project
      BY <1>1, <2>1
    <2>2. CASE next \in Requeued(project, reports[r].paths)
      BY <1>1, <2>2, RequeuedMeans DEF After
    <2>3. CASE next = [project EXCEPT !.status = "disabled"]
      BY <1>1, <2>3 DEF ProjectRow, ReviewStatuses
    <2> QED
      BY <2>1, <2>2, <2>3 DEF RecoveredProject
  <1>3. /\ project' \in ProjectRow /\ project'.enabled = project.enabled
        /\ project'.registered = project.registered
    <2>1. CASE Running = {}
      BY <1>1, <2>1 DEF recover_interrupted_code_reviews
    <2>2. CASE Running # {}
      BY <1>2, <2>2 DEF recover_interrupted_code_reviews
    <2> QED
      BY <2>1, <2>2
  <1>4. reports' \in [RunIds -> ReportRow]
    BY <1>1 DEF recover_interrupted_code_reviews, ReportRow
  <1>5. \A r \in RunIds : reports'[r].status # "running"
    BY <1>1 DEF recover_interrupted_code_reviews, ReportRow, Running
  <1> QED
    BY <1>3, <1>4, <1>5 DEF recover_interrupted_code_reviews

LEMMA RecoverTypes == MonitorTypeOK /\ Recover => MonitorTypeOK'
  <1> SUFFICES ASSUME MonitorTypeOK, Recover PROVE MonitorTypeOK'
    OBVIOUS
  <1>1. project' \in ProjectRow /\ reports' \in [RunIds -> ReportRow] /\ begun' = begun
    BY SweepMeans DEF Recover
  <1>2. current' \in Watchers \cup {NoWatcher} /\ watcher' \in [Watchers -> WatcherRow]
    BY StartedMeans, TypesMean DEF Recover
  <1>3. missed' \subseteq Paths
    <2>1. \A r \in Running : reports[r].paths \subseteq Paths
      BY TypesMean, ListsArePaths DEF Running, ReportRow
    <2>2. \A r \in Running : Lost(reports[r].paths) \subseteq Paths
      BY <2>1, LostArePaths
    <2>3. missed \subseteq Paths
      BY TypesMean
    <2> QED
      BY <2>2, <2>3 DEF Recover
  <1> QED
    BY <1>1, <1>2, <1>3 DEF Recover, MonitorTypeOK, ReviewTypeOK, WatcherRow

LEMMA NextTypes == MonitorTypeOK /\ [Next]_vars => MonitorTypeOK'
  <1> SUFFICES ASSUME MonitorTypeOK, [Next]_vars PROVE MonitorTypeOK'
    OBVIOUS
  <1>1. ASSUME NEW p \in Paths, Edit(p) PROVE MonitorTypeOK'
    <2>1. dirty' \subseteq Paths /\ covered' \subseteq Paths
      BY <1>1, TypesMean DEF Edit
    <2>2. watcher' \in [Watchers -> WatcherRow]
      BY <1>1, TypesMean DEF Edit, WatcherRow
    <2>3. worker' \in [RunIds -> WorkerRow]
      BY <1>1, TypesMean DEF Edit, WorkerRow
    <2> QED
      BY <1>1, <2>1, <2>2, <2>3
         DEF Edit, reviewVars, MonitorTypeOK, ReviewTypeOK, WatcherRow, WorkerRow
  <1>2. CASE Commit
    BY <1>2 DEF Commit, reviewVars, MonitorTypeOK, ReviewTypeOK
  <1>3. CASE Register
    <2>1. project' \in ProjectRow
      BY <1>3, SettingsTypes DEF Register
    <2>2. current' \in Watchers \cup {NoWatcher} /\ watcher' \in [Watchers -> WatcherRow]
      BY <1>3, StartedMeans DEF Register
    <2> QED
      BY <1>3, <2>1, <2>2
         DEF Register, register_monitored_project, MonitorTypeOK, ReviewTypeOK, WatcherRow
  <1>4. CASE Unregister
    <2>1. project' \in ProjectRow
      BY <1>4, SettingsTypes DEF Unregister
    <2>2. current' \in Watchers \cup {NoWatcher} /\ watcher' \in [Watchers -> WatcherRow]
      BY <1>4, TypesMean, Blanks DEF Unregister, Stopped, WatcherRow
    <2> QED
      BY <1>4, <2>1, <2>2
         DEF Unregister, unregister_monitored_project, MonitorTypeOK, ReviewTypeOK,
             WatcherRow
  <1>5. CASE Enable
    <2>1. project' \in ProjectRow
      BY <1>5, SettingsTypes DEF Enable
    <2> QED
      BY <1>5, <2>1 DEF Enable, set_auto_review_enabled, MonitorTypeOK, ReviewTypeOK
  <1>6. CASE Disable
    <2>1. project' \in ProjectRow
      BY <1>6, SettingsTypes DEF Disable
    <2> QED
      BY <1>6, <2>1
         DEF Disable, set_auto_review_enabled, monitorVars, MonitorTypeOK, ReviewTypeOK
  <1>7. ASSUME NEW p \in Paths, ManualReview(p) PROVE MonitorTypeOK'
    <2>1. /\ begun' \in 0..MaxRuns /\ reports' \in [RunIds -> ReportRow]
          /\ worker' \in [RunIds -> WorkerRow] /\ project' \in ProjectRow
      BY <1>7, OnePathIsAList, BeginMeans DEF ManualReview
    <2> QED
      BY <1>7, <2>1 DEF ManualReview, MonitorTypeOK, ReviewTypeOK, WorkerRow
  <1>8. CASE EnableNotes
    <2>1. project' \in ProjectRow /\ missed' \subseteq Paths
      BY <1>8, ReconcileMeans DEF EnableNotes
    <2> QED
      BY <1>8, <2>1 DEF EnableNotes, MonitorTypeOK, ReviewTypeOK
  <1>9. CASE Clock
    <2>1. project' \in ProjectRow
      BY <1>9, SettingsTypes DEF Clock
    <2> QED
      BY <1>9, <2>1 DEF Clock, QuietPeriodEnds, monitorVars, MonitorTypeOK, ReviewTypeOK
  <1>10. ASSUME NEW w \in Watchers, WatcherStep(w) PROVE MonitorTypeOK'
    BY <1>10, WatcherTypes
  <1>11. ASSUME NEW r \in RunIds, WorkerStep(r) PROVE MonitorTypeOK'
    BY <1>11, WorkerTypes
  <1>12. CASE Crash
    <2>1. watcher' \in [Watchers -> WatcherRow] /\ worker' \in [RunIds -> WorkerRow]
      BY <1>12, Blanks DEF Crash
    <2> QED
      BY <1>12, <2>1
         DEF Crash, reviewVars, MonitorTypeOK, ReviewTypeOK, WatcherRow, WorkerRow
  <1>13. CASE Recover
    BY <1>13, RecoverTypes
  <1>14. CASE UNCHANGED vars
    BY <1>14 DEF vars, monitorVars, MonitorTypeOK, ReviewTypeOK
  <1> QED
    BY <1>1, <1>2, <1>3, <1>4, <1>5, <1>6, <1>7, <1>8, <1>9, <1>10, <1>11, <1>12,
       <1>13, <1>14 DEF Next, Request

\* Rows, threads and history keep the values their writers allow; in particular no
\* list of pending paths outgrows the cap.
THEOREM MonitorTypes == Spec => []MonitorTypeOK
  BY InitTypes, NextTypes, PTL DEF Spec

-----------------------------------------------------------------------------
(* One review at a time *)

LEMMA InitReviews == Init => ReviewsOK
  BY DEF Init, ReviewInit, ReviewsOK, Running, NoReport

\* A review begins when none runs, and is then the only one.
LEMMA BeginKeepsReviews ==
    ASSUME MonitorTypeOK, ReviewsOK, up, up' = up, MayBegin,
           NEW trigger \in {"manual", "automatic"}, NEW paths \in PathLists,
           begin_review(trigger, paths)
    PROVE  ReviewsOK'
  <1>1. Running' \subseteq {begun'}
    BY BeginMeans DEF MayBegin, NoneRunning, Running
  <1>2. worker'[begun'].pc = "reading"
    BY BeginMeans
  <1> QED
    BY <1>1, <1>2 DEF ReviewsOK

LEMMA WorkerKeepsReviews ==
    ASSUME MonitorTypeOK, ReviewsOK, NEW r \in RunIds, WorkerStep(r)
    PROVE  ReviewsOK'
  <1>1. worker \in [RunIds -> WorkerRow] /\ worker[r].pc # "none" /\ up \in BOOLEAN
    BY TypesMean
       DEF WorkerStep, WorkerReads, WorkerCompletes, WorkerFails, WorkerEnds
  <1>2. up /\ up'
    BY <1>1 DEF ReviewsOK, NoWorker, WorkerStep, WorkerReads, WorkerCompletes, WorkerFails,
                WorkerEnds
  <1>3. \A s \in RunIds \ {r} : worker'[s] = worker[s]
    BY <1>1 DEF WorkerStep, WorkerReads, WorkerCompletes, WorkerFails, WorkerEnds
  <1>4. CASE WorkerReads(r)
    <2>1. Running' = Running /\ begun' = begun /\ worker'[r].pc = "answering"
      BY <1>1, <1>4 DEF WorkerReads, reviewVars, Running
    <2> QED
      BY <1>2, <1>3, <2>1 DEF ReviewsOK, Running
  <1>5. CASE WorkerEnds(r)
    <2>1. Running' = Running /\ begun' = begun /\ r \notin Running
      BY <1>2, <1>5 DEF WorkerEnds, reviewVars, Running, ReviewsOK
    <2> QED
      BY <1>2, <1>3, <2>1 DEF ReviewsOK, Running
  <1>6. CASE WorkerCompletes(r) \/ WorkerFails(r)
    <2>1. \E status \in {"complete", "error"} : finish_code_review_report(r, status)
      BY <1>6 DEF WorkerCompletes, WorkerFails
    <2>2. /\ begun' = begun /\ reports'[r].status # "running"
          /\ \A s \in RunIds \ {r} : reports'[s] \in {reports[s], NoReport}
      BY <2>1, FinishedReports
    <2>3. Running' \subseteq Running \ {r}
      BY <2>2 DEF Running, NoReport
    <2> QED
      BY <1>2, <1>3, <2>2, <2>3 DEF ReviewsOK, Running
  <1> QED
    BY <1>4, <1>5, <1>6 DEF WorkerStep

LEMMA NextReviews ==
    MonitorTypeOK /\ ReviewsOK /\ WatchersOK /\ [Next]_vars => ReviewsOK'
  <1> SUFFICES ASSUME MonitorTypeOK, ReviewsOK, WatchersOK, [Next]_vars PROVE ReviewsOK'
    OBVIOUS
  <1>1. ASSUME NEW p \in Paths, Edit(p) PROVE ReviewsOK'
    <2>1. Running' = Running /\ begun' = begun /\ up' = up
      BY <1>1 DEF Edit, reviewVars, Running
    <2>2. \A r \in RunIds : /\ worker'[r].pc = worker[r].pc
                            /\ worker[r] = NoWorker => worker'[r] = NoWorker
      <3> SUFFICES ASSUME NEW r \in RunIds
                   PROVE  /\ worker'[r].pc = worker[r].pc
                          /\ worker[r] = NoWorker => worker'[r] = NoWorker
        OBVIOUS
      <3>1. worker[r] \in WorkerRow
        BY TypesMean
      <3>2. worker'[r] = [worker[r] EXCEPT !.read = @ \ {p}, !.skipped = @ \ {p}]
        BY <1>1 DEF Edit
      <3>3. worker'[r] = [pc |-> worker[r].pc, read |-> worker[r].read \ {p},
                          skipped |-> worker[r].skipped \ {p}]
        BY <3>1, <3>2 DEF WorkerRow
      <3>4. {} \ {p} = {}
        OBVIOUS
      <3> QED
        BY <3>3, <3>4 DEF NoWorker
    <2> QED
      BY <2>1, <2>2 DEF ReviewsOK, Running
  <1>2. ASSUME NEW p \in Paths, ManualReview(p) PROVE ReviewsOK'
    BY <1>2, OnePathIsAList, BeginKeepsReviews DEF ManualReview
  <1>3. ASSUME NEW w \in Watchers, WatcherStep(w) PROVE ReviewsOK'
    <2>1. CASE Begin(w) /\ MayBegin
      <3>1. watcher[w].batch \in PathLists
        BY TypesMean DEF WatcherRow
      <3>2. up /\ up' = up
        BY <2>1, TypesMean DEF Begin, WatchersOK, Free
      <3> QED
        BY <2>1, <3>1, <3>2, BeginKeepsReviews DEF Begin
    <2>2. CASE ~(Begin(w) /\ MayBegin)
      <3>1. UNCHANGED <<reports, begun, worker, up>>
        BY <1>3, <2>2
           DEF WatcherStep, WatcherReads, Baseline, BaselineFails, Reconcile, Poll, Scan,
               Claim, StartReview, Begin, BatchFails, reviewVars
      <3> QED
        BY <3>1 DEF ReviewsOK, Running
    <2> QED
      BY <2>1, <2>2
  <1>4. ASSUME NEW r \in RunIds, WorkerStep(r) PROVE ReviewsOK'
    BY <1>4, WorkerKeepsReviews
  <1>5. CASE Crash
    BY <1>5 DEF Crash, reviewVars, ReviewsOK, Running
  <1>6. CASE Recover
    <2>1. Running' = {} /\ up'
      BY <1>6, SweepMeans DEF Recover, Running
    <2> QED
      BY <2>1 DEF ReviewsOK
  <1>7. CASE Register \/ Unregister \/ Enable \/ Disable
    BY <1>7
       DEF Register, Unregister, Enable, Disable, register_monitored_project,
           unregister_monitored_project, set_auto_review_enabled, monitorVars, ReviewsOK,
           Running
  <1>8. CASE Commit \/ EnableNotes \/ Clock \/ UNCHANGED vars
    BY <1>8
       DEF Commit, EnableNotes, Clock, QuietPeriodEnds, vars, monitorVars, reviewVars,
           ReviewsOK, Running
  <1> QED
    BY <1>1, <1>2, <1>3, <1>4, <1>5, <1>6, <1>7, <1>8 DEF Next, Request

-----------------------------------------------------------------------------
(* The threads that poll *)

LEMMA InitWatchers == Init => WatchersOK
  BY DEF Init, ReviewInit, WatchersOK, NoProject, Free, Alive, HoldsBatch

\* A step of a watcher keeps its stop event, and what it holds is a batch on its way.
LEMMA WatcherStepMeans ==
    ASSUME MonitorTypeOK, WatchersOK, NEW w \in Watchers, WatcherStep(w)
    PROVE  /\ UNCHANGED <<up, current, handler>> /\ up
           /\ project'.enabled = project.enabled
           /\ project'.registered = project.registered
           /\ \A v \in Watchers \ {w} : watcher'[v] = watcher[v]
           /\ Alive(w)
           /\ watcher'[w] = Free \/ watcher'[w].stop = watcher[w].stop
           /\ watcher'[w].pc \notin HoldsBatch => watcher'[w].batch = {}
  <1>1. /\ watcher \in [Watchers -> WatcherRow] /\ project \in ProjectRow
        /\ watcher[w] \in WatcherRow
    BY TypesMean
  <1>2. Alive(w) /\ UNCHANGED <<up, current, handler>>
    BY DEF WatcherStep, WatcherReads, Baseline, BaselineFails, Reconcile, Poll, Scan,
           Claim, StartReview, Begin, BatchFails, Alive, reviewVars
  <1>3. up
    BY <1>2, TypesMean DEF WatchersOK, Alive, Free
  <1>4. \A v \in Watchers \ {w} : watcher'[v] = watcher[v]
    BY <1>1
       DEF WatcherStep, WatcherReads, Baseline, BaselineFails, Reconcile, Goes, Poll,
           Scan, Claim, StartReview, Begin, BatchFails
  <1>5. watcher'[w] = Free \/ watcher'[w].stop = watcher[w].stop
    BY <1>1
       DEF WatcherStep, WatcherReads, Baseline, BaselineFails, Reconcile, Goes, Poll,
           Scan, Claim, StartReview, Begin, BatchFails, WatcherRow
  <1>6. project'.enabled = project.enabled /\ project'.registered = project.registered
    <2>1. CASE WatcherReads(w) \/ Baseline(w) \/ BaselineFails(w) \/ Poll(w)
               \/ StartReview(w)
      BY <2>1 DEF WatcherReads, Baseline, BaselineFails, Poll, StartReview, reviewVars
    <2>2. CASE Reconcile(w) \/ Scan(w)
      BY <1>1, <2>2, NotedMeans, ReconcileMeans
         DEF Reconcile, Scan, note_auto_review_changes
    <2>3. CASE Claim(w)
      BY <1>1, <2>3 DEF Claim, claim_due_auto_review, ProjectRow
    <2>4. CASE Begin(w)
      <3>1. watcher[w].batch \in PathLists
        BY <1>1 DEF WatcherRow
      <3> QED
        BY <2>4, <3>1, BeginMeans DEF Begin, reviewVars
    <2>5. CASE BatchFails(w)
      BY <1>1, <2>5, RequeuedMeans DEF BatchFails, set_auto_review_failure, After
    <2> QED
      BY <2>1, <2>2, <2>3, <2>4, <2>5 DEF WatcherStep
  <1>7. watcher'[w].pc \notin HoldsBatch => watcher'[w].batch = {}
    <2>1. CASE WatcherReads(w) \/ Baseline(w) \/ BaselineFails(w) \/ Poll(w)
      <3>1. watcher[w].batch = {}
        BY <2>1 DEF WatcherReads, Baseline, BaselineFails, Poll, WatchersOK, HoldsBatch
      <3>2. watcher'[w] = Free \/ watcher'[w].batch = watcher[w].batch
        BY <1>1, <2>1 DEF WatcherReads, Baseline, BaselineFails, Poll, WatcherRow
      <3> QED
        BY <3>1, <3>2 DEF Free
    <2>2. CASE Reconcile(w) \/ Scan(w)
      <3>1. watcher[w].batch = {}
        BY <2>2 DEF Reconcile, Scan, WatchersOK, HoldsBatch
      <3>2. watcher'[w].batch = watcher[w].batch
        BY <1>1, <2>2 DEF Reconcile, Goes, Scan, WatcherRow
      <3> QED
        BY <3>1, <3>2
    <2>3. CASE Claim(w)
      <3>1. watcher[w].batch = {}
        BY <2>3 DEF Claim, WatchersOK, HoldsBatch
      <3> QED
        BY <1>1, <2>3, <3>1 DEF Claim, WatcherRow, HoldsBatch
    <2>4. CASE StartReview(w)
      BY <1>1, <2>4 DEF StartReview, Goes, WatcherRow, HoldsBatch
    <2>5. CASE Begin(w)
      BY <1>1, <2>5 DEF Begin, Goes, WatcherRow, HoldsBatch
    <2>6. CASE BatchFails(w)
      BY <1>1, <2>6 DEF BatchFails, WatcherRow
    <2> QED
      BY <2>1, <2>2, <2>3, <2>4, <2>5, <2>6 DEF WatcherStep
  <1> QED
    BY <1>2, <1>3, <1>4, <1>5, <1>6, <1>7

\* The thread that start_project leaves in _threads is alive and not told to stop.
LEMMA StartedKeepsWatchers ==
    ASSUME MonitorTypeOK, WatchersOK, Started,
           project'.enabled => project'.registered, up', UNCHANGED handler
    PROVE  WatchersOK'
  <1>1. /\ current' \in Watchers
        /\ \/ /\ current' = current /\ watcher' = watcher
           \/ /\ ~Alive(current')
              /\ current = NoWatcher \/ ~Alive(current)
              /\ watcher'[current'] = [Free EXCEPT !.pc = "start"]
              /\ \A w \in Watchers \ {current'} : watcher'[w] = watcher[w]
    BY StartedMeans
  <1>2. CASE current' = current /\ watcher' = watcher
    BY <1>2 DEF WatchersOK, Alive
  <1>3. CASE /\ current = NoWatcher \/ ~Alive(current)
             /\ watcher'[current'] = [Free EXCEPT !.pc = "start"]
             /\ \A w \in Watchers \ {current'} : watcher'[w] = watcher[w]
    <2>1. /\ watcher'[current'].pc = "start" /\ ~watcher'[current'].stop
          /\ watcher'[current'].batch = {}
      BY <1>3 DEF Free
    <2>2. ASSUME NEW w \in Watchers, watcher'[w].pc # "free", ~watcher'[w].stop
          PROVE  w = current'
      <3>1. CASE w # current'
        <4>1. Alive(w) /\ ~watcher[w].stop
          BY <1>3, <2>2, <3>1 DEF Alive
        <4>2. w = current /\ Alive(current)
          BY <4>1 DEF WatchersOK
        <4> QED
          BY <1>3, <4>2, WatcherAssumption
      <3> QED
        BY <3>1
    <2>3. \A w \in Watchers : watcher'[w].pc \notin HoldsBatch => watcher'[w].batch = {}
      BY <1>1, <1>3, <2>1 DEF WatchersOK
    <2> QED
      BY <1>1, <2>1, <2>2, <2>3 DEF WatchersOK, Alive
  <1> QED
    BY <1>1, <1>2, <1>3

LEMMA StoppedKeepsWatchers ==
    ASSUME MonitorTypeOK, WatchersOK, Stopped, up, up',
           project'.enabled => project'.registered
    PROVE  WatchersOK'
  <1>1. watcher \in [Watchers -> WatcherRow] /\ current \in Watchers \cup {NoWatcher}
    BY TypesMean
  <1>2. CASE current = NoWatcher
    BY <1>2 DEF Stopped, WatchersOK, Alive
  <1>3. CASE current \in Watchers
    <2>1. /\ \A w \in Watchers \ {current} : watcher'[w] = watcher[w]
          /\ watcher'[current] = Free
             \/ watcher'[current] = [watcher[current] EXCEPT !.stop = TRUE]
      BY <1>1, <1>3, WatcherAssumption DEF Stopped
    <2>2. /\ watcher'[current].pc = "free" \/ watcher'[current].stop
          /\ watcher'[current].pc \notin HoldsBatch => watcher'[current].batch = {}
      <3>1. CASE watcher'[current] = Free
        BY <3>1 DEF Free
      <3>2. CASE watcher'[current] = [watcher[current] EXCEPT !.stop = TRUE]
        <4>1. /\ watcher'[current].stop /\ watcher'[current].pc = watcher[current].pc
              /\ watcher'[current].batch = watcher[current].batch
          BY <1>1, <1>3, <3>2 DEF WatcherRow
        <4> QED
          BY <1>3, <4>1 DEF WatchersOK
      <3> QED
        BY <2>1, <3>1, <3>2
    <2>3. current' = NoWatcher
      BY DEF Stopped
    <2> QED
      BY <1>1, <2>1, <2>2, <2>3 DEF WatchersOK, Alive
  <1> QED
    BY <1>1, <1>2, <1>3

\* An edit is something more for a watcher to see, once it has a snapshot.
LEMMA EditMeans ==
    ASSUME MonitorTypeOK, NEW p \in Paths, Edit(p)
    PROVE  \A w \in Watchers :
              /\ watcher'[w].pc = watcher[w].pc /\ watcher'[w].stop = watcher[w].stop
              /\ watcher'[w].batch = watcher[w].batch
              /\ watcher[w].pc \in {"free", "start", "baseline"} =>
                    watcher'[w] = watcher[w]
              /\ watcher[w].pc \notin {"free", "start", "baseline"} =>
                    watcher'[w].unseen = watcher[w].unseen \cup {p}
  <1> SUFFICES ASSUME NEW w \in Watchers
               PROVE  /\ watcher'[w].pc = watcher[w].pc
                      /\ watcher'[w].stop = watcher[w].stop
                      /\ watcher'[w].batch = watcher[w].batch
                      /\ watcher[w].pc \in {"free", "start", "baseline"} =>
                            watcher'[w] = watcher[w]
                      /\ watcher[w].pc \notin {"free", "start", "baseline"} =>
                            watcher'[w].unseen = watcher[w].unseen \cup {p}
    OBVIOUS
  <1>1. watcher[w] \in WatcherRow
    BY TypesMean
  <1>2. CASE watcher[w].pc \in {"free", "start", "baseline"}
    BY <1>2 DEF Edit
  <1>3. CASE watcher[w].pc \notin {"free", "start", "baseline"}
    <2>1. watcher'[w] = [watcher[w] EXCEPT !.unseen = @ \cup {p}]
      BY <1>3 DEF Edit
    <2> QED
      BY <1>1, <1>3, <2>1 DEF WatcherRow
  <1> QED
    BY <1>2, <1>3

LEMMA NextWatchers == MonitorTypeOK /\ WatchersOK /\ [Next]_vars => WatchersOK'
  <1> SUFFICES ASSUME MonitorTypeOK, WatchersOK, [Next]_vars PROVE WatchersOK'
    OBVIOUS
  <1>0. project \in ProjectRow /\ watcher \in [Watchers -> WatcherRow]
    BY TypesMean
  <1>1. ASSUME NEW p \in Paths, Edit(p) PROVE WatchersOK'
    <2>1. \A w \in Watchers : /\ watcher'[w].pc = watcher[w].pc
                              /\ watcher'[w].stop = watcher[w].stop
                              /\ watcher'[w].batch = watcher[w].batch
                              /\ watcher[w] = Free => watcher'[w] = Free
      BY <1>1, EditMeans DEF Free
    <2>2. UNCHANGED <<project, up, current, handler>>
      BY <1>1 DEF Edit, reviewVars
    <2>3. current # NoWatcher => current \in Watchers
      BY TypesMean
    <2> QED
      BY <2>1, <2>2, <2>3 DEF WatchersOK, Alive
  <1>2. CASE Register
    BY <1>0, <1>2, StartedKeepsWatchers
       DEF Register, register_monitored_project, WatchersOK, NoProject
  <1>3. CASE Unregister
    BY <1>3, StoppedKeepsWatchers DEF Unregister, unregister_monitored_project, NoProject
  <1>4. CASE Enable
    <2>1. project'.registered
      BY <1>0, <1>4 DEF Enable, set_auto_review_enabled, ProjectRow
    <2>2. up' /\ UNCHANGED <<current, watcher>>
      BY <1>4 DEF Enable
    <2> QED
      BY <2>1, <2>2 DEF WatchersOK, Alive
  <1>5. CASE Disable
    <2>1. project'.registered
      BY <1>0, <1>5 DEF Disable, set_auto_review_enabled, ProjectRow
    <2>2. UNCHANGED <<up, current, watcher, handler>>
      BY <1>5 DEF Disable, monitorVars
    <2> QED
      BY <2>1, <2>2 DEF WatchersOK, Alive
  <1>6. ASSUME NEW p \in Paths, ManualReview(p) PROVE WatchersOK'
    <2>1. project'.enabled = project.enabled /\ project'.registered = project.registered
      BY <1>6, OnePathIsAList, BeginMeans DEF ManualReview
    <2> QED
      BY <1>6, <2>1 DEF ManualReview, WatchersOK, Alive
  <1>7. CASE EnableNotes
    <2>1. project'.enabled = project.enabled /\ project'.registered = project.registered
      BY <1>0, <1>7, ReconcileMeans DEF EnableNotes
    <2> QED
      BY <1>7, <2>1 DEF EnableNotes, WatchersOK, Alive
  <1>8. CASE Clock
    <2>1. project'.enabled = project.enabled /\ project'.registered = project.registered
      BY <1>0, <1>8 DEF Clock, QuietPeriodEnds, ProjectRow
    <2> QED
      BY <1>8, <2>1 DEF Clock, monitorVars, WatchersOK, Alive
  <1>9. ASSUME NEW w \in Watchers, WatcherStep(w) PROVE WatchersOK'
    <2>1. current # NoWatcher => current \in Watchers
      BY TypesMean
    <2>2. Free.pc = "free" /\ Free.stop = FALSE
      BY DEF Free
    <2> QED
      BY <1>9, <2>1, <2>2, WatcherStepMeans DEF WatchersOK, Alive
  <1>10. ASSUME NEW r \in RunIds, WorkerStep(r) PROVE WatchersOK'
    <2>1. UNCHANGED <<up, current, watcher, handler>>
      BY <1>10 DEF WorkerStep, WorkerReads, WorkerCompletes, WorkerFails, WorkerEnds
    <2>2. project'.enabled = project.enabled /\ project'.registered = project.registered
      BY <1>10, FinishMeans
         DEF WorkerStep, WorkerReads, WorkerCompletes, WorkerFails, WorkerEnds, reviewVars
    <2> QED
      BY <2>1, <2>2 DEF WatchersOK, Alive
  <1>11. CASE Crash
    BY <1>11 DEF Crash, reviewVars, WatchersOK, Alive, Free, HoldsBatch
  <1>12. CASE Recover
    <2>1. project'.enabled = project.enabled /\ project'.registered = project.registered
      BY <1>12, SweepMeans DEF Recover
    <2>2. up' /\ UNCHANGED handler /\ (Started \/ UNCHANGED <<current, watcher>>)
      BY <1>12 DEF Recover
    <2>3. CASE Started
      BY <2>1, <2>2, <2>3, StartedKeepsWatchers DEF WatchersOK
    <2>4. CASE UNCHANGED <<current, watcher>>
      BY <2>1, <2>2, <2>4 DEF WatchersOK, Alive
    <2> QED
      BY <2>2, <2>3, <2>4
  <1>13. CASE Commit \/ UNCHANGED vars
    BY <1>13 DEF Commit, vars, monitorVars, reviewVars, WatchersOK, Alive
  <1> QED
    BY <1>1, <1>2, <1>3, <1>4, <1>5, <1>6, <1>7, <1>8, <1>9, <1>10, <1>11, <1>12, <1>13
       DEF Next, Request

MonitorInv == MonitorTypeOK /\ ReviewsOK /\ WatchersOK

LEMMA MonitorInvariant == Spec => []MonitorInv
  <1>1. Init => MonitorInv
    BY InitTypes, InitReviews, InitWatchers DEF MonitorInv
  <1>2. MonitorInv /\ [Next]_vars => MonitorInv'
    BY NextTypes, NextReviews, NextWatchers DEF MonitorInv
  <1> QED
    BY <1>1, <1>2, PTL DEF Spec

\* Whoever asks for it, a review starts only when none runs; and while the daemon is
\* up, a report that says 'running' has a worker that will still write its end.
THEOREM ReviewsRunAlone == Spec => []OneReviewAtATime
  <1>1. MonitorInv => OneReviewAtATime
    <2> SUFFICES ASSUME MonitorInv PROVE Cardinality(Running) <= 1
      BY DEF MonitorInv, ReviewsOK, OneReviewAtATime
    <2>1. CASE Running = {}
      BY <2>1, FS_EmptySet
    <2>2. CASE Running # {}
      <3>1. PICK r \in Running : Running = {r}
        BY <2>2 DEF MonitorInv, ReviewsOK
      <3> QED
        BY <3>1, FS_Singleton
    <2> QED
      BY <2>1, <2>2
  <1> QED
    BY <1>1, MonitorInvariant, PTL

-----------------------------------------------------------------------------
(* No change is forgotten *)

LEMMA InitKept == Init => ChangesKept
  BY DEF Init, ReviewInit, NoProject, ChangesKept

\* A change is noted, unless the list was full and says so.
LEMMA NotedOrLost ==
    ASSUME NEW paths, NEW p \in paths, p \notin Lost(paths), project.enabled,
           After(project, paths, project')
    PROVE  p \in project'.pending
  BY DEF After, Lost, ListIsFull

LEMMA NoteNotesOrLoses ==
    ASSUME MonitorTypeOK, NEW paths, NEW p \in paths, p \notin Lost(paths),
           project.enabled, note_auto_review_changes(paths)
    PROVE  p \in project'.pending
  <1>1. After(project, paths, project')
    BY TypesMean, NotedMeans DEF note_auto_review_changes
  <1> QED
    BY <1>1, NotedOrLost

\* What a step of a watcher has to do for a change, for the change to stay in hand.
LEMMA WatcherCarries ==
    ASSUME MonitorInv, NEW w \in Watchers, WatcherStep(w), NEW p \in Paths, Kept(p),
           p \in project.pending => p \in project'.pending \/ Holds(w, p)',
           Holds(w, p) => \/ p \in project'.pending \/ Holds(w, p)' \/ NobodyPolls'
                          \/ \E r \in RunIds : UnderReview(r, p)',
           \A r \in RunIds : UnderReview(r, p) => UnderReview(r, p)'
    PROVE  Kept(p)'
  <1>1. /\ UNCHANGED <<up, current, handler>>
        /\ \A v \in Watchers \ {w} : watcher'[v] = watcher[v]
        /\ watcher'[w] = Free \/ watcher'[w].stop = watcher[w].stop
        /\ Alive(w)
    BY WatcherStepMeans DEF MonitorInv
  <1>2. \A v \in Watchers \ {w} : Holds(v, p) => Holds(v, p)'
    BY <1>1 DEF Holds, Alive
  <1>3. NobodyPolls => NobodyPolls'
    BY <1>1 DEF NobodyPolls, Alive, Free
  <1> QED
    BY <1>1, <1>2, <1>3 DEF Kept

LEMMA WatcherKeepsChanges ==
    ASSUME MonitorInv, ChangesKept, NEW w \in Watchers, WatcherStep(w)
    PROVE  ChangesKept'
  <1>1. project'.enabled = project.enabled
    BY WatcherStepMeans DEF MonitorInv
  <1>2. UNCHANGED <<dirty, covered>> /\ missed \subseteq missed'
    BY DEF WatcherStep, WatcherReads, Baseline, BaselineFails, Reconcile, reconcile, Poll,
           Scan, Claim, StartReview, Begin, BatchFails, reviewVars
  <1> SUFFICES ASSUME project.enabled, NEW p \in dirty, p \notin covered,
                      p \notin missed', Kept(p)
               PROVE  Kept(p)'
    BY <1>1, <1>2 DEF ChangesKept, Unreviewed
  <1>3. /\ watcher \in [Watchers -> WatcherRow] /\ watcher[w] \in WatcherRow
        /\ project \in ProjectRow /\ p \in Paths /\ project.registered
        /\ MonitorTypeOK /\ WatchersOK
    BY TypesMean DEF MonitorInv, WatchersOK
  <1>4. ~Begin(w) => UNCHANGED <<reports, worker>>
    BY DEF WatcherStep, WatcherReads, Baseline, BaselineFails, Reconcile, reconcile, Poll,
           Scan, Claim, StartReview, BatchFails, reviewVars
  <1>5. ~Begin(w) => \A r \in RunIds : UnderReview(r, p) => UnderReview(r, p)'
    BY <1>4 DEF UnderReview, Running
  <1>6. CASE WatcherReads(w)
    <2>1. project' = project
      BY <1>6 DEF WatcherReads, reviewVars
    <2>2. Holds(w, p) => Holds(w, p)'
      <3>1. /\ watcher'[w].pc = "baseline" /\ watcher'[w].stop = watcher[w].stop
            /\ watcher[w].pc = "start"
        BY <1>3, <1>6 DEF WatcherReads, WatcherRow
      <3> QED
        BY <3>1 DEF Holds, HoldsBatch
    <2>3. ~Begin(w)
      BY <1>6 DEF WatcherReads, Begin
    <2> QED
      BY <1>3, <1>5, <2>1, <2>2, <2>3, WatcherCarries
  <1>7. CASE Baseline(w)
    <2>1. project' = project /\ watcher[w].enabled
      BY <1>7 DEF Baseline, reviewVars
    <2>2. Holds(w, p) => Holds(w, p)'
      <3>1. /\ watcher'[w].pc = "reconcile" /\ watcher'[w].stop = watcher[w].stop
            /\ watcher[w].pc = "baseline"
        BY <1>3, <1>7, <2>1 DEF Baseline, WatcherRow
      <3> QED
        BY <3>1 DEF Holds, HoldsBatch
    <2>3. ~Begin(w)
      BY <1>7 DEF Baseline, Begin
    <2> QED
      BY <1>3, <1>5, <2>1, <2>2, <2>3, WatcherCarries
  <1>8. CASE BaselineFails(w)
    <2>1. project' = project
      BY <1>8 DEF BaselineFails, reviewVars
    <2>2. Holds(w, p) => NobodyPolls'
      <3> SUFFICES ASSUME Holds(w, p) PROVE NobodyPolls'
        OBVIOUS
      <3>1. Alive(w) /\ ~watcher[w].stop
        BY <1>8 DEF Holds, HoldsBatch, BaselineFails, Alive
      <3>2. \A v \in Watchers \ {w} : ~Alive(v) \/ watcher[v].stop
        BY <1>3, <3>1 DEF WatchersOK
      <3>3. /\ watcher'[w].pc = "free"
            /\ \A v \in Watchers \ {w} : watcher'[v] = watcher[v]
        BY <1>3, <1>8 DEF BaselineFails, Free
      <3> QED
        BY <3>2, <3>3 DEF NobodyPolls, Alive
    <2>3. ~Begin(w)
      BY <1>8 DEF BaselineFails, Begin
    <2> QED
      BY <1>3, <1>5, <2>1, <2>2, <2>3, WatcherCarries
  <1>9. CASE Reconcile(w)
    <2>1. missed' = missed \cup (dirty \ project'.pending)
      BY <1>3, <1>9, ReconcileMeans DEF Reconcile
    <2> QED
      BY <2>1 DEF Kept
  <1>10. CASE Poll(w)
    <2>1. project' = project
      BY <1>10 DEF Poll, reviewVars
    <2>2. Holds(w, p) => Holds(w, p)'
      <3> SUFFICES ASSUME Holds(w, p) PROVE Holds(w, p)'
        OBVIOUS
      <3>1. ~watcher[w].stop /\ p \in watcher[w].unseen
        BY <1>10 DEF Holds, HoldsBatch, Poll
      <3>2. /\ watcher'[w].pc = "scan" /\ watcher'[w].stop = watcher[w].stop
            /\ watcher'[w].unseen = watcher[w].unseen
        BY <1>3, <1>10, <3>1 DEF Poll, WatcherRow
      <3> QED
        BY <3>1, <3>2 DEF Holds, Alive
    <2>3. ~Begin(w)
      BY <1>10 DEF Poll, Begin
    <2> QED
      BY <1>3, <1>5, <2>1, <2>2, <2>3, WatcherCarries
  <1>11. CASE Scan(w)
    <2>1. project.pending \subseteq project'.pending
      BY <1>3, <1>11, NotedMeans DEF Scan, note_auto_review_changes
    <2>2. Holds(w, p) => p \in project'.pending
      <3> SUFFICES ASSUME Holds(w, p) PROVE p \in project'.pending
        OBVIOUS
      <3>1. p \in watcher[w].unseen
        BY <1>11 DEF Holds, HoldsBatch, Scan
      <3>2. watcher[w].enabled
        BY <1>11, <3>1 DEF Scan
      <3>3. /\ note_auto_review_changes(watcher[w].unseen)
            /\ p \notin Lost(watcher[w].unseen)
        BY <1>11, <3>1, <3>2 DEF Scan
      <3> QED
        BY <1>3, <3>1, <3>3, NoteNotesOrLoses
    <2>3. ~Begin(w)
      BY <1>11 DEF Scan, Begin
    <2> QED
      BY <1>3, <1>5, <2>1, <2>2, <2>3, WatcherCarries
  <1>12. CASE Claim(w)
    <2>1. CASE Due
      <3>1. /\ watcher'[w].pc = "start_review" /\ watcher'[w].batch = project.pending
            /\ watcher'[w].stop = watcher[w].stop
            /\ watcher'[w].unseen = watcher[w].unseen
        BY <1>3, <1>12, <2>1 DEF Claim, WatcherRow
      <3>2. p \in project.pending => Holds(w, p)'
        BY <3>1 DEF Holds, HoldsBatch
      <3>3. Holds(w, p) => Holds(w, p)'
        BY <1>12, <3>1 DEF Claim, Holds, HoldsBatch, Alive
      <3>4. ~Begin(w)
        BY <1>12 DEF Claim, Begin
      <3> QED
        BY <1>3, <1>5, <3>2, <3>3, <3>4, WatcherCarries
    <2>2. CASE ~Due
      <3>1. /\ watcher'[w].pc = "sleep" /\ watcher'[w].stop = watcher[w].stop
            /\ watcher'[w].unseen = watcher[w].unseen /\ project' = project
        BY <1>3, <1>12, <2>2 DEF Claim, claim_due_auto_review, WatcherRow
      <3>2. Holds(w, p) => Holds(w, p)'
        BY <1>12, <3>1 DEF Claim, Holds, HoldsBatch, Alive
      <3>3. ~Begin(w)
        BY <1>12 DEF Claim, Begin
      <3> QED
        BY <1>3, <1>5, <3>1, <3>2, <3>3, WatcherCarries
    <2> QED
      BY <2>1, <2>2
  <1>13. CASE StartReview(w)
    <2>1. /\ watcher'[w].pc \in {"begin", "failed"} /\ watcher'[w].stop = watcher[w].stop
          /\ watcher'[w].unseen = watcher[w].unseen
          /\ watcher'[w].batch = watcher[w].batch /\ project' = project
      BY <1>3, <1>13 DEF StartReview, Goes, WatcherRow, reviewVars
    <2>2. Holds(w, p) => Holds(w, p)'
      BY <1>13, <2>1 DEF StartReview, Holds, HoldsBatch, Alive
    <2>3. ~Begin(w)
      BY <1>13 DEF StartReview, Begin
    <2> QED
      BY <1>3, <1>5, <2>1, <2>2, <2>3, WatcherCarries
  <1>14. CASE Begin(w)
    <2>1. CASE MayBegin
      <3>1. /\ begin_review("automatic", watcher[w].batch)
            /\ watcher' = [watcher EXCEPT ![w].pc = "sleep", ![w].batch = {}]
        BY <1>14, <2>1 DEF Begin
      <3>2. watcher[w].batch \in PathLists
        BY <1>3 DEF WatcherRow
      <3>3. /\ begun' \in RunIds /\ worker'[begun'].pc = "reading"
            /\ reports'[begun'] = [status |-> "running", trigger |-> "automatic",
                                   paths |-> watcher[w].batch]
            /\ project'.pending = project.pending
        BY <1>3, <3>1, <3>2, BeginMeans
      <3>4. ASSUME p \in watcher[w].batch, NEW r \in RunIds, r = begun'
            PROVE  UnderReview(r, p)'
        BY <3>3, <3>4 DEF UnderReview, Running
      <3>5. /\ watcher'[w].pc = "sleep" /\ watcher'[w].stop = watcher[w].stop
            /\ watcher'[w].unseen = watcher[w].unseen
        BY <1>3, <3>1 DEF WatcherRow
      <3>6. Holds(w, p) => p \in watcher[w].batch \/ Holds(w, p)'
        BY <1>14, <3>5 DEF Begin, Holds, Alive
      <3>7. \A r \in RunIds : ~UnderReview(r, p)
        BY <2>1 DEF MayBegin, NoneRunning, UnderReview
      <3>8. p \in watcher[w].batch => \E r \in RunIds : UnderReview(r, p)'
        BY <3>3, <3>4
      <3> QED
        BY <1>3, <3>3, <3>6, <3>7, <3>8, WatcherCarries
    <2>2. CASE ~MayBegin
      <3>1. /\ watcher'[w].pc = "failed" /\ watcher'[w].stop = watcher[w].stop
            /\ watcher'[w].unseen = watcher[w].unseen
            /\ watcher'[w].batch = watcher[w].batch /\ project' = project
            /\ UNCHANGED <<reports, worker>>
        BY <1>3, <1>14, <2>2 DEF Begin, Goes, WatcherRow, reviewVars
      <3>2. Holds(w, p) => Holds(w, p)'
        BY <1>14, <3>1 DEF Begin, Holds, HoldsBatch, Alive
      <3>3. \A r \in RunIds : UnderReview(r, p) => UnderReview(r, p)'
        BY <3>1 DEF UnderReview, Running
      <3> QED
        BY <1>3, <3>1, <3>2, <3>3, WatcherCarries
    <2> QED
      BY <2>1, <2>2
  <1>15. CASE BatchFails(w)
    <2>1. After(project, watcher[w].batch, project') /\ p \notin Lost(watcher[w].batch)
      BY <1>3, <1>15, RequeuedMeans DEF BatchFails, set_auto_review_failure
    <2>2. p \in watcher[w].batch => p \in project'.pending
      BY <2>1, NotedOrLost
    <2>3. /\ watcher'[w].pc = "sleep" /\ watcher'[w].stop = watcher[w].stop
          /\ watcher'[w].unseen = watcher[w].unseen
      BY <1>3, <1>15 DEF BatchFails, WatcherRow
    <2>4. Holds(w, p) => p \in watcher[w].batch \/ Holds(w, p)'
      BY <1>15, <2>3 DEF BatchFails, Holds, Alive
    <2>5. ~Begin(w)
      BY <1>15 DEF BatchFails, Begin
    <2> QED
      BY <1>3, <1>5, <2>1, <2>2, <2>4, <2>5, WatcherCarries DEF After
  <1> QED
    BY <1>6, <1>7, <1>8, <1>9, <1>10, <1>11, <1>12, <1>13, <1>14, <1>15 DEF WatcherStep

\* The worker either covers what it read, or gives its batch back.
LEMMA WorkerKeepsChanges ==
    ASSUME MonitorInv, ChangesKept, NEW r \in RunIds, WorkerStep(r)
    PROVE  ChangesKept'
  <1>1. UNCHANGED <<up, current, watcher, handler, dirty>> /\ missed \subseteq missed'
        /\ covered \subseteq covered'
    BY DEF WorkerStep, WorkerReads, WorkerCompletes, WorkerFails, WorkerEnds
  <1>2. /\ MonitorTypeOK /\ ReviewsOK /\ WatchersOK
        /\ worker \in [RunIds -> WorkerRow] /\ reports \in [RunIds -> ReportRow]
    BY TypesMean DEF MonitorInv
  <1>3. /\ project'.enabled = project.enabled
        /\ project.pending \subseteq project'.pending
    BY <1>2, FinishMeans
       DEF WorkerStep, WorkerReads, WorkerCompletes, WorkerFails, WorkerEnds, reviewVars
  <1> SUFFICES ASSUME project.enabled, NEW p \in dirty, p \notin covered',
                      p \notin missed', Kept(p)
               PROVE  Kept(p)'
    BY <1>1, <1>3 DEF ChangesKept, Unreviewed
  <1>4. \A s \in RunIds \ {r} : UnderReview(s, p) => UnderReview(s, p)'
    <2> SUFFICES ASSUME NEW s \in RunIds \ {r}, UnderReview(s, p)
                 PROVE  UnderReview(s, p)'
      OBVIOUS
    <2>1. s = begun
      BY <1>2 DEF UnderReview, ReviewsOK
    <2>2. reports'[s] = reports[s]
      BY <1>2, <2>1, FinishedReports
         DEF WorkerStep, WorkerReads, WorkerCompletes, WorkerFails, WorkerEnds, reviewVars
    <2>3. worker'[s] = worker[s]
      BY <1>2 DEF WorkerStep, WorkerReads, WorkerCompletes, WorkerFails, WorkerEnds
    <2> QED
      BY <2>2, <2>3 DEF UnderReview, Running
  <1>5. UnderReview(r, p) => UnderReview(r, p)' \/ p \in project'.pending
    <2> SUFFICES ASSUME UnderReview(r, p)
                 PROVE  UnderReview(r, p)' \/ p \in project'.pending
      OBVIOUS
    <2>1. /\ r \in Running /\ reports[r].trigger = "automatic" /\ p \in reports[r].paths
          /\ worker[r].pc = "reading" \/ p \in worker[r].read \cup worker[r].skipped
      BY DEF UnderReview
    <2>2. CASE WorkerReads(r)
      <3>1. worker'[r].read \cup worker'[r].skipped = reports[r].paths /\ UNCHANGED reports
        BY <1>2, <2>2 DEF WorkerReads, reviewVars
      <3> QED
        BY <2>1, <3>1 DEF UnderReview, Running
    <2>3. CASE WorkerCompletes(r)
      <3>1. /\ p \in worker[r].read \cup worker[r].skipped
            /\ covered' = covered \cup (worker[r].read \cap dirty)
            /\ missed' = missed \cup worker[r].skipped
        BY <2>1, <2>3 DEF WorkerCompletes
      <3> QED
        BY <3>1
    <2>4. CASE WorkerFails(r)
      <3>1. finish_code_review_report(r, "error") /\ p \notin Lost(reports[r].paths)
        BY <2>1, <2>4 DEF WorkerFails
      <3>2. project.registered
        BY <1>2 DEF WatchersOK
      <3>3. After(project, reports[r].paths, project')
        BY <1>2, <2>1, <3>1, <3>2, FinishMeans
      <3> QED
        BY <2>1, <3>1, <3>3, NotedOrLost
    <2>5. CASE WorkerEnds(r)
      <3>1. worker[r].pc = "publishing"
        BY <2>5 DEF WorkerEnds
      <3>2. up
        BY <1>2, <3>1, TypesMean DEF ReviewsOK, NoWorker
      <3> QED
        BY <1>2, <2>1, <3>1, <3>2 DEF ReviewsOK
    <2> QED
      BY <2>2, <2>3, <2>4, <2>5 DEF WorkerStep
  <1>6. \A w \in Watchers : Holds(w, p) => Holds(w, p)'
    BY <1>1 DEF Holds, Alive
  <1>7. NobodyPolls => NobodyPolls'
    BY <1>1 DEF NobodyPolls, Alive
  <1> QED
    BY <1>1, <1>3, <1>4, <1>5, <1>6, <1>7 DEF Kept

LEMMA EditKeepsChanges ==
    ASSUME MonitorInv, ChangesKept, NEW q \in Paths, Edit(q)
    PROVE  ChangesKept'
  <1>1. /\ UNCHANGED <<project, reports, begun, up, current, handler>>
        /\ dirty' = dirty \cup {q} /\ covered' = covered \ {q} /\ missed' = missed \ {q}
    BY DEF Edit, reviewVars
  <1>2. \A w \in Watchers :
           /\ watcher'[w].pc = watcher[w].pc /\ watcher'[w].stop = watcher[w].stop
           /\ watcher'[w].batch = watcher[w].batch
           /\ watcher[w].pc \in {"free", "start", "baseline"} => watcher'[w] = watcher[w]
           /\ watcher[w].pc \notin {"free", "start", "baseline"} =>
                 watcher'[w].unseen = watcher[w].unseen \cup {q}
    BY EditMeans DEF MonitorInv
  <1>3. NobodyPolls => NobodyPolls'
    BY <1>2 DEF NobodyPolls, Alive
  <1> SUFFICES ASSUME project.enabled, NEW p \in Unreviewed', p \notin missed'
               PROVE  Kept(p)'
    BY <1>1 DEF ChangesKept
  <1>4. CASE p = q
    <2>1. CASE NobodyPolls
      BY <1>3, <2>1 DEF Kept
    <2>2. CASE ~NobodyPolls
      <3>1. PICK w \in Watchers : Alive(w) /\ ~watcher[w].stop
        BY <2>2 DEF NobodyPolls
      <3>2. Holds(w, p)'
        BY <1>2, <1>4, <3>1 DEF Holds, Alive
      <3> QED
        BY <3>2 DEF Kept
    <2> QED
      BY <2>1, <2>2
  <1>5. CASE p # q
    <2>1. Kept(p)
      BY <1>1, <1>5 DEF ChangesKept, Unreviewed
    <2>2. \A w \in Watchers : Holds(w, p) => Holds(w, p)'
      BY <1>2 DEF Holds, Alive
    <2>3. \A r \in RunIds : UnderReview(r, p) => UnderReview(r, p)'
      <3>1. \A r \in RunIds : /\ worker'[r].pc = worker[r].pc
                              /\ worker'[r].read = worker[r].read \ {q}
                              /\ worker'[r].skipped = worker[r].skipped \ {q}
        BY TypesMean DEF MonitorInv, Edit, WorkerRow
      <3> QED
        BY <1>1, <1>5, <3>1 DEF UnderReview, Running
    <2> QED
      BY <1>1, <1>3, <2>1, <2>2, <2>3 DEF Kept
  <1> QED
    BY <1>4, <1>5

\* A new watcher is at its start, and has all the dirty files before it.
LEMMA StartedKeepsChanges ==
    ASSUME MonitorInv, Started, NEW p \in Paths,
           Kept(p), project'.pending = project.pending, UNCHANGED <<reports, worker>>,
           up => UNCHANGED <<up, handler>>
    PROVE  Kept(p)'
  <1>1. /\ MonitorTypeOK /\ WatchersOK /\ current' \in Watchers
        /\ \/ current' = current /\ watcher' = watcher
           \/ /\ ~Alive(current')
              /\ watcher'[current'] = [Free EXCEPT !.pc = "start"]
              /\ \A w \in Watchers \ {current'} : watcher'[w] = watcher[w]
    BY StartedMeans DEF MonitorInv
  <1>2. CASE current' = current /\ watcher' = watcher
    <2>1. up
      BY <1>1, <1>2, WatcherAssumption DEF WatchersOK
    <2>2. \A w \in Watchers : Holds(w, p) => Holds(w, p)'
      BY <1>2 DEF Holds, Alive
    <2>3. \A r \in RunIds : UnderReview(r, p) => UnderReview(r, p)'
      BY DEF UnderReview, Running
    <2>4. NobodyPolls => NobodyPolls'
      BY <1>2 DEF NobodyPolls, Alive
    <2> QED
      BY <2>1, <2>2, <2>3, <2>4 DEF Kept
  <1>3. CASE watcher'[current'] = [Free EXCEPT !.pc = "start"]
    <2>1. watcher'[current'].pc = "start" /\ ~watcher'[current'].stop
      BY <1>3 DEF Free
    <2>2. \A w \in Watchers : w = current' => Holds(w, p)'
      BY <2>1 DEF Holds
    <2> QED
      BY <1>1, <2>2 DEF Kept
  <1> QED
    BY <1>1, <1>2, <1>3

LEMMA NextKept == MonitorInv /\ ChangesKept /\ [Next]_vars => ChangesKept'
  <1> SUFFICES ASSUME MonitorInv, ChangesKept, [Next]_vars PROVE ChangesKept'
    OBVIOUS
  <1>0. /\ MonitorTypeOK /\ ReviewsOK /\ WatchersOK
        /\ project \in ProjectRow /\ dirty \subseteq Paths
    BY TypesMean DEF MonitorInv
  <1>1. ASSUME NEW p \in Paths, Edit(p) PROVE ChangesKept'
    BY <1>1, EditKeepsChanges
  <1>2. CASE Commit
    BY <1>2 DEF Commit, ChangesKept, Unreviewed
  <1>3. CASE Register
    <2> SUFFICES ASSUME project'.enabled, NEW p \in (Unreviewed \ missed)'
                 PROVE  Kept(p)'
      BY DEF ChangesKept
    <2>1. project' = project /\ UNCHANGED <<dirty, covered, missed>>
      BY <1>3 DEF Register, register_monitored_project, NoProject
    <2>2. Kept(p) /\ p \in Paths
      BY <1>0, <2>1 DEF ChangesKept, Unreviewed
    <2> QED
      BY <1>3, <2>1, <2>2, StartedKeepsChanges DEF Register, register_monitored_project
  <1>4. CASE Unregister
    BY <1>4 DEF Unregister, unregister_monitored_project, NoProject, ChangesKept
  <1>5. CASE Enable
    BY <1>5 DEF Enable, ChangesKept, Kept
  <1>6. CASE Disable
    <2>1. ~project'.enabled
      BY <1>0, <1>6 DEF Disable, set_auto_review_enabled, ProjectRow
    <2> QED
      BY <2>1 DEF ChangesKept
  <1>7. ASSUME NEW q \in Paths, ManualReview(q) PROVE ChangesKept'
    <2>1. /\ project'.pending = project.pending /\ project'.enabled = project.enabled
          /\ UNCHANGED <<dirty, covered, missed, up, current, watcher, handler>>
      BY <1>0, <1>7, OnePathIsAList, BeginMeans DEF ManualReview
    <2>2. \A p : Kept(p) => Kept(p)'
      <3>1. \A p : \A r \in RunIds : ~UnderReview(r, p)
        BY <1>7 DEF ManualReview, MayBegin, NoneRunning, UnderReview
      <3>2. \A p : \A w \in Watchers : Holds(w, p) => Holds(w, p)'
        BY <2>1 DEF Holds, Alive
      <3>3. NobodyPolls => NobodyPolls'
        BY <2>1 DEF NobodyPolls, Alive
      <3> QED
        BY <2>1, <3>1, <3>2, <3>3 DEF Kept
    <2> QED
      BY <2>1, <2>2 DEF ChangesKept, Unreviewed
  <1>8. CASE EnableNotes
    <2> SUFFICES ASSUME project'.enabled, NEW p \in dirty, p \notin missed'
                 PROVE  p \in project'.pending
      BY <1>8 DEF EnableNotes, ChangesKept, Unreviewed, Kept
    <2>1. /\ project'.enabled = project.enabled
          /\ missed' = IF project.enabled THEN missed \cup (dirty \ project'.pending) ELSE missed
      BY <1>0, <1>8, ReconcileMeans DEF EnableNotes
    <2> QED
      BY <2>1
  <1>9. CASE Clock \/ UNCHANGED vars
    <2>1. /\ project'.pending = project.pending /\ project'.enabled = project.enabled
          /\ UNCHANGED <<reports, monitorVars>>
      BY <1>0, <1>9 DEF Clock, QuietPeriodEnds, vars, ProjectRow
    <2> QED
      BY <2>1
         DEF monitorVars, ChangesKept, Unreviewed, Kept, UnderReview, Running, Holds,
             Alive, NobodyPolls
  <1>10. ASSUME NEW w \in Watchers, WatcherStep(w) PROVE ChangesKept'
    BY <1>10, WatcherKeepsChanges
  <1>11. ASSUME NEW r \in RunIds, WorkerStep(r) PROVE ChangesKept'
    BY <1>11, WorkerKeepsChanges
  <1>12. CASE Crash
    BY <1>12 DEF Crash, ChangesKept, Kept
  <1>13. CASE Recover
    <2> SUFFICES ASSUME project'.enabled, NEW p
                 PROVE  Kept(p)'
      BY DEF ChangesKept
    <2>1. project.registered
      BY <1>0, <1>13, SweepMeans DEF Recover, WatchersOK
    <2>2. /\ current = NoWatcher /\ current' \in Watchers
          /\ watcher'[current'] = [Free EXCEPT !.pc = "start"] \/ current' = current
      BY <1>0, <1>13, <2>1, StartedMeans DEF Recover, WatchersOK
    <2>3. watcher'[current'].pc = "start" /\ ~watcher'[current'].stop
      BY <2>2, WatcherAssumption DEF Free
    <2>4. \A w \in Watchers : w = current' => Holds(w, p)'
      BY <2>3 DEF Holds
    <2> QED
      BY <2>2, <2>4 DEF Kept
  <1> QED
    BY <1>1, <1>2, <1>3, <1>4, <1>5, <1>6, <1>7, <1>8, <1>9, <1>10, <1>11, <1>12, <1>13
       DEF Next, Request

\* The change of an enabled project is queued, under review or ahead of a thread,
\* whatever fails, is interrupted, is claimed for nothing or is replaced, but for the
\* four ways the code has to lose it: the cap of the list, a poll with a row from before
\* the project was enabled, a look at the dirty files that failed or ended at the
\* MAX_FILES-th, and a file that the completed review of its batch passed over.
THEOREM ChangesAreNotForgotten == Spec => []NoChangeForgotten
  <1>1. \A w \in Watchers : \A p :
           MonitorInv /\ Holds(w, p) => InHand(w, p)
    <2> SUFFICES ASSUME NEW w \in Watchers, NEW p, MonitorInv, Holds(w, p)
                 PROVE  InHand(w, p)
      OBVIOUS
    <2>1. watcher[w].pc \in WatcherPCs
      BY TypesMean DEF MonitorInv, WatcherRow
    <2> QED
      BY <2>1 DEF Holds, InHand, Alive, HoldsBatch, WatcherPCs
  <1>2. MonitorInv /\ ChangesKept => NoChangeForgotten
    BY <1>1 DEF ChangesKept, Kept, NoChangeForgotten, AccountedFor, NobodyPolls
  <1> QED
    BY <1>2, InitKept, NextKept, MonitorInvariant, PTL DEF Spec
=============================================================================
