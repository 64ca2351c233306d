------------------------------- MODULE Worklog -------------------------------
(***************************************************************************)
(* AI_WORKLOG.md: scripts/watch_worklog.py compares snapshots of a          *)
(* workspace and has scripts/update_worklog.py note the changes; an agent   *)
(* runs the same updater for its own notes.  An updater reads the whole     *)
(* section, adds to it and replaces the file, and holds no lock meanwhile.  *)
(* A note is a file with the version it was seen at (0: there is none).     *)
(***************************************************************************)
EXTENDS Integers, FiniteSets

CONSTANTS WatchedFiles,
          AgentNotes,    \* what an agent writes into the log
          MaxEdits       \* bound: edits of the workspace

ASSUME WorklogAssumption == MaxEdits \in Nat

VARIABLES disk,          \* version of each file
          edited,        \* edits so far
          saved,         \* the snapshot in the state file
          watcher,       \* the running watcher
          updater,       \* its updater and an agent's
          log,           \* the notes in the worklog
          baseline,      \* history: the last snapshot taken as a start
          overwritten,   \* history: notes another updater's write removed
          overlapped     \* history: an updater wrote while another had read

logVars == <<disk, edited, saved, watcher, updater, log, baseline, overwritten, overlapped>>

Updaters == {"watcher", "agent"}
Snapshots == [WatchedFiles -> 0..MaxEdits]
EmptySnapshot == [f \in WatchedFiles |-> 0]
Notes == (WatchedFiles \X (0..MaxEdits)) \cup AgentNotes
IdleUpdater == [pc |-> "idle", copy |-> {}, notes |-> {}]
NoWatcher == [mode |-> "off", pc |-> "off", previous |-> EmptySnapshot,
              current |-> EmptySnapshot, change |-> FALSE]

diff_snapshots(previous, current) ==
    {<<f, current[f]>> : f \in {g \in WatchedFiles : previous[g] # current[g]}}

LogInit ==
    /\ disk \in [WatchedFiles -> {0}] /\ edited = 0
    /\ saved = EmptySnapshot /\ baseline = EmptySnapshot
    /\ watcher = NoWatcher
    /\ updater = [u \in Updaters |-> IdleUpdater]
    /\ log = {} /\ overwritten = {} /\ overlapped = FALSE

----------------------------------------------------------------------------
(* update_worklog.py *)

Launch(u, notes) == updater' = [updater EXCEPT ![u] = [pc |-> "started", copy |-> {},
                                                       notes |-> notes]]

(* load_worklog; the escaping of cells is undone when they are read. *)
load_worklog(u) ==
    /\ updater[u].pc = "started"
    /\ updater' = [updater EXCEPT ![u].pc = "loaded", ![u].copy = log]
    /\ UNCHANGED <<disk, edited, saved, watcher, log, baseline, overwritten, overlapped>>

(* (Mutant: the section that was read is not carried over.) *)
notes_only(u) == updater[u].notes
Merged(u) == updater[u].copy \cup updater[u].notes

(* The file is replaced as a whole; the exit code may still be bad afterwards. *)
atomic_write_text(u) ==
    /\ updater[u].pc = "loaded"
    /\ log' = Merged(u)
    /\ overwritten' = (overwritten \cup log) \ log'
    /\ overlapped' = (overlapped \/ \E other \in Updaters \ {u} : updater[other].pc = "loaded")
    /\ \E exit \in {"ok", "failed"} : updater' = [updater EXCEPT ![u].pc = exit]
    /\ UNCHANGED <<disk, edited, saved, watcher, baseline>>

UpdaterFails(u) ==
    /\ updater[u].pc \in {"started", "loaded"}
    /\ updater' = [updater EXCEPT ![u].pc = "failed"]
    /\ UNCHANGED <<disk, edited, saved, watcher, log, baseline, overwritten, overlapped>>

AgentNotesSomething ==
    /\ updater["agent"].pc = "idle"
    /\ \E note \in AgentNotes : Launch("agent", {note})
    /\ UNCHANGED <<disk, edited, saved, watcher, log, baseline, overwritten, overlapped>>

AgentDone ==
    /\ updater["agent"].pc \in {"ok", "failed"}
    /\ updater' = [updater EXCEPT !["agent"] = IdleUpdater]
    /\ UNCHANGED <<disk, edited, saved, watcher, log, baseline, overwritten, overlapped>>

----------------------------------------------------------------------------
(* watch_worklog.py *)

Edit(f) ==
    /\ edited < MaxEdits
    /\ edited' = edited + 1
    /\ \E version \in {0, edited'} \ {disk[f]} : disk' = [disk EXCEPT ![f] = version]
    /\ UNCHANGED <<saved, watcher, updater, log, baseline, overwritten, overlapped>>

MayStart == watcher.mode = "off" /\ updater["watcher"].pc = "idle"
Watching(mode, pc, previous, change) ==
    watcher' = [mode |-> mode, pc |-> pc, previous |-> previous, current |-> disk,
                change |-> change]
TakeBaseline == saved' = disk /\ baseline' = disk

(* --once goes on from the saved snapshot.  An empty one, like a state file that is *)
(* missing or cannot be read, makes a baseline of whatever is there.                 *)
run_once ==
    /\ MayStart
    /\ IF saved = EmptySnapshot
       THEN TakeBaseline /\ Launch("watcher", {}) /\ Watching("once", "updating", disk, FALSE)
       ELSE /\ UNCHANGED baseline
            /\ IF saved = disk
               THEN UNCHANGED <<saved, updater, watcher>>
               ELSE /\ Launch("watcher", diff_snapshots(saved, disk))
                    /\ Watching("once", "updating", saved, TRUE)
                    /\ UNCHANGED saved
    /\ UNCHANGED <<disk, edited, log, overwritten, overlapped>>

(* Without --once every start makes a baseline. *)
run_forever ==
    /\ MayStart
    /\ TakeBaseline
    /\ Launch("watcher", {})
    /\ Watching("forever", "updating", disk, FALSE)
    /\ UNCHANGED <<disk, edited, log, overwritten, overlapped>>

Poll ==
    /\ watcher.pc = "sleeping" /\ watcher.previous # disk
    /\ Launch("watcher", diff_snapshots(watcher.previous, disk))
    /\ Watching("forever", "updating", watcher.previous, TRUE)
    /\ UNCHANGED <<disk, edited, saved, log, baseline, overwritten, overlapped>>

(* The snapshot advances once the updater has reported success. *)
(* (Mutant: whatever it has reported.)                          *)
any_result == updater["watcher"].pc \in {"ok", "failed"}
update_accepted == updater["watcher"].pc = "ok"

UpdaterReturned ==
    /\ watcher.pc = "updating" /\ updater["watcher"].pc \in {"ok", "failed"}
    /\ LET advance == watcher.change /\ update_accepted
       IN  /\ saved' = IF advance THEN watcher.current ELSE saved
           /\ watcher' = IF watcher.mode = "once" THEN NoWatcher
                         ELSE [watcher EXCEPT !.pc = "sleeping", !.change = FALSE,
                                  !.previous = IF advance THEN watcher.current ELSE @]
    /\ updater' = [updater EXCEPT !["watcher"] = IdleUpdater]
    /\ UNCHANGED <<disk, edited, log, baseline, overwritten, overlapped>>

(* The watcher is stopped; the updater it started goes on. *)
WatcherStops ==
    /\ watcher.mode # "off"
    /\ watcher' = NoWatcher
    /\ UNCHANGED <<disk, edited, saved, updater, log, baseline, overwritten, overlapped>>

OrphanEnds ==
    /\ watcher.mode = "off" /\ updater["watcher"].pc \in {"ok", "failed"}
    /\ updater' = [updater EXCEPT !["watcher"] = IdleUpdater]
    /\ UNCHANGED <<disk, edited, saved, watcher, log, baseline, overwritten, overlapped>>

StateFileLost ==
    /\ watcher.mode = "off" /\ saved # EmptySnapshot
    /\ saved' = EmptySnapshot /\ baseline' = EmptySnapshot
    /\ UNCHANGED <<disk, edited, watcher, updater, log, overwritten, overlapped>>

LogNext ==
    \/ \E u \in Updaters : load_worklog(u) \/ atomic_write_text(u) \/ UpdaterFails(u)
    \/ AgentNotesSomething \/ AgentDone
    \/ \E f \in WatchedFiles : Edit(f)
    \/ run_once \/ run_forever \/ Poll \/ UpdaterReturned
    \/ WatcherStops \/ OrphanEnds \/ StateFileLost

LogSpec == LogInit /\ [][LogNext]_logVars

----------------------------------------------------------------------------
LogTypeOK ==
    /\ disk \in Snapshots /\ saved \in Snapshots /\ baseline \in Snapshots
    /\ log \subseteq Notes
    /\ \A u \in Updaters : updater[u].pc \in {"idle", "started", "loaded", "ok", "failed"}
    /\ watcher.mode \in {"off", "once", "forever"}

(* watch_worklog.py:318: "Advance the snapshot only after the change reached the     *)
(* worklog; otherwise a failed update would lose the change forever."  A file that   *)
(* differs from the last baseline in the snapshot the watcher goes on from - the     *)
(* saved one or the one it holds - has its note in the worklog, unless another       *)
(* updater took it out again; and only one that had read the worklog before and      *)
(* wrote after can do that.                                                          *)
Reported(snap) ==
    \A f \in WatchedFiles : snap[f] # baseline[f] => <<f, snap[f]>> \in log \cup overwritten
ChangeReachesWorklog ==
    /\ Reported(saved)
    /\ watcher.pc = "sleeping" => Reported(watcher.previous)
    /\ overwritten # {} => overlapped
=============================================================================
