----------------------------- MODULE CommitFeed -----------------------------
(***************************************************************************)
(* How project_monitor.py tells the commits of a monitored repository: a    *)
(* poll lists what is above base_commit, moves base_commit to HEAD and      *)
(* writes one event.  Git is asked twice, the row is read and written       *)
(* apart, and two pollers exist while a stopped watcher is still at work.    *)
(* Commits are numbered along the branch; base 0 is a row without one.      *)
(***************************************************************************)
EXTENDS Integers, FiniteSets

CONSTANTS Pollers,
          MaxCommits,   \* bound: commits ever made
          LogLimit      \* git log -n

ASSUME CommitsAssumption == MaxCommits \in Nat \ {0}

VARIABLES tip,        \* HEAD
          base,       \* base_commit of the row
          headCache,  \* what resolve_base_commit remembers for 60 s
          poller,     \* _emit_git_commits of each poller
          told,       \* commits in an event
          again,      \* history: commits in two events
          holes,      \* history: commits base was moved past untold
          reopened    \* history: commits a poll was, once more, given to tell

commitVars == <<tip, base, headCache, poller, told, again, holes, reopened>>

NoHead == -1
Above(low, high) == (low + 1)..high
IdlePoller == [pc |-> "idle", from |-> 0, lines |-> {}, seen |-> 0]
Step(p, pc) == poller' = [poller EXCEPT ![p].pc = pc]

CommitsInit ==
    /\ tip \in 0..1 /\ base = tip /\ headCache = tip
    /\ poller = [p \in Pollers |-> IdlePoller]
    /\ told = {} /\ again = {} /\ holes = 1..tip /\ reopened = {}

MakeCommit ==
    /\ tip < MaxCommits
    /\ tip' = tip + 1
    /\ UNCHANGED <<base, headCache, poller, told, again, holes, reopened>>

----------------------------------------------------------------------------
(* _emit_git_commits *)

(* The row is read again at every poll: the copy the watcher took when it started *)
(* still has the base of that time.  (Mutant: that copy is used; it had none.)     *)
loop_snapshot == 0
fresh == base

ReadBase(p) ==
    /\ poller[p].pc = "idle"
    /\ poller' = [poller EXCEPT ![p] = [IdlePoller EXCEPT !.pc = "log", !.from = fresh]]
    /\ UNCHANGED <<tip, base, headCache, told, again, holes, reopened>>

(* The newest LogLimit commits.  Nothing to list, or a git that refuses, moves a    *)
(* base there is on all the same; a git that does not answer ends the poll.         *)
LatestOf(commits) == {c \in commits : Cardinality({d \in commits : d > c}) < LogLimit}
AfterLog(p, lines) ==
    IF lines = {} /\ poller[p].from = 0 THEN [poller EXCEPT ![p] = IdlePoller]
    ELSE [poller EXCEPT ![p].pc = "rev_parse", ![p].lines = lines]

git_log(p) ==
    /\ poller[p].pc = "log"
    /\ \/ \E lines \in {LatestOf(Above(poller[p].from, tip)), {}} : poller' = AfterLog(p, lines)
       \/ poller' = [poller EXCEPT ![p] = IdlePoller]
    /\ UNCHANGED <<tip, base, headCache, told, again, holes, reopened>>

(* _advance_head reads HEAD anew: what was committed since the list is skipped. *)
rev_parse(p) ==
    /\ poller[p].pc = "rev_parse"
    /\ poller' = [poller EXCEPT ![p].pc = "write", ![p].seen = tip]
    /\ UNCHANGED <<tip, base, headCache, told, again, holes, reopened>>

(* Moving base to head passes by what nobody lists, and leaves to be told again *)
(* what is above a lower head, or below it for a poller that read the base before. *)
BehindBase(p) == {q \in Pollers \ {p} : poller[q].pc \in {"log", "rev_parse", "write"}}
MovesTo(head, by, lines, behind) ==
    /\ base' = head
    /\ holes' = holes \cup (Above(by, head) \ lines)
    /\ reopened' = reopened \cup Above(head, base)
                            \cup UNION {Above(poller[q].from, head) : q \in behind}

set_monitored_project_base_commit(p) ==
    /\ poller[p].pc = "write"
    /\ MovesTo(poller[p].seen, poller[p].from, poller[p].lines, BehindBase(p))
    /\ Step(p, "emit")
    /\ UNCHANGED <<tip, headCache, told, again>>

(* Neither HEAD nor the row has to be available; the event is written anyway. *)
AdvanceFails(p) ==
    /\ poller[p].pc \in {"rev_parse", "write"}
    /\ reopened' = reopened \cup poller[p].lines
    /\ Step(p, "emit")
    /\ UNCHANGED <<tip, base, headCache, told, again, holes>>

(* An event the store does not take is lost. *)
_emit(p) ==
    /\ poller[p].pc = "emit"
    /\ \/ /\ told' = told \cup poller[p].lines
          /\ again' = again \cup (told \cap poller[p].lines)
          /\ UNCHANGED holes
       \/ /\ holes' = holes \cup poller[p].lines
          /\ UNCHANGED <<told, again>>
    /\ poller' = [poller EXCEPT ![p] = IdlePoller]
    /\ UNCHANGED <<tip, base, headCache, reopened>>

----------------------------------------------------------------------------
(* POST /api/projects for a registered project: base becomes HEAD, or the HEAD *)
(* of up to a minute ago.                                                      *)
resolve_base_commit == IF headCache = NoHead THEN tip ELSE headCache
Register ==
    /\ headCache' = resolve_base_commit
    /\ MovesTo(resolve_base_commit, base, {}, {})
    /\ UNCHANGED <<tip, poller, told, again>>

CacheExpires ==
    /\ headCache' = NoHead
    /\ UNCHANGED <<tip, base, poller, told, again, holes, reopened>>

(* Between the advance and the event a crash loses what was listed. *)
CrashOfPollers ==
    /\ holes' = holes \cup UNION {poller[p].lines : p \in {q \in Pollers : poller[q].pc = "emit"}}
    /\ poller' = [p \in Pollers |-> IdlePoller]
    /\ headCache' = NoHead
    /\ UNCHANGED <<tip, base, told, again, reopened>>

CommitsNext ==
    \/ MakeCommit \/ Register \/ CacheExpires \/ CrashOfPollers
    \/ \E p \in Pollers :
          ReadBase(p) \/ git_log(p) \/ rev_parse(p) \/ set_monitored_project_base_commit(p)
          \/ AdvanceFails(p) \/ _emit(p)

CommitsSpec == CommitsInit /\ [][CommitsNext]_commitVars

----------------------------------------------------------------------------
CommitsTypeOK ==
    /\ tip \in 0..MaxCommits /\ base \in 0..tip /\ headCache \in NoHead..tip
    /\ told \cup again \cup holes \cup reopened \subseteq 1..tip
    /\ \A p \in Pollers : poller[p].pc \in {"idle", "log", "rev_parse", "write", "emit"}
                          /\ poller[p].lines \subseteq 1..tip

(* A commit is told again only after the poll that told it could not move the base,  *)
(* the base was moved back (a registration with a remembered HEAD, a slower          *)
(* poller), or two pollers were at work.  And the base passes a commit that nobody   *)
(* has told or is about to tell only in the ways the code has: over the limit,       *)
(* unread by git, made between its two questions, lost with its event, or below a    *)
(* registration.                                                                     *)
RepeatsAreReopened ==
    /\ again \subseteq reopened
    /\ 1..base \subseteq told \cup holes \cup
           UNION {poller[p].lines : p \in {q \in Pollers : poller[q].pc = "emit"}}

(* project_monitor.py:280-281: what is above the last seen HEAD is listed "so the     *)
(* same commit is never reported twice".                                             *)
NeverToldTwice == again = {}
=============================================================================
