-------------------------- MODULE MCProjectMonitor --------------------------
(* ProjectMonitor on small instances. *)
EXTENDS ProjectMonitor, TLC

Symmetry == Permutations(Watchers) \cup Permutations(Paths)

Untouched(p) ==
    /\ p \notin dirty /\ p \notin project.pending
    /\ \A w \in Watchers : p \notin watcher[w].unseen /\ p \notin watcher[w].batch
    /\ \A r \in RunIds : p \notin reports[r].paths
OneFile == \E p \in Paths : Untouched(p)
OneWatcher == \E w \in Watchers : ~Alive(w)
OneReview == begun <= 1

\* Of files, watchers and reviews, at most one kind is two at a time (a second
\* review begun beside a second watcher is still checked, and not followed).
OnlyOneIsTwo ==
    \/ OneFile /\ OneWatcher
    \/ OneFile /\ OneReview
    \/ OneWatcher /\ OneReview
=============================================================================
