------------------------------- MODULE MCDesk -------------------------------
(* Small instances of the parts, for TLC.                                   *)
EXTENDS Desk, TLC

\* Handlers stand for publishers and for requests; they and the dashboards are alike.
Symmetry == Permutations(Publishers) \cup Permutations(Dashboards)

\* Five writes of the journal without a dashboard, three with one, two with two of them
\* (and then messages of other kinds only before the first write).
Joined == {d \in Dashboards : phase[d] # "away" \/ view[d] # 0}
NewsUnderWay ==
    \/ \E h \in Publishers : publisher[h] # NoMessage /\ publisher[h].state = News
    \/ \E d \in Dashboards : News \in Range(queue[d])
WritesWithDashboards ==
    \/ Joined = {}
    \/ Cardinality(Joined) = 1 /\ version <= 3
    \/ /\ Cardinality(Joined) = 2 /\ restarts = 0
       /\ version <= 2 /\ (version = 0 \/ ~NewsUnderWay)
=============================================================================
