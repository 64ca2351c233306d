-------------------------------- MODULE Intake --------------------------------
(***************************************************************************)
(* Source intake of daemon/store.py: delivery idempotency, the match of a     *)
(* complete source with a Case of its incident, pending sources and their      *)
(* promotion.  CaseStore says what happens to a Case afterwards; here a Case is *)
(* open, escalated or closed, and every move stamps updated_at.  One canonical  *)
(* repository: signatures and candidate lookups never cross two.               *)
(***************************************************************************)
EXTENDS Integers, SequencesExt, FiniteSetsExt

CONSTANTS
    Incidents,          \* incident signatures of complete sources
    Unsigned,           \* the signature of an incomplete source
    IdempotencyWindow,  \* DEFAULT_IDEMPOTENCY_WINDOW_S, in ticks of the clock
    AssociationWindow,  \* DEFAULT_ASSOCIATION_DEADLINE_S
    IncidentWindow,     \* DEFAULT_INCIDENT_WINDOW_S
    MaxClock,           \* bound: ticks
    MaxSources          \* bound: observations stored

ASSUME IntakeAssumption ==
    /\ Unsigned \notin Incidents
    /\ \A n \in {IdempotencyWindow, AssociationWindow, IncidentWindow} : n \in Nat \ {0}
    /\ MaxClock \in Nat /\ MaxSources \in Nat

VARIABLES
    clock,
    cases,      \* cases in the order of created_at
    sources     \* case_sources in the order of received_at

intakeVars == <<clock, cases, sources>>

\* What a client sends: its delivery id stands for type, uri and nonce.  Keywords
\* matter for an incomplete source only.
Deliveries == [id : {1, 2}, sig : Incidents \cup {Unsigned}, keywords : BOOLEAN]

NoCase == 0
NoDeadline == -1
IsOpen(c) == cases[c].status = "open"
UpdatedWithin(c, window) == cases[c].updated > clock - window

\* Received before, within the window.
Duplicate(d) ==
    \E s \in DOMAIN sources :
        sources[s].id = d.id /\ sources[s].received > clock - IdempotencyWindow

\* Open Cases of the incident with recent activity.
Matching(sig) ==
    {c \in DOMAIN cases : cases[c].sig = sig /\ IsOpen(c) /\ UpdatedWithin(c, IncidentWindow)}

\* A new source of a Case counts as activity of the Case.  (Mutant: it does not.)
left_as_is(row) == row
touched(row) == [row EXCEPT !.updated = clock]

Candidates == {c \in DOMAIN cases : IsOpen(c) /\ UpdatedWithin(c, AssociationWindow)}

NewCase(sig) ==
    [sig |-> sig, status |-> "open", updated |-> clock, left |-> FALSE]

Observation(d, c, deadline) ==
    [id |-> d.id, sig |-> d.sig, case |-> c, received |-> clock, deadline |-> deadline,
     state |-> IF c = NoCase THEN "pending" ELSE "linked"]

\* A complete source goes to the oldest open Case of its incident or gets a Case.
create_or_find_complete(d) ==
    /\ d.sig # Unsigned
    /\ LET matches == Matching(d.sig)
           c       == IF matches = {} THEN Len(cases) + 1 ELSE Min(matches)
       IN  /\ cases' = IF matches = {} THEN Append(cases, NewCase(d.sig))
                       ELSE [cases EXCEPT ![c] = touched(@)]
           /\ sources' = Append(sources, Observation(d, c, NoDeadline))

\* An incomplete source stays pending.  It has a deadline only if there are
\* candidate Cases.  (Mutant: always.)
deadline_always(d) == clock + AssociationWindow
deadline(d) ==
    IF d.keywords /\ Candidates # {} THEN clock + AssociationWindow ELSE NoDeadline

create_or_find_incomplete(d) ==
    /\ d.sig = Unsigned
    /\ sources' = Append(sources, Observation(d, NoCase, deadline(d)))
    /\ UNCHANGED cases

create_or_find_case(d) ==
    /\ Len(sources) < MaxSources
    /\ ~Duplicate(d)
    /\ create_or_find_complete(d) \/ create_or_find_incomplete(d)
    /\ UNCHANGED clock

\* Past its deadline a pending source gets a Case of its own, its candidates
\* notwithstanding; NULL < now is not true.  Orchestrator.resolve_pending hands this
\* on; nothing in the daemon calls it on a schedule.
Overdue ==
    {s \in DOMAIN sources : sources[s].state = "pending"
                            /\ sources[s].deadline # NoDeadline /\ sources[s].deadline < clock}

resolve_pending_sources ==
    /\ Overdue # {}
    /\ LET rank(s) == Cardinality({x \in Overdue : x <= s})
           new     == [i \in 1..Cardinality(Overdue) |-> NewCase(Unsigned)]
       IN  /\ cases' = cases \o new
           /\ sources' = [s \in DOMAIN sources |->
                 IF s \in Overdue
                 THEN [sources[s] EXCEPT !.case = Len(cases) + rank(s), !.state = "orphaned"]
                 ELSE sources[s]]
    /\ UNCHANGED clock

-----------------------------------------------------------------------------

\* CaseStore: a transition among open states, an escalation, retry, close.
CaseMoves(c, status) ==
    /\ cases[c].status # "closed"
    /\ cases' = [cases EXCEPT ![c].status = status, ![c].updated = clock,
                              ![c].left = @ \/ status # "open"]
    /\ UNCHANGED <<clock, sources>>

Tick ==
    /\ clock < MaxClock
    /\ clock' = clock + 1
    /\ UNCHANGED <<cases, sources>>

IntakeInit == clock = 0 /\ cases = <<>> /\ sources = <<>>

IntakeNext ==
    \/ \E d \in Deliveries : create_or_find_case(d)
    \/ resolve_pending_sources
    \/ \E c \in DOMAIN cases, status \in {"open", "escalated", "closed"} : CaseMoves(c, status)
    \/ Tick

IntakeSpec == IntakeInit /\ [][IntakeNext]_intakeVars

-----------------------------------------------------------------------------
(* Correctness *)

\* Rows have the values their writers allow and refer to Cases that exist.
IntakeTypeOK ==
    /\ clock \in 0..MaxClock
    /\ \A c \in DOMAIN cases :
          cases[c] \in [sig : Incidents \cup {Unsigned}, status : {"open", "escalated", "closed"},
                        updated : 0..clock, left : BOOLEAN]
    /\ \A s \in DOMAIN sources :
          /\ sources[s].case \in 0..Len(cases)
          /\ sources[s].state = "pending" <=> sources[s].case = NoCase

\* An incident does not scatter: a source received within the window of an earlier
\* one of its incident never goes to a younger Case than the earlier one did, as
\* long as that Case has stayed open - however the older Cases of the incident
\* were escalated, re-opened or went stale meanwhile.
NeverToYoungerCase ==
    \A s \in DOMAIN sources, t \in DOMAIN sources :
        /\ s < t /\ sources[s].sig = sources[t].sig /\ sources[s].sig # Unsigned
        /\ sources[t].received - sources[s].received < IncidentWindow
        /\ ~cases[sources[s].case].left
        => sources[t].case <= sources[s].case

\* Promotion reaches only sources that came while another Case was there to be a
\* candidate, and gives each of them a Case of its own: no source of another
\* incident is ever put into it.
PromotedApart ==
    \A s \in DOMAIN sources : sources[s].state = "orphaned" =>
        /\ \E c \in 1..(sources[s].case - 1) : cases[c].sig # Unsigned
        /\ \A t \in DOMAIN sources \ {s} : sources[t].case # sources[s].case
=============================================================================
