----------------------------- MODULE DeskProofs -----------------------------
(***************************************************************************)
(* Proofs about the parts of the daemon that share no state (see Desk): for    *)
(* each part an inductive invariant, that every step of the part keeps it, and *)
(* what it promises.  At the end, that a behaviour of the whole is one of each *)
(* part.                                                                       *)
(***************************************************************************)
EXTENDS Desk, AgentsProofs, EvidenceProofs, WellFoundedInduction

(***************************************************************************)
(* The least and the greatest of some numbers.                              *)
(***************************************************************************)

\* Min of a set of naturals is its least element.
LEMMA MinOfNaturals ==
    ASSUME NEW S \in SUBSET Nat, S # {}
    PROVE  Min(S) \in S /\ \A y \in S : Min(S) <= y
  <1>1. \E n \in S : \A m \in S : n <= m
    <2>1. PICK R : R = OpToRel(<, Nat)
      OBVIOUS
    <2>2. IsWellFoundedOn(R, Nat)
      BY <2>1, NatLessThanWellFounded
    <2>3. \A x, y \in Nat : x < y => <<x, y>> \in R
      BY <2>1 DEF OpToRel
    <2>4. PICK n \in S : \A m \in S : ~(<<m, n>> \in R)
      BY <2>2, WFMin
    <2>5. \A m \in S : m \in Nat /\ n \in Nat /\ ~(m < n)
      BY <2>3, <2>4, Zenon
    <2>6. \A m \in S : n <= m
      BY <2>5
    <2> QED
      BY <2>6
  <1> QED
    BY <1>1 DEF Min

LEMMA MinOfTwo ==
    ASSUME NEW a \in Nat, NEW b \in Nat
    PROVE  Min({a, b}) \in {a, b} /\ Min({a, b}) <= a /\ Min({a, b}) <= b
  <1>1. {a, b} \in SUBSET Nat
    OBVIOUS
  <1> QED
    BY <1>1, MinOfNaturals

LEMMA MaxOfTwo ==
    ASSUME NEW a \in Nat, NEW b \in Nat
    PROVE  Max({a, b}) \in {a, b} /\ Max({a, b}) >= a /\ Max({a, b}) >= b
  <1>1. \E x \in {a, b} : \A y \in {a, b} : x >= y
    OBVIOUS
  <1> QED
    BY <1>1 DEF Max

-----------------------------------------------------------------------------

(***************************************************************************)
(* Intake: an incident does not scatter, a promoted source stands apart.    *)
(***************************************************************************)

CaseRow == [sig : Incidents \cup {Unsigned}, status : {"open", "escalated", "closed"},
            updated : Nat, left : BOOLEAN]
SourceRow == [id : {1, 2}, sig : Incidents \cup {Unsigned}, case : Nat, received : Nat,
              deadline : Int, state : {"pending", "linked", "orphaned"}]

\* A Case has been active by now; the first one came with a complete source.
CaseRows ==
    /\ clock \in 0..MaxClock
    /\ cases \in Seq(CaseRow)
    /\ \A c \in 1..Len(cases) : /\ cases[c].updated <= clock
                                /\ ~cases[c].left => IsOpen(c)
                                /\ c = 1 => cases[c].sig # Unsigned

\* A complete source is activity of a Case of its incident; an incomplete one waits, with a
\* deadline only where a Case is there, or has a Case of its own.
Placed(row) ==
    /\ row.received <= clock
    /\ row.state = "linked" <=> row.sig # Unsigned
    /\ row.state = "pending" => /\ row.case = NoCase
                                /\ row.deadline # NoDeadline => Len(cases) > 0
    /\ row.state = "linked" => /\ row.case \in 1..Len(cases)
                               /\ cases[row.case].sig = row.sig
                               /\ cases[row.case].updated >= row.received
    /\ row.state = "orphaned" => /\ row.case \in 2..Len(cases)
                                 /\ cases[row.case].sig = Unsigned
SourceRows ==
    /\ sources \in Seq(SourceRow)
    /\ \A s \in 1..Len(sources) : Placed(sources[s])

OwnCases ==
    \A s, t \in 1..Len(sources) :
        s # t /\ sources[s].state = "orphaned" /\ sources[t].state = "orphaned"
            => sources[s].case # sources[t].case

\* What NeverToYoungerCase says of two sources.
ToOlder(s, t) ==
    /\ s < t /\ sources[s].sig = sources[t].sig /\ sources[s].sig # Unsigned
    /\ sources[t].received - sources[s].received < IncidentWindow
    /\ ~cases[sources[s].case].left
    => sources[t].case <= sources[s].case
NoneYounger == \A s, t \in 1..Len(sources) : ToOlder(s, t)

IntakeInvariant == CaseRows /\ SourceRows /\ OwnCases /\ NoneYounger

LEMMA IntakeStart == IntakeInit => IntakeInvariant
  <1> SUFFICES ASSUME IntakeInit PROVE IntakeInvariant
    OBVIOUS
  <1>1. /\ cases = <<>> /\ sources = <<>> /\ clock = 0 /\ Len(<<>>) = 0
        /\ <<>> \in Seq(CaseRow) /\ <<>> \in Seq(SourceRow) /\ 1..0 = {} /\ 0 \in 0..MaxClock
    BY EmptySeq, IntakeAssumption DEF IntakeInit
  <1>2. CaseRows /\ SourceRows /\ OwnCases /\ NoneYounger
    BY <1>1 DEF CaseRows, SourceRows, OwnCases, NoneYounger
  <1> QED
    BY <1>2 DEF IntakeInvariant

LEMMA RowsOfIntake ==
    ASSUME IntakeInvariant
    PROVE  /\ Len(cases) \in Nat /\ DOMAIN cases = 1..Len(cases)
           /\ Len(sources) \in Nat /\ DOMAIN sources = 1..Len(sources)
           /\ \A c \in 1..Len(cases) : cases[c] \in CaseRow
           /\ \A s \in 1..Len(sources) : sources[s] \in SourceRow
           /\ clock \in Nat /\ clock <= MaxClock
  BY LenProperties, ElementOfSeq, IntakeAssumption DEF IntakeInvariant, CaseRows, SourceRows

\* What no step undoes: a Case keeps its signature, its activity and that it was left.
CasesGrow ==
    /\ Len(cases) <= Len(cases') /\ Len(cases') \in Nat
    /\ \A c \in 1..Len(cases) : /\ cases'[c].sig = cases[c].sig
                                /\ cases'[c].updated \in Nat
                                /\ cases'[c].updated >= cases[c].updated
                                /\ cases[c].left => cases'[c].left

LEMMA StillPlaced ==
    ASSUME IntakeInvariant, CasesGrow, clock' >= clock, clock' \in Nat,
           NEW row \in SourceRow, Placed(row)
    PROVE  Placed(row)'
  <1>1. row.received \in Nat /\ row.case \in Nat
    BY DEF SourceRow
  <1>2. row.received <= clock'
    BY <1>1, RowsOfIntake DEF Placed
  <1>3. \A c \in 1..Len(cases) : c \in 1..Len(cases') /\ cases[c].updated \in Nat
    BY RowsOfIntake DEF CasesGrow, CaseRow
  <1>4. row.state = "linked" => /\ row.case \in 1..Len(cases')
                                /\ cases'[row.case].sig = row.sig
                                /\ cases'[row.case].updated >= row.received
    <2> HAVE row.state = "linked"
    <2>1. /\ row.case \in 1..Len(cases) /\ cases[row.case].sig = row.sig
          /\ cases[row.case].updated >= row.received
      BY DEF Placed
    <2>2. /\ cases'[row.case].sig = cases[row.case].sig /\ cases'[row.case].updated \in Nat
          /\ cases'[row.case].updated >= cases[row.case].updated
      BY <2>1 DEF CasesGrow
    <2>3. row.case \in 1..Len(cases') /\ cases[row.case].updated \in Nat
      BY <1>3, <2>1
    <2> QED
      BY <1>1, <2>1, <2>2, <2>3
  <1>5. row.state = "orphaned" => /\ row.case \in 2..Len(cases')
                                  /\ cases'[row.case].sig = Unsigned
    <2>1. \A c \in 2..Len(cases) : c \in 1..Len(cases) /\ c \in 2..Len(cases')
      BY RowsOfIntake DEF CasesGrow
    <2> QED
      BY <2>1 DEF Placed, CasesGrow
  <1>6. Len(cases) > 0 => Len(cases') > 0
    BY RowsOfIntake DEF CasesGrow
  <1> QED
    BY <1>2, <1>4, <1>5, <1>6 DEF Placed

\* Two sources that keep their Cases are in the order they were in.
LEMMA StillOlder ==
    ASSUME IntakeInvariant, CasesGrow, NEW s \in 1..Len(sources), NEW t \in 1..Len(sources),
           sources'[s] = sources[s], sources'[t] = sources[t]
    PROVE  ToOlder(s, t)'
  <1>1. ToOlder(s, t)
    BY DEF IntakeInvariant, NoneYounger
  <1>2. sources[s].sig # Unsigned => sources[s].case \in 1..Len(cases)
    BY RowsOfIntake DEF IntakeInvariant, SourceRows, Placed
  <1>3. sources[s].sig # Unsigned /\ cases[sources[s].case].left => cases'[sources[s].case].left
    BY <1>2 DEF CasesGrow
  <1> QED
    BY <1>1, <1>3 DEF ToOlder

LEMMA CasesMove ==
    ASSUME IntakeInvariant, CaseRows', CasesGrow, clock' >= clock, sources' = sources
    PROVE  IntakeInvariant'
  <1>1. clock' \in Nat
    BY IntakeAssumption DEF CaseRows
  <1>2. SourceRows'
    BY <1>1, RowsOfIntake, StillPlaced DEF IntakeInvariant, SourceRows
  <1>3. OwnCases'
    BY DEF IntakeInvariant, OwnCases
  <1>4. NoneYounger'
    BY StillOlder DEF NoneYounger
  <1> QED
    BY <1>2, <1>3, <1>4 DEF IntakeInvariant

LEMMA SourceArrives ==
    ASSUME IntakeInvariant, CaseRows', CasesGrow, clock' = clock,
           NEW row \in SourceRow, sources' = Append(sources, row),
           Placed(row)', row.state # "orphaned", row.received = clock,
           \A s \in 1..Len(sources) :
               /\ sources[s].sig = row.sig /\ sources[s].sig # Unsigned
               /\ clock - sources[s].received < IncidentWindow
               /\ ~cases'[sources[s].case].left
               => row.case <= sources[s].case
    PROVE  IntakeInvariant'
  <1>1. /\ sources' \in Seq(SourceRow) /\ Len(sources') = Len(sources) + 1
        /\ \A s \in 1..Len(sources) : sources'[s] = sources[s]
        /\ sources'[Len(sources) + 1] = row /\ Len(sources) \in Nat
    BY AppendProperties, RowsOfIntake DEF IntakeInvariant, SourceRows
  <1>2. \A s \in 1..Len(sources') : s \in 1..Len(sources) \/ s = Len(sources) + 1
    BY <1>1
  <1>3. clock' >= clock /\ clock' \in Nat
    BY RowsOfIntake
  <1>4. \A s \in 1..Len(sources) : Placed(sources[s])'
    <2> SUFFICES ASSUME NEW s \in 1..Len(sources) PROVE Placed(sources[s])'
      OBVIOUS
    <2>1. PICK old \in SourceRow : old = sources[s] /\ Placed(old)
      BY RowsOfIntake DEF IntakeInvariant, SourceRows
    <2>2. Placed(old)'
      BY <1>3, <2>1, StillPlaced
    <2> QED
      BY <1>1, <2>1, <2>2 DEF Placed
  <1>5. SourceRows'
    BY <1>1, <1>2, <1>4 DEF SourceRows
  <1>6. OwnCases'
    BY <1>1, <1>2 DEF IntakeInvariant, OwnCases
  <1>7. ASSUME NEW s \in 1..Len(sources'), NEW t \in 1..Len(sources') PROVE ToOlder(s, t)'
    <2>1. CASE s \in 1..Len(sources) /\ t \in 1..Len(sources)
      BY <1>1, <2>1, StillOlder
    <2>2. CASE s \in 1..Len(sources) /\ t = Len(sources) + 1
      BY <1>1, <2>2 DEF ToOlder
    <2>3. CASE s = Len(sources) + 1
      BY <1>1, <1>2, <2>3 DEF ToOlder
    <2> QED
      BY <1>2, <2>1, <2>2, <2>3
  <1>8. NoneYounger'
    BY <1>7 DEF NoneYounger
  <1> QED
    BY <1>5, <1>6, <1>8 DEF IntakeInvariant

-----------------------------------------------------------------------------

LEMMA AppendedCase ==
    ASSUME IntakeInvariant, NEW row \in CaseRow, cases' = Append(cases, row), clock' = clock,
           row.updated <= clock, ~row.left => row.status = "open",
           Len(cases) = 0 => row.sig # Unsigned
    PROVE  CaseRows' /\ CasesGrow /\ Len(cases') = Len(cases) + 1 /\ cases'[Len(cases) + 1] = row
  <1>1. /\ cases' \in Seq(CaseRow) /\ Len(cases') = Len(cases) + 1 /\ Len(cases) \in Nat
        /\ \A c \in 1..Len(cases) : cases'[c] = cases[c]
        /\ cases'[Len(cases) + 1] = row
    BY AppendProperties, RowsOfIntake DEF IntakeInvariant, CaseRows
  <1>2. \A c \in 1..Len(cases') : c \in 1..Len(cases) \/ c = Len(cases) + 1
    BY <1>1
  <1>3. \A c \in 1..Len(cases') : /\ cases'[c].updated <= clock
                                  /\ ~cases'[c].left => cases'[c].status = "open"
                                  /\ c = 1 => cases'[c].sig # Unsigned
    BY <1>1, <1>2 DEF IntakeInvariant, CaseRows, IsOpen
  <1>4. CaseRows'
    BY <1>1, <1>3 DEF IntakeInvariant, CaseRows, IsOpen
  <1>5. CasesGrow
    <2>1. \A c \in 1..Len(cases) : cases[c].updated \in Nat /\ cases[c].updated >= cases[c].updated
      BY RowsOfIntake DEF CaseRow
    <2> QED
      BY <1>1, <2>1 DEF CasesGrow
  <1> QED
    BY <1>1, <1>4, <1>5

LEMMA ChangedCase ==
    ASSUME IntakeInvariant, NEW c \in 1..Len(cases), NEW row \in CaseRow,
           cases' = [cases EXCEPT ![c] = row], clock' = clock,
           row.updated = clock, row.sig = cases[c].sig, cases[c].left => row.left,
           ~row.left => row.status = "open"
    PROVE  CaseRows' /\ CasesGrow
  <1>1. /\ cases' \in Seq(CaseRow) /\ Len(cases') = Len(cases) /\ Len(cases) \in Nat
        /\ \A e \in 1..Len(cases) : cases'[e] = IF e = c THEN row ELSE cases[e]
    BY ExceptSeq, RowsOfIntake DEF IntakeInvariant, CaseRows
  <1>2. clock \in Nat /\ clock <= clock
    BY RowsOfIntake
  <1>3. \A e \in 1..Len(cases) : /\ cases'[e].updated <= clock
                                 /\ ~cases'[e].left => cases'[e].status = "open"
                                 /\ e = 1 => cases'[e].sig # Unsigned
    BY <1>1, <1>2 DEF IntakeInvariant, CaseRows, IsOpen
  <1>4. CaseRows'
    BY <1>1, <1>3 DEF IntakeInvariant, CaseRows, IsOpen
  <1>5. \A e \in 1..Len(cases) : cases[e].updated \in Nat /\ cases[e].updated <= clock
    BY RowsOfIntake DEF CaseRow, IntakeInvariant, CaseRows
  <1>6. CasesGrow
    BY <1>1, <1>2, <1>5 DEF CasesGrow
  <1> QED
    BY <1>4, <1>6

\* What a delivery of either kind leaves in the table of sources.
LEMMA ObservationIs ==
    ASSUME IntakeInvariant, NEW d \in Deliveries, NEW c \in Nat, NEW e \in Int
    PROVE  LET row == Observation(d, c, e)
           IN  /\ row \in SourceRow /\ row.sig = d.sig /\ row.case = c /\ row.received = clock
               /\ row.deadline = e
               /\ row.state = IF c = NoCase THEN "pending" ELSE "linked"
  BY RowsOfIntake DEF Observation, SourceRow, Deliveries

LEMMA NewCaseIs ==
    ASSUME IntakeInvariant, NEW sig \in Incidents \cup {Unsigned}
    PROVE  LET row == NewCase(sig)
           IN  /\ row \in CaseRow /\ row.sig = sig /\ row.updated = clock /\ clock <= clock
               /\ row.status = "open" /\ ~row.left
  BY RowsOfIntake DEF NewCase, CaseRow

LEMMA TouchedIs ==
    ASSUME IntakeInvariant, NEW row \in CaseRow
    PROVE  LET moved == touched(row)
           IN  /\ moved \in CaseRow /\ moved.updated = clock
               /\ moved.sig = row.sig /\ moved.status = row.status /\ moved.left = row.left
  <1>1. clock \in Nat /\ touched(row) = [row EXCEPT !.updated = clock]
    BY RowsOfIntake DEF touched
  <1> QED
    BY <1>1 DEF CaseRow

\* The open Case of an earlier source of the incident, within the window, is a match.
LEMMA EarlierMatches ==
    ASSUME IntakeInvariant, NEW s \in 1..Len(sources), sources[s].sig # Unsigned,
           clock - sources[s].received < IncidentWindow, ~cases[sources[s].case].left
    PROVE  sources[s].case \in Matching(sources[s].sig)
  <1>1. /\ sources[s].state = "linked" /\ sources[s].case \in 1..Len(cases)
        /\ cases[sources[s].case].sig = sources[s].sig
        /\ cases[sources[s].case].updated >= sources[s].received
    BY DEF IntakeInvariant, SourceRows, Placed
  <1>2. /\ sources[s].received \in Nat /\ cases[sources[s].case].updated \in Nat
        /\ clock \in Nat /\ IncidentWindow \in Nat
    BY <1>1, RowsOfIntake, IntakeAssumption DEF SourceRow, CaseRow
  <1>3. UpdatedWithin(sources[s].case, IncidentWindow)
    BY <1>1, <1>2 DEF UpdatedWithin
  <1>4. IsOpen(sources[s].case)
    BY <1>1 DEF IntakeInvariant, CaseRows
  <1> QED
    BY <1>1, <1>3, <1>4, RowsOfIntake DEF Matching

LEMMA CompleteKeeps ==
    ASSUME IntakeInvariant, NEW d \in Deliveries, create_or_find_complete(d), clock' = clock
    PROVE  IntakeInvariant'
  <1>1. d.sig \in Incidents /\ d.sig # Unsigned
    BY DEF create_or_find_complete, Deliveries
  <1>2. Matching(d.sig) \in SUBSET (1..Len(cases))
    BY RowsOfIntake DEF Matching
  <1>3. CASE Matching(d.sig) = {}
    <2> DEFINE c == Len(cases) + 1
    <2>1. /\ cases' = Append(cases, NewCase(d.sig))
          /\ sources' = Append(sources, Observation(d, c, NoDeadline))
      BY <1>3 DEF create_or_find_complete
    <2>2. c \in Nat /\ c # NoCase /\ NoDeadline \in Int
      BY RowsOfIntake DEF NoCase, NoDeadline
    <2>3. PICK row \in SourceRow :
              /\ row = Observation(d, c, NoDeadline) /\ row.sig = d.sig /\ row.case = c
              /\ row.received = clock /\ row.state = "linked"
      BY <2>2, ObservationIs
    <2>4. /\ CaseRows' /\ CasesGrow /\ Len(cases') = Len(cases) + 1 /\ cases'[c].sig = d.sig
          /\ cases'[c].updated = clock
      BY <1>1, <2>1, NewCaseIs, AppendedCase
    <2>5. c \in 1..Len(cases') /\ clock' <= clock' /\ clock \in Nat
      BY <2>2, <2>4, RowsOfIntake
    <2>6. Placed(row)'
      BY <1>1, <2>3, <2>4, <2>5 DEF Placed
    <2>7. ASSUME NEW s \in 1..Len(sources), sources[s].sig = row.sig, sources[s].sig # Unsigned,
                 clock - sources[s].received < IncidentWindow,
                 ~cases'[sources[s].case].left
          PROVE  row.case <= sources[s].case
      <3>1. sources[s].case \in 1..Len(cases)
        BY <2>7 DEF IntakeInvariant, SourceRows, Placed
      <3>2. ~cases[sources[s].case].left
        BY <2>4, <2>7, <3>1 DEF CasesGrow
      <3> QED
        BY <1>3, <2>3, <2>7, <3>2, EarlierMatches
    <2> QED
      BY <2>1, <2>3, <2>4, <2>6, <2>7, SourceArrives
  <1>4. CASE Matching(d.sig) # {}
    <2> DEFINE c == Min(Matching(d.sig))
    <2>1. /\ cases' = [cases EXCEPT ![c] = touched(cases[c])]
          /\ sources' = Append(sources, Observation(d, c, NoDeadline))
      BY <1>4 DEF create_or_find_complete
    <2>2. c \in Matching(d.sig) /\ \A e \in Matching(d.sig) : c <= e
      BY <1>2, <1>4, MinOfNaturals
    <2> HIDE DEF c
    <2>3. /\ c \in 1..Len(cases) /\ c \in Nat /\ c # NoCase /\ NoDeadline \in Int
          /\ cases[c].sig = d.sig /\ cases[c].status = "open" /\ cases[c] \in CaseRow
      BY <1>2, <2>2, RowsOfIntake DEF Matching, IsOpen, NoCase, NoDeadline
    <2>4. PICK row \in SourceRow :
              /\ row = Observation(d, c, NoDeadline) /\ row.sig = d.sig /\ row.case = c
              /\ row.received = clock /\ row.state = "linked"
      BY <2>3, ObservationIs
    <2>5. PICK moved \in CaseRow :
              /\ moved = touched(cases[c]) /\ moved.updated = clock /\ moved.sig = cases[c].sig
              /\ moved.status = "open" /\ moved.left = cases[c].left
      BY <2>3, TouchedIs
    <2>6. CaseRows' /\ CasesGrow
      BY <2>1, <2>3, <2>5, ChangedCase
    <2>7. /\ Len(cases') = Len(cases) /\ cases'[c] = moved
      BY <2>1, <2>3, <2>5, ExceptSeq DEF IntakeInvariant, CaseRows
    <2>8. Placed(row)'
      BY <1>1, <2>3, <2>4, <2>5, <2>7, RowsOfIntake DEF Placed
    <2>9. ASSUME NEW s \in 1..Len(sources), sources[s].sig = row.sig, sources[s].sig # Unsigned,
                 clock - sources[s].received < IncidentWindow,
                 ~cases'[sources[s].case].left
          PROVE  row.case <= sources[s].case
      <3>1. sources[s].case \in 1..Len(cases)
        BY <2>9 DEF IntakeInvariant, SourceRows, Placed
      <3>2. ~cases[sources[s].case].left
        BY <2>6, <2>9, <3>1 DEF CasesGrow
      <3> QED
        BY <2>2, <2>4, <2>9, <3>2, EarlierMatches
    <2> QED
      BY <2>1, <2>4, <2>6, <2>8, <2>9, SourceArrives
  <1> QED
    BY <1>3, <1>4

LEMMA IncompleteKeeps ==
    ASSUME IntakeInvariant, NEW d \in Deliveries, create_or_find_incomplete(d), clock' = clock
    PROVE  IntakeInvariant'
  <1>1. sources' = Append(sources, Observation(d, NoCase, deadline(d))) /\ cases' = cases /\ d.sig = Unsigned
    BY DEF create_or_find_incomplete
  <1>2. deadline(d) \in Int /\ NoCase \in Nat
    BY RowsOfIntake, IntakeAssumption DEF deadline, NoDeadline, NoCase
  <1>3. PICK row \in SourceRow :
            /\ row = Observation(d, NoCase, deadline(d)) /\ row.sig = Unsigned
            /\ row.case = NoCase /\ row.received = clock
            /\ row.deadline = deadline(d) /\ row.state = "pending"
    BY <1>1, <1>2, ObservationIs
  <1>4. deadline(d) # NoDeadline => Len(cases) > 0
    BY RowsOfIntake DEF deadline, Candidates
  <1>5. CaseRows'
    BY <1>1 DEF IntakeInvariant, CaseRows, IsOpen
  <1>6. CasesGrow
    BY <1>1, RowsOfIntake DEF CasesGrow, CaseRow
  <1>7. Placed(row)'
    BY <1>1, <1>3, <1>4, RowsOfIntake DEF Placed
  <1> QED
    BY <1>1, <1>3, <1>5, <1>6, <1>7, SourceArrives

-----------------------------------------------------------------------------
(* Promotion *)

\* The place of a source among the overdue ones: its own, and one of as many as there are.
Rank(s) == Cardinality({x \in Overdue : x <= s})

LEMMA RanksAreOwn ==
    ASSUME IntakeInvariant
    PROVE  /\ Cardinality(Overdue) \in Nat
           /\ \A s \in Overdue : Rank(s) \in 1..Cardinality(Overdue)
           /\ \A s, t \in Overdue : s # t => Rank(s) # Rank(t)
  <1>1. Overdue \in SUBSET (1..Len(sources)) /\ Len(sources) \in Nat
    BY RowsOfIntake DEF Overdue
  <1>2. IsFiniteSet(Overdue) /\ Cardinality(Overdue) \in Nat
    <2>1. IsFiniteSet(1..Len(sources))
      BY <1>1, FS_Interval
    <2>2. IsFiniteSet(Overdue)
      BY <1>1, <2>1, FS_Subset
    <2> QED
      BY <2>2, FS_CardinalityType
  <1>3. ASSUME NEW s \in Overdue PROVE Rank(s) \in 1..Cardinality(Overdue)
    <2> DEFINE upto == {x \in Overdue : x <= s}
    <2>1. upto \in SUBSET Overdue /\ s \in upto
      BY <1>1
    <2>2. /\ IsFiniteSet(upto) /\ Cardinality(upto) <= Cardinality(Overdue)
          /\ Cardinality(upto) \in Nat /\ Cardinality(upto) # 0
      BY <1>2, <2>1, FS_Subset, FS_CardinalityType, FS_EmptySet
    <2> QED
      BY <1>2, <2>2 DEF Rank
  <1>4. ASSUME NEW s \in Overdue, NEW t \in Overdue, s < t PROVE Rank(s) # Rank(t)
    <2> DEFINE below == {x \in Overdue : x <= s}
    <2> DEFINE upto == {x \in Overdue : x <= t}
    <2>1. below \in SUBSET upto /\ upto \in SUBSET Overdue
      <3>1. \A x \in Overdue : x \in Int
        BY <1>1
      <3>2. \A x \in Overdue : x <= s => x <= t
        BY <1>4, <3>1
      <3> QED
        BY <3>2
    <2>2. t \in upto /\ t \notin below
      BY <1>1, <1>4
    <2>3. IsFiniteSet(upto)
      BY <1>2, <2>1, FS_Subset
    <2>4. Cardinality(upto) # Cardinality(below)
      BY <2>1, <2>2, <2>3, FS_Subset
    <2> QED
      BY <2>4 DEF Rank
  <1>5. \A s, t \in Overdue : s # t => s < t \/ t < s
    BY <1>1
  <1> QED
    BY <1>2, <1>3, <1>4, <1>5

LEMMA PromotedCases ==
    ASSUME IntakeInvariant, NEW n \in Nat, n > 0 => Len(cases) > 0,
           cases' = cases \o [i \in 1..n |-> NewCase(Unsigned)], clock' = clock
    PROVE  /\ CaseRows' /\ CasesGrow /\ Len(cases') = Len(cases) + n
           /\ \A c \in (Len(cases) + 1)..(Len(cases) + n) : cases'[c].sig = Unsigned
  <1>1. PICK row \in CaseRow : /\ row = NewCase(Unsigned) /\ row.sig = Unsigned
                               /\ row.updated = clock /\ row.status = "open" /\ ~row.left
    BY NewCaseIs
  <1>2. PICK new \in Seq(CaseRow) : /\ new = [i \in 1..n |-> row] /\ Len(new) = n
                                    /\ \A i \in 1..n : new[i] = row
    <2>1. [i \in 1..n |-> row] \in [1..n -> CaseRow]
      OBVIOUS
    <2>2. [i \in 1..n |-> row] \in Seq(CaseRow)
      BY <2>1, SeqDef
    <2>3. Len([i \in 1..n |-> row]) = n
      BY <2>2
    <2> QED
      BY <2>2, <2>3
  <1>3. cases' = cases \o new
    BY <1>1, <1>2
  <1>4. /\ cases' \in Seq(CaseRow) /\ Len(cases') = Len(cases) + n /\ Len(cases) \in Nat
        /\ \A c \in 1..(Len(cases) + n) :
               cases'[c] = IF c <= Len(cases) THEN cases[c] ELSE new[c - Len(cases)]
    BY <1>2, <1>3, ConcatProperties, RowsOfIntake DEF IntakeInvariant, CaseRows
  <1>5. \A c \in 1..Len(cases) : c \in 1..(Len(cases) + n) /\ cases'[c] = cases[c]
    BY <1>4
  <1>6. \A c \in (Len(cases) + 1)..(Len(cases) + n) : /\ c \in 1..(Len(cases) + n)
                                                     /\ ~(c <= Len(cases))
                                                     /\ c - Len(cases) \in 1..n
    BY <1>4
  <1>7. \A c \in (Len(cases) + 1)..(Len(cases) + n) : cases'[c] = row /\ (c = 1 => n > 0 /\ Len(cases) = 0)
    BY <1>2, <1>4, <1>6
  <1>8. \A c \in 1..(Len(cases) + n) :
            c \in 1..Len(cases) \/ c \in (Len(cases) + 1)..(Len(cases) + n)
    BY <1>4
  <1>9. \A c \in 1..Len(cases') : /\ cases'[c].updated <= clock
                                  /\ ~cases'[c].left => cases'[c].status = "open"
                                  /\ c = 1 => cases'[c].sig # Unsigned
    <2> SUFFICES ASSUME NEW c \in 1..(Len(cases) + n)
                 PROVE  /\ cases'[c].updated <= clock
                        /\ ~cases'[c].left => cases'[c].status = "open"
                        /\ c = 1 => cases'[c].sig # Unsigned
      BY <1>4
    <2>1. CASE c \in 1..Len(cases)
      BY <1>5, <2>1 DEF IntakeInvariant, CaseRows, IsOpen
    <2>2. CASE c \in (Len(cases) + 1)..(Len(cases) + n)
      BY <1>1, <1>7, <2>2, RowsOfIntake
    <2> QED
      BY <1>8, <2>1, <2>2
  <1>10. CaseRows'
    BY <1>4, <1>9 DEF IntakeInvariant, CaseRows, IsOpen
  <1>11. CasesGrow
    <2>1. \A c \in 1..Len(cases) : cases[c].updated \in Nat /\ cases[c].updated >= cases[c].updated
      BY RowsOfIntake DEF CaseRow
    <2> QED
      BY <1>4, <1>5, <2>1 DEF CasesGrow
  <1> QED
    BY <1>1, <1>4, <1>7, <1>10, <1>11

LEMMA ResolveKeeps ==
    ASSUME IntakeInvariant, resolve_pending_sources
    PROVE  IntakeInvariant'
  <1> DEFINE n == Cardinality(Overdue)
  <1>1. /\ cases' = cases \o [i \in 1..n |-> NewCase(Unsigned)] /\ clock' = clock
        /\ sources' = [s \in DOMAIN sources |->
               IF s \in Overdue
               THEN [sources[s] EXCEPT !.case = Len(cases) + Rank(s), !.state = "orphaned"]
               ELSE sources[s]]
    BY DEF resolve_pending_sources, Rank
  <1>2. /\ n \in Nat /\ \A s \in Overdue : Rank(s) \in 1..n
        /\ \A s, t \in Overdue : s # t => Rank(s) # Rank(t)
    BY RanksAreOwn
  <1>3. \A s \in Overdue : /\ s \in 1..Len(sources) /\ sources[s].state = "pending"
                           /\ sources[s].sig = Unsigned /\ Len(cases) > 0
    BY RowsOfIntake DEF Overdue, IntakeInvariant, SourceRows, Placed, SourceRow
  <1>4. PICK someone : someone \in Overdue
    BY DEF resolve_pending_sources
  <1>5. Len(cases) > 0 /\ Len(cases) \in Nat
    BY <1>3, <1>4, RowsOfIntake
  <1> HIDE DEF n
  <1>6. /\ CaseRows' /\ CasesGrow /\ Len(cases') = Len(cases) + n
        /\ \A c \in (Len(cases) + 1)..(Len(cases) + n) : cases'[c].sig = Unsigned
    BY <1>1, <1>2, <1>5, PromotedCases
  <1>7. ASSUME NEW s \in Overdue
        PROVE  /\ sources'[s] \in SourceRow /\ sources'[s].case = Len(cases) + Rank(s)
               /\ sources'[s].sig = Unsigned /\ sources'[s].state = "orphaned"
               /\ sources'[s].received = sources[s].received
    <2>1. sources[s] \in SourceRow /\ s \in DOMAIN sources /\ Len(cases) + Rank(s) \in Nat
      BY <1>2, <1>3, <1>5, RowsOfIntake
    <2>2. PICK row \in SourceRow :
              row = [sources[s] EXCEPT !.case = Len(cases) + Rank(s), !.state = "orphaned"]
      BY <2>1 DEF SourceRow
    <2>3. /\ row.case = Len(cases) + Rank(s) /\ row.state = "orphaned"
          /\ row.sig = sources[s].sig /\ row.received = sources[s].received
      BY <2>1, <2>2 DEF SourceRow
    <2>4. sources'[s] = row
      BY <1>1, <2>1, <2>2
    <2> QED
      BY <1>3, <2>3, <2>4
  <1>8. \A s \in (1..Len(sources)) \ Overdue : sources'[s] = sources[s] /\ sources'[s] \in SourceRow
    BY <1>1, RowsOfIntake
  <1>9. sources' \in Seq(SourceRow) /\ Len(sources') = Len(sources) /\ Len(sources) \in Nat
    <2>1. sources' \in [1..Len(sources) -> SourceRow] /\ Len(sources) \in Nat
      BY <1>1, <1>7, <1>8, RowsOfIntake
    <2>2. sources' \in Seq(SourceRow)
      BY <2>1, SeqDef
    <2>3. DOMAIN sources' = 1..Len(sources') /\ Len(sources') \in Nat
      BY <2>2, LenProperties
    <2> QED
      BY <2>1, <2>2, <2>3
  <1>10. clock' \in Nat /\ clock' >= clock
    <2>1. clock \in Nat /\ clock' = clock
      BY <1>1, RowsOfIntake
    <2> QED
      BY <2>1
  <1>11. ASSUME NEW s \in 1..Len(sources) PROVE Placed(sources[s])'
    <2>1. CASE s \in Overdue
      <3>1. sources[s].received <= clock
        BY DEF IntakeInvariant, SourceRows, Placed
      <3>2. Len(cases) + Rank(s) \in 2..Len(cases') /\ cases'[Len(cases) + Rank(s)].sig = Unsigned
        <4>1. Rank(s) \in 1..n
          BY <1>2, <2>1
        <4>2. /\ Len(cases) + Rank(s) \in (Len(cases) + 1)..(Len(cases) + n)
              /\ Len(cases) + Rank(s) \in 2..(Len(cases) + n)
          BY <1>2, <1>5, <4>1
        <4> QED
          BY <1>6, <4>2
      <3>3. /\ sources'[s].case = Len(cases) + Rank(s) /\ sources'[s].state = "orphaned"
            /\ sources'[s].sig = Unsigned /\ sources'[s].received = sources[s].received
        BY <1>7, <2>1
      <3> QED
        BY <1>1, <3>1, <3>2, <3>3 DEF Placed
    <2>2. CASE s \notin Overdue
      <3>1. PICK old \in SourceRow : old = sources[s] /\ Placed(old)
        BY RowsOfIntake DEF IntakeInvariant, SourceRows
      <3>2. Placed(old)'
        BY <1>1, <1>6, <1>10, <3>1, StillPlaced
      <3> QED
        BY <1>8, <2>2, <3>1, <3>2 DEF Placed
    <2> QED
      BY <2>1, <2>2
  <1>12. SourceRows'
    BY <1>9, <1>11 DEF SourceRows
  <1>13. OwnCases'
    <2> SUFFICES ASSUME NEW s \in 1..Len(sources), NEW t \in 1..Len(sources), s # t,
                        sources'[s].state = "orphaned", sources'[t].state = "orphaned"
                 PROVE  sources'[s].case # sources'[t].case
      BY <1>9 DEF OwnCases
    <2>1. \A x \in Overdue : /\ sources'[x].case = Len(cases) + Rank(x) /\ Rank(x) \in Nat \ {0}
      BY <1>2, <1>7
    <2>2. \A x \in (1..Len(sources)) \ Overdue :
              sources'[x].state = "orphaned" => /\ sources'[x].case = sources[x].case
                                                /\ sources[x].state = "orphaned"
                                                /\ sources[x].case \in Nat
                                                /\ sources[x].case <= Len(cases)
      BY <1>5, <1>8 DEF IntakeInvariant, SourceRows, Placed
    <2>3. CASE s \in Overdue /\ t \in Overdue
      <3>1. Rank(s) # Rank(t)
        BY <1>2, <2>3
      <3> QED
        BY <1>5, <2>1, <2>3, <3>1
    <2>4. CASE s \in Overdue /\ t \notin Overdue
      BY <1>5, <2>1, <2>2, <2>4
    <2>5. CASE s \notin Overdue /\ t \in Overdue
      BY <1>5, <2>1, <2>2, <2>5
    <2>6. CASE s \notin Overdue /\ t \notin Overdue
      BY <2>2, <2>6 DEF IntakeInvariant, OwnCases
    <2> QED
      BY <2>3, <2>4, <2>5, <2>6
  <1>14. ASSUME NEW s \in 1..Len(sources), NEW t \in 1..Len(sources) PROVE ToOlder(s, t)'
    <2>1. CASE s \in Overdue \/ t \in Overdue
      BY <1>7, <2>1 DEF ToOlder
    <2>2. CASE s \notin Overdue /\ t \notin Overdue
      BY <1>6, <1>8, <2>2, StillOlder
    <2> QED
      BY <2>1, <2>2
  <1>15. NoneYounger'
    BY <1>9, <1>14 DEF NoneYounger
  <1> QED
    BY <1>6, <1>12, <1>13, <1>15 DEF IntakeInvariant

-----------------------------------------------------------------------------

LEMMA CaseMovesKeeps ==
    ASSUME IntakeInvariant, NEW c \in DOMAIN cases, NEW s \in {"open", "escalated", "closed"},
           CaseMoves(c, s)
    PROVE  IntakeInvariant'
  <1>1. c \in 1..Len(cases) /\ cases[c] \in CaseRow /\ clock \in Nat
    BY RowsOfIntake
  <1>2. /\ cases' = [cases EXCEPT ![c] = [cases[c] EXCEPT !.status = s, !.updated = clock,
                                                          !.left = cases[c].left \/ s # "open"]]
        /\ clock' = clock /\ sources' = sources
    BY <1>1 DEF CaseMoves
  <1>3. cases[c].left \in BOOLEAN /\ (cases[c].left \/ s # "open") \in BOOLEAN
    BY <1>1 DEF CaseRow
  <1>4. PICK row \in CaseRow :
            row = [cases[c] EXCEPT !.status = s, !.updated = clock,
                                   !.left = cases[c].left \/ s # "open"]
    BY <1>1, <1>3 DEF CaseRow
  <1>5. /\ row.status = s /\ row.updated = clock /\ row.sig = cases[c].sig
        /\ row.left = (cases[c].left \/ s # "open")
    BY <1>1, <1>4 DEF CaseRow
  <1>6. CaseRows' /\ CasesGrow
    BY <1>1, <1>2, <1>4, <1>5, ChangedCase
  <1>7. clock' >= clock
    BY <1>1, <1>2
  <1> QED
    BY <1>2, <1>6, <1>7, CasesMove

LEMMA TickKeeps ==
    ASSUME IntakeInvariant, Tick
    PROVE  IntakeInvariant'
  <1>1. clock' = clock + 1 /\ clock < MaxClock /\ cases' = cases /\ sources' = sources
    BY DEF Tick
  <1>2. /\ clock \in Nat /\ MaxClock \in Nat /\ clock' >= clock
        /\ clock' \in 0..MaxClock
    BY <1>1, RowsOfIntake, IntakeAssumption
  <1>3. \A c \in 1..Len(cases) : cases[c].updated \in Nat /\ cases[c].updated <= clock'
    BY <1>1, <1>2, RowsOfIntake DEF CaseRow, IntakeInvariant, CaseRows
  <1>4. CaseRows'
    BY <1>1, <1>2, <1>3 DEF IntakeInvariant, CaseRows, IsOpen
  <1>5. CasesGrow
    BY <1>1, <1>3, RowsOfIntake DEF CasesGrow
  <1> QED
    BY <1>1, <1>2, <1>4, <1>5, CasesMove

LEMMA IntakeKeeps == IntakeInvariant /\ [IntakeNext]_intakeVars => IntakeInvariant'
  <1> SUFFICES ASSUME IntakeInvariant, [IntakeNext]_intakeVars PROVE IntakeInvariant'
    OBVIOUS
  <1>1. CASE UNCHANGED intakeVars
    BY <1>1 DEF intakeVars, IntakeInvariant, CaseRows, SourceRows, Placed, OwnCases, NoneYounger,
                ToOlder, IsOpen
  <1>2. CASE \E d \in Deliveries : create_or_find_case(d)
    BY <1>2, CompleteKeeps, IncompleteKeeps DEF create_or_find_case
  <1>3. CASE resolve_pending_sources
    BY <1>3, ResolveKeeps
  <1>4. CASE \E c \in DOMAIN cases, s \in {"open", "escalated", "closed"} : CaseMoves(c, s)
    BY <1>4, CaseMovesKeeps
  <1>5. CASE Tick
    BY <1>5, TickKeeps
  <1> QED
    BY <1>1, <1>2, <1>3, <1>4, <1>5 DEF IntakeNext

LEMMA SourcesPlaced == IntakeInvariant => NeverToYoungerCase /\ PromotedApart
  <1> SUFFICES ASSUME IntakeInvariant PROVE NeverToYoungerCase /\ PromotedApart
    OBVIOUS
  <1>1. NeverToYoungerCase
    BY RowsOfIntake DEF IntakeInvariant, NoneYounger, ToOlder, NeverToYoungerCase
  <1>2. ASSUME NEW s \in 1..Len(sources), sources[s].state = "orphaned"
        PROVE  /\ \E c \in 1..(sources[s].case - 1) : cases[c].sig # Unsigned
               /\ \A t \in (1..Len(sources)) \ {s} : sources[t].case # sources[s].case
    <2>1. /\ sources[s].case \in 2..Len(cases) /\ Len(cases) \in Nat
          /\ cases[sources[s].case].sig = Unsigned
      BY <1>2, RowsOfIntake DEF IntakeInvariant, SourceRows, Placed
    <2>2. 1 \in 1..(sources[s].case - 1) /\ cases[1].sig # Unsigned
      BY <2>1 DEF IntakeInvariant, CaseRows
    <2>3. ASSUME NEW t \in (1..Len(sources)) \ {s} PROVE sources[t].case # sources[s].case
      <3>1. Placed(sources[t]) /\ sources[t] \in SourceRow
        BY RowsOfIntake DEF IntakeInvariant, SourceRows
      <3>2. CASE sources[t].state = "pending"
        BY <2>1, <3>1, <3>2 DEF Placed, NoCase
      <3>3. CASE sources[t].state = "linked"
        BY <2>1, <3>1, <3>3 DEF Placed
      <3>4. CASE sources[t].state = "orphaned"
        BY <1>2, <3>4 DEF IntakeInvariant, OwnCases
      <3> QED
        BY <3>1, <3>2, <3>3, <3>4 DEF SourceRow
    <2> QED
      BY <2>2, <2>3
  <1>3. PromotedApart
    BY <1>2, RowsOfIntake DEF PromotedApart
  <1> QED
    BY <1>1, <1>3

\* An incident does not scatter: within the window of an earlier source of the incident, a
\* source goes to the same Case or an older one (create_or_find_case).
THEOREM SourcesGoToOlderCases == IntakeSpec => []NeverToYoungerCase
  <1> QED
    BY IntakeStart, IntakeKeeps, SourcesPlaced, PTL DEF IntakeSpec

\* An overdue source gets a Case that no other source has, and never the first one
\* (resolve_pending_sources).
THEOREM PromotedSourcesStandApart == IntakeSpec => []PromotedApart
  <1> QED
    BY IntakeStart, IntakeKeeps, SourcesPlaced, PTL DEF IntakeSpec

-----------------------------------------------------------------------------

(***************************************************************************)
(* EventStream: what a dashboard shows is not older than what was announced. *)
(***************************************************************************)

StreamRows ==
    /\ kept \in [Sessions -> Nat] /\ sincePrune \in 0..(PruneEvery - 1)
    /\ version \in 0..MaxWrites /\ announced \in 0..version
    /\ publisher \in [Publishers -> Broadcasts \cup {NoMessage}]
    /\ phase \in [Dashboards -> {"away", "subscribed", "streaming"}]
    /\ queue \in [Dashboards -> Seq(Nat)] /\ view \in [Dashboards -> Nat]
    /\ slipped \in SUBSET Dashboards
    /\ \A d \in Dashboards : /\ Len(queue[d]) <= QueueSize /\ view[d] <= version
                             /\ \A i \in 1..Len(queue[d]) : queue[d][i] <= version

\* A delivery carries a state that was read, and is at a queue it has not done yet.
SoundDelivery(delivery) ==
    /\ delivery \in Broadcasts /\ delivery.state <= version
    /\ delivery.step \in {"room", "again"} => delivery.to \in delivery.left
DeliveriesOK == \A h \in Publishers : publisher[h] # NoMessage => SoundDelivery(publisher[h])

\* The last state of a queue, which only messages of other kinds follow.
LastStateAt(q, n) ==
    /\ n \in 1..Len(q) /\ q[n] # News
    /\ \A m \in 1..Len(q) : m > n => q[m] = News
OnlyNews(q) == \A m \in 1..Len(q) : q[m] = News

\* What a dashboard will show of what it has: the newest announced state or a newer one.
Caught(d) ==
    \/ \E n \in Nat : LastStateAt(queue[d], n) /\ queue[d][n] >= announced
    \/ OnlyNews(queue[d]) /\ (phase[d] = "streaming" => view[d] >= announced)
ScreensCurrent == \A d \in Subscribers : Serving(d) \/ d \in slipped \/ Caught(d)

StreamInvariant == StreamRows /\ DeliveriesOK /\ ScreensCurrent

LEMMA StreamStart == StreamInit => StreamInvariant
  <1> SUFFICES ASSUME StreamInit PROVE StreamInvariant
    OBVIOUS
  <1>1. 0 \in 0..(PruneEvery - 1) /\ 0 \in 0..MaxWrites /\ 0 \in 0..0 /\ 0 <= QueueSize
    BY StreamAssumption
  <1>2. <<>> \in Seq(Nat) /\ Len(<<>>) = 0
    BY EmptySeq
  <1>3. \A d \in Dashboards : queue[d] = <<>> /\ view[d] = 0 /\ phase[d] = "away"
    BY DEF StreamInit
  <1>4. StreamRows
    BY <1>1, <1>2, <1>3 DEF StreamInit, StreamRows
  <1>5. DeliveriesOK
    BY DEF StreamInit, DeliveriesOK
  <1>6. ScreensCurrent
    BY <1>3 DEF ScreensCurrent, Subscribers
  <1> QED
    BY <1>4, <1>5, <1>6 DEF StreamInvariant

LEMMA QueueRanges ==
    ASSUME StreamInvariant, NEW d \in Dashboards
    PROVE  /\ queue[d] \in Seq(Nat) /\ Len(queue[d]) \in Nat
           /\ \A i \in 1..Len(queue[d]) : queue[d][i] \in Nat
           /\ queue[d] # <<>> => Len(queue[d]) \in Nat \ {0}
           /\ version \in Nat /\ announced \in Nat /\ announced <= version
  BY LenProperties, ElementOfSeq, EmptySeq, StreamAssumption DEF StreamInvariant, StreamRows

LEMMA EmptyIsNews == OnlyNews(<<>>)
  BY EmptySeq DEF OnlyNews

\* What a queue that loses its oldest message has of what it had.
LEMMA TailOfQueue ==
    ASSUME NEW q \in Seq(Nat), q # <<>>
    PROVE  /\ OnlyNews(q) => OnlyNews(Tail(q))
           /\ LastStateAt(q, 1) => OnlyNews(Tail(q))
           /\ \A n \in Nat : LastStateAt(q, n) /\ n # 1 =>
                 /\ n - 1 \in Nat /\ LastStateAt(Tail(q), n - 1)
                 /\ Tail(q)[n - 1] = q[n]
  <1>1. /\ Len(q) \in Nat \ {0} /\ Len(Tail(q)) = Len(q) - 1
        /\ \A m \in 1..Len(Tail(q)) : Tail(q)[m] = q[m + 1]
    BY HeadTailProperties, EmptySeq, LenProperties
  <1>2. PICK l \in Nat : Len(q) = l + 1 /\ Len(Tail(q)) = l
    <2>1. Len(q) - 1 \in Nat /\ (Len(q) - 1) + 1 = Len(q)
      BY <1>1
    <2> QED
      BY <1>1, <2>1
  <1>3. \A m \in 1..l : m + 1 \in 1..(l + 1) /\ m + 1 > 1 /\ Tail(q)[m] = q[m + 1]
    BY <1>1, <1>2
  <1>4. ASSUME NEW n \in Nat, LastStateAt(q, n), n # 1
        PROVE  /\ n - 1 \in Nat /\ LastStateAt(Tail(q), n - 1)
               /\ Tail(q)[n - 1] = q[n]
    <2>1. n \in 1..(l + 1) /\ q[n] # News /\ \A m \in 1..(l + 1) : m > n => q[m] = News
      BY <1>2, <1>4 DEF LastStateAt
    <2>2. n - 1 \in 1..l /\ n - 1 \in Nat /\ (n - 1) + 1 = n
      BY <1>4, <2>1
    <2>3. \A m \in 1..l : m > n - 1 => m + 1 > n
      BY <2>1
    <2>4. \A m \in 1..l : m > n - 1 => Tail(q)[m] = News
      BY <1>3, <2>1, <2>3
    <2>5. Tail(q)[n - 1] = q[n]
      BY <1>3, <2>2
    <2> QED
      BY <1>2, <2>1, <2>2, <2>4, <2>5 DEF LastStateAt
  <1>5. OnlyNews(q) => OnlyNews(Tail(q))
    BY <1>2, <1>3 DEF OnlyNews
  <1>6. LastStateAt(q, 1) => OnlyNews(Tail(q))
    BY <1>2, <1>3 DEF OnlyNews, LastStateAt
  <1> QED
    BY <1>4, <1>5, <1>6

HasOneMore(more, q, message) ==
    /\ more \in Seq(Nat) /\ Len(more) = Len(q) + 1 /\ more[Len(q) + 1] = message
    /\ \A i \in 1..Len(q) : more[i] = q[i]
    /\ message # News => LastStateAt(more, Len(q) + 1)
    /\ message = News /\ OnlyNews(q) => OnlyNews(more)
    /\ \A n \in Nat : message = News /\ LastStateAt(q, n) =>
          LastStateAt(more, n) /\ more[n] = q[n]

\* What a queue that takes a message has.
LEMMA QueueWithOneMore ==
    ASSUME NEW q \in Seq(Nat), NEW message \in Nat, NEW more, more = Append(q, message)
    PROVE  HasOneMore(more, q, message)
  <1>1. PICK l \in Nat : l = Len(q)
    BY LenProperties
  <1>2. /\ more \in Seq(Nat) /\ Len(more) = l + 1 /\ more[l + 1] = message
        /\ \A i \in 1..l : more[i] = q[i]
    BY <1>1, AppendProperties
  <1>3. \A m \in 1..(l + 1) : m \in 1..l \/ m = l + 1
    BY <1>1
  <1>4. message # News => LastStateAt(more, l + 1)
    <2>1. l + 1 \in 1..(l + 1) /\ \A m \in 1..(l + 1) : ~(m > l + 1)
      OBVIOUS
    <2> QED
      BY <1>2, <2>1 DEF LastStateAt
  <1>5. message = News /\ OnlyNews(q) => OnlyNews(more)
    BY <1>1, <1>2, <1>3 DEF OnlyNews
  <1>6. ASSUME NEW n \in Nat, message = News, LastStateAt(q, n)
        PROVE  LastStateAt(more, n) /\ more[n] = q[n]
    <2>1. n \in 1..l /\ n \in 1..(l + 1) /\ q[n] # News /\ \A m \in 1..l : m > n => q[m] = News
      BY <1>1, <1>6 DEF LastStateAt
    <2> QED
      BY <1>2, <1>3, <1>6, <2>1 DEF LastStateAt
  <1> QED
    BY <1>1, <1>2, <1>4, <1>5, <1>6 DEF HasOneMore

-----------------------------------------------------------------------------
(* Deliveries *)

\* A delivery goes on to the queues that are left, or is over.
LEMMA RemainingIs ==
    ASSUME NEW delivery \in Broadcasts
    PROVE  \/ delivery.left = {} /\ Remaining(delivery) = NoMessage
           \/ /\ delivery.left # {} /\ Remaining(delivery) \in Broadcasts
              /\ Remaining(delivery).left = delivery.left
              /\ Remaining(delivery).state = delivery.state /\ Remaining(delivery).step = "put"
  <1>1. CASE delivery.left = {}
    BY <1>1 DEF Remaining
  <1>2. CASE delivery.left # {}
    <2>1. PICK rest \in Broadcasts : rest = [delivery EXCEPT !.step = "put", !.to = NoMessage]
      BY DEF Broadcasts
    <2>2. rest.left = delivery.left /\ rest.state = delivery.state /\ rest.step = "put"
      BY <2>1 DEF Broadcasts
    <2> QED
      BY <1>2, <2>1, <2>2 DEF Remaining
  <1> QED
    BY <1>1, <1>2

LEMMA WithoutIs ==
    ASSUME NEW delivery \in Broadcasts, NEW d
    PROVE  LET rest == Without(delivery, d)
           IN  \/ rest = NoMessage /\ delivery.left \ {d} = {}
               \/ /\ rest \in Broadcasts /\ rest.left = delivery.left \ {d}
                  /\ rest.state = delivery.state /\ rest.step = "put"
  <1>1. PICK rest \in Broadcasts : rest = [delivery EXCEPT !.left = @ \ {d}]
    BY DEF Broadcasts
  <1>2. rest.left = delivery.left \ {d} /\ rest.state = delivery.state
    BY <1>1 DEF Broadcasts
  <1>3. Without(delivery, d) = Remaining(rest)
    BY <1>1 DEF Without
  <1> QED
    BY <1>2, <1>3, RemainingIs

\* Where a handler's delivery goes on, whom it served is served.
LEMMA ServingStays ==
    ASSUME StreamInvariant, NEW h \in Publishers, NEW d \in Dashboards,
           NEW delivery \in Broadcasts \cup {NoMessage},
           publisher' = [publisher EXCEPT ![h] = delivery],
           publisher[h] # NoMessage /\ publisher[h].state # News /\ d \in publisher[h].left =>
               delivery # NoMessage /\ delivery.state # News /\ d \in delivery.left
    PROVE  Serving(d) => Serving(d)'
  <1>1. publisher'[h] = delivery /\ \A g \in Publishers \ {h} : publisher'[g] = publisher[g]
    BY DEF StreamInvariant, StreamRows
  <1> QED
    BY <1>1 DEF Serving

LEMMA DeliveriesGoOn ==
    ASSUME StreamInvariant, NEW h \in Publishers, NEW delivery \in Broadcasts \cup {NoMessage},
           publisher' = [publisher EXCEPT ![h] = delivery],
           delivery # NoMessage => SoundDelivery(delivery),
           version' = version
    PROVE  /\ publisher' \in [Publishers -> Broadcasts \cup {NoMessage}]
           /\ DeliveriesOK'
  <1>1. /\ publisher' \in [Publishers -> Broadcasts \cup {NoMessage}]
        /\ publisher'[h] = delivery /\ \A g \in Publishers \ {h} : publisher'[g] = publisher[g]
    BY DEF StreamInvariant, StreamRows
  <1> QED
    BY <1>1 DEF StreamInvariant, DeliveriesOK, SoundDelivery

\* A step of a delivery that gives dashboard d a state, or not, and leaves the others.
LEMMA DeliveryMoves ==
    ASSUME StreamInvariant, NEW h \in Publishers, publisher[h] # NoMessage,
           NEW delivery \in Broadcasts \cup {NoMessage},
           publisher' = [publisher EXCEPT ![h] = delivery],
           delivery # NoMessage => SoundDelivery(delivery) /\ delivery.state = publisher[h].state,
           NEW d \in Dashboards,
           \A e \in Dashboards \ {d} : queue'[e] = queue[e],
           queue' \in [Dashboards -> Seq(Nat)], Len(queue'[d]) <= QueueSize,
           \A i \in 1..Len(queue'[d]) : queue'[d][i] <= version,
           slipped' \in SUBSET Dashboards,
           \A e \in Dashboards \ {d} : e \in slipped => e \in slipped',
           \A e \in publisher[h].left \ {d} :
               \/ publisher[h].state = News \/ e \in slipped'
               \/ (delivery # NoMessage /\ e \in delivery.left),
           d \in Subscribers => Serving(d)' \/ d \in slipped' \/ Caught(d)',
           UNCHANGED <<journal, version, restarts, announced, phase, view>>
    PROVE  StreamInvariant'
  <1>1. UNCHANGED <<kept, sincePrune, version, announced, phase, view>>
    BY DEF journal
  <1>2. publisher' \in [Publishers -> Broadcasts \cup {NoMessage}] /\ DeliveriesOK'
    BY <1>1, DeliveriesGoOn
  <1>3. StreamRows'
    <2>1. \A e \in Dashboards : /\ Len(queue'[e]) <= QueueSize /\ view'[e] <= version
                                /\ \A i \in 1..Len(queue'[e]) : queue'[e][i] <= version
      BY <1>1 DEF StreamInvariant, StreamRows
    <2> QED
      BY <1>1, <1>2, <2>1 DEF StreamInvariant, StreamRows
  <1>4. ASSUME NEW e \in Subscribers', e # d
        PROVE  Serving(e)' \/ e \in slipped' \/ Caught(e)'
    <2>1. e \in Subscribers /\ e \in Dashboards /\ queue'[e] = queue[e]
      BY <1>1, <1>4 DEF Subscribers
    <2>2. Caught(e) => Caught(e)'
      BY <1>1, <2>1 DEF Caught
    <2>3. e \in slipped => e \in slipped'
      BY <1>4, <2>1
    <2>4. Serving(e) => Serving(e)' \/ e \in slipped'
      BY <1>4, <2>1, ServingStays
    <2> QED
      BY <2>1, <2>2, <2>3, <2>4 DEF StreamInvariant, ScreensCurrent
  <1>5. ScreensCurrent'
    BY <1>1, <1>4 DEF ScreensCurrent, Subscribers
  <1> QED
    BY <1>2, <1>3, <1>5 DEF StreamInvariant

LEMMA PutKeeps ==
    ASSUME StreamInvariant, NEW h \in Publishers, NEW d \in Dashboards, publisher[h] # NoMessage,
           d \in publisher[h].left, ~IsFull(d), Put(h, d),
           UNCHANGED <<journal, version, restarts, announced, phase, view>>
    PROVE  StreamInvariant'
  <1>1. publisher[h] \in Broadcasts /\ publisher[h].state <= version /\ publisher[h].state \in Nat
    BY DEF StreamInvariant, DeliveriesOK, SoundDelivery, Broadcasts
  <1>2. PICK delivery \in Broadcasts \cup {NoMessage} :
            /\ publisher' = [publisher EXCEPT ![h] = delivery]
            /\ \/ delivery = NoMessage /\ publisher[h].left \ {d} = {}
               \/ /\ delivery \in Broadcasts /\ delivery.left = publisher[h].left \ {d}
                  /\ delivery.state = publisher[h].state /\ delivery.step = "put"
    BY <1>1, WithoutIs DEF Put, Delivers
  <1>3. delivery # NoMessage => SoundDelivery(delivery) /\ delivery.state = publisher[h].state
    BY <1>1, <1>2 DEF SoundDelivery
  <1>4. PICK message \in Nat : message = publisher[h].state
    BY <1>1
  <1>5. PICK more : more = Append(queue[d], message)
    OBVIOUS
  <1>6. /\ queue' = [queue EXCEPT ![d] = more]
        /\ slipped' = IF message = News THEN slipped
                      ELSE IF message < announced THEN slipped \cup {d} ELSE slipped \ {d}
    BY <1>4, <1>5 DEF Put
  <1>7. /\ more \in Seq(Nat) /\ Len(more) = Len(queue[d]) + 1 /\ more[Len(queue[d]) + 1] = message
        /\ \A i \in 1..Len(queue[d]) : more[i] = queue[d][i]
        /\ message # News => LastStateAt(more, Len(queue[d]) + 1)
        /\ message = News /\ OnlyNews(queue[d]) => OnlyNews(more)
        /\ \A n \in Nat : message = News /\ LastStateAt(queue[d], n) =>
              LastStateAt(more, n) /\ more[n] = queue[d][n]
    <2>1. queue[d] \in Seq(Nat) /\ message \in Nat
      BY QueueRanges
    <2>2. HasOneMore(more, queue[d], message)
      BY <1>5, <2>1, QueueWithOneMore
    <2> QED
      BY <2>2 DEF HasOneMore
  <1>8. /\ queue' \in [Dashboards -> Seq(Nat)]
        /\ \A e \in Dashboards : queue'[e] = IF e = d THEN more ELSE queue[e]
    BY <1>6, <1>7 DEF StreamInvariant, StreamRows
  <1>9. Len(queue'[d]) <= QueueSize /\ \A i \in 1..Len(queue'[d]) : queue'[d][i] <= version
    <2>1. Len(queue[d]) \in Nat /\ Len(queue[d]) < QueueSize
      <3>1. Len(queue[d]) \in Nat
        BY QueueRanges
      <3>2. QueueSize \in Nat
        BY StreamAssumption
      <3>3. ~(Len(queue[d]) >= QueueSize)
        BY DEF IsFull
      <3> QED
        BY <3>1, <3>2, <3>3
    <2>2. \A i \in 1..(Len(queue[d]) + 1) : i \in 1..Len(queue[d]) \/ i = Len(queue[d]) + 1
      BY <2>1
    <2>3. Len(queue'[d]) = Len(queue[d]) + 1 /\ queue'[d] = more
      BY <1>7, <1>8
    <2>4. Len(queue[d]) + 1 <= QueueSize
      <3>1. QueueSize \in Nat
        BY StreamAssumption
      <3> QED
        BY <2>1, <3>1
    <2>5. \A i \in 1..Len(queue[d]) : queue[d][i] <= version
      BY DEF StreamInvariant, StreamRows
    <2>6. \A i \in 1..(Len(queue[d]) + 1) : queue'[d][i] <= version
      BY <1>1, <1>4, <1>7, <2>2, <2>3, <2>5
    <2> QED
      BY <2>3, <2>4, <2>6
  <1>10. d \in Subscribers => Serving(d)' \/ d \in slipped' \/ Caught(d)'
    <2>1. CASE message # News /\ message < announced
      BY <1>6, <2>1
    <2>2. CASE message # News /\ ~(message < announced)
      <3>1. message >= announced /\ Len(queue[d]) + 1 \in Nat
        BY <1>1, <2>2, QueueRanges
      <3> QED
        BY <1>7, <1>8, <2>2, <3>1 DEF Caught
    <2>3. CASE message = News
      <3>1. Serving(d) => Serving(d)'
        <4>1. publisher[h].state = News /\ delivery \in Broadcasts \cup {NoMessage} /\ d \in Dashboards
          BY <1>2, <1>4, <2>3
        <4> QED
          BY <1>2, <4>1, ServingStays
      <3>2. Caught(d) => Caught(d)'
        BY <1>7, <1>8, <2>3 DEF Caught
      <3> QED
        BY <1>6, <2>3, <3>1, <3>2 DEF StreamInvariant, ScreensCurrent
    <2> QED
      BY <2>1, <2>2, <2>3
  <1>11. slipped' \in SUBSET Dashboards /\ \A e \in Dashboards \ {d} : e \in slipped => e \in slipped'
    BY <1>6 DEF StreamInvariant, StreamRows
  <1>12. \A e \in publisher[h].left \ {d} : delivery # NoMessage /\ e \in delivery.left
    BY <1>2, StreamAssumption
  <1> QED
    BY <1>2, <1>3, <1>8, <1>9, <1>10, <1>11, <1>12, DeliveryMoves

\* A delivery turns to a queue that is full, or has made room there.
LEMMA RoomKeeps ==
    ASSUME StreamInvariant, NEW h \in Publishers, publisher[h] # NoMessage,
           NEW d \in publisher[h].left, NEW step \in {"room", "again"},
           publisher' = [publisher EXCEPT ![h] = [publisher[h] EXCEPT !.step = step, !.to = d]],
           \/ queue' = queue /\ slipped' = slipped
           \/ /\ queue[d] # <<>> /\ queue' = [queue EXCEPT ![d] = Tail(queue[d])]
              /\ slipped' = IF LastState(d) THEN slipped \cup {d} ELSE slipped,
           UNCHANGED <<journal, version, restarts, announced, phase, view>>
    PROVE  StreamInvariant'
  <1>1. publisher[h] \in Broadcasts /\ publisher[h].state <= version /\ d \in Dashboards
    BY DEF StreamInvariant, DeliveriesOK, SoundDelivery, Broadcasts
  <1>2. PICK delivery \in Broadcasts : delivery = [publisher[h] EXCEPT !.step = step, !.to = d]
    BY <1>1 DEF Broadcasts
  <1>3. delivery.left = publisher[h].left /\ delivery.state = publisher[h].state /\ delivery.to = d
    BY <1>1, <1>2 DEF Broadcasts
  <1>4. SoundDelivery(delivery) /\ delivery # NoMessage /\ publisher' = [publisher EXCEPT ![h] = delivery]
    BY <1>1, <1>2, <1>3, StreamAssumption DEF SoundDelivery
  <1>5. Serving(d) => Serving(d)'
    <2>1. delivery \in Broadcasts \cup {NoMessage} /\ d \in Dashboards
      BY <1>1, <1>2
    <2>2. publisher[h] # NoMessage /\ publisher[h].state # News /\ d \in publisher[h].left =>
              delivery # NoMessage /\ delivery.state # News /\ d \in delivery.left
      BY <1>3, <1>4
    <2> QED
      BY <1>4, <2>1, <2>2, ServingStays
  <1>6. /\ queue' \in [Dashboards -> Seq(Nat)] /\ \A e \in Dashboards \ {d} : queue'[e] = queue[e]
        /\ Len(queue'[d]) <= QueueSize
        /\ \A i \in 1..Len(queue'[d]) : queue'[d][i] <= version
        /\ Caught(d) => Caught(d)' \/ d \in slipped'
    <2>1. CASE queue' = queue /\ slipped' = slipped
      BY <1>1, <2>1 DEF StreamInvariant, StreamRows, Caught
    <2>2. CASE /\ queue[d] # <<>> /\ queue' = [queue EXCEPT ![d] = Tail(queue[d])]
               /\ slipped' = IF LastState(d) THEN slipped \cup {d} ELSE slipped
      <3>1. /\ Tail(queue[d]) \in Seq(Nat) /\ Len(Tail(queue[d])) = Len(queue[d]) - 1
            /\ \A i \in 1..Len(Tail(queue[d])) : Tail(queue[d])[i] = queue[d][i + 1]
            /\ Len(queue[d]) \in Nat \ {0}
        BY <1>1, <2>2, QueueRanges, HeadTailProperties
      <3>2. queue'[d] = Tail(queue[d]) /\ queue' \in [Dashboards -> Seq(Nat)]
            /\ \A e \in Dashboards \ {d} : queue'[e] = queue[e]
        BY <1>1, <2>2, <3>1 DEF StreamInvariant, StreamRows
      <3>3. \A i \in 1..(Len(queue[d]) - 1) : i + 1 \in 1..Len(queue[d])
        BY <3>1
      <3>4. Len(queue[d]) <= QueueSize /\ \A i \in 1..Len(queue[d]) : queue[d][i] <= version
        BY <1>1 DEF StreamInvariant, StreamRows
      <3>5. Len(Tail(queue[d])) <= QueueSize
        BY <3>1, <3>4, StreamAssumption
      <3>6. LastStateAt(queue[d], 1) => d \in slipped'
        <4>1. queue[d] \in Seq(Nat)
          BY <1>1, QueueRanges
        <4>2. Head(queue[d]) = queue[d][1]
          BY <2>2, <4>1, HeadTailProperties
        <4>3. \A m \in 2..Len(queue[d]) : m \in 1..Len(queue[d]) /\ m > 1
          BY <3>1
        <4>4. LastStateAt(queue[d], 1) => LastState(d)
          BY <4>2, <4>3 DEF LastStateAt, LastState
        <4>5. LastState(d) => slipped' = slipped \cup {d}
          BY <2>2
        <4> QED
          BY <4>4, <4>5
      <3>7. ASSUME Caught(d)
            PROVE  Caught(d)' \/ d \in slipped'
        <4>1. queue[d] \in Seq(Nat) /\ UNCHANGED <<announced, phase, view>>
          BY <1>1, QueueRanges
        <4>2. CASE OnlyNews(queue[d]) /\ (phase[d] = "streaming" => view[d] >= announced)
          <5>1. OnlyNews(queue'[d])
            BY <2>2, <3>2, <4>1, <4>2, TailOfQueue
          <5> QED
            BY <4>1, <4>2, <5>1 DEF Caught
        <4>3. ASSUME NEW n \in Nat, n # 1, LastStateAt(queue[d], n), queue[d][n] >= announced
              PROVE  Caught(d)'
          <5>1. n - 1 \in Nat /\ LastStateAt(queue'[d], n - 1) /\ queue'[d][n - 1] = queue[d][n]
            <6>1. queue[d] # <<>> /\ queue'[d] = Tail(queue[d])
              BY <2>2, <3>2
            <6>2. /\ n - 1 \in Nat /\ LastStateAt(Tail(queue[d]), n - 1)
                  /\ Tail(queue[d])[n - 1] = queue[d][n]
              BY <4>1, <4>3, <6>1, TailOfQueue
            <6> QED
              BY <6>1, <6>2
          <5> QED
            BY <4>1, <4>3, <5>1 DEF Caught
        <4> QED
          BY <3>6, <3>7, <4>2, <4>3 DEF Caught
      <3> QED
        BY <1>1, <3>1, <3>2, <3>3, <3>4, <3>5, <3>7
    <2> QED
      BY <2>1, <2>2
  <1>7. /\ slipped' \in SUBSET Dashboards /\ slipped \subseteq slipped'
    BY <1>1 DEF StreamInvariant, StreamRows
  <1>8. d \in Subscribers => Serving(d)' \/ d \in slipped' \/ Caught(d)'
    BY <1>5, <1>6, <1>7 DEF StreamInvariant, ScreensCurrent
  <1> QED
    BY <1>1, <1>3, <1>4, <1>6, <1>7, <1>8, DeliveryMoves

LEMMA put_nowaitKeeps ==
    ASSUME StreamInvariant, NEW h \in Publishers, NEW d \in Dashboards, put_nowait(h, d)
    PROVE  StreamInvariant'
  <1>1. publisher[h] # NoMessage /\ d \in publisher[h].left
        /\ UNCHANGED <<journal, version, restarts, announced, phase, view>>
    BY DEF put_nowait, InStep
  <1>2. CASE IsFull(d)
    BY <1>1, <1>2, RoomKeeps DEF put_nowait, MakeRoom, Delivers
  <1>3. CASE ~IsFull(d)
    BY <1>1, <1>3, PutKeeps DEF put_nowait
  <1> QED
    BY <1>2, <1>3

LEMMA get_nowaitKeeps ==
    ASSUME StreamInvariant, NEW h \in Publishers, get_nowait(h)
    PROVE  StreamInvariant'
  <1>1. publisher[h] # NoMessage /\ publisher[h].step = "room"
        /\ UNCHANGED <<journal, version, restarts, announced, phase, view>>
    BY DEF get_nowait, InStep
  <1>2. publisher[h] \in Broadcasts /\ publisher[h].state <= version
        /\ publisher[h].to \in publisher[h].left /\ publisher[h].left \subseteq Dashboards
    BY <1>1 DEF StreamInvariant, DeliveriesOK, SoundDelivery, Broadcasts
  <1>3. PICK d \in publisher[h].left : d = publisher[h].to
    BY <1>2
  <1>4. CASE queue[d] = <<>>
    <2>1. PICK delivery \in Broadcasts \cup {NoMessage} :
            /\ publisher' = [publisher EXCEPT ![h] = delivery]
            /\ \/ delivery = NoMessage /\ publisher[h].left \ {d} = {}
               \/ /\ delivery \in Broadcasts /\ delivery.left = publisher[h].left \ {d}
                  /\ delivery.state = publisher[h].state /\ delivery.step = "put"
      <3>1. publisher' = [publisher EXCEPT ![h] = Without(publisher[h], d)]
        BY <1>3, <1>4 DEF get_nowait, Delivers
      <3> QED
        BY <1>2, <3>1, WithoutIs
    <2>2. queue' = queue /\ slipped' = IF publisher[h].state = News THEN slipped ELSE slipped \cup {d}
      BY <1>3, <1>4 DEF get_nowait, Lost
    <2>3. delivery # NoMessage => SoundDelivery(delivery) /\ delivery.state = publisher[h].state
      BY <1>2, <2>1 DEF SoundDelivery
    <2>4. \A e \in publisher[h].left \ {d} : delivery # NoMessage /\ e \in delivery.left
      BY <2>1, StreamAssumption
    <2>5. /\ queue' \in [Dashboards -> Seq(Nat)] /\ Len(queue'[d]) <= QueueSize
          /\ \A i \in 1..Len(queue'[d]) : queue'[d][i] <= version
          /\ slipped' \in SUBSET Dashboards /\ slipped \subseteq slipped'
      BY <1>2, <1>3, <2>2 DEF StreamInvariant, StreamRows
    <2>6. d \in Subscribers => Serving(d)' \/ d \in slipped' \/ Caught(d)'
      <3>1. CASE publisher[h].state # News
        BY <2>2, <3>1
      <3>2. CASE publisher[h].state = News
        <4>1. Serving(d) => Serving(d)'
          BY <1>2, <2>1, <3>2, ServingStays
        <4>2. Caught(d) => Caught(d)'
          BY <1>1, <2>2 DEF Caught
        <4> QED
          BY <2>5, <4>1, <4>2 DEF StreamInvariant, ScreensCurrent
      <3> QED
        BY <3>1, <3>2
    <2> QED
      BY <1>1, <1>2, <1>3, <2>1, <2>2, <2>3, <2>4, <2>5, <2>6, DeliveryMoves
  <1>5. CASE queue[d] # <<>>
    <2>1. /\ publisher' = [publisher EXCEPT ![h] = [publisher[h] EXCEPT !.step = "again"]]
          /\ queue' = [queue EXCEPT ![d] = Tail(queue[d])]
          /\ slipped' = IF LastState(d) THEN slipped \cup {d} ELSE slipped
      BY <1>3, <1>5 DEF get_nowait, Delivers
    <2>2. [publisher[h] EXCEPT !.step = "again"] = [publisher[h] EXCEPT !.step = "again", !.to = d]
      BY <1>2, <1>3 DEF Broadcasts
    <2> QED
      BY <1>1, <1>5, <2>1, <2>2, RoomKeeps
  <1> QED
    BY <1>4, <1>5

\* A delivery of a state that ends early has let slip the queues it had left.
LEMMA DeliveryEnds ==
    ASSUME StreamInvariant, NEW h \in Publishers, publisher[h] # NoMessage,
           publisher' = [publisher EXCEPT ![h] = NoMessage],
           Lost(h, publisher[h].left), queue' = queue,
           UNCHANGED <<journal, version, restarts, announced, phase, view>>
    PROVE  StreamInvariant'
  <1>1. publisher[h] \in Broadcasts /\ publisher[h].left \subseteq Dashboards
    BY DEF StreamInvariant, DeliveriesOK, SoundDelivery, Broadcasts
  <1>2. CASE publisher[h].left # {}
    <2>1. PICK d \in Dashboards : d \in publisher[h].left
      BY <1>1, <1>2
    <2>2. /\ slipped' \in SUBSET Dashboards /\ NoMessage \in Broadcasts \cup {NoMessage}
          /\ slipped \subseteq slipped'
          /\ publisher[h].state # News => publisher[h].left \subseteq slipped'
      BY <1>1 DEF StreamInvariant, StreamRows, Lost
    <2>3. queue' \in [Dashboards -> Seq(Nat)] /\ Len(queue'[d]) <= QueueSize
          /\ \A i \in 1..Len(queue'[d]) : queue'[d][i] <= version
      BY DEF StreamInvariant, StreamRows
    <2>4. d \in Subscribers => Serving(d)' \/ d \in slipped' \/ Caught(d)'
      <3>1. publisher[h].state = News /\ Serving(d) => Serving(d)'
        BY <2>1, ServingStays
      <3>2. Caught(d) => Caught(d)'
        BY DEF Caught
      <3> QED
        BY <2>1, <2>2, <3>1, <3>2 DEF StreamInvariant, ScreensCurrent
    <2> QED
      BY <2>1, <2>2, <2>3, <2>4, DeliveryMoves
  <1>3. CASE publisher[h].left = {}
    <2>1. publisher' \in [Publishers -> Broadcasts \cup {NoMessage}] /\ DeliveriesOK'
      BY DeliveriesGoOn
    <2>2. slipped' = slipped /\ UNCHANGED <<kept, sincePrune, version, announced, phase, view, queue>>
      BY <1>3 DEF journal, Lost
    <2>3. \A d \in Dashboards : Serving(d) => Serving(d)'
      BY <1>3, ServingStays
    <2> QED
      BY <2>1, <2>2, <2>3 DEF StreamInvariant, StreamRows, ScreensCurrent, Subscribers, Caught
  <1> QED
    BY <1>2, <1>3

LEMMA PutAgainKeeps ==
    ASSUME StreamInvariant, NEW h \in Publishers, PutAgain(h) \/ DepartedQueueFull(h)
    PROVE  StreamInvariant'
  <1>1. publisher[h] # NoMessage /\ UNCHANGED <<journal, version, restarts, announced, phase, view>>
    BY DEF PutAgain, DepartedQueueFull, InStep
  <1>2. CASE DepartedQueueFull(h)
    BY <1>1, <1>2, DeliveryEnds DEF DepartedQueueFull, Delivers
  <1>3. CASE PutAgain(h)
    <2>1. publisher[h].to \in publisher[h].left /\ publisher[h].left \subseteq Dashboards
      BY <1>1, <1>3 DEF PutAgain, InStep, StreamInvariant, DeliveriesOK, SoundDelivery, Broadcasts
    <2>2. PICK d \in Dashboards : d = publisher[h].to
      BY <2>1
    <2>3. CASE IsFull(d)
      BY <1>1, <1>3, <2>2, <2>3, DeliveryEnds DEF PutAgain, Delivers
    <2>4. CASE ~IsFull(d)
      BY <1>1, <1>3, <2>1, <2>2, <2>4, PutKeeps DEF PutAgain
    <2> QED
      BY <2>3, <2>4
  <1> QED
    BY <1>2, <1>3

\* Every subscriber is given what is announced.
LEMMA publishKeeps ==
    ASSUME StreamInvariant, NEW h \in Publishers, publish(h)
    PROVE  StreamInvariant'
  <1>1. /\ publisher[h] # NoMessage /\ publisher[h] \in Broadcasts
        /\ publisher[h].state <= version /\ publisher[h].state \in Nat
        /\ UNCHANGED <<kept, sincePrune, version, restarts, phase, queue, view, slipped>>
        /\ announced' = Max({announced, publisher[h].state})
    BY DEF publish, InStep, StreamInvariant, DeliveriesOK, SoundDelivery, Broadcasts, journal, screens
  <1>2. PICK call \in Broadcasts : call = [publisher[h] EXCEPT !.left = Subscribers]
    BY <1>1 DEF Broadcasts, Subscribers
  <1>3. call.left = Subscribers /\ call.state = publisher[h].state
    BY <1>1, <1>2 DEF Broadcasts
  <1>4. PICK delivery \in Broadcasts \cup {NoMessage} :
            /\ publisher' = [publisher EXCEPT ![h] = delivery]
            /\ \/ delivery = NoMessage /\ Subscribers = {}
               \/ /\ delivery \in Broadcasts /\ delivery.left = Subscribers
                  /\ delivery.state = publisher[h].state /\ delivery.step = "put"
    BY <1>2, <1>3, RemainingIs DEF publish, Delivers
  <1>5. delivery # NoMessage => SoundDelivery(delivery)
    BY <1>1, <1>4 DEF SoundDelivery
  <1>6. publisher' \in [Publishers -> Broadcasts \cup {NoMessage}] /\ DeliveriesOK'
    BY <1>1, <1>4, <1>5, DeliveriesGoOn
  <1>7. announced' \in 0..version
    <2>1. announced \in Nat /\ announced <= version /\ version \in Nat
      BY StreamAssumption DEF StreamInvariant, StreamRows
    <2>2. announced' \in {announced, publisher[h].state}
      BY <1>1, <2>1, MaxOfTwo
    <2> QED
      BY <1>1, <2>1, <2>2
  <1>8. StreamRows'
    BY <1>1, <1>6, <1>7 DEF StreamInvariant, StreamRows
  <1>9. CASE publisher[h].state # News
    <2>1. \A d \in Subscribers : Serving(d)'
      BY <1>4, <1>9, StreamAssumption DEF Serving, StreamInvariant, StreamRows
    <2> QED
      BY <1>1, <1>6, <1>8, <2>1 DEF StreamInvariant, ScreensCurrent, Subscribers
  <1>10. CASE publisher[h].state = News
    <2>1. announced' = announced
      <3>1. announced \in Nat /\ 0 \in Nat
        BY StreamAssumption DEF StreamInvariant, StreamRows
      <3>2. announced' \in Nat /\ announced' >= announced /\ announced' \in {announced, 0}
        BY <1>1, <1>10, <3>1, MaxOfTwo DEF News
      <3> QED
        BY <3>1, <3>2
    <2>2. \A d \in Dashboards : Serving(d) => Serving(d)'
      BY <1>4, <1>10, ServingStays
    <2>3. \A d \in Dashboards : Caught(d) => Caught(d)'
      BY <1>1, <2>1 DEF Caught
    <2> QED
      BY <1>1, <1>6, <1>8, <2>2, <2>3 DEF StreamInvariant, ScreensCurrent, Subscribers
  <1> QED
    BY <1>9, <1>10

-----------------------------------------------------------------------------
(* The journal *)

\* Ingest, pruning and deletion leave a count of rows per session.
LEMMA ingestCounts ==
    ASSUME StreamInvariant, NEW s \in Sessions, ingest(s)
    PROVE  kept' \in [Sessions -> Nat] /\ sincePrune' \in 0..(PruneEvery - 1)
  <1>1. PICK rows \in [Sessions -> Nat] : rows = [kept EXCEPT ![s] = kept[s] + 1]
    <2>1. kept \in [Sessions -> Nat] /\ kept[s] + 1 \in Nat
      BY DEF StreamInvariant, StreamRows
    <2>2. [kept EXCEPT ![s] = kept[s] + 1] \in [Sessions -> Nat]
      BY <2>1
    <2> QED
      BY <2>2
  <1>2. PruneRows(rows) \in [Sessions -> Nat]
    <2>1. ASSUME NEW x \in Sessions PROVE Min({rows[x], Retention}) \in Nat
      <3>1. rows[x] \in Nat /\ Retention \in Nat
        BY StreamAssumption
      <3>2. Min({rows[x], Retention}) \in {rows[x], Retention}
        BY <3>1, MinOfTwo
      <3> QED
        BY <3>1, <3>2
    <2> QED
      BY <2>1 DEF PruneRows, Pruned
  <1>3. kept' = IF sincePrune + 1 >= PruneEvery THEN PruneRows(rows) ELSE rows
    BY <1>1 DEF ingest
  <1>4. sincePrune' = IF sincePrune + 1 >= PruneEvery THEN 0 ELSE sincePrune + 1
    BY DEF ingest
  <1>5. PruneEvery \in Nat \ {0} /\ sincePrune \in 0..(PruneEvery - 1)
    BY StreamAssumption DEF StreamInvariant, StreamRows
  <1>6. sincePrune' \in 0..(PruneEvery - 1)
    BY <1>4, <1>5
  <1> QED
    BY <1>2, <1>3, <1>6

\* A write of the journal leaves the screens as they are.
LEMMA JournalGrows ==
    ASSUME StreamInvariant, version < MaxWrites, version' = version + 1,
           kept' \in [Sessions -> Nat], sincePrune' \in 0..(PruneEvery - 1),
           UNCHANGED <<announced, screens>>,
           publisher' \in [Publishers -> Broadcasts \cup {NoMessage}],
           DeliveriesOK',
           \A d \in Dashboards : Serving(d) => Serving(d)'
    PROVE  StreamInvariant'
  <1>1. UNCHANGED <<announced, phase, queue, view, slipped>>
    BY DEF screens
  <1>2. version \in 0..MaxWrites /\ announced \in 0..version /\ MaxWrites \in Nat
    BY StreamAssumption DEF StreamInvariant, StreamRows
  <1>3. version' \in 0..MaxWrites /\ announced \in 0..version'
    BY <1>2
  <1>4. \A n \in Nat : n <= version => n <= version'
    BY <1>2
  <1>5. \A d \in Dashboards : /\ Len(queue[d]) <= QueueSize /\ view[d] <= version'
                              /\ \A i \in 1..Len(queue[d]) : queue[d][i] <= version'
    <2> SUFFICES ASSUME NEW d \in Dashboards
                 PROVE  /\ Len(queue[d]) <= QueueSize /\ view[d] <= version'
                        /\ \A i \in 1..Len(queue[d]) : queue[d][i] <= version'
      OBVIOUS
    <2>1. /\ Len(queue[d]) <= QueueSize /\ view[d] <= version /\ view[d] \in Nat
          /\ \A i \in 1..Len(queue[d]) : queue[d][i] <= version
      BY DEF StreamInvariant, StreamRows
    <2>2. \A i \in 1..Len(queue[d]) : queue[d][i] \in Nat
      BY QueueRanges
    <2> QED
      BY <1>4, <2>1, <2>2
  <1>6. StreamRows'
    BY <1>1, <1>3, <1>5 DEF StreamInvariant, StreamRows
  <1>7. ScreensCurrent'
    BY <1>1 DEF StreamInvariant, StreamRows, ScreensCurrent, Subscribers, Caught
  <1> QED
    BY <1>6, <1>7 DEF StreamInvariant

LEMMA WriteKeeps ==
    ASSUME StreamInvariant, NEW h \in Publishers, Write(h)
    PROVE  StreamInvariant'
  <1>1. /\ publisher[h] = NoMessage /\ version < MaxWrites /\ version' = version + 1
        /\ UNCHANGED <<announced, screens>>
    BY DEF Write
  <1>2. kept' \in [Sessions -> Nat] /\ sincePrune' \in 0..(PruneEvery - 1)
    <2>1. CASE \E s \in Sessions : ingest(s)
      BY <2>1, ingestCounts
    <2>2. CASE clear_all \/ \E s \in Sessions : delete_session(s)
      BY <2>2 DEF clear_all, delete_session, StreamInvariant, StreamRows
    <2> QED
      BY <2>1, <2>2 DEF Write
  <1>3. version \in Nat /\ version' \in 0..MaxWrites
    BY <1>1, StreamAssumption DEF StreamInvariant, StreamRows
  <1> DEFINE call == [state |-> version', left |-> {}, gone |-> FALSE, step |-> "call", to |-> NoMessage]
  <1>4. /\ call \in Broadcasts /\ call.state = version' /\ call.left = {} /\ call.step = "call"
        /\ publisher' = [publisher EXCEPT ![h] = call]
    BY <1>3 DEF Write, Calling, Broadcasts
  <1> HIDE DEF call
  <1>5. /\ publisher' \in [Publishers -> Broadcasts \cup {NoMessage}]
        /\ publisher'[h] = call /\ \A g \in Publishers \ {h} : publisher'[g] = publisher[g]
    BY <1>4 DEF StreamInvariant, StreamRows
  <1>6. DeliveriesOK'
    <2>1. ASSUME NEW g \in Publishers, publisher'[g] # NoMessage
          PROVE  /\ publisher'[g] \in Broadcasts /\ publisher'[g].state <= version'
                 /\ publisher'[g].step \in {"room", "again"} => publisher'[g].to \in publisher'[g].left
      <3>1. CASE g = h
        BY <1>3, <1>4, <1>5, <3>1
      <3>2. CASE g # h
        <4>1. publisher'[g] = publisher[g] /\ publisher[g] # NoMessage
          BY <1>5, <2>1, <3>2
        <4>2. SoundDelivery(publisher[g])
          BY <4>1 DEF StreamInvariant, DeliveriesOK
        <4>3. publisher[g].state \in Int /\ publisher[g].state <= version
          BY <4>2, StreamAssumption DEF SoundDelivery, Broadcasts
        <4> QED
          BY <1>1, <1>3, <4>1, <4>2, <4>3 DEF SoundDelivery
      <3> QED
        BY <3>1, <3>2
    <2> QED
      BY <2>1 DEF DeliveriesOK, SoundDelivery
  <1>7. \A d \in Dashboards : Serving(d) => Serving(d)'
    BY <1>1, <1>5 DEF Serving
  <1> QED
    BY <1>1, <1>2, <1>5, <1>6, <1>7, JournalGrows

\* Who tells of something else serves no state.
LEMMA TellNewsKeeps ==
    ASSUME StreamInvariant, NEW h \in Publishers, TellNews(h)
    PROVE  StreamInvariant'
  <1>1. /\ publisher[h] = NoMessage
        /\ UNCHANGED <<kept, sincePrune, version, announced, phase, queue, view, slipped>>
    BY DEF TellNews, journal, screens
  <1>2. PICK call \in Broadcasts :
            /\ publisher' = [publisher EXCEPT ![h] = call]
            /\ call.state = News /\ call.step = "call"
    <2> DEFINE call == [state |-> News, left |-> {}, gone |-> FALSE, step |-> "call", to |-> NoMessage]
    <2>1. call \in Broadcasts /\ call.state = News /\ call.step = "call"
      BY StreamAssumption DEF Broadcasts, News
    <2> QED
      BY <2>1 DEF TellNews, Calling
  <1>3. call # NoMessage => SoundDelivery(call)
    BY <1>2, StreamAssumption DEF SoundDelivery, News, StreamInvariant, StreamRows
  <1>4. publisher' \in [Publishers -> Broadcasts \cup {NoMessage}] /\ DeliveriesOK'
    BY <1>1, <1>2, <1>3, DeliveriesGoOn
  <1>5. \A d \in Dashboards : Serving(d) => Serving(d)'
    BY <1>1, <1>2, ServingStays
  <1> QED
    BY <1>1, <1>4, <1>5 DEF StreamInvariant, StreamRows, ScreensCurrent, Subscribers, Caught

LEMMA MonitorEventKeeps ==
    ASSUME StreamInvariant, MonitorEvent
    PROVE  StreamInvariant'
  <1>1. /\ version < MaxWrites /\ version' = version + 1 /\ publisher' = publisher
        /\ UNCHANGED <<announced, screens>>
    BY DEF MonitorEvent
  <1>2. kept' \in [Sessions -> Nat] /\ sincePrune' \in 0..(PruneEvery - 1)
    BY ingestCounts DEF MonitorEvent
  <1>3. version \in Nat
    BY StreamAssumption DEF StreamInvariant, StreamRows
  <1>4. DeliveriesOK'
    <2>1. ASSUME NEW g \in Publishers, publisher[g] # NoMessage
          PROVE  SoundDelivery(publisher[g]) /\ publisher[g].state <= version'
      <3>1. SoundDelivery(publisher[g])
        BY <2>1 DEF StreamInvariant, DeliveriesOK
      <3>2. publisher[g].state \in Int /\ publisher[g].state <= version
        BY <3>1, StreamAssumption DEF SoundDelivery, Broadcasts
      <3> QED
        BY <1>1, <1>3, <3>1, <3>2
    <2> QED
      BY <1>1, <2>1 DEF DeliveriesOK, SoundDelivery
  <1>5. publisher' \in [Publishers -> Broadcasts \cup {NoMessage}]
    BY <1>1 DEF StreamInvariant, StreamRows
  <1>6. \A d \in Dashboards : Serving(d) => Serving(d)'
    BY <1>1 DEF Serving
  <1> QED
    BY <1>1, <1>2, <1>4, <1>5, <1>6, JournalGrows

-----------------------------------------------------------------------------
(* The dashboards *)

\* A step of one dashboard, that leaves the journal and the deliveries to others.
LEMMA ScreenMoves ==
    ASSUME StreamInvariant, NEW d \in Dashboards,
           UNCHANGED <<journal, version, announced>>,
           publisher' \in [Publishers -> Broadcasts \cup {NoMessage}], DeliveriesOK',
           \A e \in Dashboards \ {d} : /\ Serving(e) => Serving(e)'
                                       /\ e \in slipped => e \in slipped'
                                       /\ phase'[e] = phase[e] /\ queue'[e] = queue[e]
                                       /\ view'[e] = view[e],
           phase' \in [Dashboards -> {"away", "subscribed", "streaming"}],
           queue' \in [Dashboards -> Seq(Nat)], view' \in [Dashboards -> Nat],
           slipped' \in SUBSET Dashboards,
           Len(queue'[d]) <= QueueSize, view'[d] <= version,
           \A i \in 1..Len(queue'[d]) : queue'[d][i] <= version,
           phase'[d] # "away" => Serving(d)' \/ d \in slipped' \/ Caught(d)'
    PROVE  StreamInvariant'
  <1>1. UNCHANGED <<kept, sincePrune, version, announced>>
    BY DEF journal
  <1>2. \A e \in Dashboards : /\ Len(queue'[e]) <= QueueSize /\ view'[e] <= version
                              /\ \A i \in 1..Len(queue'[e]) : queue'[e][i] <= version
    BY DEF StreamInvariant, StreamRows
  <1>3. StreamRows'
    BY <1>1, <1>2 DEF StreamInvariant, StreamRows
  <1>4. ASSUME NEW e \in Subscribers'
        PROVE  Serving(e)' \/ e \in slipped' \/ Caught(e)'
    <2>1. e \in Dashboards /\ phase'[e] # "away"
      BY <1>4 DEF Subscribers
    <2>2. CASE e # d
      <3>1. e \in Subscribers
        BY <1>4, <2>1, <2>2 DEF Subscribers
      <3>2. Caught(e) => Caught(e)'
        BY <1>1, <2>1, <2>2 DEF Caught
      <3> QED
        BY <2>1, <2>2, <3>1, <3>2 DEF StreamInvariant, ScreensCurrent
    <2> QED
      BY <2>1, <2>2
  <1> QED
    BY <1>3, <1>4 DEF StreamInvariant, ScreensCurrent

\* Between subscribing and reading the state there is nothing yet to catch up with.
LEMMA ConnectKeeps ==
    ASSUME StreamInvariant, NEW d \in Dashboards, Connect(d)
    PROVE  StreamInvariant'
  <1>1. UNCHANGED <<journal, version, announced, publisher>>
    BY DEF Connect
  <1>2. publisher' \in [Publishers -> Broadcasts \cup {NoMessage}] /\ DeliveriesOK'
    BY <1>1 DEF StreamInvariant, StreamRows, DeliveriesOK, SoundDelivery
  <1>3. \A e \in Dashboards : Serving(e) => Serving(e)'
    BY <1>1 DEF Serving
  <1>4. CASE phase[d] = "away" /\ EmptyQueue(d) /\ Enters(d, "subscribed") /\ UNCHANGED view
    <2>1. /\ phase' = [phase EXCEPT ![d] = "subscribed"] /\ queue' = [queue EXCEPT ![d] = <<>>]
          /\ slipped' = slipped \ {d} /\ view' = view
      BY <1>4 DEF EmptyQueue, Enters
    <2>2. /\ phase' \in [Dashboards -> {"away", "subscribed", "streaming"}]
          /\ queue' \in [Dashboards -> Seq(Nat)] /\ view' \in [Dashboards -> Nat]
          /\ slipped' \in SUBSET Dashboards /\ view'[d] <= version
          /\ phase'[d] = "subscribed" /\ queue'[d] = <<>>
      BY <2>1, EmptySeq DEF StreamInvariant, StreamRows
    <2>3. Len(queue'[d]) = 0 /\ 0 <= QueueSize /\ \A i \in 1..0 : FALSE
      BY <2>2, EmptySeq, StreamAssumption
    <2>4. \A e \in Dashboards \ {d} : /\ Serving(e) => Serving(e)'
                                      /\ e \in slipped => e \in slipped'
                                      /\ phase'[e] = phase[e] /\ queue'[e] = queue[e]
                                      /\ view'[e] = view[e]
      BY <1>3, <2>1 DEF StreamInvariant, StreamRows
    <2>5. Caught(d)'
      BY <2>2, EmptyIsNews DEF Caught
    <2> QED
      BY <1>1, <1>2, <1>3, <2>2, <2>3, <2>4, <2>5, ScreenMoves
  <1>5. CASE phase[d] = "subscribed" /\ ReadState(d) /\ Enters(d, "streaming")
             /\ UNCHANGED <<queue, slipped>>
    <2>1. /\ phase' = [phase EXCEPT ![d] = "streaming"] /\ queue' = queue /\ slipped' = slipped
          /\ view' = [view EXCEPT ![d] = version] /\ phase[d] = "subscribed"
      BY <1>5 DEF ReadState, Enters
    <2>2. version \in Nat /\ announced <= version /\ announced \in Nat
      BY QueueRanges
    <2>3. /\ phase' \in [Dashboards -> {"away", "subscribed", "streaming"}]
          /\ queue' \in [Dashboards -> Seq(Nat)] /\ view' \in [Dashboards -> Nat]
          /\ slipped' \in SUBSET Dashboards /\ view'[d] = version /\ version <= version
          /\ Len(queue'[d]) <= QueueSize /\ \A i \in 1..Len(queue'[d]) : queue'[d][i] <= version
      BY <2>1, <2>2 DEF StreamInvariant, StreamRows
    <2>4. \A e \in Dashboards \ {d} : /\ Serving(e) => Serving(e)'
                                      /\ e \in slipped => e \in slipped'
                                      /\ phase'[e] = phase[e] /\ queue'[e] = queue[e]
                                      /\ view'[e] = view[e]
      BY <1>3, <2>1 DEF StreamInvariant, StreamRows
    <2>5. Serving(d)' \/ d \in slipped' \/ Caught(d)'
      <3>1. Serving(d) \/ d \in slipped \/ Caught(d)
        BY <2>1 DEF StreamInvariant, ScreensCurrent, Subscribers
      <3>2. announced' = announced /\ view'[d] >= announced
        BY <1>1, <2>2, <2>3
      <3>3. Caught(d) => Caught(d)'
        BY <2>1, <3>2 DEF Caught
      <3> QED
        BY <1>3, <2>1, <3>1, <3>3
    <2> QED
      BY <1>1, <1>2, <1>3, <2>3, <2>4, <2>5, ScreenMoves
  <1> QED
    BY <1>4, <1>5 DEF Connect, stream_state

\* A message shown is the last one, or the last one is still to come.
LEMMA write_sseKeeps ==
    ASSUME StreamInvariant, NEW d \in Dashboards, write_sse(d)
    PROVE  StreamInvariant'
  <1>1. /\ UNCHANGED <<journal, version, announced, publisher, phase, slipped>>
        /\ phase[d] = "streaming" /\ queue[d] # <<>>
        /\ view' = IF Head(queue[d]) = News THEN view ELSE [view EXCEPT ![d] = Head(queue[d])]
        /\ queue' = [queue EXCEPT ![d] = Tail(queue[d])]
    BY DEF write_sse
  <1>2. publisher' \in [Publishers -> Broadcasts \cup {NoMessage}] /\ DeliveriesOK'
    BY <1>1 DEF StreamInvariant, StreamRows, DeliveriesOK, SoundDelivery
  <1>3. \A e \in Dashboards : Serving(e) => Serving(e)'
    BY <1>1 DEF Serving
  <1>4. /\ Tail(queue[d]) \in Seq(Nat) /\ Len(Tail(queue[d])) = Len(queue[d]) - 1
        /\ \A i \in 1..Len(Tail(queue[d])) : Tail(queue[d])[i] = queue[d][i + 1]
        /\ Head(queue[d]) = queue[d][1] /\ Len(queue[d]) \in Nat \ {0}
    BY <1>1, QueueRanges, HeadTailProperties
  <1>5. /\ 1 \in 1..Len(queue[d]) /\ queue[d][1] \in Nat /\ queue[d][1] <= version
        /\ Len(queue[d]) <= QueueSize /\ \A i \in 1..Len(queue[d]) : queue[d][i] <= version
    BY <1>4, QueueRanges DEF StreamInvariant, StreamRows
  <1>6. /\ phase' \in [Dashboards -> {"away", "subscribed", "streaming"}]
        /\ queue' \in [Dashboards -> Seq(Nat)] /\ view' \in [Dashboards -> Nat]
        /\ slipped' \in SUBSET Dashboards
        /\ queue'[d] = Tail(queue[d])
        /\ view'[d] = IF queue[d][1] = News THEN view[d] ELSE queue[d][1]
        /\ \A e \in Dashboards \ {d} : view'[e] = view[e] /\ queue'[e] = queue[e]
    BY <1>1, <1>4, <1>5 DEF StreamInvariant, StreamRows
  <1>7. Len(queue'[d]) <= QueueSize
    <2>1. QueueSize \in Nat
      BY StreamAssumption
    <2> QED
      BY <1>4, <1>5, <1>6, <2>1
  <1>8. \A i \in 1..Len(queue'[d]) : queue'[d][i] <= version
    <2>1. \A i \in 1..(Len(queue[d]) - 1) : i + 1 \in 1..Len(queue[d])
      BY <1>4
    <2>2. /\ Len(queue'[d]) = Len(queue[d]) - 1
          /\ \A i \in 1..(Len(queue[d]) - 1) : queue'[d][i] = queue[d][i + 1]
      BY <1>4, <1>6
    <2> QED
      BY <1>5, <2>1, <2>2
  <1>9. \A e \in Dashboards \ {d} : /\ Serving(e) => Serving(e)'
                                    /\ e \in slipped => e \in slipped'
                                    /\ phase'[e] = phase[e] /\ queue'[e] = queue[e]
                                    /\ view'[e] = view[e]
    BY <1>1, <1>3, <1>6 DEF StreamInvariant, StreamRows
  <1>10. Serving(d)' \/ d \in slipped' \/ Caught(d)'
    <2>1. Serving(d) \/ d \in slipped \/ Caught(d)
      BY <1>1 DEF StreamInvariant, ScreensCurrent, Subscribers
    <2>2. ASSUME Caught(d) PROVE Caught(d)'
      <3>1. queue[d] \in Seq(Nat) /\ announced' = announced
        BY <1>1, QueueRanges
      <3>2. CASE OnlyNews(queue[d]) /\ (phase[d] = "streaming" => view[d] >= announced)
        <4>1. view'[d] = view[d] /\ OnlyNews(queue'[d])
          BY <1>1, <1>5, <1>6, <3>1, <3>2, TailOfQueue DEF OnlyNews
        <4> QED
          BY <1>1, <3>1, <3>2, <4>1 DEF Caught
      <3>3. CASE LastStateAt(queue[d], 1) /\ queue[d][1] >= announced
        <4>1. view'[d] = queue[d][1] /\ OnlyNews(queue'[d])
          BY <1>1, <1>6, <3>1, <3>3, TailOfQueue DEF LastStateAt
        <4> QED
          BY <3>1, <3>3, <4>1 DEF Caught
      <3>4. ASSUME NEW n \in Nat, n # 1, LastStateAt(queue[d], n), queue[d][n] >= announced
            PROVE  Caught(d)'
        <4>1. n - 1 \in Nat /\ LastStateAt(queue'[d], n - 1) /\ queue'[d][n - 1] = queue[d][n]
          BY <1>1, <1>6, <3>1, <3>4, TailOfQueue
        <4> QED
          BY <3>1, <3>4, <4>1 DEF Caught
      <3> QED
        BY <2>2, <3>2, <3>3, <3>4 DEF Caught
    <2> QED
      BY <1>1, <1>3, <2>1, <2>2
  <1>11. view'[d] <= version
    BY <1>5, <1>6 DEF StreamInvariant, StreamRows
  <1> QED
    BY <1>1, <1>2, <1>3, <1>6, <1>7, <1>8, <1>9, <1>10, <1>11, ScreenMoves

\* A dashboard that leaves takes nothing from the others.
LEMMA ForgottenIs ==
    ASSUME NEW delivery \in Broadcasts \cup {NoMessage}, NEW d \in Dashboards,
           delivery # NoMessage => SoundDelivery(delivery)
    PROVE  LET rest == Forgotten(delivery, d)
           IN  /\ rest \in Broadcasts \cup {NoMessage}
               /\ rest # NoMessage => SoundDelivery(rest)
               /\ delivery # NoMessage /\ delivery.left \ {d} # {} =>
                      /\ rest # NoMessage /\ delivery.left \ {d} \subseteq rest.left
                      /\ rest.state = delivery.state
  <1>1. CASE delivery = NoMessage \/ d \notin delivery.left
    BY <1>1 DEF Forgotten
  <1>2. CASE ~(delivery = NoMessage \/ d \notin delivery.left)
    <2>1. PICK rest \in Broadcasts : rest = [delivery EXCEPT !.left = @ \ {d}, !.gone = TRUE]
      BY <1>2 DEF Broadcasts
    <2>2. /\ rest.left = delivery.left \ {d} /\ rest.state = delivery.state
          /\ rest.to = delivery.to /\ rest.step = delivery.step
      BY <1>2, <2>1 DEF Broadcasts
    <2>3. Forgotten(delivery, d) = IF delivery.to \in rest.left THEN rest ELSE Remaining(rest)
      BY <1>2, <2>1 DEF Forgotten
    <2>4. delivery.state <= version
      BY <1>2 DEF SoundDelivery
    <2>5. CASE delivery.to \in rest.left
      BY <2>1, <2>2, <2>3, <2>4, <2>5, StreamAssumption DEF SoundDelivery
    <2>6. CASE delivery.to \notin rest.left
      BY <2>1, <2>2, <2>3, <2>4, <2>6, RemainingIs, StreamAssumption DEF SoundDelivery
    <2> QED
      BY <2>5, <2>6
  <1> QED
    BY <1>1, <1>2

LEMMA unsubscribeKeeps ==
    ASSUME StreamInvariant, NEW d \in Dashboards, unsubscribe(d)
    PROVE  StreamInvariant'
  <1>1. /\ UNCHANGED <<journal, version, view, announced>>
        /\ phase' = [phase EXCEPT ![d] = "away"] /\ queue' = [queue EXCEPT ![d] = <<>>]
        /\ slipped' = slipped \ {d}
        /\ publisher' = [h \in Publishers |-> Forgotten(publisher[h], d)]
    BY DEF unsubscribe, Enters, EmptyQueue
  <1>2. ASSUME NEW h \in Publishers
        PROVE  /\ publisher'[h] \in Broadcasts \cup {NoMessage}
               /\ publisher'[h] # NoMessage => SoundDelivery(publisher'[h])
               /\ publisher[h] # NoMessage /\ publisher[h].left \ {d} # {} =>
                      /\ publisher'[h] # NoMessage /\ publisher[h].left \ {d} \subseteq publisher'[h].left
                      /\ publisher'[h].state = publisher[h].state
    <2>1. /\ publisher[h] \in Broadcasts \cup {NoMessage}
          /\ publisher[h] # NoMessage => SoundDelivery(publisher[h])
      BY DEF StreamInvariant, StreamRows, DeliveriesOK
    <2>2. publisher'[h] = Forgotten(publisher[h], d)
      BY <1>1
    <2> QED
      BY <2>1, <2>2, ForgottenIs
  <1>3. publisher' \in [Publishers -> Broadcasts \cup {NoMessage}]
    BY <1>1, <1>2
  <1>4. DeliveriesOK'
    BY <1>1, <1>2 DEF DeliveriesOK, SoundDelivery
  <1>5. /\ phase' \in [Dashboards -> {"away", "subscribed", "streaming"}]
        /\ queue' \in [Dashboards -> Seq(Nat)] /\ view' \in [Dashboards -> Nat]
        /\ slipped' \in SUBSET Dashboards /\ view'[d] <= version
        /\ phase'[d] = "away" /\ queue'[d] = <<>>
    BY <1>1, EmptySeq DEF StreamInvariant, StreamRows
  <1>6. Len(queue'[d]) = 0 /\ 0 <= QueueSize /\ \A i \in 1..0 : FALSE
    BY <1>5, EmptySeq, StreamAssumption
  <1>7. ASSUME NEW e \in Dashboards \ {d}
        PROVE  /\ Serving(e) => Serving(e)'
               /\ e \in slipped => e \in slipped'
               /\ phase'[e] = phase[e] /\ queue'[e] = queue[e] /\ view'[e] = view[e]
    <2>1. Serving(e) => Serving(e)'
      BY <1>2 DEF Serving
    <2> QED
      BY <1>1, <2>1 DEF StreamInvariant, StreamRows
  <1> QED
    BY <1>1, <1>3, <1>4, <1>5, <1>6, <1>7, ScreenMoves

LEMMA StreamRestartKeeps ==
    ASSUME StreamInvariant, StreamRestart
    PROVE  StreamInvariant'
  <1>1. \A d \in Dashboards : phase'[d] = "away" /\ queue'[d] = <<>>
    BY DEF StreamRestart
  <1>2. <<>> \in Seq(Nat) /\ Len(<<>>) = 0 /\ 0 <= QueueSize /\ 0 \in 0..(PruneEvery - 1)
    BY EmptySeq, StreamAssumption
  <1>3. StreamRows'
    BY <1>1, <1>2 DEF StreamRestart, StreamInvariant, StreamRows
  <1>4. DeliveriesOK'
    BY DEF StreamRestart, DeliveriesOK
  <1>5. ScreensCurrent'
    BY <1>1 DEF ScreensCurrent, Subscribers
  <1> QED
    BY <1>3, <1>4, <1>5 DEF StreamInvariant

-----------------------------------------------------------------------------

LEMMA StreamKeeps == StreamInvariant /\ [StreamNext]_streamVars => StreamInvariant'
  <1> SUFFICES ASSUME StreamInvariant, [StreamNext]_streamVars PROVE StreamInvariant'
    OBVIOUS
  <1>1. CASE UNCHANGED streamVars
    BY <1>1 DEF streamVars, StreamInvariant, StreamRows, DeliveriesOK, SoundDelivery, ScreensCurrent,
                Subscribers, Serving, Caught
  <1>2. CASE \E h \in Publishers : Write(h)
    BY <1>2, WriteKeeps
  <1>3. CASE \E h \in Publishers : publish(h) \/ TellNews(h)
    BY <1>3, publishKeeps, TellNewsKeeps
  <1>4. CASE \E h \in Publishers : get_nowait(h)
    BY <1>4, get_nowaitKeeps
  <1>5. CASE \E h \in Publishers : PutAgain(h) \/ DepartedQueueFull(h)
    BY <1>5, PutAgainKeeps
  <1>6. CASE \E h \in Publishers, d \in Dashboards : put_nowait(h, d)
    BY <1>6, put_nowaitKeeps
  <1>7. CASE MonitorEvent
    BY <1>7, MonitorEventKeeps
  <1>8. CASE \E d \in Dashboards : Connect(d)
    BY <1>8, ConnectKeeps
  <1>9. CASE \E d \in Dashboards : write_sse(d)
    BY <1>9, write_sseKeeps
  <1>10. CASE \E d \in Dashboards : unsubscribe(d)
    BY <1>10, unsubscribeKeeps
  <1>11. CASE StreamRestart
    BY <1>11, StreamRestartKeeps
  <1> QED
    BY <1>1, <1>2, <1>3, <1>4, <1>5, <1>6, <1>7, <1>8, <1>9, <1>10, <1>11 DEF StreamNext

LEMMA CurrentScreens == StreamInvariant => ViewIsCurrent
  <1> SUFFICES ASSUME StreamInvariant, NEW d \in Dashboards, phase[d] = "streaming",
                      queue[d] = <<>>, ~Serving(d), d \notin slipped
               PROVE  view[d] >= announced
    BY DEF ViewIsCurrent
  <1>1. Caught(d)
    BY DEF StreamInvariant, ScreensCurrent, Subscribers
  <1>2. \A n : ~LastStateAt(<<>>, n)
    BY EmptySeq DEF LastStateAt
  <1> QED
    BY <1>1, <1>2 DEF Caught

\* A dashboard that has shown all it holds shows the newest state that was announced, unless
\* the last one for it was lost to a race for a full queue, overtaken by a newer one or
\* pushed out by messages of other kinds (ChefServer.publish).
THEOREM ViewsAreCurrent == StreamSpec => []ViewIsCurrent
  <1> QED
    BY StreamStart, StreamKeeps, CurrentScreens, PTL DEF StreamSpec

-----------------------------------------------------------------------------

(***************************************************************************)
(* EventStream: the journal stays bounded.  The sum over the sessions is a    *)
(* fold, so first what a fold of numbers is, by the number of its elements.   *)
(***************************************************************************)

Chosen(T) == CHOOSE x \in T : TRUE

\* The totals of the numbers f over the subsets of S, added up in the order of Chosen.
Totals(total, f, S) ==
    total = [T \in SUBSET S |-> IF T = {} THEN 0 ELSE f[Chosen(T)] + total[T \ {Chosen(T)}]]

\* A set of naturals that is not empty has a least element.
LEMMA LeastOfNaturals ==
    ASSUME NEW S \in SUBSET Nat, S # {}
    PROVE  \E n \in S : \A m \in S : n <= m
  BY MinOfNaturals

LEMMA OneFewer ==
    ASSUME NEW T, IsFiniteSet(T), T # {}
    PROVE  /\ Chosen(T) \in T /\ IsFiniteSet(T \ {Chosen(T)})
           /\ Cardinality(T) \in Nat \ {0}
           /\ Cardinality(T \ {Chosen(T)}) = Cardinality(T) - 1
  <1>1. Chosen(T) \in T
    BY DEF Chosen
  <1> QED
    BY <1>1, FS_RemoveElement, FS_CardinalityType, FS_EmptySet

\* Sets of at most n elements have totals, hence all of them have.
Small(S, n) == {T \in SUBSET S : Cardinality(T) <= n}
PartTotals(total, f, S, n) ==
    total = [T \in Small(S, n) |-> IF T = {} THEN 0 ELSE f[Chosen(T)] + total[T \ {Chosen(T)}]]

LEMMA TotalsExist ==
    ASSUME NEW S, IsFiniteSet(S), NEW f
    PROVE  \E total : Totals(total, f, S)
  <1> DEFINE Lacking(n) == ~\E total : PartTotals(total, f, S, n)
             Bad == {n \in Nat : Lacking(n)}
  <1>1. \A T \in SUBSET S : IsFiniteSet(T)
    BY FS_Subset
  <1>2. ~Lacking(0)
    <2> DEFINE none == [T \in Small(S, 0) |-> 0]
    <2>1. \A T \in Small(S, 0) : T = {}
      BY <1>1, FS_EmptySet, FS_CardinalityType DEF Small
    <2>2. PartTotals(none, f, S, 0)
      BY <2>1 DEF PartTotals
    <2> QED
      BY <2>2
  <1>3. ASSUME NEW n \in Nat, ~Lacking(n)
        PROVE  ~Lacking(n + 1)
    <2>1. PICK fewer : PartTotals(fewer, f, S, n)
      BY <1>3
    <2> DEFINE more == [T \in Small(S, n + 1) |->
                          IF T = {} THEN 0 ELSE f[Chosen(T)] + fewer[T \ {Chosen(T)}]]
    <2>2. ASSUME NEW T \in Small(S, n + 1), T # {}
          PROVE  /\ T \ {Chosen(T)} \in Small(S, n)
                 /\ T \ {Chosen(T)} \in Small(S, n + 1)
      BY <1>1, <2>2, OneFewer DEF Small
    <2>3. \A T \in Small(S, n) :
             fewer[T] = IF T = {} THEN 0 ELSE f[Chosen(T)] + fewer[T \ {Chosen(T)}]
      BY <2>1 DEF PartTotals
    <2>4. \A T \in Small(S, n) : T \in Small(S, n + 1)
      BY <1>1, FS_CardinalityType DEF Small
    <2>5. \A T \in Small(S, n) : more[T] = fewer[T]
      BY <2>3, <2>4
    <2>6. \A T \in Small(S, n + 1) : T # {} => more[T \ {Chosen(T)}] = fewer[T \ {Chosen(T)}]
      BY <2>2, <2>5
    <2>7. more = [T \in Small(S, n + 1) |->
                    IF T = {} THEN 0 ELSE f[Chosen(T)] + more[T \ {Chosen(T)}]]
      BY <2>6
    <2>8. PartTotals(more, f, S, n + 1)
      BY <2>7 DEF PartTotals
    <2> QED
      BY <2>8
  <1>4. Bad = {}
    <2> SUFFICES ASSUME Bad # {} PROVE FALSE
      OBVIOUS
    <2>1. PICK n \in Bad : \A m \in Bad : n <= m
      BY LeastOfNaturals
    <2> HIDE DEF Lacking
    <2>2. n \in Nat /\ n # 0
      BY <1>2, <2>1
    <2>3. n - 1 \in Nat /\ n - 1 \notin Bad
      BY <2>1, <2>2
    <2>4. ~Lacking((n - 1) + 1)
      BY <1>3, <2>3
    <2> QED
      BY <2>1, <2>2, <2>4
  <1>5. Cardinality(S) \in Nat /\ \A T \in SUBSET S : Cardinality(T) <= Cardinality(S)
    BY FS_CardinalityType, FS_Subset
  <1>6. Small(S, Cardinality(S)) = SUBSET S
    BY <1>5 DEF Small
  <1>7. PICK total : PartTotals(total, f, S, Cardinality(S))
    BY <1>4, <1>5
  <1>8. Totals(total, f, S)
    BY <1>6, <1>7 DEF PartTotals, Totals
  <1> QED
    BY <1>8

\* Numbers that are at most others, but for one that may be one larger, add up to at
\* most one more.
LEMMA TotalsCompare ==
    ASSUME NEW S, IsFiniteSet(S), NEW f \in [S -> Nat], NEW g \in [S -> Nat],
           NEW a, NEW b \in {0, 1},
           \A x \in S : g[x] <= IF x = a THEN f[x] + b ELSE f[x],
           NEW F, Totals(F, f, S), NEW G, Totals(G, g, S)
    PROVE  F[S] \in Nat /\ G[S] \in Nat /\ G[S] <= F[S] + b
  <1> DEFINE Holds(T) == /\ F[T] \in Nat /\ G[T] \in Nat
                         /\ G[T] <= F[T] + IF a \in T THEN b ELSE 0
             Bad == {n \in Nat : \E T \in SUBSET S : Cardinality(T) = n /\ ~Holds(T)}
  <1>1. \A T \in SUBSET S : IsFiniteSet(T) /\ Cardinality(T) \in Nat
    BY FS_Subset, FS_CardinalityType
  <1>2. \A T \in SUBSET S :
           /\ F[T] = IF T = {} THEN 0 ELSE f[Chosen(T)] + F[T \ {Chosen(T)}]
           /\ G[T] = IF T = {} THEN 0 ELSE g[Chosen(T)] + G[T \ {Chosen(T)}]
    BY DEF Totals
  <1>3. ASSUME NEW T \in SUBSET S, T # {}, Holds(T \ {Chosen(T)})
        PROVE  Holds(T)
    <2> DEFINE x == Chosen(T)
               R == T \ {x}
    <2>1. x \in T /\ x \in S
      BY <1>1, <1>3, OneFewer
    <2>2. F[T] = f[x] + F[R] /\ G[T] = g[x] + G[R]
      BY <1>2, <1>3
    <2>3. f[x] \in Nat /\ g[x] \in Nat /\ g[x] <= IF x = a THEN f[x] + b ELSE f[x]
      BY <2>1
    <2>4. /\ F[R] \in Nat /\ G[R] \in Nat
          /\ G[R] <= F[R] + IF a \in R THEN b ELSE 0
      BY <1>3
    <2>5. (a \in R <=> a \in T /\ x # a) /\ (x = a => a \in T)
      BY <2>1
    <2> HIDE DEF x, R
    <2>6. F[T] \in Nat /\ G[T] \in Nat
      BY <2>2, <2>3, <2>4
    <2>7. CASE x = a
      BY <2>2, <2>3, <2>4, <2>5, <2>6, <2>7
    <2>8. CASE x # a
      BY <2>2, <2>3, <2>4, <2>5, <2>6, <2>8
    <2> QED
      BY <2>7, <2>8
  <1>4. Holds({})
    <2>1. F[{}] = 0 /\ G[{}] = 0
      BY <1>2
    <2> QED
      BY <2>1
  <1>5. Bad = {}
    <2> SUFFICES ASSUME Bad # {} PROVE FALSE
      OBVIOUS
    <2>1. PICK n \in Bad : \A m \in Bad : n <= m
      BY LeastOfNaturals
    <2> HIDE DEF Holds
    <2>2. PICK T \in SUBSET S : Cardinality(T) = n /\ ~Holds(T)
      BY <2>1
    <2>3. T # {}
      BY <1>4, <2>2
    <2>4. /\ T \ {Chosen(T)} \in SUBSET S
          /\ n \in Nat /\ n # 0
          /\ Cardinality(T \ {Chosen(T)}) = n - 1
      BY <1>1, <2>2, <2>3, OneFewer
    <2>5. n - 1 \notin Bad
      BY <2>1, <2>4
    <2>6. Holds(T \ {Chosen(T)})
      BY <2>4, <2>5
    <2> QED
      BY <1>3, <2>2, <2>3, <2>6
  <1>6. Holds(S)
    <2> HIDE DEF Holds
    <2> QED
      BY <1>1, <1>5
  <1> QED
    BY <1>6

LEMMA TotalsOfNothing ==
    ASSUME NEW S, IsFiniteSet(S), NEW g \in [S -> Nat], \A x \in S : g[x] = 0,
           NEW G, Totals(G, g, S)
    PROVE  G[S] = 0
  <1> DEFINE f == [x \in S |-> 0]
             F == [T \in SUBSET S |-> 0]
  <1>1. \A T \in SUBSET S : T # {} => Chosen(T) \in S /\ T \ {Chosen(T)} \in SUBSET S
    BY DEF Chosen
  <1>2. F = [T \in SUBSET S |-> IF T = {} THEN 0 ELSE f[Chosen(T)] + F[T \ {Chosen(T)}]]
    BY <1>1
  <1>3. Totals(F, f, S)
    BY <1>2 DEF Totals
  <1>4. f \in [S -> Nat] /\ F[S] = 0 /\ \A x \in S : f[x] = 0
    OBVIOUS
  <1> HIDE DEF f, F
  <1>5. PICK a, b : b \in {0, 1} /\ b = 0
    OBVIOUS
  <1>6. b \in {0, 1} /\ \A x \in S : g[x] <= IF x = a THEN f[x] + b ELSE f[x]
    BY <1>4, <1>5
  <1>7. G[S] \in Nat /\ G[S] <= F[S] + b
    <2>1. f \in [S -> Nat]
      BY <1>4
    <2> QED
      BY <1>3, <1>6, <2>1, TotalsCompare
  <1> QED
    BY <1>4, <1>5, <1>7

-----------------------------------------------------------------------------

\* What the sessions keep beyond the retention, and the sum EventsBounded is about.
Over == [s \in Sessions |-> Excess(s)]
JournalRows ==
    /\ kept \in [Sessions -> Nat] /\ sincePrune \in Nat /\ sincePrune < PruneEvery
    /\ restarts \in Nat
InTotal == MapThenSumSet(Excess, Sessions)
TotalIsSum ==
    /\ Over \in [Sessions -> Nat]
    /\ \A s \in Sessions :
          Over[s] = IF kept[s] <= Retention THEN 0 ELSE kept[s] - Retention
    /\ \E F : Totals(F, Over, Sessions) /\ InTotal = F[Sessions]

\* Beyond the retention are at most as many rows as came since a pruning of this
\* process, and of each process before it.
JournalInvariant ==
    JournalRows /\ InTotal <= restarts * (PruneEvery - 1) + sincePrune

LEMMA ExcessIs ==
    ASSUME NEW n \in Nat
    PROVE  Max({0, n - Retention}) = IF n <= Retention THEN 0 ELSE n - Retention
  <1>1. Retention \in Nat
    BY StreamAssumption
  <1>2. CASE n <= Retention
    <2>1. \A x \in {0, n - Retention} : (\A y \in {0, n - Retention} : x >= y) <=> x = 0
      BY <1>1, <1>2
    <2> QED
      BY <1>1, <1>2, <2>1 DEF Max
  <1>3. CASE n > Retention
    <2>1. \A x \in {0, n - Retention} :
             (\A y \in {0, n - Retention} : x >= y) <=> x = n - Retention
      BY <1>1, <1>3
    <2> QED
      BY <1>1, <1>3, <2>1 DEF Max
  <1> QED
    BY <1>1, <1>2, <1>3

LEMMA TheTotalIsASum ==
    ASSUME IsFiniteSet(Sessions), JournalRows
    PROVE  TotalIsSum
  <1> DEFINE Adds(i) == i = [T \in SUBSET Sessions |->
                               IF T = {} THEN 0 ELSE LET x == CHOOSE x \in T : TRUE
                                                     IN  Excess(x) + i[T \ {x}]]
             total == CHOOSE i : Adds(i)
  <1>1. InTotal = total[Sessions]
    BY DEF InTotal, MapThenSumSet, MapThenFoldSet
  <1>2. ASSUME NEW i PROVE Adds(i) <=> Totals(i, Over, Sessions)
    BY DEF Totals, Over, Chosen
  <1>3. \E i : Adds(i)
    <2>1. \A f : \E i : Totals(i, f, Sessions)
      BY TotalsExist
    <2> HIDE DEF Adds
    <2> QED
      BY <1>2, <2>1
  <1>4. Adds(total)
    <2> HIDE DEF Adds
    <2> QED
      BY <1>3
  <1>5. Totals(total, Over, Sessions)
    BY <1>2, <1>4
  <1>6. \A s \in Sessions :
           Over[s] = IF kept[s] <= Retention THEN 0 ELSE kept[s] - Retention
    BY ExcessIs DEF JournalRows, Excess, Over
  <1>7. Over \in [Sessions -> Nat]
    BY <1>6, StreamAssumption DEF Over, JournalRows
  <1> HIDE DEF total
  <1> QED
    BY <1>1, <1>5, <1>6, <1>7 DEF TotalIsSum

\* What a step does to the sum: it adds at most b, or leaves nothing.
LEMMA TotalMoves ==
    ASSUME IsFiniteSet(Sessions), TotalIsSum, TotalIsSum', NEW a, NEW b \in {0, 1},
           \A s \in Sessions : Over'[s] <= IF s = a THEN Over[s] + b ELSE Over[s]
    PROVE  InTotal \in Nat /\ InTotal' \in Nat /\ InTotal' <= InTotal + b
  <1>1. PICK F : Totals(F, Over, Sessions) /\ InTotal = F[Sessions]
    BY DEF TotalIsSum
  <1>2. PICK G : Totals(G, Over', Sessions) /\ InTotal' = G[Sessions]
    BY DEF TotalIsSum
  <1>3. PICK f, g : f = Over /\ g = Over'
    OBVIOUS
  <1>4. f \in [Sessions -> Nat] /\ g \in [Sessions -> Nat]
    BY <1>3 DEF TotalIsSum
  <1>5. \A s \in Sessions : g[s] <= IF s = a THEN f[s] + b ELSE f[s]
    BY <1>3
  <1>6. Totals(F, f, Sessions) /\ Totals(G, g, Sessions)
    BY <1>1, <1>2, <1>3
  <1>7. F[Sessions] \in Nat /\ G[Sessions] \in Nat /\ G[Sessions] <= F[Sessions] + b
    BY <1>4, <1>5, <1>6, TotalsCompare
  <1> QED
    BY <1>1, <1>2, <1>7

LEMMA NothingOver ==
    ASSUME IsFiniteSet(Sessions), TotalIsSum', \A s \in Sessions : Over'[s] = 0
    PROVE  InTotal' = 0
  <1>1. PICK G : Totals(G, Over', Sessions) /\ InTotal' = G[Sessions]
    BY DEF TotalIsSum
  <1>2. Over' \in [Sessions -> Nat]
    BY DEF TotalIsSum
  <1> QED
    BY <1>1, <1>2, TotalsOfNothing

-----------------------------------------------------------------------------

LEMMA ProductMore ==
    ASSUME NEW r \in Nat
    PROVE  (r + 1) * (PruneEvery - 1) = r * (PruneEvery - 1) + (PruneEvery - 1)
           /\ r * (PruneEvery - 1) \in Nat
  <1>1. PICK p \in Nat : p = PruneEvery - 1
    BY StreamAssumption
  <1>2. (r + 1) * p = r * p + p /\ r * p \in Nat
    OBVIOUS
  <1> QED
    BY <1>1, <1>2

\* An event is one row more, or everything is pruned to the retention.
LEMMA ingestKeeps ==
    ASSUME IsFiniteSet(Sessions), JournalInvariant, TotalIsSum, JournalRows' => TotalIsSum',
           NEW s \in Sessions, ingest(s), UNCHANGED restarts
    PROVE  JournalInvariant'
  <1> DEFINE rows == [kept EXCEPT ![s] = @ + 1]
  <1>1. /\ kept \in [Sessions -> Nat] /\ sincePrune \in Nat /\ sincePrune < PruneEvery
        /\ restarts \in Nat /\ Retention \in Nat /\ PruneEvery \in Nat \ {0}
    BY StreamAssumption DEF JournalInvariant, JournalRows
  <1>2. /\ rows \in [Sessions -> Nat]
        /\ \A d \in Sessions : rows[d] = IF d = s THEN kept[d] + 1 ELSE kept[d]
    BY <1>1
  <1>3. restarts * (PruneEvery - 1) \in Nat
    BY <1>1, ProductMore
  <1> HIDE DEF rows
  <1>4. CASE sincePrune + 1 >= PruneEvery
    <2>1. kept' = Pruned(rows) /\ sincePrune' = 0 /\ restarts' = restarts
      BY <1>4 DEF ingest, PruneRows, rows
    <2>2. \A d \in Sessions : kept'[d] \in Nat /\ kept'[d] <= Retention
      BY <1>1, <1>2, <2>1, MinOfTwo DEF Pruned
    <2>3. kept' \in [Sessions -> Nat]
      BY <2>1, <2>2 DEF Pruned
    <2>4. JournalRows'
      BY <1>1, <2>1, <2>3 DEF JournalRows
    <2>5. \A d \in Sessions : Over'[d] = 0
      BY <2>2, <2>4 DEF TotalIsSum
    <2>6. InTotal' = 0
      BY <2>4, <2>5, NothingOver
    <2> QED
      BY <1>3, <2>1, <2>4, <2>6 DEF JournalInvariant
  <1>5. CASE sincePrune + 1 < PruneEvery
    <2>1. kept' = rows /\ sincePrune' = sincePrune + 1 /\ restarts' = restarts
      BY <1>1, <1>5 DEF ingest, rows
    <2>2. JournalRows'
      BY <1>1, <1>2, <1>5, <2>1 DEF JournalRows
    <2>3. TotalIsSum'
      BY <2>2
    <2>4. \A d \in Sessions : /\ Over[d] = IF kept[d] <= Retention THEN 0 ELSE kept[d] - Retention
                              /\ Over'[d] = IF rows[d] <= Retention THEN 0 ELSE rows[d] - Retention
      BY <2>1, <2>3 DEF TotalIsSum
    <2>5. \A d \in Sessions : Over'[d] <= IF d = s THEN Over[d] + 1 ELSE Over[d]
      BY <1>1, <1>2, <2>4
    <2>6. InTotal \in Nat /\ InTotal' \in Nat /\ InTotal' <= InTotal + 1
      BY <2>3, <2>5, TotalMoves
    <2>7. InTotal <= restarts * (PruneEvery - 1) + sincePrune
      BY DEF JournalInvariant
    <2>8. InTotal' <= restarts' * (PruneEvery - 1) + sincePrune'
      BY <1>1, <1>3, <2>1, <2>6, <2>7
    <2> QED
      BY <2>2, <2>8 DEF JournalInvariant
  <1> QED
    BY <1>1, <1>4, <1>5

\* Deletions take rows away.
LEMMA DeletionKeeps ==
    ASSUME IsFiniteSet(Sessions), JournalInvariant, TotalIsSum, JournalRows' => TotalIsSum',
           clear_all \/ \E s \in Sessions : delete_session(s), UNCHANGED restarts
    PROVE  JournalInvariant'
  <1>1. /\ kept \in [Sessions -> Nat] /\ sincePrune \in Nat /\ restarts \in Nat
        /\ Retention \in Nat /\ JournalRows
    BY StreamAssumption DEF JournalInvariant, JournalRows
  <1>2. /\ kept' \in [Sessions -> Nat]
        /\ \A d \in Sessions : kept'[d] = 0 \/ kept'[d] = kept[d]
    BY <1>1 DEF clear_all, delete_session
  <1>3. sincePrune' = sincePrune /\ restarts' = restarts
    BY DEF clear_all, delete_session
  <1>4. JournalRows'
    BY <1>1, <1>2, <1>3 DEF JournalRows
  <1>5. PICK a, b : b \in {0, 1} /\ b = 0
    OBVIOUS
  <1>6. \A d \in Sessions :
           /\ Over[d] = IF kept[d] <= Retention THEN 0 ELSE kept[d] - Retention
           /\ Over'[d] = IF kept'[d] <= Retention THEN 0 ELSE kept'[d] - Retention
    BY <1>4 DEF TotalIsSum
  <1>7. /\ b \in {0, 1}
        /\ \A d \in Sessions : Over'[d] <= IF d = a THEN Over[d] + b ELSE Over[d]
    BY <1>1, <1>2, <1>5, <1>6
  <1>8. InTotal \in Nat /\ InTotal' \in Nat /\ InTotal' <= InTotal + b
    BY <1>4, <1>7, TotalMoves
  <1>9. restarts * (PruneEvery - 1) \in Nat
    BY <1>1, ProductMore
  <1> QED
    BY <1>1, <1>3, <1>4, <1>5, <1>8, <1>9 DEF JournalInvariant

LEMMA TheTotalIsANumber ==
    ASSUME IsFiniteSet(Sessions), TotalIsSum
    PROVE  InTotal \in Nat
  <1>1. PICK F : Totals(F, Over, Sessions) /\ InTotal = F[Sessions]
    BY DEF TotalIsSum
  <1>2. PICK f, a, b : f = Over /\ b \in {0, 1}
    OBVIOUS
  <1>3. f \in [Sessions -> Nat] /\ Totals(F, f, Sessions)
    BY <1>1, <1>2 DEF TotalIsSum
  <1>4. \A s \in Sessions : f[s] <= IF s = a THEN f[s] + b ELSE f[s]
    BY <1>2, <1>3
  <1>5. F[Sessions] \in Nat
    BY <1>2, <1>3, <1>4, TotalsCompare
  <1> QED
    BY <1>1, <1>5

\* The counter is lost with the process, and the rows it counted stay.
LEMMA RestartKeeps ==
    ASSUME IsFiniteSet(Sessions), JournalInvariant, TotalIsSum, StreamRestart
    PROVE  JournalInvariant'
  <1>1. /\ kept' = kept /\ sincePrune' = 0 /\ restarts' = restarts + 1
        /\ sincePrune \in Nat /\ sincePrune < PruneEvery /\ restarts \in Nat
        /\ PruneEvery \in Nat \ {0}
    BY StreamAssumption DEF StreamRestart, JournalInvariant, JournalRows
  <1>2. JournalRows'
    BY <1>1 DEF JournalInvariant, JournalRows
  <1>3. InTotal' = InTotal
    BY <1>1 DEF InTotal, MapThenSumSet, MapThenFoldSet, Excess
  <1>4. /\ (restarts + 1) * (PruneEvery - 1) = restarts * (PruneEvery - 1) + (PruneEvery - 1)
        /\ restarts * (PruneEvery - 1) \in Nat
    BY <1>1, ProductMore
  <1> QED
    BY <1>1, <1>2, <1>3, <1>4, TheTotalIsANumber DEF JournalInvariant

\* Every other step leaves the journal alone.
LEMMA JournalStays ==
    ASSUME JournalInvariant, UNCHANGED <<kept, sincePrune, restarts>>
    PROVE  JournalInvariant'
  <1>1. InTotal' = InTotal
    BY DEF InTotal, MapThenSumSet, MapThenFoldSet, Excess
  <1> QED
    BY <1>1 DEF JournalInvariant, JournalRows

LEMMA JournalKeeps ==
    ASSUME IsFiniteSet(Sessions), JournalInvariant, TotalIsSum, JournalRows' => TotalIsSum',
           [StreamNext]_streamVars
    PROVE  JournalInvariant'
  <1>1. ASSUME NEW h \in Publishers, Write(h) PROVE JournalInvariant'
    BY <1>1, ingestKeeps, DeletionKeeps DEF Write
  <1>2. CASE MonitorEvent
    BY <1>2, ingestKeeps DEF MonitorEvent
  <1>3. CASE StreamRestart
    BY <1>3, RestartKeeps
  <1>4. ASSUME NEW h \in Publishers,
               \/ TellNews(h) \/ publish(h) \/ get_nowait(h) \/ PutAgain(h)
               \/ DepartedQueueFull(h) \/ \E d \in Dashboards : put_nowait(h, d)
        PROVE  JournalInvariant'
    BY <1>4, JournalStays DEF TellNews, publish, get_nowait, PutAgain, DepartedQueueFull, put_nowait, journal
  <1>5. ASSUME NEW d \in Dashboards, Connect(d) \/ write_sse(d) \/ unsubscribe(d)
        PROVE  JournalInvariant'
    BY <1>5, JournalStays DEF Connect, write_sse, unsubscribe, journal
  <1>6. CASE UNCHANGED streamVars
    BY <1>6, JournalStays DEF streamVars
  <1> QED
    BY <1>1, <1>2, <1>3, <1>4, <1>5, <1>6 DEF StreamNext

LEMMA JournalStart ==
    ASSUME IsFiniteSet(Sessions), StreamInit
    PROVE  JournalInvariant
  <1>1. JournalRows
    BY StreamAssumption DEF StreamInit, JournalRows
  <1>2. TotalIsSum
    BY <1>1, TheTotalIsASum
  <1>3. PICK F : Totals(F, Over, Sessions) /\ InTotal = F[Sessions]
    BY <1>2 DEF TotalIsSum
  <1>4. Over \in [Sessions -> Nat] /\ \A s \in Sessions : Over[s] = 0
    BY <1>2, StreamAssumption DEF TotalIsSum, StreamInit
  <1>5. InTotal = 0
    BY <1>3, <1>4, TotalsOfNothing
  <1> QED
    BY <1>1, <1>5, ProductMore DEF StreamInit, JournalInvariant

\* However often the daemon is restarted between two prunings, what the journal keeps beyond
\* the retention is, over all sessions together, less than PruneEvery rows for each process
\* there has been (ingest).
THEOREM JournalIsBounded == IsFiniteSet(Sessions) /\ StreamSpec => []EventsBounded
  <1>1. CASE IsFiniteSet(Sessions)
    <2>1. StreamInit => JournalInvariant
      BY <1>1, JournalStart
    <2>2. JournalInvariant => JournalRows
      BY DEF JournalInvariant
    <2>3. JournalRows => TotalIsSum
      BY <1>1, TheTotalIsASum
    <2>4. JournalInvariant /\ TotalIsSum /\ (JournalRows' => TotalIsSum') /\ [StreamNext]_streamVars
          => JournalInvariant'
      BY <1>1, JournalKeeps
    <2>5. JournalInvariant /\ TotalIsSum => EventsBounded
      <3> SUFFICES ASSUME JournalInvariant, TotalIsSum PROVE EventsBounded
        OBVIOUS
      <3>1. /\ restarts \in Nat /\ sincePrune \in Nat /\ sincePrune <= PruneEvery - 1
            /\ PruneEvery - 1 \in Nat
        BY StreamAssumption DEF JournalInvariant, JournalRows
      <3>2. /\ (restarts + 1) * (PruneEvery - 1) = restarts * (PruneEvery - 1) + (PruneEvery - 1)
            /\ restarts * (PruneEvery - 1) \in Nat
        BY <3>1, ProductMore
      <3>3. InTotal \in Nat
        BY <1>1, TheTotalIsANumber
      <3>4. InTotal <= (restarts + 1) * (PruneEvery - 1)
        BY <3>1, <3>2, <3>3 DEF JournalInvariant
      <3> QED
        BY <3>4 DEF InTotal, EventsBounded
    <2> QED
      BY <2>1, <2>2, <2>3, <2>4, <2>5, PTL DEF StreamSpec
  <1> QED
    BY <1>1

-----------------------------------------------------------------------------

(***************************************************************************)
(* ViewCache: no view outlives what it was made from by more than its TTL.  *)
(***************************************************************************)

ViewRequest == [key : 0..MaxSwitches, start : Nat, from : Nat, done : BOOLEAN]

ViewRows ==
    /\ viewClock \in Nat /\ viewClock <= MaxViewClock
    /\ changedAt \in Seq(Nat) /\ switchedAt \in Seq(Nat) /\ Provider <= MaxSwitches
    /\ savedSwitches \in 0..Provider /\ halfSwitched \in BOOLEAN
    /\ request \in [Requests -> ViewRequest \cup {NoRequest}]
    /\ watched \in Views /\ toClear \in Seq(Narratives)
    /\ cached \in SUBSET Entry
    /\ \A e \in cached : viewClock < e.until
    /\ \A e, f \in cached : e.key = f.key => e = f

\* What the watched cache is made from, by the times of its changes.
Turns == IF watched = "graph" THEN changedAt ELSE switchedAt

\* A request that has its answer began before what the answer is missing.
RequestsOK ==
    \A r \in Requests : request[r] # NoRequest =>
        /\ request[r].start <= viewClock
        /\ request[r].done =>
              /\ request[r].from <= Len(Turns)
              /\ \A i \in 1..Len(Turns) : request[r].from < i => request[r].start <= Turns[i]

\* No entry is kept longer than its time from now, or from a change it is missing.
EntriesExpire ==
    watched \in {"graph", "summary"} =>
        \A e \in cached :
            /\ e.from <= Len(Turns) /\ e.until <= viewClock + LongestTTL
            /\ \A i \in 1..Len(Turns) : e.from < i => e.until <= Turns[i] + LongestTTL

ViewInvariant == ViewRows /\ RequestsOK /\ EntriesExpire /\ OldAnswersCleared

LEMMA ViewStart == ViewInit => ViewInvariant
  <1> SUFFICES ASSUME ViewInit PROVE ViewInvariant
    OBVIOUS
  <1>1. Provider = 0 /\ Files = 0
    BY DEF ViewInit, Provider, Files
  <1>2. <<>> \in Seq(Nat) /\ <<>> \in Seq(Narratives)
    BY EmptySeq
  <1>3. ViewRows
    <2>1. MaxViewClock \in Nat /\ MaxSwitches \in Nat
      BY ViewAssumption
    <2>2. viewClock \in Nat /\ viewClock <= MaxViewClock /\ Provider <= MaxSwitches
          /\ savedSwitches \in 0..Provider
      BY <1>1, <2>1 DEF ViewInit
    <2>3. request \in [Requests -> ViewRequest \cup {NoRequest}]
      BY DEF ViewInit
    <2> QED
      BY <1>2, <2>2, <2>3 DEF ViewInit, ViewRows
  <1>4. RequestsOK
    BY DEF ViewInit, RequestsOK
  <1>5. EntriesExpire /\ OldAnswersCleared
    BY DEF ViewInit, EntriesExpire, OldAnswersCleared
  <1> QED
    BY <1>5, <1>3, <1>4 DEF ViewInvariant

LEMMA ViewRanges ==
    ASSUME ViewInvariant
    PROVE  /\ viewClock \in Nat /\ Provider \in Nat /\ Files \in Nat /\ Len(Turns) \in Nat
           /\ Turns \in Seq(Nat) /\ \A i \in 1..Len(Turns) : Turns[i] \in Nat
           /\ KeyOf \in 0..MaxSwitches /\ Len(Turns) = IF watched = "graph" THEN Files ELSE Provider
           /\ LongestTTL \in Nat
  <1>1. Len(changedAt) \in Nat /\ Len(switchedAt) \in Nat /\ Turns \in Seq(Nat)
    BY LenProperties DEF ViewInvariant, ViewRows, Turns
  <1>2. \A i \in 1..Len(Turns) : Turns[i] \in Nat
    BY <1>1, ElementOfSeq
  <1> QED
    BY <1>1, <1>2, ViewAssumption
    DEF ViewInvariant, ViewRows, Turns, Files, Provider, KeyOf, code_semantic_cache_key,
        assistant_cache_key, LongestTTL

\* No outcome of a graph or of a summary is kept longer than the longest.
LEMMA KeptForAWhile ==
    ASSUME watched \in Views, NEW outcome \in {"ok", "error", "unavailable"}
    PROVE  /\ KeptFor(outcome) \in Nat
           /\ watched \in {"graph", "summary"} => KeptFor(outcome) <= LongestTTL
  <1>1. GraphTTL \in Nat /\ SummaryTTL \in Nat /\ ErrorTTL \in Nat /\ AssistantTTL \in Nat
        /\ MaxViewClock \in Nat /\ ErrorTTL <= SummaryTTL
    BY ViewAssumption
  <1>2. watched = "graph" => KeptFor(outcome) \in {0, GraphTTL} /\ LongestTTL = GraphTTL
    BY DEF KeptFor, get_code_graph, LongestTTL
  <1>3. get_llm_summary(outcome) \in {0, SummaryTTL, ErrorTTL}
    BY DEF get_llm_summary
  <1>4. watched = "summary" => KeptFor(outcome) \in {0, SummaryTTL, ErrorTTL} /\ LongestTTL = SummaryTTL
    BY <1>3 DEF KeptFor, LongestTTL
  <1>5. watched = "assistant" => KeptFor(outcome) \in {0, AssistantTTL}
    BY DEF KeptFor, cache_assistant_reply
  <1>6. watched = "semantic" => KeptFor(outcome) \in {0, MaxViewClock + 1}
    BY DEF KeptFor, cache_code_semantic, Forever
  <1> QED
    BY <1>1, <1>2, <1>4, <1>5, <1>6 DEF Views, Narratives

\* A step of a request that stores nothing.
LEMMA RequestMoves ==
    ASSUME ViewInvariant, NEW r \in Requests, NEW row \in ViewRequest,
           request' = [request EXCEPT ![r] = row],
           row.start <= viewClock, row.done => row.from = Len(Turns),
           UNCHANGED <<viewClock, origins, cached, toClear>>
    PROVE  ViewInvariant'
  <1>1. /\ request' \in [Requests -> ViewRequest \cup {NoRequest}]
        /\ \A s \in Requests : request'[s] = IF s = r THEN row ELSE request[s]
    BY DEF ViewInvariant, ViewRows
  <1>2. UNCHANGED <<changedAt, switchedAt, savedSwitches, halfSwitched, watched>>
    BY DEF origins
  <1>3. ViewRows' /\ Turns' = Turns
    BY <1>1, <1>2 DEF ViewInvariant, ViewRows, Turns, Provider
  <1>4. RequestsOK'
    <2>1. \A i \in 1..Len(Turns) : ~(Len(Turns) < i)
      BY ViewRanges
    <2>2. Len(Turns) <= Len(Turns)
      BY ViewRanges
    <2> QED
      BY <1>1, <1>3, <2>1, <2>2 DEF ViewInvariant, RequestsOK
  <1>5. EntriesExpire' /\ OldAnswersCleared'
    BY <1>2, <1>3 DEF ViewInvariant, EntriesExpire, OldAnswersCleared, LongestTTL, Outdated,
                      Files, Provider
  <1> QED
    BY <1>3, <1>4, <1>5 DEF ViewInvariant

LEMMA BeginKeeps ==
    ASSUME ViewInvariant, NEW r \in Requests, Begin(r)
    PROVE  ViewInvariant'
  <1>1. viewClock \in Nat /\ KeyOf \in 0..MaxSwitches
    BY ViewRanges
  <1> DEFINE row == [key |-> KeyOf, start |-> viewClock, from |-> 0, done |-> FALSE]
  <1>2. row \in ViewRequest /\ row.start <= viewClock /\ ~row.done
    BY <1>1 DEF ViewRequest
  <1>3. request' = [request EXCEPT ![r] = row] /\ UNCHANGED <<viewClock, origins, cached, toClear>>
    BY DEF Begin
  <1> HIDE DEF row
  <1> QED
    BY <1>2, <1>3, RequestMoves

LEMMA WorkKeeps ==
    ASSUME ViewInvariant, NEW r \in Requests, Work(r)
    PROVE  ViewInvariant'
  <1>1. request[r] \in ViewRequest /\ request[r].start <= viewClock
    BY DEF Work, ViewInvariant, ViewRows, RequestsOK
  <1>2. PICK n \in Nat : n = Len(Turns)
    BY ViewRanges
  <1>3. PICK row \in ViewRequest : row = [request[r] EXCEPT !.done = TRUE, !.from = n]
    BY <1>1 DEF ViewRequest
  <1>4. row.from = n /\ row.start = request[r].start
    BY <1>1, <1>3 DEF ViewRequest
  <1>5. n = IF watched = "graph" THEN Files ELSE resolve_active
    BY <1>2, ViewRanges DEF resolve_active
  <1>6. request' = [request EXCEPT ![r] = row]
    BY <1>3, <1>5 DEF Work, ViewInvariant, ViewRows
  <1> QED
    BY <1>1, <1>2, <1>4, <1>6, RequestMoves DEF Work

\* Fewer entries, and no clearing ahead that is not done.
LEMMA EntriesGo ==
    ASSUME ViewInvariant, cached' \subseteq cached, UNCHANGED <<viewClock, origins, request, toClear>>
    PROVE  ViewInvariant'
  <1>1. UNCHANGED <<changedAt, switchedAt, savedSwitches, halfSwitched, watched>>
    BY DEF origins
  <1>2. ViewRows' /\ Turns' = Turns
    BY <1>1 DEF ViewInvariant, ViewRows, Turns, Provider
  <1> QED
    BY <1>1, <1>2 DEF ViewInvariant, RequestsOK, EntriesExpire, OldAnswersCleared, LongestTTL, Outdated,
                      Files, Provider

\* What a request stores is as old as the request, or has a switch behind it that it
\* was not under way in.
LEMMA FinishKeeps ==
    ASSUME ViewInvariant, NEW r \in Requests, Finish(r)
    PROVE  ViewInvariant'
  <1>1. /\ request[r] \in ViewRequest /\ request[r].start <= viewClock
        /\ request[r].from <= Len(Turns)
        /\ \A i \in 1..Len(Turns) : request[r].from < i => request[r].start <= Turns[i]
        /\ watched \in Views
    BY DEF Finish, ViewInvariant, ViewRows, RequestsOK
  <1>2. UNCHANGED <<viewClock, origins, toClear>>
        /\ UNCHANGED <<changedAt, switchedAt, savedSwitches, halfSwitched, watched>>
        /\ request' = [request EXCEPT ![r] = NoRequest]
    BY DEF Finish, origins
  <1>3. PICK outcome \in {"ok", "error", "unavailable"} :
            LET until == Stamp(r) + KeptFor(outcome)
                entry == [key |-> request[r].key, from |-> request[r].from, until |-> until,
                          late |-> watched # "graph" /\ request[r].from # Provider]
            IN  cached' = IF KeptFor(outcome) = 0 THEN cached
                          ELSE (cached \ Found(request[r].key))
                                   \cup (IF until > viewClock THEN {entry} ELSE {})
    BY DEF Finish
  <1> DEFINE until == Stamp(r) + KeptFor(outcome)
             late  == watched # "graph" /\ request[r].from # Provider
             entry == [key |-> request[r].key, from |-> request[r].from, until |-> until,
                       late |-> late]
  <1>4. Stamp(r) \in Nat /\ KeptFor(outcome) \in Nat
    BY <1>1, KeptForAWhile, ViewRanges DEF Stamp, ViewRequest
  <1>5. late \in BOOLEAN /\ until \in Nat
    BY <1>4
  <1>6. entry \in Entry /\ entry.key = request[r].key /\ entry.from = request[r].from
        /\ entry.until = until /\ entry.late = late
    BY <1>1, <1>5 DEF Entry, ViewRequest
  <1>7. \A e \in cached' : (e \in cached /\ (entry \in cached' => e.key # entry.key))
                           \/ (e = entry /\ viewClock < until) \/ (e \in cached /\ cached' = cached)
    BY <1>3, <1>4, <1>6, ViewRanges DEF Found
  <1>8. watched \in {"graph", "summary"} =>
           /\ until <= viewClock + LongestTTL
           /\ \A i \in 1..Len(Turns) : request[r].from < i => until <= Turns[i] + LongestTTL
    <2> SUFFICES ASSUME watched \in {"graph", "summary"}
                 PROVE  /\ until <= viewClock + LongestTTL
                        /\ \A i \in 1..Len(Turns) : request[r].from < i => until <= Turns[i] + LongestTTL
      OBVIOUS
    <2>1. Stamp(r) = request[r].start /\ KeptFor(outcome) <= LongestTTL
      BY <1>1, KeptForAWhile DEF Stamp
    <2>2. request[r].start \in Nat /\ LongestTTL \in Nat /\ viewClock \in Nat
          /\ \A i \in 1..Len(Turns) : Turns[i] \in Nat
      BY <1>1, ViewRanges DEF ViewRequest
    <2> QED
      BY <1>1, <1>4, <2>1, <2>2
  <1>9. watched # "graph" /\ request[r].from < Provider => late
    BY <1>1, ViewRanges DEF ViewRequest
  <1> HIDE DEF until, late, entry
  <1>10. request' \in [Requests -> ViewRequest \cup {NoRequest}] /\ Turns' = Turns
    BY <1>2 DEF ViewInvariant, ViewRows, Turns
  <1>11. ViewRows'
    <2>1. cached' \in SUBSET Entry /\ \A e \in cached' : viewClock < e.until
      BY <1>6, <1>7 DEF ViewInvariant, ViewRows
    <2>2. \A e, f \in cached' : e.key = f.key => e = f
      BY <1>7 DEF ViewInvariant, ViewRows
    <2> QED
      BY <1>2, <1>10, <2>1, <2>2 DEF ViewInvariant, ViewRows, Provider
  <1>12. RequestsOK'
    BY <1>2, <1>10 DEF ViewInvariant, ViewRows, RequestsOK
  <1>13. EntriesExpire'
    BY <1>1, <1>2, <1>6, <1>7, <1>8, <1>10 DEF ViewInvariant, EntriesExpire, LongestTTL
  <1>14. OldAnswersCleared'
    BY <1>2, <1>6, <1>7, <1>9 DEF ViewInvariant, OldAnswersCleared, Outdated, Provider
  <1> QED
    BY <1>11, <1>12, <1>13, <1>14 DEF ViewInvariant

-----------------------------------------------------------------------------

\* One more change, now: everything there is began before it.
LEMMA TurnAdded ==
    ASSUME ViewInvariant, Turns' = Append(Turns, viewClock), UNCHANGED <<viewClock, watched, request, cached>>
    PROVE  RequestsOK' /\ EntriesExpire'
  <1>1. /\ Len(Turns') = Len(Turns) + 1 /\ Turns'[Len(Turns) + 1] = viewClock
        /\ \A i \in 1..Len(Turns) : Turns'[i] = Turns[i]
    BY AppendProperties, ViewRanges
  <1>2. Len(Turns) \in Nat /\ viewClock \in Nat
    BY ViewRanges
  <1>3. \A i \in 1..Len(Turns') : i \in 1..Len(Turns) \/ Turns'[i] = viewClock
    BY <1>1, <1>2
  <1>4. RequestsOK'
    BY <1>1, <1>2, <1>3 DEF ViewInvariant, ViewRows, ViewRequest, RequestsOK
  <1>5. EntriesExpire'
    BY <1>1, <1>2, <1>3 DEF ViewInvariant, ViewRows, Entry, EntriesExpire, LongestTTL
  <1> QED
    BY <1>4, <1>5

LEMMA ChangeKeeps ==
    ASSUME ViewInvariant, Change
    PROVE  ViewInvariant'
  <1>1. /\ watched = "graph" /\ changedAt' = Append(changedAt, viewClock)
        /\ UNCHANGED <<viewClock, switchedAt, savedSwitches, halfSwitched, watched, request, cached, toClear>>
    BY DEF Change
  <1>2. Turns' = Append(Turns, viewClock)
    BY <1>1 DEF Turns
  <1>3. ViewRows'
    BY <1>1, AppendProperties DEF ViewInvariant, ViewRows, Provider
  <1>4. OldAnswersCleared'
    BY <1>1 DEF OldAnswersCleared
  <1> QED
    BY <1>1, <1>2, <1>3, <1>4, TurnAdded DEF ViewInvariant

LEMMA save_and_activateKeeps ==
    ASSUME ViewInvariant, save_and_activate
    PROVE  ViewInvariant'
  <1>1. /\ watched # "graph" /\ Provider < MaxSwitches
        /\ switchedAt' = Append(switchedAt, viewClock)
        /\ UNCHANGED <<viewClock, changedAt, watched, request, cached>>
        /\ \/ /\ savedSwitches' = Provider + 1 /\ halfSwitched' = FALSE
              /\ toClear' = <<"summary", "assistant", "semantic">>
           \/ halfSwitched' = TRUE /\ UNCHANGED <<savedSwitches, toClear>>
    BY DEF save_and_activate, _write_state_locked
  <1>2. Turns' = Append(Turns, viewClock)
    BY <1>1 DEF Turns
  <1>3. switchedAt' \in Seq(Nat) /\ Provider' = Provider + 1 /\ Provider \in Nat
    BY <1>1, AppendProperties, ViewRanges DEF ViewInvariant, ViewRows, Provider
  <1>4. toClear' \in Seq(Narratives)
    <2>1. "summary" \in Narratives /\ "assistant" \in Narratives /\ "semantic" \in Narratives
      BY DEF Narratives
    <2>2. <<"summary", "assistant", "semantic">> \in Seq(Narratives)
      BY <2>1
    <2> QED
      BY <1>1, <2>2 DEF ViewInvariant, ViewRows
  <1>5. Provider' <= MaxSwitches /\ savedSwitches' \in 0..Provider'
    <2>1. savedSwitches \in 0..Provider
      BY DEF ViewInvariant, ViewRows
    <2>2. MaxSwitches \in Nat
      BY ViewAssumption
    <2> QED
      BY <1>1, <1>3, <2>1, <2>2
  <1>6. ViewRows'
    BY <1>1, <1>3, <1>4, <1>5 DEF ViewInvariant, ViewRows
  <1>7. halfSwitched' \/ \E i \in DOMAIN toClear' : toClear'[i] = watched
    <2>1. CASE toClear' = <<"summary", "assistant", "semantic">>
      <3>1. DOMAIN toClear' = 1..3 /\ toClear'[1] = "summary" /\ toClear'[2] = "assistant"
            /\ toClear'[3] = "semantic"
        BY <2>1
      <3>2. 1 \in 1..3 /\ 2 \in 1..3 /\ 3 \in 1..3
        OBVIOUS
      <3> QED
        BY <1>1, <3>1, <3>2 DEF ViewInvariant, ViewRows, Views, Narratives
    <2> QED
      BY <1>1, <2>1
  <1>8. OldAnswersCleared'
    BY <1>1, <1>7 DEF OldAnswersCleared
  <1> QED
    BY <1>1, <1>2, <1>6, <1>8, TurnAdded DEF ViewInvariant

LEMMA clear_llm_cachesKeeps ==
    ASSUME ViewInvariant, clear_llm_caches
    PROVE  ViewInvariant'
  <1>1. /\ toClear # <<>> /\ toClear' = Tail(toClear) /\ toClear \in Seq(Narratives)
        /\ cached' = IF watched = Head(toClear) THEN {} ELSE cached
        /\ UNCHANGED <<viewClock, origins, request>>
        /\ UNCHANGED <<changedAt, switchedAt, savedSwitches, halfSwitched, watched>>
    BY DEF clear_llm_caches, Cleared, origins, ViewInvariant, ViewRows
  <1>2. /\ Len(toClear) \in Nat \ {0} /\ Len(toClear') = Len(toClear) - 1
        /\ toClear' \in Seq(Narratives)
        /\ \A i \in 1..Len(toClear') : toClear'[i] = toClear[i + 1]
        /\ Head(toClear) = toClear[1]
        /\ DOMAIN toClear = 1..Len(toClear) /\ DOMAIN toClear' = 1..Len(toClear')
    BY <1>1, HeadTailProperties, LenProperties, EmptySeq
  <1>3. ViewRows' /\ Turns' = Turns
    BY <1>1, <1>2 DEF ViewInvariant, ViewRows, Turns, Provider
  <1>4. ASSUME NEW i \in DOMAIN toClear, toClear[i] = watched, watched # Head(toClear)
        PROVE  \E j \in DOMAIN toClear' : toClear'[j] = watched
    <2>1. i \in 2..Len(toClear)
      BY <1>2, <1>4
    <2>2. i - 1 \in 1..Len(toClear') /\ (i - 1) + 1 = i
      BY <1>2, <2>1
    <2> QED
      BY <1>2, <1>4, <2>2
  <1>5. OldAnswersCleared'
    BY <1>1, <1>4 DEF ViewInvariant, OldAnswersCleared, Outdated, Provider
  <1>6. RequestsOK' /\ EntriesExpire'
    BY <1>1, <1>3 DEF ViewInvariant, RequestsOK, EntriesExpire, LongestTTL
  <1> QED
    BY <1>3, <1>5, <1>6 DEF ViewInvariant

LEMMA TimePassesKeeps ==
    ASSUME ViewInvariant, TimePasses
    PROVE  ViewInvariant'
  <1>1. /\ viewClock \in Nat /\ viewClock < MaxViewClock /\ viewClock' = viewClock + 1
        /\ cached' \subseteq cached /\ \A e \in cached' : viewClock' < e.until
        /\ UNCHANGED <<changedAt, switchedAt, savedSwitches, halfSwitched, watched, request, toClear>>
    BY ViewRanges DEF TimePasses, origins, ViewInvariant, ViewRows, Entry
  <1>2. ViewRows' /\ Turns' = Turns
    <2>1. viewClock' \in Nat /\ viewClock' <= MaxViewClock
      BY <1>1, ViewAssumption
    <2> QED
      BY <1>1, <2>1 DEF ViewInvariant, ViewRows, Turns, Provider
  <1>3. RequestsOK'
    BY <1>1, <1>2 DEF ViewInvariant, ViewRows, ViewRequest, RequestsOK
  <1>4. EntriesExpire'
    <2>1. \A e \in cached' : e.until \in Nat
      BY <1>1 DEF ViewInvariant, ViewRows, Entry
    <2> QED
      BY <1>1, <1>2, <2>1, ViewRanges DEF ViewInvariant, EntriesExpire, LongestTTL
  <1>5. OldAnswersCleared'
    BY <1>1 DEF ViewInvariant, OldAnswersCleared, Outdated, Provider
  <1> QED
    BY <1>2, <1>3, <1>4, <1>5 DEF ViewInvariant

LEMMA RestartViewsKeeps ==
    ASSUME ViewInvariant, RestartViews
    PROVE  ViewInvariant'
  <1>1. /\ switchedAt' = SubSeq(switchedAt, 1, savedSwitches)
        /\ request' = [r \in Requests |-> NoRequest]
        /\ cached' = {} /\ toClear' = <<>> /\ halfSwitched' = FALSE
        /\ UNCHANGED <<viewClock, changedAt, savedSwitches, watched>>
    BY DEF RestartViews
  <1>2. switchedAt' \in Seq(Nat) /\ Provider' = savedSwitches
    <2>1. savedSwitches \in 0..Len(switchedAt) /\ switchedAt \in Seq(Nat) /\ Len(switchedAt) \in Nat
      BY LenProperties DEF ViewInvariant, ViewRows, Provider
    <2>2. Len(SubSeq(switchedAt, 1, savedSwitches)) = savedSwitches
          /\ SubSeq(switchedAt, 1, savedSwitches) \in Seq(Nat)
      BY <2>1, SubSeqProperties
    <2> QED
      BY <1>1, <2>2 DEF Provider
  <1>3. savedSwitches \in Nat /\ savedSwitches <= MaxSwitches
    <2>1. savedSwitches \in 0..Provider /\ Provider <= MaxSwitches /\ Provider \in Nat
      BY ViewRanges DEF ViewInvariant, ViewRows
    <2>2. MaxSwitches \in Nat
      BY ViewAssumption
    <2> QED
      BY <2>1, <2>2
  <1>4. ViewRows'
    <2>1. <<>> \in Seq(Narratives) /\ savedSwitches \in 0..savedSwitches
      BY <1>3, EmptySeq
    <2> QED
      BY <1>1, <1>2, <1>3, <2>1 DEF ViewInvariant, ViewRows
  <1> QED
    BY <1>1, <1>4 DEF ViewInvariant, RequestsOK, EntriesExpire, OldAnswersCleared

LEMMA ViewRests ==
    ASSUME ViewInvariant, Evict \/ invalidate_code_graph_cache \/ UNCHANGED viewVars
    PROVE  ViewInvariant'
  <1>1. cached' \subseteq cached /\ UNCHANGED <<viewClock, origins, request, toClear>>
    BY DEF Evict, invalidate_code_graph_cache, viewVars, origins
  <1> QED
    BY <1>1, EntriesGo

LEMMA ViewKeeps == ViewInvariant /\ [ViewNext]_viewVars => ViewInvariant'
  BY BeginKeeps, WorkKeeps, FinishKeeps, ChangeKeeps, save_and_activateKeeps, clear_llm_cachesKeeps,
     TimePassesKeeps, RestartViewsKeeps, ViewRests
  DEF ViewNext

LEMMA ViewAlways == ViewSpec => []ViewInvariant
  BY ViewStart, ViewKeeps, PTL DEF ViewSpec

\* No graph and no summary is served longer than its TTL after what it was made from
\* changed, whenever it was stored.
THEOREM ViewsExpire == ViewSpec => []StaleViewsExpire
  <1>1. ASSUME ViewInvariant, watched \in {"graph", "summary"}, NEW e \in cached, Outdated(e)
        PROVE  viewClock < OutdatedSince(e) + LongestTTL
    <2>1. e.from \in Nat /\ e.until \in Nat /\ viewClock < e.until /\ viewClock \in Nat
      BY <1>1, ViewRanges DEF ViewInvariant, ViewRows, Entry
    <2>2. e.from + 1 \in 1..Len(Turns) /\ e.from < e.from + 1
      BY <1>1, <2>1, ViewRanges DEF Outdated
    <2>3. e.until <= Turns[e.from + 1] + LongestTTL
      BY <1>1, <2>2 DEF ViewInvariant, EntriesExpire
    <2>4. OutdatedSince(e) = Turns[e.from + 1] /\ Turns[e.from + 1] \in Nat /\ LongestTTL \in Nat
      BY <1>1, <2>2, ViewRanges DEF OutdatedSince, Turns
    <2> QED
      BY <2>1, <2>3, <2>4
  <1>2. ViewInvariant => StaleViewsExpire
    BY <1>1 DEF StaleViewsExpire
  <1> QED
    BY <1>2, ViewAlways, PTL

\* A narrative of an earlier provider stays only while its switch is not through, or
\* when its request was under way during the switch.
THEOREM SwitchesClearAnswers == ViewSpec => []OldAnswersCleared
  <1>1. ViewInvariant => OldAnswersCleared
    BY DEF ViewInvariant
  <1> QED
    BY <1>1, ViewAlways, PTL

-----------------------------------------------------------------------------

(***************************************************************************)
(* ReviewFeedback: the rows of a finding say what was decided on it last.   *)
(***************************************************************************)

Identities == Findings \cup {NoIdentity}
MarkRow == [key : Identities, finding : Identities, status : Decisions, at : Nat]
LegacyMark == Mark(LegacyKey, NoIdentity, "fixed", 0)

FeedbackRows ==
    /\ second \in Nat /\ second <= LastSecond
    /\ marks \in SUBSET MarkRow /\ IsFiniteSet(marks) /\ Cardinality(marks) <= FeedbackRetention
    /\ \A m \in marks : m.at <= second
    /\ decided \in [Findings -> Decisions \cup {"open"}]
    /\ dropped \in SUBSET Identities /\ hadLegacy \in BOOLEAN

\* A key names one row, the finding's own or the legacy one; the legacy row of no
\* finding is there only before the first decision.
FeedbackKeys ==
    /\ \A m, n \in marks : m.key = n.key => m = n
    /\ \A m \in marks : m.key # LegacyKey => m.key = m.finding
    /\ \A m \in marks : m.finding = NoIdentity => m = LegacyMark /\ marks = {LegacyMark}
    /\ ~hadLegacy => \A m \in marks : m.key # LegacyKey

\* The own row of a finding is its newest and says what was decided; a finding with an
\* adopted row alone has it say that.
SaysDecided(f) ==
    \A m \in MarksOf(f) :
        m.key = f \/ (\A n \in MarksOf(f) : n.key # f) =>
            m.status = decided[f] /\ \A n \in MarksOf(f) : n.at <= m.at
FindingsOK ==
    \A f \in Findings :
        /\ decided[f] = "open" => MarksOf(f) = {}
        /\ f \notin dropped => SaysDecided(f)
        /\ ~hadLegacy /\ decided[f] # "open" /\ f \notin dropped => MarksOf(f) # {}

FeedbackInvariant == FeedbackRows /\ FeedbackKeys /\ FindingsOK

LEMMA MarkFields ==
    ASSUME NEW key \in Identities, NEW finding \in Identities, NEW word \in Decisions, NEW at \in Nat
    PROVE  /\ Mark(key, finding, word, at) \in MarkRow
           /\ Mark(key, finding, word, at).key = key
           /\ Mark(key, finding, word, at).finding = finding
           /\ Mark(key, finding, word, at).status = word
           /\ Mark(key, finding, word, at).at = at
  BY DEF Mark, MarkRow

LEMMA LegacyFields ==
    /\ LegacyMark \in MarkRow /\ LegacyMark.key = LegacyKey
    /\ LegacyMark.finding = NoIdentity /\ LegacyMark.at = 0
  BY DEF LegacyMark, Mark, MarkRow, LegacyKey, Identities, Decisions

LEMMA FeedbackStart == FeedbackInit => FeedbackInvariant
  <1> SUFFICES ASSUME FeedbackInit PROVE FeedbackInvariant
    OBVIOUS
  <1>1. marks \in {{}, {LegacyMark}} /\ (marks = {LegacyMark} <=> hadLegacy)
    BY DEF FeedbackInit, LegacyMark
  <1>2. IsFiniteSet(marks) /\ Cardinality(marks) \in {0, 1}
    <2>1. CASE marks = {}
      BY <2>1, FS_EmptySet
    <2>2. CASE marks = {LegacyMark}
      BY <2>2, FS_Singleton
    <2> QED
      BY <1>1, <2>1, <2>2
  <1>3. FeedbackRows
    BY <1>1, <1>2, LegacyFields, FeedbackAssumption DEF FeedbackInit, FeedbackRows
  <1>4. FeedbackKeys
    BY <1>1, LegacyFields DEF FeedbackKeys
  <1>5. \A f \in Findings : MarksOf(f) = {} /\ decided[f] = "open"
    BY <1>1, LegacyFields, FeedbackAssumption DEF FeedbackInit, MarksOf
  <1>6. FindingsOK
    BY <1>5 DEF FindingsOK, SaysDecided
  <1> QED
    BY <1>3, <1>4, <1>6 DEF FeedbackInvariant

\* A key names one row, also when rows are left out.
LEMMA FewerMarks ==
    ASSUME FeedbackInvariant, marks' \subseteq marks
    PROVE  IsFiniteSet(marks') /\ Cardinality(marks') <= FeedbackRetention
  <1>1. IsFiniteSet(marks') /\ Cardinality(marks') <= Cardinality(marks)
        /\ Cardinality(marks') \in Nat /\ Cardinality(marks) \in Nat
    BY FS_Subset, FS_CardinalityType DEF FeedbackInvariant, FeedbackRows
  <1> QED
    BY <1>1, FeedbackAssumption DEF FeedbackInvariant, FeedbackRows

LEMMA ClearMarkKeeps ==
    ASSUME FeedbackInvariant, NEW f \in Findings, ClearMark(f)
    PROVE  FeedbackInvariant'
  <1>1. /\ marks' = {m \in marks : m.key # f /\ m.key # LegacyKey}
        /\ decided' = [decided EXCEPT ![f] = "open"]
        /\ UNCHANGED <<second, dropped, hadLegacy>>
    BY DEF ClearMark, reopen, finding_key
  <1>2. marks' \subseteq marks
    BY <1>1
  <1>3. FeedbackRows'
    BY <1>1, <1>2, FewerMarks DEF FeedbackInvariant, FeedbackRows
  <1>4. \A m \in marks' : m \in marks /\ m.key # LegacyKey /\ m.key = m.finding /\ m.finding # f
    BY <1>1 DEF FeedbackInvariant, FeedbackKeys
  <1>5. FeedbackKeys'
    BY <1>1, <1>4 DEF FeedbackInvariant, FeedbackKeys, LegacyKey
  <1>6. ASSUME NEW g \in Findings
        PROVE  /\ decided'[g] = "open" => MarksOf(g)' = {}
               /\ g \notin dropped' => SaysDecided(g)'
               /\ ~hadLegacy' /\ decided'[g] # "open" /\ g \notin dropped' => MarksOf(g)' # {}
    <2>1. CASE g = f
      <3>1. MarksOf(g)' = {} /\ decided'[g] = "open"
        BY <1>1, <1>4, <2>1 DEF MarksOf, FeedbackInvariant, FeedbackRows
      <3> QED
        BY <3>1 DEF SaysDecided
    <2>2. CASE g # f
      <3>1. decided'[g] = decided[g] /\ MarksOf(g)' \subseteq MarksOf(g)
        BY <1>1, <2>2 DEF MarksOf, FeedbackInvariant, FeedbackRows
      <3>2. \A m \in MarksOf(g)' : m.key = g
        BY <1>4 DEF MarksOf
      <3>3. g \notin dropped => SaysDecided(g)'
        BY <3>1, <3>2 DEF FeedbackInvariant, FindingsOK, SaysDecided
      <3>4. ~hadLegacy => MarksOf(g)' = MarksOf(g)
        BY <1>1, <2>2 DEF MarksOf, FeedbackInvariant, FeedbackKeys
      <3> QED
        BY <1>1, <3>1, <3>3, <3>4 DEF FeedbackInvariant, FindingsOK
    <2> QED
      BY <2>1, <2>2
  <1>7. FindingsOK'
    BY <1>6 DEF FindingsOK
  <1> QED
    BY <1>3, <1>5, <1>7 DEF FeedbackInvariant

\* What a decision makes of the rows: the unadopted legacy row becomes the finding's,
\* or the finding's own row is written anew.
LEMMA MarkedRows ==
    ASSUME FeedbackInvariant, NEW f \in Findings, NEW word \in Decisions
    PROVE  \/ /\ marks = {LegacyMark} /\ hadLegacy
              /\ Marked(f, word) = {Mark(LegacyKey, f, word, second)}
           \/ /\ LegacyMark \notin marks
              /\ Marked(f, word) = {m \in marks : m.key # f} \cup {Mark(f, f, word, second)}
  <1>1. CASE LegacyMark \in marks
    <2>1. marks = {LegacyMark} /\ hadLegacy
      BY <1>1, LegacyFields DEF FeedbackInvariant, FeedbackKeys, FeedbackRows
    <2>2. Marked(f, word) = {m \in marks : m.key # LegacyKey} \cup {Mark(LegacyKey, f, word, second)}
      BY <1>1 DEF Marked, LegacyMark
    <2> QED
      BY <2>1, <2>2, LegacyFields
  <1>2. CASE LegacyMark \notin marks
    BY <1>2 DEF Marked, LegacyMark, finding_key
  <1> QED
    BY <1>1, <1>2

LEMMA FeedbackKept ==
    ASSUME FeedbackInvariant, NEW f \in Findings, NEW word \in Decisions,
           set_review_finding_feedback(f, word)
    PROVE  FeedbackInvariant'
  <1> DEFINE rows == Marked(f, word)
  <1>1. PICK spared \in MayStay(rows) :
            /\ marks' = spared
            /\ dropped' = (dropped \ {f}) \cup {m.finding : m \in rows \ spared}
            /\ decided' = [decided EXCEPT ![f] = word]
            /\ UNCHANGED <<second, hadLegacy>>
    BY DEF set_review_finding_feedback
  <1>0. \/ marks = {LegacyMark} /\ hadLegacy /\ rows = {Mark(LegacyKey, f, word, second)}
        \/ LegacyMark \notin marks /\ rows = {m \in marks : m.key # f} \cup {Mark(f, f, word, second)}
    BY MarkedRows
  <1> HIDE DEF rows
  <1>2. PICK key \in Identities, new \in MarkRow, old \in SUBSET marks :
            /\ rows = old \cup {new}
            /\ new.key = key /\ new.finding = f /\ new.status = word /\ new.at = second
            /\ \A m \in old : m.key # key /\ m.finding # NoIdentity
            /\ \/ key = LegacyKey /\ old = {} /\ marks = {LegacyMark} /\ hadLegacy
               \/ key = f /\ old = {m \in marks : m.key # f} /\ LegacyMark \notin marks
    <2>1. second \in Nat /\ f \in Identities /\ LegacyKey \in Identities
      BY DEF FeedbackInvariant, FeedbackRows, Identities, LegacyKey
    <2>2. CASE marks = {LegacyMark} /\ hadLegacy /\ rows = {Mark(LegacyKey, f, word, second)}
      <3>1. NoIdentity \in Identities
        BY DEF Identities
      <3>2. PICK new \in MarkRow : /\ new = Mark(LegacyKey, f, word, second)
                                  /\ new.key = LegacyKey /\ new.finding = f
                                  /\ new.status = word /\ new.at = second
        BY <2>1, MarkFields
      <3>3. rows = {} \cup {new} /\ {} \in SUBSET marks
        BY <2>2, <3>2
      <3> QED
        BY <2>1, <2>2, <3>2, <3>3
    <2>3. CASE LegacyMark \notin marks
               /\ rows = {m \in marks : m.key # f} \cup {Mark(f, f, word, second)}
      <3>1. \A m \in marks : m.finding # NoIdentity
        BY <2>3 DEF FeedbackInvariant, FeedbackKeys
      <3>2. Mark(f, f, word, second) \in MarkRow
        BY <2>1, MarkFields
      <3> QED
        <4>1. PICK new \in MarkRow : /\ new = Mark(f, f, word, second)
                                    /\ new.key = f /\ new.finding = f /\ new.status = word
                                    /\ new.at = second
          BY <2>1, <3>2, MarkFields
        <4>2. PICK old \in SUBSET marks : old = {m \in marks : m.key # f}
          OBVIOUS
        <4>3. rows = old \cup {new} /\ \A m \in old : m.key # f /\ m.finding # NoIdentity
          BY <2>3, <3>1, <4>1, <4>2
        <4> QED
          BY <2>1, <2>3, <4>1, <4>2, <4>3
    <2> QED
      BY <1>0, <2>2, <2>3
  <1>3. spared \subseteq rows /\ Cardinality(spared) <= FeedbackRetention
    BY DEF MayStay
  <1>4. IsFiniteSet(spared)
    <2>1. IsFiniteSet(old)
      BY FS_Subset DEF FeedbackInvariant, FeedbackRows
    <2> QED
      BY <1>2, <1>3, <2>1, FS_AddElement, FS_Subset
  <1>5. FeedbackRows'
    <2>1. rows \subseteq MarkRow /\ \A m \in rows : m.at <= second
      BY <1>2 DEF FeedbackInvariant, FeedbackRows, MarkRow
    <2>2. dropped' \in SUBSET Identities
      BY <1>1, <2>1 DEF FeedbackInvariant, FeedbackRows, MarkRow
    <2> QED
      BY <1>1, <1>3, <1>4, <2>1, <2>2 DEF FeedbackInvariant, FeedbackRows
  <1>6. \A m \in rows : m = new \/ (m \in old /\ m \in marks)
    BY <1>2
  <1>7. FeedbackKeys'
    <2>1. \A m, n \in rows : m.key = n.key => m = n
      BY <1>2, <1>6 DEF FeedbackInvariant, FeedbackKeys
    <2>2. \A m \in rows : m.key # LegacyKey => m.key = m.finding
      BY <1>2, <1>6 DEF FeedbackInvariant, FeedbackKeys
    <2>3. \A m \in rows : m.finding # NoIdentity
      BY <1>2, <1>6, FeedbackAssumption
    <2>4. ~hadLegacy => \A m \in rows : m.key # LegacyKey
      BY <1>2, <1>6, FeedbackAssumption DEF FeedbackInvariant, FeedbackKeys, LegacyKey
    <2> QED
      BY <1>1, <1>3, <2>1, <2>2, <2>3, <2>4 DEF FeedbackKeys
  <1>8. \A m \in rows : m.finding \notin dropped' => m \in spared
    BY <1>1
  <1>9. ASSUME NEW g \in Findings
        PROVE  /\ decided'[g] = "open" => MarksOf(g)' = {}
               /\ g \notin dropped' => SaysDecided(g)'
               /\ ~hadLegacy' /\ decided'[g] # "open" /\ g \notin dropped' => MarksOf(g)' # {}
    <2>1. CASE g = f
      <3>1. decided'[g] = word /\ word # "open"
        BY <1>1, <2>1 DEF FeedbackInvariant, FeedbackRows, Decisions
      <3>2. g \notin dropped' => new \in MarksOf(g)'
        BY <1>1, <1>2, <1>8, <2>1 DEF MarksOf
      <3>3. \A m \in MarksOf(g)' : m.at <= new.at
        BY <1>1, <1>2, <1>3, <1>6 DEF MarksOf, FeedbackInvariant, FeedbackRows, MarkRow
      <3>4. ASSUME g \notin dropped', NEW m \in MarksOf(g)',
                   m.key = g \/ (\A n \in MarksOf(g)' : n.key # g)
            PROVE  m = new
        <4>1. CASE new.key = g
          BY <1>2, <1>3, <1>1, <1>6, <2>1, <3>2, <3>4, <4>1 DEF MarksOf
        <4>2. CASE new.key # g
          BY <1>1, <1>2, <1>3, <2>1, <4>2 DEF MarksOf
        <4> QED
          BY <4>1, <4>2
      <3>5. g \notin dropped' => SaysDecided(g)'
        BY <1>2, <3>1, <3>3, <3>4 DEF SaysDecided
      <3> QED
        BY <3>1, <3>2, <3>5
    <2>2. CASE g # f
      <3>1. decided'[g] = decided[g]
        BY <1>1, <2>2 DEF FeedbackInvariant, FeedbackRows
      <3>2. MarksOf(g)' \subseteq MarksOf(g)
        BY <1>1, <1>2, <1>3, <1>6, <2>2 DEF MarksOf
      <3>3. MarksOf(g) \subseteq rows \/ (marks = {LegacyMark} /\ hadLegacy)
        BY <1>2, <2>2, FeedbackAssumption DEF MarksOf, FeedbackInvariant, FeedbackKeys, LegacyKey
      <3>4. marks = {LegacyMark} => MarksOf(g) = {}
        BY LegacyFields, FeedbackAssumption DEF MarksOf
      <3>5. MarksOf(g) \subseteq rows
        BY <3>3, <3>4
      <3>6. g \notin dropped' => MarksOf(g)' = MarksOf(g)
        BY <1>1, <1>8, <3>2, <3>5 DEF MarksOf
      <3>7. g \notin dropped' => g \notin dropped
        BY <1>1, <2>2
      <3> QED
        BY <1>1, <3>1, <3>2, <3>6, <3>7 DEF FeedbackInvariant, FindingsOK, SaysDecided
    <2> QED
      BY <2>1, <2>2
  <1>10. FindingsOK'
    BY <1>9 DEF FindingsOK
  <1> QED
    BY <1>5, <1>7, <1>10 DEF FeedbackInvariant

LEMMA SecondsPass ==
    ASSUME FeedbackInvariant, NextSecond \/ UNCHANGED feedbackVars
    PROVE  FeedbackInvariant'
  <1>1. /\ second' \in Nat /\ second <= second' /\ second' <= LastSecond
        /\ UNCHANGED <<marks, decided, dropped, hadLegacy>>
    BY FeedbackAssumption DEF NextSecond, feedbackVars, FeedbackInvariant, FeedbackRows
  <1>2. \A m \in marks : m.at <= second'
    BY <1>1 DEF FeedbackInvariant, FeedbackRows, MarkRow
  <1>3. FeedbackRows'
    BY <1>1, <1>2 DEF FeedbackInvariant, FeedbackRows
  <1> QED
    BY <1>1, <1>3 DEF FeedbackInvariant, FeedbackKeys, FindingsOK, SaysDecided, MarksOf

LEMMA FeedbackKeeps == FeedbackInvariant /\ [FeedbackNext]_feedbackVars => FeedbackInvariant'
  BY ClearMarkKeeps, FeedbackKept, SecondsPass DEF FeedbackNext

\* What a finding shows is what was decided on it last, whoever shares its text.
THEOREM FeedbackSaysLastDecision == FeedbackSpec => []FeedbackIsLastDecision
  <1>1. ASSUME FeedbackInvariant, NEW f \in Findings, decided[f] # "open", f \notin dropped
        PROVE  /\ MarksOf(f) # {} => \E m \in Newest(f) : m.status = decided[f]
               /\ ~hadLegacy => Cardinality(MarksOf(f)) = 1
    <2>1. SaysDecided(f)
      BY <1>1 DEF FeedbackInvariant, FindingsOK
    <2>2. ASSUME MarksOf(f) # {} PROVE \E m \in Newest(f) : m.status = decided[f]
      <3>1. PICK m \in MarksOf(f) : m.key = f \/ (\A n \in MarksOf(f) : n.key # f)
        BY <2>2
      <3> QED
        BY <2>1, <3>1 DEF SaysDecided, Newest
    <2>3. ASSUME ~hadLegacy PROVE Cardinality(MarksOf(f)) = 1
      <3>1. PICK m : m \in MarksOf(f)
        BY <1>1, <2>3 DEF FeedbackInvariant, FindingsOK
      <3>2. MarksOf(f) = {m}
        BY <1>1, <2>3, <3>1 DEF FeedbackInvariant, FeedbackKeys, MarksOf
      <3> QED
        BY <3>2, FS_Singleton
    <2> QED
      BY <2>2, <2>3
  <1>2. FeedbackInvariant => FeedbackIsLastDecision
    BY <1>1 DEF FeedbackInvariant, FindingsOK, FeedbackIsLastDecision
  <1> QED
    BY <1>2, FeedbackStart, FeedbackKeeps, PTL DEF FeedbackSpec

-----------------------------------------------------------------------------

(***************************************************************************)
(* Worklog: the snapshot advances only over what the worklog has got.       *)
(***************************************************************************)

UpdaterRow == [pc : {"idle", "started", "loaded", "ok", "failed"}, copy : SUBSET Notes,
               notes : SUBSET Notes]
WatcherRow == [mode : {"off", "once", "forever"}, pc : {"off", "updating", "sleeping"},
               previous : Snapshots, current : Snapshots, change : BOOLEAN]

LogRows ==
    /\ disk \in Snapshots /\ saved \in Snapshots /\ baseline \in Snapshots
    /\ edited \in 0..MaxEdits
    /\ log \in SUBSET Notes /\ overwritten \in SUBSET Notes
    /\ updater \in [Updaters -> UpdaterRow] /\ watcher \in WatcherRow
    /\ overlapped \in BOOLEAN
    /\ watcher.pc = "off" <=> watcher.mode = "off"

\* What was ever in the worklog: a note that is missing from it was written over.
Ever == log \cup overwritten

\* The snapshots the watcher goes on from, and what its updater was given to note.
SnapshotsReported ==
    /\ Reported(saved)
    /\ watcher.pc # "off" => Reported(watcher.previous)
    /\ watcher.pc = "updating" /\ watcher.change =>
          updater["watcher"].notes = diff_snapshots(watcher.previous, watcher.current)
    /\ watcher.pc = "updating" => updater["watcher"].pc # "idle"
    /\ updater["watcher"].pc = "ok" => updater["watcher"].notes \subseteq Ever

\* Until two updaters have overlapped, one that has read the worklog has all of it.
CopiesWhole ==
    ~overlapped =>
        /\ overwritten = {}
        /\ \A u \in Updaters : updater[u].pc = "loaded" => updater[u].copy = log

LogInvariant == LogRows /\ SnapshotsReported /\ CopiesWhole

LEMMA IdleUpdaterRow ==
    /\ IdleUpdater \in UpdaterRow
    /\ IdleUpdater.pc = "idle" /\ IdleUpdater.copy = {} /\ IdleUpdater.notes = {}
  BY DEF IdleUpdater, UpdaterRow

LEMMA NoWatcherRow ==
    NoWatcher \in WatcherRow /\ NoWatcher.mode = "off" /\ NoWatcher.pc = "off"
  BY WorklogAssumption DEF NoWatcher, WatcherRow, Snapshots, EmptySnapshot

LEMMA LogStart == LogInit => LogInvariant
  <1> SUFFICES ASSUME LogInit PROVE LogInvariant
    OBVIOUS
  <1>1. EmptySnapshot \in Snapshots
    BY WorklogAssumption DEF Snapshots, EmptySnapshot
  <1>2. LogRows
    <2>1. disk \in Snapshots /\ edited \in 0..MaxEdits
      BY WorklogAssumption DEF LogInit, Snapshots
    <2>2. updater \in [Updaters -> UpdaterRow]
      BY IdleUpdaterRow DEF LogInit
    <2> QED
      BY <1>1, <2>1, <2>2, NoWatcherRow DEF LogInit, LogRows
  <1>3. \A u \in Updaters : updater[u] = IdleUpdater
    BY DEF LogInit
  <1>4. SnapshotsReported
    BY <1>3, NoWatcherRow, IdleUpdaterRow DEF LogInit, SnapshotsReported, Reported, Updaters
  <1>5. CopiesWhole
    BY <1>3, IdleUpdaterRow DEF LogInit, CopiesWhole
  <1> QED
    BY <1>2, <1>4, <1>5 DEF LogInvariant

\* The notes of the changes between two snapshots are notes, and report the second one
\* where the first was reported.
LEMMA DiffReports ==
    ASSUME NEW previous \in Snapshots, NEW current \in Snapshots
    PROVE  /\ diff_snapshots(previous, current) \in SUBSET Notes
           /\ Reported(previous) /\ diff_snapshots(previous, current) \subseteq Ever => Reported(current)
  <1>1. \A f \in WatchedFiles : <<f, current[f]>> \in Notes
    BY DEF Snapshots, Notes
  <1>2. diff_snapshots(previous, current) \subseteq Notes
    BY <1>1 DEF diff_snapshots
  <1>3. ASSUME Reported(previous), diff_snapshots(previous, current) \subseteq Ever,
               NEW f \in WatchedFiles, current[f] # baseline[f]
        PROVE  <<f, current[f]>> \in log \cup overwritten
    <2>1. CASE previous[f] = current[f]
      BY <1>3, <2>1 DEF Reported
    <2>2. CASE previous[f] # current[f]
      <3>1. <<f, current[f]>> \in diff_snapshots(previous, current)
        BY <2>2 DEF diff_snapshots
      <3> QED
        BY <1>3, <3>1 DEF Ever
    <2> QED
      BY <2>1, <2>2
  <1> QED
    BY <1>2, <1>3 DEF Reported

-----------------------------------------------------------------------------
(* The updaters *)

\* What a step of an updater other than its write may do.
LEMMA UpdaterMoves ==
    ASSUME LogInvariant, NEW u \in Updaters, NEW row \in UpdaterRow,
           updater' = [updater EXCEPT ![u] = row],
           row.pc # "ok",
           row.pc = "loaded" => row.copy = log,
           u = "watcher" => row.pc # "idle" /\ row.notes = updater[u].notes,
           UNCHANGED <<disk, edited, saved, watcher, log, baseline, overwritten, overlapped>>
    PROVE  LogInvariant'
  <1>1. \A v \in Updaters : updater'[v] = IF v = u THEN row ELSE updater[v]
    BY DEF LogInvariant, LogRows
  <1>2. LogRows'
    BY DEF LogInvariant, LogRows
  <1>3. "watcher" \in Updaters
    BY DEF Updaters
  <1>4. SnapshotsReported'
    BY <1>1, <1>3 DEF LogInvariant, SnapshotsReported, Reported, Ever
  <1>5. CopiesWhole'
    BY <1>1 DEF LogInvariant, CopiesWhole
  <1> QED
    BY <1>2, <1>4, <1>5 DEF LogInvariant

LEMMA load_worklogKeeps ==
    ASSUME LogInvariant, NEW u \in Updaters, load_worklog(u)
    PROVE  LogInvariant'
  <1>1. updater[u] \in UpdaterRow /\ log \in SUBSET Notes
    BY DEF LogInvariant, LogRows
  <1>2. PICK row \in UpdaterRow : row = [updater[u] EXCEPT !.pc = "loaded", !.copy = log]
    BY <1>1 DEF UpdaterRow
  <1>3. row.pc = "loaded" /\ row.copy = log /\ row.notes = updater[u].notes
    BY <1>1, <1>2 DEF UpdaterRow
  <1>4. updater' = [updater EXCEPT ![u] = row]
    BY <1>2 DEF load_worklog, LogInvariant, LogRows
  <1> QED
    BY <1>3, <1>4, UpdaterMoves DEF load_worklog

LEMMA UpdaterFailsKeeps ==
    ASSUME LogInvariant, NEW u \in Updaters, UpdaterFails(u)
    PROVE  LogInvariant'
  <1>1. updater[u] \in UpdaterRow
    BY DEF LogInvariant, LogRows
  <1>2. PICK row \in UpdaterRow : row = [updater[u] EXCEPT !.pc = "failed"]
    BY <1>1 DEF UpdaterRow
  <1>3. row.pc = "failed" /\ row.notes = updater[u].notes
    BY <1>1, <1>2 DEF UpdaterRow
  <1>4. updater' = [updater EXCEPT ![u] = row]
    BY <1>2 DEF UpdaterFails, LogInvariant, LogRows
  <1> QED
    BY <1>3, <1>4, UpdaterMoves DEF UpdaterFails

LEMMA AgentKeeps ==
    ASSUME LogInvariant, AgentNotesSomething \/ AgentDone
    PROVE  LogInvariant'
  <1>1. "agent" \in Updaters /\ "agent" # "watcher"
    BY DEF Updaters
  <1>2. CASE AgentNotesSomething
    <2>1. PICK note \in AgentNotes : Launch("agent", {note})
      BY <1>2 DEF AgentNotesSomething
    <2> DEFINE row == [pc |-> "started", copy |-> {}, notes |-> {note}]
    <2>2. row \in UpdaterRow /\ row.pc = "started"
      BY DEF UpdaterRow, Notes
    <2>3. updater' = [updater EXCEPT !["agent"] = row]
      BY <2>1 DEF Launch
    <2> HIDE DEF row
    <2> QED
      BY <1>1, <1>2, <2>2, <2>3, UpdaterMoves DEF AgentNotesSomething
  <1>3. CASE AgentDone
    BY <1>1, <1>3, IdleUpdaterRow, UpdaterMoves DEF AgentDone
  <1> QED
    BY <1>2, <1>3

\* A write adds to what was ever in the worklog, and takes a note out only when the
\* copy it is made from is not the worklog any more.
LEMMA atomic_write_textKeeps ==
    ASSUME LogInvariant, NEW u \in Updaters, atomic_write_text(u)
    PROVE  LogInvariant'
  <1>1. updater[u] \in UpdaterRow /\ updater[u].pc = "loaded" /\ "watcher" \in Updaters
    BY DEF LogInvariant, LogRows, atomic_write_text, Updaters
  <1>2. PICK exit \in {"ok", "failed"} : updater' = [updater EXCEPT ![u].pc = exit]
    BY DEF atomic_write_text
  <1>3. PICK row \in UpdaterRow : row = [updater[u] EXCEPT !.pc = exit]
    BY <1>1 DEF UpdaterRow
  <1>4. row.pc = exit /\ row.notes = updater[u].notes
    BY <1>1, <1>3 DEF UpdaterRow
  <1>5. /\ updater' \in [Updaters -> UpdaterRow]
        /\ \A v \in Updaters : updater'[v] = IF v = u THEN row ELSE updater[v]
    BY <1>2, <1>3 DEF LogInvariant, LogRows
  <1>6. /\ log' = updater[u].copy \cup updater[u].notes
        /\ overwritten' = (overwritten \cup log) \ log'
        /\ UNCHANGED <<disk, edited, saved, watcher, baseline>>
    BY DEF atomic_write_text, Merged
  <1>7. LogRows'
    <2>1. log' \in SUBSET Notes /\ overwritten' \in SUBSET Notes
      BY <1>1, <1>6 DEF LogInvariant, LogRows, UpdaterRow
    <2>2. overlapped' \in BOOLEAN
      BY DEF atomic_write_text
    <2> QED
      BY <1>5, <1>6, <2>1, <2>2 DEF LogInvariant, LogRows
  <1>8. Ever \subseteq Ever' /\ row.notes \subseteq Ever'
    BY <1>4, <1>6 DEF Ever
  <1>9. Reported(saved)' /\ (watcher.pc # "off" => Reported(watcher.previous)')
    BY <1>6, <1>8 DEF LogInvariant, SnapshotsReported, Reported, Ever
  <1>10. SnapshotsReported'
    BY <1>1, <1>4, <1>5, <1>6, <1>8, <1>9 DEF LogInvariant, SnapshotsReported
  <1>11. CopiesWhole'
    <2> SUFFICES ASSUME ~overlapped' PROVE overwritten' = {} /\ \A v \in Updaters :
                                               updater'[v].pc = "loaded" => updater'[v].copy = log'
      BY DEF CopiesWhole
    <2>1. ~overlapped /\ \A v \in Updaters \ {u} : updater[v].pc # "loaded"
      BY DEF atomic_write_text
    <2> QED
      BY <1>1, <1>4, <1>5, <1>6, <2>1 DEF LogInvariant, CopiesWhole
  <1> QED
    BY <1>7, <1>10, <1>11 DEF LogInvariant
-----------------------------------------------------------------------------
(* The watcher *)

\* It has its updater note what it found, from a snapshot that is reported.
LEMMA WatcherLaunches ==
    ASSUME LogInvariant, NEW mode \in {"once", "forever"}, NEW previous \in Snapshots,
           NEW change \in BOOLEAN, NEW notes \in SUBSET Notes,
           Launch("watcher", notes), Watching(mode, "updating", previous, change),
           change => notes = diff_snapshots(previous, disk),
           saved' \in Snapshots, baseline' \in Snapshots,
           \A f \in WatchedFiles : saved'[f] # baseline'[f] => <<f, saved'[f]>> \in Ever,
           \A f \in WatchedFiles : previous[f] # baseline'[f] => <<f, previous[f]>> \in Ever,
           UNCHANGED <<disk, edited, log, overwritten, overlapped>>
    PROVE  LogInvariant'
  <1> DEFINE row == [pc |-> "started", copy |-> {}, notes |-> notes]
  <1>1. row \in UpdaterRow /\ row.pc = "started" /\ row.notes = notes
    BY DEF UpdaterRow
  <1>2. updater' = [updater EXCEPT !["watcher"] = row]
    BY DEF Launch
  <1> HIDE DEF row
  <1>3. "watcher" \in Updaters
    BY DEF Updaters
  <1>4. /\ updater' \in [Updaters -> UpdaterRow] /\ updater'["watcher"] = row
        /\ \A u \in Updaters : updater'[u].pc = "loaded" => updater'[u] = updater[u]
    BY <1>1, <1>2, <1>3 DEF LogInvariant, LogRows
  <1>5. /\ watcher' \in WatcherRow /\ watcher'.mode = mode /\ watcher'.pc = "updating"
        /\ watcher'.previous = previous /\ watcher'.current = disk /\ watcher'.change = change
    BY DEF Watching, WatcherRow, LogInvariant, LogRows
  <1>6. LogRows'
    BY <1>4, <1>5 DEF LogInvariant, LogRows
  <1>7. SnapshotsReported'
    BY <1>1, <1>4, <1>5 DEF SnapshotsReported, Reported, Ever
  <1>8. CopiesWhole'
    BY <1>4 DEF LogInvariant, CopiesWhole
  <1> QED
    BY <1>6, <1>7, <1>8 DEF LogInvariant

LEMMA BaselineTaken ==
    ASSUME LogInvariant, NEW mode \in {"once", "forever"}, TakeBaseline,
           Launch("watcher", {}), Watching(mode, "updating", disk, FALSE),
           UNCHANGED <<disk, edited, log, overwritten, overlapped>>
    PROVE  LogInvariant'
  <1>1. disk \in Snapshots /\ saved' = disk /\ baseline' = disk
    BY DEF LogInvariant, LogRows, TakeBaseline
  <1>2. {} \in SUBSET Notes /\ FALSE \in BOOLEAN
    OBVIOUS
  <1> QED
    BY <1>1, <1>2, WatcherLaunches

LEMMA run_onceKeeps ==
    ASSUME LogInvariant, run_once
    PROVE  LogInvariant'
  <1>1. disk \in Snapshots /\ saved \in Snapshots /\ baseline \in Snapshots
    BY DEF LogInvariant, LogRows
  <1>2. CASE saved = EmptySnapshot
    BY <1>2, BaselineTaken DEF run_once
  <1>3. CASE saved # EmptySnapshot /\ saved = disk
    BY <1>3 DEF run_once, LogInvariant, LogRows, SnapshotsReported, CopiesWhole, Reported, Ever
  <1>4. CASE saved # EmptySnapshot /\ saved # disk
    <2>1. /\ Launch("watcher", diff_snapshots(saved, disk)) /\ Watching("once", "updating", saved, TRUE)
          /\ UNCHANGED <<saved, baseline, disk, edited, log, overwritten, overlapped>>
      BY <1>4 DEF run_once
    <2>2. diff_snapshots(saved, disk) \in SUBSET Notes
      BY <1>1, DiffReports
    <2>3. \A f \in WatchedFiles : saved[f] # baseline[f] => <<f, saved[f]>> \in Ever
      BY DEF LogInvariant, SnapshotsReported, Reported, Ever
    <2> QED
      BY <1>1, <2>1, <2>2, <2>3, WatcherLaunches
  <1> QED
    BY <1>2, <1>3, <1>4

LEMMA PollKeeps ==
    ASSUME LogInvariant, Poll
    PROVE  LogInvariant'
  <1>1. disk \in Snapshots /\ saved \in Snapshots /\ baseline \in Snapshots
        /\ watcher.previous \in Snapshots
    BY DEF LogInvariant, LogRows, WatcherRow
  <1>2. diff_snapshots(watcher.previous, disk) \in SUBSET Notes
    BY <1>1, DiffReports
  <1>3. /\ \A f \in WatchedFiles : saved[f] # baseline[f] => <<f, saved[f]>> \in Ever
        /\ \A f \in WatchedFiles :
              watcher.previous[f] # baseline[f] => <<f, watcher.previous[f]>> \in Ever
    BY DEF Poll, LogInvariant, SnapshotsReported, Reported, Ever
  <1>4. PICK previous \in Snapshots : previous = watcher.previous
    BY <1>1
  <1> QED
    BY <1>1, <1>2, <1>3, <1>4, WatcherLaunches DEF Poll

\* The watcher leaves: nothing goes on from what it held.
LEMMA WatcherLeaves ==
    ASSUME LogInvariant, watcher' = NoWatcher,
           updater' = updater \/ updater' = [updater EXCEPT !["watcher"] = IdleUpdater],
           saved' \in Snapshots, baseline' \in Snapshots, Reported(saved)',
           UNCHANGED <<disk, edited, log, overwritten, overlapped>>
    PROVE  LogInvariant'
  <1>1. /\ updater' \in [Updaters -> UpdaterRow]
        /\ \A u \in Updaters : updater'[u] = updater[u] \/ updater'[u].pc = "idle"
    BY IdleUpdaterRow DEF LogInvariant, LogRows
  <1>2. LogRows'
    BY <1>1, NoWatcherRow DEF LogInvariant, LogRows
  <1>3. "watcher" \in Updaters
    BY DEF Updaters
  <1>4. SnapshotsReported'
    BY <1>1, <1>3, NoWatcherRow DEF LogInvariant, SnapshotsReported, Ever
  <1>5. CopiesWhole'
    BY <1>1 DEF LogInvariant, CopiesWhole
  <1> QED
    BY <1>2, <1>4, <1>5 DEF LogInvariant

\* What is advanced to differs from what was reported by what the updater has noted.
LEMMA UpdaterReturnedKeeps ==
    ASSUME LogInvariant, UpdaterReturned
    PROVE  LogInvariant'
  <1> DEFINE advance == watcher.change /\ update_accepted
  <1>1. /\ watcher \in WatcherRow /\ watcher.pc = "updating" /\ "watcher" \in Updaters
        /\ saved \in Snapshots /\ baseline \in Snapshots
        /\ watcher.previous \in Snapshots /\ watcher.current \in Snapshots
        /\ watcher.change \in BOOLEAN
    BY DEF LogInvariant, LogRows, UpdaterReturned, Updaters, WatcherRow
  <1>2. /\ saved' = IF advance THEN watcher.current ELSE saved
        /\ updater' = [updater EXCEPT !["watcher"] = IdleUpdater]
        /\ UNCHANGED <<disk, edited, log, baseline, overwritten, overlapped>>
        /\ watcher' = IF watcher.mode = "once" THEN NoWatcher
                      ELSE [watcher EXCEPT !.pc = "sleeping", !.change = FALSE,
                               !.previous = IF advance THEN watcher.current ELSE @]
    BY DEF UpdaterReturned
  <1>3. advance => Reported(watcher.current)
    BY <1>1, DiffReports DEF LogInvariant, SnapshotsReported, update_accepted
  <1>4. Reported(saved) /\ Reported(watcher.previous)
    BY <1>1 DEF LogInvariant, SnapshotsReported
  <1>5. saved' \in Snapshots /\ Reported(saved)'
    BY <1>1, <1>2, <1>3, <1>4 DEF Reported
  <1>6. CASE watcher.mode = "once"
    BY <1>1, <1>2, <1>5, <1>6, WatcherLeaves
  <1>7. CASE watcher.mode # "once"
    <2> DEFINE previous == IF advance THEN watcher.current ELSE watcher.previous
    <2>1. previous \in Snapshots /\ \A f \in WatchedFiles :
              previous[f] # baseline[f] => <<f, previous[f]>> \in Ever
      BY <1>1, <1>3, <1>4 DEF Reported, Ever
    <2>2. watcher' = [watcher EXCEPT !.pc = "sleeping", !.change = FALSE, !.previous = previous]
      BY <1>1, <1>2, <1>7
    <2> HIDE DEF previous, advance
    <2>3. /\ watcher' \in WatcherRow /\ watcher'.pc = "sleeping" /\ watcher'.mode = watcher.mode
          /\ watcher'.previous = previous
      BY <1>1, <2>1, <2>2 DEF WatcherRow
    <2>4. watcher.mode # "off"
      BY <1>1 DEF LogInvariant, LogRows
    <2>5. /\ updater' \in [Updaters -> UpdaterRow] /\ updater'["watcher"].pc = "idle"
          /\ \A u \in Updaters : updater'[u].pc = "loaded" => updater'[u] = updater[u]
      BY <1>1, <1>2, IdleUpdaterRow DEF LogInvariant, LogRows
    <2>6. LogRows'
      BY <1>2, <1>5, <2>3, <2>4, <2>5 DEF LogInvariant, LogRows
    <2>7. SnapshotsReported'
      BY <1>1, <1>2, <1>5, <2>1, <2>3, <2>5 DEF SnapshotsReported, Reported, Ever
    <2>8. CopiesWhole'
      BY <1>2, <2>5 DEF LogInvariant, CopiesWhole
    <2> QED
      BY <2>6, <2>7, <2>8 DEF LogInvariant
  <1> QED
    BY <1>6, <1>7

LEMMA WatcherGoneKeeps ==
    ASSUME LogInvariant, WatcherStops \/ OrphanEnds \/ StateFileLost
    PROVE  LogInvariant'
  <1>1. saved \in Snapshots /\ baseline \in Snapshots /\ EmptySnapshot \in Snapshots /\ Reported(saved)
    BY WorklogAssumption DEF LogInvariant, LogRows, SnapshotsReported, Snapshots, EmptySnapshot
  <1>2. CASE WatcherStops
    <2>1. Reported(saved)'
      BY <1>1, <1>2 DEF WatcherStops, Reported
    <2> QED
      BY <1>1, <1>2, <2>1, WatcherLeaves DEF WatcherStops
  <1>3. CASE OrphanEnds
    <2>1. /\ watcher.pc = "off" /\ "watcher" \in Updaters
          /\ updater' = [updater EXCEPT !["watcher"] = IdleUpdater]
          /\ UNCHANGED <<disk, edited, saved, watcher, log, baseline, overwritten, overlapped>>
      BY <1>3 DEF OrphanEnds, LogInvariant, LogRows, Updaters
    <2>2. /\ updater' \in [Updaters -> UpdaterRow] /\ updater'["watcher"].pc = "idle"
          /\ \A u \in Updaters : updater'[u].pc = "loaded" => updater'[u] = updater[u]
      BY <2>1, IdleUpdaterRow DEF LogInvariant, LogRows
    <2> QED
      BY <2>1, <2>2 DEF LogInvariant, LogRows, SnapshotsReported, Reported, Ever, CopiesWhole
  <1>4. CASE StateFileLost
    <2>1. watcher.pc = "off" /\ saved' = EmptySnapshot /\ baseline' = EmptySnapshot
          /\ UNCHANGED <<disk, edited, watcher, updater, log, overwritten, overlapped>>
      BY <1>4 DEF StateFileLost, LogInvariant, LogRows
    <2>2. Reported(saved)'
      BY <2>1 DEF Reported
    <2> QED
      BY <1>1, <2>1, <2>2 DEF LogInvariant, LogRows, SnapshotsReported, Ever, CopiesWhole
  <1> QED
    BY <1>2, <1>3, <1>4

LEMMA FileEditKeeps ==
    ASSUME LogInvariant, NEW f \in WatchedFiles, Edit(f)
    PROVE  LogInvariant'
  <1>1. edited \in 0..MaxEdits /\ edited < MaxEdits /\ edited' = edited + 1
    BY DEF LogInvariant, LogRows, Edit
  <1>2. edited' \in 0..MaxEdits /\ 0 \in 0..MaxEdits
    BY <1>1, WorklogAssumption
  <1>3. disk' \in Snapshots
    BY <1>2 DEF Edit, LogInvariant, LogRows, Snapshots
  <1>4. UNCHANGED <<saved, watcher, updater, log, baseline, overwritten, overlapped>>
    BY DEF Edit
  <1> QED
    BY <1>2, <1>3, <1>4 DEF LogInvariant, LogRows, SnapshotsReported, Reported, Ever, CopiesWhole

LEMMA LogRests ==
    ASSUME LogInvariant, UNCHANGED logVars
    PROVE  LogInvariant'
  BY DEF LogInvariant, LogRows, SnapshotsReported, Reported, Ever, CopiesWhole, logVars

LEMMA run_foreverKeeps ==
    ASSUME LogInvariant, run_forever
    PROVE  LogInvariant'
  BY BaselineTaken DEF run_forever

LEMMA LogKeeps == LogInvariant /\ [LogNext]_logVars => LogInvariant'
  BY load_worklogKeeps, atomic_write_textKeeps, UpdaterFailsKeeps, AgentKeeps, FileEditKeeps,
     run_onceKeeps, run_foreverKeeps, PollKeeps, UpdaterReturnedKeeps, WatcherGoneKeeps, LogRests
  DEF LogNext

\* The watcher goes on from no change the worklog has not got, whatever fails.
THEOREM ChangesReachTheWorklog == LogSpec => []ChangeReachesWorklog
  <1>1. LogInvariant => ChangeReachesWorklog
    BY DEF LogInvariant, LogRows, SnapshotsReported, CopiesWhole, ChangeReachesWorklog
  <1> QED
    BY <1>1, LogStart, LogKeeps, PTL DEF LogSpec

-----------------------------------------------------------------------------

(***************************************************************************)
(* Discovery: a search finds who is there.                                  *)
(***************************************************************************)

CandidateRow == [id : Daemons, port : Ports, source : {"registry", "legacy_config"}]
ShownRow == [id : Daemons, status : {"legacy", "ready", "offline"}, answered : SUBSET Daemons]
SearchRow == [pc : {"idle", "probing"}, candidates : SUBSET CandidateRow, shown : SUBSET ShownRow,
              saw : SUBSET Daemons]

DiscoveryRows ==
    /\ stage \in [Daemons -> {"new", "bound", "registered", "serving", "gone"}]
    /\ port \in [Daemons -> Ports]
    /\ registry \in SUBSET Daemons /\ config \in 0..MaxDaemons
    /\ search \in SearchRow /\ stayed \in SUBSET Daemons
    /\ \A d, e \in Bound : port[d] = port[e] => d = e
    /\ \A d \in Daemons : stage[d] \in {"registered", "serving"} => d \in registry

\* A daemon that stayed is a candidate until its probe, unless another stood before it.
FoundSoFar(d) ==
    \/ \E s \in search.shown : s.id = d /\ s.status = "ready"
    \/ d \in slow \/ Crowded(d) \/ Hidden(d)
    \/ Candidate(d, "registry") \in search.candidates
StayedFound ==
    /\ \A s \in search.shown : s.status = "ready" => s.id \in s.answered
    /\ \A d \in stayed : stage[d] = "serving" /\ (search.pc = "probing" => FoundSoFar(d))

DiscoveryInvariant == DiscoveryRows /\ StayedFound

LEMMA DiscoveryStart == DiscoveryInit => DiscoveryInvariant
  <1> SUFFICES ASSUME DiscoveryInit PROVE DiscoveryInvariant
    OBVIOUS
  <1>1. search \in SearchRow /\ search.shown = {}
    BY DEF DiscoveryInit, NoSearch, SearchRow
  <1>2. DiscoveryRows
    BY <1>1, DiscoveryAssumption DEF DiscoveryInit, DiscoveryRows, Bound
  <1>3. StayedFound
    BY <1>1 DEF DiscoveryInit, StayedFound
  <1> QED
    BY <1>2, <1>3 DEF DiscoveryInvariant

LEMMA CandidateFields ==
    ASSUME DiscoveryInvariant, NEW d \in Daemons, NEW source \in {"registry", "legacy_config"}
    PROVE  /\ Candidate(d, source) \in CandidateRow
           /\ Candidate(d, source).id = d /\ Candidate(d, source).port = port[d]
           /\ Candidate(d, source).source = source
  BY DEF Candidate, CandidateRow, DiscoveryInvariant, DiscoveryRows

\* A daemon's step: it leaves the search alone, and who stays serves on.
LEMMA DaemonMoves ==
    ASSUME DiscoveryInvariant, NEW d \in Daemons,
           NEW s \in {"bound", "registered", "serving", "gone"},
           stage' = [stage EXCEPT ![d] = s],
           s = "bound" => \A other \in Bound : port[other] # port[d],
           s \in {"registered", "serving"} => d \in registry' /\ d \in Bound,
           registry' \in SUBSET Daemons, registry \ {d} \subseteq registry',
           config' \in 0..MaxDaemons,
           stayed' \subseteq stayed, d \in stayed' => s = "serving",
           UNCHANGED <<port, search, slow>>
    PROVE  DiscoveryInvariant'
  <1>1. /\ stage' \in [Daemons -> {"new", "bound", "registered", "serving", "gone"}]
        /\ \A e \in Daemons : stage'[e] = IF e = d THEN s ELSE stage[e]
    BY DEF DiscoveryInvariant, DiscoveryRows
  <1>2. \A e \in Daemons : e \in Bound' => e \in Bound \/ (e = d /\ s = "bound")
    BY <1>1 DEF Bound
  <1>3. \A e, f \in Bound' : port[e] = port[f] => e = f
    BY <1>2 DEF DiscoveryInvariant, DiscoveryRows, Bound
  <1>4. \A e \in Daemons : stage'[e] \in {"registered", "serving"} => e \in registry'
    BY <1>1 DEF DiscoveryInvariant, DiscoveryRows
  <1>5. DiscoveryRows'
    BY <1>1, <1>3, <1>4 DEF DiscoveryInvariant, DiscoveryRows
  <1>6. \A e \in stayed' : e \in stayed /\ e \in Daemons /\ stage'[e] = "serving"
    BY <1>1 DEF DiscoveryInvariant, DiscoveryRows, StayedFound
  <1>7. StayedFound'
    BY <1>6 DEF DiscoveryInvariant, StayedFound, FoundSoFar, Crowded, Hidden, Preceding, Candidate
  <1> QED
    BY <1>5, <1>7 DEF DiscoveryInvariant

LEMMA DaemonsKeep ==
    ASSUME DiscoveryInvariant, NEW d \in Daemons,
           Bind(d) \/ register(d) \/ write_json(d) \/ unregister(d) \/ Killed(d)
    PROVE  DiscoveryInvariant'
  <1>1. /\ registry \in SUBSET Daemons /\ config \in 0..MaxDaemons /\ d \in 0..MaxDaemons
        /\ stayed \subseteq stayed
        /\ \A e \in stayed : stage[e] = "serving"
    BY DiscoveryAssumption DEF DiscoveryInvariant, DiscoveryRows, StayedFound, Daemons
  <1>2. CASE Bind(d)
    BY <1>1, <1>2, DaemonMoves DEF Bind, Becomes
  <1>3. CASE register(d)
    <2>1. d \in Bound /\ d \notin stayed
      BY <1>1, <1>3 DEF register, Bound
    <2> QED
      BY <1>1, <1>3, <2>1, DaemonMoves DEF register, Becomes
  <1>4. CASE write_json(d)
    <2>1. d \in Bound /\ d \in registry
      BY <1>4 DEF write_json, Bound, DiscoveryInvariant, DiscoveryRows
    <2> QED
      BY <1>1, <1>4, <2>1, DaemonMoves DEF write_json, Becomes
  <1>5. CASE unregister(d)
    BY <1>1, <1>5, DaemonMoves DEF unregister, Gone, Becomes
  <1>6. CASE Killed(d)
    BY <1>1, <1>6, DaemonMoves DEF Killed, Gone, Becomes
  <1> QED
    BY <1>2, <1>3, <1>4, <1>5, <1>6

LEMMA ListedDaemons ==
    ASSUME DiscoveryInvariant
    PROVE  Listed \subseteq registry /\ Listed \subseteq Daemons /\ Daemons \subseteq Nat
  <1>1. Daemons \subseteq Nat
    BY DiscoveryAssumption DEF Daemons
  <1> QED
    BY <1>1 DEF Listed, DiscoveryInvariant, DiscoveryRows

\* Of the daemons that serve, a search takes the descriptor, or there are others in
\* front of it.
LEMMA CollectFinds ==
    ASSUME DiscoveryInvariant, NEW d \in Daemons, stage[d] = "serving"
    PROVE  \/ Candidate(d, "registry") \in unique(port[d])
           \/ Cardinality(Before(d)) >= MaxDescriptors
           \/ \E e \in Before(d) : port[e] = port[d]
  <1> DEFINE there == {e \in Listed : port[e] = port[d]}
  <1>1. d \in registry
    BY DEF DiscoveryInvariant, DiscoveryRows
  <1>2. Cardinality(Before(d)) \in Nat
    <2>1. IsFiniteSet(Daemons)
      BY FS_Interval, DiscoveryAssumption DEF Daemons
    <2> QED
      BY <2>1, FS_Subset, FS_CardinalityType DEF Before, DiscoveryInvariant, DiscoveryRows
  <1>3. ASSUME Cardinality(Before(d)) < MaxDescriptors, ~\E e \in Before(d) : port[e] = port[d]
        PROVE  Candidate(d, "registry") \in unique(port[d])
    <2>1. d \in there
      BY <1>1, <1>3 DEF Listed
    <2>2. there \in SUBSET Nat /\ there \subseteq registry
      BY ListedDaemons
    <2>3. Min(there) \in there /\ Min(there) <= d
      BY <2>1, <2>2, MinOfNaturals
    <2>4. Min(there) = d
      <3>1. ~(Min(there) < d)
        BY <1>3, <2>2, <2>3 DEF Before
      <3> QED
        BY <2>1, <2>2, <2>3, <3>1
    <2> HIDE DEF there
    <2>5. unique(port[d]) = {Candidate(Min(there), "registry")}
      BY <2>1 DEF unique, there
    <2> QED
      BY <2>4, <2>5
  <1> QED
    BY <1>2, <1>3, DiscoveryAssumption

LEMMA UniqueCandidates ==
    ASSUME DiscoveryInvariant, NEW p \in Ports
    PROVE  unique(p) \subseteq CandidateRow
  <1> DEFINE there == {d \in Listed : port[d] = p}
  <1>1. there \in SUBSET Nat /\ there \subseteq Daemons
    BY ListedDaemons
  <1>2. Legacy \subseteq CandidateRow
    BY CandidateFields, DiscoveryAssumption DEF Legacy, DiscoveryInvariant, DiscoveryRows, Daemons
  <1>3. CASE there # {}
    <2>1. Min(there) \in there
      BY <1>1, <1>3, MinOfNaturals
    <2>2. Candidate(Min(there), "registry") \in CandidateRow
      BY <1>1, <2>1, CandidateFields
    <2> HIDE DEF there
    <2>3. unique(p) = {Candidate(Min(there), "registry")}
      BY <1>3 DEF unique, there
    <2> QED
      BY <2>2, <2>3
  <1>4. CASE there = {}
    BY <1>2, <1>4 DEF unique
  <1> QED
    BY <1>3, <1>4

LEMMA _collect_candidatesKeeps ==
    ASSUME DiscoveryInvariant, _collect_candidates
    PROVE  DiscoveryInvariant'
  <1> DEFINE all == UNION {unique(p) : p \in Ports}
  <1>1. all \in SUBSET CandidateRow
    BY UniqueCandidates
  <1>2. search' = [pc |-> "probing", candidates |-> all, shown |-> {}, saw |-> registry]
        /\ stayed' = {d \in Daemons : stage[d] = "serving"} /\ slow' = {}
        /\ UNCHANGED <<stage, port, registry, config>>
    BY DEF _collect_candidates
  <1>3. \A p \in Ports : unique(p) \subseteq all
    OBVIOUS
  <1> HIDE DEF all
  <1>4. /\ search' \in SearchRow /\ search'.pc = "probing" /\ search'.candidates = all
        /\ search'.shown = {} /\ search'.saw = registry
    BY <1>1, <1>2 DEF SearchRow, DiscoveryInvariant, DiscoveryRows
  <1>5. DiscoveryRows'
    BY <1>2, <1>4 DEF DiscoveryInvariant, DiscoveryRows, Bound
  <1>6. ASSUME NEW d \in stayed' PROVE stage'[d] = "serving" /\ FoundSoFar(d)'
    <2>1. d \in Daemons /\ stage[d] = "serving" /\ port[d] \in Ports
      BY <1>2 DEF DiscoveryInvariant, DiscoveryRows
    <2>2. Preceding(d)' = Before(d)
      BY <1>4 DEF Preceding, Before
    <2>3. CASE Candidate(d, "registry") \in unique(port[d])
      BY <1>2, <1>3, <1>4, <2>1, <2>3 DEF FoundSoFar, Candidate
    <2>4. CASE Cardinality(Before(d)) >= MaxDescriptors
      BY <1>2, <2>1, <2>2, <2>4 DEF FoundSoFar, Crowded
    <2>5. CASE \E e \in Before(d) : port[e] = port[d]
      BY <1>2, <2>1, <2>2, <2>5 DEF FoundSoFar, Hidden
    <2> QED
      BY <2>1, <2>3, <2>4, <2>5, CollectFinds, <1>2
  <1>7. StayedFound'
    BY <1>4, <1>6 DEF StayedFound
  <1> QED
    BY <1>5, <1>7 DEF DiscoveryInvariant

\* A probe shows a daemon that stayed as ready or is too slow.
LEMMA _probeKeeps ==
    ASSUME DiscoveryInvariant, _probe
    PROVE  DiscoveryInvariant'
  <1>1. PICK c \in search.candidates :
            \/ Shown(c, IF AnswersAt(c.port) = {} THEN "offline" ELSE StatusOf(c)) /\ UNCHANGED slow
            \/ Shown(c, "offline") /\ slow' = slow \cup {c.id}
    BY DEF _probe
  <1>2. c \in CandidateRow /\ search \in SearchRow /\ c.id \in Daemons
        /\ search.pc = "probing" /\ UNCHANGED <<stage, port, registry, config, stayed>>
    BY DEF _probe, DiscoveryInvariant, DiscoveryRows, SearchRow, CandidateRow
  <1>3. PICK word \in {"legacy", "ready", "offline"} :
            /\ Shown(c, word)
            /\ word = "ready" => c.id \in AnswersAt(c.port)
            /\ \/ slow' = slow \cup {c.id}
               \/ slow' = slow /\ (c.source = "registry" /\ c.id \in AnswersAt(c.port) => word = "ready")
    <2>1. StatusOf(c) \in {"legacy", "ready", "offline"}
          /\ (StatusOf(c) = "ready" => c.id \in AnswersAt(c.port))
          /\ (c.source = "registry" /\ c.id \in AnswersAt(c.port) => StatusOf(c) = "ready")
      BY <1>2 DEF StatusOf
    <2>2. CASE Shown(c, "offline") /\ slow' = slow \cup {c.id}
      BY <2>2
    <2>3. CASE AnswersAt(c.port) = {} /\ Shown(c, "offline") /\ UNCHANGED slow
      BY <2>3
    <2>4. CASE Shown(c, StatusOf(c)) /\ UNCHANGED slow
      BY <2>1, <2>4
    <2> QED
      BY <1>1, <2>2, <2>3, <2>4
  <1> DEFINE row == [id |-> c.id, status |-> word, answered |-> AnswersAt(c.port)]
  <1>4. row \in ShownRow /\ row.id = c.id /\ row.status = word /\ row.answered = AnswersAt(c.port)
    BY <1>2 DEF ShownRow, AnswersAt
  <1>5. search' = [search EXCEPT !.candidates = @ \ {c}, !.shown = @ \cup {row}]
    BY <1>3 DEF Shown
  <1> HIDE DEF row
  <1>6. /\ search' \in SearchRow /\ search'.pc = "probing" /\ search'.saw = search.saw
        /\ search'.candidates = search.candidates \ {c}
        /\ search'.shown = search.shown \cup {row}
    BY <1>2, <1>4, <1>5 DEF SearchRow
  <1>7. DiscoveryRows'
    BY <1>2, <1>6 DEF DiscoveryInvariant, DiscoveryRows, Bound
  <1>8. \A s \in search'.shown : s.status = "ready" => s.id \in s.answered
    BY <1>3, <1>4, <1>6 DEF DiscoveryInvariant, StayedFound
  <1>9. ASSUME NEW d \in stayed' PROVE stage'[d] = "serving" /\ FoundSoFar(d)'
    <2>1. d \in Daemons /\ stage[d] = "serving" /\ FoundSoFar(d)
      BY <1>2 DEF DiscoveryInvariant, DiscoveryRows, StayedFound
    <2>2. Preceding(d)' = Preceding(d)
      BY <1>6 DEF Preceding
    <2>3. CASE Candidate(d, "registry") = c
      <3>1. c.id = d /\ c.source = "registry" /\ c.port = port[d]
        BY <2>1, <2>3, CandidateFields
      <3>2. c.id \in AnswersAt(c.port)
        BY <2>1, <3>1 DEF AnswersAt
      <3>3. d \in slow' \/ (row \in search'.shown /\ row.id = d /\ row.status = "ready")
        BY <1>3, <1>4, <1>6, <3>1, <3>2
      <3> QED
        BY <1>2, <2>1, <3>3 DEF FoundSoFar
    <2>4. CASE Candidate(d, "registry") # c
      <3>1. Candidate(d, "registry")' = Candidate(d, "registry")
        BY <1>2 DEF Candidate
      <3>2. slow \subseteq slow'
        BY <1>3
      <3> QED
        BY <1>2, <1>6, <2>1, <2>2, <2>4, <3>1, <3>2 DEF FoundSoFar, Crowded, Hidden
    <2> QED
      BY <2>3, <2>4
  <1>10. StayedFound'
    BY <1>8, <1>9 DEF StayedFound
  <1> QED
    BY <1>7, <1>10 DEF DiscoveryInvariant

LEMMA SearchEnds ==
    ASSUME DiscoveryInvariant, discover \/ UNCHANGED discoveryVars
    PROVE  DiscoveryInvariant'
  <1>1. CASE discover
    <2>1. search' = NoSearch /\ stayed' = {} /\ UNCHANGED <<stage, port, registry, config>>
      BY <1>1 DEF discover
    <2>2. search' \in SearchRow /\ search'.shown = {}
      BY <2>1 DEF NoSearch, SearchRow
    <2> QED
      BY <2>1, <2>2 DEF DiscoveryInvariant, DiscoveryRows, StayedFound, Bound
  <1>2. CASE UNCHANGED discoveryVars
    BY <1>2 DEF discoveryVars, DiscoveryInvariant, DiscoveryRows, StayedFound, Bound, FoundSoFar,
                Crowded, Hidden, Preceding, Candidate
  <1> QED
    BY <1>1, <1>2

LEMMA DiscoveryKeeps == DiscoveryInvariant /\ [DiscoveryNext]_discoveryVars => DiscoveryInvariant'
  BY DaemonsKeep, _collect_candidatesKeeps, _probeKeeps, SearchEnds DEF DiscoveryNext

\* What a search shows as ready is that daemon, and who serves all through it is shown
\* unless its probe was slow or another descriptor stood in front.
THEOREM SearchesFindRunning == DiscoverySpec => []SearchFindsRunning
  <1>1. DiscoveryInvariant => SearchFindsRunning
    BY DEF DiscoveryInvariant, StayedFound, FoundSoFar, SearchFindsRunning
  <1> QED
    BY <1>1, DiscoveryStart, DiscoveryKeeps, PTL DEF DiscoverySpec

-----------------------------------------------------------------------------

(***************************************************************************)
(* CommitFeed: a commit is told once, and the base passes none unseen.      *)
(***************************************************************************)

PollSteps == {"idle", "log", "rev_parse", "write", "emit"}
CommitPoller == [pc : PollSteps, from : Nat, lines : SUBSET Nat, seen : Nat]

CommitRows ==
    /\ tip \in Nat /\ tip <= MaxCommits
    /\ base \in 0..tip /\ headCache \in NoHead..tip
    /\ told \subseteq 1..tip /\ again \subseteq 1..tip
    /\ holes \subseteq 1..tip /\ reopened \subseteq 1..tip
    /\ poller \in [Pollers -> CommitPoller]
    /\ \A p \in Pollers : /\ poller[p].from <= tip /\ poller[p].seen <= tip
                          /\ poller[p].lines \subseteq Above(poller[p].from, tip)

\* From the base it has read to the base it writes a poller counts on what is below.
AtPoll(p) == poller[p].pc \in {"log", "rev_parse", "write"}
Emitting(p) == poller[p].pc = "emit"
Accounted(c) == c \in told \/ c \in holes \/ \E p \in Pollers : Emitting(p) /\ c \in poller[p].lines

\* What is below the base, or below the base a poller has read, is told, skipped or
\* about to be told.
NonePassed ==
    /\ \A c \in 1..base : Accounted(c)
    /\ \A p \in Pollers : AtPoll(p) => \A c \in 1..poller[p].from : Accounted(c)
    /\ \A p \in Pollers : poller[p].pc = "write" => poller[p].lines \subseteq 1..poller[p].seen

\* What has been told, or is about to be, is below every base a poll goes on from,
\* and with one poller only.
Behind(c) == c <= base /\ \A p \in Pollers : AtPoll(p) => c <= poller[p].from
ToldOnce ==
    /\ again \subseteq reopened
    /\ \A c \in told \ reopened : Behind(c)
    /\ \A p \in Pollers : Emitting(p) => \A c \in poller[p].lines \ reopened : c \notin told /\ Behind(c)
    /\ \A p, q \in Pollers :
          p # q /\ Emitting(p) /\ Emitting(q) =>
              \A c \in poller[p].lines \cap poller[q].lines : c \in reopened

CommitsInvariant == CommitRows /\ NonePassed /\ ToldOnce

LEMMA CommitsStart == CommitsInit => CommitsInvariant
  <1> SUFFICES ASSUME CommitsInit PROVE CommitsInvariant
    OBVIOUS
  <1>1. tip \in 0..1 /\ tip <= MaxCommits
    BY CommitsAssumption DEF CommitsInit
  <1>2. CommitRows
    BY <1>1 DEF CommitsInit, CommitRows, CommitPoller, PollSteps, IdlePoller, NoHead, Above
  <1>3. NonePassed
    BY DEF CommitsInit, NonePassed, AtPoll, Accounted, IdlePoller
  <1>4. ToldOnce
    BY DEF CommitsInit, ToldOnce, Emitting, IdlePoller
  <1> QED
    BY <1>2, <1>3, <1>4 DEF CommitsInvariant

\* A poller goes on without touching the rest: its lines stay unless it gets new ones.
LEMMA PollerMoves ==
    ASSUME CommitsInvariant, NEW p \in Pollers, NEW row \in CommitPoller,
           poller' = [poller EXCEPT ![p] = row],
           ~Emitting(p), row.pc # "emit",
           row.from <= tip, row.seen <= tip, row.lines \subseteq Above(row.from, tip),
           row.pc # "idle" => (AtPoll(p) /\ row.from = poller[p].from) \/ row.from = base,
           row.pc = "write" => row.lines \subseteq 1..row.seen,
           UNCHANGED <<tip, base, headCache, told, again, holes, reopened>>
    PROVE  CommitsInvariant'
  <1>1. poller' \in [Pollers -> CommitPoller]
    BY DEF CommitsInvariant, CommitRows
  <1>2. \A q \in Pollers : poller'[q] = IF q = p THEN row ELSE poller[q]
    BY DEF CommitsInvariant, CommitRows
  <1>3. CommitRows'
    BY <1>1, <1>2 DEF CommitsInvariant, CommitRows, Above
  <1>4. \A q \in Pollers : Emitting(q)' => q # p /\ Emitting(q) /\ poller'[q] = poller[q]
    BY <1>2 DEF Emitting
  <1>5. \A q \in Pollers : Emitting(q) => q # p /\ Emitting(q)' /\ poller'[q] = poller[q]
    BY <1>2 DEF Emitting
  <1>6. \A c : Accounted(c) => Accounted(c)'
    BY <1>5 DEF Accounted
  <1>7. \A q \in Pollers : AtPoll(q)' =>
           \/ poller'[q].from = base
           \/ AtPoll(q) /\ poller'[q].from = poller[q].from
    BY <1>2 DEF AtPoll, CommitPoller, PollSteps, CommitsInvariant, CommitRows
  <1>8. NonePassed'
    BY <1>2, <1>6, <1>7 DEF CommitsInvariant, NonePassed
  <1>9. \A c : Behind(c) => Behind(c)'
    BY <1>7 DEF Behind
  <1>10. ToldOnce'
    BY <1>4, <1>9 DEF CommitsInvariant, ToldOnce
  <1> QED
    BY <1>3, <1>8, <1>10 DEF CommitsInvariant

LEMMA IdleRow ==
    /\ IdlePoller \in CommitPoller
    /\ IdlePoller.pc = "idle" /\ IdlePoller.from = 0 /\ IdlePoller.seen = 0 /\ IdlePoller.lines = {}
  BY DEF IdlePoller, CommitPoller, PollSteps

LEMMA ReadBaseKeeps ==
    ASSUME CommitsInvariant, NEW p \in Pollers, ReadBase(p)
    PROVE  CommitsInvariant'
  <1>1. base <= tip /\ base \in Nat /\ tip \in Nat /\ IdlePoller \in CommitPoller
    BY IdleRow DEF CommitsInvariant, CommitRows
  <1>2. PICK row \in CommitPoller : row = [IdlePoller EXCEPT !.pc = "log", !.from = base]
    BY <1>1 DEF CommitPoller, PollSteps
  <1>3. row.pc = "log" /\ row.from = base /\ row.lines = {} /\ row.seen = 0
    BY <1>1, <1>2, IdleRow DEF CommitPoller
  <1>4. poller' = [poller EXCEPT ![p] = row]
    BY <1>2 DEF ReadBase, fresh
  <1>5. row.lines \subseteq Above(row.from, tip) /\ row.seen <= tip /\ row.from <= tip
    BY <1>1, <1>3
  <1>6. ~Emitting(p) /\ UNCHANGED <<tip, base, headCache, told, again, holes, reopened>>
    BY DEF ReadBase, Emitting
  <1> QED
    BY <1>3, <1>4, <1>5, <1>6, PollerMoves

LEMMA git_logKeeps ==
    ASSUME CommitsInvariant, NEW p \in Pollers, git_log(p)
    PROVE  CommitsInvariant'
  <1>1. poller[p] \in CommitPoller /\ poller[p].pc = "log" /\ poller[p].from <= tip
        /\ poller[p].seen <= tip /\ tip \in Nat
    BY DEF CommitsInvariant, CommitRows, git_log
  <1>2. CASE poller' = [poller EXCEPT ![p] = IdlePoller]
    <2>1. ~Emitting(p) /\ IdlePoller.lines \subseteq Above(IdlePoller.from, tip)
          /\ IdlePoller.seen <= tip /\ IdlePoller.from <= tip
      BY <1>1, IdleRow DEF Emitting
    <2>2. UNCHANGED <<tip, base, headCache, told, again, holes, reopened>>
      BY DEF git_log
    <2> QED
      BY <1>2, <2>1, <2>2, IdleRow, PollerMoves
  <1>3. ASSUME NEW lines \in {LatestOf(Above(poller[p].from, tip)), {}}, poller' = AfterLog(p, lines)
        PROVE  CommitsInvariant'
    <2>1. lines \subseteq Above(poller[p].from, tip)
      BY DEF LatestOf
    <2>2. lines \in SUBSET Nat
      BY <1>1, <2>1 DEF Above, CommitPoller
    <2>3. CASE poller' = [poller EXCEPT ![p] = IdlePoller]
      BY <1>2, <2>3
    <2>4. CASE poller' = [poller EXCEPT ![p].pc = "rev_parse", ![p].lines = lines]
      <3>1. PICK row \in CommitPoller :
                row = [poller[p] EXCEPT !.pc = "rev_parse", !.lines = lines]
        BY <1>1, <2>2 DEF CommitPoller, PollSteps
      <3>2. row.pc = "rev_parse" /\ row.lines = lines /\ row.from = poller[p].from
            /\ row.seen = poller[p].seen
        BY <1>1, <3>1 DEF CommitPoller
      <3>3. poller' = [poller EXCEPT ![p] = row]
        BY <2>4, <3>1 DEF CommitsInvariant, CommitRows
      <3> QED
        BY <1>1, <2>1, <3>2, <3>3, PollerMoves DEF Emitting, AtPoll, git_log
    <2> QED
      BY <1>3, <2>3, <2>4 DEF AfterLog
  <1> QED
    BY <1>2, <1>3 DEF git_log

LEMMA rev_parseKeeps ==
    ASSUME CommitsInvariant, NEW p \in Pollers, rev_parse(p)
    PROVE  CommitsInvariant'
  <1>1. poller[p] \in CommitPoller /\ poller[p].pc = "rev_parse" /\ poller[p].from <= tip
        /\ poller[p].lines \subseteq Above(poller[p].from, tip) /\ tip \in Nat
    BY DEF CommitsInvariant, CommitRows, rev_parse
  <1>2. PICK row \in CommitPoller : row = [poller[p] EXCEPT !.pc = "write", !.seen = tip]
    BY <1>1 DEF CommitPoller, PollSteps
  <1>3. row.pc = "write" /\ row.seen = tip /\ row.from = poller[p].from
        /\ row.lines = poller[p].lines
    BY <1>1, <1>2 DEF CommitPoller
  <1>4. poller' = [poller EXCEPT ![p] = row]
    BY <1>2 DEF rev_parse, CommitsInvariant, CommitRows
  <1>5. row.lines \subseteq 1..row.seen
    BY <1>1, <1>3 DEF Above, CommitPoller
  <1>6. ~Emitting(p) /\ AtPoll(p) /\ row.lines \subseteq Above(row.from, tip) /\ row.seen <= tip
    BY <1>1, <1>3 DEF Emitting, AtPoll
  <1> QED
    BY <1>1, <1>3, <1>4, <1>5, <1>6, PollerMoves DEF rev_parse

\* The lines of a poll are covered by their event; the rest of what the base passes
\* is a hole.
LEMMA set_baseKeeps ==
    ASSUME CommitsInvariant, NEW p \in Pollers, set_monitored_project_base_commit(p)
    PROVE  CommitsInvariant'
  <1>1. poller[p] \in CommitPoller /\ poller[p].pc = "write" /\ poller[p].from <= tip
        /\ poller[p].seen <= tip
        /\ poller[p].lines \subseteq Above(poller[p].from, tip) /\ tip \in Nat
        /\ poller[p].lines \subseteq 1..poller[p].seen /\ AtPoll(p)
    BY DEF CommitsInvariant, CommitRows, NonePassed, AtPoll, set_monitored_project_base_commit
  <1>2. PICK row \in CommitPoller : row = [poller[p] EXCEPT !.pc = "emit"]
    BY <1>1 DEF CommitPoller, PollSteps
  <1>3. row.pc = "emit" /\ row.seen = poller[p].seen /\ row.from = poller[p].from
        /\ row.lines = poller[p].lines
    BY <1>1, <1>2 DEF CommitPoller
  <1>4. poller' \in [Pollers -> CommitPoller]
        /\ \A q \in Pollers : poller'[q] = IF q = p THEN row ELSE poller[q]
    BY <1>2 DEF set_monitored_project_base_commit, Step, CommitsInvariant, CommitRows
  <1>5. /\ base' = poller[p].seen
        /\ holes' = holes \cup (Above(poller[p].from, poller[p].seen) \ poller[p].lines)
        /\ reopened' = reopened \cup Above(poller[p].seen, base)
                                \cup UNION {Above(poller[q].from, poller[p].seen) : q \in BehindBase(p)}
        /\ UNCHANGED <<tip, headCache, told, again>>
    BY DEF set_monitored_project_base_commit, MovesTo
  <1>6. \A q \in Pollers : poller[q] \in CommitPoller /\ poller[q].from \in Nat
    BY DEF CommitsInvariant, CommitRows, CommitPoller
  <1>7. CommitRows'
    <2>1. holes' \subseteq 1..tip
      <3>1. poller[p].from \in Nat /\ poller[p].seen \in Nat
        BY <1>1 DEF CommitPoller
      <3>2. Above(poller[p].from, poller[p].seen) \subseteq 1..tip
        BY <1>1, <3>1 DEF Above
      <3> QED
        BY <1>5, <3>2 DEF CommitsInvariant, CommitRows
    <2>2. \A q \in Pollers : Above(poller[q].from, poller[p].seen) \subseteq 1..tip
      BY <1>1, <1>6 DEF Above, CommitPoller
    <2>3. reopened' \subseteq 1..tip
      <3>1. Above(poller[p].seen, base) \subseteq 1..tip /\ reopened \subseteq 1..tip
        BY <1>1 DEF CommitsInvariant, CommitRows, Above, CommitPoller
      <3>2. UNION {Above(poller[q].from, poller[p].seen) : q \in BehindBase(p)} \subseteq 1..tip
        BY <2>2 DEF BehindBase
      <3> QED
        BY <1>5, <3>1, <3>2
    <2>4. base' \in 0..tip
      BY <1>1, <1>5 DEF CommitPoller
    <2> QED
      BY <1>1, <1>3, <1>4, <1>5, <2>1, <2>3, <2>4 DEF CommitsInvariant, CommitRows
  <1>8. \A c : Accounted(c) => Accounted(c)'
    BY <1>3, <1>4, <1>5 DEF Accounted, Emitting
  <1>9. \A c \in poller[p].lines : Accounted(c)'
    BY <1>3, <1>4 DEF Accounted, Emitting
  <1>10. \A q \in Pollers : AtPoll(q)' => q # p /\ AtPoll(q) /\ poller'[q] = poller[q]
    BY <1>3, <1>4 DEF AtPoll
  <1>11. NonePassed'
    <2>1. ASSUME NEW c \in 1..base' PROVE Accounted(c)'
      <3>1. CASE c \in 1..poller[p].from
        BY <1>1, <1>8, <3>1 DEF CommitsInvariant, NonePassed
      <3>2. CASE c \in Above(poller[p].from, poller[p].seen)
        BY <1>5, <1>9, <3>2 DEF Accounted
      <3> QED
        BY <1>1, <1>5, <3>1, <3>2 DEF Above, CommitPoller
    <2>2. \A q \in Pollers : poller'[q].pc = "write" => q # p /\ poller'[q] = poller[q]
      BY <1>3, <1>4
    <2> QED
      BY <1>8, <1>10, <2>1, <2>2 DEF CommitsInvariant, NonePassed
  <1>12. reopened \subseteq reopened'
    BY <1>5
  <1>13. \A c \in Nat \ reopened' : Behind(c) => Behind(c)'
    <2> SUFFICES ASSUME NEW c \in Nat, c \notin reopened', Behind(c) PROVE Behind(c)'
      OBVIOUS
    <2>1. c <= base'
      BY <1>1, <1>5 DEF Behind, Above, CommitsInvariant, CommitRows, CommitPoller
    <2> QED
      BY <1>10, <2>1 DEF Behind
  <1>14. \A c \in poller[p].lines \ reopened' : c \in Nat /\ Behind(c)'
    <2> SUFFICES ASSUME NEW c \in poller[p].lines, c \notin reopened' PROVE c \in Nat /\ Behind(c)'
      OBVIOUS
    <2>1. c \in Nat /\ c <= poller[p].seen
      BY <1>1 DEF CommitPoller
    <2>2. ASSUME NEW q \in Pollers, AtPoll(q)' PROVE c <= poller'[q].from
      <3>1. q \in BehindBase(p) /\ poller'[q].from = poller[q].from
        BY <1>10, <2>2 DEF BehindBase, AtPoll
      <3>2. c \notin Above(poller[q].from, poller[p].seen)
        BY <1>5, <3>1
      <3> QED
        BY <1>1, <1>6, <2>1, <3>1, <3>2 DEF Above, CommitPoller
    <2> QED
      BY <1>5, <2>1, <2>2 DEF Behind
  <1>15. \A c \in poller[p].lines \ reopened : c \notin told
    BY <1>1, <1>6 DEF CommitsInvariant, ToldOnce, Behind, Above, CommitRows
  <1>16. \A q \in Pollers : Emitting(q) => q # p /\ poller'[q] = poller[q]
    BY <1>1, <1>4 DEF Emitting
  <1>17. \A q \in Pollers : Emitting(q)' => q = p \/ (Emitting(q) /\ poller'[q] = poller[q])
    BY <1>4 DEF Emitting
  <1>18. \A q \in Pollers : Emitting(q) =>
            \A c \in poller[p].lines \cap poller[q].lines : c \in reopened
    BY <1>1, <1>6 DEF CommitsInvariant, ToldOnce, Behind, Above, CommitRows
  <1>19. told \subseteq Nat /\ \A q \in Pollers : poller[q].lines \subseteq Nat
    BY <1>6 DEF CommitsInvariant, CommitRows, CommitPoller
  <1>20. ToldOnce'
    <2>1. \A c \in told' \ reopened' : Behind(c)'
      BY <1>5, <1>12, <1>13, <1>19 DEF CommitsInvariant, ToldOnce
    <2>2. ASSUME NEW q \in Pollers, Emitting(q)', NEW c \in poller'[q].lines \ reopened'
          PROVE  c \notin told' /\ Behind(c)'
      <3>1. CASE q = p
        BY <1>3, <1>4, <1>5, <1>12, <1>14, <1>15, <3>1
      <3>2. CASE Emitting(q) /\ poller'[q] = poller[q]
        BY <1>5, <1>12, <1>13, <1>19, <3>2 DEF CommitsInvariant, ToldOnce
      <3> QED
        BY <1>17, <2>2, <3>1, <3>2
    <2>3. ASSUME NEW q \in Pollers, NEW r \in Pollers, q # r, Emitting(q)', Emitting(r)',
                 NEW c \in poller'[q].lines \cap poller'[r].lines
          PROVE  c \in reopened'
      BY <1>3, <1>4, <1>12, <1>17, <1>18, <2>3 DEF CommitsInvariant, ToldOnce
    <2> QED
      BY <1>5, <1>12, <2>1, <2>2, <2>3 DEF CommitsInvariant, ToldOnce
  <1> QED
    BY <1>7, <1>11, <1>20 DEF CommitsInvariant
LEMMA AdvanceFailsKeeps ==
    ASSUME CommitsInvariant, NEW p \in Pollers, AdvanceFails(p)
    PROVE  CommitsInvariant'
  <1>1. poller[p] \in CommitPoller /\ AtPoll(p) /\ ~Emitting(p) /\ poller[p].from <= tip
        /\ poller[p].lines \subseteq Above(poller[p].from, tip) /\ tip \in Nat
    BY DEF CommitsInvariant, CommitRows, AtPoll, Emitting, AdvanceFails
  <1>2. PICK row \in CommitPoller : row = [poller[p] EXCEPT !.pc = "emit"]
    BY <1>1 DEF CommitPoller, PollSteps
  <1>3. row.pc = "emit" /\ row.seen = poller[p].seen /\ row.from = poller[p].from
        /\ row.lines = poller[p].lines
    BY <1>1, <1>2 DEF CommitPoller
  <1>4. poller' \in [Pollers -> CommitPoller]
        /\ \A q \in Pollers : poller'[q] = IF q = p THEN row ELSE poller[q]
    BY <1>2 DEF AdvanceFails, Step, CommitsInvariant, CommitRows
  <1>5. reopened' = reopened \cup poller[p].lines
        /\ UNCHANGED <<tip, base, headCache, told, again, holes>>
    BY DEF AdvanceFails
  <1>6. poller[p].lines \subseteq 1..tip
    BY <1>1 DEF Above, CommitPoller
  <1>7. CommitRows'
    BY <1>3, <1>4, <1>5, <1>6 DEF CommitsInvariant, CommitRows
  <1>8. \A c : Accounted(c) => Accounted(c)'
    BY <1>1, <1>3, <1>4, <1>5 DEF Accounted, Emitting
  <1>9. \A q \in Pollers : AtPoll(q)' => q # p /\ AtPoll(q) /\ poller'[q] = poller[q]
    BY <1>3, <1>4 DEF AtPoll
  <1>10. NonePassed'
    <2>1. \A q \in Pollers : poller'[q].pc = "write" => q # p /\ poller'[q] = poller[q]
      BY <1>3, <1>4
    <2> QED
      BY <1>5, <1>8, <1>9, <2>1 DEF CommitsInvariant, NonePassed
  <1>11. \A c : Behind(c) => Behind(c)'
    BY <1>5, <1>9 DEF Behind
  <1>12. \A q \in Pollers : Emitting(q)' =>
            \/ q = p /\ poller'[q].lines \subseteq reopened'
            \/ Emitting(q) /\ poller'[q] = poller[q]
    BY <1>3, <1>4, <1>5 DEF Emitting
  <1>13. ToldOnce'
    BY <1>5, <1>11, <1>12 DEF CommitsInvariant, ToldOnce
  <1> QED
    BY <1>7, <1>10, <1>13 DEF CommitsInvariant

\* An event tells only what no other has, but for what was reopened.
LEMMA _emitKeeps ==
    ASSUME CommitsInvariant, NEW p \in Pollers, _emit(p)
    PROVE  CommitsInvariant'
  <1>1. Emitting(p) /\ poller[p] \in CommitPoller
        /\ poller[p].lines \subseteq Above(poller[p].from, tip) /\ tip \in Nat
    BY DEF CommitsInvariant, CommitRows, Emitting, _emit
  <1>2. poller[p].lines \subseteq 1..tip
    BY <1>1 DEF Above, CommitPoller
  <1>3. poller' \in [Pollers -> CommitPoller]
        /\ \A q \in Pollers : poller'[q] = IF q = p THEN IdlePoller ELSE poller[q]
    BY IdleRow DEF _emit, CommitsInvariant, CommitRows
  <1>4. UNCHANGED <<tip, base, headCache, reopened>>
    BY DEF _emit
  <1>5. \/ told' = told \cup poller[p].lines /\ again' = again \cup (told \cap poller[p].lines) /\ holes' = holes
        \/ told' = told /\ again' = again /\ holes' = holes \cup poller[p].lines
    BY DEF _emit
  <1>6. CommitRows'
    <2>1. told' \subseteq 1..tip /\ again' \subseteq 1..tip /\ holes' \subseteq 1..tip
      BY <1>2, <1>5 DEF CommitsInvariant, CommitRows
    <2>2. \A q \in Pollers : poller'[q].from <= tip /\ poller'[q].seen <= tip
                              /\ poller'[q].lines \subseteq Above(poller'[q].from, tip)
      BY <1>1, <1>3, IdleRow DEF CommitsInvariant, CommitRows
    <2> QED
      BY <1>3, <1>4, <2>1, <2>2 DEF CommitsInvariant, CommitRows
  <1>7. \A c : Accounted(c) => Accounted(c)'
    <2> SUFFICES ASSUME NEW c, Accounted(c) PROVE Accounted(c)'
      OBVIOUS
    <2>1. CASE c \in told \/ c \in holes \/ c \in poller[p].lines
      BY <1>5, <2>1 DEF Accounted
    <2>2. CASE \E q \in Pollers : q # p /\ Emitting(q) /\ c \in poller[q].lines
      BY <1>3, <2>2 DEF Accounted, Emitting
    <2> QED
      BY <2>1, <2>2 DEF Accounted
  <1>8. \A q \in Pollers : AtPoll(q)' \/ Emitting(q)' => q # p /\ poller'[q] = poller[q]
    BY <1>3, IdleRow DEF AtPoll, Emitting
  <1>9. \A q \in Pollers : (AtPoll(q)' => AtPoll(q)) /\ (Emitting(q)' => Emitting(q))
    BY <1>3, IdleRow DEF AtPoll, Emitting
  <1>10. NonePassed'
    <2>1. \A q \in Pollers : poller'[q].pc = "write" => poller'[q] = poller[q]
      BY <1>3, IdleRow
    <2> QED
      BY <1>4, <1>7, <1>8, <1>9, <2>1 DEF CommitsInvariant, NonePassed
  <1>11. \A c : Behind(c) => Behind(c)'
    BY <1>4, <1>8, <1>9 DEF Behind
  <1>12. ToldOnce'
    <2>1. again' \subseteq reopened
      BY <1>1, <1>5 DEF CommitsInvariant, ToldOnce
    <2>2. \A c \in told' \ reopened : Behind(c)'
      BY <1>1, <1>5, <1>11 DEF CommitsInvariant, ToldOnce
    <2>3. ASSUME NEW q \in Pollers, Emitting(q)', NEW c \in poller'[q].lines \ reopened
          PROVE  c \notin told' /\ Behind(c)'
      <3>1. q # p /\ poller'[q] = poller[q] /\ Emitting(q)
        BY <1>8, <1>9, <2>3
      <3>2. c \notin told /\ Behind(c) /\ c \notin poller[p].lines
        BY <1>1, <2>3, <3>1 DEF CommitsInvariant, ToldOnce
      <3> QED
        BY <1>5, <1>11, <3>2
    <2>4. ASSUME NEW q \in Pollers, NEW r \in Pollers, q # r, Emitting(q)', Emitting(r)',
                 NEW c \in poller'[q].lines \cap poller'[r].lines
          PROVE  c \in reopened
      BY <1>8, <1>9, <2>4 DEF CommitsInvariant, ToldOnce
    <2> QED
      BY <1>4, <2>1, <2>2, <2>3, <2>4 DEF ToldOnce
  <1> QED
    BY <1>6, <1>10, <1>12 DEF CommitsInvariant

LEMMA CommitPollersCrash ==
    ASSUME CommitsInvariant, CrashOfPollers
    PROVE  CommitsInvariant'
  <1>1. /\ holes' = holes \cup UNION {poller[p].lines : p \in {q \in Pollers : poller[q].pc = "emit"}}
        /\ poller' = [p \in Pollers |-> IdlePoller] /\ headCache' = NoHead
        /\ UNCHANGED <<tip, base, told, again, reopened>>
    BY DEF CrashOfPollers
  <1>2. \A p \in Pollers : poller[p].lines \subseteq 1..tip
    BY DEF CommitsInvariant, CommitRows, CommitPoller, Above
  <1>3. \A p \in Pollers : poller'[p] = IdlePoller /\ ~AtPoll(p)' /\ ~Emitting(p)'
    BY <1>1, IdleRow DEF AtPoll, Emitting
  <1>4. CommitRows'
    <2>1. holes' \subseteq 1..tip
      BY <1>1, <1>2 DEF CommitsInvariant, CommitRows
    <2>2. poller' \in [Pollers -> CommitPoller]
      BY <1>1, IdleRow
    <2>3. tip \in Nat /\ headCache' \in NoHead..tip
      BY <1>1 DEF CommitsInvariant, CommitRows, NoHead
    <2> QED
      BY <1>1, <1>3, <2>1, <2>2, <2>3, IdleRow DEF CommitsInvariant, CommitRows
  <1>5. \A c : Accounted(c) => Accounted(c)'
    BY <1>1 DEF Accounted, Emitting
  <1>6. NonePassed'
    BY <1>1, <1>3, <1>5, IdleRow DEF CommitsInvariant, NonePassed
  <1>7. ToldOnce'
    BY <1>1, <1>3 DEF CommitsInvariant, ToldOnce, Behind
  <1> QED
    BY <1>4, <1>6, <1>7 DEF CommitsInvariant

\* A registration writes a head as the base, and leaves what it passes as a hole.
LEMMA RegisterKeeps ==
    ASSUME CommitsInvariant, Register
    PROVE  CommitsInvariant'
  <1> DEFINE head == resolve_base_commit
  <1>1. tip \in Nat /\ base \in 0..tip /\ head \in 0..tip
    BY DEF CommitsInvariant, CommitRows, resolve_base_commit, NoHead
  <1>2. /\ base' = head /\ headCache' = head /\ holes' = holes \cup Above(base, head)
        /\ reopened' = reopened \cup Above(head, base)
        /\ UNCHANGED <<tip, poller, told, again>>
    BY DEF Register, MovesTo
  <1> HIDE DEF head
  <1>3. CommitRows'
    <2>1. Above(base, head) \subseteq 1..tip /\ Above(head, base) \subseteq 1..tip
      BY <1>1 DEF Above
    <2>2. headCache' \in NoHead..tip
      BY <1>1, <1>2 DEF NoHead
    <2> QED
      BY <1>1, <1>2, <2>1, <2>2 DEF CommitsInvariant, CommitRows
  <1>4. \A c : Accounted(c) => Accounted(c)'
    BY <1>2 DEF Accounted, Emitting
  <1>5. NonePassed'
    <2>1. ASSUME NEW c \in 1..base' PROVE Accounted(c)'
      <3>1. CASE c \in 1..base
        BY <1>4, <3>1 DEF CommitsInvariant, NonePassed
      <3>2. CASE c \in Above(base, head)
        BY <1>2, <3>2 DEF Accounted
      <3> QED
        BY <1>1, <1>2, <3>1, <3>2 DEF Above
    <2> QED
      BY <1>2, <1>4, <2>1 DEF CommitsInvariant, NonePassed, AtPoll
  <1>6. \A c \in Nat \ reopened' : Behind(c) => Behind(c)'
    BY <1>1, <1>2 DEF Behind, Above, AtPoll
  <1>7. told \subseteq Nat /\ \A q \in Pollers : poller[q].lines \subseteq Nat
    BY DEF CommitsInvariant, CommitRows, CommitPoller
  <1>8. ToldOnce'
    BY <1>2, <1>6, <1>7 DEF CommitsInvariant, ToldOnce, Emitting
  <1> QED
    BY <1>3, <1>5, <1>8 DEF CommitsInvariant

LEMMA MakeCommitKeeps ==
    ASSUME CommitsInvariant, MakeCommit
    PROVE  CommitsInvariant'
  <1>1. tip \in Nat /\ tip' = tip + 1 /\ tip' <= MaxCommits
        /\ UNCHANGED <<base, headCache, poller, told, again, holes, reopened>>
    BY CommitsAssumption DEF MakeCommit, CommitsInvariant, CommitRows
  <1>2. 1..tip \subseteq 1..tip' /\ 0..tip \subseteq 0..tip' /\ NoHead..tip \subseteq NoHead..tip'
    BY <1>1 DEF NoHead
  <1>3. \A low \in Nat : Above(low, tip) \subseteq Above(low, tip')
    BY <1>1 DEF Above
  <1>4. \A p \in Pollers : poller[p].from \in Nat /\ poller[p].seen \in Nat
    BY DEF CommitsInvariant, CommitRows, CommitPoller
  <1>5. \A p \in Pollers : poller[p].from <= tip' /\ poller[p].seen <= tip'
                           /\ poller[p].lines \subseteq Above(poller[p].from, tip')
    BY <1>1, <1>3, <1>4 DEF CommitsInvariant, CommitRows
  <1>6. CommitRows'
    BY <1>1, <1>2, <1>5 DEF CommitsInvariant, CommitRows
  <1>7. NonePassed'
    BY <1>1 DEF CommitsInvariant, NonePassed, Accounted, AtPoll, Emitting
  <1>8. ToldOnce'
    BY <1>1 DEF CommitsInvariant, ToldOnce, Behind, AtPoll, Emitting
  <1> QED
    BY <1>6, <1>7, <1>8 DEF CommitsInvariant

LEMMA CommitsRest ==
    ASSUME CommitsInvariant, CacheExpires \/ UNCHANGED commitVars
    PROVE  CommitsInvariant'
  <1>1. UNCHANGED <<tip, base, poller, told, again, holes, reopened>> /\ headCache' \in {headCache, NoHead}
    BY DEF CacheExpires, commitVars
  <1>2. CommitRows'
    BY <1>1 DEF CommitsInvariant, CommitRows, NoHead
  <1> QED
    BY <1>1, <1>2 DEF CommitsInvariant, NonePassed, ToldOnce, Accounted, Behind, AtPoll, Emitting

LEMMA CommitsKeep == CommitsInvariant /\ [CommitsNext]_commitVars => CommitsInvariant'
  BY ReadBaseKeeps, git_logKeeps, rev_parseKeeps, set_baseKeeps, AdvanceFailsKeeps, _emitKeeps,
     CommitPollersCrash, RegisterKeeps, MakeCommitKeeps, CommitsRest
  DEF CommitsNext

\* A commit is told again, and the base passes one untold, only in the ways the code has.
THEOREM OnlyReopenedToldAgain == CommitsSpec => []RepeatsAreReopened
  <1>1. ASSUME CommitsInvariant PROVE RepeatsAreReopened
    BY <1>1 DEF CommitsInvariant, NonePassed, ToldOnce, Accounted, Emitting, RepeatsAreReopened
  <1>2. CommitsInvariant => RepeatsAreReopened
    BY <1>1
  <1> QED
    BY <1>2, CommitsStart, CommitsKeep, PTL DEF CommitsSpec

-----------------------------------------------------------------------------

(***************************************************************************)
(* The parts together.                                                      *)
(***************************************************************************)

\* A step of the whole is a step of each part or leaves it alone; the two parts that have
\* the artifacts of a Case in common are never at work in the same behaviour.
LEMMA PartsMove ==
    ASSUME [DeskNext]_deskVars
    PROVE  /\ [IntakeNext]_intakeVars /\ [AgentsNext]_agentVars /\ [StreamNext]_streamVars
           /\ [ViewNext]_viewVars /\ [FeedbackNext]_feedbackVars /\ [LogNext]_logVars
           /\ [DiscoveryNext]_discoveryVars /\ [CommitsNext]_commitVars
           /\ part = "evidence" => [EvidenceNext]_evidenceVars
           /\ part = "retrospective" => [RetroNext]_retroVars
           /\ part' = part
  <1>1. CASE UNCHANGED deskVars
    BY <1>1 DEF deskVars, caseVars, paperVars, screenVars, localVars
  <1>2. CASE DeskNext
    BY <1>2 DEF DeskNext, deskVars, caseVars, paperVars, screenVars, localVars
  <1> QED
    BY <1>1, <1>2

\* The whole implements each of its parts: the daemon is each part's specification, of the
\* two that share artifacts the one it runs (Case Controller, server.py and the scripts).
THEOREM WholeIsEachPart ==
    DeskSpec => /\ IntakeSpec /\ AgentsSpec /\ StreamSpec /\ ViewSpec /\ FeedbackSpec
                /\ LogSpec /\ DiscoverySpec /\ CommitsSpec
                /\ part = "evidence" => EvidenceSpec
                /\ part = "retrospective" => RetroSpec
  <1>1. DeskInit => /\ IntakeInit /\ AgentsInit /\ StreamInit /\ ViewInit /\ FeedbackInit
                    /\ LogInit /\ DiscoveryInit /\ CommitsInit /\ EvidenceInit /\ RetroInit
    BY DEF DeskInit
  <1>2. [DeskNext]_deskVars =>
            /\ [IntakeNext]_intakeVars /\ [AgentsNext]_agentVars /\ [StreamNext]_streamVars
            /\ [ViewNext]_viewVars /\ [FeedbackNext]_feedbackVars /\ [LogNext]_logVars
            /\ [DiscoveryNext]_discoveryVars /\ [CommitsNext]_commitVars
    BY PartsMove
  <1>3. part = "evidence" /\ [DeskNext]_deskVars => [EvidenceNext]_evidenceVars /\ (part = "evidence")'
    BY PartsMove
  <1>4. part = "retrospective" /\ [DeskNext]_deskVars =>
            [RetroNext]_retroVars /\ (part = "retrospective")'
    BY PartsMove
  <1> QED
    BY <1>1, <1>2, <1>3, <1>4, PTL
    DEF DeskSpec, IntakeSpec, AgentsSpec, StreamSpec, ViewSpec, FeedbackSpec, LogSpec,
        DiscoverySpec, CommitsSpec, EvidenceSpec, RetroSpec

\* What one part's rows are made of.
LEMMA TypesFollow ==
    /\ IntakeInvariant => IntakeTypeOK
    /\ StreamInvariant => StreamTypeOK
    /\ ViewInvariant => ViewTypeOK
    /\ FeedbackInvariant => FeedbackTypeOK
    /\ LogInvariant => LogTypeOK
    /\ DiscoveryInvariant => DiscoveryTypeOK
    /\ CommitsInvariant => CommitsTypeOK
  <1>1. ASSUME IntakeInvariant PROVE IntakeTypeOK
    <2>1. ASSUME NEW c \in 1..Len(cases)
          PROVE  cases[c] \in [sig : Incidents \cup {Unsigned},
                               status : {"open", "escalated", "closed"},
                               updated : 0..clock, left : BOOLEAN]
      <3>1. cases[c] \in CaseRow /\ cases[c].updated <= clock /\ clock \in Nat
        BY <1>1, RowsOfIntake DEF IntakeInvariant, CaseRows
      <3> QED
        BY <3>1 DEF CaseRow
    <2>2. ASSUME NEW s \in 1..Len(sources)
          PROVE  /\ sources[s].case \in 0..Len(cases)
                 /\ sources[s].state = "pending" <=> sources[s].case = NoCase
      <3>1. /\ sources[s] \in SourceRow /\ Len(cases) \in Nat
            /\ sources[s].state \in {"pending", "linked", "orphaned"}
        BY <1>1, RowsOfIntake DEF SourceRow
      <3> QED
        BY <1>1, <3>1 DEF IntakeInvariant, SourceRows, Placed, NoCase
    <2> QED
      BY <1>1, <2>1, <2>2, RowsOfIntake DEF IntakeInvariant, CaseRows, IntakeTypeOK
  <1>2. ASSUME StreamInvariant PROVE StreamTypeOK
    BY <1>2 DEF StreamInvariant, StreamRows, StreamTypeOK
  <1>3. ASSUME ViewInvariant PROVE ViewTypeOK
    <2>1. ASSUME NEW e \in cached PROVE Cardinality(Found(e.key)) = 1 /\ e.until > viewClock
      <3>1. Found(e.key) = {e}
        BY <1>3 DEF ViewInvariant, ViewRows, Found
      <3>2. viewClock < e.until
        BY <1>3 DEF ViewInvariant, ViewRows
      <3>3. viewClock \in Int /\ e.until \in Int
        BY <1>3 DEF ViewInvariant, ViewRows, Entry
      <3> QED
        BY <3>1, <3>2, <3>3, FS_Singleton
    <2>2. viewClock \in 0..MaxViewClock
      BY <1>3, ViewAssumption DEF ViewInvariant, ViewRows
    <2> QED
      BY <1>3, <2>1, <2>2 DEF ViewInvariant, ViewRows, ViewTypeOK
  <1>4. ASSUME FeedbackInvariant PROVE FeedbackTypeOK
    <2>1. second \in Nat /\ second <= LastSecond /\ LastSecond \in Nat
      BY <1>4, FeedbackAssumption DEF FeedbackInvariant, FeedbackRows
    <2>2. \A m \in marks : m.finding \in Findings \cup {NoIdentity} /\ m.at \in Nat /\ m.at <= second
      BY <1>4 DEF FeedbackInvariant, FeedbackRows, MarkRow, Identities
    <2> QED
      BY <1>4, <2>1, <2>2 DEF FeedbackInvariant, FeedbackRows, FeedbackKeys, FeedbackTypeOK
  <1>5. ASSUME LogInvariant PROVE LogTypeOK
    BY <1>5 DEF LogInvariant, LogRows, UpdaterRow, WatcherRow, LogTypeOK
  <1>6. ASSUME DiscoveryInvariant PROVE DiscoveryTypeOK
    BY <1>6 DEF DiscoveryInvariant, DiscoveryRows, DiscoveryTypeOK
  <1>7. ASSUME CommitsInvariant PROVE CommitsTypeOK
    <2>1. \A p \in Pollers : /\ poller[p].pc \in PollSteps
                             /\ poller[p].lines \subseteq 1..tip
      BY <1>7 DEF CommitsInvariant, CommitRows, CommitPoller, Above
    <2>2. tip \in 0..MaxCommits
      BY <1>7, CommitsAssumption DEF CommitsInvariant, CommitRows
    <2> QED
      BY <1>7, <2>1, <2>2 DEF CommitsInvariant, CommitRows, PollSteps, CommitsTypeOK
  <1> QED
    BY <1>1, <1>2, <1>3, <1>4, <1>5, <1>6, <1>7

\* The rows and files of every part have the values their writers allow.
THEOREM DeskTypes == DeskSpec => []DeskTypeOK
  <1>1. DeskInit => part \in Parts
    BY DEF DeskInit
  <1>2. part \in Parts /\ [DeskNext]_deskVars => (part \in Parts)'
    BY PartsMove
  <1>3. ~(part = "evidence") /\ [DeskNext]_deskVars => ~(part = "evidence")'
    BY PartsMove
  <1>4. ~(part = "retrospective") /\ [DeskNext]_deskVars => ~(part = "retrospective")'
    BY PartsMove
  <1>5. DeskSpec => [](part \in Parts)
    BY <1>1, <1>2, PTL DEF DeskSpec
  <1>6. DeskSpec => /\ [](part = "evidence" => EvidenceTypeOK)
                    /\ [](part = "retrospective" => RetroTypeOK)
    BY <1>3, <1>4, WholeIsEachPart, EvidenceTypes, RetroTypes, PTL DEF DeskSpec
  <1>7. DeskSpec => [](/\ IntakeInvariant /\ StreamInvariant /\ ViewInvariant /\ FeedbackInvariant
                       /\ LogInvariant /\ DiscoveryInvariant /\ CommitsInvariant /\ AgentsTypeOK)
    BY WholeIsEachPart, AgentTypes, IntakeStart, IntakeKeeps, StreamStart, StreamKeeps, ViewStart,
       ViewKeeps, FeedbackStart, FeedbackKeeps, LogStart, LogKeeps, DiscoveryStart, DiscoveryKeeps,
       CommitsStart, CommitsKeep, PTL
    DEF IntakeSpec, StreamSpec, ViewSpec, FeedbackSpec, LogSpec, DiscoverySpec, CommitsSpec
  <1>8. /\ part \in Parts /\ IntakeInvariant /\ StreamInvariant /\ ViewInvariant
        /\ FeedbackInvariant /\ LogInvariant /\ DiscoveryInvariant /\ CommitsInvariant
        /\ AgentsTypeOK
        /\ part = "evidence" => EvidenceTypeOK
        /\ part = "retrospective" => RetroTypeOK
        => DeskTypeOK
    BY TypesFollow DEF DeskTypeOK
  <1> QED
    BY <1>5, <1>6, <1>7, <1>8, PTL
=============================================================================
