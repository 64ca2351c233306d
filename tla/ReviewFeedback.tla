---------------------------- MODULE ReviewFeedback ----------------------------
(***************************************************************************)
(* The marks people put on review findings (daemon/store.py,                *)
(* set_review_finding_feedback): a row per finding identity, and one legacy *)
(* row that an older schema filed under the text the findings share.  Time  *)
(* has one-second ticks, so rows may be equally old.                         *)
(***************************************************************************)
EXTENDS Integers, FiniteSets

CONSTANTS Findings,            \* identities of findings with the same text
          NoIdentity,          \* the identity of a legacy row nobody adopted
          FeedbackRetention,   \* DEFAULT_REVIEW_FEEDBACK_RETENTION
          LastSecond           \* bound of the model

ASSUME FeedbackAssumption ==
    /\ NoIdentity \notin Findings
    /\ FeedbackRetention \in Nat \ {0} /\ LastSecond \in Nat

VARIABLES second,
          marks,      \* rows of review_finding_feedback
          decided,    \* history: the last decision on each finding
          dropped,    \* history: findings that retention took a row of
          hadLegacy   \* history: the database came with the legacy row

feedbackVars == <<second, marks, decided, dropped, hadLegacy>>

Decisions == {"fixed", "accepted"}
Mark(key, finding, status, at) == [key |-> key, finding |-> finding, status |-> status, at |-> at]
MarksOf(f) == {m \in marks : m.finding = f}
LegacyKey == NoIdentity    \* sha256 of label and detail, as no finding has
(* (Mutant: the key is made from the text alone.) *)
text_key(f) == LegacyKey
finding_key(f) == f

FeedbackInit ==
    /\ second = 0
    /\ hadLegacy \in BOOLEAN
    /\ marks = IF hadLegacy THEN {Mark(LegacyKey, NoIdentity, "fixed", 0)} ELSE {}
    /\ decided = [f \in Findings |-> "open"]
    /\ dropped = {}

(* Clearing a mark removes the row of the finding and the row of its text, whoever *)
(* adopted that.                                                                   *)
reopen(f) == {m \in marks : m.key \notin {finding_key(f), LegacyKey}}

ClearMark(f) ==
    /\ marks' = reopen(f)
    /\ decided' = [decided EXCEPT ![f] = "open"]
    /\ UNCHANGED <<second, dropped, hadLegacy>>

(* A legacy row without an identity is adopted in place, and keeps its key.  (Mutant: *)
(* a row is added whatever is there.)                                              *)
added(f, status) == marks \cup {Mark(finding_key(f), f, status, second)}
Marked(f, status) ==
    LET legacy == Mark(LegacyKey, NoIdentity, "fixed", 0)
        key    == IF legacy \in marks THEN LegacyKey ELSE finding_key(f)
    IN  {m \in marks : m.key # key} \cup {Mark(key, f, status, second)}

(* The newest rows stay; the second decides, so any of equally old ones may go. *)
MayStay(rows) ==
    {kept \in SUBSET rows :
        /\ Cardinality(kept) <= FeedbackRetention
        /\ kept = rows \/ Cardinality(kept) = FeedbackRetention
        /\ \A k \in kept, m \in rows \ kept : m.at <= k.at}

set_review_finding_feedback(f, status) ==
    LET rows == Marked(f, status)
    IN  \E kept \in MayStay(rows) :
            /\ marks' = kept
            /\ dropped' = (dropped \ {f}) \cup {m.finding : m \in rows \ kept}
            /\ decided' = [decided EXCEPT ![f] = status]
            /\ UNCHANGED <<second, hadLegacy>>

NextSecond ==
    /\ second < LastSecond
    /\ second' = second + 1
    /\ UNCHANGED <<marks, decided, dropped, hadLegacy>>

FeedbackNext ==
    \/ \E f \in Findings : ClearMark(f)
                           \/ \E status \in Decisions : set_review_finding_feedback(f, status)
    \/ NextSecond

FeedbackSpec == FeedbackInit /\ [][FeedbackNext]_feedbackVars

----------------------------------------------------------------------------
FeedbackTypeOK ==
    /\ second \in 0..LastSecond
    /\ \A m \in marks : m.finding \in Findings \cup {NoIdentity} /\ m.at \in 0..second
    /\ \A m, n \in marks : m.key = n.key => m = n
    /\ Cardinality(marks) <= FeedbackRetention

(* A finding whose mark was cleared has no row, also when the mark lived in the row   *)
(* of its text; what a finding has says what was decided on it last, if one looks at  *)
(* its newest row (after an adoption it can have two); and without a legacy row its   *)
(* row is there unless retention took it, whatever is decided on findings with the    *)
(* same text.                                                                         *)
Newest(f) == {m \in MarksOf(f) : \A n \in MarksOf(f) : n.at <= m.at}
FeedbackIsLastDecision ==
    \A f \in Findings :
        IF decided[f] = "open" THEN MarksOf(f) = {}
        ELSE f \notin dropped =>
                /\ MarksOf(f) # {} => \E m \in Newest(f) : m.status = decided[f]
                /\ ~hadLegacy => Cardinality(MarksOf(f)) = 1
=============================================================================
