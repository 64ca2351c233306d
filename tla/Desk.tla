--------------------------------- MODULE Desk ---------------------------------
(***************************************************************************)
(* The parts of the daemon that share no state with each other, side by side: a  *)
(* behaviour chooses one part and runs it, the others rest.  One model then      *)
(* checks what each of them promises on its own.                                 *)
(***************************************************************************)
EXTENDS Intake, Evidence, Retrospective, Agents, EventStream, ViewCache, ReviewFeedback,
        Worklog, Discovery, CommitFeed

VARIABLE part

Parts == {"intake", "evidence", "retrospective", "agents", "stream", "views", "feedback",
          "worklog", "discovery", "commits"}

caseVars == <<intakeVars, agentVars>>
paperVars == <<evidenceVars, retroVars>>    \* both have the artifacts of the Case
screenVars == <<streamVars, viewVars, feedbackVars>>
localVars == <<logVars, discoveryVars, commitVars>>
deskVars == <<part, caseVars, paperVars, screenVars, localVars>>

\* A part that rests starts in one of its initial states, whichever.
OnePart ==
    /\ part # "evidence" => ~odd
    /\ part # "agents" => executor = "mock" /\ signal = "none"
    /\ part # "views" => watched = "graph"
    /\ part # "feedback" => ~hadLegacy
    /\ part # "commits" => tip = 0
    /\ part # "discovery" => \A d \in Daemons : port[d] = CHOOSE q \in Ports : TRUE

DeskInit ==
    /\ IntakeInit /\ EvidenceInit /\ RetroInit /\ AgentsInit /\ StreamInit /\ ViewInit
    /\ FeedbackInit /\ LogInit /\ DiscoveryInit /\ CommitsInit
    /\ part \in Parts
    /\ OnePart

evidenceOnly == <<chain, anchor, edits, sandbox, repair, returned, odd>>
retroOnly == <<status, moves, generator, holder, records, broken>>

DeskNext ==
    /\ part' = part
    /\ \/ part = "intake" /\ IntakeNext /\ UNCHANGED <<agentVars, paperVars, screenVars, localVars>>
       \/ part = "agents" /\ AgentsNext /\ UNCHANGED <<intakeVars, paperVars, screenVars, localVars>>
       \/ part = "evidence" /\ EvidenceNext /\ UNCHANGED <<caseVars, retroOnly, screenVars, localVars>>
       \/ part = "retrospective" /\ RetroNext
          /\ UNCHANGED <<caseVars, evidenceOnly, screenVars, localVars>>
       \/ part = "stream" /\ StreamNext
          /\ UNCHANGED <<caseVars, paperVars, viewVars, feedbackVars, localVars>>
       \/ part = "views" /\ ViewNext
          /\ UNCHANGED <<caseVars, paperVars, streamVars, feedbackVars, localVars>>
       \/ part = "feedback" /\ FeedbackNext
          /\ UNCHANGED <<caseVars, paperVars, streamVars, viewVars, localVars>>
       \/ part = "worklog" /\ LogNext /\ UNCHANGED <<caseVars, paperVars, screenVars, discoveryVars, commitVars>>
       \/ part = "discovery" /\ DiscoveryNext /\ UNCHANGED <<caseVars, paperVars, screenVars, logVars, commitVars>>
       \/ part = "commits" /\ CommitsNext
          /\ UNCHANGED <<caseVars, paperVars, screenVars, logVars, discoveryVars>>

DeskSpec == DeskInit /\ [][DeskNext]_deskVars

DeskTypeOK ==
    /\ part \in Parts
    /\ part = "intake" => IntakeTypeOK
    /\ part = "agents" => AgentsTypeOK
    /\ part = "evidence" => EvidenceTypeOK
    /\ part = "retrospective" => RetroTypeOK
    /\ part = "stream" => StreamTypeOK
    /\ part = "views" => ViewTypeOK
    /\ part = "feedback" => FeedbackTypeOK
    /\ part = "worklog" => LogTypeOK
    /\ part = "discovery" => DiscoveryTypeOK
    /\ part = "commits" => CommitsTypeOK
=============================================================================
