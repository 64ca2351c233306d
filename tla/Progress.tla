------------------------------- MODULE Progress -------------------------------
(***************************************************************************)
(* What must go on in the daemon: the request threads that drive a Case, the    *)
(* recovery, and the threads of Review Runs.  The two share no state; a behaviour *)
(* chooses one of them and runs it, and the fairness is that of their threads.    *)
(***************************************************************************)
EXTENDS Orchestrator, ReviewRun

VARIABLE part

progressVars == <<part, vars, driveVars>>

ProgressInit == Init /\ DriveInit /\ part \in {"orchestrator", "drive"}

\* A step of one part; the other rests.
Orchestrates(step) == part = "orchestrator" /\ step /\ UNCHANGED <<part, driveVars>>
Drives(step) == part = "drive" /\ step /\ UNCHANGED <<part, vars>>

ProgressNext == Orchestrates(Next) \/ Drives(DriveNext)

\* A thread that can run does run: an Agent run ends (every adapter has a timeout), and
\* so does every call of a drive.  A started recovery goes on.  Nothing makes requests
\* arrive, and threading.Lock promises no order among the threads that wait for it, so
\* no strong fairness is assumed of TakeLock.
Fairness ==
    /\ \A t \in Threads : WF_progressVars(Orchestrates(ThreadStep(t)))
    /\ WF_progressVars(Orchestrates(Recovery))
    /\ \A r \in RunIds : WF_progressVars(Drives(run_drive(r)))

ProgressSpec == ProgressInit /\ [][ProgressNext]_progressVars /\ Fairness
=============================================================================
