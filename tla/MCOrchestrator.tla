---------------------------- MODULE MCOrchestrator ----------------------------
(* Orchestrator on small instances; ids nothing depends on are interchangeable *)
(* (no symmetry where a liveness property is checked).                         *)
EXTENDS Orchestrator, TLC

PatchGrantSymmetry == Permutations(Patches) \cup Permutations(GrantIds)
Symmetry == PatchGrantSymmetry \cup Permutations(Threads)

Mentioned(p) ==
    \/ \E c \in Cases : p \in {cases[c].patch_ref, cases[c].sandbox_ref}
    \/ \E t \in Threads : p \in {threads[t].patch, threads[t].seen.patch_ref,
                                 threads[t].ctx.patch_ref, threads[t].ctx.sandbox_ref}
    \/ \E row \in gateReports : p \in {row.patch_ref, row.sandbox_ref}
    \/ \E g \in grants : g.target_ref = p
OnePatch == Cardinality({p \in Patches : Mentioned(p)}) <= 1
OneGrant == Cardinality(grants) <= 1
OneRequest == \A t, u \in Threads : "idle" \in {threads[t].pc, threads[u].pc} \/ t = u

\* Two requests at once, or several patches and Grants, or a dispatch that fails
\* (a step beyond is checked, not followed).
OnlyOneIsTwo ==
    /\ OneRequest \/ (OnePatch /\ OneGrant)
    /\ unrecorded = {} \/ (OneRequest /\ OnePatch /\ OneGrant)
=============================================================================
