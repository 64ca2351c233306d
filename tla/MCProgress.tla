------------------------------ MODULE MCProgress ------------------------------
(* Progress on a small instance: of Review Runs, the widest scope and one that  *)
(* skips the Agent and a probe.                                                *)
EXTENDS Progress

WideAndNarrow ==
    {[tests |-> TRUE, static |-> TRUE, harness |-> TRUE],
     [tests |-> FALSE, static |-> TRUE, harness |-> FALSE]}
=============================================================================
