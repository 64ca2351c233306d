------------------------------- MODULE Evidence -------------------------------
(***************************************************************************)
(* The evidence of one Case: the hash chain of its tool runs (daemon/store.py), *)
(* the sandbox of the controlled repair (tools/controlled_repair.py) and the    *)
(* report of the quality gate (agents/verification.py), with failures and       *)
(* crashes between any two writes.  A hash is the list of what it covers, row by  *)
(* row: two hashes are equal when all of that is.                                *)
(***************************************************************************)
EXTENDS Artifacts

CONSTANTS MaxToolRuns   \* bound: rows of tool_runs

ASSUME ToolRunsAssumption ==
    MaxToolRuns \in Nat /\ {"patch_metadata", "quality_gate_report"} \subseteq Kinds

VARIABLES
    chain,      \* tool_runs by chain_sequence
    anchor,     \* cases.chain_anchor
    edits,      \* history: what was changed behind the store's back
    sandbox,    \* the directory of the patch: none, partial, original, patched
    repair,     \* the running repair or gate, and the tool runs it has recorded
    returned,   \* what the last repair returned: its tool runs and artifact
    odd         \* paths in a command hold characters that clean_text rewrites

evidenceVars == <<artifactVars, chain, anchor, edits, sandbox, repair, returned, odd>>

Texts == {"plain", "odd", "cleaned", "forged"}
clean_text(text) == IF text = "odd" THEN "cleaned" ELSE text
NoHash == <<>>
Hash(prev, seq, text, result) == Append(prev, <<seq, text, result>>)
PreviousHash(n) == IF n = 1 THEN NoHash ELSE chain[n - 1].hash

\* The row stores the cleaned text; the hash covers what the caller passed.  (The row and
\* the anchor are one transaction; a failure between them is left out.)
record_tool_run(tool, result) ==
    LET n    == Len(chain) + 1
        text == IF odd THEN "odd" ELSE "plain"
        hash == Hash(PreviousHash(n), n, <<tool, text>>, result)
    IN  /\ n <= MaxToolRuns
        /\ chain' = Append(chain, [tool |-> tool, text |-> clean_text(text),
                                   result |-> result, hash |-> hash])
        /\ anchor' = hash
        /\ edits' = IF edits \in {"rehashed", "cut"} THEN "masked" ELSE edits

RowMatches(n) ==
    chain[n].hash = Hash(PreviousHash(n), n, <<chain[n].tool, chain[n].text>>, chain[n].result)

\* (Mutant: only the rows are compared, not the anchor of the Case.)
rows_verify == \A n \in DOMAIN chain : RowMatches(n)
verify_tool_chain ==
    /\ \A n \in DOMAIN chain : RowMatches(n)
    /\ chain = <<>> \/ anchor = NoHash \/ anchor = chain[Len(chain)].hash

-----------------------------------------------------------------------------
(* apply_case_a_patch: one thread, as the dispatch lock has it *)

Idle == [pc |-> "idle", runs |-> {}, artifact |-> 0]
At(pc) == repair.pc = pc
To(pc) == repair' = [repair EXCEPT !.pc = pc]
Returned(runs, artifact) == [ok |-> TRUE, runs |-> runs, artifact |-> artifact]
Refused == [ok |-> FALSE, runs |-> {}, artifact |-> 0]

\* A sandbox that is there already is resumed if it is patched, else refused.
\* (Mutant: what is in it is not looked at.)
any_sandbox == sandbox # "none"
patched_sandbox == sandbox = "patched"

ResumeRepair ==
    /\ At("idle") /\ sandbox # "none"
    /\ returned' = IF patched_sandbox THEN Returned({}, 0) ELSE Refused
    /\ UNCHANGED <<artifactVars, chain, anchor, edits, sandbox, repair, odd>>

\* copytree, complete or not.
CopySandbox ==
    /\ At("idle") /\ sandbox = "none"
    /\ \/ sandbox' = "original" /\ To("copied")
       \/ sandbox' = "partial" /\ UNCHANGED repair
    /\ returned' = Refused
    /\ UNCHANGED <<artifactVars, chain, anchor, edits, odd>>

RecordCopy ==
    /\ At("copied")
    /\ record_tool_run("sandbox_copy", 0)
    /\ repair' = [repair EXCEPT !.pc = "recorded", !.runs = {Len(chain) + 1}]
    /\ UNCHANGED <<artifactVars, sandbox, returned, odd>>

ApplyPatch ==
    /\ At("recorded")
    /\ sandbox' = "patched"
    /\ To("patched")
    /\ UNCHANGED <<artifactVars, chain, anchor, edits, returned, odd>>

RecordMetadata ==
    /\ At("patched")
    /\ record_artifact("patch_metadata")
    /\ repair' = [repair EXCEPT !.pc = "described", !.artifact = NextArtifact]
    /\ UNCHANGED <<chain, anchor, edits, sandbox, returned, odd>>

RecordPatch ==
    /\ At("described")
    /\ record_tool_run("apply_case_a_patch", repair.artifact)
    /\ returned' = Returned(repair.runs \cup {Len(chain) + 1}, repair.artifact)
    /\ repair' = Idle
    /\ UNCHANGED <<artifactVars, sandbox, odd>>

-----------------------------------------------------------------------------
(* _record_gate_evidence on a sandbox with a cli.py: first the report, then the run
   that refers to it.  (Mutant: the other order.)                                *)

run_before_report ==
    \/ At("idle") /\ record_tool_run("quality_gate", NextArtifact) /\ To("reported")
       /\ UNCHANGED artifactVars
    \/ At("reported") /\ record_artifact("quality_gate_report")
       /\ repair' = Idle /\ UNCHANGED <<chain, anchor, edits>>
_record_gate_evidence ==
    \/ At("idle") /\ record_artifact("quality_gate_report")
       /\ repair' = [Idle EXCEPT !.pc = "reported", !.artifact = NextArtifact]
       /\ UNCHANGED <<chain, anchor, edits>>
    \/ At("reported") /\ record_tool_run("quality_gate", repair.artifact)
       /\ repair' = Idle /\ UNCHANGED artifactVars

QualityGate ==
    /\ sandbox \in {"original", "patched"}
    /\ _record_gate_evidence
    /\ UNCHANGED <<sandbox, returned, odd>>

-----------------------------------------------------------------------------
(* Any write may fail or be the last one before a crash *)

Interrupted ==
    /\ ~At("idle")
    /\ repair' = Idle
    /\ returned' = Refused
    /\ \/ UNCHANGED artifactVars
       \/ At("patched") /\ CrashInRecord("patch_metadata")
    /\ UNCHANGED <<chain, anchor, edits, sandbox, odd>>

\* Somebody edits the database: a row; a row and every hash after it; or the newest
\* row is removed.
Rehashed(n) ==
    LET text(k) == IF k = n THEN "forged" ELSE chain[k].text
        covered(k) == <<k, <<chain[k].tool, text(k)>>, chain[k].result>>
        hash(k) == PreviousHash(n) \o [i \in 1..(k - n + 1) |-> covered(n + i - 1)]
    IN  [k \in DOMAIN chain |->
            IF k < n THEN chain[k] ELSE [chain[k] EXCEPT !.text = text(k), !.hash = hash(k)]]

DatabaseEdited ==
    /\ edits = "none" /\ chain # <<>>
    /\ \/ /\ \E n \in DOMAIN chain : chain' = [chain EXCEPT ![n].text = "forged"]
          /\ edits' = "row"
       \/ /\ \E n \in DOMAIN chain : chain' = Rehashed(n)
          /\ edits' = "rehashed"
       \/ /\ chain' = Front(chain)
          /\ edits' = "cut"
    /\ UNCHANGED <<artifactVars, anchor, sandbox, repair, returned, odd>>

EvidenceInit ==
    /\ ArtifactInit
    /\ chain = <<>> /\ anchor = NoHash /\ edits = "none"
    /\ sandbox = "none" /\ repair = Idle /\ returned = Refused
    /\ odd \in BOOLEAN

EvidenceNext ==
    \/ ResumeRepair \/ CopySandbox \/ RecordCopy \/ ApplyPatch \/ RecordMetadata
    \/ RecordPatch \/ QualityGate \/ Interrupted \/ DatabaseEdited

EvidenceSpec == EvidenceInit /\ [][EvidenceNext]_evidenceVars

-----------------------------------------------------------------------------
(* Correctness *)

EvidenceTypeOK ==
    /\ ArtifactTypeOK
    /\ Len(chain) <= MaxToolRuns
    /\ \A n \in DOMAIN chain : chain[n].text \in Texts /\ chain[n].result \in 0..MaxArtifacts
    /\ sandbox \in {"none", "partial", "original", "patched"}
    /\ repair.pc \in {"idle", "copied", "recorded", "patched", "described", "reported"}
    /\ edits \in {"none", "row", "rehashed", "cut", "masked"}
    /\ returned.ok \in BOOLEAN /\ odd \in BOOLEAN

\* What the audit of the chain tells, through failed, resumed and repeated repairs and
\* gates and for every row that comes later: a chain of plain texts is accused exactly
\* when it was changed behind the store's back, unless it is empty or a re-hashed or cut
\* tail was covered by a new row that moved the anchor.  (Where clean_text rewrote what
\* the hash covers every chain is accused: see MismatchMeansRewritten.)
ChainAuditIsRight ==
    verify_tool_chain <=> (chain = <<>> \/ (edits \in {"none", "masked"} /\ ~odd))

\* store.py:1434-1435: "A mismatch means the audit trail was rewritten after insertion."
MismatchMeansRewritten == ~verify_tool_chain => edits # "none"

\* A result_ref names an artifact that was recorded before, with its file, through
\* failed writes and crashes between file and row; and no row of an artifact is
\* without its file unless a deletion was interrupted.
ResultRefResolves ==
    /\ RowHasFile
    /\ \A n \in DOMAIN chain : chain[n].result # 0 =>
        chain[n].result \in DOMAIN artifacts /\ Readable(chain[n].result)

\* A repair that reports a patch has patched its sandbox, and unless it resumed one
\* it names two tool runs and the metadata artifact, all on record (if nobody cut the
\* chain).
RepairIsEvidenced ==
    returned.ok =>
        /\ sandbox = "patched"
        /\ returned.runs # {} /\ edits \notin {"cut", "masked"} =>
              /\ Cardinality(returned.runs) = 2 /\ returned.runs \subseteq DOMAIN chain
              /\ Readable(returned.artifact)
=============================================================================
