------------------------------ MODULE Artifacts ------------------------------
(***************************************************************************)
(* The artifacts of one Case: files under artifacts/ and their rows, which     *)
(* daemon/store.py writes one after the other under the store lock.  Only a     *)
(* crash can show the moment between the two.                                  *)
(***************************************************************************)
EXTENDS Integers, SequencesExt, FiniteSetsExt

CONSTANTS
    Kinds,        \* kinds of artifacts
    MaxArtifacts  \* bound: artifact ids ever used

ASSUME ArtifactsAssumption == MaxArtifacts \in Nat

VARIABLES
    artifacts,    \* artifact ids in order of use: kind, whether the file and the row are there
    halfDeleted   \* history: a deletion was interrupted between files and rows

artifactVars == <<artifacts, halfDeleted>>

Artifact(kind, file, row) == [kind |-> kind, file |-> file, row |-> row]
NextArtifact == Len(artifacts) + 1
RoomForArtifact == Len(artifacts) < MaxArtifacts

\* Rows of the case with a kind: get_case_artifact looks at the newest of them.
Recorded(kinds) == {a \in DOMAIN artifacts : artifacts[a].row /\ artifacts[a].kind \in kinds}

\* The file is replaced and read back, then the row is committed; what fails cleans
\* up after itself and leaves nothing.
record_artifact(kind) ==
    /\ RoomForArtifact
    /\ artifacts' = Append(artifacts, Artifact(kind, TRUE, TRUE))
    /\ UNCHANGED halfDeleted

\* The process dies between the file and the row.  (Mutant: the row came first.)
crash_after_row(kind) ==
    /\ RoomForArtifact
    /\ artifacts' = Append(artifacts, Artifact(kind, FALSE, TRUE))
    /\ UNCHANGED halfDeleted
CrashInRecord(kind) ==
    /\ RoomForArtifact
    /\ artifacts' = Append(artifacts, Artifact(kind, TRUE, FALSE))
    /\ UNCHANGED halfDeleted

\* All files of the kinds, then all rows.
delete_artifacts_for_case(kinds) ==
    /\ artifacts' = [a \in DOMAIN artifacts |->
          IF a \in Recorded(kinds) THEN Artifact(artifacts[a].kind, FALSE, FALSE)
          ELSE artifacts[a]]
    /\ UNCHANGED halfDeleted

\* The process dies, or an unlink fails, after some of the files.
DeleteInterrupted(kinds) ==
    /\ \E gone \in SUBSET Recorded(kinds) \ {{}} :
          artifacts' = [a \in DOMAIN artifacts |->
             IF a \in gone THEN [artifacts[a] EXCEPT !.file = FALSE] ELSE artifacts[a]]
    /\ halfDeleted' = TRUE

\* None when the file is gone.
Readable(a) == artifacts[a].row /\ artifacts[a].file

ArtifactInit == artifacts = <<>> /\ halfDeleted = FALSE

ArtifactTypeOK ==
    /\ artifacts \in Seq([kind : Kinds, file : BOOLEAN, row : BOOLEAN])
    /\ Len(artifacts) <= MaxArtifacts
    /\ halfDeleted \in BOOLEAN

\* A row always has its file, unless a deletion was interrupted.
RowHasFile == halfDeleted \/ \A a \in DOMAIN artifacts : artifacts[a].row => artifacts[a].file
=============================================================================
