--------------------------- MODULE EvidenceProofs ---------------------------
(* What holds of the evidence and of the retrospectives of a Case for every     *)
(* number of tool runs, artifacts, requests and moves: the audit of the chain    *)
(* accuses the right chains, a reference names what was recorded before, a       *)
(* repair is told with its evidence, and nothing is extracted after the whole    *)
(* knowledge is on record.                                                      *)
EXTENDS Evidence, Retrospective, SequenceTheorems, FiniteSetTheorems, TLAPS

Tools == {"sandbox_copy", "apply_case_a_patch", "quality_gate"}
Entries == (1..MaxToolRuns) \X (Tools \X Texts) \X (0..MaxArtifacts)
RunRow == [tool : Tools, text : Texts, result : 0..MaxArtifacts, hash : Seq(Entries)]

ChainRows ==
    /\ chain \in Seq(RunRow) /\ Len(chain) <= MaxToolRuns
    /\ anchor \in Seq(Entries)
    /\ edits \in {"none", "row", "rehashed", "cut", "masked"}
    /\ odd \in BOOLEAN

\* What a caller passes, what a row stands for, and the newest hash.
Passed == IF odd THEN "odd" ELSE "plain"
Covers(i, text) == <<i, <<chain[i].tool, text>>, chain[i].result>>
NewestHash == chain[Len(chain)].hash

\* As long as nobody edits, every hash is the list of all that was passed; that is what
\* makes an edit visible.  A chain of plain texts matches row by row, also when it was
\* re-hashed or cut, and then it is the anchor that tells, until the next row moves it.
ChainOK ==
    /\ edits = "none" => \A k \in DOMAIN chain :
          /\ Len(chain[k].hash) = k
          /\ \A i \in 1..k : chain[k].hash[i] = Covers(i, Passed)
    /\ ~odd /\ edits # "row" => \A k \in DOMAIN chain : RowMatches(k)
    /\ edits = "row" \/ (chain # <<>> /\ odd /\ edits \in {"none", "masked"}) =>
          \E k \in DOMAIN chain : ~RowMatches(k)
    /\ chain # <<>> /\ edits \in {"none", "masked"} => anchor = NewestHash
    /\ chain # <<>> /\ edits \in {"rehashed", "cut"} => anchor # NoHash /\ anchor # NewestHash

-----------------------------------------------------------------------------
(* Sequences *)

LEMMA AppendTells ==
    ASSUME NEW S, NEW s \in Seq(S), NEW a \in S, NEW b \in S, a # b
    PROVE  Append(s, a) # Append(s, b)
  <1>1. Append(s, a)[Len(s) + 1] = a /\ Append(s, b)[Len(s) + 1] = b
    OBVIOUS
  <1> QED
    BY <1>1

LEMMA ConcatOneMore ==
    ASSUME NEW S, NEW p \in Seq(S), NEW a \in Seq(S), NEW b \in Seq(S), Len(b) = Len(a) + 1,
           \A i \in 1..Len(a) : b[i] = a[i]
    PROVE  p \o b = Append(p \o a, b[Len(b)])
  <1>1. b[Len(b)] \in S
    BY ElementOfSeq
  <1> DEFINE lp   == Len(p)
             la   == Len(a)
             long == Append(p \o a, b[Len(b)])
  <1>2. lp \in Nat /\ la \in Nat /\ Len(b) = la + 1
    BY LenProperties
  <1>3. /\ p \o b \in Seq(S) /\ Len(p \o b) = lp + (la + 1)
        /\ \A i \in 1..(lp + (la + 1)) : (p \o b)[i] = IF i <= lp THEN p[i] ELSE b[i - lp]
    <2>1. /\ p \o b \in Seq(S) /\ Len(p \o b) = lp + Len(b)
          /\ \A i \in 1..(lp + Len(b)) : (p \o b)[i] = IF i <= lp THEN p[i] ELSE b[i - lp]
      BY ConcatProperties
    <2> HIDE DEF lp, la
    <2> QED
      BY <1>2, <2>1
  <1>4. /\ p \o a \in Seq(S) /\ Len(p \o a) = lp + la
        /\ \A i \in 1..(lp + la) : (p \o a)[i] = IF i <= lp THEN p[i] ELSE a[i - lp]
    BY ConcatProperties
  <1>5. /\ long \in Seq(S) /\ Len(long) = (lp + la) + 1 /\ long[(lp + la) + 1] = b[la + 1]
        /\ \A i \in 1..(lp + la) : long[i] = (p \o a)[i]
    BY <1>1, <1>2, <1>4
  <1> HIDE DEF lp, la, long
  <1>6. ASSUME NEW i \in 1..(lp + (la + 1))
        PROVE  (p \o b)[i] = long[i]
    <2>1. CASE i <= lp
      BY <1>2, <1>3, <1>4, <1>5, <2>1
    <2>2. CASE i > lp /\ i <= lp + la
      <3>1. i - lp \in 1..la
        BY <1>2, <2>2
      <3>2. b[i - lp] = a[i - lp]
        BY <3>1 DEF la
      <3>3. (p \o b)[i] = b[i - lp]
        <4>1. ~(i <= lp)
          BY <1>2, <2>2
        <4> QED
          BY <1>3, <4>1
      <3>4. i \in 1..(lp + la) /\ ~(i <= lp)
        BY <1>2, <2>2
      <3>5. long[i] = a[i - lp]
        BY <1>4, <1>5, <3>4
      <3> QED
        BY <3>2, <3>3, <3>5
    <2>3. CASE i = (lp + la) + 1
      <3>1. i - lp = la + 1 /\ ~(i <= lp)
        BY <1>2, <2>3
      <3>2. (p \o b)[i] = b[i - lp]
        BY <1>3, <3>1
      <3>3. long[i] = b[la + 1]
        BY <1>5, <2>3
      <3> QED
        BY <3>1, <3>2, <3>3
    <2>4. i <= lp \/ (i > lp /\ i <= lp + la) \/ i = (lp + la) + 1
      <3>1. lp \in Nat /\ la \in Nat
        BY <1>2
      <3>2. i \in Int /\ i <= (lp + la) + 1
        BY <3>1
      <3> QED
        BY <3>1, <3>2
    <2> QED
      BY <2>1, <2>2, <2>3, <2>4
  <1>7. Len(p \o b) = Len(long)
    BY <1>2, <1>3, <1>5
  <1>8. p \o b = long
    BY <1>3, <1>5, <1>6, <1>7, SeqEqual
  <1> QED
    BY <1>8 DEF long

LEMMA SequenceOver ==
    ASSUME NEW S, NEW m \in Nat, NEW f \in [1..m -> S]
    PROVE  f \in Seq(S) /\ Len(f) = m
  <1>1. f \in Seq(S)
    BY SeqDef
  <1>2. Len(f) \in Nat /\ 1..Len(f) = 1..m
    BY <1>1, LenProperties
  <1> QED
    BY <1>1, <1>2

-----------------------------------------------------------------------------
(* The rows of the chain *)

LEMMA TextsAreTold ==
    /\ Passed \in Texts /\ Passed # "forged" /\ clean_text(Passed) \in Texts
    /\ ~odd => Passed = "plain" /\ clean_text(Passed) = Passed
    /\ odd => Passed = "odd" /\ clean_text(Passed) # Passed
  BY DEF Passed, Texts, clean_text

LEMMA RowsOfChain ==
    ASSUME ChainRows
    PROVE  /\ Len(chain) \in 0..MaxToolRuns /\ DOMAIN chain = 1..Len(chain)
           /\ DOMAIN chain \subseteq 1..MaxToolRuns
           /\ \A k \in DOMAIN chain : /\ chain[k] \in RunRow /\ chain[k].hash \in Seq(Entries)
                                      /\ PreviousHash(k) \in Seq(Entries)
  <1>1. Len(chain) \in 0..MaxToolRuns /\ DOMAIN chain = 1..Len(chain)
    BY LenProperties, ToolRunsAssumption DEF ChainRows
  <1>2. \A k \in DOMAIN chain : chain[k] \in RunRow
    BY <1>1, ElementOfSeq DEF ChainRows
  <1>3. \A k \in DOMAIN chain : chain[k].hash \in Seq(Entries)
    BY <1>2 DEF RunRow
  <1>4. NoHash \in Seq(Entries)
    BY EmptySeq DEF NoHash
  <1>5. /\ \A k \in DOMAIN chain : k # 1 => k - 1 \in DOMAIN chain
        /\ DOMAIN chain \subseteq 1..MaxToolRuns
    BY <1>1, ToolRunsAssumption
  <1> QED
    BY <1>1, <1>2, <1>3, <1>4, <1>5 DEF PreviousHash

\* A row that is recorded extends the hash before it by what was passed.
LEMMA ARunIsRecorded ==
    ASSUME ChainRows, ChainOK, NEW tool \in Tools, NEW result \in 0..MaxArtifacts,
           record_tool_run(tool, result), odd' = odd
    PROVE  /\ ChainRows' /\ ChainOK'
           /\ Len(chain') = Len(chain) + 1
           /\ \A k \in DOMAIN chain : chain'[k] = chain[k]
           /\ chain'[Len(chain) + 1].result = result
           /\ edits' = IF edits \in {"rehashed", "cut"} THEN "masked" ELSE edits
  <1>0. PICK n \in Nat : n = Len(chain) + 1
    BY RowsOfChain
  <1> DEFINE entry == <<n, <<tool, Passed>>, result>>
             prev  == PreviousHash(n)
             hash  == Append(prev, entry)
             row   == [tool |-> tool, text |-> clean_text(Passed), result |-> result, hash |-> hash]
  <1>1. /\ n <= MaxToolRuns /\ chain' = Append(chain, row) /\ anchor' = hash
        /\ edits' = IF edits \in {"rehashed", "cut"} THEN "masked" ELSE edits
    BY <1>0 DEF record_tool_run, Hash, Passed
  <1>2. n \in 1..MaxToolRuns /\ DOMAIN chain = 1..(n - 1) /\ Len(chain) = n - 1 /\ n - 1 \in Nat
    BY <1>0, <1>1, RowsOfChain
  <1>3. entry \in Entries
    BY <1>2, TextsAreTold DEF Entries
  <1>4. prev \in Seq(Entries)
    <2>1. CASE n = 1
      BY <2>1, EmptySeq DEF PreviousHash, NoHash
    <2>2. CASE n # 1
      BY <1>2, <2>2, RowsOfChain DEF PreviousHash
    <2> QED
      BY <2>1, <2>2
  <1>5. hash \in Seq(Entries) /\ Len(hash) = Len(prev) + 1 /\ hash[Len(prev) + 1] = entry
        /\ \A i \in 1..Len(prev) : hash[i] = prev[i]
    BY <1>3, <1>4
  <1> HIDE DEF entry, prev, hash
  <1>6. row \in RunRow
    BY <1>5, TextsAreTold DEF RunRow
  <1>7. /\ chain' \in Seq(RunRow) /\ Len(chain') = n /\ DOMAIN chain' = 1..n
        /\ chain'[n] = row /\ \A k \in 1..(n - 1) : chain'[k] = chain[k]
    <2> HIDE DEF row
    <2> QED
      BY <1>1, <1>2, <1>6 DEF ChainRows
  <1>8. row.tool = tool /\ row.text = clean_text(Passed) /\ row.result = result /\ row.hash = hash
    OBVIOUS
  <1> HIDE DEF row
  <1>9. ChainRows'
    BY <1>1, <1>2, <1>5, <1>7 DEF ChainRows
  <1>10. \A k \in 1..n : PreviousHash(k)' = PreviousHash(k)
    BY <1>2, <1>7 DEF PreviousHash
  <1>11. \A k \in 1..(n - 1) : RowMatches(k)' <=> RowMatches(k)
    BY <1>2, <1>7, <1>10 DEF RowMatches
  <1>12. PreviousHash(n)' = prev
    BY <1>2, <1>10 DEF prev
  <1>13. RowMatches(n)' <=> ~odd
    <2>1. RowMatches(n)' <=> hash = Append(prev, <<n, <<tool, clean_text(Passed)>>, result>>)
      BY <1>2, <1>7, <1>8, <1>12 DEF RowMatches, Hash
    <2>2. <<n, <<tool, clean_text(Passed)>>, result>> \in Entries
      BY <1>2, TextsAreTold DEF Entries
    <2>3. <<n, <<tool, clean_text(Passed)>>, result>> = entry <=> ~odd
      BY TextsAreTold DEF entry
    <2> QED
      BY <1>3, <1>4, <2>1, <2>2, <2>3, AppendTells DEF hash
  <1>14. ASSUME edits' = "none", NEW k \in 1..n
         PROVE  /\ Len(chain'[k].hash) = k
                /\ \A i \in 1..k : chain'[k].hash[i] = <<i, <<chain'[i].tool, Passed>>, chain'[i].result>>
    <2>1. /\ edits = "none"
          /\ \A j \in 1..(n - 1) : /\ Len(chain[j].hash) = j
                                   /\ \A i \in 1..j : chain[j].hash[i] = Covers(i, Passed)
      BY <1>1, <1>2, <1>14 DEF ChainOK
    <2>2. CASE k \in 1..(n - 1)
      <3>1. \A i \in 1..k : i \in 1..(n - 1)
        BY <1>2, <2>2
      <3>2. /\ chain'[k].hash = chain[k].hash
            /\ \A i \in 1..k : chain'[i].tool = chain[i].tool /\ chain'[i].result = chain[i].result
        BY <1>7, <2>2, <3>1
      <3> QED
        BY <2>1, <2>2, <3>2 DEF Covers
    <2>3. CASE k = n
      <3>1. Len(prev) = n - 1 /\ \A i \in 1..(n - 1) : prev[i] = Covers(i, Passed)
        <4>1. CASE n = 1
          BY <4>1, EmptySeq DEF prev, PreviousHash, NoHash
        <4>2. CASE n # 1
          <5>1. n - 1 \in 1..(n - 1) /\ prev = chain[n - 1].hash
            BY <1>2, <4>2 DEF prev, PreviousHash
          <5> QED
            BY <2>1, <5>1
        <4> QED
          BY <4>1, <4>2
      <3>2. Len(hash) = n /\ hash[n] = entry /\ \A i \in 1..(n - 1) : hash[i] = Covers(i, Passed)
        BY <1>2, <1>5, <3>1
      <3>3. \A i \in 1..n : i = n \/ i \in 1..(n - 1)
        BY <1>2
      <3>4. chain'[n].hash = hash /\ chain'[n].tool = tool /\ chain'[n].result = result
        BY <1>7, <1>8
      <3> QED
        BY <1>7, <2>3, <3>2, <3>3, <3>4 DEF Covers, entry
    <2> QED
      BY <1>2, <2>2, <2>3
  <1>15. ASSUME NEW k \in 1..n PROVE k = n \/ k \in 1..(n - 1)
    BY <1>2
  <1>16. chain'[n].hash = hash /\ anchor' = hash /\ edits' \notin {"rehashed", "cut"} /\ n \in 1..n
         /\ n = Len(chain') /\ chain' # <<>>
    BY <1>1, <1>2, <1>7, <1>8, EmptySeq DEF ChainRows
  <1>17. ~odd /\ edits' # "row" => \A k \in 1..n : RowMatches(k)'
    BY <1>1, <1>2, <1>11, <1>13, <1>15 DEF ChainOK
  <1>18. edits' = "row" \/ odd => \E k \in 1..n : ~RowMatches(k)'
    <2>1. CASE odd
      BY <1>13, <1>16, <2>1
    <2>2. CASE edits' = "row" /\ ~odd
      <3>1. edits = "row"
        BY <1>1, <2>2 DEF ChainRows
      <3>2. PICK k \in DOMAIN chain : ~RowMatches(k)
        BY <3>1 DEF ChainOK
      <3>3. k \in 1..(n - 1) /\ k \in 1..n
        BY <1>2
      <3> QED
        BY <1>11, <3>2, <3>3
    <2> QED
      BY <2>1, <2>2
  <1>19. ChainOK'
    BY <1>7, <1>14, <1>16, <1>17, <1>18 DEF ChainOK, Covers, Passed, NewestHash
  <1>20. DOMAIN chain = 1..(n - 1) /\ Len(chain) + 1 = n /\ Len(chain') = n
    BY <1>0, <1>2, <1>7
  <1> QED
    BY <1>1, <1>7, <1>8, <1>9, <1>19, <1>20

\* What an edit leaves for the rest: no row is new, and none refers to anything else.
SameReferences ==
    /\ DOMAIN chain' \subseteq DOMAIN chain
    /\ edits' # "cut" => DOMAIN chain' = DOMAIN chain
    /\ \A k \in DOMAIN chain' : chain'[k].result = chain[k].result

\* An edited row does not match: its hash still covers what was passed.
LEMMA ARowIsEdited ==
    ASSUME ChainRows, ChainOK, edits = "none", NEW n \in DOMAIN chain,
           chain' = [chain EXCEPT ![n].text = "forged"], edits' = "row",
           UNCHANGED <<anchor, odd>>
    PROVE  ChainRows' /\ ChainOK' /\ SameReferences
  <1>1. DOMAIN chain = 1..Len(chain) /\ Len(chain) \in 0..MaxToolRuns
        /\ chain \in Seq(RunRow)
    BY RowsOfChain DEF ChainRows
  <1> DEFINE row == [chain[n] EXCEPT !.text = "forged"]
  <1>2. /\ row \in RunRow /\ row.text = "forged" /\ row.tool = chain[n].tool /\ row.hash = chain[n].hash
        /\ row.result = chain[n].result
    BY RowsOfChain DEF RunRow, Texts
  <1>3. chain' = [chain EXCEPT ![n] = row]
    BY <1>1
  <1> HIDE DEF row
  <1>4. /\ chain' \in Seq(RunRow) /\ Len(chain') = Len(chain) /\ DOMAIN chain' = DOMAIN chain
        /\ chain'[n] = row /\ \A k \in DOMAIN chain : k # n => chain'[k] = chain[k]
    BY <1>1, <1>2, <1>3, ExceptSeq
  <1>5. ChainRows'
    BY <1>4 DEF ChainRows
  <1>6. \A k \in DOMAIN chain : chain'[k].hash = chain[k].hash /\ chain'[k].result = chain[k].result
    BY <1>2, <1>4
  <1>7. ~RowMatches(n)'
    <2>1. Len(chain[n].hash) = n /\ chain[n].hash[n] = <<n, <<chain[n].tool, Passed>>, chain[n].result>>
      BY <1>1 DEF ChainOK, Covers
    <2>2. PreviousHash(n)' \in Seq(Entries) /\ Len(PreviousHash(n)') = n - 1
      <3>1. CASE n = 1
        BY <3>1, EmptySeq DEF PreviousHash, NoHash
      <3>2. CASE n # 1
        <4>1. n - 1 \in DOMAIN chain
          BY <1>1, <3>2
        <4>2. PreviousHash(n)' = chain[n - 1].hash
          BY <1>6, <3>2, <4>1 DEF PreviousHash
        <4>3. chain[n - 1].hash \in Seq(Entries) /\ Len(chain[n - 1].hash) = n - 1
          BY <4>1, RowsOfChain DEF ChainOK
        <4> QED
          BY <4>2, <4>3
      <3> QED
        BY <3>1, <3>2
    <2>3. SUFFICES ASSUME RowMatches(n)'
                   PROVE  FALSE
      OBVIOUS
    <2>4. chain[n].hash = Append(PreviousHash(n)', <<n, <<chain[n].tool, "forged">>, chain[n].result>>)
      BY <1>2, <1>4, <2>3 DEF RowMatches, Hash
    <2>5. <<n, <<chain[n].tool, "forged">>, chain[n].result>> \in Entries
      <3>1. n \in 1..MaxToolRuns /\ chain[n].tool \in Tools /\ chain[n].result \in 0..MaxArtifacts
        BY RowsOfChain DEF RunRow
      <3> QED
        BY <3>1 DEF Entries, Texts
    <2>6. chain[n].hash[n] = <<n, <<chain[n].tool, "forged">>, chain[n].result>>
      BY <1>1, <2>2, <2>4, <2>5
    <2> QED
      BY <2>1, <2>6, TextsAreTold
  <1>8. ChainOK'
    BY <1>4, <1>7 DEF ChainOK
  <1> QED
    BY <1>4, <1>5, <1>6, <1>8 DEF SameReferences

LEMMA AChainIsCut ==
    ASSUME ChainRows, ChainOK, edits = "none", chain # <<>>, chain' = Front(chain), edits' = "cut",
           UNCHANGED <<anchor, odd>>
    PROVE  ChainRows' /\ ChainOK' /\ SameReferences
  <1>1. PICK m \in Nat : Len(chain) = m + 1 /\ m + 1 <= MaxToolRuns /\ DOMAIN chain = 1..(m + 1)
    <2>1. Len(chain) \in Nat /\ Len(chain) # 0
      BY EmptySeq, LenProperties DEF ChainRows
    <2>2. Len(chain) - 1 \in Nat /\ (Len(chain) - 1) + 1 = Len(chain)
      BY <2>1
    <2> QED
      BY <2>2, RowsOfChain DEF ChainRows
  <1>2. \A k \in 1..m : k \in DOMAIN chain /\ chain[k] \in RunRow
    BY <1>1, RowsOfChain
  <1>3. /\ chain' \in Seq(RunRow) /\ Len(chain') = m /\ DOMAIN chain' = 1..m
        /\ \A k \in 1..m : chain'[k] = chain[k]
    <2>1. chain' = SubSeq(chain, 1, m)
      BY <1>1 DEF Front
    <2> QED
      BY <1>1, <1>2, <2>1, SubSeqProperties, LenProperties
  <1>4. ChainRows'
    BY <1>1, <1>3, ToolRunsAssumption DEF ChainRows
  <1>5. \A k \in 1..m : PreviousHash(k)' = PreviousHash(k)
    BY <1>3 DEF PreviousHash
  <1>6. \A k \in 1..m : RowMatches(k)' <=> RowMatches(k)
    BY <1>3, <1>5 DEF RowMatches
  <1>7. anchor = chain[m + 1].hash /\ Len(anchor) = m + 1
    BY <1>1 DEF ChainOK, NewestHash
  <1>8. chain' # <<>> => m \in 1..m /\ Len(chain'[m].hash) = m
    BY <1>1, <1>2, <1>3, EmptySeq DEF ChainOK
  <1>9. anchor # NoHash /\ (chain' # <<>> => anchor # NewestHash')
    BY <1>3, <1>7, <1>8, EmptySeq DEF NoHash, NewestHash
  <1>10. ChainOK'
    BY <1>2, <1>3, <1>6, <1>9 DEF ChainOK
  <1>11. \A k \in 1..m : k \in DOMAIN chain /\ chain'[k].result = chain[k].result
    BY <1>2, <1>3
  <1> QED
    BY <1>3, <1>4, <1>10, <1>11 DEF SameReferences

\* A re-hashed chain matches row by row if its texts are plain, and its newest hash is
\* not the one the anchor keeps.
LEMMA AChainIsRehashed ==
    ASSUME ChainRows, ChainOK, edits = "none", NEW n \in DOMAIN chain, chain' = Rehashed(n),
           edits' = "rehashed", UNCHANGED <<anchor, odd>>
    PROVE  ChainRows' /\ ChainOK' /\ SameReferences
  <1>1. PICK len \in Nat : Len(chain) = len /\ DOMAIN chain = 1..len /\ chain \in Seq(RunRow)
                          /\ n \in 1..len /\ len <= MaxToolRuns
    BY RowsOfChain, LenProperties DEF ChainRows
  <1> DEFINE text(k)    == IF k = n THEN "forged" ELSE chain[k].text
             covered(k) == <<k, <<chain[k].tool, text(k)>>, chain[k].result>>
             part(k)    == [i \in 1..(k - n + 1) |-> covered(n + i - 1)]
             base       == PreviousHash(n)
             rehash(k)  == base \o part(k)
             row(k)     == [chain[k] EXCEPT !.text = text(k), !.hash = rehash(k)]
  <1>2. chain' = [k \in 1..len |-> IF k < n THEN chain[k] ELSE row(k)]
    BY <1>1 DEF Rehashed
  <1>3. \A k \in 1..len : text(k) \in Texts /\ covered(k) \in Entries
    <2> SUFFICES ASSUME NEW k \in 1..len PROVE text(k) \in Texts /\ covered(k) \in Entries
      OBVIOUS
    <2>1. k \in 1..MaxToolRuns /\ chain[k] \in RunRow
      BY <1>1, RowsOfChain
    <2>2. text(k) \in Texts /\ chain[k].tool \in Tools /\ chain[k].result \in 0..MaxArtifacts
      BY <2>1 DEF RunRow, Texts
    <2> HIDE DEF text
    <2> QED
      BY <2>1, <2>2 DEF Entries
  <1>4. base \in Seq(Entries)
    BY RowsOfChain
  <1> HIDE DEF covered, text
  <1>5. ASSUME NEW k \in n..len
        PROVE  /\ part(k) \in Seq(Entries) /\ Len(part(k)) = k - n + 1
               /\ \A i \in 1..(k - n + 1) : part(k)[i] = covered(n + i - 1)
               /\ rehash(k) \in Seq(Entries) /\ Len(rehash(k)) = Len(base) + (k - n + 1)
               /\ rehash(k)[Len(base) + 1] = covered(n)
    <2>1. k - n + 1 \in Nat /\ 1 \in 1..(k - n + 1) /\ n + 1 - 1 = n
      BY <1>1
    <2>2. \A i \in 1..(k - n + 1) : n + i - 1 \in 1..len
      BY <1>1
    <2>3. part(k) \in [1..(k - n + 1) -> Entries]
      BY <1>3, <2>2
    <2>4. part(k) \in Seq(Entries) /\ Len(part(k)) = k - n + 1
      BY <2>1, <2>3, SequenceOver
    <2>5. \A i \in 1..(k - n + 1) : part(k)[i] = covered(n + i - 1)
      OBVIOUS
    <2>6. part(k)[1] = covered(n)
      BY <2>1, <2>5
    <2> HIDE DEF part, base
    <2>7. /\ rehash(k) \in Seq(Entries) /\ Len(rehash(k)) = Len(base) + Len(part(k))
          /\ \A i \in 1..(Len(base) + Len(part(k))) :
                rehash(k)[i] = IF i <= Len(base) THEN base[i] ELSE part(k)[i - Len(base)]
      BY <1>4, <2>4, ConcatProperties
    <2>8. /\ Len(base) + 1 \in 1..(Len(base) + Len(part(k))) /\ ~(Len(base) + 1 <= Len(base))
          /\ (Len(base) + 1) - Len(base) = 1
      BY <1>4, <2>1, <2>4, LenProperties
    <2> QED
      BY <2>4, <2>5, <2>6, <2>7, <2>8
  <1> HIDE DEF rehash
  <1>6. ASSUME NEW k \in n..len
        PROVE  /\ row(k) \in RunRow /\ row(k).tool = chain[k].tool /\ row(k).text = text(k)
               /\ row(k).result = chain[k].result /\ row(k).hash = rehash(k)
    <2>1. k \in 1..len /\ chain[k] \in RunRow
      BY <1>1, RowsOfChain
    <2> QED
      BY <1>3, <1>5, <2>1 DEF RunRow
  <1> HIDE DEF row
  <1>7. \A k \in 1..len : k < n \/ k \in n..len
    BY <1>1
  <1>8. /\ chain' \in [1..len -> RunRow] /\ \A k \in 1..len : k < n => chain'[k] = chain[k]
        /\ \A k \in n..len : k \in 1..len /\ chain'[k] = row(k)
    BY <1>1, <1>2, <1>6, <1>7, RowsOfChain
  <1>9. chain' \in Seq(RunRow) /\ Len(chain') = len /\ DOMAIN chain' = 1..len
    BY <1>8, SequenceOver
  <1>10. ChainRows'
    BY <1>1, <1>9 DEF ChainRows
  <1>11. \A k \in 1..len : chain'[k].result = chain[k].result /\ chain'[k].tool = chain[k].tool
    BY <1>6, <1>7, <1>8
  <1>12. ASSUME NEW k \in 1..len, k <= n PROVE PreviousHash(k)' = PreviousHash(k)
    <2>1. k = 1 \/ (k - 1 \in 1..len /\ k - 1 < n)
      BY <1>1, <1>12
    <2> QED
      BY <1>8, <2>1 DEF PreviousHash
  <1>13. ASSUME NEW k \in 1..len, ~odd PROVE RowMatches(k)'
    <2>1. CASE k < n
      <3>1. RowMatches(k)
        BY <1>1, <1>13 DEF ChainOK
      <3>2. k <= n
        BY <1>1, <2>1
      <3>3. PreviousHash(k)' = PreviousHash(k)
        BY <1>12, <3>2
      <3>4. chain'[k] = chain[k]
        BY <1>8, <2>1
      <3> QED
        BY <3>1, <3>3, <3>4 DEF RowMatches
    <2>2. CASE k \in n..len
      <3>1. RowMatches(k)' <=> rehash(k) = Append(PreviousHash(k)', covered(k))
        BY <1>6, <1>8, <2>2 DEF RowMatches, Hash, covered
      <3>2. CASE k = n
        <4>1. PreviousHash(k)' = base
          BY <1>1, <1>12, <3>2
        <4>2. PICK none \in Seq(Entries) : Len(none) = 0 /\ base \o none = base
          BY <1>4, EmptySeq, ConcatEmptySeq
        <4>3. part(k) \in Seq(Entries) /\ Len(part(k)) = 1 /\ part(k)[1] = covered(k)
          <5>1. k - n + 1 = 1 /\ n + 1 - 1 = k /\ 1 \in 1..1
            BY <1>1, <3>2
          <5> QED
            BY <1>5, <2>2, <5>1
        <4> HIDE DEF base, part
        <4>4. Len(part(k)) = Len(none) + 1 /\ \A i \in 1..Len(none) : part(k)[i] = none[i]
          BY <4>2, <4>3
        <4>5. base \o part(k) = Append(base \o none, part(k)[Len(part(k))])
          <5>1. base \in Seq(Entries) /\ none \in Seq(Entries) /\ part(k) \in Seq(Entries)
            BY <1>4, <4>2, <4>3
          <5> QED
            BY <5>1, <4>4, ConcatOneMore
        <4> QED
          BY <3>1, <4>1, <4>2, <4>3, <4>5 DEF rehash
      <3>3. CASE k # n
        <4>1. k - 1 \in n..len /\ k - 1 \in 1..len /\ k # 1
          BY <1>1, <2>2, <3>3
        <4>2. PreviousHash(k)' = rehash(k - 1)
          BY <1>6, <1>8, <4>1 DEF PreviousHash
        <4>3. /\ part(k - 1) \in Seq(Entries) /\ part(k) \in Seq(Entries)
              /\ Len(part(k)) = Len(part(k - 1)) + 1
              /\ \A i \in 1..Len(part(k - 1)) : part(k)[i] = part(k - 1)[i]
              /\ part(k)[Len(part(k))] = covered(k)
          <5>1. /\ (k - 1) - n + 1 = k - n /\ k - n + 1 \in 1..(k - n + 1) /\ n + (k - n + 1) - 1 = k
                /\ \A i \in 1..(k - n) : i \in 1..(k - n + 1)
            BY <1>1, <4>1
          <5> HIDE DEF part
          <5>2. /\ part(k - 1) \in Seq(Entries) /\ Len(part(k - 1)) = k - n
                /\ \A i \in 1..(k - n) : part(k - 1)[i] = covered(n + i - 1)
            BY <1>5, <4>1, <5>1
          <5>3. /\ part(k) \in Seq(Entries) /\ Len(part(k)) = k - n + 1
                /\ \A i \in 1..(k - n + 1) : part(k)[i] = covered(n + i - 1)
            BY <1>5, <2>2
          <5> QED
            BY <5>1, <5>2, <5>3
        <4> HIDE DEF base, part
        <4>4. rehash(k) = Append(base \o part(k - 1), part(k)[Len(part(k))])
          <5>1. base \in Seq(Entries)
            BY <1>4
          <5>2. PICK a \in Seq(Entries), b \in Seq(Entries) :
                   /\ a = part(k - 1) /\ b = part(k) /\ Len(b) = Len(a) + 1
                   /\ \A i \in 1..Len(a) : b[i] = a[i]
            BY <4>3
          <5>3. Len(b) = Len(a) + 1 /\ \A i \in 1..Len(a) : b[i] = a[i]
            BY <5>2
          <5>4. base \o b = Append(base \o a, b[Len(b)])
            BY <5>1, <5>3, ConcatOneMore
          <5> QED
            BY <5>2, <5>4 DEF rehash
        <4> QED
          BY <3>1, <4>2, <4>3, <4>4 DEF rehash
      <3> QED
        BY <3>2, <3>3
    <2> QED
      BY <1>7, <2>1, <2>2
  <1>14. anchor = chain[len].hash /\ len \in 1..len /\ len \in n..len
    BY <1>1 DEF ChainOK, NewestHash
  <1>15. /\ Len(anchor) = len /\ anchor[n] = <<n, <<chain[n].tool, Passed>>, chain[n].result>>
    BY <1>1, <1>14 DEF ChainOK, Covers
  <1>16. Len(base) = n - 1
    <2>1. CASE n = 1
      BY <2>1, EmptySeq DEF PreviousHash, NoHash
    <2>2. CASE n # 1
      <3>1. n - 1 \in 1..len
        BY <1>1, <2>2
      <3> QED
        BY <1>1, <2>2, <3>1 DEF PreviousHash, ChainOK
    <2> QED
      BY <2>1, <2>2
  <1>17. chain'[len].hash[n] = covered(n)
    <2>1. Len(base) + 1 = n
      BY <1>1, <1>16
    <2> HIDE DEF base
    <2>2. chain'[len].hash = rehash(len)
      BY <1>6, <1>8, <1>14
    <2>3. rehash(len)[Len(base) + 1] = covered(n)
      BY <1>5, <1>14
    <2> QED
      BY <2>1, <2>2, <2>3
  <1>18. covered(n) # <<n, <<chain[n].tool, Passed>>, chain[n].result>>
    BY TextsAreTold DEF covered, text
  <1>19. anchor # NoHash /\ anchor # NewestHash'
    <2>1. len # 0 /\ Len(<<>>) = 0
      BY <1>1, EmptySeq
    <2>2. anchor # NoHash
      BY <1>15, <2>1 DEF NoHash
    <2>3. NewestHash' = chain'[len].hash
      BY <1>9 DEF NewestHash
    <2>4. anchor[n] # chain'[len].hash[n]
      BY <1>15, <1>17, <1>18
    <2> QED
      BY <2>2, <2>3, <2>4
  <1>20. ChainOK'
    BY <1>9, <1>13, <1>19 DEF ChainOK
  <1> QED
    BY <1>1, <1>9, <1>10, <1>11, <1>20 DEF SameReferences

LEMMA RowsStay ==
    ASSUME ChainRows, ChainOK, UNCHANGED <<chain, anchor, edits, odd>>
    PROVE  ChainRows' /\ ChainOK' /\ SameReferences
  <1>1. \A k : RowMatches(k)' <=> RowMatches(k)
    BY DEF RowMatches, PreviousHash
  <1> QED
    BY <1>1 DEF ChainRows, ChainOK, Covers, Passed, NewestHash, SameReferences

LEMMA AnEditKeepsReferences ==
    ASSUME ChainRows, ChainOK, DatabaseEdited
    PROVE  ChainRows' /\ ChainOK' /\ SameReferences
           /\ edits' \in {"row", "rehashed", "cut"} /\ edits = "none"
  <1>1. edits = "none" /\ chain # <<>> /\ UNCHANGED <<anchor, odd>>
    BY DEF DatabaseEdited
  <1>2. CASE (\E n \in DOMAIN chain : chain' = [chain EXCEPT ![n].text = "forged"]) /\ edits' = "row"
    BY <1>1, <1>2, ARowIsEdited
  <1>3. CASE (\E n \in DOMAIN chain : chain' = Rehashed(n)) /\ edits' = "rehashed"
    BY <1>1, <1>3, AChainIsRehashed
  <1>4. CASE chain' = Front(chain) /\ edits' = "cut"
    BY <1>1, <1>4, AChainIsCut
  <1> QED
    BY <1>1, <1>2, <1>3, <1>4 DEF DatabaseEdited

\* The audit of the chain, from what it compares.
LEMMA AuditFollows ==
    ASSUME ChainRows, ChainOK
    PROVE  ChainAuditIsRight
  <1>1. chain = <<>> => DOMAIN chain = {}
    BY RowsOfChain, EmptySeq
  <1>2. CASE chain = <<>>
    BY <1>1, <1>2 DEF ChainAuditIsRight, verify_tool_chain
  <1>3. CASE chain # <<>> /\ ~odd
    BY <1>3 DEF ChainRows, ChainOK, ChainAuditIsRight, verify_tool_chain, NewestHash
  <1>4. CASE chain # <<>> /\ odd
    BY <1>4 DEF ChainRows, ChainOK, ChainAuditIsRight, verify_tool_chain, NewestHash
  <1> QED
    BY <1>2, <1>3, <1>4

-----------------------------------------------------------------------------
(* Artifacts *)

ArtifactRow == [kind : Kinds, file : BOOLEAN, row : BOOLEAN]
OnFile(a) == a \in DOMAIN artifacts /\ artifacts[a].row /\ artifacts[a].file
\* What was on file stays on file.
ArtifactsStay ==
    /\ DOMAIN artifacts \subseteq DOMAIN artifacts'
    /\ \A a \in DOMAIN artifacts : artifacts'[a] = artifacts[a]

LEMMA ArtifactIds ==
    ASSUME ArtifactTypeOK
    PROVE  /\ Len(artifacts) \in 0..MaxArtifacts /\ DOMAIN artifacts = 1..Len(artifacts)
           /\ artifacts \in Seq(ArtifactRow)
           /\ \A a \in DOMAIN artifacts : artifacts[a] \in ArtifactRow /\ a \in 1..MaxArtifacts
  <1>1. artifacts \in Seq(ArtifactRow) /\ Len(artifacts) <= MaxArtifacts
    BY DEF ArtifactTypeOK, ArtifactRow
  <1>2. Len(artifacts) \in 0..MaxArtifacts /\ DOMAIN artifacts = 1..Len(artifacts)
    BY <1>1, LenProperties, ArtifactsAssumption
  <1>3. \A a \in DOMAIN artifacts : a \in 1..MaxArtifacts
    BY <1>2, ArtifactsAssumption
  <1> QED
    BY <1>1, <1>2, <1>3, ElementOfSeq

LEMMA OneMoreArtifact ==
    ASSUME ArtifactTypeOK, NEW new \in ArtifactRow, RoomForArtifact,
           artifacts' = Append(artifacts, new), UNCHANGED halfDeleted
    PROVE  /\ ArtifactTypeOK' /\ ArtifactsStay
           /\ NextArtifact \in 1..MaxArtifacts /\ DOMAIN artifacts' = DOMAIN artifacts \cup {NextArtifact}
           /\ artifacts'[NextArtifact] = new /\ NextArtifact \notin DOMAIN artifacts
  <1>1. PICK n \in Nat : n = Len(artifacts) /\ DOMAIN artifacts = 1..n /\ artifacts \in Seq(ArtifactRow)
    <2>1. artifacts \in Seq(ArtifactRow) /\ DOMAIN artifacts = 1..Len(artifacts)
      BY ArtifactIds
    <2>2. Len(artifacts) \in Nat
      BY <2>1, LenProperties
    <2> QED
      BY <2>1, <2>2
  <1>2. /\ artifacts' \in Seq(ArtifactRow) /\ Len(artifacts') = n + 1 /\ DOMAIN artifacts' = 1..(n + 1)
        /\ artifacts'[n + 1] = new /\ \A a \in 1..n : artifacts'[a] = artifacts[a]
    BY <1>1
  <1>3. n + 1 \in 1..MaxArtifacts /\ 1..(n + 1) = 1..n \cup {n + 1} /\ n + 1 \notin 1..n
    BY <1>1, ArtifactsAssumption DEF RoomForArtifact
  <1>4. NextArtifact = n + 1
    BY <1>1 DEF NextArtifact
  <1>5. ArtifactTypeOK'
    <2>1. n + 1 <= MaxArtifacts
      BY <1>3
    <2> QED
      BY <1>2, <2>1 DEF ArtifactTypeOK, ArtifactRow
  <1> QED
    BY <1>1, <1>2, <1>3, <1>4, <1>5 DEF ArtifactsStay

LEMMA AnArtifactIsRecorded ==
    ASSUME ArtifactTypeOK, NEW kind \in Kinds, record_artifact(kind)
    PROVE  /\ ArtifactTypeOK' /\ ArtifactsStay /\ halfDeleted' = halfDeleted
           /\ NextArtifact \in 1..MaxArtifacts /\ DOMAIN artifacts' = DOMAIN artifacts \cup {NextArtifact}
           /\ artifacts'[NextArtifact] = Artifact(kind, TRUE, TRUE)
           /\ NextArtifact \notin DOMAIN artifacts
  <1>1. Artifact(kind, TRUE, TRUE) \in ArtifactRow
    BY DEF Artifact, ArtifactRow
  <1> QED
    BY <1>1, OneMoreArtifact DEF record_artifact

LEMMA ARecordCrashes ==
    ASSUME ArtifactTypeOK, NEW kind \in Kinds, CrashInRecord(kind)
    PROVE  /\ ArtifactTypeOK' /\ ArtifactsStay /\ halfDeleted' = halfDeleted
           /\ DOMAIN artifacts' = DOMAIN artifacts \cup {NextArtifact}
           /\ artifacts'[NextArtifact] = Artifact(kind, TRUE, FALSE)
           /\ NextArtifact \notin DOMAIN artifacts
  <1>1. Artifact(kind, TRUE, FALSE) \in ArtifactRow
    BY DEF Artifact, ArtifactRow
  <1> QED
    BY <1>1, OneMoreArtifact DEF CrashInRecord
-----------------------------------------------------------------------------
(* The repair and what it refers to *)

RepairSteps == {"idle", "copied", "recorded", "patched", "described", "reported"}
RepairRows ==
    /\ repair \in [pc : RepairSteps, runs : SUBSET (1..MaxToolRuns), artifact : 0..MaxArtifacts]
    /\ returned \in [ok : BOOLEAN, runs : SUBSET (1..MaxToolRuns), artifact : 0..MaxArtifacts]
    /\ sandbox \in {"none", "partial", "original", "patched"}

\* Nothing deletes an artifact here, so every row has its file, and what a tool run or
\* a running repair refers to is on file.
FilesOK ==
    /\ ArtifactTypeOK /\ ~halfDeleted
    /\ \A a \in DOMAIN artifacts : artifacts[a].row => artifacts[a].file
ResultsOnFile == \A n \in DOMAIN chain : chain[n].result # 0 => OnFile(chain[n].result)

\* A chain that was cut may have lost the rows a repair names, and give their numbers
\* to later ones.
Intact == edits \notin {"cut", "masked"}

RepairOK ==
    /\ repair.pc \in {"described", "reported"} => OnFile(repair.artifact)
    /\ repair.pc \in {"patched", "described"} => sandbox = "patched"
    /\ repair.pc \in {"recorded", "patched", "described"} =>
          /\ \E n \in 1..MaxToolRuns : repair.runs = {n}
          /\ Intact => repair.runs \subseteq DOMAIN chain
ReturnedOK ==
    returned.ok =>
        /\ sandbox = "patched"
        /\ returned.runs # {} => OnFile(returned.artifact)
        /\ Intact /\ returned.runs # {} =>
              Cardinality(returned.runs) = 2 /\ returned.runs \subseteq DOMAIN chain

ChainInvariant == ChainRows /\ ChainOK
EvidenceInvariant ==
    ChainInvariant /\ FilesOK /\ ResultsOnFile /\ RepairRows /\ RepairOK /\ ReturnedOK

\* A step of the chain that loses no row it does not tell of.
RowsKept == Intact' => Intact /\ DOMAIN chain \subseteq DOMAIN chain'

LEMMA FilesStay ==
    ASSUME FilesOK, UNCHANGED artifactVars
    PROVE  FilesOK' /\ ArtifactsStay
  BY DEF FilesOK, artifactVars, ArtifactTypeOK, ArtifactsStay

LEMMA AFileIsAdded ==
    ASSUME FilesOK, NEW kind \in Kinds, record_artifact(kind)
    PROVE  /\ FilesOK' /\ ArtifactsStay /\ NextArtifact \in 1..MaxArtifacts
           /\ NextArtifact \in DOMAIN artifacts'
           /\ artifacts'[NextArtifact].row /\ artifacts'[NextArtifact].file
  <1>1. /\ ArtifactTypeOK' /\ ArtifactsStay /\ halfDeleted' = halfDeleted
        /\ NextArtifact \in 1..MaxArtifacts /\ DOMAIN artifacts' = DOMAIN artifacts \cup {NextArtifact}
        /\ artifacts'[NextArtifact] = Artifact(kind, TRUE, TRUE)
    BY AnArtifactIsRecorded DEF FilesOK
  <1> QED
    BY <1>1 DEF FilesOK, Artifact, ArtifactsStay

LEMMA AFileIsLeft ==
    ASSUME FilesOK, NEW kind \in Kinds, CrashInRecord(kind)
    PROVE  FilesOK' /\ ArtifactsStay
  <1>1. /\ ArtifactTypeOK' /\ ArtifactsStay /\ halfDeleted' = halfDeleted
        /\ DOMAIN artifacts' = DOMAIN artifacts \cup {NextArtifact}
        /\ artifacts'[NextArtifact] = Artifact(kind, TRUE, FALSE)
    BY ARecordCrashes DEF FilesOK
  <1> QED
    BY <1>1 DEF FilesOK, Artifact, ArtifactsStay

\* Steps of the chain: it is left alone, edited, or told of one more run.
LEMMA ChainStays ==
    ASSUME ChainInvariant, ResultsOnFile, ArtifactsStay, UNCHANGED <<chain, anchor, edits, odd>>
    PROVE  ChainInvariant' /\ ResultsOnFile' /\ RowsKept
  <1>1. ChainInvariant'
    BY RowsStay DEF ChainInvariant
  <1> QED
    BY <1>1 DEF ResultsOnFile, RowsKept, Intact, OnFile, ArtifactsStay

LEMMA ChainIsEdited ==
    ASSUME ChainInvariant, ResultsOnFile, ArtifactsStay, DatabaseEdited
    PROVE  ChainInvariant' /\ ResultsOnFile' /\ RowsKept
  <1>1. /\ ChainRows' /\ ChainOK' /\ SameReferences
        /\ edits' \in {"row", "rehashed", "cut"} /\ edits = "none"
    BY AnEditKeepsReferences DEF ChainInvariant
  <1> QED
    BY <1>1 DEF ChainInvariant, ResultsOnFile, RowsKept, Intact, OnFile, ArtifactsStay, SameReferences

LEMMA ChainTellsARun ==
    ASSUME ChainInvariant, ResultsOnFile, ArtifactsStay,
           NEW tool \in Tools, NEW result \in 0..MaxArtifacts, record_tool_run(tool, result), odd' = odd,
           result # 0 => OnFile(result)
    PROVE  /\ ChainInvariant' /\ ResultsOnFile' /\ RowsKept
           /\ Len(chain) + 1 \in DOMAIN chain' /\ Len(chain) + 1 \in 1..MaxToolRuns
           /\ Len(chain) + 1 \notin DOMAIN chain
  <1>1. /\ ChainRows' /\ ChainOK' /\ Len(chain') = Len(chain) + 1
        /\ \A k \in DOMAIN chain : chain'[k] = chain[k]
        /\ chain'[Len(chain) + 1].result = result
        /\ edits' = IF edits \in {"rehashed", "cut"} THEN "masked" ELSE edits
    BY ARunIsRecorded DEF ChainInvariant
  <1>2. PICK n \in Nat : n = Len(chain) /\ DOMAIN chain = 1..n
    <2>1. chain \in Seq(RunRow)
      BY DEF ChainInvariant, ChainRows
    <2> QED
      BY <2>1, LenProperties
  <1>3. DOMAIN chain' = 1..(n + 1) /\ n + 1 <= MaxToolRuns
    <2>1. chain' \in Seq(RunRow) /\ Len(chain') <= MaxToolRuns
      BY <1>1 DEF ChainRows
    <2> QED
      BY <1>1, <1>2, <2>1, LenProperties
  <1>4. /\ n + 1 \in 1..MaxToolRuns /\ 1..(n + 1) = 1..n \cup {n + 1}
        /\ n + 1 \notin 1..n /\ n + 1 \in 1..(n + 1)
    BY <1>3, ToolRunsAssumption
  <1>5. RowsKept
    BY <1>1, <1>2, <1>3, <1>4 DEF RowsKept, Intact
  <1>6. ResultsOnFile'
    <2>1. ASSUME NEW k \in DOMAIN chain', chain'[k].result # 0
          PROVE  OnFile(chain[k].result)'
      <3>1. CASE k \in DOMAIN chain
        BY <1>1, <2>1, <3>1 DEF ResultsOnFile, OnFile, ArtifactsStay
      <3>2. CASE k = n + 1
        BY <1>1, <1>2, <2>1, <3>2 DEF OnFile, ArtifactsStay
      <3> QED
        BY <1>2, <1>3, <1>4, <3>1, <3>2
    <2> QED
      BY <2>1 DEF ResultsOnFile
  <1> QED
    BY <1>1, <1>2, <1>3, <1>4, <1>5, <1>6 DEF ChainInvariant
-----------------------------------------------------------------------------
(* Every step keeps the evidence: one lemma per action *)

LEMMA EvidenceStart ==
    ASSUME EvidenceInit
    PROVE  EvidenceInvariant
  <1>1. /\ chain = <<>> /\ anchor = <<>> /\ edits = "none" /\ odd \in BOOLEAN
        /\ artifacts = <<>> /\ halfDeleted = FALSE /\ sandbox = "none"
        /\ repair = [pc |-> "idle", runs |-> {}, artifact |-> 0]
        /\ returned = [ok |-> FALSE, runs |-> {}, artifact |-> 0]
    BY DEF EvidenceInit, ArtifactInit, NoHash, Idle, Refused
  <1>2. \A S : <<>> \in Seq(S) /\ Len(<<>>) = 0
    BY EmptySeq
  <1>3. DOMAIN chain = {} /\ DOMAIN artifacts = {}
    BY <1>1
  <1>4. ChainRows
    BY <1>1, <1>2, ToolRunsAssumption DEF ChainRows
  <1>5. ChainOK /\ ResultsOnFile
    BY <1>1, <1>3 DEF ChainOK, ResultsOnFile
  <1>6. FilesOK
    <2>1. artifacts \in Seq([kind : Kinds, file : BOOLEAN, row : BOOLEAN]) /\ Len(artifacts) = 0
      BY <1>1, <1>2
    <2>2. 0 <= MaxArtifacts
      BY ArtifactsAssumption
    <2> QED
      BY <1>1, <1>3, <2>1, <2>2 DEF FilesOK, ArtifactTypeOK
  <1>7. RepairRows
    BY <1>1, ArtifactsAssumption DEF RepairRows, RepairSteps
  <1>8. RepairOK /\ ReturnedOK
    BY <1>1 DEF RepairOK, ReturnedOK
  <1> QED
    BY <1>4, <1>5, <1>6, <1>7, <1>8 DEF EvidenceInvariant, ChainInvariant

LEMMA ReturnedStays ==
    ASSUME ReturnedOK, ArtifactsStay, RowsKept, returned' = returned,
           sandbox = "patched" => sandbox' = "patched"
    PROVE  ReturnedOK'
  BY DEF ReturnedOK, ArtifactsStay, RowsKept, OnFile

LEMMA ResumeKeeps ==
    ASSUME EvidenceInvariant, ResumeRepair
    PROVE  EvidenceInvariant'
  <1>1. /\ FilesOK' /\ ArtifactsStay /\ ChainInvariant' /\ ResultsOnFile' /\ RowsKept
    BY FilesStay, ChainStays DEF EvidenceInvariant, ResumeRepair
  <1>2. repair' = repair /\ sandbox' = sandbox /\ repair.pc = "idle"
    BY DEF ResumeRepair, At
  <1>3. CASE sandbox = "patched"
    <2>1. returned' = [ok |-> TRUE, runs |-> {}, artifact |-> 0]
      BY <1>3 DEF ResumeRepair, Returned, patched_sandbox
    <2> QED
      BY <1>1, <1>2, <1>3, <2>1, ArtifactsAssumption
      DEF EvidenceInvariant, RepairRows, RepairOK, ReturnedOK
  <1>4. CASE sandbox # "patched"
    <2>1. returned' = [ok |-> FALSE, runs |-> {}, artifact |-> 0]
      BY <1>4 DEF ResumeRepair, Refused, patched_sandbox
    <2> QED
      BY <1>1, <1>2, <1>4, <2>1, ArtifactsAssumption
      DEF EvidenceInvariant, RepairRows, RepairOK, ReturnedOK
  <1> QED
    BY <1>3, <1>4

LEMMA CopyKeeps ==
    ASSUME EvidenceInvariant, CopySandbox
    PROVE  EvidenceInvariant'
  <1>1. /\ FilesOK' /\ ArtifactsStay /\ ChainInvariant' /\ ResultsOnFile' /\ RowsKept
    BY FilesStay, ChainStays DEF EvidenceInvariant, CopySandbox
  <1>2. returned' = [ok |-> FALSE, runs |-> {}, artifact |-> 0] /\ repair.pc = "idle"
    BY DEF CopySandbox, Refused, At
  <1>3. /\ sandbox' \in {"original", "partial"}
        /\ repair' \in [pc : RepairSteps, runs : SUBSET (1..MaxToolRuns), artifact : 0..MaxArtifacts]
        /\ repair'.pc \in {"idle", "copied"}
    BY <1>2 DEF CopySandbox, To, EvidenceInvariant, RepairRows, RepairSteps
  <1> QED
    BY <1>1, <1>2, <1>3, ArtifactsAssumption
    DEF EvidenceInvariant, RepairRows, RepairOK, ReturnedOK

LEMMA RecordCopyKeeps ==
    ASSUME EvidenceInvariant, RecordCopy
    PROVE  EvidenceInvariant'
  <1>1. FilesOK' /\ ArtifactsStay
    BY FilesStay DEF EvidenceInvariant, RecordCopy
  <1>2. PICK n \in 1..MaxToolRuns : n = Len(chain) + 1 /\ n \in DOMAIN chain'
                                    /\ ChainInvariant' /\ ResultsOnFile' /\ RowsKept
    BY <1>1, ChainTellsARun, ArtifactsAssumption DEF EvidenceInvariant, RecordCopy, Tools
  <1>3. /\ repair' \in [pc : RepairSteps, runs : SUBSET (1..MaxToolRuns), artifact : 0..MaxArtifacts]
        /\ repair'.pc = "recorded" /\ repair'.runs = {n}
    BY <1>2 DEF RecordCopy, EvidenceInvariant, RepairRows, RepairSteps
  <1>4. ReturnedOK'
    BY <1>1, <1>2, ReturnedStays DEF RecordCopy, EvidenceInvariant
  <1> QED
    BY <1>1, <1>2, <1>3, <1>4 DEF RecordCopy, EvidenceInvariant, RepairRows, RepairOK

LEMMA ApplyKeeps ==
    ASSUME EvidenceInvariant, ApplyPatch
    PROVE  EvidenceInvariant'
  <1>1. /\ FilesOK' /\ ArtifactsStay /\ ChainInvariant' /\ ResultsOnFile' /\ RowsKept
    BY FilesStay, ChainStays DEF EvidenceInvariant, ApplyPatch
  <1>2. /\ repair' \in [pc : RepairSteps, runs : SUBSET (1..MaxToolRuns), artifact : 0..MaxArtifacts]
        /\ repair'.pc = "patched" /\ repair'.runs = repair.runs /\ repair.pc = "recorded"
    BY DEF ApplyPatch, To, At, EvidenceInvariant, RepairRows, RepairSteps
  <1>3. ReturnedOK' /\ sandbox' = "patched"
    BY <1>1, ReturnedStays DEF ApplyPatch, EvidenceInvariant
  <1>4. RepairOK'
    BY <1>1, <1>2, <1>3 DEF RepairOK, EvidenceInvariant, RowsKept
  <1> QED
    BY <1>1, <1>2, <1>3, <1>4 DEF ApplyPatch, EvidenceInvariant, RepairRows

LEMMA MetadataKeeps ==
    ASSUME EvidenceInvariant, RecordMetadata
    PROVE  EvidenceInvariant'
  <1>1. PICK a \in 1..MaxArtifacts : /\ a = NextArtifact /\ FilesOK' /\ ArtifactsStay
                                     /\ a \in DOMAIN artifacts' /\ artifacts'[a].row /\ artifacts'[a].file
    BY AFileIsAdded, ToolRunsAssumption DEF EvidenceInvariant, RecordMetadata
  <1>2. ChainInvariant' /\ ResultsOnFile' /\ RowsKept
    BY <1>1, ChainStays DEF EvidenceInvariant, RecordMetadata
  <1>3. /\ repair' \in [pc : RepairSteps, runs : SUBSET (1..MaxToolRuns), artifact : 0..MaxArtifacts]
        /\ repair'.pc = "described" /\ repair'.runs = repair.runs /\ repair'.artifact = a
        /\ repair.pc = "patched"
    <2>1. /\ repair \in [pc : RepairSteps, runs : SUBSET (1..MaxToolRuns), artifact : 0..MaxArtifacts]
          /\ repair.pc = "patched" /\ a \in 0..MaxArtifacts
          /\ repair' = [[repair EXCEPT !.pc = "described"] EXCEPT !.artifact = a]
      BY <1>1, ArtifactsAssumption DEF RecordMetadata, At, EvidenceInvariant, RepairRows
    <2>2. PICK next : next = [repair EXCEPT !.pc = "described"]
      OBVIOUS
    <2>3. /\ next \in [pc : RepairSteps, runs : SUBSET (1..MaxToolRuns), artifact : 0..MaxArtifacts]
          /\ next.pc = "described" /\ next.runs = repair.runs
      BY <2>1, <2>2 DEF RepairSteps
    <2>4. repair' = [next EXCEPT !.artifact = a]
      BY <2>1, <2>2
    <2> QED
      BY <2>1, <2>3, <2>4
  <1>4. ReturnedOK'
    BY <1>1, <1>2, ReturnedStays DEF RecordMetadata, EvidenceInvariant
  <1>5. RepairOK'
    <2>1. OnFile(repair.artifact)'
      BY <1>1, <1>3 DEF OnFile
    <2> QED
      BY <1>2, <1>3, <2>1 DEF RepairOK, EvidenceInvariant, RowsKept, RecordMetadata
  <1> QED
    BY <1>1, <1>2, <1>3, <1>4, <1>5 DEF RecordMetadata, EvidenceInvariant, RepairRows

LEMMA RecordPatchKeeps ==
    ASSUME EvidenceInvariant, RecordPatch
    PROVE  EvidenceInvariant'
  <1>1. FilesOK' /\ ArtifactsStay
    BY FilesStay DEF EvidenceInvariant, RecordPatch
  <1>2. PICK a \in 0..MaxArtifacts : a = repair.artifact /\ OnFile(a)
    BY DEF EvidenceInvariant, RecordPatch, RepairRows, RepairOK, At
  <1>3. PICK m \in 1..MaxToolRuns : /\ repair.runs = {m} /\ (Intact => m \in DOMAIN chain)
                                    /\ sandbox = "patched"
    BY DEF EvidenceInvariant, RecordPatch, RepairOK, At
  <1>4. PICK n \in 1..MaxToolRuns : /\ n = Len(chain) + 1 /\ n \in DOMAIN chain' /\ n \notin DOMAIN chain
                                    /\ ChainInvariant' /\ ResultsOnFile' /\ RowsKept
    BY <1>1, <1>2, ChainTellsARun DEF EvidenceInvariant, RecordPatch, Tools
  <1>5. repair' = [pc |-> "idle", runs |-> {}, artifact |-> 0]
    BY DEF RecordPatch, Idle
  <1>6. returned' = [ok |-> TRUE, runs |-> {m} \cup {n}, artifact |-> a] /\ sandbox' = "patched"
    BY <1>2, <1>3, <1>4 DEF RecordPatch, Returned
  <1>7. Intact' => Cardinality({m} \cup {n}) = 2
    <2>1. IsFiniteSet({m}) /\ Cardinality({m}) = 1
      BY FS_Singleton
    <2>2. Intact' => n \notin {m}
      BY <1>3, <1>4 DEF RowsKept
    <2>3. Cardinality({m} \cup {n}) = IF n \in {m} THEN Cardinality({m}) ELSE Cardinality({m}) + 1
      BY <2>1, FS_AddElement
    <2> QED
      BY <2>1, <2>2, <2>3
  <1>8. OnFile(a)'
    BY <1>1, <1>2 DEF OnFile, ArtifactsStay
  <1>9. ReturnedOK'
    BY <1>3, <1>4, <1>6, <1>7, <1>8 DEF ReturnedOK, RowsKept
  <1> QED
    BY <1>1, <1>4, <1>5, <1>6, <1>9, ArtifactsAssumption
    DEF EvidenceInvariant, RepairRows, RepairSteps, RepairOK

LEMMA GateKeeps ==
    ASSUME EvidenceInvariant, QualityGate
    PROVE  EvidenceInvariant'
  <1>1. UNCHANGED <<sandbox, returned, odd>>
    BY DEF QualityGate
  <1>2. CASE /\ At("idle") /\ record_artifact("quality_gate_report")
             /\ repair' = [Idle EXCEPT !.pc = "reported", !.artifact = NextArtifact]
             /\ UNCHANGED <<chain, anchor, edits>>
    <2>1. PICK a \in 1..MaxArtifacts : /\ a = NextArtifact /\ FilesOK' /\ ArtifactsStay
                                       /\ a \in DOMAIN artifacts' /\ artifacts'[a].row /\ artifacts'[a].file
      BY <1>2, AFileIsAdded, ToolRunsAssumption DEF EvidenceInvariant
    <2>2. ChainInvariant' /\ ResultsOnFile' /\ RowsKept
      BY <1>1, <1>2, <2>1, ChainStays DEF EvidenceInvariant
    <2>3. repair' = [pc |-> "reported", runs |-> {}, artifact |-> a]
      BY <1>2, <2>1 DEF Idle
    <2>4. ReturnedOK'
      BY <1>1, <2>1, <2>2, ReturnedStays DEF EvidenceInvariant
    <2> QED
      BY <1>1, <2>1, <2>2, <2>3, <2>4 DEF EvidenceInvariant, RepairRows, RepairSteps, RepairOK, OnFile
  <1>3. CASE /\ At("reported") /\ record_tool_run("quality_gate", repair.artifact)
             /\ repair' = Idle /\ UNCHANGED artifactVars
    <2>1. FilesOK' /\ ArtifactsStay
      BY <1>3, FilesStay DEF EvidenceInvariant
    <2>2. repair.artifact \in 0..MaxArtifacts /\ OnFile(repair.artifact)
      BY <1>3 DEF EvidenceInvariant, RepairRows, RepairOK, At
    <2>3. ChainInvariant' /\ ResultsOnFile' /\ RowsKept
      BY <1>1, <1>3, <2>1, <2>2, ChainTellsARun DEF EvidenceInvariant, Tools
    <2>4. repair' = [pc |-> "idle", runs |-> {}, artifact |-> 0]
      BY <1>3 DEF Idle
    <2>5. ReturnedOK'
      BY <1>1, <2>1, <2>3, ReturnedStays DEF EvidenceInvariant
    <2> QED
      BY <1>1, <2>1, <2>3, <2>4, <2>5, ArtifactsAssumption
      DEF EvidenceInvariant, RepairRows, RepairSteps, RepairOK
  <1> QED
    BY <1>2, <1>3 DEF QualityGate, _record_gate_evidence

LEMMA InterruptedKeeps ==
    ASSUME EvidenceInvariant, Interrupted
    PROVE  EvidenceInvariant'
  <1>1. FilesOK' /\ ArtifactsStay
    BY FilesStay, AFileIsLeft, ToolRunsAssumption DEF EvidenceInvariant, Interrupted
  <1>2. ChainInvariant' /\ ResultsOnFile' /\ RowsKept
    BY <1>1, ChainStays DEF EvidenceInvariant, Interrupted
  <1>3. /\ repair' = [pc |-> "idle", runs |-> {}, artifact |-> 0]
        /\ returned' = [ok |-> FALSE, runs |-> {}, artifact |-> 0] /\ sandbox' = sandbox
    BY DEF Interrupted, Idle, Refused
  <1> QED
    BY <1>1, <1>2, <1>3, ArtifactsAssumption
    DEF EvidenceInvariant, RepairRows, RepairSteps, RepairOK, ReturnedOK

LEMMA EditKeeps ==
    ASSUME EvidenceInvariant, DatabaseEdited
    PROVE  EvidenceInvariant'
  <1>1. FilesOK' /\ ArtifactsStay
    BY FilesStay DEF EvidenceInvariant, DatabaseEdited
  <1>2. ChainInvariant' /\ ResultsOnFile' /\ RowsKept
    BY <1>1, ChainIsEdited DEF EvidenceInvariant
  <1>3. UNCHANGED <<sandbox, repair, returned>>
    BY DEF DatabaseEdited
  <1>4. ReturnedOK'
    BY <1>1, <1>2, <1>3, ReturnedStays DEF EvidenceInvariant
  <1> QED
    BY <1>1, <1>2, <1>3, <1>4
    DEF EvidenceInvariant, RepairRows, RepairOK, RowsKept, OnFile, ArtifactsStay

LEMMA NothingKeeps ==
    ASSUME EvidenceInvariant, UNCHANGED evidenceVars
    PROVE  EvidenceInvariant'
  <1>1. /\ FilesOK' /\ ArtifactsStay /\ ChainInvariant' /\ ResultsOnFile' /\ RowsKept
    BY FilesStay, ChainStays DEF EvidenceInvariant, evidenceVars
  <1> QED
    BY <1>1 DEF evidenceVars, artifactVars, EvidenceInvariant, RepairRows, RepairOK, ReturnedOK,
                OnFile, Intact

LEMMA EvidenceKeeps == EvidenceInvariant /\ [EvidenceNext]_evidenceVars => EvidenceInvariant'
  BY ResumeKeeps, CopyKeeps, RecordCopyKeeps, ApplyKeeps, MetadataKeeps, RecordPatchKeeps, GateKeeps,
     InterruptedKeeps, EditKeeps, NothingKeeps
  DEF EvidenceNext

LEMMA EvidenceAlways == EvidenceSpec => []EvidenceInvariant
  BY EvidenceStart, EvidenceKeeps, PTL DEF EvidenceSpec

-----------------------------------------------------------------------------

\* What the evidence of a Case is made of, whatever fails and whoever edits it.
THEOREM EvidenceTypes == EvidenceSpec => []EvidenceTypeOK
  <1>1. ASSUME EvidenceInvariant
        PROVE  EvidenceTypeOK
    <2>1. \A n \in DOMAIN chain : chain[n].text \in Texts /\ chain[n].result \in 0..MaxArtifacts
      BY <1>1, RowsOfChain DEF EvidenceInvariant, ChainInvariant, RunRow
    <2> QED
      BY <1>1, <2>1 DEF EvidenceInvariant, ChainInvariant, ChainRows, FilesOK, RepairRows, RepairSteps,
                        EvidenceTypeOK
  <1> QED
    BY <1>1, EvidenceAlways, PTL

\* verify_tool_chain accuses the chains that were changed behind the store's back and
\* no other, but for what it cannot see and for what clean_text rewrote.
THEOREM AuditIsRight == EvidenceSpec => []ChainAuditIsRight
  <1>1. EvidenceInvariant => ChainAuditIsRight
    BY AuditFollows DEF EvidenceInvariant, ChainInvariant
  <1> QED
    BY <1>1, EvidenceAlways, PTL

\* A result_ref names an artifact recorded before, whose file is there, through failed
\* writes and crashes between the file and its row.
THEOREM ResultsResolve == EvidenceSpec => []ResultRefResolves
  <1>1. EvidenceInvariant => ResultRefResolves
    BY DEF EvidenceInvariant, FilesOK, ResultsOnFile, OnFile, ResultRefResolves, RowHasFile, Readable
  <1> QED
    BY <1>1, EvidenceAlways, PTL

\* apply_case_a_patch returns a patch only for a patched sandbox, and unless it resumed
\* one with two tool runs and the metadata on record.
THEOREM RepairsAreEvidenced == EvidenceSpec => []RepairIsEvidenced
  <1>1. EvidenceInvariant => RepairIsEvidenced
    BY DEF EvidenceInvariant, ReturnedOK, Intact, OnFile, RepairIsEvidenced, Readable
  <1> QED
    BY <1>1, EvidenceAlways, PTL
-----------------------------------------------------------------------------
(* Retrospectives: the lock, the report and the knowledge *)

Working == {"report", "manifest", "knowledge", "cleanup"}
GeneratorRow == [pc : {"free", "waiting"} \cup Working, manifest : 0..MaxArtifacts]
Knowledge == [manifest : 1..MaxArtifacts, status : {"pending_review", "verified", "rejected"},
              whole : BOOLEAN]

RetroRows ==
    /\ ArtifactTypeOK
    /\ status \in CaseStatuses /\ moves \in 0..MaxMoves
    /\ generator \in [Generators -> GeneratorRow]
    /\ \A g \in Generators : generator[g].pc = "knowledge" => generator[g].manifest # 0
    /\ holder \in Generators \cup {NoGenerator}
    /\ records \in Seq(Knowledge)
    /\ broken \in BOOLEAN

\* Who works on a retrospective holds the lock.
HolderOK == \A g \in Generators : generator[g].pc \in Working <=> holder = g

\* Only a Case without knowledge is worked on, and its report is there as far as the
\* work has come; at rest, unless work was cut short, it is there with the knowledge.
ReportOK ==
    /\ holder # NoGenerator => WholeBatches = {}
    /\ \A g \in Generators : generator[g].pc = "report" => get_retrospective = {}
    /\ \A g \in Generators : generator[g].pc \in {"manifest", "knowledge"} => get_retrospective # {}
    /\ WholeBatches # {} => get_retrospective # {}
    /\ holder = NoGenerator /\ ~broken /\ get_retrospective # {} => WholeBatches # {}
    /\ \A b \in WholeBatches : b = Len(records)

RetroInvariant == RetroRows /\ HolderOK /\ ReportOK

LEMMA RetroStart ==
    ASSUME RetroInit
    PROVE  RetroInvariant
  <1>1. \A S : <<>> \in Seq(S) /\ Len(<<>>) = 0
    BY EmptySeq
  <1>2. /\ artifacts = <<>> /\ halfDeleted = FALSE /\ records = <<>> /\ holder = NoGenerator
        /\ \A g \in Generators : generator[g] = [pc |-> "free", manifest |-> 0]
        /\ status = "active" /\ moves = 0 /\ broken = FALSE
        /\ generator = [g \in Generators |-> [pc |-> "free", manifest |-> 0]]
    BY DEF RetroInit, ArtifactInit, FreeThread
  <1>3. ArtifactTypeOK
    <2>1. artifacts \in Seq([kind : Kinds, file : BOOLEAN, row : BOOLEAN]) /\ Len(artifacts) = 0
      BY <1>1, <1>2
    <2>2. 0 <= MaxArtifacts
      BY ArtifactsAssumption
    <2> QED
      BY <1>2, <2>1, <2>2 DEF ArtifactTypeOK
  <1>4. [pc |-> "free", manifest |-> 0] \in GeneratorRow
    BY ArtifactsAssumption DEF GeneratorRow
  <1>5. RetroRows
    <2>1. generator \in [Generators -> GeneratorRow]
      BY <1>2, <1>4
    <2>2. \A g \in Generators : generator[g].pc # "knowledge"
      BY <1>2
    <2>3. records \in Seq(Knowledge)
      BY <1>1, <1>2
    <2>4. moves \in 0..MaxMoves
      BY <1>2, GeneratorAssumption
    <2> QED
      BY <1>2, <1>3, <2>1, <2>2, <2>3, <2>4 DEF RetroRows, CaseStatuses
  <1>6. HolderOK
    BY <1>2, GeneratorAssumption DEF HolderOK, Working
  <1>7. get_retrospective = {} /\ WholeBatches = {}
    <2>1. DOMAIN artifacts = {} /\ DOMAIN records = {}
      BY <1>2
    <2> QED
      BY <2>1 DEF get_retrospective, Recorded, WholeBatches
  <1> QED
    BY <1>2, <1>5, <1>6, <1>7 DEF RetroInvariant, ReportOK

\* Where a thread can go with the manifest it has.
Places == ({"free", "waiting"} \cup Working) \ {"knowledge"}

LEMMA PlacesToGo == \A pc \in {"free", "waiting", "report", "manifest", "cleanup"} : pc \in Places
  BY DEF Places, Working

\* A thread that moves leaves the others where they are.
LEMMA ThreadGoes ==
    ASSUME RetroRows, NEW g \in Generators, NEW pc \in Places,
           generator' = [generator EXCEPT ![g].pc = pc]
    PROVE  /\ generator' \in [Generators -> GeneratorRow]
           /\ \A h \in Generators : generator'[h].pc = IF h = g THEN pc ELSE generator[h].pc
           /\ \A h \in Generators : generator'[h].manifest = generator[h].manifest
           /\ \A h \in Generators : generator'[h].pc = "knowledge" => generator'[h].manifest # 0
  <1>1. generator \in [Generators -> GeneratorRow] /\ generator[g] \in GeneratorRow
    BY DEF RetroRows
  <1>2. /\ [generator[g] EXCEPT !.pc = pc] \in GeneratorRow
        /\ [generator[g] EXCEPT !.pc = pc].pc = pc
        /\ [generator[g] EXCEPT !.pc = pc].manifest = generator[g].manifest
    BY <1>1 DEF GeneratorRow, Places, Working
  <1>3. generator' = [generator EXCEPT ![g] = [generator[g] EXCEPT !.pc = pc]]
    OBVIOUS
  <1> QED
    BY <1>1, <1>2, <1>3 DEF RetroRows, Places

LEMMA ThreadEnds ==
    ASSUME RetroRows, NEW g \in Generators, generator' = [generator EXCEPT ![g] = FreeThread]
    PROVE  /\ generator' \in [Generators -> GeneratorRow]
           /\ \A h \in Generators : generator'[h].pc = IF h = g THEN "free" ELSE generator[h].pc
           /\ \A h \in Generators : generator'[h].pc = "knowledge" => generator'[h].manifest # 0
  <1>1. FreeThread \in GeneratorRow /\ FreeThread.pc = "free"
    BY ArtifactsAssumption DEF FreeThread, GeneratorRow
  <1> QED
    BY <1>1 DEF RetroRows

LEMMA ReportIsRecorded ==
    ASSUME ArtifactTypeOK, NEW kind \in RetroKinds, record_artifact(kind)
    PROVE  ArtifactTypeOK' /\ get_retrospective' # {} /\ NextArtifact \in 1..MaxArtifacts
  <1>1. /\ ArtifactTypeOK' /\ NextArtifact \in 1..MaxArtifacts
        /\ DOMAIN artifacts' = DOMAIN artifacts \cup {NextArtifact}
        /\ artifacts'[NextArtifact] = Artifact(kind, TRUE, TRUE)
    BY AnArtifactIsRecorded, RetroKindsAssumption DEF RetroKinds
  <1> QED
    BY <1>1 DEF get_retrospective, Recorded, Artifact

LEMMA ReportIsLost ==
    ASSUME ArtifactTypeOK, NEW kind \in RetroKinds, CrashInRecord(kind)
    PROVE  ArtifactTypeOK' /\ get_retrospective' = get_retrospective
  <1>1. /\ ArtifactTypeOK' /\ ArtifactsStay
        /\ DOMAIN artifacts' = DOMAIN artifacts \cup {NextArtifact}
        /\ artifacts'[NextArtifact] = Artifact(kind, TRUE, FALSE)
        /\ NextArtifact \notin DOMAIN artifacts
    BY ARecordCrashes, RetroKindsAssumption DEF RetroKinds
  <1> QED
    BY <1>1 DEF get_retrospective, Recorded, Artifact, ArtifactsStay

LEMMA ReportsStay ==
    ASSUME ArtifactTypeOK, UNCHANGED artifactVars
    PROVE  ArtifactTypeOK' /\ get_retrospective' = get_retrospective
  BY DEF artifactVars, ArtifactTypeOK, get_retrospective, Recorded

\* A clean-up rewrites the table without a row more or less.
LEMMA TableIsRewritten ==
    ASSUME ArtifactTypeOK, NEW f, f = [a \in DOMAIN artifacts |-> f[a]],
           \A a \in DOMAIN artifacts : f[a] \in ArtifactRow,
           artifacts' = f, halfDeleted' \in BOOLEAN
    PROVE  ArtifactTypeOK'
  <1>1. PICK n \in Nat : n = Len(artifacts) /\ DOMAIN artifacts = 1..n /\ n <= MaxArtifacts
    <2>1. artifacts \in Seq(ArtifactRow) /\ Len(artifacts) <= MaxArtifacts
      BY DEF ArtifactTypeOK, ArtifactRow
    <2> QED
      BY <2>1, LenProperties
  <1>2. f \in [1..n -> ArtifactRow]
    BY <1>1
  <1>3. f \in Seq(ArtifactRow) /\ Len(f) = n
    BY <1>2, SequenceOver
  <1> QED
    BY <1>1, <1>3 DEF ArtifactTypeOK, ArtifactRow

LEMMA ReportsAreCleaned ==
    ASSUME ArtifactTypeOK, clean_up
    PROVE  ArtifactTypeOK' /\ get_retrospective' = {}
  <1>1. PICK f : f = [a \in DOMAIN artifacts |-> IF a \in Recorded(RetroKinds)
                                                 THEN Artifact(artifacts[a].kind, FALSE, FALSE)
                                                 ELSE artifacts[a]]
    OBVIOUS
  <1>2. artifacts' = f /\ halfDeleted' = halfDeleted
    BY <1>1 DEF clean_up, delete_artifacts_for_case
  <1>3. \A a \in DOMAIN artifacts : f[a] \in ArtifactRow
    BY <1>1, ArtifactIds DEF Artifact, ArtifactRow
  <1>4. f = [a \in DOMAIN artifacts |-> f[a]] /\ halfDeleted' \in BOOLEAN
    BY <1>1, <1>2 DEF ArtifactTypeOK
  <1>5. ArtifactTypeOK'
    BY <1>2, <1>3, <1>4, TableIsRewritten
  <1>6. \A a \in DOMAIN artifacts : ~(f[a].row /\ f[a].kind \in RetroKinds)
    BY <1>1 DEF Recorded, Artifact
  <1> QED
    BY <1>1, <1>2, <1>5, <1>6 DEF get_retrospective, Recorded

LEMMA ReportsAreHalfDeleted ==
    ASSUME ArtifactTypeOK, DeleteInterrupted(RetroKinds)
    PROVE  ArtifactTypeOK'
  <1>1. PICK gone \in SUBSET Recorded(RetroKinds) :
            artifacts' = [a \in DOMAIN artifacts |->
                IF a \in gone THEN [artifacts[a] EXCEPT !.file = FALSE] ELSE artifacts[a]]
    BY DEF DeleteInterrupted
  <1>2. PICK f : f = [a \in DOMAIN artifacts |->
                IF a \in gone THEN [artifacts[a] EXCEPT !.file = FALSE] ELSE artifacts[a]]
    OBVIOUS
  <1>3. \A a \in DOMAIN artifacts : f[a] \in ArtifactRow
    BY <1>2, ArtifactIds DEF ArtifactRow
  <1>4. f = [a \in DOMAIN artifacts |-> f[a]] /\ halfDeleted' \in BOOLEAN /\ artifacts' = f
    BY <1>1, <1>2 DEF DeleteInterrupted
  <1> QED
    BY <1>3, <1>4, TableIsRewritten

LEMMA KnowledgeIsTold ==
    ASSUME records \in Seq(Knowledge), NEW batch \in Knowledge, records' = Append(records, batch)
    PROVE  /\ records' \in Seq(Knowledge)
           /\ ~batch.whole => WholeBatches' = WholeBatches
           /\ batch.whole => WholeBatches' = WholeBatches \cup {Len(records')}
  <1>1. PICK n \in Nat : n = Len(records) /\ DOMAIN records = 1..n
    BY LenProperties
  <1>2. /\ records' \in Seq(Knowledge) /\ DOMAIN records' = 1..(n + 1)
        /\ records'[n + 1] = batch /\ \A r \in 1..n : records'[r] = records[r]
        /\ Len(records') = n + 1
    BY <1>1
  <1>3. 1..(n + 1) = 1..n \cup {n + 1} /\ n + 1 \notin 1..n
    OBVIOUS
  <1> QED
    BY <1>1, <1>2, <1>3 DEF WholeBatches

LEMMA KnowledgeIsReviewed ==
    ASSUME records \in Seq(Knowledge), NEW r \in DOMAIN records, NEW decision \in {"verified", "rejected"},
           records' = [records EXCEPT ![r].status = decision]
    PROVE  records' \in Seq(Knowledge) /\ WholeBatches' = WholeBatches /\ Len(records') = Len(records)
  <1>1. PICK n \in Nat : n = Len(records) /\ DOMAIN records = 1..n /\ records \in [1..n -> Knowledge]
    BY LenProperties
  <1>2. PICK new : new = [records[r] EXCEPT !.status = decision]
    OBVIOUS
  <1>3. records' = [records EXCEPT ![r] = new]
    BY <1>2
  <1>4. new \in Knowledge /\ new.whole = records[r].whole
    BY <1>1, <1>2 DEF Knowledge
  <1>5. records' \in [1..n -> Knowledge]
    BY <1>1, <1>3, <1>4
  <1>6. records' \in Seq(Knowledge) /\ Len(records') = n
    BY <1>5, SequenceOver
  <1>7. DOMAIN records' = DOMAIN records /\ \A k \in DOMAIN records : records'[k].whole = records[k].whole
    BY <1>1, <1>3, <1>4
  <1> QED
    BY <1>1, <1>6, <1>7 DEF WholeBatches
-----------------------------------------------------------------------------
(* Every step keeps the retrospectives: one lemma per action *)

\* What a step leaves alone keeps its part of the invariant.
LEMMA SameKnowledge ==
    ASSUME UNCHANGED records
    PROVE  WholeBatches' = WholeBatches
  BY DEF WholeBatches

LEMMA HookKeeps ==
    ASSUME RetroInvariant, NEW to \in OrchestratorTargets, transition_case(to)
    PROVE  RetroInvariant'
  <1>1. /\ UNCHANGED <<artifactVars, holder, records, broken>>
        /\ status' = to /\ moves' = moves + 1 /\ moves < MaxMoves
    BY DEF transition_case
  <1>2. /\ ArtifactTypeOK' /\ get_retrospective' = get_retrospective /\ WholeBatches' = WholeBatches
    BY <1>1, ReportsStay, SameKnowledge DEF RetroInvariant, RetroRows
  <1>3. /\ generator' \in [Generators -> GeneratorRow]
        /\ \A h \in Generators : generator'[h].pc = "knowledge" => generator'[h].manifest # 0
        /\ \A h \in Generators : \/ generator'[h].pc = generator[h].pc
                                 \/ (generator'[h].pc = "waiting" /\ generator[h].pc = "free")
    <2>1. CASE UNCHANGED generator
      BY <2>1 DEF RetroInvariant, RetroRows
    <2>2. CASE \E g \in Generators : AtStep(g, "free") /\ Begins(g)
      <3>1. PICK g \in Generators : generator[g].pc = "free"
                                    /\ generator' = [generator EXCEPT ![g].pc = "waiting"]
        BY <2>2 DEF AtStep, Begins
      <3>2. /\ generator' \in [Generators -> GeneratorRow]
            /\ \A h \in Generators : generator'[h].pc = IF h = g THEN "waiting" ELSE generator[h].pc
            /\ \A h \in Generators : generator'[h].pc = "knowledge" => generator'[h].manifest # 0
        <4>1. RetroRows /\ "waiting" \in Places
          BY PlacesToGo DEF RetroInvariant
        <4> QED
          BY <3>1, <4>1, ThreadGoes
      <3> QED
        BY <3>1, <3>2
    <2> QED
      BY <2>1, <2>2 DEF transition_case
  <1>4. moves' \in 0..MaxMoves /\ status' \in CaseStatuses
    BY <1>1, GeneratorAssumption DEF RetroInvariant, RetroRows, OrchestratorTargets, CaseStatuses
  <1>5. RetroRows'
    BY <1>1, <1>2, <1>3, <1>4 DEF RetroInvariant, RetroRows
  <1>6. HolderOK' /\ ReportOK'
    BY <1>1, <1>2, <1>3 DEF RetroInvariant, HolderOK, ReportOK, Working
  <1> QED
    BY <1>5, <1>6 DEF RetroInvariant

LEMMA CloseKeeps ==
    ASSUME RetroInvariant, close_case
    PROVE  RetroInvariant'
  <1>1. /\ UNCHANGED <<artifactVars, generator, holder, records, broken>>
        /\ status' = "CLOSED" /\ moves' = moves + 1 /\ moves < MaxMoves
    BY DEF close_case
  <1>2. /\ ArtifactTypeOK' /\ get_retrospective' = get_retrospective /\ WholeBatches' = WholeBatches
    BY <1>1, ReportsStay, SameKnowledge DEF RetroInvariant, RetroRows
  <1>3. moves' \in 0..MaxMoves
    BY <1>1, GeneratorAssumption DEF RetroInvariant, RetroRows
  <1> QED
    BY <1>1, <1>2, <1>3 DEF RetroInvariant, RetroRows, HolderOK, ReportOK, CaseStatuses

LEMMA RequestKeeps ==
    ASSUME RetroInvariant, NEW g \in Generators, handle_generate_retrospective(g)
    PROVE  RetroInvariant'
  <1>1. /\ UNCHANGED <<artifactVars, holder, records, broken, status, moves>>
        /\ generator[g].pc = "free" /\ generator' = [generator EXCEPT ![g].pc = "waiting"]
    BY DEF handle_generate_retrospective, Quiet, AtStep, Begins
  <1>2. /\ ArtifactTypeOK' /\ get_retrospective' = get_retrospective /\ WholeBatches' = WholeBatches
    BY <1>1, ReportsStay, SameKnowledge DEF RetroInvariant, RetroRows
  <1>3. /\ generator' \in [Generators -> GeneratorRow]
        /\ \A h \in Generators : generator'[h].pc = IF h = g THEN "waiting" ELSE generator[h].pc
        /\ \A h \in Generators : generator'[h].pc = "knowledge" => generator'[h].manifest # 0
    <2>1. RetroRows /\ "waiting" \in Places
      BY PlacesToGo DEF RetroInvariant
    <2> QED
      BY <1>1, <2>1, ThreadGoes
  <1>4. RetroRows'
    BY <1>1, <1>2, <1>3 DEF RetroInvariant, RetroRows
  <1>5. HolderOK' /\ ReportOK'
    BY <1>1, <1>2, <1>3 DEF RetroInvariant, HolderOK, ReportOK, Working
  <1> QED
    BY <1>4, <1>5 DEF RetroInvariant

LEMMA GuardKeeps ==
    ASSUME RetroInvariant, NEW g \in Generators, Guard(g)
    PROVE  RetroInvariant'
  <1>1. /\ UNCHANGED <<artifactVars, records, broken, status, moves>>
        /\ generator[g].pc = "waiting" /\ holder = NoGenerator
    BY DEF Guard, Quiet, AtStep, lock_free
  <1>2. /\ ArtifactTypeOK' /\ get_retrospective' = get_retrospective /\ WholeBatches' = WholeBatches
    BY <1>1, ReportsStay, SameKnowledge DEF RetroInvariant, RetroRows
  <1>3. \A h \in Generators : generator[h].pc \notin Working
    BY <1>1, GeneratorAssumption DEF RetroInvariant, HolderOK
  <1>4. CASE get_retrospective # {}
    <2>1. generator' = [generator EXCEPT ![g] = FreeThread] /\ holder' = NoGenerator
      BY <1>4 DEF Guard, Ends
    <2>2. /\ generator' \in [Generators -> GeneratorRow]
          /\ \A h \in Generators : generator'[h].pc = IF h = g THEN "free" ELSE generator[h].pc
          /\ \A h \in Generators : generator'[h].pc = "knowledge" => generator'[h].manifest # 0
      BY <2>1, ThreadEnds DEF RetroInvariant
    <2>3. RetroRows'
      BY <1>1, <1>2, <2>1, <2>2 DEF RetroInvariant, RetroRows
    <2>4. HolderOK' /\ ReportOK'
      BY <1>1, <1>2, <1>3, <2>1, <2>2 DEF RetroInvariant, HolderOK, ReportOK, Working
    <2> QED
      BY <2>3, <2>4 DEF RetroInvariant
  <1>5. CASE get_retrospective = {}
    <2>1. generator' = [generator EXCEPT ![g].pc = "report"] /\ holder' = g
      BY <1>5 DEF Guard, Goto
    <2>2. /\ generator' \in [Generators -> GeneratorRow]
          /\ \A h \in Generators : generator'[h].pc = IF h = g THEN "report" ELSE generator[h].pc
          /\ \A h \in Generators : generator'[h].pc = "knowledge" => generator'[h].manifest # 0
      <3>1. RetroRows /\ "report" \in Places
        BY PlacesToGo DEF RetroInvariant
      <3> QED
        BY <2>1, <3>1, ThreadGoes
    <2>3. RetroRows'
      BY <1>1, <1>2, <2>1, <2>2 DEF RetroInvariant, RetroRows
    <2>4. HolderOK'
      BY <1>3, <2>1, <2>2 DEF HolderOK, Working
    <2>5. ReportOK'
      BY <1>1, <1>2, <1>3, <1>5, <2>1, <2>2, GeneratorAssumption DEF RetroInvariant, ReportOK, Working
    <2> QED
      BY <2>3, <2>4, <2>5 DEF RetroInvariant
  <1> QED
    BY <1>4, <1>5

\* The thread that holds the lock comes to the end of its work.
LEMMA WorkEnds ==
    ASSUME RetroInvariant, NEW g \in Generators, Ends(g), generator[g].pc \in Working
    PROVE  /\ generator' \in [Generators -> GeneratorRow]
           /\ \A h \in Generators : generator'[h].pc = "knowledge" => generator'[h].manifest # 0
           /\ \A h \in Generators : generator'[h].pc \notin Working
           /\ holder' = NoGenerator /\ HolderOK'
  <1>1. generator' = [generator EXCEPT ![g] = FreeThread] /\ holder' = NoGenerator /\ holder = g
    BY DEF Ends, RetroInvariant, HolderOK
  <1>2. /\ generator' \in [Generators -> GeneratorRow]
        /\ \A h \in Generators : generator'[h].pc = IF h = g THEN "free" ELSE generator[h].pc
        /\ \A h \in Generators : generator'[h].pc = "knowledge" => generator'[h].manifest # 0
    BY <1>1, ThreadEnds DEF RetroInvariant
  <1>3. \A h \in Generators : generator'[h].pc \notin Working
    BY <1>1, <1>2 DEF RetroInvariant, HolderOK, Working
  <1> QED
    BY <1>1, <1>2, <1>3, GeneratorAssumption DEF HolderOK

\* It comes to its next step.
LEMMA WorkGoesOn ==
    ASSUME RetroInvariant, NEW g \in Generators, generator[g].pc \in Working, NEW pc \in Working,
           holder' = holder, generator' \in [Generators -> GeneratorRow],
           \A h \in Generators : generator'[h].pc = IF h = g THEN pc ELSE generator[h].pc
    PROVE  /\ HolderOK' /\ holder = g /\ holder' # NoGenerator
           /\ \A h \in Generators : generator'[h].pc = "knowledge" /\ h # g =>
                 generator[h].pc = "knowledge"
           /\ \A h \in Generators : generator'[h].pc \in Working => h = g
  BY GeneratorAssumption DEF RetroInvariant, HolderOK

LEMMA WriteReportKeeps ==
    ASSUME RetroInvariant, NEW g \in Generators, WriteReport(g)
    PROVE  RetroInvariant'
  <1>1. /\ UNCHANGED <<records, broken, status, moves>> /\ WholeBatches' = WholeBatches
        /\ generator[g].pc = "report" /\ generator[g].pc \in Working /\ holder = g
        /\ get_retrospective = {} /\ WholeBatches = {} /\ ArtifactTypeOK
    BY SameKnowledge, GeneratorAssumption
    DEF WriteReport, Quiet, AtStep, Working, RetroInvariant, RetroRows, HolderOK, ReportOK
  <1>2. CASE record_artifact("retrospective_report") /\ Goto(g, "manifest") /\ UNCHANGED holder
    <2>1. ArtifactTypeOK' /\ get_retrospective' # {}
      BY <1>1, <1>2, ReportIsRecorded DEF RetroKinds
    <2>2. /\ generator' \in [Generators -> GeneratorRow]
          /\ \A h \in Generators : generator'[h].pc = IF h = g THEN "manifest" ELSE generator[h].pc
          /\ \A h \in Generators : generator'[h].pc = "knowledge" => generator'[h].manifest # 0
      <3>1. generator' = [generator EXCEPT ![g].pc = "manifest"]
        BY <1>2 DEF Goto
      <3>2. RetroRows
        BY DEF RetroInvariant
      <3>3. "manifest" \in Places
        BY PlacesToGo
      <3> QED
        BY <3>1, <3>2, <3>3, ThreadGoes
    <2>3. /\ HolderOK' /\ holder' # NoGenerator
          /\ \A h \in Generators : generator'[h].pc \in Working => h = g
      <3>1. "manifest" \in Working
        BY DEF Working
      <3> QED
        BY <1>1, <1>2, <2>2, <3>1, WorkGoesOn
    <2>4. RetroRows'
      BY <1>1, <1>2, <2>1, <2>2 DEF RetroInvariant, RetroRows
    <2>5. ReportOK'
      BY <1>1, <2>1, <2>2, <2>3 DEF ReportOK, Working
    <2> QED
      BY <2>3, <2>4, <2>5 DEF RetroInvariant
  <1>3. CASE UNCHANGED artifactVars /\ Ends(g)
    <2>1. ArtifactTypeOK' /\ get_retrospective' = get_retrospective
      BY <1>1, <1>3, ReportsStay
    <2>2. /\ generator' \in [Generators -> GeneratorRow]
          /\ \A h \in Generators : generator'[h].pc = "knowledge" => generator'[h].manifest # 0
          /\ \A h \in Generators : generator'[h].pc \notin Working
          /\ holder' = NoGenerator /\ HolderOK'
      BY <1>1, <1>3, WorkEnds
    <2>3. RetroRows'
      BY <1>1, <2>1, <2>2 DEF RetroInvariant, RetroRows
    <2>4. ReportOK'
      BY <1>1, <2>1, <2>2 DEF ReportOK, Working
    <2> QED
      BY <2>2, <2>3, <2>4 DEF RetroInvariant
  <1> QED
    BY <1>2, <1>3 DEF WriteReport

LEMMA WriteManifestKeeps ==
    ASSUME RetroInvariant, NEW g \in Generators, WriteManifest(g)
    PROVE  RetroInvariant'
  <1>1. /\ UNCHANGED <<records, status, moves>> /\ WholeBatches' = WholeBatches
        /\ generator[g].pc = "manifest" /\ generator[g].pc \in Working /\ holder = g
        /\ WholeBatches = {} /\ ArtifactTypeOK /\ generator \in [Generators -> GeneratorRow]
    BY SameKnowledge, GeneratorAssumption
    DEF WriteManifest, Quiet, AtStep, Working, RetroInvariant, RetroRows, HolderOK, ReportOK
  <1>2. CASE /\ record_artifact("knowledge_manifest")
             /\ generator' = [generator EXCEPT ![g].pc = "knowledge", ![g].manifest = NextArtifact]
             /\ UNCHANGED <<holder, broken>>
    <2>1. PICK a \in 1..MaxArtifacts : a = NextArtifact /\ ArtifactTypeOK' /\ get_retrospective' # {}
      BY <1>1, <1>2, ReportIsRecorded DEF RetroKinds
    <2>2. a \in 0..MaxArtifacts /\ a # 0
      BY ArtifactsAssumption
    <2>3. PICK half : half = [generator EXCEPT ![g].pc = "knowledge"]
      OBVIOUS
    <2>4. /\ half \in [Generators -> GeneratorRow] /\ half[g].pc = "knowledge"
          /\ \A h \in Generators : h # g => half[h] = generator[h]
      BY <1>1, <2>3 DEF GeneratorRow, Working
    <2>5. generator' = [half EXCEPT ![g].manifest = a]
      BY <1>2, <2>1, <2>3
    <2>6. /\ generator' \in [Generators -> GeneratorRow]
          /\ generator'[g].pc = "knowledge" /\ generator'[g].manifest = a
          /\ \A h \in Generators : h # g => generator'[h] = generator[h]
      BY <2>2, <2>4, <2>5 DEF GeneratorRow
    <2>7. \A h \in Generators : generator'[h].pc = IF h = g THEN "knowledge" ELSE generator[h].pc
      BY <2>6
    <2>8. /\ HolderOK' /\ holder' # NoGenerator
          /\ \A h \in Generators : generator'[h].pc \in Working => h = g
      <3>1. "knowledge" \in Working
        BY DEF Working
      <3> QED
        BY <1>1, <1>2, <2>6, <2>7, <3>1, WorkGoesOn
    <2>9. RetroRows'
      BY <1>1, <1>2, <2>1, <2>2, <2>6 DEF RetroInvariant, RetroRows
    <2>10. ReportOK'
      BY <1>1, <2>1, <2>7, <2>8 DEF ReportOK, Working
    <2> QED
      BY <2>8, <2>9, <2>10 DEF RetroInvariant
  <1>3. CASE UNCHANGED artifactVars /\ Ends(g) /\ broken' = TRUE
    <2>1. ArtifactTypeOK' /\ get_retrospective' = get_retrospective
      BY <1>1, <1>3, ReportsStay
    <2>2. /\ generator' \in [Generators -> GeneratorRow]
          /\ \A h \in Generators : generator'[h].pc = "knowledge" => generator'[h].manifest # 0
          /\ \A h \in Generators : generator'[h].pc \notin Working
          /\ holder' = NoGenerator /\ HolderOK'
      BY <1>1, <1>3, WorkEnds
    <2>3. RetroRows'
      BY <1>1, <1>3, <2>1, <2>2 DEF RetroInvariant, RetroRows
    <2>4. ReportOK'
      BY <1>1, <1>3, <2>1, <2>2 DEF ReportOK, Working
    <2> QED
      BY <2>2, <2>3, <2>4 DEF RetroInvariant
  <1> QED
    BY <1>2, <1>3 DEF WriteManifest

LEMMA RecordKnowledgeKeeps ==
    ASSUME RetroInvariant, NEW g \in Generators, record_knowledge_records(g)
    PROVE  RetroInvariant'
  <1>1. /\ UNCHANGED <<artifactVars, broken, status, moves>>
        /\ generator[g].pc = "knowledge" /\ generator[g].pc \in Working /\ holder = g
        /\ WholeBatches = {} /\ get_retrospective # {}
        /\ ArtifactTypeOK /\ records \in Seq(Knowledge)
    BY GeneratorAssumption
    DEF record_knowledge_records, Quiet, AtStep, Working, RetroInvariant, RetroRows, HolderOK, ReportOK
  <1>2. ArtifactTypeOK' /\ get_retrospective' = get_retrospective
    BY <1>1, ReportsStay
  <1>3. /\ Batch(generator[g].manifest, TRUE) \in Knowledge /\ Batch(generator[g].manifest, TRUE).whole
        /\ Batch(generator[g].manifest, FALSE) \in Knowledge /\ ~Batch(generator[g].manifest, FALSE).whole
    <2>1. generator[g].manifest \in 1..MaxArtifacts
      <3>1. generator[g].manifest \in 0..MaxArtifacts /\ generator[g].manifest # 0
        BY <1>1 DEF RetroInvariant, RetroRows, GeneratorRow
      <3> QED
        BY <3>1, ArtifactsAssumption
    <2> QED
      BY <2>1 DEF Batch, Knowledge
  <1>4. CASE records' = Append(records, Batch(generator[g].manifest, TRUE)) /\ Ends(g)
    <2>1. records' \in Seq(Knowledge) /\ WholeBatches' = WholeBatches \cup {Len(records')}
      BY <1>1, <1>3, <1>4, KnowledgeIsTold
    <2>2. /\ generator' \in [Generators -> GeneratorRow]
          /\ \A h \in Generators : generator'[h].pc = "knowledge" => generator'[h].manifest # 0
          /\ \A h \in Generators : generator'[h].pc \notin Working
          /\ holder' = NoGenerator /\ HolderOK'
      BY <1>1, <1>4, WorkEnds
    <2>3. RetroRows'
      BY <1>1, <1>2, <2>1, <2>2 DEF RetroInvariant, RetroRows
    <2>4. ReportOK'
      BY <1>1, <1>2, <2>1, <2>2 DEF ReportOK, Working
    <2> QED
      BY <2>2, <2>3, <2>4 DEF RetroInvariant
  <1>5. CASE /\ records' = Append(records, Batch(generator[g].manifest, FALSE)) \/ UNCHANGED records
             /\ Goto(g, "cleanup") /\ UNCHANGED holder
    <2>1. records' \in Seq(Knowledge) /\ WholeBatches' = WholeBatches
      BY <1>1, <1>3, <1>5, KnowledgeIsTold, SameKnowledge
    <2>2. /\ generator' \in [Generators -> GeneratorRow]
          /\ \A h \in Generators : generator'[h].pc = IF h = g THEN "cleanup" ELSE generator[h].pc
          /\ \A h \in Generators : generator'[h].pc = "knowledge" => generator'[h].manifest # 0
      <3>1. generator' = [generator EXCEPT ![g].pc = "cleanup"]
        BY <1>5 DEF Goto
      <3>2. RetroRows
        BY DEF RetroInvariant
      <3>3. "cleanup" \in Places
        BY PlacesToGo
      <3> QED
        BY <3>1, <3>2, <3>3, ThreadGoes
    <2>3. /\ HolderOK' /\ holder' # NoGenerator
          /\ \A h \in Generators : generator'[h].pc \in Working => h = g
      <3>1. "cleanup" \in Working
        BY DEF Working
      <3> QED
        BY <1>1, <1>5, <2>2, <3>1, WorkGoesOn
    <2>4. RetroRows'
      BY <1>1, <1>2, <1>5, <2>1, <2>2 DEF RetroInvariant, RetroRows
    <2>5. ReportOK'
      BY <1>1, <1>2, <2>1, <2>2, <2>3 DEF ReportOK, Working
    <2> QED
      BY <2>3, <2>4, <2>5 DEF RetroInvariant
  <1> QED
    BY <1>4, <1>5 DEF record_knowledge_records

LEMMA CleanUpKeeps ==
    ASSUME RetroInvariant, NEW g \in Generators, CleanUp(g)
    PROVE  RetroInvariant'
  <1>1. /\ UNCHANGED <<records, status, moves>> /\ WholeBatches' = WholeBatches /\ Ends(g)
        /\ generator[g].pc \in Working /\ holder = g /\ WholeBatches = {} /\ ArtifactTypeOK
        /\ broken \in BOOLEAN
    BY SameKnowledge, GeneratorAssumption
    DEF CleanUp, Quiet, AtStep, Working, RetroInvariant, RetroRows, HolderOK, ReportOK
  <1>2. /\ generator' \in [Generators -> GeneratorRow]
        /\ \A h \in Generators : generator'[h].pc = "knowledge" => generator'[h].manifest # 0
        /\ \A h \in Generators : generator'[h].pc \notin Working
        /\ holder' = NoGenerator /\ HolderOK'
    BY <1>1, WorkEnds
  <1>3. ArtifactTypeOK' /\ ((get_retrospective' = {} /\ broken' = broken) \/ broken' = TRUE)
    BY <1>1, ReportsAreCleaned, ReportsAreHalfDeleted DEF CleanUp
  <1>4. RetroRows'
    BY <1>1, <1>2, <1>3 DEF RetroInvariant, RetroRows
  <1>5. ReportOK'
    BY <1>1, <1>2, <1>3 DEF ReportOK, Working
  <1> QED
    BY <1>2, <1>4, <1>5 DEF RetroInvariant

LEMMA ReviewKeeps ==
    ASSUME RetroInvariant, NEW r \in DOMAIN records, NEW decision \in {"verified", "rejected"},
           review_knowledge_record(r, decision)
    PROVE  RetroInvariant'
  <1>1. /\ UNCHANGED <<artifactVars, generator, holder, broken, status, moves>>
        /\ records' \in Seq(Knowledge) /\ WholeBatches' = WholeBatches
        /\ Len(records') = Len(records)
    BY KnowledgeIsReviewed DEF RetroInvariant, RetroRows, review_knowledge_record, Quiet
  <1>2. ArtifactTypeOK' /\ get_retrospective' = get_retrospective
    BY <1>1, ReportsStay DEF RetroInvariant, RetroRows
  <1> QED
    BY <1>1, <1>2 DEF RetroInvariant, RetroRows, HolderOK, ReportOK

LEMMA CrashKeeps ==
    ASSUME RetroInvariant, CrashRetro
    PROVE  RetroInvariant'
  <1>1. /\ UNCHANGED <<records, status, moves>> /\ WholeBatches' = WholeBatches
        /\ generator' = [g \in Generators |-> FreeThread] /\ holder' = NoGenerator
        /\ broken' = (broken \/ holder # NoGenerator) /\ ArtifactTypeOK
    BY SameKnowledge DEF CrashRetro, Quiet, RetroInvariant, RetroRows
  <1>2. FreeThread \in GeneratorRow /\ FreeThread.pc = "free"
    BY ArtifactsAssumption DEF FreeThread, GeneratorRow
  <1>3. generator' \in [Generators -> GeneratorRow] /\ \A h \in Generators : generator'[h].pc = "free"
    BY <1>1, <1>2
  <1>4. ArtifactTypeOK' /\ get_retrospective' = get_retrospective
    <2>1. CrashInRecord("retrospective_report") \/ UNCHANGED artifactVars
      BY DEF CrashRetro
    <2> QED
      BY <1>1, <2>1, ReportsStay, ReportIsLost DEF RetroKinds
  <1>5. broken' \in BOOLEAN /\ (~broken' => ~broken /\ holder = NoGenerator)
    BY <1>1 DEF RetroInvariant, RetroRows
  <1>6. RetroRows'
    BY <1>1, <1>3, <1>4, <1>5 DEF RetroInvariant, RetroRows
  <1>7. HolderOK'
    BY <1>1, <1>3, GeneratorAssumption DEF HolderOK, Working
  <1>8. ReportOK'
    BY <1>1, <1>3, <1>4, <1>5 DEF RetroInvariant, ReportOK
  <1> QED
    BY <1>6, <1>7, <1>8 DEF RetroInvariant

LEMMA RetroRests ==
    ASSUME RetroInvariant, UNCHANGED retroVars
    PROVE  RetroInvariant'
  <1>1. UNCHANGED <<artifactVars, status, moves, generator, holder, records, broken>>
    BY DEF retroVars
  <1>2. /\ ArtifactTypeOK' /\ get_retrospective' = get_retrospective /\ WholeBatches' = WholeBatches
    BY <1>1, ReportsStay, SameKnowledge DEF RetroInvariant, RetroRows
  <1> QED
    BY <1>1, <1>2 DEF RetroInvariant, RetroRows, HolderOK, ReportOK

LEMMA RetroKeeps == RetroInvariant /\ [RetroNext]_retroVars => RetroInvariant'
  BY HookKeeps, CloseKeeps, RequestKeeps, GuardKeeps, WriteReportKeeps, WriteManifestKeeps,
     RecordKnowledgeKeeps, CleanUpKeeps, ReviewKeeps, CrashKeeps, RetroRests
  DEF RetroNext, Generate

LEMMA RetroAlways == RetroSpec => []RetroInvariant
  BY RetroStart, RetroKeeps, PTL DEF RetroSpec

-----------------------------------------------------------------------------

\* What the rows of a Case's retrospectives are made of.
THEOREM RetroTypes == RetroSpec => []RetroTypeOK
  <1>1. ASSUME RetroInvariant
        PROVE  RetroTypeOK
    <2>1. \A r \in DOMAIN records : records[r] \in Knowledge
      BY <1>1, ElementOfSeq, LenProperties DEF RetroInvariant, RetroRows
    <2> QED
      BY <1>1, <2>1 DEF RetroInvariant, RetroRows, GeneratorRow, Working, Knowledge, RetroTypeOK
  <1> QED
    BY <1>1, RetroAlways, PTL

\* However often and by whomever a retrospective is asked for, nothing is extracted
\* after a whole extraction, and what nothing cut short shows a report with its knowledge.
THEOREM KnowledgeIsSettled == RetroSpec => []KnowledgeSettles
  <1>1. ASSUME RetroInvariant
        PROVE  KnowledgeSettles
    BY <1>1 DEF RetroInvariant, ReportOK, KnowledgeSettles
  <1> QED
    BY <1>1, RetroAlways, PTL
=============================================================================
