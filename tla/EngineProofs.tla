----------------------------- MODULE EngineProofs -----------------------------
(***************************************************************************)
(* Proofs about NativeEngine and EngineJob, for every pack of signatures   *)
(* and rules, every content, name and place of a file, and every number of *)
(* files that are replaced while the job runs; and about GuardWatch, which *)
(* acts on the engine's verdict, for every set of pids, executables and    *)
(* contents and any number of processes that start and files that change.  *)
(* The two share no variable: neither proof uses the other.                *)
(***************************************************************************)
EXTENDS EngineJob, GuardWatch, TLAPS, FiniteSetTheorems, WellFoundedInduction

-----------------------------------------------------------------------------
(* Decision lists *)

\* A decision list has the value of its first row that holds.
LEMMA FirstRow ==
    ASSUME NEW n \in Nat, NEW rows, DOMAIN rows = 1..n, NEW k \in 1..n,
           rows[k][1], \A i \in 1..(k - 1) : ~rows[i][1]
    PROVE  FirstOf(rows) = rows[k][2]
<1> DEFINE S == {i \in DOMAIN rows : rows[i][1]}
<1>1. k \in S /\ \A j \in S : k <= j
  OBVIOUS
<1>2. Min(S) = k
  <2>1. S \subseteq Int
    OBVIOUS
  <2> HIDE DEF S
  <2>2. \A x \in S : (\A j \in S : x <= j) => x = k
    BY <1>1, <2>1
  <2>3. QED
    BY <1>1, <2>2 DEF Min
<1>3. QED
  BY <1>2 DEF FirstOf

LEMMA FourRows ==
    ASSUME NEW rows, DOMAIN rows = 1..4, rows[4][1]
    PROVE  /\ rows[1][1] => FirstOf(rows) = rows[1][2]
           /\ ~rows[1][1] /\ rows[2][1] => FirstOf(rows) = rows[2][2]
           /\ ~rows[1][1] /\ ~rows[2][1] /\ rows[3][1] => FirstOf(rows) = rows[3][2]
           /\ ~rows[1][1] /\ ~rows[2][1] /\ ~rows[3][1] => FirstOf(rows) = rows[4][2]
<1>1. \A k \in 1..4 : rows[k][1] /\ (\A i \in 1..(k - 1) : ~rows[i][1])
        => FirstOf(rows) = rows[k][2]
  BY FirstRow, 4 \in Nat
<1>2. /\ \A i \in 1..(1 - 1) : FALSE
      /\ \A i \in 1..(2 - 1) : i = 1
      /\ \A i \in 1..(3 - 1) : i = 1 \/ i = 2
      /\ \A i \in 1..(4 - 1) : i = 1 \/ i = 2 \/ i = 3
  OBVIOUS
<1>3. /\ 1 \in 1..4 /\ 2 \in 1..4 /\ 3 \in 1..4 /\ 4 \in 1..4
  OBVIOUS
<1>4. ASSUME rows[1][1] PROVE FirstOf(rows) = rows[1][2]
  BY <1>1, <1>2, <1>3, <1>4
<1>5. ASSUME ~rows[1][1], rows[2][1] PROVE FirstOf(rows) = rows[2][2]
  BY <1>1, <1>2, <1>3, <1>5
<1>6. ASSUME ~rows[1][1], ~rows[2][1], rows[3][1] PROVE FirstOf(rows) = rows[3][2]
  BY <1>1, <1>2, <1>3, <1>6
<1>7. ASSUME ~rows[1][1], ~rows[2][1], ~rows[3][1] PROVE FirstOf(rows) = rows[4][2]
  BY <1>1, <1>2, <1>3, <1>7
<1>8. QED
  BY <1>4, <1>5, <1>6, <1>7

\* No sum of weak findings is graded as confirmed.
LEMMA GradedWeak ==
    ASSUME NEW evidence, NEW good \in BOOLEAN
    PROVE  Graded(evidence, good) \in
             {"probable", "suspicious", "observation", "likely_clean", "clean"}
<1> DEFINE score  == Score(evidence)
           strong == Cardinality({e \in evidence : e.weight >= 20})
           mlHigh == \E e \in evidence : e.source = "ml" /\ e.weight >= 40
           rows == << <<score >= 85 /\ strong >= 3,             "probable">>,
                      <<score >= 60 /\ (strong >= 2 \/ mlHigh), "probable">>,
                      <<score >= 35,                            "suspicious">>,
                      <<score >= 15,                            "observation">>,
                      <<good,                                   "likely_clean">>,
                      <<TRUE,                                   "clean">> >>
<1>1. Graded(evidence, good) = FirstOf(rows)
  BY DEF Graded
<1>2. DOMAIN rows = 1..6
  OBVIOUS
<1>3. rows[6][1] /\ \A i \in 1..6 : rows[i][2] \in
        {"probable", "suspicious", "observation", "likely_clean", "clean"}
  OBVIOUS
<1> HIDE DEF rows
<1>4. \E k \in 1..6 : rows[k][1] /\ \A i \in 1..(k - 1) : ~rows[i][1]
  <2>1. CASE rows[1][1]
    BY <2>1
  <2>2. CASE ~rows[1][1] /\ rows[2][1]
    BY <2>2
  <2>3. CASE ~rows[1][1] /\ ~rows[2][1] /\ rows[3][1]
    BY <2>3
  <2>4. CASE ~rows[1][1] /\ ~rows[2][1] /\ ~rows[3][1] /\ rows[4][1]
    BY <2>4
  <2>5. CASE ~rows[1][1] /\ ~rows[2][1] /\ ~rows[3][1] /\ ~rows[4][1] /\ rows[5][1]
    BY <2>5
  <2>6. CASE ~rows[1][1] /\ ~rows[2][1] /\ ~rows[3][1] /\ ~rows[4][1] /\ ~rows[5][1]
    BY <1>3, <2>6
  <2>7. QED
    BY <2>1, <2>2, <2>3, <2>4, <2>5, <2>6
<1>5. PICK k \in 1..6 : rows[k][1] /\ \A i \in 1..(k - 1) : ~rows[i][1]
  BY <1>4
<1>6. FirstOf(rows) = rows[k][2]
  BY <1>2, <1>5, FirstRow
<1>7. QED
  BY <1>1, <1>3, <1>6

Test(evidence) == \E e \in evidence : e.id = "eicar_test_signature"
WithTrust(found, good) ==
    found \cup Found({<<good \/ FALSE, Ev("known_good", -70, "trust", {})>>})

\* The fusion confirms on proof, and on nothing else (RiskFusion::fuse).
LEMMA FuseConfirms ==
    ASSUME NEW found, NEW good \in BOOLEAN
    PROVE  Fuse(found, good, FALSE).confidence = "confirmed"
             <=> Test(WithTrust(found, good)) \/ Proof(WithTrust(found, good))
<1> DEFINE evidence == WithTrust(found, good)
           test    == \E e \in evidence : e.id = "eicar_test_signature"
           proof   == Proof(evidence)
           ransom  == \E e \in evidence : e.source = "behavior" /\ e.weight >= 85
           Decided(verdict, category, score) ==
             [verdict |-> verdict, confidence |-> ConfidenceOf(verdict),
              category |-> category, score |-> score]
           rows == <<
             <<test,   Decided("test", "test", 100)>>,
             <<proof,  Decided("confirmed", InferCategory(evidence), 100)>>,
             <<ransom, Decided("probable", "ransom", 92)>>,
             <<TRUE,   Decided(Graded(evidence, good), InferCategory(evidence),
                               Score(evidence))>> >>
<1>1. Fuse(found, good, FALSE) = FirstOf(rows)
  BY DEF Fuse, WithTrust
<1>2. /\ DOMAIN rows = 1..4
      /\ rows[1][1] <=> test
      /\ rows[2][1] <=> proof
      /\ rows[3][1] <=> ransom
      /\ rows[4][1]
  OBVIOUS
<1>3. /\ rows[1][2].confidence = "confirmed"
      /\ rows[2][2].confidence = "confirmed"
      /\ rows[3][2].confidence = "high"
  BY DEF ConfidenceOf
<1>4. rows[4][2].confidence # "confirmed"
  <2>1. Graded(evidence, good) \in
             {"probable", "suspicious", "observation", "likely_clean", "clean"}
    BY GradedWeak
  <2>2. rows[4][2].confidence = ConfidenceOf(Graded(evidence, good))
    OBVIOUS
  <2>3. QED
    BY <2>1, <2>2 DEF ConfidenceOf
<1>5. (test <=> Test(evidence)) /\ (proof <=> Proof(evidence))
  BY DEF Test
<1> HIDE DEF rows, test, proof, ransom, evidence
<1>6. CASE test
  <2>1. FirstOf(rows) = rows[1][2]
    BY <1>2, <1>6, FourRows
  <2>2. QED
    BY <1>1, <1>3, <1>5, <1>6, <2>1 DEF evidence
<1>7. CASE ~test /\ proof
  <2>1. FirstOf(rows) = rows[2][2]
    BY <1>2, <1>7, FourRows
  <2>2. QED
    BY <1>1, <1>3, <1>5, <1>7, <2>1 DEF evidence
<1>8. CASE ~test /\ ~proof /\ ransom
  <2>1. FirstOf(rows) = rows[3][2]
    BY <1>2, <1>8, FourRows
  <2>2. QED
    BY <1>1, <1>3, <1>5, <1>8, <2>1 DEF evidence
<1>9. CASE ~test /\ ~proof /\ ~ransom
  <2>1. FirstOf(rows) = rows[4][2]
    BY <1>2, <1>9, FourRows
  <2>2. QED
    BY <1>1, <1>4, <1>5, <1>9, <2>1 DEF evidence
<1>10. QED
  BY <1>6, <1>7, <1>8, <1>9

-----------------------------------------------------------------------------
(* The evidence *)

\* What can confirm a file: a finding with one of the engine's own names, or a
\* signature of full weight.
Decisive(e) == e.id \in OwnNames \/ (e.source = "signature" /\ e.weight >= 90)

\* Nothing that is found in a list of cases is decisive if no case is.
LEMMA FoundWeak ==
    ASSUME NEW cases, \A k \in cases : ~Decisive(k[2])
    PROVE  \A e \in Found(cases) : ~Decisive(e)
  BY DEF Found

\* Neither name, place, entropy, script, imports nor archive decides.
LEMMA HeuristicsWeak ==
    ASSUME NEW p, NEW c PROVE \A e \in Heuristics(p, c) : ~Decisive(e)
<1> DEFINE H(id, w, says) == Ev(id, w, "heuristic", says)
<1>1. \A id, w, says : id \notin OwnNames => ~Decisive(H(id, w, says))
  BY DEF Decisive, Ev
<1>2. /\ "filename_risk" \notin OwnNames /\ "filename_observation" \notin OwnNames
      /\ "location_observation" \notin OwnNames /\ "high_entropy" \notin OwnNames
      /\ "encoded_script_command" \notin OwnNames
      /\ "download_execute_script" \notin OwnNames
      /\ "security_tamper_script" \notin OwnNames
      /\ "suspicious_imports" \notin OwnNames
      /\ "archive_zip_slip" \notin OwnNames
      /\ "archive_suspicious_executable" \notin OwnNames
  BY DEF OwnNames
<1> HIDE DEF H
<1> DEFINE cases == {
      <<FilenameRisk(p) >= 25, H("filename_risk", FilenameRisk(p), {})>>,
      <<FilenameRisk(p) \in 1..24,
        H("filename_observation", Ordered(FilenameRisk(p), 8), {})>>,
      <<LocationRisk(p) > 0, H("location_observation", LocationRisk(p), {})>>,
      <<"high_entropy" \in c.shows, H("high_entropy", 18, {})>>,
      <<Encoded(p, c), H("encoded_script_command", 20, {"script"})>>,
      <<Fetches(p, c), H("download_execute_script", 35, {"download", "script"})>>,
      <<Tampers(p, c), H("security_tamper_script", 35, {"script", "tamper"})>>,
      <<ImportScore(c) > 0,
        H("suspicious_imports", ImportScore(c), {"credential", "persistence"})>>,
      <<InZip(c, "path_escape"), H("archive_zip_slip", 45, {})>>,
      <<Nested(c), H("archive_suspicious_executable", 25, {})>>}
<1>3. Heuristics(p, c) = Found(cases)
  BY DEF Heuristics, H
<1>4. \A k \in cases : ~Decisive(k[2])
  BY <1>1, <1>2
<1>5. QED
  BY <1>3, <1>4, FoundWeak

\* The model does not decide, however sure it is.
LEMMA MlWeak == ASSUME NEW p, NEW c PROVE \A e \in Ml(p, c) : ~Decisive(e)
  BY DEF Ml, Found, Ev, Decisive, OwnNames

\* No rule of a pack decides, whatever weight it carries.
LEMMA RulesWeak == ASSUME NEW p, NEW c PROVE \A e \in Rules(p, c) : ~Decisive(e)
<1>1. \A r \in RulePack : ~Decisive(Ev(r.id, RuleWeight(r), "rule", r.says))
  BY PackAssumption DEF Ev, Decisive
<1>2. QED
  BY <1>1 DEF Rules

\* A signature decides exactly if it is a confirmed one that matches; only
\* EICAR's has a name of the engine's own.
LEMMA SignaturesDecide ==
    ASSUME NEW p, NEW c
    PROVE  (\E e \in Signatures(p, c) : Decisive(e))
             <=> \E s \in SignaturePack \cup {Eicar} :
                   s.confidence = "confirmed" /\ SignatureMatches(s, p, c)
<1>1. ASSUME NEW s \in SignaturePack \cup {Eicar}
      PROVE  Decisive(Ev(s.id, SignatureWeight(s), "signature", s.says))
               <=> s.confidence = "confirmed"
  <2>1. SignatureWeight(s) >= 90 <=> s.confidence = "confirmed"
    BY DEF SignatureWeight
  <2>2. s.id \in OwnNames => s.confidence = "confirmed"
    BY PackAssumption DEF Eicar
  <2>3. QED
    BY <2>1, <2>2 DEF Decisive, Ev
<1>2. QED
  BY <1>1 DEF Signatures

\* The trust store decides exactly for a known-bad hash; who signed the file, and
\* whose artifact it is, does not take it back.
LEMMA TrustDecides ==
    ASSUME NEW p, NEW c, NEW signed \in BOOLEAN
    PROVE  (\E e \in Trust(p, c, signed) : Decisive(e)) <=> c \in KnownBad
<1>1. CASE c \in KnownBad
  BY <1>1 DEF Trust, Ev, Decisive, OwnNames
<1>2. CASE c \notin KnownBad
  <2> DEFINE cases == {
        <<TrustedPublisher(p, signed), Ev("trusted_publisher", -80, "trust", {})>>,
        <<TrustedArtifact(p, signed),
          Ev("trusted_local_artifact", -90, "trust", {})>>}
  <2>1. Trust(p, c, signed) = Found(cases)
    BY <1>2 DEF Trust
  <2>2. \A k \in cases : ~Decisive(k[2])
    BY DEF Ev, Decisive, OwnNames
  <2>3. QED
    BY <1>2, <2>1, <2>2, FoundWeak
<1>3. QED
  BY <1>1, <1>2

\* For every pack, file, place, publisher and model: the engine confirms exactly
\* what is proven bad at that path (scan_bytes_at).
THEOREM ConfirmsExactlyProven ==
    ASSUME NEW p \in Paths, NEW c \in Contents, NEW signed \in BOOLEAN
    PROVE  Assess(p, c, signed).confidence = "confirmed" <=> Proven(p, c)
<1> DEFINE good == c \in KnownGood \/ TrustedArtifact(p, signed)
           found == EvidenceOf(p, c, signed)
           evidence == WithTrust(found, good)
<1>1. Assess(p, c, signed).confidence = "confirmed"
        <=> Test(evidence) \/ Proof(evidence)
  <2>1. good \in BOOLEAN
    OBVIOUS
  <2>2. Assess(p, c, signed) = Fuse(found, good, FALSE)
    BY DEF Assess
  <2> HIDE DEF good, found
  <2>3. QED
    BY <2>1, <2>2, FuseConfirms
<1>2. Test(evidence) \/ Proof(evidence) <=> \E e \in evidence : Decisive(e)
  BY DEF Test, Proof, Decisive, OwnNames
<1>3. (\E e \in evidence : Decisive(e)) <=> \E e \in found : Decisive(e)
  <2>1. \A e \in Found({<<good \/ FALSE, Ev("known_good", -70, "trust", {})>>}) :
          ~Decisive(e)
    BY FoundWeak DEF Ev, Decisive, OwnNames
  <2>2. QED
    BY <2>1 DEF WithTrust
<1>4. (\E e \in found : Decisive(e)) <=>
        \/ \E e \in Trust(p, c, signed) : Decisive(e)
        \/ \E e \in Signatures(p, c) : Decisive(e)
  <2>1. found = Trust(p, c, signed) \cup Signatures(p, c) \cup Rules(p, c)
                  \cup Heuristics(p, c) \cup Ml(p, c)
    BY DEF EvidenceOf
  <2> HIDE DEF found
  <2>2. QED
    BY <2>1, RulesWeak, HeuristicsWeak, MlWeak
<1>5. QED
  BY <1>1, <1>2, <1>3, <1>4, TrustDecides, SignaturesDecide DEF Proven

-----------------------------------------------------------------------------
(* The job *)

\* Some places in a list have a first one.
LEMMA HasLeast ==
    ASSUME NEW N \in Nat, NEW S, S \subseteq 1..N, S # {}
    PROVE  \E n \in S : \A m \in S : n <= m
<1> DEFINE U == 1..N
           R == StrictSubsetOrdering(U)
           Below(n) == {m \in S : m <= n}
           T == {Below(n) : n \in S}
<1>1. IsWellFoundedOn(R, SUBSET U)
  <2>1. IsFiniteSet(U)
    BY FS_Interval
  <2> HIDE DEF U
  <2>2. FiniteSubsetsOf(U) = SUBSET U
    BY <2>1, FS_FiniteSubsetsOfFinite
  <2>3. QED
    BY <2>2, FS_StrictSubsetOrderingWellFounded
<1>2. T \subseteq SUBSET U /\ T # {}
  OBVIOUS
<1> HIDE DEF T, R
<1>3. \E A \in T : \A B \in T : ~(<<B, A>> \in R)
  BY <1>1, <1>2, WFMin
<1>4. PICK n \in S : \A m \in S : <<Below(m), Below(n)>> \notin R
  BY <1>3 DEF T
<1>5. ASSUME NEW m \in S, m < n PROVE FALSE
  <2>1. Below(m) \subseteq Below(n) /\ n \notin Below(m) /\ n \in Below(n)
    <3>1. m \in Nat /\ n \in Nat /\ \A x \in S : x \in Nat
      OBVIOUS
    <3>2. \A x \in S : x <= m => x <= n
      BY <1>5, <3>1
    <3>3. ~(n <= m) /\ n <= n
      BY <1>5, <3>1
    <3>4. QED
      BY <3>2, <3>3
  <2>2. Below(m) \subseteq U /\ Below(n) \subseteq U
    OBVIOUS
  <2> HIDE DEF Below, U
  <2>3. <<Below(m), Below(n)>> \in R
    BY <2>1, <2>2 DEF R, StrictSubsetOrdering
  <2>4. QED
    BY <1>4, <2>3
<1>6. QED
  BY <1>5

\* The next entry is one of those that are left.
LEMMA FirstIsLeft ==
    ASSUME TypeOK, todo # {}
    PROVE  First \in todo /\ First \in DOMAIN Entries /\ Entries[First] \in Paths
<1>1. Entries \in Seq(Paths) /\ Len(Entries) \in Nat /\ DOMAIN Entries = 1..Len(Entries)
  BY EngineAssumption
<1>2. todo \subseteq 1..Len(Entries)
  BY <1>1 DEF TypeOK
<1>3. \E n \in todo : \A m \in todo : n <= m
  BY <1>1, <1>2, HasLeast
<1>4. First \in todo
  BY <1>3 DEF First, Min
<1>5. QED
  BY <1>1, <1>4 DEF TypeOK

\* The tally stays a tally, and nothing is left that was not left before.
LEMMA TallyType ==
    ASSUME TypeOK, \/ Skip
                   \/ \E surfaced, taken \in BOOLEAN : Count(surfaced, taken)
    PROVE  /\ scanned' \in Nat /\ skipped' \in Nat /\ threats' \in Nat
           /\ quarantined' \in Nat
           /\ todo' \subseteq DOMAIN Entries /\ pc' = "next"
  BY DEF TypeOK, Skip, Count

\* A payload has the judged content's hash and is not vouched for yet.
LEMMA PayloadType ==
    ASSUME TypeOK, pc = "move", disk[cur.path] # NoFile
    PROVE  Payload \in Held
  BY DEF TypeOK, Payload, Held

LEMMA InitType == Init => TypeOK
<1> SUFFICES ASSUME Init PROVE TypeOK
  OBVIOUS
<1>1. vault \in Seq(Held)
  BY DEF Init
<1>2. 0 \in 0..MaxChanges
  BY EngineAssumption
<1>3. QED
  BY <1>1, <1>2 DEF Init, TypeOK

\* Every step of the job and of the other programs preserves the types.
LEMMA NextType == TypeOK /\ [Next]_vars => TypeOK'
<1> SUFFICES ASSUME TypeOK, [Next]_vars PROVE TypeOK'
  OBVIOUS
<1> USE DEF setup, tally
<1>1. CASE Walk
  <2> DEFINE met == {i \in DOMAIN Entries :
                       /\ disk[Entries[i]] # NoFile
                       /\ ~About[Entries[i]].excluded
                       /\ quick => About[Entries[i]].depth <= 3}
             broken == {i \in met : About[Entries[i]].broken}
  <2>1. /\ todo' = met \ broken
        /\ skipped' = Cardinality(broken) /\ total' = Cardinality(met \ broken)
        /\ pc' = "next"
        /\ UNCHANGED <<mode, quick, disk, cur, scanned, threats, quarantined,
                       vault, changes>>
    BY <1>1 DEF Walk
  <2>2. met \subseteq DOMAIN Entries /\ broken \subseteq DOMAIN Entries
    OBVIOUS
  <2> HIDE DEF met, broken
  <2>3. IsFiniteSet(DOMAIN Entries)
    <3>1. DOMAIN Entries = 1..Len(Entries) /\ Len(Entries) \in Nat
      BY EngineAssumption
    <3>2. QED
      BY <3>1, FS_Interval
  <2>4. Cardinality(met \ broken) \in Nat /\ Cardinality(broken) \in Nat
    BY <2>2, <2>3, FS_Subset, FS_CardinalityType
  <2>5. QED
    BY <2>1, <2>2, <2>4 DEF TypeOK
<1>2. CASE Read
  <2>1. Entries[First] \in Paths
    BY <1>2, FirstIsLeft DEF Read
  <2>2. cur'.path \in Paths /\ cur'.content \in Contents
    BY <1>2, <2>1 DEF Read, TypeOK
  <2>3. QED
    BY <1>2, <2>2 DEF Read, TypeOK
<1>3. CASE Unreadable
  BY <1>3, TallyType DEF Unreadable, TypeOK
<1>4. CASE Judge
  <2>1. CASE pc' = "move"
    BY <1>4, <2>1 DEF Judge, Count, TypeOK
  <2>2. CASE \E surfaced \in BOOLEAN : Count(surfaced, FALSE)
    BY <1>4, <2>2, TallyType DEF Judge, TypeOK
  <2>3. QED
    BY <1>4, <2>1, <2>2 DEF Judge, Surfaces
<1>5. CASE Rename
  <2>1. vault' \in Seq(Held)
    BY <1>5, PayloadType DEF Rename, TypeOK
  <2>2. disk' \in [Paths -> Contents \cup {NoFile}]
    BY <1>5 DEF Rename, TypeOK
  <2>3. QED
    BY <1>5, <2>1, <2>2 DEF Rename, TypeOK
<1>6. CASE Copy
  <2>1. CASE disk[cur.path] = cur.content
    <3>1. vault' \in Seq(Held)
      BY <1>6, <2>1, PayloadType DEF Copy, TypeOK
    <3>2. QED
      BY <1>6, <2>1, <3>1 DEF Copy, TypeOK
  <2>2. CASE disk[cur.path] # cur.content
    BY <1>6, <2>2, TallyType DEF Copy, TypeOK
  <2>3. QED
    BY <2>1, <2>2
<1>7. CASE MoveFails
  BY <1>7, TallyType DEF MoveFails, TypeOK
<1>8. CASE RemoveSource
  <2>1. CASE disk[cur.path] = NoFile
    BY <1>8, <2>1, TallyType DEF RemoveSource, TypeOK
  <2>2. CASE disk[cur.path] # NoFile
    BY <1>8, <2>2 DEF RemoveSource, TypeOK
  <2>3. QED
    BY <2>1, <2>2
<1>9. CASE Verify
  <2>1. CASE Skip
    BY <1>9, <2>1, TallyType DEF Verify, TypeOK
  <2>2. CASE ~Skip
    BY <1>9, <2>2 DEF Verify, TypeOK
  <2>3. QED
    BY <2>1, <2>2
<1>10. CASE Record
  <2>1. vault' \in Seq(Held)
    <3>1. vault' = [vault EXCEPT ![Len(vault)].recorded = TRUE]
      BY <1>10 DEF Record
    <3>2. vault \in [1..Len(vault) -> Held] /\ Len(vault) \in Nat
      BY DEF TypeOK
    <3>3. vault' \in [1..Len(vault) -> Held]
      BY <3>1, <3>2 DEF Held
    <3>4. QED
      BY <3>2, <3>3
  <2>2. \E surfaced, taken \in BOOLEAN : Count(surfaced, taken)
    BY <1>10 DEF Record
  <2>3. QED
    BY <1>10, <2>1, <2>2, TallyType DEF Record, TypeOK
<1>11. CASE Finish
  BY <1>11 DEF Finish, TypeOK
<1>12. CASE Replace
  <2>1. changes' \in 0..MaxChanges
    BY <1>12, EngineAssumption DEF Replace, TypeOK
  <2>2. disk' \in [Paths -> Contents \cup {NoFile}]
    BY <1>12 DEF Replace, TypeOK
  <2>3. QED
    BY <1>12, <2>1, <2>2 DEF Replace, TypeOK
<1>13. CASE UNCHANGED vars
  BY <1>13 DEF TypeOK, vars
<1>14. QED
  BY <1>1, <1>2, <1>3, <1>4, <1>5, <1>6, <1>7, <1>8, <1>9, <1>10, <1>11,
     <1>12, <1>13 DEF Next, Step

\* Type correctness: every variable keeps its type, and whatever is worked on is
\* a file of the folders with the content that was read (scan_file).
THEOREM TypeCorrect == Spec => []TypeOK
<1>1. Init => TypeOK
  BY InitType
<1>2. TypeOK /\ [Next]_vars => TypeOK'
  BY NextType
<1>3. QED
  BY <1>1, <1>2, PTL DEF Spec

\* The file that is being moved was proven bad, and its payload carries the hash
\* of what was read; it is vouched for only after that hash was compared.
MoveInv ==
    /\ pc \in {"move", "remove", "verify", "record"} => Proven(cur.path, cur.content)
    /\ pc \in {"remove", "verify", "record"} =>
         /\ vault # <<>>
         /\ vault[Len(vault)].path = cur.path
         /\ vault[Len(vault)].sha = cur.content
         /\ ~vault[Len(vault)].recorded
    /\ pc = "record" => vault[Len(vault)].content = cur.content

IInv == TypeOK /\ MoveInv /\ RecordedIsProven

\* A step that touches no payload and does not go on with a move.
LEMMA QuietStep ==
    ASSUME IInv, UNCHANGED vault,
           \/ UNCHANGED <<pc, cur>>
           \/ pc' \notin {"move", "remove", "verify", "record"}
    PROVE  MoveInv' /\ RecordedIsProven'
  BY DEF IInv, MoveInv, RecordedIsProven

\* A new payload is not vouched for.
LEMMA NewPayload ==
    ASSUME IInv, pc = "move", disk[cur.path] # NoFile, UNCHANGED cur,
           vault' = Append(vault, Payload), pc' \in {"remove", "verify"}
    PROVE  MoveInv' /\ RecordedIsProven'
<1>1. vault \in Seq(Held) /\ Payload \in Held
  BY PayloadType DEF IInv, TypeOK
<1>2. /\ Len(vault') = Len(vault) + 1 /\ Len(vault) \in Nat
      /\ vault' # <<>> /\ vault'[Len(vault')] = Payload
      /\ \A i \in DOMAIN vault' : i # Len(vault') =>
           i \in DOMAIN vault /\ vault'[i] = vault[i]
  BY <1>1
<1>3. /\ Payload.path = cur.path /\ Payload.sha = cur.content
      /\ ~Payload.recorded
  BY DEF Payload
<1>4. Proven(cur.path, cur.content)
  BY DEF IInv, MoveInv
<1>5. MoveInv'
  BY <1>2, <1>3, <1>4 DEF MoveInv, Proven
<1>6. RecordedIsProven'
  BY <1>2, <1>3 DEF IInv, RecordedIsProven, Proven
<1>7. QED
  BY <1>5, <1>6

\* Every step keeps the payloads that are vouched for proven, whatever replaces
\* the file between the read, the move and the comparison.
LEMMA NextInv == IInv /\ [Next]_vars => IInv'
<1> SUFFICES ASSUME IInv, [Next]_vars PROVE MoveInv' /\ RecordedIsProven'
  BY NextType DEF IInv
<1>1. CASE Walk \/ Read \/ Unreadable \/ MoveFails \/ Finish
  BY <1>1, QuietStep DEF Walk, Read, Unreadable, MoveFails, Finish, Skip
<1>2. CASE Judge
  <2>1. CASE pc' # "move"
    BY <1>2, <2>1, QuietStep DEF Judge, Count
  <2>2. CASE pc' = "move"
    <3> DEFINE signed == disk[cur.path] # NoFile /\ disk[cur.path].signed
               v == Verdict[cur.path][cur.content][signed]
    <3>1. /\ AutoQuarantines(mode, v)
          /\ cur'.content = cur.content /\ cur'.path = cur.path
          /\ UNCHANGED vault
      BY <1>2, <2>2 DEF Judge, Count
    <3>2. cur.path \in Paths /\ cur.content \in Contents
      BY <1>2 DEF Judge, IInv, TypeOK
    <3>3. v.confidence = "confirmed" <=> Proven(cur.path, cur.content)
      <4>1. signed \in BOOLEAN
        OBVIOUS
      <4> HIDE DEF signed
      <4>2. v = Assess(cur.path, cur.content, signed)
        BY <3>2, <4>1 DEF Verdict
      <4>3. QED
        BY <3>2, <4>1, <4>2, ConfirmsExactlyProven
    <3>4. Proven(cur.path, cur.content)
      BY <3>1, <3>3 DEF AutoQuarantines
    <3>5. QED
      BY <2>2, <3>1, <3>4 DEF IInv, MoveInv, RecordedIsProven, Proven
  <2>3. QED
    BY <2>1, <2>2
<1>3. CASE Rename
  BY <1>3, NewPayload DEF Rename
<1>4. CASE Copy
  <2>1. CASE disk[cur.path] = cur.content
    BY <1>4, <2>1, NewPayload DEF Copy
  <2>2. CASE disk[cur.path] # cur.content
    BY <1>4, <2>2, QuietStep DEF Copy, Skip
  <2>3. QED
    BY <2>1, <2>2
<1>5. CASE RemoveSource
  <2>1. CASE disk[cur.path] = NoFile
    BY <1>5, <2>1, QuietStep DEF RemoveSource, Skip
  <2>2. CASE disk[cur.path] # NoFile
    BY <1>5, <2>2 DEF RemoveSource, IInv, MoveInv, RecordedIsProven, tally
  <2>3. QED
    BY <2>1, <2>2
<1>6. CASE Verify
  <2>1. CASE vault[Len(vault)].content = vault[Len(vault)].sha
    BY <1>6, <2>1 DEF Verify, IInv, MoveInv, RecordedIsProven, tally
  <2>2. CASE vault[Len(vault)].content # vault[Len(vault)].sha
    BY <1>6, <2>2, QuietStep DEF Verify, Skip
  <2>3. QED
    BY <2>1, <2>2
<1>7. CASE Record
  <2>1. MoveInv'
    BY <1>7 DEF Record, Count, MoveInv
  <2>2. /\ vault \in [1..Len(vault) -> Held] /\ Len(vault) \in Nat
        /\ Proven(cur.path, cur.content)
        /\ vault[Len(vault)].path = cur.path
        /\ vault[Len(vault)].content = cur.content
        /\ vault[Len(vault)].sha = cur.content
    BY <1>7 DEF Record, IInv, TypeOK, MoveInv
  <2>3. /\ vault' = [vault EXCEPT ![Len(vault)].recorded = TRUE]
    BY <1>7 DEF Record
  <2>4. /\ DOMAIN vault' = DOMAIN vault
        /\ \A i \in DOMAIN vault : i # Len(vault) => vault'[i] = vault[i]
        /\ vault'[Len(vault)].content = cur.content
        /\ vault'[Len(vault)].sha = cur.content
        /\ vault'[Len(vault)].path = cur.path
    BY <2>2, <2>3 DEF Held
  <2>5. RecordedIsProven'
    BY <2>2, <2>4 DEF IInv, RecordedIsProven, Proven
  <2>6. QED
    BY <2>1, <2>5
<1>8. CASE Replace
  BY <1>8, QuietStep DEF Replace
<1>9. CASE UNCHANGED vars
  BY <1>9, QuietStep DEF vars
<1>10. QED
  BY <1>1, <1>2, <1>3, <1>4, <1>5, <1>6, <1>7, <1>8, <1>9 DEF Next, Step

\* The inductive invariant of the job.
THEOREM Invariance == Spec => []IInv
<1>1. Init => IInv
  <2> SUFFICES ASSUME Init PROVE IInv
    OBVIOUS
  <2>1. pc = "walk" /\ vault = <<>> /\ DOMAIN vault = {}
    BY DEF Init
  <2>2. QED
    BY <2>1, InitType DEF IInv, MoveInv, RecordedIsProven
<1>2. IInv /\ [Next]_vars => IInv'
  BY NextInv
<1>3. QED
  BY <1>1, <1>2, PTL DEF Spec

\* The engine confirms exactly what is proven bad where it lies, for every file of
\* every job and whoever signed it (RiskFusion::fuse, scan_bytes_at).
THEOREM ConfirmsProven == Spec => []ConfirmedMeansProven
<1>1. IInv => ConfirmedMeansProven
  <2> SUFFICES ASSUME IInv, pc = "vet", NEW signed \in BOOLEAN
               PROVE  Verdict[cur.path][cur.content][signed].confidence = "confirmed"
                        <=> Proven(cur.path, cur.content)
    BY DEF ConfirmedMeansProven
  <2>1. cur.path \in Paths /\ cur.content \in Contents
    BY DEF IInv, TypeOK
  <2>2. QED
    BY <2>1, ConfirmsExactlyProven DEF Verdict
<1>2. QED
  BY <1>1, Invariance, PTL

\* Whatever the job vouches for in its quarantine was proven bad where it lay and is the content
\* that was judged (scan_file, quarantine_file).
THEOREM RecordsProven == Spec => []RecordedIsProven
<1>1. IInv => RecordedIsProven
  BY DEF IInv
<1>2. QED
  BY <1>1, Invariance, PTL

-----------------------------------------------------------------------------
(* The process watcher *)


\* The first listing names only pids that exist.
LEMMA WatchInitType == WatchInit => WatchTypeOK
<1> SUFFICES ASSUME WatchInit PROVE WatchTypeOK
  OBVIOUS
<1>1. /\ file \in [Images -> Builds \cup {None}]
      /\ cache \in [Images -> Builds \cup {None}]
  BY DEF WatchInit
<1>2. 0 \in 0..MaxStarts /\ 0 \in 0..MaxWrites
  BY WatchAssumption
<1>3. QED
  BY <1>1, <1>2 DEF WatchInit, WatchTypeOK

\* Whatever handle_process_started answers, the answer is well formed.
LEMMA AnswerType ==
    ASSUME WatchTypeOK, at \in Processes, NEW action \in Actions, Answer(action)
    PROVE  /\ answers' \subseteq [pid : Pids, path : Images, action : Actions,
                              told : BOOLEAN]
           /\ step' \in {"ended", "pick"}
<1>1. PICK told \in IF kind = "command" THEN {TRUE} ELSE BOOLEAN :
        answers' = answers \cup {[pid |-> at.pid, path |-> at.path,
                                  action |-> action, told |-> told]}
  BY DEF Answer
<1>2. at.pid \in Pids /\ at.path \in Images /\ told \in BOOLEAN
  BY <1>1 DEF Processes
<1>3. [pid |-> at.pid, path |-> at.path, action |-> action, told |-> told]
        \in [pid : Pids, path : Images, action : Actions, told : BOOLEAN]
  BY <1>2
<1>4. QED
  BY <1>1, <1>3 DEF WatchTypeOK, Answer

\* Every step of the machine and of the watcher preserves the types; a process
\* is at hand wherever the watcher looks at one.
LEMMA WatchNextType == WatchTypeOK /\ [WatchNext]_watchVars => WatchTypeOK'
<1> SUFFICES ASSUME WatchTypeOK, [WatchNext]_watchVars PROVE WatchTypeOK'
  OBVIOUS
<1> USE DEF config, world, history
<1>1. ASSUME NEW p \in Pids, ExitProcess(p) PROVE WatchTypeOK'
  BY <1>1 DEF WatchTypeOK, ExitProcess
<1>2. ASSUME NEW p \in Pids, NEW q \in Images, StartProcess(p, q)
      PROVE  WatchTypeOK'
  BY <1>2, WatchAssumption DEF WatchTypeOK, StartProcess
<1>3. ASSUME NEW q \in Images, NEW c \in Builds \cup {None}, ChangeFile(q, c)
      PROVE  WatchTypeOK'
  BY <1>3, WatchAssumption DEF WatchTypeOK, ChangeFile
<1>4. CASE Shutdown
  BY <1>4 DEF WatchTypeOK, Shutdown
<1>5. CASE Begin
  BY <1>5 DEF WatchTypeOK, Begin, Running, Processes
<1>6. CASE List
  BY <1>6 DEF WatchTypeOK, List, Running
<1>7. CASE ObeyShutdown
  BY <1>7 DEF WatchTypeOK, ObeyShutdown
<1>8. CASE EndPass
  BY <1>8 DEF WatchTypeOK, EndPass
<1>9. ASSUME NEW r \in Processes, PassBy(r) PROVE WatchTypeOK'
  BY <1>9 DEF WatchTypeOK, PassBy, Processes
<1>10. ASSUME NEW r \in Processes, TakeUp(r) PROVE WatchTypeOK'
  BY <1>10 DEF WatchTypeOK, TakeUp, Processes
<1>11. CASE Hash
  <2>1. at \in Processes /\ at.path \in Images /\ at.pid \in seen
    BY <1>11 DEF WatchTypeOK, Hash, Processes
  <2>2. hash' \in Builds \cup {None}
    BY <1>11, <2>1 DEF WatchTypeOK, Hash
  <2>3. QED
    BY <1>11, <2>1, <2>2 DEF WatchTypeOK, Hash
<1>12. CASE Match
  BY <1>12 DEF WatchTypeOK, Match
<1>13. CASE Rehash
  <2>1. at \in Processes /\ at.path \in Images
    BY <1>13 DEF WatchTypeOK, Rehash, Processes
  <2>2. CASE file[at.path] = None
    BY <1>13, <2>1, <2>2, AnswerType DEF WatchTypeOK, Rehash, Actions
  <2>3. CASE file[at.path] # None
    BY <1>13, <2>1, <2>3 DEF WatchTypeOK, Rehash
  <2>4. QED
    BY <2>2, <2>3
<1>14. CASE Rematch
  <2>1. at \in Processes
    BY <1>14 DEF WatchTypeOK, Rematch
  <2>2. matched' \subseteq Processes
    BY <1>14, <2>1 DEF WatchTypeOK, Rematch
  <2>3. CASE Answer("monitored") \/ Answer("reviewOnly") \/ Answer("error")
    BY <1>14, <2>1, <2>2, <2>3, AnswerType DEF WatchTypeOK, Rematch, Actions
  <2>4. CASE step' = "stop" /\ UNCHANGED answers
    BY <1>14, <2>2, <2>4 DEF WatchTypeOK, Rematch
  <2>5. QED
    BY <1>14, <2>3, <2>4 DEF Rematch
<1>15. CASE Stop
  <2>1. at \in Processes /\ at.pid \in Pids
    BY <1>15 DEF WatchTypeOK, Stop, Processes
  <2>2. proc' \in [Pids -> Images \cup {None}]
    BY <1>15, <2>1 DEF WatchTypeOK, Stop
  <2>3. QED
    BY <1>15, <2>1, <2>2 DEF WatchTypeOK, Stop
<1>16. CASE Move
  <2>1. at \in Processes /\ at.path \in Images
    BY <1>16 DEF WatchTypeOK, Move, Processes
  <2>2. Answer("stoppedAndQuarantined") \/ Answer("error")
    BY <1>16 DEF Move
  <2>3. /\ file' \in [Images -> Builds \cup {None}]
        /\ moved' \subseteq [path : Images, content : Builds]
    BY <1>16, <2>1 DEF WatchTypeOK, Move
  <2>4. QED
    BY <1>16, <2>1, <2>2, <2>3, AnswerType DEF WatchTypeOK, Move, Actions
<1>17. CASE UNCHANGED watchVars
  BY <1>17 DEF WatchTypeOK, watchVars
<1>18. QED
  BY <1>1, <1>2, <1>3, <1>4, <1>5, <1>6, <1>7, <1>8, <1>9, <1>10, <1>11,
     <1>12, <1>13, <1>14, <1>15, <1>16, <1>17 DEF WatchNext, Watcher

\* Type correctness: every variable keeps its type, and the watcher never looks
\* at a process it does not have (main.rs watch_processes_until_shutdown).
THEOREM WatchTypeCorrect == WatchSpec => []WatchTypeOK
<1>1. WatchInit => WatchTypeOK
  BY WatchInitType
<1>2. WatchTypeOK /\ [WatchNext]_watchVars => WatchTypeOK'
  BY WatchNextType
<1>3. QED
  BY <1>1, <1>2, PTL DEF WatchSpec

-----------------------------------------------------------------------------
(* Why a process is stopped *)

\* What the watcher knows of the process at hand when it acts: the second look
\* found it to be a threat, the mode enforces, and the move comes after the stop.
ActInv ==
    /\ step \in {"stop", "move"} => at \in matched /\ enforcing
    /\ step = "move" => at.pid \in stopped

WatchIInv == WatchTypeOK /\ ActInv /\ StopHasCause /\ AnswerTellsTruth

\* Steps that leave the process at hand and the histories alone, and do not
\* reach the two acting steps, disturb nothing.
LEMMA QuietWatch ==
    ASSUME WatchIInv, UNCHANGED <<config, answers, matched, stopped, moved>>,
           \/ UNCHANGED <<step, at>>
           \/ step # "move" /\ step' \notin {"stop", "move"}
    PROVE  ActInv' /\ StopHasCause' /\ AnswerTellsTruth'
  BY DEF config, WatchIInv, ActInv, StopHasCause, AnswerTellsTruth

\* An answer that claims nothing, given before anything was stopped, disturbs
\* nothing, whatever has been matched meanwhile.
LEMMA QuietAnswer ==
    ASSUME WatchIInv, NEW action \in {"monitored", "reviewOnly", "error"},
           Answer(action), step # "move", matched \subseteq matched',
           UNCHANGED <<config, stopped, moved>>
    PROVE  ActInv' /\ StopHasCause' /\ AnswerTellsTruth'
<1>1. answers \subseteq answers' /\ \A a \in answers' \ answers : a.action = action
  BY DEF Answer
<1>2. UNCHANGED <<kind, enforcing>>
  BY DEF config
<1>3. ActInv' /\ StopHasCause'
  BY <1>2 DEF WatchIInv, ActInv, StopHasCause, Answer
<1>4. AnswerTellsTruth'
  BY <1>1, <1>2 DEF WatchIInv, AnswerTellsTruth
<1>5. QED
  BY <1>3, <1>4

\* Every step keeps the reasons: only the second look of handle_process_started
\* leads to a stop, only a stop to a move, and both are answered for.
LEMMA WatchNextInv == WatchIInv /\ [WatchNext]_watchVars => WatchIInv'
<1> SUFFICES ASSUME WatchIInv, [WatchNext]_watchVars
             PROVE  ActInv' /\ StopHasCause' /\ AnswerTellsTruth'
  BY WatchNextType DEF WatchIInv
<1> USE DEF config, world, history
<1>1. ASSUME NEW p \in Pids, ExitProcess(p)
      PROVE  ActInv' /\ StopHasCause' /\ AnswerTellsTruth'
  BY <1>1, QuietWatch DEF ExitProcess
<1>2. ASSUME NEW p \in Pids, NEW q \in Images, StartProcess(p, q)
      PROVE  ActInv' /\ StopHasCause' /\ AnswerTellsTruth'
  BY <1>2, QuietWatch DEF StartProcess
<1>3. ASSUME NEW q \in Images, NEW c \in Builds \cup {None}, ChangeFile(q, c)
      PROVE  ActInv' /\ StopHasCause' /\ AnswerTellsTruth'
  BY <1>3, QuietWatch DEF ChangeFile
<1>4. CASE Shutdown
  BY <1>4, QuietWatch DEF Shutdown
<1>5. CASE Begin \/ List \/ ObeyShutdown \/ EndPass
  BY <1>5, QuietWatch DEF Begin, List, ObeyShutdown, EndPass
<1>6. ASSUME NEW r \in Processes, PassBy(r) \/ TakeUp(r)
      PROVE  ActInv' /\ StopHasCause' /\ AnswerTellsTruth'
  BY <1>6, QuietWatch DEF PassBy, TakeUp
<1>7. CASE Hash \/ Match
  BY <1>7, QuietWatch DEF Hash, Match
<1>8. CASE Rehash
  <2>1. CASE file[at.path] = None
    BY <1>8, <2>1, QuietAnswer DEF Rehash
  <2>2. CASE file[at.path] # None
    BY <1>8, <2>2, QuietWatch DEF Rehash
  <2>3. QED
    BY <2>1, <2>2
<1>9. CASE Rematch
  <2>1. CASE Answer("monitored") \/ Answer("reviewOnly") \/ Answer("error")
    BY <1>9, <2>1, QuietAnswer DEF Rematch
  <2>2. CASE step' = "stop" /\ UNCHANGED answers
    <3>1. ~Answer("monitored") /\ ~Answer("reviewOnly") /\ ~Answer("error")
      BY <2>2 DEF Answer
    <3>2. at \in matched' /\ matched \subseteq matched' /\ enforcing
      BY <1>9, <3>1 DEF Rematch
    <3>3. QED
      BY <1>9, <2>2, <3>2
         DEF Rematch, WatchIInv, ActInv, StopHasCause, AnswerTellsTruth
  <2>3. QED
    BY <1>9, <2>1, <2>2 DEF Rematch
<1>10. CASE Stop
  <2>1. at \in matched /\ enforcing
    BY <1>10 DEF Stop, WatchIInv, ActInv
  <2>2. ActInv'
    BY <1>10, <2>1 DEF Stop, ActInv
  <2>3. StopHasCause'
    BY <1>10, <2>1 DEF Stop, WatchIInv, StopHasCause
  <2>4. AnswerTellsTruth'
    BY <1>10 DEF Stop, WatchIInv, AnswerTellsTruth
  <2>5. QED
    BY <2>2, <2>3, <2>4
<1>11. CASE Move
  <2>1. at \in matched /\ enforcing /\ at.pid \in stopped
    BY <1>11 DEF Move, WatchIInv, ActInv
  <2>2. ActInv'
    BY <1>11 DEF Move, ActInv, Answer
  <2>3. StopHasCause'
    BY <1>11, <2>1 DEF Move, WatchIInv, StopHasCause
  <2>4. moved \subseteq moved' /\ UNCHANGED <<at, stopped>> /\ step = "move"
    BY <1>11 DEF Move
  <2>5. ASSUME NEW action \in {"error", "stoppedAndQuarantined"}, Answer(action),
               action = "error" \/ \E m \in moved' : m.path = at.path
        PROVE  AnswerTellsTruth'
    <3>1. PICK told \in IF kind = "command" THEN {TRUE} ELSE BOOLEAN :
            answers' = answers \cup {[pid |-> at.pid, path |-> at.path,
                                      action |-> action, told |-> told]}
      BY <2>5 DEF Answer
    <3> DEFINE new == [pid |-> at.pid, path |-> at.path, action |-> action,
                       told |-> told]
    <3>2. /\ new.pid = at.pid /\ new.path = at.path /\ new.action = action
          /\ kind = "command" => new.told
      BY <3>1
    <3>3. \A a \in answers' : a.action = "stoppedAndQuarantined" =>
            a.pid \in stopped' /\ \E m \in moved' : m.path = a.path
      BY <2>1, <2>4, <2>5, <3>1, <3>2 DEF WatchIInv, AnswerTellsTruth
    <3>4. \A p \in stopped' : \E a \in answers' :
            /\ a.pid = p /\ a.action \in {"stoppedAndQuarantined", "error"}
            /\ kind' = "command" => a.told
      BY <1>11, <2>4, <3>1, <3>2 DEF WatchIInv, AnswerTellsTruth, Move
    <3>5. QED
      BY <3>3, <3>4 DEF AnswerTellsTruth
  <2>6. CASE Answer("error")
    BY <2>2, <2>3, <2>5, <2>6 DEF Answer
  <2>7. CASE Answer("stoppedAndQuarantined") /\ ~Answer("error")
    <3>1. [path |-> at.path, content |-> file[at.path]] \in moved'
      BY <1>11, <2>7 DEF Move
    <3>2. QED
      BY <2>2, <2>3, <2>5, <2>7, <3>1 DEF Answer
  <2>8. QED
    BY <1>11, <2>6, <2>7 DEF Move
<1>12. CASE UNCHANGED watchVars
  BY <1>12, QuietWatch DEF watchVars
<1>13. QED
  BY <1>1, <1>2, <1>3, <1>4, <1>5, <1>6, <1>7, <1>8, <1>9, <1>10, <1>11, <1>12
     DEF WatchNext, Watcher

\* The inductive invariant of the watcher.
THEOREM WatchInvariance == WatchSpec => []WatchIInv
<1>1. WatchInit => WatchIInv
  BY WatchInitType
     DEF WatchInit, WatchIInv, ActInv, StopHasCause, AnswerTellsTruth
<1>2. WatchIInv /\ [WatchNext]_watchVars => WatchIInv'
  BY WatchNextInv
<1>3. QED
  BY <1>1, <1>2, PTL DEF WatchSpec

\* A pid is stopped and a path emptied only after the second look found that
\* process to be a threat, in a mode that enforces, for any interleaving with
\* processes that exit, pids that are reused and files that are rewritten
\* (main.rs handle_process_started).
THEOREM StopsForCause == WatchSpec => []StopHasCause
<1>1. WatchIInv => StopHasCause
  BY DEF WatchIInv
<1>2. QED
  BY <1>1, WatchInvariance, PTL

\* "Stopped and quarantined" is answered only when the file was moved, and no
\* stop stays without an answer (main.rs handle_process_started).
THEOREM AnswersTellTruth == WatchSpec => []AnswerTellsTruth
<1>1. WatchIInv => AnswerTellsTruth
  BY DEF WatchIInv
<1>2. QED
  BY <1>1, WatchInvariance, PTL

==============================================================================
