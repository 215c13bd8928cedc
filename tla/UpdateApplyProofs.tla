-------------------------- MODULE UpdateApplyProofs --------------------------
(***************************************************************************)
(* Proofs about UpdateApply, for every set of files, versions and packages *)
(* and every bound on the failures and deaths.                             *)
(***************************************************************************)
EXTENDS UpdateApply, TLAPS

\* The steps before the installation is touched, and those at which the staging
\* directory holds the package.
Untouched == {"unstage", "stage", "clear", "create", "snapshot", "stop"}
Staged == {"clear", "create", "snapshot", "stop", "apply"}

\* An update at work is of a package that was verified, and says at its end how
\* it ended.
JobInv ==
    /\ pc \in Untouched \cup {"apply", "start", "report"} => job.op = "apply"
    /\ pc # "idle" => job.op # "none"
    /\ job.op = "apply" /\ pc # "idle" =>
         /\ job.target \in Packages
         /\ job.target.signer = job.target.key
         /\ PayloadHashesMatch(job.target)
    /\ pc = "start" => job.outcome \in {"installed", "restored", "mixed"}
    /\ pc = "report" => job.outcome = "installed"
    /\ pc \in {"snapshot", "restore", "recopy"} => job.todo \subseteq Covered

\* Nothing of an earlier attempt is left in staging when the archive goes there.
StagingInv ==
    /\ pc = "stage" => staging[job.target.id] = NothingStaged
    /\ pc \in Staged => staging[job.target.id] = Payload(job.target)

\* The snapshot of the job is there from its creation on, and is what the
\* installation is as far as it has been copied.
SnapshotInv ==
    /\ pc = "create" => snapshot[job.key] = NoSnapshot
    /\ pc \in {"snapshot", "stop", "apply", "restore", "unlink", "recopy"} =>
         snapshot[job.key] # NoSnapshot
    /\ pc = "snapshot" => \A f \in Covered \ job.todo :
                            snapshot[job.key][f] = install[f]
    /\ pc = "stop" => \A f \in Covered : snapshot[job.key][f] = install[f]

\* The files that have been copied are as they shall be.
Installed(todo) == \A f \in Contained(Payload(job.target)) \ todo :
                     install[f] = Payload(job.target)[f]
Restored(S) == \A f \in S : snapshot[job.key][f] # Absent =>
                              install[f] = snapshot[job.key][f]
CopyInv ==
    /\ pc = "apply" => Installed(job.todo)
    /\ pc = "restore" => Restored(Executables \ job.todo)
    /\ pc = "unlink" => Restored(Executables)
    /\ pc = "recopy" => Restored(Covered \ job.todo)
    /\ pc \in {"start", "report"} /\ job.outcome = "installed" => Installed({})
    /\ pc = "start" /\ job.outcome = "restored" => Restored(Covered)

IInv == /\ TypeOK /\ JobInv /\ StagingInv /\ SnapshotInv /\ CopyInv
        /\ RecoveryPoint /\ AnswerTellsTruth

-----------------------------------------------------------------------------
(* Helpers *)

\* The order of the snapshot directories names each of them once.
Listed(s, v) == \E i \in 1..Len(s) : s[i] = v
Once(s) == \A i, j \in 1..Len(s) : s[i] = s[j] => i = j
OrderOK(s) == s \in Seq(Versions) /\ Once(s)

\* Taking a directory out of the order leaves the others.
LEMMA OthersOrder ==
    ASSUME OrderOK(ages), NEW key \in Versions
    PROVE  /\ OrderOK(Others(key))
           /\ \A v : Listed(Others(key), v) <=> v # key /\ Listed(ages, v)
<1>1. CASE \E i \in 1..Len(ages) : ages[i] = key
  <2> DEFINE k == CHOOSE i \in 1..Len(ages) : ages[i] = key
             left == SubSeq(ages, 1, k - 1)
             right == SubSeq(ages, k + 1, Len(ages))
  <2>1. k \in 1..Len(ages) /\ ages[k] = key
    BY <1>1
  <2>2. Others(key) = left \o right
    BY <1>1 DEF Others
  <2> HIDE DEF k
  <2>3. ages \in Seq(Versions) /\ Len(ages) \in Nat
    BY DEF OrderOK
  <2>4. /\ left \in Seq(Versions) /\ Len(left) = k - 1
        /\ \A i \in 1..(k - 1) : left[i] = ages[i]
    BY <2>1, <2>3
  <2>5. /\ right \in Seq(Versions) /\ Len(right) = Len(ages) - k
        /\ \A i \in 1..(Len(ages) - k) : right[i] = ages[i + k]
    BY <2>1, <2>3
  <2> HIDE DEF left, right
  <2>6. /\ left \o right \in Seq(Versions)
        /\ Len(left \o right) = Len(ages) - 1
        /\ \A i \in 1..(Len(ages) - 1) :
             (left \o right)[i] = IF i < k THEN ages[i] ELSE ages[i + 1]
    <3>1. /\ left \o right \in Seq(Versions)
          /\ Len(left \o right) = Len(ages) - 1
      <4>1. /\ left \o right \in Seq(Versions)
            /\ Len(left \o right) = Len(left) + Len(right)
        BY <2>4, <2>5
      <4>2. QED
        BY <2>1, <2>3, <2>4, <2>5, <4>1
    <3>2. ASSUME NEW i \in 1..(Len(ages) - 1)
          PROVE  (left \o right)[i] = IF i < k THEN ages[i] ELSE ages[i + 1]
      <4>1. CASE i < k
        BY <2>1, <2>3, <2>4, <2>5, <4>1
      <4>2. CASE ~(i < k)
        <5>1. (left \o right)[i] = right[i - (k - 1)]
          BY <2>1, <2>3, <2>4, <2>5, <4>2
        <5>2. i - (k - 1) \in 1..(Len(ages) - k) /\ i - (k - 1) + k = i + 1
          BY <2>1, <2>3, <4>2
        <5>3. right[i - (k - 1)] = ages[i + 1]
          BY <2>5, <5>2
        <5>4. QED
          BY <4>2, <5>1, <5>3
      <4>3. QED
        BY <4>1, <4>2
    <3>3. QED
      BY <3>1, <3>2
  <2>7. OrderOK(left \o right)
    <3>1. ASSUME NEW i \in 1..(Len(ages) - 1), NEW j \in 1..(Len(ages) - 1),
                 (left \o right)[i] = (left \o right)[j]
          PROVE  i = j
      <4> DEFINE At(x) == IF x < k THEN x ELSE x + 1
      <4>1. /\ At(i) \in 1..Len(ages) /\ At(j) \in 1..Len(ages)
            /\ At(i) = At(j) => i = j
        BY <2>1, <2>3
      <4>2. ages[At(i)] = ages[At(j)]
        BY <2>6, <3>1
      <4>3. QED
        BY <2>3, <4>1, <4>2 DEF OrderOK, Once
    <3>2. QED
      BY <2>6, <3>1 DEF OrderOK, Once
  <2>8. ASSUME NEW v
        PROVE  Listed(left \o right, v) <=> v # key /\ Listed(ages, v)
    <3>1. ASSUME Listed(left \o right, v) PROVE v # key /\ Listed(ages, v)
      BY <2>1, <2>3, <2>6, <3>1 DEF OrderOK, Once, Listed
    <3>2. ASSUME v # key, Listed(ages, v) PROVE Listed(left \o right, v)
      <4>1. PICK i \in 1..Len(ages) : ages[i] = v
        BY <3>2 DEF Listed
      <4>2. CASE i < k
        <5>1. i \in 1..(Len(ages) - 1)
          BY <2>1, <2>3, <4>2
        <5>2. (left \o right)[i] = v
          BY <2>6, <4>1, <4>2, <5>1
        <5>3. QED
          BY <2>6, <5>1, <5>2 DEF Listed
      <4>3. CASE i > k
        <5>1. i - 1 \in 1..(Len(ages) - 1) /\ ~(i - 1 < k) /\ (i - 1) + 1 = i
          BY <2>1, <2>3, <4>3
        <5>2. (left \o right)[i - 1] = v
          BY <2>6, <4>1, <5>1
        <5>3. QED
          BY <2>6, <5>1, <5>2 DEF Listed
      <4>4. QED
        BY <2>1, <2>3, <3>2, <4>1, <4>2, <4>3
    <3>3. QED
      BY <3>1, <3>2
  <2>9. QED
    BY <2>2, <2>7, <2>8
<1>2. CASE ~\E i \in 1..Len(ages) : ages[i] = key
  <2>1. Others(key) = ages
    BY <1>2 DEF Others
  <2>2. QED
    BY <1>2, <2>1 DEF Listed
<1>3. QED
  BY <1>1, <1>2

\* Adding one that is not in the order adds that one.
LEMMA AppendOrder ==
    ASSUME NEW s, OrderOK(s), NEW key \in Versions, ~Listed(s, key)
    PROVE  /\ OrderOK(Append(s, key))
           /\ \A v : Listed(Append(s, key), v) <=> v = key \/ Listed(s, v)
<1>1. s \in Seq(Versions) /\ Len(s) \in Nat
  BY DEF OrderOK
<1>2. /\ Append(s, key) \in Seq(Versions)
      /\ Len(Append(s, key)) = Len(s) + 1
      /\ \A i \in 1..Len(s) : Append(s, key)[i] = s[i]
      /\ Append(s, key)[Len(s) + 1] = key
  BY <1>1
<1>3. OrderOK(Append(s, key))
  BY <1>1, <1>2 DEF OrderOK, Once, Listed
<1>4. ASSUME NEW v
      PROVE  Listed(Append(s, key), v) <=> v = key \/ Listed(s, v)
  BY <1>1, <1>2 DEF Listed
<1>5. QED
  BY <1>3, <1>4

\* A job stays a job when its next step changes, or when it has answered.
LEMMA GotoJob ==
    ASSUME TypeOK, NEW next \in PCs, NEW todo \in SUBSET Files, Goto(next, todo)
    PROVE  /\ pc' = next /\ pc' \in PCs /\ job' \in Jobs
           /\ job'.todo = todo /\ job'.op = job.op /\ job'.key = job.key
           /\ job'.target = job.target /\ job'.outcome = job.outcome
  BY DEF TypeOK, Goto, Jobs

LEMMA FinishJob ==
    ASSUME TypeOK,
           NEW outcome \in {"refused", "installed", "unlogged", "restored", "mixed", "aborted",
                            "rolled_back", "rollback_failed", "died"},
           Finish(outcome)
    PROVE  /\ pc' = "idle" /\ pc' \in PCs /\ job' \in Jobs
           /\ job'.todo = {} /\ job'.op = job.op /\ job'.key = job.key
           /\ job'.target = job.target /\ job'.outcome = outcome
  BY DEF TypeOK, Finish, Jobs, Outcomes, PCs

\* What the sections have to do with each other.
LEMMA Sections ==
    /\ Covered \subseteq Files /\ Covered = Executables \cup Engine
    /\ Executables \cap Engine = {}
    /\ App \in Files /\ Services \subseteq Files
  BY UpdateAssumption DEF Covered, Files, Executables, Services

\* The snapshot of a version that has one is a table of its files.
LEMMA SnapshotType ==
    ASSUME TypeOK, NEW v \in Versions, snapshot[v] # NoSnapshot
    PROVE  snapshot[v] \in [Covered -> Cells]
  BY DEF TypeOK

\* The type invariant and the order of the snapshots.
LEMMA TypeOrder ==
    ASSUME TypeOK
    PROVE  /\ OrderOK(ages)
           /\ \A v \in Versions : snapshot[v] # NoSnapshot <=> Listed(ages, v)
  BY DEF TypeOK, OrderOK, Once, Listed

\* The bound on failures is kept.
LEMMA FailsType == ASSUME TypeOK, Fails PROVE failures' \in 0..MaxFailures
  BY UpdateAssumption DEF TypeOK, Fails

\* An archive leaves of each file what was there, or what its last entry has.
LEMMA ExtractedType ==
    ASSUME NEW package, IsPackage(package), NEW there \in [Files -> Cells]
    PROVE  /\ Extracted(package, there) \in [Files -> Cells]
           /\ \A f \in Files :
                IF Entries(package, f) = {}
                THEN Extracted(package, there)[f] = there[f]
                ELSE /\ Len(package.entries[f]) \in Entries(package, f)
                     /\ Extracted(package, there)[f] =
                          package.entries[f][Len(package.entries[f])].content
<1>1. ASSUME NEW f \in Files, Entries(package, f) # {}
      PROVE  /\ Len(package.entries[f]) \in Entries(package, f)
             /\ package.entries[f][Len(package.entries[f])].content \in Cells
  <2> DEFINE Kept == [at : Nat, exact : BOOLEAN, content : Cells \ {Absent}]
  <2>1. package.entries[f] \in Seq(Kept)
    BY DEF IsPackage
  <2> HIDE DEF Kept
  <2>2. Len(package.entries[f]) \in Entries(package, f)
    BY <1>1, <2>1 DEF Entries
  <2>3. package.entries[f][Len(package.entries[f])] \in Kept
    BY <2>1, <2>2 DEF Entries
  <2>4. QED
    BY <2>2, <2>3 DEF Kept
<1>2. QED
  BY <1>1 DEF Extracted

\* What the invariant says of a running updater does not concern one that has
\* answered, and the other way round.
LEMMA Idle ==
    ASSUME pc' = "idle"
    PROVE  /\ JobInv' /\ StagingInv' /\ SnapshotInv' /\ CopyInv'
           /\ RecoveryPoint'
  BY DEF JobInv, StagingInv, SnapshotInv, CopyInv, RecoveryPoint,
         Untouched, Staged

LEMMA Busy ==
    ASSUME pc' # "idle" PROVE AnswerTellsTruth'
  BY DEF AnswerTellsTruth

\* An update that gives up while it prepares has touched nothing.
LEMMA Aborted ==
    ASSUME IInv, pc \in Untouched, Finish("aborted"), UNCHANGED <<install, before>>
    PROVE  AnswerTellsTruth'
<1>1. pc' = "idle" /\ job'.outcome = "aborted"
  BY FinishJob DEF IInv
<1>2. install = before
  BY DEF IInv, RecoveryPoint, JobInv, Untouched
<1>3. QED
  BY <1>1, <1>2 DEF AnswerTellsTruth

\* The initial installation is complete and has no snapshot.
LEMMA InitInv == Init => IInv
<1> SUFFICES ASSUME Init PROVE IInv
  OBVIOUS
<1>1. PICK v \in Versions :
        /\ install = [f \in Files |-> IF f \in Initial[v] THEN v ELSE Absent]
        /\ install[App] = v
        /\ appVersion = v
        /\ job = [op |-> "none", key |-> v, target |-> NoPackage, todo |-> {},
                  outcome |-> "none"]
  BY DEF Init
<1>2. install \in [Files -> Cells]
  BY <1>1 DEF Cells
<1>3. staging \in [Ids -> [Files -> Cells]]
  BY DEF Init, NothingStaged, Cells
<1>4. job \in Jobs
  BY <1>1 DEF Jobs, Outcomes
<1>5. services \subseteq Registered /\ stopping = {}
  BY DEF Init, Startable
<1>6. ages \in Seq(Versions) /\ Len(ages) = 0
  BY DEF Init
<1>7. 0 \in 0..MaxFailures /\ 0 \in 0..MaxDeaths
  BY UpdateAssumption
<1>8. TypeOK
  <2>1. /\ snapshot = [w \in Versions |-> NoSnapshot]
        /\ snapshot \in [Versions -> [Covered -> Cells] \cup {NoSnapshot}]
    BY DEF Init
  <2>2. before \in [Files -> Cells]
    BY <1>2 DEF Init
  <2>3. \A w \in Versions : snapshot[w] # NoSnapshot <=>
                              \E i \in 1..Len(ages) : ages[i] = w
    BY <1>6, <2>1
  <2>4. \A i, j \in 1..Len(ages) : ages[i] = ages[j] => i = j
    BY <1>6
  <2>5. appVersion \in Versions /\ pc \in PCs /\ afterUpdate \in BOOLEAN
        /\ failures = 0 /\ deaths = 0
    BY <1>1 DEF Init, PCs
  <2>6. QED
    BY <1>2, <1>3, <1>4, <1>5, <1>6, <1>7, <2>1, <2>2, <2>3, <2>4, <2>5 DEF TypeOK
<1>9. /\ JobInv /\ StagingInv /\ SnapshotInv /\ CopyInv
      /\ RecoveryPoint
  BY <1>1 DEF Init, JobInv, StagingInv, SnapshotInv, CopyInv,
              RecoveryPoint, Untouched, Staged
<1>10. AnswerTellsTruth
  BY <1>1 DEF AnswerTellsTruth
<1>11. QED
  BY <1>8, <1>9, <1>10 DEF IInv

-----------------------------------------------------------------------------
(* The steps of an update *)

\* A package that verifies is complete and signed; one that does not leaves
\* everything alone.
LEMMA ApplyInv ==
    ASSUME IInv, NEW package \in Packages, NEW development \in BOOLEAN,
           Apply(package, development)
    PROVE  IInv'
<1>1. UNCHANGED <<install, staging, snapshot, ages, services, stopping, appVersion, failures,
                  deaths>>
  BY DEF Apply
<1>2. /\ before' = install
      /\ afterUpdate' \in BOOLEAN
      /\ TypeOK
  BY DEF Apply, IInv
<1>3. CASE Verified(package, appVersion, Policy(development))
  <2>1. /\ pc' = "unstage"
        /\ job' = [op |-> "apply", key |-> appVersion, target |-> package,
                   todo |-> {}, outcome |-> "none"]
    BY <1>3 DEF Apply
  <2>2. TypeOK'
    <3>1. job' \in Jobs
      BY <1>2, <2>1 DEF TypeOK, Jobs, Outcomes
    <3>2. QED
      BY <1>1, <1>2, <2>1, <3>1 DEF TypeOK, PCs
  <2>3. PayloadHashesMatch(package)
    BY <1>3 DEF Verified
  <2>4. package.signer = package.key
    BY <1>3 DEF Verified, SignatureValid
  <2>5. JobInv'
    BY <2>1, <2>3, <2>4 DEF JobInv, Untouched
  <2>6. StagingInv' /\ SnapshotInv' /\ CopyInv'
    BY <2>1 DEF StagingInv, Staged, SnapshotInv, CopyInv
  <2>7. RecoveryPoint'
    BY <1>1, <1>2, <2>1 DEF RecoveryPoint
  <2>8. QED
    BY <2>1, <2>2, <2>5, <2>6, <2>7, Busy DEF IInv
<1>4. CASE ~Verified(package, appVersion, Policy(development))
  <2>1. /\ pc' = "idle"
        /\ job' = [op |-> "apply", key |-> appVersion, target |-> NoPackage,
                   todo |-> {}, outcome |-> "refused"]
    BY <1>4 DEF Apply
  <2>2. TypeOK'
    <3>1. job' \in Jobs
      BY <1>2, <2>1 DEF TypeOK, Jobs, Outcomes
    <3>2. QED
      BY <1>1, <1>2, <2>1, <3>1 DEF TypeOK, PCs
  <2>3. AnswerTellsTruth'
    BY <1>1, <1>2, <2>1 DEF AnswerTellsTruth
  <2>4. QED
    BY <2>1, <2>2, <2>3, Idle DEF IInv
<1>5. QED
  BY <1>3, <1>4

\* The package of an update at work, and what its pieces are.
LEMMA TargetType ==
    ASSUME IInv, job.op = "apply", pc # "idle"
    PROVE  /\ job.key \in Versions /\ job.target \in Packages
           /\ job.target.id \in Ids /\ IsPackage(job.target)
           /\ Payload(job.target) \in [Files -> Cells]
<1>1. job.target \in Packages /\ job.key \in Versions
  BY DEF IInv, TypeOK, JobInv, Jobs
<1>2. IsPackage(job.target)
  BY <1>1, UpdateAssumption
<1>3. NothingStaged \in [Files -> Cells]
  BY DEF NothingStaged, Cells
<1>4. Payload(job.target) \in [Files -> Cells]
  BY <1>2, <1>3, ExtractedType DEF Payload
<1>5. job.target.id \in Ids
  BY <1>2 DEF IsPackage, Ids
<1>6. QED
  BY <1>1, <1>2, <1>4, <1>5

\* What clearing or filling the staging directory leaves, complete or not.
LEMMA PartlyType ==
    ASSUME IInv, job.op = "apply", pc # "idle", PartlyUnstaged \/ PartlyStaged
    PROVE  staging' \in [Ids -> [Files -> Cells]]
<1> USE TargetType
<1>1. staging \in [Ids -> [Files -> Cells]] /\ Absent \in Cells /\ Torn \in Cells
  BY DEF IInv, TypeOK, Cells
<1>2. CASE PartlyUnstaged
  BY <1>1, <1>2 DEF PartlyUnstaged
<1>3. CASE PartlyStaged
  BY <1>1, <1>3 DEF PartlyStaged
<1>4. QED
  BY <1>2, <1>3

\* ClearStaging: what an earlier attempt left goes away.
LEMMA ClearStagingInv == ASSUME IInv, ClearStaging PROVE IInv'
<1>1. /\ pc = "unstage" /\ job.op = "apply" /\ TypeOK
      /\ UNCHANGED <<install, snapshot, ages, services, stopping, appVersion, deaths, before,
                     afterUpdate>>
  BY DEF ClearStaging, IInv, JobInv, Untouched
<1>2. CASE /\ Works
           /\ staging' = [staging EXCEPT ![job.target.id] = NothingStaged]
           /\ Goto("stage", {})
  <2>1. pc' = "stage" /\ job' \in Jobs /\ UNCHANGED <<job.op, job.key, job.target>>
    BY <1>1, <1>2, GotoJob DEF PCs
  <2>2. TypeOK'
    <3>1. NothingStaged \in [Files -> Cells]
      BY DEF NothingStaged, Cells
    <3>2. staging' \in [Ids -> [Files -> Cells]]
      BY <1>1, <1>2, <3>1 DEF TypeOK
    <3>3. QED
      BY <1>1, <1>2, <2>1, <3>2 DEF TypeOK, PCs, Works
  <2>3. JobInv'
    BY <1>1, <2>1 DEF IInv, JobInv
  <2>4. StagingInv'
    BY <1>1, <1>2, <2>1, TargetType DEF IInv, TypeOK, StagingInv, Staged
  <2>5. SnapshotInv' /\ CopyInv'
    BY <2>1 DEF SnapshotInv, CopyInv
  <2>6. RecoveryPoint'
    BY <1>1, <2>1 DEF IInv, RecoveryPoint, Untouched
  <2>7. QED
    BY <2>1, <2>2, <2>3, <2>4, <2>5, <2>6, Busy DEF IInv
<1>3. CASE Fails /\ PartlyUnstaged /\ Finish("aborted")
  <2>1. pc' = "idle" /\ pc' \in PCs /\ job' \in Jobs
    BY <1>1, <1>3, FinishJob
  <2>2. TypeOK'
    BY <1>1, <1>3, <2>1, PartlyType, FailsType DEF TypeOK
  <2>3. QED
    BY <1>1, <1>3, <2>1, <2>2, Idle, Aborted DEF IInv, Untouched
<1>4. QED
  BY <1>2, <1>3 DEF ClearStaging

\* Extract: staging is empty before, and the package's afterwards.
LEMMA ExtractInv == ASSUME IInv, Extract PROVE IInv'
<1>1. /\ pc = "stage" /\ job.op = "apply" /\ TypeOK
      /\ UNCHANGED <<install, snapshot, ages, services, stopping, appVersion, deaths, before,
                     afterUpdate>>
  BY DEF Extract, IInv, JobInv, Untouched
<1>2. CASE /\ Works
           /\ staging' = [staging EXCEPT ![job.target.id] =
                            Extracted(job.target, @)]
           /\ Goto("clear", {})
  <2>1. pc' = "clear" /\ job' \in Jobs /\ UNCHANGED <<job.op, job.key, job.target>>
    BY <1>1, <1>2, GotoJob DEF PCs
  <2>2. staging'[job.target.id] = Payload(job.target)
    <3>1. staging[job.target.id] = NothingStaged
      BY <1>1 DEF IInv, StagingInv
    <3>2. QED
      BY <1>1, <1>2, <3>1, TargetType DEF TypeOK, Payload
  <2>3. TypeOK'
    <3>1. staging' \in [Ids -> [Files -> Cells]]
      BY <1>1, <1>2, <2>2, TargetType DEF TypeOK
    <3>2. QED
      BY <1>1, <1>2, <2>1, <3>1 DEF TypeOK, PCs, Works
  <2>4. JobInv'
    BY <1>1, <2>1 DEF IInv, JobInv
  <2>5. StagingInv'
    BY <2>1, <2>2 DEF StagingInv
  <2>6. SnapshotInv' /\ CopyInv'
    BY <2>1 DEF SnapshotInv, CopyInv
  <2>7. RecoveryPoint'
    BY <1>1, <2>1 DEF IInv, RecoveryPoint, Untouched
  <2>8. QED
    BY <2>1, <2>3, <2>4, <2>5, <2>6, <2>7, Busy DEF IInv
<1>3. CASE Fails /\ PartlyStaged /\ Finish("aborted")
  <2>1. pc' = "idle" /\ pc' \in PCs /\ job' \in Jobs
    BY <1>1, <1>3, FinishJob
  <2>2. TypeOK'
    BY <1>1, <1>3, <2>1, PartlyType, FailsType DEF TypeOK
  <2>3. QED
    BY <1>1, <1>3, <2>1, <2>2, Idle, Aborted DEF IInv, Untouched
<1>4. QED
  BY <1>2, <1>3 DEF Extract

\* A snapshot that is removed half-way is still one, and the newest.
LEMMA PartlyRemovedType ==
    ASSUME TypeOK, job.key \in Versions, PartlyRemoved
    PROVE  /\ snapshot' \in [Versions -> [Covered -> Cells] \cup {NoSnapshot}]
           /\ OrderOK(ages')
           /\ \A v \in Versions : snapshot'[v] # NoSnapshot <=> Listed(ages', v)
<1>1. PICK gone \in SUBSET Covered :
        /\ snapshot[job.key] # NoSnapshot
        /\ snapshot' = [snapshot EXCEPT ![job.key] =
                          [f \in Covered |-> IF f \in gone THEN Absent ELSE @[f]]]
        /\ ages' = Append(Others(job.key), job.key)
  BY DEF PartlyRemoved
<1>2. snapshot \in [Versions -> [Covered -> Cells] \cup {NoSnapshot}]
  BY DEF TypeOK
<1>3. snapshot'[job.key] \in [Covered -> Cells]
  BY <1>1, <1>2, SnapshotType DEF Cells
<1>4. /\ OrderOK(ages')
      /\ \A v : Listed(ages', v) <=> v = job.key \/ Listed(ages, v)
  BY <1>1, TypeOrder, OthersOrder, AppendOrder
<1>5. snapshot'[job.key] # NoSnapshot
  BY <1>3, UpdateAssumption
<1>6. QED
  BY <1>1, <1>2, <1>3, <1>4, <1>5, TypeOrder

\* Nothing but the snapshots changes, and their order agrees with them.
LEMMA SnapshotsType ==
    ASSUME TypeOK, pc' \in PCs, job' \in Jobs, failures' \in 0..MaxFailures,
           deaths' \in 0..MaxDeaths,
           UNCHANGED <<install, staging, services, stopping, appVersion, before, afterUpdate>>,
           snapshot' \in [Versions -> [Covered -> Cells] \cup {NoSnapshot}],
           OrderOK(ages'),
           \A v \in Versions : snapshot'[v] # NoSnapshot <=> Listed(ages', v)
    PROVE  TypeOK'
  BY DEF TypeOK, OrderOK, Once, Listed

\* ClearSnapshot: an older snapshot of the version goes away.
LEMMA ClearSnapshotInv == ASSUME IInv, ClearSnapshot PROVE IInv'
<1>1. /\ pc = "clear" /\ job.op = "apply" /\ TypeOK
      /\ UNCHANGED <<install, staging, services, stopping, appVersion, deaths, before,
                     afterUpdate>>
  BY DEF ClearSnapshot, IInv, JobInv, Untouched
<1>2. job.key \in Versions
  BY <1>1 DEF TypeOK, Jobs
<1>3. CASE /\ Works
           /\ snapshot' = [snapshot EXCEPT ![job.key] = NoSnapshot]
           /\ ages' = Others(job.key)
           /\ Goto("create", {})
  <2>1. pc' = "create" /\ pc' \in PCs /\ job' \in Jobs
        /\ UNCHANGED <<job.op, job.key, job.target>>
    BY <1>1, <1>3, GotoJob DEF PCs
  <2>2. TypeOK'
    <3>1. snapshot' \in [Versions -> [Covered -> Cells] \cup {NoSnapshot}]
      BY <1>1, <1>2, <1>3 DEF TypeOK
    <3>2. \A v \in Versions : snapshot'[v] # NoSnapshot <=> Listed(ages', v)
      BY <1>1, <1>2, <1>3, TypeOrder, OthersOrder DEF TypeOK
    <3>3. failures' \in 0..MaxFailures /\ deaths' \in 0..MaxDeaths
      BY <1>1, <1>3 DEF TypeOK, Works
    <3>4. QED
      BY <1>1, <1>2, <1>3, <2>1, <3>1, <3>2, <3>3, TypeOrder, OthersOrder,
         SnapshotsType
  <2>3. JobInv'
    BY <1>1, <2>1 DEF IInv, JobInv
  <2>4. StagingInv'
    BY <1>1, <2>1 DEF IInv, StagingInv, Staged
  <2>5. SnapshotInv' /\ CopyInv'
    BY <1>1, <1>2, <1>3, <2>1 DEF TypeOK, SnapshotInv, CopyInv
  <2>6. RecoveryPoint'
    BY <1>1, <2>1 DEF IInv, RecoveryPoint, Untouched
  <2>7. QED
    BY <2>1, <2>2, <2>3, <2>4, <2>5, <2>6, Busy DEF IInv
<1>4. CASE Fails /\ PartlyRemoved /\ Finish("aborted")
  <2>1. pc' = "idle" /\ pc' \in PCs /\ job' \in Jobs
    BY <1>1, <1>4, FinishJob
  <2>2. TypeOK'
    <3>1. failures' \in 0..MaxFailures /\ deaths' \in 0..MaxDeaths
      BY <1>1, <1>4, FailsType DEF TypeOK
    <3>2. QED
      BY <1>1, <1>2, <1>4, <2>1, <3>1, PartlyRemovedType, SnapshotsType
  <2>3. QED
    BY <1>1, <1>4, <2>1, <2>2, Idle, Aborted DEF IInv, Untouched
<1>5. QED
  BY <1>3, <1>4 DEF ClearSnapshot

\* CreateSnapshot: an empty directory, and all that is installed to be copied.
LEMMA CreateSnapshotInv == ASSUME IInv, CreateSnapshot PROVE IInv'
<1> DEFINE new == {f \in Covered : install[f] # Absent}
<1>1. /\ pc = "create" /\ job.op = "apply" /\ TypeOK
      /\ UNCHANGED <<install, staging, services, stopping, appVersion, failures, deaths,
                     before, afterUpdate>>
      /\ snapshot' = [snapshot EXCEPT ![job.key] = [f \in Covered |-> Absent]]
      /\ ages' = Append(ages, job.key)
      /\ Goto("snapshot", new)
  BY DEF CreateSnapshot, IInv, JobInv, Untouched
<1>2. job.key \in Versions /\ snapshot[job.key] = NoSnapshot
  BY <1>1 DEF IInv, TypeOK, Jobs, SnapshotInv
<1>3. new \in SUBSET Files /\ new \subseteq Covered
  BY Sections
<1> HIDE DEF new
<1>4. pc' = "snapshot" /\ pc' \in PCs /\ job' \in Jobs /\ job'.todo = new
      /\ UNCHANGED <<job.op, job.key, job.target>>
  BY <1>1, <1>3, GotoJob DEF PCs
<1>5. [f \in Covered |-> Absent] \in [Covered -> Cells]
  BY DEF Cells
<1>6. [f \in Covered |-> Absent] # NoSnapshot
  BY <1>5, UpdateAssumption
<1>7. snapshot'[job.key] = [f \in Covered |-> Absent]
  BY <1>1, <1>2 DEF TypeOK
<1>8. TypeOK'
  <2>1. snapshot' \in [Versions -> [Covered -> Cells] \cup {NoSnapshot}]
    BY <1>1, <1>2, <1>5 DEF TypeOK
  <2>2. ~Listed(ages, job.key)
    BY <1>1, <1>2, TypeOrder
  <2>3. /\ OrderOK(ages')
        /\ \A v : Listed(ages', v) <=> v = job.key \/ Listed(ages, v)
    BY <1>1, <1>2, <2>2, TypeOrder, AppendOrder
  <2>4. \A v \in Versions : snapshot'[v] # NoSnapshot <=> Listed(ages', v)
    BY <1>1, <1>2, <1>6, <2>3, TypeOrder DEF TypeOK
  <2>5. failures' \in 0..MaxFailures /\ deaths' \in 0..MaxDeaths
    BY <1>1 DEF TypeOK
  <2>6. QED
    BY <1>1, <1>4, <2>1, <2>3, <2>4, <2>5, SnapshotsType
<1>9. JobInv'
  BY <1>1, <1>3, <1>4 DEF IInv, JobInv
<1>10. StagingInv'
  BY <1>1, <1>4 DEF IInv, StagingInv, Staged
<1>11. SnapshotInv'
  <2>1. \A f \in Covered \ new : install[f] = Absent
    BY DEF new
  <2>2. QED
    BY <1>1, <1>4, <1>6, <1>7, <2>1 DEF SnapshotInv
<1>12. CopyInv'
  BY <1>4 DEF CopyInv
<1>13. RecoveryPoint'
  BY <1>1, <1>4 DEF IInv, RecoveryPoint, Untouched
<1>14. QED
  BY <1>4, <1>8, <1>9, <1>10, <1>11, <1>12, <1>13, Busy DEF IInv

\* CopyToSnapshot: one more file is in the snapshot as it is installed.
LEMMA CopyToSnapshotInv ==
    ASSUME IInv, NEW f \in Files, CopyToSnapshot(f) PROVE IInv'
<1>1. /\ pc = "snapshot" /\ job.op = "apply" /\ TypeOK /\ f \in job.todo
      /\ UNCHANGED <<install, staging, ages, services, stopping, appVersion, deaths, before,
                     afterUpdate>>
  BY DEF CopyToSnapshot, Firsts, IInv, JobInv, Untouched
<1>2. /\ job.key \in Versions /\ job.todo \subseteq Covered /\ f \in Covered
      /\ snapshot[job.key] # NoSnapshot
      /\ \A g \in Covered \ job.todo : snapshot[job.key][g] = install[g]
  BY <1>1 DEF IInv, TypeOK, Jobs, JobInv, SnapshotInv
<1>3. /\ snapshot[job.key] \in [Covered -> Cells]
      /\ install[f] \in Cells /\ Absent \in Cells /\ Torn \in Cells
  BY <1>1, <1>2, SnapshotType DEF TypeOK, Cells
<1>4. ASSUME NEW cell \in Cells, snapshot' = [snapshot EXCEPT ![job.key][f] = cell],
             pc' \in PCs, job' \in Jobs, failures' \in 0..MaxFailures
      PROVE  /\ TypeOK' /\ snapshot'[job.key] # NoSnapshot
             /\ \A g \in Covered : snapshot'[job.key][g] =
                                     IF g = f THEN cell ELSE snapshot[job.key][g]
  <2>1. snapshot'[job.key] = [snapshot[job.key] EXCEPT ![f] = cell]
    BY <1>1, <1>2, <1>4 DEF TypeOK
  <2>2. snapshot'[job.key] \in [Covered -> Cells]
    BY <1>2, <1>3, <2>1
  <2>3. snapshot'[job.key] # NoSnapshot
    BY <2>2, UpdateAssumption
  <2>4. snapshot' \in [Versions -> [Covered -> Cells] \cup {NoSnapshot}]
    BY <1>1, <1>2, <1>4, <2>1, <2>2 DEF TypeOK
  <2>5. \A v \in Versions : snapshot'[v] # NoSnapshot <=> snapshot[v] # NoSnapshot
    BY <1>1, <1>2, <1>4, <2>3 DEF TypeOK
  <2>6. OrderOK(ages') /\ deaths' \in 0..MaxDeaths
    BY <1>1, TypeOrder DEF TypeOK
  <2>7. \A v \in Versions : snapshot'[v] # NoSnapshot <=> Listed(ages', v)
    BY <1>1, <2>5, TypeOrder
  <2>8. TypeOK'
    BY <1>1, <1>4, <2>4, <2>6, <2>7, SnapshotsType
  <2>9. QED
    BY <1>2, <1>3, <2>1, <2>3, <2>8
<1>5. CASE /\ Works
           /\ snapshot' = [snapshot EXCEPT ![job.key][f] = install[f]]
           /\ Goto("snapshot", job.todo \ {f})
  <2>1. /\ pc' = "snapshot" /\ pc' \in PCs /\ job' \in Jobs
        /\ job'.todo = job.todo \ {f} /\ UNCHANGED <<job.op, job.key, job.target>>
    BY <1>1, <1>5, GotoJob DEF PCs, TypeOK, Jobs
  <2>2. failures' \in 0..MaxFailures
    BY <1>1, <1>5 DEF TypeOK, Works
  <2>3. /\ TypeOK' /\ snapshot'[job.key] # NoSnapshot
        /\ \A g \in Covered : snapshot'[job.key][g] =
                                IF g = f THEN install[f] ELSE snapshot[job.key][g]
    BY <1>3, <1>4, <1>5, <2>1, <2>2
  <2>4. JobInv'
    BY <1>1, <1>2, <2>1 DEF IInv, JobInv
  <2>5. StagingInv'
    BY <1>1, <2>1 DEF IInv, StagingInv, Staged
  <2>6. SnapshotInv'
    BY <1>1, <1>2, <2>1, <2>3 DEF SnapshotInv
  <2>7. CopyInv'
    BY <2>1 DEF CopyInv
  <2>8. RecoveryPoint'
    BY <1>1, <2>1 DEF IInv, RecoveryPoint, Untouched
  <2>9. QED
    BY <2>1, <2>3, <2>4, <2>5, <2>6, <2>7, <2>8, Busy DEF IInv
<1>6. CASE /\ Fails
           /\ \E cell \in {Absent, Torn} :
                snapshot' = [snapshot EXCEPT ![job.key][f] = cell]
           /\ Finish("aborted")
  <2>1. pc' = "idle" /\ pc' \in PCs /\ job' \in Jobs
    BY <1>1, <1>6, FinishJob
  <2>2. TypeOK'
    BY <1>1, <1>3, <1>4, <1>6, <2>1, FailsType
  <2>3. QED
    BY <1>1, <1>6, <2>1, <2>2, Idle, Aborted DEF IInv, Untouched
<1>7. QED
  BY <1>5, <1>6 DEF CopyToSnapshot

\* SnapshotDone: the snapshot is the installation.
LEMMA SnapshotDoneInv == ASSUME IInv, SnapshotDone PROVE IInv'
<1>1. /\ pc = "snapshot" /\ job.op = "apply" /\ TypeOK /\ job.todo = {}
      /\ UNCHANGED <<install, staging, snapshot, ages, services, stopping, appVersion,
                     failures, deaths, before, afterUpdate>>
      /\ Goto("stop", {})
  BY DEF SnapshotDone, IInv, JobInv, Untouched
<1>2. pc' = "stop" /\ pc' \in PCs /\ job' \in Jobs
      /\ UNCHANGED <<job.op, job.key, job.target>>
  BY <1>1, GotoJob DEF PCs
<1>3. TypeOK'
  BY <1>1, <1>2 DEF TypeOK
<1>4. JobInv'
  BY <1>1, <1>2 DEF IInv, JobInv
<1>5. StagingInv'
  BY <1>1, <1>2 DEF IInv, StagingInv, Staged
<1>6. SnapshotInv'
  BY <1>1, <1>2 DEF IInv, SnapshotInv
<1>7. CopyInv'
  BY <1>2 DEF CopyInv
<1>8. RecoveryPoint'
  BY <1>1, <1>2 DEF IInv, RecoveryPoint, Untouched
<1>9. QED
  BY <1>2, <1>3, <1>4, <1>5, <1>6, <1>7, <1>8, Busy DEF IInv

\* StopServices: whatever services stop, everything staged is to be copied, and
\* the snapshot is what was installed before.
LEMMA StopServicesInv == ASSUME IInv, StopServices PROVE IInv'
<1> DEFINE all == Contained(staging[job.target.id])
<1>1. /\ pc = "stop" /\ job.op = "apply" /\ TypeOK
      /\ UNCHANGED <<install, staging, snapshot, ages, appVersion, failures, deaths,
                     before, afterUpdate>>
      /\ Goto("apply", all)
      /\ services' = services /\ stopping' \subseteq services
  BY DEF StopServices, TypeOK, IInv, JobInv, Untouched
<1>2. all \in SUBSET Files /\ all = Contained(Payload(job.target))
  BY <1>1 DEF Contained, IInv, StagingInv, Staged
<1> HIDE DEF all
<1>3. pc' = "apply" /\ pc' \in PCs /\ job' \in Jobs /\ job'.todo = all
      /\ UNCHANGED <<job.op, job.key, job.target>>
  BY <1>1, <1>2, GotoJob DEF PCs
<1>4. TypeOK'
  BY <1>1, <1>3 DEF TypeOK
<1>5. JobInv'
  BY <1>1, <1>3 DEF IInv, JobInv
<1>6. StagingInv'
  BY <1>1, <1>3 DEF IInv, StagingInv, Staged
<1>7. SnapshotInv'
  BY <1>1, <1>3 DEF IInv, SnapshotInv
<1>8. CopyInv'
  BY <1>2, <1>3 DEF CopyInv, Installed
<1>9. RecoveryPoint'
  BY <1>1, <1>3 DEF IInv, SnapshotInv, RecoveryPoint
<1>10. QED
  BY <1>3, <1>4, <1>5, <1>6, <1>7, <1>8, <1>9, Busy DEF IInv

\* A change of the installation keeps the types.
LEMMA InstallType ==
    ASSUME TypeOK, pc' \in PCs, job' \in Jobs, failures' \in 0..MaxFailures,
           deaths' \in 0..MaxDeaths, install' \in [Files -> Cells],
           UNCHANGED <<staging, snapshot, ages, services, stopping, appVersion, before,
                       afterUpdate>>
    PROVE  TypeOK'
  BY DEF TypeOK

\* One file of the installation gets a new content, or is torn.
LEMMA OneFile ==
    ASSUME TypeOK, NEW f \in Files, NEW cell \in Cells,
           install' = [install EXCEPT ![f] = cell]
    PROVE  /\ install' \in [Files -> Cells]
           /\ \A g \in Files : install'[g] = IF g = f THEN cell ELSE install[g]
  BY DEF TypeOK

\* CopyToInstall: one more file of the package is in place, or the way back
\* begins with the executables the snapshot has.
LEMMA CopyToInstallInv ==
    ASSUME IInv, NEW f \in Files, CopyToInstall(f) PROVE IInv'
<1>1. /\ pc = "apply" /\ job.op = "apply" /\ TypeOK /\ f \in job.todo
      /\ UNCHANGED <<staging, snapshot, ages, services, stopping, appVersion, deaths, before,
                     afterUpdate>>
  BY DEF CopyToInstall, Firsts, IInv, JobInv
<1>2. /\ staging[job.target.id] = Payload(job.target)
      /\ Payload(job.target) \in [Files -> Cells]
      /\ job.key \in Versions /\ snapshot[job.key] # NoSnapshot
  BY <1>1, TargetType DEF IInv, StagingInv, Staged, SnapshotInv
<1>3. CASE /\ Works
           /\ install' = [install EXCEPT ![f] = staging[job.target.id][f]]
           /\ Goto("apply", job.todo \ {f})
  <2>1. /\ pc' = "apply" /\ pc' \in PCs /\ job' \in Jobs
        /\ job'.todo = job.todo \ {f} /\ UNCHANGED <<job.op, job.key, job.target>>
    BY <1>1, <1>3, GotoJob DEF PCs, TypeOK, Jobs
  <2>2. /\ install' \in [Files -> Cells]
        /\ \A g \in Files : install'[g] = IF g = f THEN Payload(job.target)[f]
                                                   ELSE install[g]
    BY <1>1, <1>2, <1>3, OneFile
  <2>3. TypeOK'
    BY <1>1, <1>3, <2>1, <2>2, InstallType DEF TypeOK, Works
  <2>4. JobInv'
    BY <1>1, <2>1 DEF IInv, JobInv
  <2>5. StagingInv'
    BY <1>1, <2>1 DEF IInv, StagingInv
  <2>6. SnapshotInv'
    BY <1>1, <1>2, <2>1 DEF SnapshotInv
  <2>7. CopyInv'
    BY <1>1, <2>1, <2>2 DEF IInv, CopyInv, Installed, Contained
  <2>8. RecoveryPoint'
    BY <1>1, <2>1 DEF IInv, RecoveryPoint, Untouched
  <2>9. QED
    BY <2>1, <2>3, <2>4, <2>5, <2>6, <2>7, <2>8, Busy DEF IInv
<1>4. CASE /\ Fails
           /\ \E cell \in {install[f], Torn} :
                install' = [install EXCEPT ![f] = cell]
           /\ BeginRestore(job.key)
  <2> DEFINE back == Present(snapshot[job.key]) \cap Executables
  <2>1. back \in SUBSET Files /\ back \subseteq Covered
    BY Sections
  <2>2. /\ pc' = "restore" /\ pc' \in PCs /\ job' \in Jobs
        /\ job'.todo = back /\ UNCHANGED <<job.op, job.key, job.target>>
    BY <1>1, <1>4, <2>1 DEF BeginRestore, PCs, TypeOK, Jobs
  <2>3. install' \in [Files -> Cells]
    BY <1>1, <1>4, OneFile DEF TypeOK, Cells
  <2>4. TypeOK'
    BY <1>1, <1>4, <2>2, <2>3, InstallType, FailsType DEF TypeOK
  <2>5. JobInv'
    BY <1>1, <2>1, <2>2 DEF IInv, JobInv, Untouched
  <2>6. StagingInv'
    BY <2>2 DEF StagingInv, Staged
  <2>7. SnapshotInv'
    BY <1>1, <1>2, <2>2 DEF SnapshotInv
  <2>8. CopyInv'
    BY <1>1, <2>2, Sections DEF CopyInv, Restored, Present
  <2>9. RecoveryPoint'
    BY <1>1, <2>2 DEF IInv, RecoveryPoint, Untouched
  <2>10. QED
    BY <2>2, <2>4, <2>5, <2>6, <2>7, <2>8, <2>9, Busy DEF IInv
<1>5. QED
  BY <1>3, <1>4 DEF CopyToInstall

\* ApplyDone: every file of the package is in place.
LEMMA ApplyDoneInv == ASSUME IInv, ApplyDone PROVE IInv'
<1>1. /\ pc = "apply" /\ job.op = "apply" /\ TypeOK /\ job.todo = {}
      /\ UNCHANGED <<install, staging, snapshot, ages, services, stopping, appVersion,
                     failures, deaths, before, afterUpdate>>
  BY DEF ApplyDone, IInv, JobInv
<1>2. /\ pc' = "start" /\ pc' \in PCs /\ job' \in Jobs /\ job'.outcome = "installed"
      /\ UNCHANGED <<job.op, job.key, job.target>>
  BY <1>1 DEF ApplyDone, PCs, TypeOK, Jobs, Outcomes
<1>3. TypeOK'
  BY <1>1, <1>2 DEF TypeOK
<1>4. JobInv'
  BY <1>1, <1>2 DEF IInv, JobInv
<1>5. StagingInv' /\ SnapshotInv'
  BY <1>2 DEF StagingInv, Staged, SnapshotInv
<1>6. CopyInv'
  BY <1>1, <1>2 DEF IInv, CopyInv, Installed
<1>7. RecoveryPoint'
  BY <1>1, <1>2 DEF IInv, RecoveryPoint, Untouched
<1>8. QED
  BY <1>2, <1>3, <1>4, <1>5, <1>6, <1>7, Busy DEF IInv

\* Services that start or stop concern no type but their own.
LEMMA ServicesType ==
    ASSUME TypeOK, pc' \in PCs, job' \in Jobs, failures' \in 0..MaxFailures,
           services' \subseteq Registered, stopping' \subseteq services',
           appVersion' \in Versions,
           UNCHANGED <<install, staging, snapshot, ages, deaths, before, afterUpdate>>
    PROVE  TypeOK'
  BY DEF TypeOK

\* StartServices: the answer of an update that was undone is so; one that was
\* applied has its report to write.
LEMMA StartServicesInv == ASSUME IInv, StartServices PROVE IInv'
<1>1. /\ pc = "start" /\ job.op = "apply" /\ TypeOK
      /\ job.outcome \in {"installed", "restored", "mixed"}
      /\ UNCHANGED <<install, staging, snapshot, ages, stopping, appVersion, failures,
                     deaths, before, afterUpdate>>
      /\ failures' \in 0..MaxFailures /\ appVersion' \in Versions
  BY DEF StartServices, IInv, JobInv, TypeOK
<1>2. services' \subseteq Registered /\ stopping' \subseteq services'
  BY <1>1 DEF StartServices, Startable, TypeOK
<1>3. CASE job.outcome = "installed"
  <2>1. /\ pc' = "report" /\ pc' \in PCs /\ job' \in Jobs
        /\ UNCHANGED <<job.op, job.key, job.target, job.outcome>>
    BY <1>1, <1>3, GotoJob DEF StartServices, PCs
  <2>2. TypeOK'
    BY <1>1, <1>2, <2>1, ServicesType
  <2>3. JobInv'
    BY <1>1, <1>3, <2>1 DEF IInv, JobInv, Untouched
  <2>4. StagingInv' /\ SnapshotInv'
    BY <2>1 DEF StagingInv, Staged, SnapshotInv
  <2>5. CopyInv'
    BY <1>1, <1>3, <2>1 DEF IInv, CopyInv, Installed
  <2>6. RecoveryPoint'
    BY <1>1, <2>1 DEF IInv, RecoveryPoint
  <2>7. QED
    BY <2>1, <2>2, <2>3, <2>4, <2>5, <2>6, Busy DEF IInv
<1>4. CASE job.outcome # "installed"
  <2>1. /\ pc' = "idle" /\ pc' \in PCs /\ job' \in Jobs
        /\ UNCHANGED <<job.op, job.key, job.target, job.outcome>>
    BY <1>1, <1>4, FinishJob DEF StartServices
  <2>2. TypeOK'
    BY <1>1, <1>2, <2>1, ServicesType
  <2>3. job.outcome = "restored" =>
          \A f \in Covered : before[f] # Absent => install[f] = before[f]
    BY <1>1 DEF IInv, CopyInv, Restored, RecoveryPoint
  <2>4. AnswerTellsTruth'
    BY <1>1, <1>4, <2>1, <2>3 DEF AnswerTellsTruth
  <2>5. QED
    BY <2>1, <2>2, <2>4, Idle DEF IInv
<1>5. QED
  BY <1>3, <1>4

\* WriteReport: everything is in place, whether the report was written or not.
LEMMA WriteReportInv == ASSUME IInv, WriteReport PROVE IInv'
<1>1. /\ pc = "report" /\ job.outcome = "installed" /\ TypeOK /\ Installed({})
      /\ UNCHANGED <<install, staging, snapshot, ages, services, stopping, appVersion,
                     deaths, before, afterUpdate>>
      /\ failures' \in 0..MaxFailures
  BY FailsType DEF WriteReport, Works, IInv, JobInv, CopyInv, TypeOK
<1>2. PICK outcome \in {"installed", "unlogged"} : Finish(outcome)
  BY DEF WriteReport
<1>3. /\ pc' = "idle" /\ pc' \in PCs /\ job' \in Jobs
      /\ UNCHANGED <<job.op, job.key, job.target>>
      /\ job'.outcome \in {"installed", "unlogged"}
  BY <1>1, <1>2, FinishJob
<1>4. services \subseteq Registered /\ stopping \subseteq services
      /\ appVersion \in Versions
  BY <1>1 DEF TypeOK
<1>5. TypeOK'
  BY <1>1, <1>3, <1>4, ServicesType
<1>6. AnswerTellsTruth'
  BY <1>1, <1>3 DEF AnswerTellsTruth, Installed
<1>7. QED
  BY <1>3, <1>5, <1>6, Idle DEF IInv

-----------------------------------------------------------------------------
(* The steps of a restore *)

\* Rollback takes the newest snapshot there is.
LEMMA RollbackInv == ASSUME IInv, Rollback PROVE IInv'
<1> DEFINE key == ages[Len(ages)]
           back == Present(snapshot[key]) \cap Executables
<1>1. /\ pc = "idle" /\ TypeOK /\ ages # <<>>
      /\ UNCHANGED <<install, staging, snapshot, ages, services, stopping, appVersion,
                     failures, deaths>>
      /\ before' = install
      /\ afterUpdate' \in BOOLEAN
      /\ pc' = "restore"
      /\ job' = [op |-> "rollback", key |-> key, target |-> NoPackage,
                 todo |-> back, outcome |-> "none"]
  BY DEF Rollback, IInv
<1>2. key \in Versions /\ snapshot[key] # NoSnapshot
  <2>1. Len(ages) \in 1..Len(ages) /\ ages \in Seq(Versions)
    BY <1>1 DEF TypeOK
  <2>2. key \in Versions /\ Listed(ages, key)
    BY <2>1 DEF Listed
  <2>3. QED
    BY <1>1, <2>2, TypeOrder
<1>3. back \in SUBSET Files /\ back \subseteq Covered
  BY Sections
<1>4. \A f \in Executables \ back : snapshot[key][f] = Absent
  BY Sections DEF Present
<1> HIDE DEF back, key
<1>5. job' \in Jobs
  BY <1>1, <1>2, <1>3 DEF Jobs, Outcomes
<1>6. TypeOK'
  BY <1>1, <1>5 DEF TypeOK, PCs
<1>7. JobInv'
  BY <1>1, <1>3 DEF JobInv, Untouched
<1>8. StagingInv' /\ SnapshotInv'
  BY <1>1, <1>2 DEF StagingInv, Staged, SnapshotInv
<1>9. CopyInv'
  BY <1>1, <1>4 DEF CopyInv, Restored
<1>10. RecoveryPoint'
  BY <1>1 DEF RecoveryPoint
<1>11. QED
  BY <1>1, <1>6, <1>7, <1>8, <1>9, <1>10, Busy DEF IInv

\* EndRestore answers a rollback, and sends an update on to start the services.
LEMMA EndRestoreInv ==
    ASSUME IInv, pc \in {"restore", "unlink", "recopy"}, TypeOK,
           NEW done \in BOOLEAN, EndRestore(done),
           install' \in [Files -> Cells], failures' \in 0..MaxFailures,
           UNCHANGED <<staging, snapshot, ages, services, stopping, appVersion, deaths, before,
                       afterUpdate>>,
           done => Restored(Covered) /\ UNCHANGED install
    PROVE  IInv'
<1>1. job.op \in {"apply", "rollback"}
  BY DEF IInv, TypeOK, Jobs, JobInv
<1>2. deaths' \in 0..MaxDeaths
  BY DEF TypeOK
<1>3. CASE job.op = "rollback"
  <2>1. /\ pc' = "idle" /\ pc' \in PCs /\ job' \in Jobs
        /\ UNCHANGED <<job.op, job.key, job.target>>
        /\ job'.outcome = IF done THEN "rolled_back" ELSE "rollback_failed"
    BY <1>3, FinishJob DEF EndRestore
  <2>2. TypeOK'
    BY <1>2, <2>1, InstallType
  <2>3. AnswerTellsTruth'
    BY <2>1 DEF AnswerTellsTruth, Restored
  <2>4. QED
    BY <2>1, <2>2, <2>3, Idle DEF IInv
<1>4. CASE job.op = "apply"
  <2>1. /\ pc' = "start" /\ pc' \in PCs /\ job' \in Jobs
        /\ UNCHANGED <<job.op, job.key, job.target>>
        /\ job'.outcome = IF done THEN "restored" ELSE "mixed"
    <3>1. /\ job' = [job EXCEPT !.todo = {},
                                !.outcome = IF done THEN "restored" ELSE "mixed"]
          /\ pc' = "start"
      BY <1>4 DEF EndRestore
    <3>2. job \in Jobs
      BY DEF TypeOK
    <3>3. QED
      BY <3>1, <3>2 DEF Jobs, Outcomes, PCs
  <2>2. TypeOK'
    BY <1>2, <2>1, InstallType
  <2>3. JobInv'
    BY <1>4, <2>1 DEF IInv, JobInv
  <2>4. StagingInv' /\ SnapshotInv'
    BY <2>1 DEF StagingInv, Staged, SnapshotInv
  <2>5. CopyInv'
    BY <2>1 DEF CopyInv, Restored
  <2>6. RecoveryPoint'
    BY <1>4, <2>1 DEF IInv, RecoveryPoint, Untouched
  <2>7. QED
    BY <2>1, <2>2, <2>3, <2>4, <2>5, <2>6, Busy DEF IInv
<1>5. QED
  BY <1>1, <1>3, <1>4

\* RestoreFile: one more file is as the snapshot has it.
LEMMA RestoreFileInv ==
    ASSUME IInv, NEW f \in Files, RestoreFile(f) PROVE IInv'
<1>1. /\ pc \in {"restore", "recopy"} /\ TypeOK /\ f \in job.todo
      /\ UNCHANGED <<staging, snapshot, ages, services, stopping, appVersion, deaths, before,
                     afterUpdate>>
  BY DEF RestoreFile, Firsts, IInv
<1>2. /\ job.key \in Versions /\ snapshot[job.key] # NoSnapshot
      /\ job.todo \subseteq Covered /\ f \in Covered
      /\ snapshot[job.key][f] \in Cells
  BY <1>1, SnapshotType DEF IInv, TypeOK, Jobs, JobInv, SnapshotInv
<1>3. CASE /\ Works
           /\ install' = [install EXCEPT ![f] = snapshot[job.key][f]]
           /\ Goto(pc, job.todo \ {f})
  <2>1. /\ pc' = pc /\ pc' \in PCs /\ job' \in Jobs
        /\ job'.todo = job.todo \ {f} /\ UNCHANGED <<job.op, job.key, job.target>>
    BY <1>1, <1>3, GotoJob DEF PCs, TypeOK, Jobs
  <2>2. /\ install' \in [Files -> Cells]
        /\ \A g \in Files : install'[g] = IF g = f THEN snapshot[job.key][f]
                                                   ELSE install[g]
    BY <1>1, <1>2, <1>3, OneFile
  <2>3. TypeOK'
    BY <1>1, <1>3, <2>1, <2>2, InstallType DEF TypeOK, Works
  <2>4. JobInv'
    BY <1>1, <1>2, <2>1 DEF IInv, JobInv
  <2>5. StagingInv' /\ SnapshotInv'
    BY <1>1, <1>2, <2>1 DEF StagingInv, Staged, SnapshotInv
  <2>6. CopyInv'
    BY <1>1, <2>1, <2>2, Sections DEF IInv, CopyInv, Restored
  <2>7. RecoveryPoint'
    BY <1>1, <2>1 DEF IInv, RecoveryPoint, Untouched
  <2>8. QED
    BY <1>1, <2>1, <2>3, <2>4, <2>5, <2>6, <2>7, Busy DEF IInv
<1>4. CASE /\ Fails
           /\ \E cell \in {install[f], Torn} :
                install' = [install EXCEPT ![f] = cell]
           /\ EndRestore(FALSE)
  <2>1. install' \in [Files -> Cells]
    BY <1>1, <1>4, OneFile DEF TypeOK, Cells
  <2>2. QED
    BY <1>1, <1>4, <2>1, EndRestoreInv, FailsType
<1>5. QED
  BY <1>3, <1>4 DEF RestoreFile

\* RestoreDone: after the executables comes engine/, and then the end.
LEMMA RestoreDoneInv == ASSUME IInv, RestoreDone PROVE IInv'
<1>1. /\ TypeOK /\ job.todo = {}
      /\ UNCHANGED <<install, staging, snapshot, ages, services, stopping, appVersion,
                     failures, deaths, before, afterUpdate>>
      /\ install' \in [Files -> Cells] /\ failures' \in 0..MaxFailures
  BY DEF RestoreDone, IInv, TypeOK
<1>2. CASE pc = "restore" /\ AfterExecutables
  <2>1. Restored(Executables)
    BY <1>1, <1>2 DEF IInv, CopyInv
  <2>2. CASE Present(snapshot[job.key]) \cap Engine # {}
    <3>1. /\ pc' = "unlink" /\ pc' \in PCs /\ job' \in Jobs
          /\ UNCHANGED <<job.op, job.key, job.target>>
      BY <1>1, <1>2, <2>2, GotoJob DEF AfterExecutables, PCs
    <3>2. TypeOK'
      BY <1>1, <3>1, InstallType DEF TypeOK
    <3>3. JobInv'
      BY <1>2, <3>1 DEF IInv, JobInv, Untouched
    <3>4. StagingInv' /\ SnapshotInv'
      BY <1>1, <1>2, <3>1 DEF IInv, StagingInv, Staged, SnapshotInv
    <3>5. CopyInv'
      BY <1>1, <2>1, <3>1 DEF CopyInv, Restored
    <3>6. RecoveryPoint'
      BY <1>1, <1>2, <3>1 DEF IInv, RecoveryPoint, Untouched
    <3>7. QED
      BY <3>1, <3>2, <3>3, <3>4, <3>5, <3>6, Busy DEF IInv
  <2>3. CASE Present(snapshot[job.key]) \cap Engine = {}
    <3>1. Restored(Covered)
      BY <2>1, <2>3, Sections DEF Restored, Present
    <3>2. EndRestore(TRUE)
      BY <1>2, <2>3 DEF AfterExecutables
    <3>3. QED
      BY <1>1, <1>2, <3>1, <3>2, EndRestoreInv
  <2>4. QED
    BY <2>2, <2>3
<1>3. CASE pc = "recopy" /\ EndRestore(TRUE)
  <2>1. Restored(Covered)
    BY <1>1, <1>3 DEF IInv, CopyInv
  <2>2. QED
    BY <1>1, <1>3, <2>1, EndRestoreInv
<1>4. QED
  BY <1>2, <1>3 DEF RestoreDone

\* UnlinkEngine: the executables stay as they are, and engine/ is to be copied.
LEMMA UnlinkEngineInv == ASSUME IInv, UnlinkEngine PROVE IInv'
<1>1. /\ pc = "unlink" /\ TypeOK
      /\ UNCHANGED <<staging, snapshot, ages, services, stopping, appVersion, deaths, before,
                     afterUpdate>>
  BY DEF UnlinkEngine, IInv
<1>2. CASE /\ Works
           /\ install' = [f \in Files |-> IF f \in Engine THEN Absent
                                                          ELSE install[f]]
           /\ Goto("recopy", Present(snapshot[job.key]) \cap Engine)
  <2> DEFINE back == Present(snapshot[job.key]) \cap Engine
  <2>1. back \in SUBSET Files /\ back \subseteq Covered
    BY Sections
  <2>2. \A f \in Engine \ back : snapshot[job.key][f] = Absent
    BY Sections DEF Present
  <2> HIDE DEF back
  <2>3. Goto("recopy", back)
    BY <1>2 DEF back
  <2>4. /\ pc' = "recopy" /\ pc' \in PCs /\ job' \in Jobs
        /\ job'.todo = back /\ UNCHANGED <<job.op, job.key, job.target>>
    BY <1>1, <2>1, <2>3, GotoJob DEF PCs
  <2>5. install' \in [Files -> Cells]
    BY <1>1, <1>2 DEF TypeOK, Cells
  <2>6. TypeOK'
    BY <1>1, <1>2, <2>4, <2>5, InstallType DEF TypeOK, Works
  <2>7. JobInv'
    BY <1>1, <2>1, <2>4 DEF IInv, JobInv, Untouched
  <2>8. StagingInv' /\ SnapshotInv'
    BY <1>1, <2>4 DEF IInv, StagingInv, Staged, SnapshotInv
  <2>9. CopyInv'
    <3>1. \A f \in Executables : install'[f] = install[f]
      BY <1>2, Sections
    <3>2. Restored(Executables)
      BY <1>1 DEF IInv, CopyInv
    <3>3. \A f \in Covered \ job'.todo : snapshot'[job'.key][f] # Absent =>
                                         install'[f] = snapshot'[job'.key][f]
      BY <1>1, <2>2, <2>4, <3>1, <3>2, Sections DEF Restored
    <3>4. QED
      BY <2>4, <3>3 DEF CopyInv, Restored
  <2>10. RecoveryPoint'
    BY <1>1, <2>4 DEF IInv, RecoveryPoint, Untouched
  <2>11. QED
    BY <2>4, <2>6, <2>7, <2>8, <2>9, <2>10, Busy DEF IInv
<1>3. CASE /\ Fails
           /\ \E gone \in SUBSET Engine :
                install' = [f \in Files |-> IF f \in gone THEN Absent
                                                          ELSE install[f]]
           /\ EndRestore(FALSE)
  <2>1. install' \in [Files -> Cells]
    BY <1>1, <1>3 DEF TypeOK, Cells
  <2>2. QED
    BY <1>1, <1>3, <2>1, EndRestoreInv, FailsType
<1>4. QED
  BY <1>2, <1>3 DEF UnlinkEngine

-----------------------------------------------------------------------------
(* What happens around the updater *)

\* An updater that dies leaves what it had at hand torn, and everything typed.
LEMMA DieInv == ASSUME IInv, Die PROVE IInv'
<1>1. /\ pc # "idle" /\ TypeOK /\ Finish("died")
      /\ UNCHANGED <<services, stopping, appVersion, failures, before, afterUpdate>>
      /\ failures' \in 0..MaxFailures /\ deaths' \in 0..MaxDeaths
  BY UpdateAssumption DEF Die, IInv, TypeOK
<1>2. pc' = "idle" /\ pc' \in PCs /\ job' \in Jobs /\ job'.outcome = "died"
  BY <1>1, FinishJob
<1>3. AnswerTellsTruth'
  BY <1>2 DEF AnswerTellsTruth
<1>4. job.key \in Versions /\ Torn \in Cells /\ Absent \in Cells
  BY <1>1 DEF TypeOK, Jobs, Cells
<1>5. SUFFICES TypeOK'
  BY <1>2, <1>3, Idle DEF IInv
<1>6. CASE UNCHANGED <<install, staging, snapshot, ages>>
  BY <1>1, <1>2, <1>6, InstallType DEF TypeOK
<1>7. CASE /\ pc \in {"unstage", "stage"}
           /\ PartlyUnstaged \/ PartlyStaged
           /\ UNCHANGED <<install, snapshot, ages>>
  <2>1. job.op = "apply"
    BY <1>7 DEF IInv, JobInv, Untouched
  <2>2. staging' \in [Ids -> [Files -> Cells]]
    BY <1>1, <1>7, <2>1, PartlyType
  <2>3. QED
    BY <1>1, <1>2, <1>7, <2>2 DEF TypeOK
<1>8. CASE PartlyRemoved /\ UNCHANGED <<install, staging>>
  BY <1>1, <1>2, <1>4, <1>8, PartlyRemovedType, SnapshotsType
<1>9. CASE \E f \in Firsts(job.todo, SnapshotRank) :
             /\ pc = "snapshot"
             /\ snapshot' = [snapshot EXCEPT ![job.key][f] = Torn]
             /\ UNCHANGED <<install, staging, ages>>
  <2>1. PICK f \in job.todo : snapshot' = [snapshot EXCEPT ![job.key][f] = Torn]
    BY <1>9 DEF Firsts
  <2>2. snapshot[job.key] \in [Covered -> Cells] /\ f \in Covered
    BY <1>1, <1>4, <1>9, SnapshotType DEF IInv, JobInv, SnapshotInv
  <2>3. snapshot'[job.key] = [snapshot[job.key] EXCEPT ![f] = Torn]
    BY <1>1, <1>4, <2>1 DEF TypeOK
  <2>4. snapshot'[job.key] \in [Covered -> Cells]
    BY <1>4, <2>2, <2>3
  <2>5. snapshot'[job.key] # NoSnapshot
    BY <2>4, UpdateAssumption
  <2>6. snapshot' \in [Versions -> [Covered -> Cells] \cup {NoSnapshot}]
    BY <1>1, <1>4, <2>1, <2>3, <2>4 DEF TypeOK
  <2>7. \A v \in Versions : snapshot'[v] # NoSnapshot <=> snapshot[v] # NoSnapshot
    BY <1>1, <1>4, <1>9, <2>1, <2>2, <2>5, UpdateAssumption DEF TypeOK
  <2>8. \A v \in Versions : snapshot'[v] # NoSnapshot <=> Listed(ages', v)
    BY <1>1, <1>9, <2>7, TypeOrder
  <2>9. QED
    BY <1>1, <1>2, <1>9, <2>6, <2>8, TypeOrder, SnapshotsType
<1>10. CASE \E f \in job.todo :
              /\ pc \in {"apply", "restore", "recopy"}
              /\ f \in Firsts(job.todo, IF pc = "apply" THEN SectionRank
                                                        ELSE SnapshotRank)
              /\ install' = [install EXCEPT ![f] = Torn]
              /\ UNCHANGED <<staging, snapshot, ages>>
  <2>1. PICK f \in Files : install' = [install EXCEPT ![f] = Torn]
    BY <1>1, <1>10 DEF TypeOK, Jobs
  <2>2. install' \in [Files -> Cells]
    BY <1>1, <1>4, <2>1, OneFile
  <2>3. QED
    BY <1>1, <1>2, <1>10, <2>2, InstallType
<1>11. CASE \E gone \in SUBSET Engine :
              /\ pc = "unlink"
              /\ install' = [f \in Files |-> IF f \in gone THEN Absent
                                                        ELSE install[f]]
              /\ UNCHANGED <<staging, snapshot, ages>>
  <2>1. install' \in [Files -> Cells]
    BY <1>1, <1>4, <1>11 DEF TypeOK
  <2>2. QED
    BY <1>1, <1>2, <1>11, <2>1, InstallType
<1>12. QED
  BY <1>6, <1>7, <1>8, <1>9, <1>10, <1>11 DEF Die

\* The updater's invariant says nothing of the services but their types, and
\* nothing of the app's version.
LEMMA AroundInv ==
    ASSUME IInv, TypeOK',
           UNCHANGED <<install, staging, snapshot, ages, pc, job, before>>
    PROVE  IInv'
  BY DEF IInv, JobInv, StagingInv, SnapshotInv, CopyInv, Installed, Restored,
         RecoveryPoint, AnswerTellsTruth, Contained

\* A service that was told to stop does, at any step of the updater or later.
LEMMA ServiceStopsInv ==
    ASSUME IInv, NEW s \in Registered, ServiceStops(s) PROVE IInv'
<1>1. TypeOK'
  BY DEF ServiceStops, IInv, TypeOK
<1>2. QED
  BY <1>1, AroundInv DEF ServiceStops

\* Restarting the app or the machine while no updater runs.
LEMMA RestartInv == ASSUME IInv, RestartApp \/ Reboot PROVE IInv'
<1>1. TypeOK'
  BY DEF RestartApp, Reboot, IInv, TypeOK, Startable
<1>2. QED
  BY <1>1, AroundInv DEF RestartApp, Reboot

\* Every step preserves the invariant.
LEMMA NextInv == IInv /\ [Next]_vars => IInv'
<1> SUFFICES ASSUME IInv, [Next]_vars PROVE IInv'
  OBVIOUS
<1>1. CASE UNCHANGED vars
  <2>1. TypeOK'
    BY <1>1 DEF vars, IInv, TypeOK
  <2>2. QED
    BY <1>1, <2>1, AroundInv DEF vars
<1>2. CASE Update
  BY <1>2, ClearStagingInv, ExtractInv, ClearSnapshotInv, CreateSnapshotInv,
     SnapshotDoneInv, StopServicesInv, ApplyDoneInv, StartServicesInv,
     WriteReportInv, RestoreDoneInv, UnlinkEngineInv, CopyToSnapshotInv, CopyToInstallInv,
     RestoreFileInv DEF Update
<1>3. QED
  BY <1>1, <1>2, ApplyInv, RollbackInv, DieInv, ServiceStopsInv, RestartInv DEF Next

\* The inductive invariant: what every step of the updater knows of the
\* staging directory, the snapshot and the installation.
THEOREM Invariance == Spec => []IInv
<1>1. Init => IInv
  BY InitInv
<1>2. IInv /\ [Next]_vars => IInv'
  BY NextInv
<1>3. QED
  BY <1>1, <1>2, PTL DEF Spec

\* Type correctness: every variable keeps its type, and the order of the
\* snapshots names exactly the directories that are there (rollback.rs
\* restore_latest_snapshot).
THEOREM TypeCorrect == Spec => []TypeOK
<1>1. IInv => TypeOK
  BY DEF IInv
<1>2. QED
  BY <1>1, Invariance, PTL

\* At every step of an update, of any package and after any history of failed
\* copies, dead updaters and rollbacks, what was installed before is either still
\* there or in a complete snapshot (rollback.rs create_snapshot).
THEOREM AlwaysAWayBack == Spec => []RecoveryPoint
<1>1. IInv => RecoveryPoint
  BY DEF IInv
<1>2. QED
  BY <1>1, Invariance, PTL

\* The files that are copied over the installation are the ones the signed
\* manifest lists, whatever an earlier attempt left in the staging directory
\* (update_verifier.rs verify_package, update_applier.rs apply_package).
THEOREM CopiesOnlySigned == Spec => []OnlySignedIsCopied
<1>1. ASSUME IInv PROVE OnlySignedIsCopied
  <2>1. SUFFICES ASSUME job.op = "apply", pc = "apply"
                 PROVE  OnlySignedIsCopied
    BY DEF OnlySignedIsCopied
  <2>2. /\ IsPackage(job.target) /\ job.target.signer = job.target.key
        /\ PayloadHashesMatch(job.target)
        /\ staging[job.target.id] = Payload(job.target)
    BY <1>1, <2>1, TargetType DEF IInv, JobInv, StagingInv, Staged
  <2>3. NothingStaged \in [Files -> Cells]
    BY DEF NothingStaged, Cells
  <2>4. ASSUME NEW f \in Contained(staging[job.target.id])
        PROVE  /\ job.target.listed[f] # Absent
               /\ \E i \in Entries(job.target, f) :
                    /\ staging[job.target.id][f] = job.target.entries[f][i].content
                    /\ Entries(job.target, f) = {i} =>
                         staging[job.target.id][f] = job.target.listed[f]
    <3>1. f \in Files /\ Entries(job.target, f) # {}
      BY <2>2, <2>3, <2>4, ExtractedType DEF Contained, Payload, NothingStaged
    <3>2. f \in Contained(job.target.listed)
      BY <2>2, <3>1 DEF PayloadHashesMatch
    <3>3. PICK k \in Entries(job.target, f) :
            job.target.entries[f][k].content = job.target.listed[f]
      BY <2>2, <3>2 DEF PayloadHashesMatch
    <3>4. PICK i \in Entries(job.target, f) :
            staging[job.target.id][f] = job.target.entries[f][i].content
      BY <2>2, <2>3, <3>1, ExtractedType DEF Payload
    <3>5. QED
      BY <3>2, <3>3, <3>4 DEF Contained
  <2>5. QED
    BY <2>2, <2>4 DEF OnlySignedIsCopied
<1>2. QED
  BY <1>1, Invariance, PTL

\* What the updater reports of an update or a rollback is so (update_applier.rs
\* apply_package, its report; main.rs).
THEOREM AnswersTellTruth == Spec => []AnswerTellsTruth
<1>1. IInv => AnswerTellsTruth
  BY DEF IInv
<1>2. QED
  BY <1>1, Invariance, PTL
==============================================================================
