---------------------------- MODULE ScanLoopProofs ----------------------------
(***************************************************************************)
(* Proofs about ScanLoop, for every set of files, contents and locations,  *)
(* every verdict of the engine and every limit of the quick scan.          *)
(***************************************************************************)
EXTENDS ScanLoop, FiniteSetTheorems, TLAPS

\* An entry is there to look at; the scan is past an entry of a location; a file
\* has been judged.
Walked(l, i) == <<l, i>> \notin Pruned \cup Links
Past(l, i) == l < location \/ (l = location /\ i < entry)
Done(f) == \E pair \in judged : pair[1] = f

\* As long as nothing counts as skipped, a full scan has every file it is past
\* still to do, or has judged it.
WalkInv ==
    /\ kind = "full" /\ skipped = 0 =>
         \A l \in 1..Len(Locations) : \A i \in 1..Len(Locations[l]) :
           Walked(l, i) /\ Past(l, i) =>
             todo[Locations[l][i]] > 0 \/ Done(Locations[l][i])
    /\ pc # "walk" => location > Len(Locations)

\* What was judged and is of concern is at hand or in the report, and is at hand
\* as it was judged.
JudgedInv ==
    /\ pc = "judged" => /\ <<current.file, current.content>> \in judged
                        /\ current.status = "detected"
    /\ threats = <<>> /\ pc # "judged" =>
         \A pair \in judged : Verdict[pair[2]] = "clean"

\* The files that are still to do, as often as they were collected, are the
\* difference between two of the report's counters.
Pending(t) == {p \in Files \X Nat : p[2] \in 1..t[p[1]]}
PendingInv ==
    /\ IsFiniteSet(Pending(todo))
    /\ scanned + Cardinality(Pending(todo)) = total
    /\ pc = "done" /\ kind = "quick" => \A f \in Files : todo[f] = 0

StatusInv == status # "running" <=> pc = "done"

IInv == /\ TypeOK /\ WalkInv /\ JudgedInv /\ PendingInv /\ StatusInv
        /\ CleanMeansJudged /\ ReportAddsUp /\ QuarantineHasCause

-----------------------------------------------------------------------------
(* Helpers *)

\* One file more to do, and one less.
LEMMA PendingMore ==
    ASSUME NEW t \in [Files -> Nat], NEW f \in Files, IsFiniteSet(Pending(t)),
           NEW u, u = [t EXCEPT ![f] = t[f] + 1]
    PROVE  /\ u \in [Files -> Nat] /\ IsFiniteSet(Pending(u))
           /\ Cardinality(Pending(u)) = Cardinality(Pending(t)) + 1
<1>1. /\ u \in [Files -> Nat] /\ u[f] = t[f] + 1 /\ t[f] \in Nat
      /\ \A g \in Files \ {f} : u[g] = t[g]
  OBVIOUS
<1>2. \A n \in Nat : n \in 1..u[f] <=> n \in 1..t[f] \/ n = t[f] + 1
  BY <1>1
<1>3. \A p \in Files \X Nat :
        p \in Pending(u) <=> p \in Pending(t) \/ p = <<f, t[f] + 1>>
  <2>1. SUFFICES ASSUME NEW g \in Files, NEW n \in Nat
                 PROVE  n \in 1..u[g] <=> n \in 1..t[g] \/ (g = f /\ n = t[f] + 1)
    BY DEF Pending
  <2>2. CASE g = f
    BY <1>2, <2>2
  <2>3. CASE g # f
    BY <1>1, <2>3
  <2>4. QED
    BY <2>2, <2>3
<1>4. Pending(u) \subseteq Files \X Nat /\ Pending(t) \subseteq Files \X Nat
  BY DEF Pending
<1>5. <<f, t[f] + 1>> \in Files \X Nat /\ <<f, t[f] + 1>> \notin Pending(t)
  BY <1>1 DEF Pending
<1>6. Pending(u) = Pending(t) \cup {<<f, t[f] + 1>>}
  BY <1>3, <1>4, <1>5
<1>7. /\ IsFiniteSet(Pending(t) \cup {<<f, t[f] + 1>>})
      /\ Cardinality(Pending(t) \cup {<<f, t[f] + 1>>}) = Cardinality(Pending(t)) + 1
  <2> DEFINE x == <<f, t[f] + 1>>
  <2> HIDE DEF x
  <2>1. x \notin Pending(t)
    BY <1>5 DEF x
  <2>2. /\ IsFiniteSet(Pending(t) \cup {x})
        /\ Cardinality(Pending(t) \cup {x}) = Cardinality(Pending(t)) + 1
    BY <2>1, FS_AddElement
  <2>3. QED
    BY <2>2 DEF x
<1>8. QED
  BY <1>1, <1>6, <1>7

LEMMA PendingLess ==
    ASSUME NEW t \in [Files -> Nat], NEW f \in Files, IsFiniteSet(Pending(t)),
           t[f] > 0, NEW u, u = [t EXCEPT ![f] = t[f] - 1]
    PROVE  /\ u \in [Files -> Nat] /\ IsFiniteSet(Pending(u))
           /\ Cardinality(Pending(t)) = Cardinality(Pending(u)) + 1
<1>1. u \in [Files -> Nat] /\ t = [u EXCEPT ![f] = u[f] + 1]
  <2>1. t[f] \in Nat /\ t[f] - 1 \in Nat
    OBVIOUS
  <2>2. /\ u \in [Files -> Nat] /\ u[f] = t[f] - 1
        /\ \A g \in Files \ {f} : u[g] = t[g]
    BY <2>1
  <2>3. u[f] + 1 = t[f]
    BY <2>1, <2>2
  <2>4. \A g \in Files : t[g] = [u EXCEPT ![f] = u[f] + 1][g]
    BY <2>2, <2>3
  <2>5. QED
    BY <2>2, <2>4
<1>2. IsFiniteSet(Pending(u))
  <2>1. \A g \in Files : u[g] \in Nat /\ t[g] \in Nat /\ u[g] <= t[g]
    OBVIOUS
  <2>2. \A g \in Files : \A n \in Nat : n \in 1..u[g] => n \in 1..t[g]
    BY <2>1
  <2>3. Pending(u) \subseteq Pending(t)
    BY <2>2 DEF Pending
  <2>4. QED
    BY <2>3, FS_Subset
<1>3. QED
  BY <1>1, <1>2, PendingMore

\* The report's list after one more threat.
LEMMA ThreatsMore ==
    ASSUME TypeOK, NEW threat \in Threats, threats' = Append(threats, threat)
    PROVE  /\ threats' \in Seq(Threats) /\ Len(threats') = Len(threats) + 1
           /\ threats'[Len(threats) + 1] = threat
           /\ \A i \in 1..Len(threats) : threats'[i] = threats[i]
           /\ \A i \in 1..Len(threats') : i \in 1..Len(threats) \/ i = Len(threats) + 1
           /\ Len(threats) + 1 \notin 1..Len(threats)
           /\ threats' # <<>> /\ Len(threats) \in Nat
<1>1. threats \in Seq(Threats) /\ Len(threats) \in Nat
  BY DEF TypeOK
<1>2. threats' \in Seq(Threats) /\ Len(threats') = Len(threats) + 1
  BY <1>1
<1>3. /\ threats'[Len(threats) + 1] = threat
      /\ \A i \in 1..Len(threats) : threats'[i] = threats[i]
  BY <1>1
<1>4. \A i \in 1..Len(threats') : i \in 1..Len(threats) \/ i = Len(threats) + 1
  BY <1>1, <1>2
<1>5. Len(threats) + 1 \notin 1..Len(threats)
  BY <1>1
<1>6. threats' # <<>>
  BY <1>1, <1>2
<1>7. QED
  BY <1>1, <1>2, <1>3, <1>4, <1>5, <1>6

\* What the list has, it keeps, as it is.
LEMMA ListedStay ==
    ASSUME TypeOK, NEW threat \in Threats, threats' = Append(threats, threat),
           NEW s
    PROVE  \A i \in Having(s) : i \in Having(s)' /\ threats'[i] = threats[i]
<1>1. Len(threats) \in Nat /\ Len(threats') = Len(threats) + 1
  BY ThreatsMore
<1>2. \A i \in 1..Len(threats) : i \in 1..Len(threats')
  BY <1>1
<1>3. \A i \in 1..Len(threats) : threats'[i] = threats[i]
  BY ThreatsMore
<1>4. QED
  BY <1>2, <1>3 DEF Having

LEMMA HavingFinite ==
    ASSUME TypeOK
    PROVE  /\ IsFiniteSet(Having("quarantined"))
           /\ Having("quarantined") \subseteq 1..Len(threats)
           /\ Cardinality(Having("quarantined")) \in Nat
<1>1. Len(threats) \in Nat /\ Having("quarantined") \subseteq 1..Len(threats)
  BY DEF TypeOK, Having
<1>2. IsFiniteSet(1..Len(threats))
  BY <1>1, FS_Interval
<1>3. QED
  BY <1>1, <1>2, FS_Subset, FS_CardinalityType

\* A threat is not "no threat".
LEMMA ThreatIsOne == NoThreat \notin Threats
<1>1. \A t \in Threats : "content" \in DOMAIN t
  BY DEF Threats
<1>2. "content" \notin DOMAIN NoThreat
  BY DEF NoThreat
<1>3. QED
  BY <1>1, <1>2

-----------------------------------------------------------------------------
(* The walk *)

\* The walk changes nothing that the report's statements are about.
LEMMA WalkKeeps ==
    ASSUME IInv, pc = "walk", pc' \in {"walk", "next"},
           UNCHANGED <<kind, actionMode, disk, allowlist, vault, orphans, current, scanned,
                       suspicious, quarantined, threats, status, changes, judged>>
    PROVE  /\ JudgedInv' /\ StatusInv' /\ CleanMeansJudged' /\ ReportAddsUp'
           /\ QuarantineHasCause'
<1>1. status = "running" /\ status' = "running"
  BY DEF IInv, StatusInv
<1>2. JudgedInv' /\ StatusInv' /\ CleanMeansJudged'
  BY <1>1 DEF IInv, JudgedInv, StatusInv, CleanMeansJudged
<1>3. ReportAddsUp' /\ QuarantineHasCause'
  BY DEF IInv, ReportAddsUp, QuarantineHasCause, Having
<1>4. QED
  BY <1>2, <1>3

\* An entry is passed over by rule: it is not one the walk looks at.
LEMMA PassInv ==
    ASSUME IInv, PassPruned \/ PassLink PROVE IInv'
<1>1. /\ pc = "walk" /\ location <= Len(Locations)
      /\ entry <= Len(Locations[location]) /\ entry' = entry + 1
      /\ ~Walked(location, entry)
      /\ UNCHANGED <<kind, actionMode, disk, allowlist, vault, orphans, pc,
                     location, todo, current, scanned, skipped, suspicious,
                     quarantined, total, threats, status, changes, judged>>
  BY DEF PassPruned, PassLink, AtEntry, Here, Walked
<1>2. TypeOK /\ WalkInv /\ PendingInv /\ Locations \in Seq(Seq(Files))
  BY ScanAssumption DEF IInv
<1>3. location \in 1..Len(Locations) /\ entry \in Nat \ {0}
  BY <1>1, <1>2 DEF TypeOK
<1>4. entry + 1 \in Nat \ {0} /\ Len(Locations[location]) \in Nat
  BY <1>2, <1>3
<1>5. TypeOK'
  BY <1>1, <1>2, <1>4 DEF TypeOK
<1>6. WalkInv'
  <2>1. SUFFICES ASSUME kind = "full", skipped = 0,
                        NEW l \in 1..Len(Locations), NEW i \in 1..Len(Locations[l]),
                        Walked(l, i), Past(l, i)'
                 PROVE  todo[Locations[l][i]] > 0 \/ Done(Locations[l][i])
    BY <1>1 DEF WalkInv, Done
  <2>2. Past(l, i)
    BY <1>1, <1>2, <1>3, <1>4, <2>1 DEF Past
  <2>3. QED
    BY <1>2, <2>1, <2>2 DEF WalkInv
<1>7. PendingInv'
  BY <1>1, <1>2 DEF PendingInv
<1>8. QED
  BY <1>1, <1>5, <1>6, <1>7, WalkKeeps DEF IInv

LEMMA CollectInv ==
    ASSUME IInv, Collect PROVE IInv'
<1> DEFINE f == Locations[location][entry]
<1>1. /\ pc = "walk" /\ location <= Len(Locations)
      /\ entry <= Len(Locations[location]) /\ entry' = entry + 1
      /\ \/ todo' = [todo EXCEPT ![f] = todo[f] + 1]
            /\ total' = total + 1 /\ UNCHANGED skipped
         \/ skipped' = skipped + 1 /\ UNCHANGED <<todo, total>>
      /\ UNCHANGED <<kind, actionMode, disk, allowlist, vault, orphans, pc, location,
                     current, scanned, suspicious, quarantined, threats, status,
                     changes, judged>>
  BY DEF Collect, AtEntry
<1>2. TypeOK /\ WalkInv /\ PendingInv /\ Locations \in Seq(Seq(Files))
  BY ScanAssumption DEF IInv
<1>3. /\ location \in 1..Len(Locations) /\ Len(Locations) \in Nat
      /\ Locations[location] \in Seq(Files)
  BY <1>1, <1>2 DEF TypeOK
<1>4. entry \in 1..Len(Locations[location]) /\ f \in Files /\ entry + 1 \in Nat \ {0}
  <2>1. entry \in Nat \ {0} /\ Len(Locations[location]) \in Nat
    BY <1>2, <1>3 DEF TypeOK
  <2>2. entry \in 1..Len(Locations[location]) /\ entry + 1 \in Nat \ {0}
    BY <1>1, <2>1
  <2>3. QED
    BY <1>3, <2>2
<1> HIDE DEF f
<1>5. /\ todo' \in [Files -> Nat] /\ {skipped', total'} \subseteq Nat
      /\ IsFiniteSet(Pending(todo')) /\ scanned + Cardinality(Pending(todo')) = total'
      /\ \A g \in Files : todo'[g] >= todo[g]
      /\ skipped' = 0 => skipped = 0 /\ todo'[f] > 0
  <2>1. /\ todo \in [Files -> Nat] /\ {scanned, skipped, total} \subseteq Nat
        /\ IsFiniteSet(Pending(todo)) /\ scanned + Cardinality(Pending(todo)) = total
        /\ Cardinality(Pending(todo)) \in Nat
    BY <1>2, FS_CardinalityType DEF TypeOK, PendingInv
  <2>2. CASE /\ todo' = [todo EXCEPT ![f] = todo[f] + 1]
             /\ total' = total + 1 /\ UNCHANGED skipped
    <3>1. /\ todo' \in [Files -> Nat] /\ IsFiniteSet(Pending(todo'))
          /\ Cardinality(Pending(todo')) = Cardinality(Pending(todo)) + 1
      BY <1>4, <2>1, <2>2, PendingMore
    <3>2. \A g \in Files : todo'[g] >= todo[g] /\ (g = f => todo'[g] > 0)
      BY <1>4, <2>1, <2>2
    <3>3. scanned \in Nat /\ skipped \in Nat /\ total \in Nat
      BY <2>1
    <3>4. scanned + Cardinality(Pending(todo')) = total' /\ total' \in Nat
      BY <2>1, <2>2, <3>1, <3>3
    <3>5. {skipped', total'} \subseteq Nat /\ (skipped' = 0 => skipped = 0)
      BY <2>2, <3>3, <3>4
    <3>6. QED
      BY <1>4, <3>1, <3>2, <3>4, <3>5
  <2>3. CASE skipped' = skipped + 1 /\ UNCHANGED <<todo, total>>
    BY <2>1, <2>3
  <2>4. QED
    BY <1>1, <2>2, <2>3
<1>6. TypeOK'
  BY <1>1, <1>2, <1>4, <1>5 DEF TypeOK
<1>7. WalkInv'
  <2>1. SUFFICES ASSUME kind = "full", skipped' = 0,
                        NEW l \in 1..Len(Locations), NEW i \in 1..Len(Locations[l]),
                        Walked(l, i), Past(l, i)'
                 PROVE  todo'[Locations[l][i]] > 0 \/ Done(Locations[l][i])
    BY <1>1 DEF WalkInv, Done
  <2>2. Locations[l][i] \in Files
    BY <1>2, <2>1
  <2>3. Past(l, i) \/ (l = location /\ i = entry)
    BY <1>1, <1>2, <1>3, <1>4, <2>1 DEF Past
  <2>4. CASE Past(l, i)
    <3>1. todo[Locations[l][i]] > 0 \/ Done(Locations[l][i])
      BY <1>2, <1>5, <2>1, <2>4 DEF WalkInv
    <3>2. \A g \in Files : todo[g] > 0 => todo'[g] > 0
      <4>1. \A g \in Files : /\ todo[g] \in Nat /\ todo'[g] \in Nat
                            /\ todo'[g] >= todo[g]
        BY <1>2, <1>5 DEF TypeOK
      <4>2. QED
        BY <4>1
    <3>3. QED
      BY <2>2, <3>1, <3>2
  <2>5. CASE l = location /\ i = entry
    BY <1>5, <2>1, <2>5 DEF f
  <2>6. QED
    BY <2>3, <2>4, <2>5
<1>8. PendingInv'
  BY <1>1, <1>5 DEF PendingInv
<1>9. QED
  BY <1>1, <1>6, <1>7, <1>8, WalkKeeps DEF IInv

\* A full scan is never cut, and what a quick scan leaves out counts as skipped.
LEMMA CutLocationInv ==
    ASSUME IInv, CutLocation PROVE IInv'
<1>1. /\ pc = "walk" /\ skipped' = skipped + 1 /\ location' = Len(Locations) + 1
      /\ UNCHANGED <<kind, actionMode, disk, allowlist, vault, orphans, pc, entry, todo,
                     current, scanned, suspicious, quarantined, total, threats,
                     status, changes, judged>>
  BY DEF CutLocation
<1>2. TypeOK /\ Len(Locations) \in Nat
  BY ScanAssumption DEF IInv
<1>3. /\ skipped \in Nat /\ skipped + 1 \in Nat /\ skipped + 1 # 0
      /\ {scanned, skipped + 1, suspicious, quarantined, total} \subseteq Nat
  BY <1>2 DEF TypeOK
<1>4. TypeOK'
  <2>1. {scanned, skipped, suspicious, quarantined, total}' \subseteq Nat
    BY <1>1, <1>3
  <2>2. location' \in 1..(Len(Locations) + 1)
    BY <1>1, <1>2 DEF TypeOK
  <2>3. QED
    BY <1>1, <1>2, <2>1, <2>2 DEF TypeOK
<1>5. WalkInv' /\ PendingInv'
  BY <1>1, <1>3 DEF IInv, WalkInv, PendingInv
<1>6. QED
  BY <1>1, <1>4, <1>5, WalkKeeps DEF IInv

LEMMA EndLocationInv ==
    ASSUME IInv, EndLocation PROVE IInv'
<1>1. /\ pc = "walk" /\ location <= Len(Locations)
      /\ ~(entry <= Len(Locations[location]))
      /\ location' = IF Full THEN Len(Locations) + 1 ELSE location + 1
      /\ entry' = 1
      /\ UNCHANGED <<kind, actionMode, disk, allowlist, vault, orphans, pc, todo,
                     current, scanned, skipped, suspicious, quarantined, total,
                     threats, status, changes, judged>>
  BY DEF EndLocation, AtEntry
<1>2. TypeOK /\ WalkInv /\ Len(Locations) \in Nat /\ Locations \in Seq(Seq(Files))
  BY ScanAssumption DEF IInv
<1>3. /\ location \in 1..Len(Locations) /\ location' \in 1..(Len(Locations) + 1)
      /\ entry \in Nat /\ Len(Locations[location]) \in Nat
  <2>1. location \in 1..Len(Locations) /\ entry \in Nat
    BY <1>1, <1>2 DEF TypeOK
  <2>2. location' \in 1..(Len(Locations) + 1)
    BY <1>1, <1>2, <2>1
  <2>3. Locations[location] \in Seq(Files)
    BY <1>2, <2>1
  <2>4. QED
    BY <2>1, <2>2, <2>3
<1>4. TypeOK'
  BY <1>1, <1>2, <1>3 DEF TypeOK
<1>5. WalkInv'
  <2>1. SUFFICES ASSUME kind = "full", skipped = 0,
                        NEW l \in 1..Len(Locations), NEW i \in 1..Len(Locations[l]),
                        Walked(l, i), Past(l, i)'
                 PROVE  todo[Locations[l][i]] > 0 \/ Done(Locations[l][i])
    BY <1>1 DEF WalkInv, Done
  <2>2. location' = location + 1
    BY <1>1, <2>1 DEF Full
  <2>3. Past(l, i)
    BY <1>1, <1>2, <1>3, <2>1, <2>2 DEF Past
  <2>4. QED
    BY <1>2, <2>1, <2>3 DEF WalkInv
<1>6. PendingInv'
  BY <1>1 DEF IInv, PendingInv
<1>7. QED
  BY <1>1, <1>4, <1>5, <1>6, WalkKeeps DEF IInv

LEMMA EndWalkInv ==
    ASSUME IInv, EndWalk PROVE IInv'
<1>1. /\ pc = "walk" /\ location > Len(Locations) /\ pc' = "next"
      /\ UNCHANGED <<kind, actionMode, disk, allowlist, vault, orphans, location, entry,
                     todo, current, scanned, skipped, suspicious, quarantined,
                     total, threats, status, changes, judged>>
  BY DEF EndWalk
<1>2. TypeOK'
  BY <1>1 DEF IInv, TypeOK
<1>3. WalkInv' /\ PendingInv'
  BY <1>1 DEF IInv, WalkInv, PendingInv, Past, Done
<1>4. QED
  BY <1>1, <1>2, <1>3, WalkKeeps DEF IInv

-----------------------------------------------------------------------------
(* The files, one by one *)

\* A file is judged, or counts as skipped; what is of concern is at hand next.
LEMMA ScanFileInv ==
    ASSUME IInv, NEW f \in Files, ScanFile(f) PROVE IInv'
<1>1. /\ pc = "next" /\ todo[f] > 0 /\ todo' = [todo EXCEPT ![f] = todo[f] - 1]
      /\ scanned' = scanned + 1
      /\ UNCHANGED <<kind, actionMode, disk, allowlist, vault, orphans, location, entry,
                     quarantined, total, threats, status, changes>>
  BY DEF ScanFile
<1>2. \/ disk[f] = NoFile /\ skipped' = skipped + 1 /\ UNCHANGED judged
      \/ /\ disk[f] # NoFile /\ UNCHANGED skipped
         /\ judged' = judged \cup {<<f, disk[f]>>}
  BY DEF ScanFile
<1>3. \/ /\ disk[f] # NoFile /\ pc' = "judged"
         /\ current' = [file |-> f, content |-> disk[f], status |-> "detected"]
         /\ suspicious' \in {suspicious, suspicious + 1}
      \/ /\ disk[f] # NoFile => Verdict[disk[f]] = "clean"
         /\ UNCHANGED <<pc, current, suspicious>>
  <2>1. CASE disk[f] # NoFile /\ Surfaced(disk[f])
    BY <2>1 DEF ScanFile, IInv, TypeOK
  <2>2. CASE ~(disk[f] # NoFile /\ Surfaced(disk[f]))
    <3>1. UNCHANGED <<pc, current, suspicious>>
      BY <2>2 DEF ScanFile
    <3>2. QED
      BY <2>2, <3>1 DEF Surfaced
  <2>3. QED
    BY <2>1, <2>2
<1>4. TypeOK /\ WalkInv /\ JudgedInv /\ PendingInv /\ StatusInv /\ ReportAddsUp
  BY DEF IInv
<1>5. /\ todo \in [Files -> Nat] /\ {scanned, skipped, suspicious, total} \subseteq Nat
      /\ disk[f] \in Contents \cup {NoFile} /\ todo[f] \in Nat
      /\ current \in Threats \cup {NoThreat} /\ current = NoThreat
      /\ IsFiniteSet(Pending(todo)) /\ Cardinality(Pending(todo)) \in Nat
  BY <1>1, <1>4, FS_CardinalityType DEF TypeOK, PendingInv
<1>6. /\ todo' \in [Files -> Nat] /\ IsFiniteSet(Pending(todo'))
      /\ Cardinality(Pending(todo)) = Cardinality(Pending(todo')) + 1
      /\ Cardinality(Pending(todo')) \in Nat
  <2>1. /\ todo[f] > 0 /\ f \in Files /\ todo' = [todo EXCEPT ![f] = todo[f] - 1]
        /\ todo \in [Files -> Nat] /\ IsFiniteSet(Pending(todo))
    BY <1>1, <1>5
  <2>2. /\ todo' \in [Files -> Nat] /\ IsFiniteSet(Pending(todo'))
        /\ Cardinality(Pending(todo)) = Cardinality(Pending(todo')) + 1
    BY <2>1, PendingLess
  <2>3. QED
    BY <2>2, FS_CardinalityType
<1>7. PendingInv'
  <2>1. scanned \in Nat /\ total \in Nat /\ scanned + Cardinality(Pending(todo)) = total
    BY <1>4, <1>5 DEF PendingInv
  <2>2. scanned' + Cardinality(Pending(todo')) = total'
    BY <1>1, <1>5, <1>6, <2>1
  <2>3. QED
    BY <1>1, <1>3, <1>6, <2>2 DEF PendingInv
<1>8. /\ judged \subseteq judged' /\ judged' \subseteq Files \X Contents
      /\ \A pair \in judged' \ judged : pair = <<f, disk[f]>> /\ disk[f] # NoFile
      /\ skipped' \in Nat /\ scanned' \in Nat /\ suspicious' \in Nat
      /\ skipped' = 0 => skipped = 0 /\ <<f, disk[f]>> \in judged'
  <2>1. scanned' \in Nat /\ suspicious' \in Nat
    BY <1>1, <1>3, <1>5
  <2>2. judged \subseteq Files \X Contents
    BY <1>4 DEF TypeOK
  <2>3. CASE disk[f] = NoFile /\ skipped' = skipped + 1 /\ UNCHANGED judged
    BY <1>5, <2>1, <2>2, <2>3
  <2>4. CASE /\ disk[f] # NoFile /\ UNCHANGED skipped
             /\ judged' = judged \cup {<<f, disk[f]>>}
    BY <1>1, <1>5, <2>1, <2>2, <2>4
  <2>5. QED
    BY <1>2, <2>3, <2>4
<1>9. TypeOK'
  <2>1. /\ current' \in Threats \cup {NoThreat} /\ pc' \in {"next", "judged"}
        /\ pc' = "judged" <=> current' # NoThreat
    <3>1. CASE UNCHANGED <<pc, current, suspicious>>
      BY <1>1, <1>5, <3>1
    <3>2. CASE /\ disk[f] # NoFile /\ pc' = "judged"
               /\ current' = [file |-> f, content |-> disk[f], status |-> "detected"]
      BY <1>5, <3>2, ThreatIsOne DEF Threats
    <3>3. QED
      BY <1>3, <3>1, <3>2
  <2>2. {scanned, skipped, suspicious, quarantined, total}' \subseteq Nat
    BY <1>1, <1>4, <1>8 DEF TypeOK
  <2>3. QED
    BY <1>1, <1>4, <1>6, <1>8, <2>1, <2>2 DEF TypeOK
<1>10. WalkInv'
  <2>1. location' > Len(Locations)
    BY <1>1, <1>4 DEF WalkInv
  <2>2. SUFFICES ASSUME kind = "full", skipped' = 0,
                        NEW l \in 1..Len(Locations), NEW i \in 1..Len(Locations[l]),
                        Walked(l, i), Past(l, i)
                 PROVE  todo'[Locations[l][i]] > 0 \/ Done(Locations[l][i])'
    BY <1>1, <2>1 DEF WalkInv, Past
  <2>3. todo[Locations[l][i]] > 0 \/ Done(Locations[l][i])
    BY <1>4, <1>8, <2>2 DEF WalkInv
  <2>4. CASE Locations[l][i] = f
    BY <1>8, <2>2, <2>4 DEF Done
  <2>5. CASE Locations[l][i] # f
    <3>1. Locations[l][i] \in Files
      BY <2>2, ScanAssumption
    <3>2. todo'[Locations[l][i]] = todo[Locations[l][i]]
      BY <1>1, <1>5, <2>5, <3>1
    <3>3. QED
      BY <1>8, <2>3, <3>2 DEF Done
  <2>6. QED
    BY <2>4, <2>5
<1>11. JudgedInv'
  <2>1. CASE /\ disk[f] # NoFile /\ pc' = "judged"
             /\ current' = [file |-> f, content |-> disk[f], status |-> "detected"]
    BY <1>2, <2>1 DEF JudgedInv
  <2>2. CASE /\ disk[f] # NoFile => Verdict[disk[f]] = "clean"
             /\ UNCHANGED <<pc, current, suspicious>>
    BY <1>1, <1>4, <1>8, <2>2 DEF JudgedInv
  <2>3. QED
    BY <1>3, <2>1, <2>2
<1>12. StatusInv' /\ CleanMeansJudged'
  BY <1>1, <1>3, <1>4 DEF StatusInv, CleanMeansJudged
<1>13. ReportAddsUp'
  <2>1. /\ Having("quarantined")' = Having("quarantined")
        /\ Having("detected")' = Having("detected")
    BY <1>1 DEF Having
  <2>2. suspicious <= Len(threats) /\ Len(threats) \in Nat /\ suspicious \in Nat
    BY <1>1, <1>4, <1>5 DEF ReportAddsUp, TypeOK
  <2>3. suspicious' <= Len(threats') + (IF pc' = "judged" THEN 1 ELSE 0)
    BY <1>1, <1>3, <2>2
  <2>4. pc' # "done"
    BY <1>1, <1>3
  <2>5. QED
    BY <1>1, <1>4, <2>1, <2>3, <2>4 DEF ReportAddsUp
<1>14. QuarantineHasCause'
  BY <1>1, <1>8 DEF IInv, QuarantineHasCause
<1>15. QED
  BY <1>7, <1>9, <1>10, <1>11, <1>12, <1>13, <1>14 DEF IInv

\* A threat goes into the report: what every way to do so has in common.
LEMMA PushKeeps ==
    ASSUME IInv, pc = "judged", NEW threat \in Threats, Push(threat),
           UNCHANGED <<kind, actionMode, location, entry, todo, scanned, skipped,
                       suspicious, total, status, judged>>
    PROVE  /\ WalkInv' /\ JudgedInv' /\ PendingInv' /\ StatusInv' /\ CleanMeansJudged'
           /\ suspicious' <= Len(threats') + (IF pc' = "judged" THEN 1 ELSE 0)
<1>1. pc' = "next" /\ threats' = Append(threats, threat) /\ current' = NoThreat
  BY DEF Push
<1>2. TypeOK /\ ReportAddsUp
  BY DEF IInv
<1>3. Len(threats') = Len(threats) + 1 /\ threats' # <<>> /\ Len(threats) \in Nat
  BY <1>1, <1>2, ThreatsMore
<1>4. WalkInv' /\ PendingInv' /\ StatusInv' /\ CleanMeansJudged'
  BY <1>1 DEF IInv, WalkInv, PendingInv, StatusInv, CleanMeansJudged, Past, Done
<1>5. JudgedInv'
  BY <1>1, <1>3 DEF JudgedInv
<1>6. suspicious \in Nat /\ suspicious <= Len(threats) + 1
  BY <1>2 DEF TypeOK, ReportAddsUp
<1>7. QED
  BY <1>1, <1>3, <1>4, <1>5, <1>6

\* A threat that is not quarantined: its file stays where it is, or is moved and
\* not recorded.
LEMMA PushUnmoved ==
    ASSUME IInv, pc = "judged", NEW threat \in Threats, Push(threat),
           threat.status # "quarantined",
           NEW more, orphans' = orphans \cup more,
           more \subseteq {threat.file} \X Contents,
           more # {} => /\ threat.status = "detected"
                        /\ actionMode = "auto_quarantine"
                        /\ <<threat.file, threat.content>> \in judged
                        /\ Verdict[threat.content] = "confirmed",
           disk' \in [Files -> Contents \cup {NoFile}],
           UNCHANGED <<kind, actionMode, allowlist, vault, location, entry,
                       todo, scanned, skipped, suspicious, quarantined, total,
                       status, changes, judged>>
    PROVE  IInv'
<1>1. TypeOK /\ ReportAddsUp
  BY DEF IInv
<1>2. pc' = "next" /\ threats' = Append(threats, threat) /\ current' = NoThreat
  BY DEF Push
<1>3. /\ threats' \in Seq(Threats) /\ Len(threats') = Len(threats) + 1
      /\ threats'[Len(threats) + 1] = threat
      /\ \A i \in 1..Len(threats) : threats'[i] = threats[i]
      /\ \A i \in 1..Len(threats') : i \in 1..Len(threats) \/ i = Len(threats) + 1
      /\ \A i \in 1..Len(threats) : i \in 1..Len(threats')
  <2>1. Len(threats) \in Nat /\ Len(threats') = Len(threats) + 1
    BY <1>1, <1>2, ThreatsMore
  <2>2. \A i \in 1..Len(threats) : i \in 1..Len(threats')
    BY <2>1
  <2>3. QED
    BY <1>1, <1>2, <2>2, ThreatsMore
<1>4. TypeOK'
  <2>1. threat.file \in Files
    BY DEF Threats
  <2>2. orphans' \subseteq Files \X Contents
    BY <1>1, <2>1 DEF TypeOK
  <2>3. QED
    BY <1>1, <1>2, <1>3, <2>2 DEF TypeOK
<1>5. Having("quarantined")' = Having("quarantined")
  BY <1>3 DEF Having
<1>6. \A i \in Having("quarantined") : threats'[i] = threats[i]
  BY <1>3 DEF Having
<1>7. ReportAddsUp'
  <2>1. suspicious' <= Len(threats') + (IF pc' = "judged" THEN 1 ELSE 0)
    BY PushKeeps
  <2>2. \A i \in Having("quarantined") : threats'[i].file = threats[i].file
    BY <1>6
  <2>3. quarantined' = Cardinality(Having("quarantined"))'
    BY <1>1, <1>5 DEF ReportAddsUp
  <2>4. /\ \A i \in Having("quarantined") :
             \E pair \in vault : pair[1] = threats'[i].file
        /\ \A pair \in vault :
             \E i \in Having("quarantined") : threats'[i].file = pair[1]
    BY <1>1, <2>2 DEF ReportAddsUp
  <2>5. ASSUME NEW pair \in orphans'
        PROVE  \E i \in Having("detected")' : threats'[i].file = pair[1]
    <3>1. CASE pair \in orphans
      <4>1. PICK i \in Having("detected") : threats[i].file = pair[1]
        BY <1>1, <3>1 DEF ReportAddsUp
      <4>2. i \in Having("detected")' /\ threats'[i] = threats[i]
        BY <1>1, <1>2, ListedStay
      <4>3. QED
        BY <4>1, <4>2
    <3>2. CASE pair \in more
      <4>1. threat.status = "detected" /\ pair[1] = threat.file
        BY <3>2
      <4>2. Len(threats) + 1 \in 1..Len(threats')
        BY <1>1, <1>2, <1>3, ThreatsMore
      <4>3. Len(threats) + 1 \in Having("detected")'
        BY <1>3, <4>1, <4>2 DEF Having
      <4>4. QED
        BY <1>3, <4>1, <4>3
    <3>3. QED
      BY <2>5, <3>1, <3>2
  <2>6. QED
    BY <1>2, <1>5, <2>1, <2>3, <2>4, <2>5 DEF ReportAddsUp
<1>8. QuarantineHasCause'
  <2>1. SUFFICES ASSUME NEW pair \in more
                 PROVE  /\ actionMode = "auto_quarantine"
                        /\ \E verdict \in judged :
                             /\ verdict[1] = pair[1]
                             /\ Verdict[verdict[2]] = "confirmed"
    BY DEF IInv, QuarantineHasCause
  <2>2. more # {} /\ pair[1] = threat.file
    OBVIOUS
  <2>3. QED
    BY <2>2
<1>9. QED
  BY <1>4, <1>7, <1>8, PushKeeps DEF IInv

LEMMA KeepThreatInv ==
    ASSUME IInv, KeepThreat PROVE IInv'
<1> DEFINE allowed == IsAllowlisted(current.file, Plain(current.content))
           threat == [current EXCEPT !.status = IF allowed THEN "allowlisted"
                                                           ELSE "detected"]
<1>1. /\ pc = "judged" /\ Push(threat)
      /\ UNCHANGED <<kind, actionMode, disk, allowlist, vault, orphans, location, entry,
                     todo, scanned, skipped, suspicious, quarantined, total,
                     status, changes, judged>>
  BY DEF KeepThreat
<1>2. current \in Threats
  BY <1>1 DEF IInv, TypeOK
<1>3. threat \in Threats /\ threat.status # "quarantined"
  BY <1>2 DEF Threats
<1> HIDE DEF threat
<1>4. disk' \in [Files -> Contents \cup {NoFile}] /\ orphans' = orphans \cup {}
  BY <1>1 DEF IInv, TypeOK
<1>5. QED
  BY <1>1, <1>3, <1>4, PushUnmoved

\* The file at the path of the threat goes to quarantine, with a record or without
\* one, or it stays.
LEMMA QuarantineThreatInv ==
    ASSUME IInv, QuarantineThreat PROVE IInv'
<1> DEFINE f == current.file
           threat == [current EXCEPT !.status = "quarantined"]
<1>1. /\ pc = "judged" /\ actionMode = "auto_quarantine"
      /\ Verdict[current.content] = "confirmed"
      /\ UNCHANGED <<kind, actionMode, allowlist, location, entry, todo, scanned,
                     skipped, suspicious, total, status, changes, judged>>
  BY DEF QuarantineThreat, ShouldQuarantine
<1>2. TypeOK /\ JudgedInv /\ ReportAddsUp /\ QuarantineHasCause
  BY DEF IInv
<1>3. /\ current \in Threats /\ current.status = "detected"
      /\ <<current.file, current.content>> \in judged
  BY <1>1, <1>2 DEF TypeOK, JudgedInv
<1>4. CASE Push(current) /\ UNCHANGED <<vault, orphans, disk, quarantined>>
  <2>1. disk' \in [Files -> Contents \cup {NoFile}] /\ orphans' = orphans \cup {}
    BY <1>2, <1>4 DEF TypeOK
  <2>2. QED
    BY <1>1, <1>3, <1>4, <2>1, PushUnmoved
<1>5. ASSUME /\ disk[f] # NoFile /\ orphans' = orphans \cup {<<f, disk[f]>>}
             /\ disk' = [disk EXCEPT ![f] = NoFile]
             /\ Push(current) /\ UNCHANGED <<vault, quarantined>>
      PROVE  IInv'
  <2>1. f \in Files
    BY <1>3 DEF Threats
  <2>2. /\ disk[f] \in Contents
        /\ disk' \in [Files -> Contents \cup {NoFile}]
    BY <1>2, <1>5, <2>1 DEF TypeOK
  <2>3. {<<f, disk[f]>>} \subseteq {current.file} \X Contents
    BY <2>2
  <2>4. current.status # "quarantined"
    BY <1>3
  <2>5. QED
    BY <1>1, <1>3, <1>5, <2>2, <2>3, <2>4, PushUnmoved
<1>6. ASSUME /\ disk[f] # NoFile /\ vault' = vault \cup {<<f, disk[f]>>}
             /\ disk' = [disk EXCEPT ![f] = NoFile]
             /\ quarantined' = quarantined + 1
             /\ Push(threat) /\ UNCHANGED orphans
      PROVE  IInv'
  <2>1. /\ threat \in Threats /\ threat.status = "quarantined" /\ threat.file = f
        /\ f \in Files
    BY <1>3 DEF Threats
  <2> HIDE DEF threat, f
  <2>2. pc' = "next" /\ threats' = Append(threats, threat) /\ current' = NoThreat
    BY <1>6 DEF Push
  <2> DEFINE new == Len(threats) + 1
  <2>3. /\ threats' \in Seq(Threats) /\ Len(threats') = new
        /\ threats'[new] = threat
        /\ \A i \in 1..Len(threats) : threats'[i] = threats[i]
        /\ \A i \in 1..Len(threats') : i \in 1..Len(threats) \/ i = new
        /\ new \in 1..Len(threats') /\ new \notin 1..Len(threats)
        /\ \A i \in 1..Len(threats) : i \in 1..Len(threats')
    <3>1. Len(threats) \in Nat /\ Len(threats') = Len(threats) + 1
      BY <1>2, <2>1, <2>2, ThreatsMore
    <3>2. /\ \A i \in 1..Len(threats) : i \in 1..Len(threats')
          /\ new \in 1..Len(threats')
      BY <3>1
    <3>3. QED
      BY <1>2, <2>1, <2>2, <3>2, ThreatsMore
  <2> HIDE DEF new
  <2>4. /\ disk[f] \in Contents /\ disk' \in [Files -> Contents \cup {NoFile}]
        /\ vault' \subseteq Files \X Contents
        /\ quarantined \in Nat
    BY <1>2, <1>6, <2>1 DEF TypeOK
  <2>5. TypeOK'
    <3>1. {scanned, skipped, suspicious, quarantined, total}' \subseteq Nat
      BY <1>1, <1>2, <1>6, <2>4 DEF TypeOK
    <3>2. orphans' \subseteq Files \X Contents
      BY <1>2, <1>6 DEF TypeOK
    <3>3. current' \in Threats \cup {NoThreat} /\ (pc' = "judged") = (current' # NoThreat)
      BY <2>2
    <3>4. QED
      BY <1>1, <1>2, <2>2, <2>3, <2>4, <3>1, <3>2, <3>3 DEF TypeOK
  <2>6. Having("quarantined")' = Having("quarantined") \cup {new}
    BY <2>1, <2>3 DEF Having
  <2>7. new \notin Having("quarantined")
    BY <2>3 DEF Having
  <2>8. quarantined' = Cardinality(Having("quarantined")')
    <3>1. IsFiniteSet(Having("quarantined"))
      BY <1>2, HavingFinite
    <3>2. Cardinality(Having("quarantined") \cup {new})
            = Cardinality(Having("quarantined")) + 1
      BY <2>7, <3>1, FS_AddElement
    <3>3. QED
      BY <1>2, <1>6, <2>6, <3>2 DEF ReportAddsUp
  <2>9. \A i \in Having("quarantined") : threats'[i].file = threats[i].file
    BY <2>3 DEF Having
  <2>10. \A i \in Having("quarantined")' :
           \E pair \in vault' : pair[1] = threats'[i].file
    <3>1. SUFFICES ASSUME NEW i \in Having("quarantined") \cup {new}
                   PROVE  \E pair \in vault' : pair[1] = threats'[i].file
      BY <2>6
    <3>2. CASE i = new
      <4>1. <<f, disk[f]>> \in vault'
        BY <1>6
      <4>2. threats'[i].file = f
        BY <2>1, <2>3, <3>2
      <4>3. QED
        BY <4>1, <4>2
    <3>3. CASE i \in Having("quarantined")
      BY <1>2, <1>6, <2>9, <3>3 DEF ReportAddsUp
    <3>4. QED
      BY <3>1, <3>2, <3>3
  <2>11. \A pair \in vault' :
           \E i \in Having("quarantined")' : threats'[i].file = pair[1]
    <3>1. SUFFICES ASSUME NEW pair \in vault \cup {<<f, disk[f]>>}
                   PROVE  \E i \in Having("quarantined") \cup {new} :
                            threats'[i].file = pair[1]
      BY <1>6, <2>6
    <3>2. CASE pair \in vault
      BY <1>2, <2>9, <3>2 DEF ReportAddsUp
    <3>3. CASE pair = <<f, disk[f]>>
      BY <2>1, <2>3, <3>3
    <3>4. QED
      BY <3>1, <3>2, <3>3
  <2>12. ReportAddsUp'
    <3>1. suspicious' <= Len(threats') + (IF pc' = "judged" THEN 1 ELSE 0)
      BY <1>1, <1>6, <2>1, PushKeeps
    <3>2. ASSUME NEW pair \in orphans'
          PROVE  \E i \in Having("detected")' : threats'[i].file = pair[1]
      <4>1. PICK i \in Having("detected") : threats[i].file = pair[1]
        BY <1>2, <1>6, <3>2 DEF ReportAddsUp
      <4>2. i \in Having("detected")' /\ threats'[i] = threats[i]
        BY <1>2, <2>1, <2>2, ListedStay
      <4>3. QED
        BY <4>1, <4>2
    <3>3. QED
      BY <2>2, <2>8, <2>10, <2>11, <3>1, <3>2 DEF ReportAddsUp
  <2>13. QuarantineHasCause'
    <3>1. SUFFICES ASSUME NEW pair \in vault' \cup orphans
                   PROVE  \E verdict \in judged :
                            verdict[1] = pair[1] /\ Verdict[verdict[2]] = "confirmed"
      BY <1>1, <1>6 DEF QuarantineHasCause
    <3>2. CASE pair \in vault \cup orphans
      BY <1>2, <3>2 DEF QuarantineHasCause
    <3>3. CASE pair = <<f, disk[f]>>
      BY <1>1, <1>3, <3>3 DEF f
    <3>4. QED
      BY <1>6, <3>1, <3>2, <3>3
  <2>14. QED
    BY <1>1, <1>6, <2>1, <2>5, <2>12, <2>13, PushKeeps DEF IInv
<1>7. QED
  BY <1>4, <1>5, <1>6 DEF QuarantineThreat

-----------------------------------------------------------------------------
(* The end, and the others *)

\* The scan ends: with nothing left to do, or with one skip more.
LEMMA FinishInv ==
    ASSUME IInv, pc = "next", NEW skips \in Nat, Finish(skips),
           \/ skips = skipped /\ \A f \in Files : todo[f] = 0
           \/ skips = skipped + 1 /\ kind = "full"
    PROVE  IInv'
<1>1. /\ pc' = "done" /\ skipped' = skips /\ status' = ReportStatus(skips)
      /\ UNCHANGED <<kind, actionMode, disk, allowlist, vault, orphans, location, entry,
                     todo, current, scanned, suspicious, quarantined, total,
                     threats, changes, judged>>
  BY DEF Finish
<1>2. TypeOK /\ WalkInv /\ JudgedInv /\ PendingInv /\ ReportAddsUp
  BY DEF IInv
<1>3. /\ status' \in {"threats_found", "completed_with_errors", "clean"}
      /\ status' = "clean" => threats = <<>> /\ ~(skips > 0)
  BY <1>1 DEF ReportStatus
<1>4. /\ skipped \in Nat
      /\ status' = "clean" => /\ skips = 0 /\ skipped = 0
                              /\ \A f \in Files : todo[f] = 0
  BY <1>2, <1>3 DEF TypeOK
<1>5. TypeOK'
  <2>1. {scanned, skipped, suspicious, quarantined, total}' \subseteq Nat
    BY <1>1, <1>2 DEF TypeOK
  <2>2. QED
    BY <1>1, <1>2, <1>3, <2>1 DEF TypeOK
<1>6. WalkInv'
  <2>1. skipped' = 0 => skipped = 0
    BY <1>1, <1>4
  <2>2. QED
    BY <1>1, <1>2, <2>1 DEF WalkInv, Past, Done
<1>7. JudgedInv' /\ StatusInv'
  BY <1>1, <1>2, <1>3 DEF JudgedInv, StatusInv
<1>8. PendingInv'
  BY <1>1, <1>2 DEF PendingInv, TypeOK
<1>9. CleanMeansJudged'
  <2>1. SUFFICES ASSUME status' = "clean"
                 PROVE  /\ \A pair \in judged : Verdict[pair[2]] = "clean"
                        /\ kind = "full" => \A f \in ReachedFiles :
                                              \E pair \in judged : pair[1] = f
    BY <1>1 DEF CleanMeansJudged
  <2>2. \A pair \in judged : Verdict[pair[2]] = "clean"
    BY <1>2, <1>3, <2>1 DEF JudgedInv
  <2>3. ASSUME kind = "full", NEW f \in ReachedFiles
        PROVE  \E pair \in judged : pair[1] = f
    <3>1. PICK l \in 1..Len(Locations) : \E i \in 1..Len(Locations[l]) :
                                           Locations[l][i] = f /\ Walked(l, i)
      BY DEF ReachedFiles, Walked
    <3>2. PICK i \in 1..Len(Locations[l]) : Locations[l][i] = f /\ Walked(l, i)
      BY <3>1
    <3>3. Past(l, i) /\ Walked(l, i)
      <4>1. location > Len(Locations) /\ location \in Nat /\ Len(Locations) \in Nat
        BY <1>2, ScanAssumption DEF WalkInv, TypeOK
      <4>2. QED
        BY <3>2, <4>1 DEF Past
    <3>4. todo[f] > 0 \/ Done(f)
      BY <1>2, <1>4, <2>1, <2>3, <3>2, <3>3 DEF WalkInv
    <3>5. todo[f] = 0
      BY <1>4, <2>1 DEF ReachedFiles
    <3>6. QED
      BY <3>4, <3>5 DEF Done
  <2>4. QED
    BY <2>2, <2>3
<1>10. ReportAddsUp'
  <2>1. kind = "quick" => scanned = total
    <3>1. SUFFICES ASSUME kind = "quick" PROVE scanned = total
      OBVIOUS
    <3>2. \A f \in Files : todo[f] = 0
      BY <3>1
    <3>3. Pending(todo) = {}
      BY <3>2 DEF Pending
    <3>4. Cardinality(Pending(todo)) = 0
      BY <3>3, FS_EmptySet
    <3>5. scanned + 0 = total /\ scanned \in Nat
      BY <1>2, <3>4 DEF PendingInv, TypeOK
    <3>6. QED
      BY <3>5
  <2>2. /\ Having("quarantined")' = Having("quarantined")
        /\ Having("detected")' = Having("detected")
    BY <1>1 DEF Having
  <2>3. QED
    BY <1>1, <1>2, <2>1, <2>2 DEF ReportAddsUp
<1>11. QuarantineHasCause'
  BY <1>1 DEF IInv, QuarantineHasCause
<1>12. QED
  BY <1>5, <1>6, <1>7, <1>8, <1>9, <1>10, <1>11 DEF IInv

LEMMA FinishScanInv ==
    ASSUME IInv, FinishScan PROVE IInv'
<1>1. skipped \in Nat
  BY DEF IInv, TypeOK
<1>2. QED
  BY <1>1, FinishInv DEF FinishScan

LEMMA DeadlineInv ==
    ASSUME IInv, Deadline PROVE IInv'
<1>1. skipped + 1 \in Nat
  BY DEF IInv, TypeOK
<1>2. QED
  BY <1>1, FinishInv DEF Deadline

\* What others do changes the files and the allowlist alone.
LEMMA OthersKeep ==
    ASSUME IInv, TypeOK', UNCHANGED <<vault, orphans, scanVars>> PROVE IInv'
BY DEF scanVars, IInv, WalkInv, JudgedInv, PendingInv, StatusInv, CleanMeansJudged,
       ReportAddsUp, QuarantineHasCause, Past, Done, Having

LEMMA OthersWriteInv ==
    ASSUME IInv, NEW f \in Files, NEW c \in Contents \cup {NoFile},
           OthersWrite(f, c)
    PROVE  IInv'
<1>1. changes' \in 0..MaxChanges
  BY ScanAssumption DEF OthersWrite, IInv, TypeOK
<1>2. TypeOK'
  BY <1>1 DEF OthersWrite, IInv, TypeOK, scanVars
<1>3. QED
  BY <1>2, OthersKeep DEF OthersWrite

LEMMA AddAllowlistEntryInv ==
    ASSUME IInv, NEW f \in Files, AddAllowlistEntry(f) PROVE IInv'
<1>1. changes' \in 0..MaxChanges
  BY ScanAssumption DEF AddAllowlistEntry, IInv, TypeOK
<1>2. disk[f] \in Contents
  BY DEF AddAllowlistEntry, IInv, TypeOK
<1>3. allowlist' \subseteq [file : Files, sha : {Prefixed(c) : c \in Contents}]
  BY <1>2 DEF AddAllowlistEntry, IInv, TypeOK
<1>4. TypeOK'
  BY <1>1, <1>3 DEF AddAllowlistEntry, IInv, TypeOK, scanVars
<1>5. QED
  BY <1>4, OthersKeep DEF AddAllowlistEntry

-----------------------------------------------------------------------------
(* The theorems *)

LEMMA InitInv == Init => IInv
<1>1. SUFFICES ASSUME Init PROVE IInv
  OBVIOUS
<1>2. /\ kind \in {"quick", "full"} /\ actionMode \in {"detect_only", "auto_quarantine"}
      /\ disk \in [Files -> Contents \cup {NoFile}] /\ allowlist = {} /\ vault = {}
      /\ orphans = {}
      /\ pc = "walk" /\ location = 1 /\ entry = 1 /\ todo = [f \in Files |-> 0]
      /\ current = NoThreat /\ scanned = 0 /\ skipped = 0 /\ suspicious = 0
      /\ quarantined = 0 /\ total = 0 /\ threats = <<>> /\ status = "running"
      /\ changes = 0 /\ judged = {}
  BY <1>1 DEF Init
<1>3. TypeOK
  <2>1. Len(Locations) \in Nat /\ MaxChanges \in Nat
    BY ScanAssumption
  <2>2. location \in 1..(Len(Locations) + 1) /\ changes \in 0..MaxChanges
    BY <1>2, <2>1
  <2>3. threats \in Seq(Threats) /\ todo \in [Files -> Nat]
    BY <1>2
  <2>4. QED
    BY <1>2, <2>2, <2>3 DEF TypeOK
<1>4. WalkInv /\ JudgedInv /\ StatusInv /\ CleanMeansJudged /\ QuarantineHasCause
  BY <1>2 DEF WalkInv, Past, JudgedInv, StatusInv, CleanMeansJudged,
              QuarantineHasCause
<1>5. PendingInv
  <2>1. \A f \in Files : todo[f] = 0
    BY <1>2
  <2>2. Pending(todo) = {}
    BY <2>1 DEF Pending
  <2>3. IsFiniteSet(Pending(todo)) /\ Cardinality(Pending(todo)) = 0
    BY <2>2, FS_EmptySet
  <2>4. QED
    BY <1>2, <2>1, <2>3 DEF PendingInv
<1>6. ReportAddsUp
  <2>1. Having("quarantined") = {} /\ Len(threats) = 0
    BY <1>2 DEF Having
  <2>2. QED
    BY <1>2, <2>1, FS_EmptySet DEF ReportAddsUp
<1>7. QED
  BY <1>3, <1>4, <1>5, <1>6 DEF IInv

LEMMA NextInv == IInv /\ [Next]_vars => IInv'
<1>1. SUFFICES ASSUME IInv, [Next]_vars PROVE IInv'
  OBVIOUS
<1>2. CASE PassPruned \/ PassLink \/ Collect \/ CutLocation \/ EndLocation \/ EndWalk
  BY <1>1, <1>2, PassInv, CollectInv, CutLocationInv, EndLocationInv, EndWalkInv
<1>3. CASE \E f \in Files : ScanFile(f)
  BY <1>1, <1>3, ScanFileInv
<1>4. CASE KeepThreat \/ QuarantineThreat
  BY <1>1, <1>4, KeepThreatInv, QuarantineThreatInv
<1>5. CASE FinishScan \/ Deadline
  BY <1>1, <1>5, FinishScanInv, DeadlineInv
<1>6. CASE \E f \in Files : AddAllowlistEntry(f)
                            \/ \E c \in Contents \cup {NoFile} : OthersWrite(f, c)
  BY <1>1, <1>6, AddAllowlistEntryInv, OthersWriteInv
<1>7. CASE UNCHANGED vars
  <2>1. TypeOK'
    BY <1>1, <1>7 DEF IInv, TypeOK, vars, scanVars
  <2>2. QED
    BY <1>1, <1>7, <2>1, OthersKeep DEF vars
<1>8. QED
  BY <1>1, <1>2, <1>3, <1>4, <1>5, <1>6, <1>7 DEF Next, Scan

\* Whatever the files are and whoever writes to them, the inductive invariant
\* holds of the scan from the walk to the report (main.rs scan_paths,
\* file_walker.rs).
THEOREM Invariance == Spec => []IInv
<1>1. Init => IInv
  BY InitInv
<1>2. IInv /\ [Next]_vars => IInv'
  BY NextInv
<1>3. QED
  BY <1>1, <1>2, PTL DEF Spec

\* Every variable has its type.
THEOREM TypeCorrect == Spec => []TypeOK
<1>1. IInv => TypeOK
  BY DEF IInv
<1>2. QED
  BY <1>1, Invariance, PTL

\* A full scan that says "clean" has judged every file of its locations but for
\* pruned folders and links, and no scan says so of a file that gave cause for concern (main.rs scan_paths).
THEOREM CleanWasJudged == Spec => []CleanMeansJudged
<1>1. IInv => CleanMeansJudged
  BY DEF IInv
<1>2. QED
  BY <1>1, Invariance, PTL

\* The report's counters agree with its list, with the store and with the walk
\* (main.rs scan_paths).
THEOREM TheReportAddsUp == Spec => []ReportAddsUp
<1>1. IInv => ReportAddsUp
  BY DEF IInv
<1>2. QED
  BY <1>1, Invariance, PTL

\* Nothing leaves its place without a confirmed verdict on that path, and nothing
\* at all in a scan that only detects (main.rs native_should_quarantine).
THEOREM MovedForCause == Spec => []QuarantineHasCause
<1>1. IInv => QuarantineHasCause
  BY DEF IInv
<1>2. QED
  BY <1>1, Invariance, PTL
==============================================================================
