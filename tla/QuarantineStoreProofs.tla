------------------------ MODULE QuarantineStoreProofs ------------------------
(***************************************************************************)
(* Proofs about QuarantineStore, for every set of processes, ids, paths    *)
(* and contents, and every bound on retries and interruptions.             *)
(***************************************************************************)
EXTENDS QuarantineStore, TLAPS

\* The values that stand for "nothing" are none of the values they stand beside.
LEMMA Distinct ==
    /\ NoFile \notin Contents
    /\ \A r \in Record : Readable(r) /\ r # NoDraft
    /\ NoRecord # Empty /\ NoRecord # Garbled /\ Empty # Garbled
    /\ ~Readable(NoRecord) /\ ~Readable(Empty) /\ ~Readable(Garbled)
  BY StoreAssumption DEF Readable

\* A size is a natural number, also the guard's 0 for a missing file.
LEMMA SizeType == \A c \in Contents \cup {NoFile} : SizeOf(c) \in Nat
  BY StoreAssumption DEF SizeOf

\* The record under construction is a record.
LEMMA NewRecordType ==
    \A id \in Ids, path \in Paths, source \in {"scanner", "guard_service"},
       sha \in Contents \cup {NoFile} : NewRecord(id, path, source, sha) \in Record
  BY DEF NewRecord, Record, Statuses

\* Changing one field of a record leaves a record.
LEMMA FieldTypes ==
    ASSUME NEW r \in Record
    PROVE  /\ \A n \in Nat : [r EXCEPT !.size = n] \in Record
           /\ \A c \in Contents \cup {NoFile} : [r EXCEPT !.sha = c] \in Record
           /\ \A st \in Statuses : [r EXCEPT !.status = st] \in Record
  BY DEF Record

\* The part of the type invariant about the processes.
ProcTypeOK ==
    /\ pc \in [Procs -> PCs]
    /\ draft \in [Procs -> Record \cup {NoDraft}]
    /\ \A p \in Procs : pc[p] = "idle" <=> draft[p] = NoDraft
    /\ tries \in [Procs -> 0..MaxTries]

\* A process that answers is idle again, without a draft.
LEMMA AnswerType ==
    ASSUME TypeOK, NEW p \in Procs, Answer(p) PROVE ProcTypeOK'
  BY StoreAssumption DEF TypeOK, ProcTypeOK, Answer, PCs

\* A process that goes on keeps its draft, or replaces it by a record.
LEMMA GotoType ==
    ASSUME TypeOK, NEW p \in Procs, NEW next \in PCs \ {"idle"}, Goto(p, next),
           NEW r \in Record, draft' = [draft EXCEPT ![p] = r],
           UNCHANGED tries
    PROVE  ProcTypeOK'
  BY Distinct, StoreAssumption DEF TypeOK, ProcTypeOK, Goto

\* The same, when the draft stays.
LEMMA GotoSameType ==
    ASSUME TypeOK, NEW p \in Procs, NEW next \in PCs \ {"idle"}, Goto(p, next),
           pc[p] # "idle", UNCHANGED <<draft, tries>>
    PROVE  ProcTypeOK'
  BY DEF TypeOK, ProcTypeOK, Goto

\* The draft of a running command is a record.
LEMMA DraftType ==
    ASSUME TypeOK, NEW p \in Procs, pc[p] # "idle" PROVE draft[p] \in Record
  BY DEF TypeOK

\* The initial state, with whatever a migration left, is well typed.
LEMMA InitType == Init => TypeOK
<1> SUFFICES ASSUME Init PROVE TypeOK
  OBVIOUS
<1>1. record \in [Ids -> Record \cup {NoRecord, Empty, Garbled}]
  <2>1. ASSUME NEW id \in LegacyIds
        PROVE  [NewRecord(id, LegacyPath[id], "scanner", LegacyContent[id])
                  EXCEPT !.size = Sizes[LegacyContent[id]]] \in Record
    BY StoreAssumption, NewRecordType DEF NewRecord, Record, Statuses
  <2>2. QED
    BY <2>1 DEF Init
<1>2. taken \in [Ids -> Origin \cup {NoRecord}]
  BY StoreAssumption DEF Init, Origin
<1>3. QED
  BY <1>1, <1>2, StoreAssumption DEF Init, TypeOK, PCs

\* Every step of every process, and of the world around, preserves the types.
LEMMA NextType == TypeOK /\ [Next]_vars => TypeOK'
<1> SUFFICES ASSUME TypeOK, [Next]_vars PROVE TypeOK'
  OBVIOUS
<1>1. ASSUME NEW p \in Procs, NEW id \in Ids, NEW path \in Paths,
             StartScanQuarantine(p, path, id)
      PROVE  TypeOK'
  <2>1. NewRecord(id, path, "scanner", NoFile) \in Record
    BY NewRecordType
  <2>2. ProcTypeOK'
    BY <1>1, <2>1, GotoType DEF StartScanQuarantine, PCs
  <2>3. QED
    BY <1>1, <2>2 DEF TypeOK, ProcTypeOK, StartScanQuarantine, fsVars
<1>2. ASSUME NEW p \in Procs, NEW id \in Ids, NEW path \in Paths,
             StartGuardQuarantine(p, path, id)
      PROVE  TypeOK'
  <2>1. NewRecord(id, path, "guard_service", disk[path]) \in Record
    BY NewRecordType DEF TypeOK
  <2>2. ProcTypeOK'
    BY <1>2, <2>1, GotoType DEF StartGuardQuarantine, PCs
  <2>3. QED
    BY <1>2, <2>2 DEF TypeOK, ProcTypeOK, StartGuardQuarantine, fsVars
<1>3. ASSUME NEW p \in Procs, NEW id \in Ids, NEW confirmed \in BOOLEAN,
             StartRestore(p, id, confirmed)
      PROVE  TypeOK'
  <2>1. CASE Readable(record[id])
    <3>1. record[id] \in Record
      BY <2>1 DEF TypeOK, Readable
    <3>2. ProcTypeOK'
      BY <1>3, <2>1, <3>1, GotoType DEF StartRestore, PCs
    <3>3. QED
      BY <1>3, <3>2 DEF TypeOK, ProcTypeOK, StartRestore, fsVars
  <2>2. CASE ~Readable(record[id])
    BY <1>3, <2>2 DEF TypeOK, StartRestore, fsVars
  <2>3. QED
    BY <2>1, <2>2
<1>4. ASSUME NEW p \in Procs, NEW id \in Ids, NEW confirmed \in BOOLEAN,
             StartDelete(p, id, confirmed)
      PROVE  TypeOK'
  <2>1. CASE Readable(record[id])
    <3>1. record[id] \in Record
      BY <2>1 DEF TypeOK, Readable
    <3>2. ProcTypeOK'
      BY <1>4, <2>1, <3>1, GotoType DEF StartDelete, PCs
    <3>3. QED
      BY <1>4, <3>2 DEF TypeOK, ProcTypeOK, StartDelete, fsVars
  <2>2. CASE ~Readable(record[id])
    BY <1>4, <2>2 DEF TypeOK, StartDelete, fsVars
  <2>3. QED
    BY <2>1, <2>2
<1>5. ASSUME NEW p \in Procs, ScanStat(p) PROVE TypeOK'
  <2>1. CASE disk[draft[p].path] # NoFile
    <3>1. SizeOf(disk[draft[p].path]) \in Nat
      BY <1>5, DraftType, SizeType DEF ScanStat, TypeOK, Record
    <3>2. [draft[p] EXCEPT !.size = SizeOf(disk[draft[p].path])] \in Record
      BY <1>5, <3>1, DraftType, FieldTypes DEF ScanStat
    <3>3. ProcTypeOK'
      BY <1>5, <2>1, <3>2, GotoType DEF ScanStat, PCs
    <3>4. QED
      BY <1>5, <3>3 DEF TypeOK, ProcTypeOK, ScanStat, fsVars, histVars
  <2>2. CASE disk[draft[p].path] = NoFile
    BY <1>5, <2>2, AnswerType DEF TypeOK, ProcTypeOK, ScanStat, fsVars, histVars
  <2>3. QED
    BY <2>1, <2>2
<1>6. ASSUME NEW p \in Procs, ScanMove(p) PROVE TypeOK'
  <2>1. CASE MoveIn(p) /\ Goto(p, "scan_hash") /\ UNCHANGED <<draft, tries>>
    <3>1. ProcTypeOK'
      BY <1>6, <2>1, GotoSameType DEF ScanMove, PCs
    <3>2. draft[p] \in Record
      BY <1>6, DraftType DEF ScanMove
    <3>3. QED
      BY <1>6, <2>1, <3>1, <3>2 DEF TypeOK, ProcTypeOK, ScanMove, MoveIn, Record, Origin
  <2>2. CASE Answer(p) /\ UNCHANGED <<disk, payload, taken, fate>>
    BY <1>6, <2>2, AnswerType DEF TypeOK, ProcTypeOK, ScanMove
  <2>3. QED
    BY <1>6, <2>1, <2>2 DEF ScanMove
<1>7. ASSUME NEW p \in Procs, ScanHash(p) PROVE TypeOK'
  <2>1. draft[p] \in Record
    BY <1>7, DraftType DEF ScanHash
  <2>2. [draft[p] EXCEPT !.sha = payload[draft[p].id]] \in Record
    BY <2>1, FieldTypes DEF TypeOK, Record
  <2>3. ProcTypeOK'
    BY <1>7, <2>2, GotoType DEF ScanHash, PCs
  <2>4. QED
    BY <1>7, <2>3 DEF TypeOK, ProcTypeOK, ScanHash, fsVars, histVars
<1>8. ASSUME NEW p \in Procs, GuardStat(p) PROVE TypeOK'
  <2>1. SizeOf(disk[draft[p].path]) \in Nat
    BY <1>8, DraftType, SizeType DEF GuardStat, TypeOK, Record
  <2>2. [draft[p] EXCEPT !.size = SizeOf(disk[draft[p].path])] \in Record
    BY <1>8, <2>1, DraftType, FieldTypes DEF GuardStat
  <2>3. ProcTypeOK'
    BY <1>8, <2>2, GotoType DEF GuardStat, PCs
  <2>4. QED
    BY <1>8, <2>3 DEF TypeOK, ProcTypeOK, GuardStat, fsVars, histVars
<1>9. ASSUME NEW p \in Procs, GuardMove(p) PROVE TypeOK'
  <2>1. ProcTypeOK'
    BY <1>9, GotoSameType DEF GuardMove, PCs
  <2>2. draft[p] \in Record
    BY <1>9, DraftType DEF GuardMove
  <2>3. QED
    BY <1>9, <2>1, <2>2 DEF TypeOK, ProcTypeOK, GuardMove, MoveIn, Record, Origin
<1>10. ASSUME NEW p \in Procs, GuardMoveFails(p) PROVE TypeOK'
  <2>1. CASE tries[p] + 1 < MaxTries
    BY <1>10, <2>1, StoreAssumption DEF TypeOK, GuardMoveFails, fsVars, histVars
  <2>2. CASE ~(tries[p] + 1 < MaxTries)
    BY <1>10, <2>2, AnswerType DEF TypeOK, ProcTypeOK, GuardMoveFails, fsVars, histVars
  <2>3. QED
    BY <2>1, <2>2
<1>11. ASSUME NEW p \in Procs, GuardPerms(p) PROVE TypeOK'
  <2>1. ProcTypeOK'
    BY <1>11, GotoSameType DEF GuardPerms, PCs
  <2>2. QED
    BY <1>11, <2>1 DEF TypeOK, ProcTypeOK, GuardPerms, fsVars, histVars
<1>12. ASSUME NEW p \in Procs, RestoreCheck(p) PROVE TypeOK'
  <2>1. CASE Answer(p)
    BY <1>12, <2>1, AnswerType DEF TypeOK, ProcTypeOK, RestoreCheck, fsVars, histVars
  <2>2. CASE ~Answer(p)
    <3>1. ProcTypeOK'
      BY <1>12, <2>2, GotoSameType DEF RestoreCheck, PCs
    <3>2. QED
      BY <1>12, <3>1 DEF TypeOK, ProcTypeOK, RestoreCheck, fsVars, histVars
  <2>3. QED
    BY <2>1, <2>2
<1>13. ASSUME NEW p \in Procs, RestoreDest(p) PROVE TypeOK'
  <2>1. CASE Answer(p)
    BY <1>13, <2>1, AnswerType DEF TypeOK, ProcTypeOK, RestoreDest, fsVars, histVars
  <2>2. CASE ~Answer(p)
    <3>1. ProcTypeOK'
      BY <1>13, <2>2, GotoSameType DEF RestoreDest, PCs
    <3>2. QED
      BY <1>13, <3>1 DEF TypeOK, ProcTypeOK, RestoreDest, fsVars, histVars
  <2>3. QED
    BY <2>1, <2>2
<1>14. ASSUME NEW p \in Procs, RestoreMove(p) PROVE TypeOK'
  <2>1. draft[p] \in Record /\ [draft[p] EXCEPT !.status = "restored"] \in Record
    BY <1>14, DraftType, FieldTypes DEF RestoreMove, Statuses
  <2>2. CASE payload[draft[p].id] # NoFile
    <3>1. ProcTypeOK'
      BY <1>14, <2>1, <2>2, GotoType DEF RestoreMove, PCs
    <3>2. QED
      BY <1>14, <2>1, <2>2, <3>1 DEF TypeOK, ProcTypeOK, RestoreMove, Record
  <2>3. CASE payload[draft[p].id] = NoFile
    BY <1>14, <2>3, AnswerType DEF TypeOK, ProcTypeOK, RestoreMove
  <2>4. QED
    BY <2>2, <2>3
<1>15. ASSUME NEW p \in Procs, DeleteCheck(p) PROVE TypeOK'
  <2>1. CASE Answer(p)
    BY <1>15, <2>1, AnswerType DEF TypeOK, ProcTypeOK, DeleteCheck, fsVars, histVars
  <2>2. CASE ~Answer(p)
    <3>1. ProcTypeOK'
      BY <1>15, <2>2, GotoSameType DEF DeleteCheck, PCs
    <3>2. QED
      BY <1>15, <3>1 DEF TypeOK, ProcTypeOK, DeleteCheck, fsVars, histVars
  <2>3. QED
    BY <2>1, <2>2
<1>16. ASSUME NEW p \in Procs, DeleteExists(p) PROVE TypeOK'
  <2>1. draft[p] \in Record /\ [draft[p] EXCEPT !.status = "deleted"] \in Record
    BY <1>16, DraftType, FieldTypes DEF DeleteExists, Statuses
  <2>2. ProcTypeOK'
    BY <1>16, <2>1, GotoType, GotoSameType DEF DeleteExists, PCs
  <2>3. QED
    BY <1>16, <2>2 DEF TypeOK, ProcTypeOK, DeleteExists, fsVars, histVars
<1>17. ASSUME NEW p \in Procs, DeleteRemove(p) PROVE TypeOK'
  <2>1. draft[p] \in Record /\ [draft[p] EXCEPT !.status = "deleted"] \in Record
    BY <1>17, DraftType, FieldTypes DEF DeleteRemove, Statuses
  <2>2. CASE payload[draft[p].id] # NoFile
    <3>1. ProcTypeOK'
      BY <1>17, <2>1, <2>2, GotoType DEF DeleteRemove, PCs
    <3>2. QED
      BY <1>17, <2>1, <2>2, <3>1 DEF TypeOK, ProcTypeOK, DeleteRemove, Record
  <2>3. CASE payload[draft[p].id] = NoFile
    BY <1>17, <2>3, AnswerType DEF TypeOK, ProcTypeOK, DeleteRemove
  <2>4. QED
    BY <2>2, <2>3
<1>18. ASSUME NEW p \in Procs, OpenRecord(p) PROVE TypeOK'
  <2>1. ProcTypeOK'
    BY <1>18, GotoSameType DEF OpenRecord, PCs
  <2>2. QED
    BY <1>18, <2>1 DEF TypeOK, ProcTypeOK, OpenRecord, histVars
<1>19. ASSUME NEW p \in Procs, WriteRecord(p) PROVE TypeOK'
  <2>1. draft[p] \in Record
    BY <1>19, DraftType DEF WriteRecord
  <2>2. Overlay(record[draft[p].id], draft[p]) \subseteq Record \cup {Garbled}
    BY <2>1 DEF Overlay
  <2>3. ProcTypeOK'
    BY <1>19, AnswerType DEF WriteRecord
  <2>4. QED
    BY <1>19, <2>2, <2>3 DEF TypeOK, ProcTypeOK, WriteRecord, histVars
<1>20. ASSUME NEW p \in Procs, Interrupt(p) PROVE TypeOK'
  <2>1. ProcTypeOK'
    BY <1>20, AnswerType DEF Interrupt
  <2>2. QED
    BY <1>20, <2>1, StoreAssumption DEF TypeOK, ProcTypeOK, Interrupt, fsVars, histVars
<1>21. ASSUME NEW path \in Paths, NEW c \in Contents, AppWrite(path, c)
       PROVE  TypeOK'
  BY <1>21 DEF TypeOK, AppWrite, procVars
<1>22. ASSUME NEW path \in Paths, AppRemove(path) PROVE TypeOK'
  BY <1>22 DEF TypeOK, AppRemove, procVars, histVars
<1>23. ASSUME NEW id \in Ids, NEW c \in Contents, PayloadWrite(id, c)
       PROVE  TypeOK'
  BY <1>23 DEF TypeOK, PayloadWrite, procVars
<1>24. CASE UNCHANGED vars
  BY <1>24 DEF TypeOK, vars, fsVars, procVars, histVars
<1>25. QED
  BY <1>1, <1>2, <1>3, <1>4, <1>5, <1>6, <1>7, <1>8, <1>9, <1>10, <1>11,
     <1>12, <1>13, <1>14, <1>15, <1>16, <1>17, <1>18, <1>19, <1>20, <1>21,
     <1>22, <1>23, <1>24 DEF Next, Start, Step, Environment

\* The shape of the state never changes, whatever processes do to each other.
THEOREM TypeCorrect == Spec => []TypeOK
  BY InitType, NextType, PTL DEF Spec

-----------------------------------------------------------------------------
(* The inductive invariant.                                                 *)

\* The initial state has nothing but migrated items, each with its record.
LEMMA InitInv == Init => IInv
<1> SUFFICES ASSUME Init PROVE IInv
  OBVIOUS
<1>1. TypeOK
  BY InitType
<1>2. ASSUME NEW id \in LegacyIds
      PROVE  /\ record[id].id = id
             /\ record[id].path = LegacyPath[id]
             /\ record[id].sha = LegacyContent[id]
             /\ record[id].status = "quarantined"
             /\ id \in Ids
  BY StoreAssumption DEF Init, NewRecord
<1>3. OnePlace
  <2>1. \A path \in Paths : disk[path] = NoFile
    BY DEF Init
  <2>2. \A id \in Ids :
          payload[id] = IF id \in LegacyIds THEN LegacyContent[id] ELSE NoFile
    BY DEF Init
  <2>3. \A i, j \in Ids : payload[i] = payload[j] /\ payload[i] # NoFile => i = j
    BY <2>2, StoreAssumption
  <2>4. QED
    BY <2>1, <2>3 DEF OnePlace
<1>4. CustodyInv
  <2>1. \A path \in Paths : disk[path] = NoFile
    BY DEF Init
  <2>2. ASSUME NEW id \in LegacyIds
        PROVE  /\ payload[id] = LegacyContent[id]
               /\ LegacyContent[id] \in seen
               /\ LegacyContent[id] # NoFile
               /\ fate[id] = "held"
               /\ id \in issued
               /\ taken[id] # NoRecord
               /\ taken[id].content = LegacyContent[id]
    BY StoreAssumption DEF Init, Origin
  <2>3. ASSUME NEW id \in Ids \ LegacyIds
        PROVE  payload[id] = NoFile /\ fate[id] = "new"
    BY DEF Init
  <2>4. QED
    BY <2>1, <2>2, <2>3 DEF CustodyInv
<1>5. DraftInv /\ SoleOwner
  BY DEF Init, DraftInv, SoleOwner, Filling, BeforeMove, AfterMove, Writing
<1>6. RecordInv
  <2>1. ASSUME NEW id \in LegacyIds
        PROVE  /\ id \in issued
               /\ fate[id] # "new"
               /\ record[id].path = taken[id].path
               /\ record[id].sha = payload[id]
    <3>1. /\ payload[id] = LegacyContent[id]
          /\ fate[id] = "held" /\ id \in issued
          /\ taken[id].path = LegacyPath[id]
      BY <1>2 DEF Init
    <3>2. QED
      BY <1>2, <3>1
  <2>2. ASSUME NEW id \in LegacyIds PROVE TracesBack(record[id])
    BY <1>2, <2>1 DEF TracesBack
  <2>3. ASSUME NEW id \in Ids \ LegacyIds
        PROVE  record[id] = NoRecord /\ ~Readable(record[id])
    BY Distinct DEF Init
  <2>4. ASSUME NEW id \in Ids
        PROVE  /\ record[id] # NoRecord => id \in issued
               /\ Readable(record[id]) =>
                    /\ record[id].id = id
                    /\ fate[id] # "new"
                    /\ TracesBack(record[id])
                    /\ record[id].status # "quarantined" => payload[id] = NoFile
    <3>1. CASE id \in LegacyIds
      BY <3>1, <1>2, <2>1, <2>2
    <3>2. CASE id \notin LegacyIds
      BY <3>2, <2>3
    <3>3. QED
      BY <3>1, <3>2
  <2>5. QED
    BY <2>4 DEF RecordInv
<1>7. QED
  BY <1>1, <1>3, <1>4, <1>5, <1>6 DEF IInv

\* A step that leaves the file system and the history alone, but for a new
\* id, cannot disturb what the invariant says about them.
LEMMA StoreUntouched ==
    ASSUME IInv, UNCHANGED <<fsVars, seen, taken, fate>>, issued \subseteq issued'
    PROVE  OnePlace' /\ CustodyInv' /\ RecordInv'
<1>1. OnePlace'
  BY DEF IInv, OnePlace, fsVars
<1>2. CustodyInv'
  BY DEF IInv, CustodyInv, fsVars
<1>3. RecordInv'
  BY DEF IInv, RecordInv, TracesBack, fsVars
<1>4. QED
  BY <1>1, <1>2, <1>3

\* The draft of a process that does not move stays sound when the store does
\* not change under its item.
LEMMA OtherDraft ==
    ASSUME IInv, NEW q \in Procs, pc[q] # "idle",
           pc'[q] = pc[q], draft'[q] = draft[q],
           issued \subseteq issued',
           UNCHANGED <<payload[draft[q].id], taken[draft[q].id], fate[draft[q].id]>>,
           record'[draft[q].id] \in {record[draft[q].id], Empty} \/ ~Filling(q)
    PROVE  DraftOK(q)'
  BY DEF IInv, DraftInv, DraftOK, Filling, TracesBack

\* p answers and nothing else changes for the other commands.
LEMMA AnswerDrafts ==
    ASSUME IInv, NEW p \in Procs, Answer(p), UNCHANGED <<fsVars, issued, taken, fate>>
    PROVE  DraftInv' /\ SoleOwner'
<1>1. ASSUME NEW q \in Procs, pc'[q] # "idle"
      PROVE  q # p /\ pc'[q] = pc[q] /\ draft'[q] = draft[q]
  BY <1>1 DEF Answer, IInv, TypeOK
<1>2. DraftInv'
  BY <1>1, OtherDraft DEF DraftInv, fsVars
<1>3. SoleOwner'
  BY <1>1 DEF IInv, SoleOwner, Filling, BeforeMove, AfterMove, Writing
<1>4. QED
  BY <1>2, <1>3

\* p goes on with the same item; it does not start to fill it.
LEMMA GotoDrafts ==
    ASSUME IInv, NEW p \in Procs, NEW next \in PCs \ {"idle"}, Goto(p, next),
           pc[p] # "idle", NEW r \in Record, draft' = [draft EXCEPT ![p] = r],
           r.id = draft[p].id, Filling(p)' => Filling(p), DraftOK(p)',
           UNCHANGED <<fsVars, issued, taken, fate>>
    PROVE  DraftInv' /\ SoleOwner'
<1>1. ASSUME NEW q \in Procs, q # p
      PROVE  pc'[q] = pc[q] /\ draft'[q] = draft[q]
  BY <1>1 DEF Goto, IInv, TypeOK
<1>2. pc'[p] = next /\ draft'[p].id = draft[p].id
  BY DEF Goto, IInv, TypeOK
<1>3. DraftInv'
  BY <1>1, OtherDraft DEF DraftInv, fsVars
<1>4. SoleOwner'
  BY <1>1, <1>2 DEF IInv, SoleOwner, Filling
<1>5. QED
  BY <1>3, <1>4

\* Whatever a process does, only its own command counter and draft move.
LEMMA OthersKeep ==
    ASSUME TypeOK, NEW p \in Procs, NEW q \in Procs, q # p,
           \/ Answer(p)
           \/ \E next \in PCs, r \in Record :
                Goto(p, next) /\ draft' = [draft EXCEPT ![p] = r]
           \/ \E next \in PCs : Goto(p, next) /\ UNCHANGED draft
    PROVE  pc'[q] = pc[q] /\ draft'[q] = draft[q]
  BY DEF TypeOK, Answer, Goto

\* A command that fills an item is a running one.
LEMMA FillingRuns ==
    ASSUME NEW p \in Procs, Filling(p) PROVE pc[p] # "idle"
  BY DEF Filling, BeforeMove, AfterMove, Writing

-----------------------------------------------------------------------------
(* Every action preserves the parts of the invariant besides the types.     *)

Parts == OnePlace /\ CustodyInv /\ DraftInv /\ SoleOwner /\ RecordInv

\* A quarantine draws an id nobody has used.
LEMMA StartQuarantineInv ==
    ASSUME IInv, TypeOK', NEW p \in Procs, NEW id \in Ids \ issued,
           NEW path \in Paths, NEW source \in {"scanner", "guard_service"},
           NEW sha \in Contents \cup {NoFile},
           NEW next, next = IF source = "scanner" THEN "scan_stat" ELSE "guard_stat",
           pc[p] = "idle", issued' = issued \cup {id}, Goto(p, next),
           draft' = [draft EXCEPT ![p] = NewRecord(id, path, source, sha)],
           UNCHANGED <<fsVars, seen, taken, fate>>
    PROVE  Parts'
<1>1. OnePlace' /\ CustodyInv' /\ RecordInv'
  BY StoreUntouched
<1>2. fate[id] = "new" /\ record[id] = NoRecord
  BY DEF IInv, CustodyInv, RecordInv
<1>3. ASSUME NEW q \in Procs, pc[q] # "idle" PROVE q # p /\ draft[q].id # id
  BY <1>3 DEF IInv, DraftInv, DraftOK
<1>4. ASSUME NEW q \in Procs, q # p
      PROVE  pc'[q] = pc[q] /\ draft'[q] = draft[q]
  BY <1>4 DEF IInv, TypeOK, Goto
<1>5. pc'[p] = next /\ draft'[p] = NewRecord(id, path, source, sha)
  BY DEF IInv, TypeOK, Goto
<1>6. draft'[p].id = id /\ draft'[p].status = "quarantined" /\ draft'[p].source = source
  BY <1>5 DEF NewRecord
<1>7. DraftOK(p)'
  BY <1>2, <1>5, <1>6
     DEF DraftOK, Filling, BeforeMove, AfterMove, Writing, fsVars
<1>8. DraftInv'
  BY <1>4, <1>7, OtherDraft DEF DraftInv, fsVars
<1>9. SoleOwner'
  BY <1>3, <1>4, <1>6, FillingRuns
     DEF IInv, SoleOwner, Filling, BeforeMove, AfterMove, Writing
<1>10. QED
  BY <1>1, <1>8, <1>9 DEF Parts

\* A restore or a delete starts from a readable record, so no command that
\* fills the item is still running.
LEMMA StartFromRecordInv ==
    ASSUME IInv, TypeOK', NEW p \in Procs, NEW id \in Ids,
           NEW next \in {"restore_check", "delete_check"},
           pc[p] = "idle", Readable(record[id]), Goto(p, next),
           draft' = [draft EXCEPT ![p] = record[id]],
           UNCHANGED <<fsVars, issued, seen, taken, fate>>
    PROVE  Parts'
<1>1. OnePlace' /\ CustodyInv' /\ RecordInv'
  BY StoreUntouched
<1>2. record[id].id = id /\ id \in issued /\ fate[id] # "new" /\ TracesBack(record[id])
  BY Distinct DEF IInv, RecordInv
<1>3. ASSUME NEW q \in Procs, Filling(q) PROVE draft[q].id # id
  BY <1>3, FillingRuns, Distinct DEF IInv, DraftInv, DraftOK
<1>4. ASSUME NEW q \in Procs, q # p
      PROVE  pc'[q] = pc[q] /\ draft'[q] = draft[q]
  BY <1>4 DEF IInv, TypeOK, Goto
<1>5. pc'[p] = next /\ draft'[p] = record[id]
  BY DEF IInv, TypeOK, Goto
<1>6. ~Filling(p)'
  BY <1>5 DEF Filling, BeforeMove, AfterMove, Writing
<1>7. DraftOK(p)'
  BY <1>2, <1>5, <1>6 DEF DraftOK, TracesBack, Writing, BeforeMove, fsVars
<1>8. DraftInv'
  BY <1>4, <1>7, OtherDraft DEF DraftInv, fsVars
<1>9. SoleOwner'
  BY <1>2, <1>3, <1>4, <1>5, <1>6 DEF IInv, SoleOwner, Filling
<1>10. QED
  BY <1>1, <1>8, <1>9 DEF Parts

\* An answer, when the command changed nothing in its last step.
LEMMA AnswerInv ==
    ASSUME IInv, NEW p \in Procs, Answer(p),
           UNCHANGED <<fsVars, issued, seen, taken, fate>>
    PROVE  Parts'
  BY AnswerDrafts, StoreUntouched DEF Parts

\* A step from one check to the next.
LEMMA GotoInv ==
    ASSUME IInv, NEW p \in Procs, NEW next \in PCs \ {"idle"}, Goto(p, next),
           pc[p] # "idle", NEW r \in Record, draft' = [draft EXCEPT ![p] = r],
           r.id = draft[p].id, Filling(p)' => Filling(p), DraftOK(p)',
           UNCHANGED <<fsVars, issued, seen, taken, fate>>
    PROVE  Parts'
  BY GotoDrafts, StoreUntouched DEF Parts

\* The rename into the store: the item is filled, and only its own command
\* knows it.
LEMMA MoveInInv ==
    ASSUME IInv, TypeOK', NEW p \in Procs, MoveIn(p),
           pc[p] \in {"scan_move", "guard_move"},
           pc' = [pc EXCEPT ![p] = IF pc[p] = "scan_move" THEN "scan_hash"
                                                          ELSE "guard_perms"],
           UNCHANGED <<draft, record, issued, seen>>
    PROVE  Parts'
<1> DEFINE id == draft[p].id
           path == draft[p].path
<1>1. draft[p] \in Record /\ id \in Ids /\ path \in Paths
  BY DraftType DEF IInv, Record
<1>2. /\ Filling(p) /\ DraftOK(p)
      /\ fate[id] = "new" /\ payload[id] = NoFile
      /\ record[id] \in {NoRecord, Empty}
      /\ id \in issued
  BY <1>1 DEF IInv, DraftInv, DraftOK, CustodyInv, Filling, BeforeMove
<1>3. disk[path] \in seen /\ disk[path] # NoFile
  BY <1>1 DEF MoveIn, IInv, CustodyInv
<1>4. /\ disk' = [disk EXCEPT ![path] = NoFile]
      /\ payload' = [payload EXCEPT ![id] = disk[path]]
      /\ taken' = [taken EXCEPT ![id] = [path |-> path, content |-> disk[path]]]
      /\ fate' = [fate EXCEPT ![id] = "held"]
  BY DEF MoveIn
<1>5. OnePlace'
  BY <1>1, <1>3, <1>4 DEF OnePlace, IInv, TypeOK
<1>6. CustodyInv'
  <2>1. taken'[id] = [path |-> path, content |-> disk[path]]
    BY <1>1, <1>4 DEF IInv, TypeOK
  <2>2. taken'[id] # NoRecord /\ taken'[id].content \in seen
    BY <1>1, <1>3, <2>1, StoreAssumption DEF IInv, TypeOK, Origin
  <2>3. QED
    BY <1>1, <1>2, <1>3, <1>4, <2>2 DEF CustodyInv, IInv, TypeOK
<1>7. ASSUME NEW q \in Procs, q # p, pc[q] # "idle"
      PROVE  draft[q].id # id
  BY <1>2, <1>7 DEF IInv, SoleOwner
<1>8. ASSUME NEW q \in Procs, q # p PROVE pc'[q] = pc[q]
  BY <1>8 DEF IInv, TypeOK
<1>9. pc'[p] = IF pc[p] = "scan_move" THEN "scan_hash" ELSE "guard_perms"
  BY DEF IInv, TypeOK
<1>10. ASSUME NEW q \in Procs, q # p, pc[q] # "idle" PROVE DraftOK(q)'
  <2>1. draft[q].id \in Ids /\ draft[q].id # id
    BY <1>7, <1>10, DraftType DEF IInv, Record
  <2>2. UNCHANGED <<payload[draft[q].id], taken[draft[q].id], fate[draft[q].id]>>
    BY <1>1, <1>4, <2>1 DEF IInv, TypeOK
  <2>3. QED
    BY <1>8, <1>10, <2>2, OtherDraft
<1>11. DraftOK(p)'
  <2>1. taken'[id].path = path /\ fate'[id] = "held"
    BY <1>1, <1>4 DEF IInv, TypeOK
  <2>2. QED
    BY <1>1, <1>2, <1>9, <2>1
       DEF DraftOK, Filling, TracesBack, BeforeMove, AfterMove, Writing
<1>12. DraftInv'
  BY <1>8, <1>10, <1>11 DEF DraftInv
<1>13. SoleOwner'
  BY <1>2, <1>7, <1>8, <1>9 DEF IInv, SoleOwner, Filling
<1>14. RecordInv'
  BY <1>1, <1>2, <1>4, Distinct DEF IInv, TypeOK, RecordInv, TracesBack, Readable
<1>15. QED
  BY <1>5, <1>6, <1>12, <1>13, <1>14 DEF Parts

\* The rename out of the store, back to the original path.
LEMMA RestoreMoveInv ==
    ASSUME IInv, TypeOK', NEW p \in Procs, RestoreMove(p) PROVE Parts'
<1> DEFINE id == draft[p].id
           path == draft[p].path
<1>1. draft[p] \in Record /\ id \in Ids /\ path \in Paths
  BY DraftType DEF IInv, Record, RestoreMove
<1>2. CASE payload[id] = NoFile
  BY <1>2, AnswerInv DEF RestoreMove, fsVars
<1>3. CASE payload[id] # NoFile
  <2>1. /\ disk' = [disk EXCEPT ![path] = payload[id]]
        /\ payload' = [payload EXCEPT ![id] = NoFile]
        /\ fate' = [fate EXCEPT ![id] = "returned"]
        /\ draft' = [draft EXCEPT ![p].status = "restored"]
        /\ pc' = [pc EXCEPT ![p] = "open_record"]
        /\ UNCHANGED <<record, issued, seen, taken>>
    BY <1>3 DEF RestoreMove, Goto
  <2>2. /\ DraftOK(p) /\ id \in issued /\ fate[id] = "held"
        /\ taken[id].content \in seen /\ payload[id] \in seen
    BY <1>1, <1>3 DEF IInv, DraftInv, CustodyInv, RestoreMove, DraftOK
  <2>3. taken[id].content # NoFile
    BY <2>2, Distinct DEF IInv, TypeOK
  <2>4. OnePlace'
    BY <1>1, <1>3, <2>1 DEF OnePlace, IInv, TypeOK
  <2>5. CustodyInv'
    BY <1>1, <2>1, <2>2 DEF IInv, TypeOK, CustodyInv
  <2>6. ASSUME NEW q \in Procs, q # p
        PROVE  pc'[q] = pc[q] /\ draft'[q] = draft[q]
    BY <2>1, <2>6 DEF IInv, TypeOK
  <2>7. /\ pc'[p] = "open_record" /\ draft'[p].status = "restored"
        /\ draft'[p].id = id /\ draft'[p].path = path
    BY <1>1, <2>1 DEF IInv, TypeOK, Record
  <2>8. ASSUME NEW q \in Procs, q # p, pc[q] # "idle" PROVE DraftOK(q)'
    <3>1. draft[q] \in Record
      BY <2>8, DraftType DEF IInv
    <3>2. CASE draft[q].id = id
      <4>1. ~Filling(q)
        BY <1>1, <2>8, <3>2 DEF IInv, SoleOwner, RestoreMove
      <4>2. QED
        BY <1>1, <2>1, <2>2, <2>3, <2>6, <2>8, <3>1, <3>2, <4>1
           DEF IInv, TypeOK, DraftInv, DraftOK, Filling, TracesBack
    <3>3. CASE draft[q].id # id
      <4>1. UNCHANGED <<payload[draft[q].id], taken[draft[q].id], fate[draft[q].id]>>
        BY <1>1, <2>1, <3>1, <3>3 DEF IInv, TypeOK, Record
      <4>2. QED
        BY <2>1, <2>6, <2>8, <4>1, OtherDraft
    <3>4. QED
      BY <3>2, <3>3
  <2>9. DraftOK(p)'
    <3>1. payload'[id] = NoFile /\ fate'[id] = "returned"
      BY <1>1, <2>1 DEF IInv, TypeOK
    <3>2. path = taken[id].path
      BY <2>2 DEF DraftOK, RestoreMove, BeforeMove
    <3>3. QED
      BY <2>1, <2>2, <2>3, <2>7, <3>1, <3>2
         DEF DraftOK, Filling, TracesBack, BeforeMove, AfterMove, Writing
  <2>10. DraftInv'
    BY <2>6, <2>8, <2>9 DEF DraftInv
  <2>11. SoleOwner'
    <3>1. ~Filling(p)'
      BY <2>7 DEF Filling, BeforeMove, AfterMove, Writing
    <3>2. pc[p] # "idle"
      BY DEF RestoreMove
    <3>3. QED
      BY <2>6, <2>7, <3>1, <3>2 DEF IInv, SoleOwner, Filling
  <2>12. RecordInv'
    BY <1>1, <2>1, <2>2, <2>3 DEF IInv, TypeOK, RecordInv, TracesBack
  <2>13. QED
    BY <2>4, <2>5, <2>10, <2>11, <2>12 DEF Parts
<1>4. QED
  BY <1>2, <1>3
\* The removal of a payload: the item is closed and its content gone.
LEMMA DeleteRemoveInv ==
    ASSUME IInv, TypeOK', NEW p \in Procs, DeleteRemove(p) PROVE Parts'
<1> DEFINE id == draft[p].id
           path == draft[p].path
<1>1. draft[p] \in Record /\ id \in Ids /\ path \in Paths
  BY DraftType DEF IInv, Record, DeleteRemove
<1>2. CASE payload[id] = NoFile
  BY <1>2, AnswerInv DEF DeleteRemove, fsVars
<1>3. CASE payload[id] # NoFile
  <2>1. /\ payload' = [payload EXCEPT ![id] = NoFile]
        /\ fate' = [fate EXCEPT ![id] = "destroyed"]
        /\ draft' = [draft EXCEPT ![p].status = "deleted"]
        /\ pc' = [pc EXCEPT ![p] = "open_record"]
        /\ UNCHANGED <<disk, record, issued, seen, taken>>
    BY <1>3 DEF DeleteRemove, Goto
  <2>2. /\ DraftOK(p) /\ id \in issued /\ fate[id] = "held"
        /\ taken[id].content \in seen /\ payload[id] \in seen
    BY <1>1, <1>3 DEF IInv, DraftInv, CustodyInv, DeleteRemove, DraftOK
  <2>3. taken[id].content # NoFile
    BY <2>2, Distinct DEF IInv, TypeOK
  <2>4. OnePlace'
    BY <1>1, <1>3, <2>1 DEF OnePlace, IInv, TypeOK
  <2>5. CustodyInv'
    BY <1>1, <2>1, <2>2 DEF IInv, TypeOK, CustodyInv
  <2>6. ASSUME NEW q \in Procs, q # p
        PROVE  pc'[q] = pc[q] /\ draft'[q] = draft[q]
    BY <2>1, <2>6 DEF IInv, TypeOK
  <2>7. /\ pc'[p] = "open_record" /\ draft'[p].status = "deleted"
        /\ draft'[p].id = id /\ draft'[p].path = path
    BY <1>1, <2>1 DEF IInv, TypeOK, Record
  <2>8. ASSUME NEW q \in Procs, q # p, pc[q] # "idle" PROVE DraftOK(q)'
    <3>1. draft[q] \in Record
      BY <2>8, DraftType DEF IInv
    <3>2. CASE draft[q].id = id
      <4>1. ~Filling(q)
        BY <1>1, <2>8, <3>2 DEF IInv, SoleOwner, DeleteRemove
      <4>2. QED
        BY <1>1, <2>1, <2>2, <2>3, <2>6, <2>8, <3>1, <3>2, <4>1
           DEF IInv, TypeOK, DraftInv, DraftOK, Filling, TracesBack
    <3>3. CASE draft[q].id # id
      <4>1. UNCHANGED <<payload[draft[q].id], taken[draft[q].id], fate[draft[q].id]>>
        BY <1>1, <2>1, <3>1, <3>3 DEF IInv, TypeOK, Record
      <4>2. QED
        BY <2>1, <2>6, <2>8, <4>1, OtherDraft
    <3>4. QED
      BY <3>2, <3>3
  <2>9. DraftOK(p)'
    <3>1. payload'[id] = NoFile /\ fate'[id] = "destroyed"
      BY <1>1, <2>1 DEF IInv, TypeOK
    <3>2. path = taken[id].path
      BY <2>2 DEF DraftOK, DeleteRemove, BeforeMove
    <3>3. QED
      BY <2>1, <2>2, <2>3, <2>7, <3>1, <3>2
         DEF DraftOK, Filling, TracesBack, BeforeMove, AfterMove, Writing
  <2>10. DraftInv'
    BY <2>6, <2>8, <2>9 DEF DraftInv
  <2>11. SoleOwner'
    <3>1. ~Filling(p)'
      BY <2>7 DEF Filling, BeforeMove, AfterMove, Writing
    <3>2. pc[p] # "idle"
      BY DEF DeleteRemove
    <3>3. QED
      BY <2>6, <2>7, <3>1, <3>2 DEF IInv, SoleOwner, Filling
  <2>12. RecordInv'
    BY <1>1, <2>1, <2>2, <2>3 DEF IInv, TypeOK, RecordInv, TracesBack
  <2>13. QED
    BY <2>4, <2>5, <2>10, <2>11, <2>12 DEF Parts
<1>4. QED
  BY <1>2, <1>3

\* The truncation of <id>.json: nobody reads it, and its writer goes on.
LEMMA OpenRecordInv ==
    ASSUME IInv, TypeOK', NEW p \in Procs, OpenRecord(p) PROVE Parts'
<1> DEFINE id == draft[p].id
<1>1. draft[p] \in Record /\ id \in Ids /\ DraftOK(p)
  BY DraftType DEF IInv, DraftInv, Record, OpenRecord
<1>2. OnePlace' /\ CustodyInv'
  BY DEF OpenRecord, histVars, IInv, OnePlace, CustodyInv
<1>3. RecordInv'
  <2>1. id \in issued /\ ~Readable(Empty)
    BY <1>1, Distinct DEF DraftOK
  <2>2. record'[id] = Empty /\ \A i \in Ids : i # id => record'[i] = record[i]
    BY <1>1 DEF OpenRecord, IInv, TypeOK
  <2>3. QED
    BY <1>1, <2>1, <2>2 DEF IInv, RecordInv, TracesBack, OpenRecord, histVars
<1>4. ASSUME NEW q \in Procs
      PROVE  /\ q # p => pc'[q] = pc[q]
             /\ draft'[q] = draft[q]
             /\ pc'[p] = "write_record"
  BY DEF OpenRecord, Goto, IInv, TypeOK
<1>5. ASSUME NEW q \in Procs, q # p, pc[q] # "idle" PROVE DraftOK(q)'
  <2>1. record'[draft[q].id] \in {record[draft[q].id], Empty}
    BY <1>1, <1>5, DraftType DEF OpenRecord, IInv, TypeOK, Record
  <2>2. QED
    BY <1>4, <1>5, <2>1, OtherDraft DEF OpenRecord, histVars
<1>6. DraftOK(p)'
  <2>1. record'[id] = Empty
    BY <1>1 DEF OpenRecord, IInv, TypeOK
  <2>2. QED
    BY <1>1, <1>4, <2>1
       DEF DraftOK, Filling, TracesBack, BeforeMove, AfterMove, Writing,
           OpenRecord, histVars
<1>7. DraftInv'
  BY <1>4, <1>5, <1>6 DEF DraftInv
<1>8. SoleOwner'
  BY <1>4 DEF IInv, SoleOwner, Filling, BeforeMove, AfterMove, Writing, OpenRecord
<1>9. QED
  BY <1>2, <1>3, <1>7, <1>8 DEF Parts

\* The write of <id>.json: what it leaves is this record or not readable.
LEMMA WriteRecordInv ==
    ASSUME IInv, TypeOK', NEW p \in Procs, WriteRecord(p) PROVE Parts'
<1> DEFINE id == draft[p].id
<1>1. draft[p] \in Record /\ id \in Ids /\ DraftOK(p)
  BY DraftType DEF IInv, DraftInv, Record, WriteRecord
<1>2. OnePlace' /\ CustodyInv'
  BY DEF WriteRecord, histVars, IInv, OnePlace, CustodyInv
<1>3. /\ record'[id] \in {draft[p], Garbled}
      /\ \A i \in Ids : i # id => record'[i] = record[i]
  BY <1>1 DEF WriteRecord, Overlay, IInv, TypeOK
<1>4. /\ id \in issued /\ fate[id] # "new" /\ TracesBack(draft[p])
      /\ draft[p].status # "quarantined" => payload[id] = NoFile
  BY <1>1 DEF DraftOK, WriteRecord, BeforeMove, Writing
<1>5. RecordInv'
  <2>1. ~Readable(Garbled)
    BY Distinct
  <2>2. UNCHANGED <<payload, fate, taken, issued>>
    BY DEF WriteRecord, histVars
  <2>3. QED
    BY <1>1, <1>3, <1>4, <2>1, <2>2 DEF IInv, RecordInv, TracesBack
<1>6. ASSUME NEW q \in Procs, pc'[q] # "idle"
      PROVE  q # p /\ pc'[q] = pc[q] /\ draft'[q] = draft[q]
  BY <1>6 DEF WriteRecord, Answer, IInv, TypeOK
<1>7. ASSUME NEW q \in Procs, pc'[q] # "idle" PROVE DraftOK(q)'
  <2>1. record'[draft[q].id] = record[draft[q].id] \/ ~Filling(q)
    <3>1. CASE draft[q].id = id
      <4>1. ~Filling(q)
        BY <1>6, <1>7, <3>1 DEF IInv, SoleOwner, WriteRecord
      <4>2. QED
        BY <4>1
    <3>2. CASE draft[q].id # id
      BY <1>1, <1>3, <1>6, <1>7, <3>2, DraftType DEF IInv, Record
    <3>3. QED
      BY <3>1, <3>2
  <2>2. QED
    BY <1>6, <1>7, <2>1, OtherDraft DEF WriteRecord, histVars
<1>8. SoleOwner'
  BY <1>6, FillingRuns DEF IInv, SoleOwner, Filling, BeforeMove, AfterMove, Writing
<1>9. QED
  BY <1>2, <1>5, <1>7, <1>8 DEF Parts, DraftInv

\* An application writes or removes a file of the user's disk.
LEMMA AppInv ==
    ASSUME IInv, NEW path \in Paths, NEW c \in (Contents \ seen) \cup {NoFile},
           disk' = [disk EXCEPT ![path] = c],
           seen' = seen \/ (c # NoFile /\ seen' = seen \cup {c}),
           c # NoFile => c \in seen',
           UNCHANGED <<payload, record, procVars, issued, taken, fate>>
    PROVE  Parts'
<1>1. OnePlace'
  BY DEF IInv, TypeOK, OnePlace, CustodyInv
<1>2. CustodyInv'
  BY DEF IInv, TypeOK, CustodyInv
<1>3. DraftInv'
  BY DEF IInv, DraftInv, DraftOK, Filling, TracesBack, procVars
<1>4. SoleOwner'
  BY DEF IInv, SoleOwner, Filling, procVars
<1>5. RecordInv'
  BY DEF IInv, RecordInv, TracesBack
<1>6. QED
  BY <1>1, <1>2, <1>3, <1>4, <1>5 DEF Parts

\* A payload is rewritten in place: no record vouches for a content that did
\* not exist when the item was taken.
LEMMA PayloadWriteInv ==
    ASSUME IInv, NEW id \in Ids, NEW c \in Contents, PayloadWrite(id, c)
    PROVE  Parts'
<1>1. /\ payload' = [payload EXCEPT ![id] = c] /\ payload[id] # NoFile
      /\ c \notin seen /\ seen' = seen \cup {c} /\ c # NoFile
      /\ UNCHANGED <<disk, record, pc, draft, issued, taken, fate>>
  BY Distinct DEF PayloadWrite, procVars
<1>2. OnePlace'
  BY <1>1 DEF IInv, TypeOK, OnePlace, CustodyInv
<1>3. CustodyInv'
  BY <1>1 DEF IInv, TypeOK, CustodyInv
<1>4. /\ \A i \in Ids : i # id => payload'[i] = payload[i]
      /\ payload'[id] = c /\ taken[id].content # c
  BY <1>1 DEF IInv, TypeOK, CustodyInv
<1>5. ASSUME NEW r \in Record, TracesBack(r) PROVE TracesBack(r)'
  BY <1>1, <1>4, <1>5 DEF TracesBack, Record
<1>6. DraftInv'
  <2> SUFFICES ASSUME NEW p \in Procs, pc[p] # "idle" PROVE DraftOK(p)'
    BY <1>1 DEF DraftInv
  <2>1. DraftOK(p) /\ draft[p] \in Record /\ draft[p].id \in Ids
    BY DraftType DEF IInv, DraftInv, Record
  <2>2. QED
    BY <1>1, <1>4, <1>5, <2>1 DEF DraftOK, Filling
<1>7. SoleOwner'
  BY <1>1 DEF IInv, SoleOwner, Filling
<1>8. RecordInv'
  <2> SUFFICES ASSUME NEW i \in Ids, Readable(record[i])
               PROVE  /\ record[i].id = i
                      /\ fate[i] # "new"
                      /\ TracesBack(record[i])'
                      /\ record[i].status # "quarantined" => payload'[i] = NoFile
    BY <1>1 DEF IInv, RecordInv
  <2>1. record[i] \in Record
    BY DEF IInv, TypeOK, Readable
  <2>2. QED
    BY <1>1, <1>4, <1>5, <2>1 DEF IInv, RecordInv
<1>9. QED
  BY <1>2, <1>3, <1>6, <1>7, <1>8 DEF Parts

-----------------------------------------------------------------------------
\* Every step preserves the whole invariant: one step of the proof per action.
LEMMA NextInv == IInv /\ [Next]_vars => IInv'
<1> SUFFICES ASSUME IInv, [Next]_vars PROVE IInv'
  OBVIOUS
<1>0. TypeOK /\ TypeOK'
  BY NextType DEF IInv
<1> SUFFICES Parts'
  BY <1>0 DEF IInv, Parts
<1>1. ASSUME NEW p \in Procs, NEW id \in Ids, NEW path \in Paths,
             StartScanQuarantine(p, path, id)
      PROVE  Parts'
  BY <1>0, <1>1, StartQuarantineInv DEF StartScanQuarantine
<1>2. ASSUME NEW p \in Procs, NEW id \in Ids, NEW path \in Paths,
             StartGuardQuarantine(p, path, id)
      PROVE  Parts'
  <2>1. disk[path] \in Contents \cup {NoFile}
    BY <1>0 DEF TypeOK
  <2>2. QED
    BY <1>0, <1>2, <2>1, StartQuarantineInv DEF StartGuardQuarantine
<1>3. ASSUME NEW p \in Procs, NEW id \in Ids, NEW confirmed \in BOOLEAN,
             StartRestore(p, id, confirmed)
      PROVE  Parts'
  <2>1. CASE Readable(record[id])
    BY <1>0, <1>3, <2>1, StartFromRecordInv DEF StartRestore
  <2>2. CASE ~Readable(record[id])
    <3>1. OnePlace' /\ CustodyInv' /\ RecordInv'
      BY <1>3, <2>2, StoreUntouched DEF StartRestore
    <3>2. QED
      BY <1>3, <2>2, <3>1
         DEF StartRestore, Parts, IInv, DraftInv, DraftOK, SoleOwner, Filling,
             TracesBack, fsVars
  <2>3. QED
    BY <2>1, <2>2
<1>4. ASSUME NEW p \in Procs, NEW id \in Ids, NEW confirmed \in BOOLEAN,
             StartDelete(p, id, confirmed)
      PROVE  Parts'
  <2>1. CASE Readable(record[id])
    BY <1>0, <1>4, <2>1, StartFromRecordInv DEF StartDelete
  <2>2. CASE ~Readable(record[id])
    <3>1. OnePlace' /\ CustodyInv' /\ RecordInv'
      BY <1>4, <2>2, StoreUntouched DEF StartDelete
    <3>2. QED
      BY <1>4, <2>2, <3>1
         DEF StartDelete, Parts, IInv, DraftInv, DraftOK, SoleOwner, Filling,
             TracesBack, fsVars
  <2>3. QED
    BY <2>1, <2>2
<1>5. ASSUME NEW p \in Procs, ScanStat(p) PROVE Parts'
  <2>1. CASE Answer(p)
    BY <1>5, <2>1, AnswerInv DEF ScanStat, histVars
  <2>2. CASE ~Answer(p)
    <3> DEFINE r == [draft[p] EXCEPT !.size = SizeOf(disk[draft[p].path])]
    <3>1. Goto(p, "scan_move") /\ draft' = [draft EXCEPT ![p] = r]
      BY <1>5, <2>2 DEF ScanStat
    <3>2. draft[p] \in Record /\ r \in Record /\ pc'[p] = "scan_move" /\ draft'[p] = r
      <4>1. draft[p] \in Record
        BY <1>0, <1>5, DraftType DEF ScanStat
      <4>2. SizeOf(disk[draft[p].path]) \in Nat
        BY <1>0, <4>1, SizeType DEF TypeOK, Record
      <4>3. r \in Record
        BY <4>1, <4>2, FieldTypes
      <4>4. QED
        BY <1>0, <3>1, <4>1, <4>3 DEF Goto, TypeOK
    <3>3. /\ r.id = draft[p].id /\ r.path = draft[p].path /\ r.source = draft[p].source
          /\ r.status = draft[p].status
      BY <3>2 DEF Record
    <3>4. DraftOK(p)' /\ (Filling(p)' => Filling(p))
      BY <1>5, <3>2, <3>3
         DEF ScanStat, IInv, DraftInv, DraftOK, Filling, TracesBack,
             BeforeMove, AfterMove, Writing, fsVars, histVars
    <3>5. QED
      BY <1>5, <3>1, <3>2, <3>3, <3>4, GotoInv DEF ScanStat, PCs, histVars
  <2>3. QED
    BY <2>1, <2>2
<1>6. ASSUME NEW p \in Procs, ScanMove(p) PROVE Parts'
  <2>1. CASE MoveIn(p) /\ Goto(p, "scan_hash") /\ UNCHANGED <<draft, tries>>
    BY <1>0, <1>6, <2>1, MoveInInv DEF ScanMove, Goto
  <2>2. CASE Answer(p) /\ UNCHANGED <<disk, payload, taken, fate>>
    BY <1>6, <2>2, AnswerInv DEF ScanMove, fsVars
  <2>3. QED
    BY <1>6, <2>1, <2>2 DEF ScanMove
<1>7. ASSUME NEW p \in Procs, ScanHash(p) PROVE Parts'
  <2>1. CASE Answer(p)
    BY <1>7, <2>1, AnswerInv DEF ScanHash, histVars
  <2>2. CASE ~Answer(p)
    <3> DEFINE r == [draft[p] EXCEPT !.sha = payload[draft[p].id]]
    <3>1. Goto(p, "open_record") /\ draft' = [draft EXCEPT ![p] = r]
      BY <1>7, <2>2 DEF ScanHash
    <3>2. draft[p] \in Record /\ r \in Record /\ pc'[p] = "open_record" /\ draft'[p] = r
      <4>1. draft[p] \in Record
        BY <1>0, <1>7, DraftType DEF ScanHash
      <4>2. payload[draft[p].id] \in Contents \cup {NoFile}
        BY <1>0, <4>1, SizeType DEF TypeOK, Record
      <4>3. r \in Record
        BY <4>1, <4>2, FieldTypes
      <4>4. QED
        BY <1>0, <3>1, <4>1, <4>3 DEF Goto, TypeOK
    <3>3. /\ r.id = draft[p].id /\ r.path = draft[p].path /\ r.source = draft[p].source
          /\ r.status = draft[p].status /\ r.sha = payload[draft[p].id]
      BY <3>2 DEF Record
    <3>4. DraftOK(p)' /\ (Filling(p)' => Filling(p))
      <4>1. DraftOK(p) /\ pc[p] = "scan_hash" /\ UNCHANGED <<fsVars, histVars>>
        BY <1>7 DEF ScanHash, IInv, DraftInv
      <4>2. /\ draft[p].id \in issued /\ draft[p].status = "quarantined"
            /\ record[draft[p].id] \in {NoRecord, Empty}
            /\ fate[draft[p].id] = "held"
            /\ draft[p].path = taken[draft[p].id].path
            /\ Filling(p)
        BY <4>1 DEF DraftOK, Filling, BeforeMove, AfterMove
      <4>3. TracesBack(draft[p])'
        BY <3>2, <3>3, <4>1, <4>2 DEF TracesBack, fsVars, histVars
      <4>4. QED
        BY <3>2, <3>3, <4>1, <4>2, <4>3
           DEF DraftOK, BeforeMove, Writing, fsVars, histVars
    <3>5. QED
      BY <1>7, <3>1, <3>2, <3>3, <3>4, GotoInv DEF ScanHash, PCs, histVars
  <2>3. QED
    BY <2>1, <2>2
<1>8. ASSUME NEW p \in Procs, GuardStat(p) PROVE Parts'
  <2>1. CASE Answer(p)
    BY <1>8, <2>1, AnswerInv DEF GuardStat, histVars
  <2>2. CASE ~Answer(p)
    <3> DEFINE r == [draft[p] EXCEPT !.size = SizeOf(disk[draft[p].path])]
    <3>1. Goto(p, "guard_move") /\ draft' = [draft EXCEPT ![p] = r]
      BY <1>8, <2>2 DEF GuardStat
    <3>2. draft[p] \in Record /\ r \in Record /\ pc'[p] = "guard_move" /\ draft'[p] = r
      <4>1. draft[p] \in Record
        BY <1>0, <1>8, DraftType DEF GuardStat
      <4>2. SizeOf(disk[draft[p].path]) \in Nat
        BY <1>0, <4>1, SizeType DEF TypeOK, Record
      <4>3. r \in Record
        BY <4>1, <4>2, FieldTypes
      <4>4. QED
        BY <1>0, <3>1, <4>1, <4>3 DEF Goto, TypeOK
    <3>3. /\ r.id = draft[p].id /\ r.path = draft[p].path /\ r.source = draft[p].source
          /\ r.status = draft[p].status
      BY <3>2 DEF Record
    <3>4. DraftOK(p)' /\ (Filling(p)' => Filling(p))
      BY <1>8, <3>2, <3>3
         DEF GuardStat, IInv, DraftInv, DraftOK, Filling, TracesBack,
             BeforeMove, AfterMove, Writing, fsVars, histVars
    <3>5. QED
      BY <1>8, <3>1, <3>2, <3>3, <3>4, GotoInv DEF GuardStat, PCs, histVars
  <2>3. QED
    BY <2>1, <2>2
<1>9. ASSUME NEW p \in Procs, GuardMove(p) PROVE Parts'
  BY <1>0, <1>9, MoveInInv DEF GuardMove, Goto
<1>10. ASSUME NEW p \in Procs, GuardMoveFails(p) PROVE Parts'
  <2>1. CASE Answer(p)
    BY <1>10, <2>1, AnswerInv DEF GuardMoveFails, histVars
  <2>2. CASE ~Answer(p)
    <3>1. UNCHANGED <<fsVars, pc, draft, histVars>>
      BY <1>10, <2>2 DEF GuardMoveFails
    <3>2. OnePlace' /\ CustodyInv' /\ RecordInv'
      BY <3>1, StoreUntouched DEF histVars
    <3>3. QED
      BY <3>1, <3>2 DEF Parts, IInv, DraftInv, DraftOK, SoleOwner, Filling,
                        TracesBack, fsVars, histVars
  <2>3. QED
    BY <2>1, <2>2
<1>11. ASSUME NEW p \in Procs, GuardPerms(p) PROVE Parts'
  <2>1. CASE Answer(p)
    BY <1>11, <2>1, AnswerInv DEF GuardPerms, histVars
  <2>2. CASE ~Answer(p)
    <3>1. Goto(p, "open_record") /\ draft' = [draft EXCEPT ![p] = draft[p]]
      BY <1>0, <1>11, <2>2 DEF GuardPerms, TypeOK
    <3>2. pc'[p] = "open_record" /\ draft'[p] = draft[p] /\ draft[p] \in Record
      BY <1>0, <1>11, <3>1, DraftType DEF Goto, TypeOK, GuardPerms
    <3>3. DraftOK(p)' /\ (Filling(p)' => Filling(p))
      BY <1>11, <3>2
         DEF GuardPerms, IInv, DraftInv, DraftOK, Filling, TracesBack,
             BeforeMove, AfterMove, Writing, fsVars, histVars
    <3>4. QED
      BY <1>11, <3>1, <3>2, <3>3, GotoInv DEF GuardPerms, PCs, histVars
  <2>3. QED
    BY <2>1, <2>2
<1>12. ASSUME NEW p \in Procs, RestoreCheck(p) PROVE Parts'
  <2>1. CASE Answer(p)
    BY <1>12, <2>1, AnswerInv DEF RestoreCheck, histVars
  <2>2. CASE ~Answer(p)
    <3>1. Goto(p, "restore_dest") /\ draft' = [draft EXCEPT ![p] = draft[p]]
      BY <1>0, <1>12, <2>2 DEF RestoreCheck, TypeOK
    <3>2. pc'[p] = "restore_dest" /\ draft'[p] = draft[p] /\ draft[p] \in Record
      BY <1>0, <1>12, <3>1, DraftType DEF Goto, TypeOK, RestoreCheck
    <3>3. DraftOK(p)' /\ (Filling(p)' => Filling(p))
      BY <1>12, <3>2
         DEF RestoreCheck, IInv, DraftInv, DraftOK, Filling, TracesBack,
             BeforeMove, AfterMove, Writing, fsVars, histVars
    <3>4. QED
      BY <1>12, <3>1, <3>2, <3>3, GotoInv DEF RestoreCheck, PCs, histVars
  <2>3. QED
    BY <2>1, <2>2
<1>13. ASSUME NEW p \in Procs, RestoreDest(p) PROVE Parts'
  <2>1. CASE Answer(p)
    BY <1>13, <2>1, AnswerInv DEF RestoreDest, histVars
  <2>2. CASE ~Answer(p)
    <3>1. Goto(p, "restore_move") /\ draft' = [draft EXCEPT ![p] = draft[p]]
      BY <1>0, <1>13, <2>2 DEF RestoreDest, TypeOK
    <3>2. pc'[p] = "restore_move" /\ draft'[p] = draft[p] /\ draft[p] \in Record
      BY <1>0, <1>13, <3>1, DraftType DEF Goto, TypeOK, RestoreDest
    <3>3. DraftOK(p)' /\ (Filling(p)' => Filling(p))
      BY <1>13, <3>2
         DEF RestoreDest, IInv, DraftInv, DraftOK, Filling, TracesBack,
             BeforeMove, AfterMove, Writing, fsVars, histVars
    <3>4. QED
      BY <1>13, <3>1, <3>2, <3>3, GotoInv DEF RestoreDest, PCs, histVars
  <2>3. QED
    BY <2>1, <2>2
<1>14. ASSUME NEW p \in Procs, RestoreMove(p) PROVE Parts'
  BY <1>0, <1>14, RestoreMoveInv
<1>15. ASSUME NEW p \in Procs, DeleteCheck(p) PROVE Parts'
  <2>1. CASE Answer(p)
    BY <1>15, <2>1, AnswerInv DEF DeleteCheck, histVars
  <2>2. CASE ~Answer(p)
    <3>1. Goto(p, "delete_exists") /\ draft' = [draft EXCEPT ![p] = draft[p]]
      BY <1>0, <1>15, <2>2 DEF DeleteCheck, TypeOK
    <3>2. pc'[p] = "delete_exists" /\ draft'[p] = draft[p] /\ draft[p] \in Record
      BY <1>0, <1>15, <3>1, DraftType DEF Goto, TypeOK, DeleteCheck
    <3>3. DraftOK(p)' /\ (Filling(p)' => Filling(p))
      BY <1>15, <3>2
         DEF DeleteCheck, IInv, DraftInv, DraftOK, Filling, TracesBack,
             BeforeMove, AfterMove, Writing, fsVars, histVars
    <3>4. QED
      BY <1>15, <3>1, <3>2, <3>3, GotoInv DEF DeleteCheck, PCs, histVars
  <2>3. QED
    BY <2>1, <2>2
<1>16. ASSUME NEW p \in Procs, DeleteExists(p) PROVE Parts'
  <2>1. CASE payload[draft[p].id] = NoFile
    <3> DEFINE r == [draft[p] EXCEPT !.status = "deleted"]
    <3>1. Goto(p, "open_record") /\ draft' = [draft EXCEPT ![p] = r]
      BY <1>16, <2>1 DEF DeleteExists
    <3>2. draft[p] \in Record /\ r \in Record /\ pc'[p] = "open_record" /\ draft'[p] = r
      <4>1. draft[p] \in Record
        BY <1>0, <1>16, DraftType DEF DeleteExists
      <4>2. r \in Record
        BY <4>1, FieldTypes DEF Statuses
      <4>3. QED
        BY <1>0, <3>1, <4>1, <4>2 DEF Goto, TypeOK
    <3>3. /\ r.id = draft[p].id /\ r.path = draft[p].path /\ r.source = draft[p].source
          /\ r.status = "deleted"
      BY <3>2 DEF Record
    <3>4. DraftOK(p)' /\ (Filling(p)' => Filling(p))
      BY <1>16, <2>1, <3>2, <3>3
         DEF DeleteExists, IInv, DraftInv, DraftOK, Filling, TracesBack,
             BeforeMove, AfterMove, Writing, fsVars, histVars
    <3>5. QED
      BY <1>16, <3>1, <3>2, <3>3, <3>4, GotoInv DEF DeleteExists, PCs, histVars
  <2>2. CASE payload[draft[p].id] # NoFile
    <3>1. Goto(p, "delete_remove") /\ draft' = [draft EXCEPT ![p] = draft[p]]
      BY <1>0, <1>16, <2>2 DEF DeleteExists, TypeOK
    <3>2. pc'[p] = "delete_remove" /\ draft'[p] = draft[p] /\ draft[p] \in Record
      BY <1>0, <1>16, <3>1, DraftType DEF Goto, TypeOK, DeleteExists
    <3>3. DraftOK(p)' /\ (Filling(p)' => Filling(p))
      BY <1>16, <3>2
         DEF DeleteExists, IInv, DraftInv, DraftOK, Filling, TracesBack,
             BeforeMove, AfterMove, Writing, fsVars, histVars
    <3>4. QED
      BY <1>16, <3>1, <3>2, <3>3, GotoInv DEF DeleteExists, PCs, histVars
  <2>3. QED
    BY <2>1, <2>2
<1>17. ASSUME NEW p \in Procs, DeleteRemove(p) PROVE Parts'
  BY <1>0, <1>17, DeleteRemoveInv
<1>18. ASSUME NEW p \in Procs, OpenRecord(p) PROVE Parts'
  BY <1>0, <1>18, OpenRecordInv
<1>19. ASSUME NEW p \in Procs, WriteRecord(p) PROVE Parts'
  BY <1>0, <1>19, WriteRecordInv
<1>20. ASSUME NEW p \in Procs, Interrupt(p) PROVE Parts'
  BY <1>20, AnswerInv DEF Interrupt, histVars
<1>21. ASSUME NEW path \in Paths, NEW c \in Contents, AppWrite(path, c)
       PROVE  Parts'
  BY <1>21, AppInv, Distinct DEF AppWrite
<1>22. ASSUME NEW path \in Paths, AppRemove(path) PROVE Parts'
  <2>1. /\ disk' = [disk EXCEPT ![path] = NoFile]
        /\ UNCHANGED <<payload, record, procVars, issued, seen, taken, fate>>
    BY <1>22 DEF AppRemove, histVars
  <2>2. QED
    BY <2>1, AppInv
<1>23. ASSUME NEW id \in Ids, NEW c \in Contents, PayloadWrite(id, c)
       PROVE  Parts'
  BY <1>23, PayloadWriteInv
<1>24. CASE UNCHANGED vars
  <2>1. OnePlace' /\ CustodyInv' /\ RecordInv'
    BY <1>24, StoreUntouched DEF vars, histVars
  <2>2. QED
    BY <1>24, <2>1 DEF Parts, IInv, DraftInv, DraftOK, SoleOwner, Filling,
                       TracesBack, vars, fsVars, procVars, histVars
<1>25. QED
  BY <1>1, <1>2, <1>3, <1>4, <1>5, <1>6, <1>7, <1>8, <1>9, <1>10, <1>11,
     <1>12, <1>13, <1>14, <1>15, <1>16, <1>17, <1>18, <1>19, <1>20, <1>21,
     <1>22, <1>23, <1>24 DEF Next, Start, Step, Environment

\* The inductive invariant holds in every reachable state.
THEOREM Invariance == Spec => []IInv
  BY InitInv, NextInv, PTL DEF Spec

\* No interleaving of commands, crashes and foreign writes puts a content in
\* two places.
THEOREM ContentsInOnePlace == Spec => []OnePlace
<1>1. IInv => OnePlace
  BY DEF IInv
<1>2. QED
  BY <1>1, Invariance, PTL

\* A record that says "restored" or "deleted" never stands beside its payload.
THEOREM ClosedMeansOut == Spec => []ClosedRecordHasNoPayload
<1>1. IInv => ClosedRecordHasNoPayload
  BY DEF IInv, RecordInv, ClosedRecordHasNoPayload
<1>2. QED
  BY <1>1, Invariance, PTL

\* Every readable record leads back to where its payload was taken from, and
\* the scanner's hash is that of the file it really moved.
THEOREM RecordsVouch == Spec => []RecordVouches
<1>1. IInv => RecordVouches
  BY DEF IInv, RecordInv, TracesBack, RecordVouches
<1>2. QED
  BY <1>1, Invariance, PTL

-----------------------------------------------------------------------------
(* Action properties.                                                       *)

\* <id>.json changes only by truncation or by its writer.
LEMMA RecordChanges ==
    ASSUME IInv, [Next]_vars, NEW id \in Ids, record'[id] # record[id]
    PROVE  \/ record'[id] = Empty
           \/ \E p \in Procs :
                /\ WriteRecord(p)
                /\ draft[p].id = id
                /\ record'[id] \in {draft[p], Garbled}
<1>1. ASSUME UNCHANGED record PROVE FALSE
  BY <1>1
<1>2. CASE \E p \in Procs : OpenRecord(p)
  BY <1>2 DEF OpenRecord, IInv, TypeOK
<1>3. ASSUME NEW p \in Procs, WriteRecord(p)
      PROVE  draft[p].id = id /\ record'[id] \in {draft[p], Garbled}
  BY <1>3 DEF WriteRecord, Overlay, IInv, TypeOK
<1>4. ASSUME ~\E p \in Procs : OpenRecord(p) \/ WriteRecord(p)
      PROVE  UNCHANGED record
  BY <1>4
     DEF Next, Start, Step, Environment, StartScanQuarantine,
         StartGuardQuarantine, StartRestore, StartDelete, ScanStat, ScanMove,
         ScanHash, GuardStat, GuardMove, GuardMoveFails, GuardPerms,
         RestoreCheck, RestoreDest, RestoreMove, DeleteCheck, DeleteExists,
         DeleteRemove, Interrupt, AppWrite, AppRemove, PayloadWrite, vars, fsVars
<1>5. QED
  BY <1>1, <1>2, <1>3, <1>4

\* A closed record is never written as "quarantined" again.
THEOREM NeverReopens == Spec => RecordNeverReopens
<1> DEFINE A == \A id \in Ids :
                  Readable(record'[id]) /\ record'[id].status = "quarantined"
                      /\ record'[id] # record[id]
                    => fate[id] = "held"
<1>1. IInv /\ [Next]_vars => A
  <2> SUFFICES ASSUME IInv, [Next]_vars, NEW id \in Ids,
                      Readable(record'[id]), record'[id].status = "quarantined",
                      record'[id] # record[id]
               PROVE  fate[id] = "held"
    OBVIOUS
  <2>1. PICK p \in Procs : /\ WriteRecord(p)
                           /\ draft[p].id = id
                           /\ record'[id] = draft[p]
    BY RecordChanges, Distinct
  <2>2. DraftOK(p) /\ Filling(p) /\ pc[p] \notin BeforeMove
    BY <2>1 DEF WriteRecord, IInv, DraftInv, Filling, BeforeMove, Writing
  <2>3. QED
    BY <2>1, <2>2 DEF DraftOK
<1>2. IInv /\ [Next]_vars => [A]_vars
  BY <1>1
<1>3. QED
  BY <1>2, Invariance, PTL DEF Spec, RecordNeverReopens

\* What a restore puts back, it puts back where it was taken from.
THEOREM RestoresToOrigin == Spec => ReturnsToOrigin
<1> DEFINE A == \A id \in Ids :
                  fate[id] # "returned" /\ fate'[id] = "returned"
                    => disk'[taken[id].path] = payload[id]
<1>1. IInv /\ [Next]_vars => A
  <2> SUFFICES ASSUME IInv, [Next]_vars, NEW id \in Ids,
                      fate[id] # "returned", fate'[id] = "returned"
               PROVE  disk'[taken[id].path] = payload[id]
    OBVIOUS
  <2>1. ASSUME ~\E p \in Procs : RestoreMove(p) PROVE FALSE
    <3>1. ASSUME UNCHANGED fate PROVE FALSE
      BY <3>1
    <3>2. ASSUME NEW p \in Procs, MoveIn(p) \/ DeleteRemove(p) PROVE FALSE
      BY <3>2 DEF MoveIn, DeleteRemove, IInv, TypeOK
    <3>3. ASSUME ~\E p \in Procs : MoveIn(p) \/ DeleteRemove(p)
          PROVE  UNCHANGED fate
      BY <2>1, <3>3
         DEF Next, Start, Step, Environment, StartScanQuarantine,
             StartGuardQuarantine, StartRestore, StartDelete, ScanStat, ScanMove,
             ScanHash, GuardStat, GuardMove, GuardMoveFails, GuardPerms,
             RestoreCheck, RestoreDest, DeleteCheck, DeleteExists, OpenRecord,
             WriteRecord, Interrupt, AppWrite, AppRemove, PayloadWrite, vars,
             histVars
    <3>4. QED
      BY <3>1, <3>2, <3>3
  <2>2. PICK p \in Procs : RestoreMove(p)
    BY <2>1
  <2>3. draft[p] \in Record /\ DraftOK(p)
    BY <2>2, DraftType DEF IInv, DraftInv, RestoreMove
  <2>4. /\ draft[p].id = id
        /\ disk' = [disk EXCEPT ![draft[p].path] = payload[id]]
    BY <2>2, <2>3 DEF RestoreMove, IInv, TypeOK, Record
  <2>5. draft[p].path = taken[id].path
    BY <2>2, <2>3, <2>4 DEF RestoreMove, DraftOK, BeforeMove
  <2>6. QED
    BY <2>3, <2>4, <2>5 DEF IInv, TypeOK, Record
<1>2. IInv /\ [Next]_vars => [A]_vars
  BY <1>1
<1>3. QED
  BY <1>2, Invariance, PTL DEF Spec, ReturnsToOrigin

-----------------------------------------------------------------------------
(* The store implements the vault.                                          *)

Restoring == {"restore_check", "restore_dest", "restore_move"}
Deleting == {"delete_check", "delete_exists", "delete_remove"}

\* A command that may empty an item was confirmed for that item.
ConsentInv ==
    \A p \in Procs :
      /\ pc[p] \in Restoring => <<"restore", draft[p].id>> \in consent
      /\ pc[p] \in Deleting => <<"delete", draft[p].id>> \in consent

\* A step that starts no command keeps every confirmation it needs.
LEMMA ConsentKept ==
    ASSUME IInv, ConsentInv, consent \subseteq consent', NEW p \in Procs,
           \/ Answer(p)
           \/ \E next \in PCs :
                /\ Goto(p, next)
                /\ next \in Restoring => pc[p] \in Restoring
                /\ next \in Deleting => pc[p] \in Deleting
                /\ \/ UNCHANGED draft
                   \/ \E r : draft' = [draft EXCEPT ![p] = r] /\ r.id = draft[p].id
    PROVE  ConsentInv'
<1>1. ASSUME NEW q \in Procs, q # p PROVE pc'[q] = pc[q] /\ draft'[q] = draft[q]
  BY <1>1 DEF Answer, Goto, IInv, TypeOK
<1>2. CASE Answer(p)
  BY <1>1, <1>2 DEF ConsentInv, Answer, IInv, TypeOK, Restoring, Deleting
<1>3. ASSUME NEW next \in PCs, Goto(p, next),
             next \in Restoring => pc[p] \in Restoring,
             next \in Deleting => pc[p] \in Deleting,
             \/ UNCHANGED draft
             \/ \E r : draft' = [draft EXCEPT ![p] = r] /\ r.id = draft[p].id
      PROVE  ConsentInv'
  <2>1. pc'[p] = next /\ draft'[p].id = draft[p].id
    BY <1>3 DEF Goto, IInv, TypeOK
  <2>2. QED
    BY <1>1, <1>3, <2>1 DEF ConsentInv
<1>4. QED
  BY <1>2, <1>3

\* Whoever is about to move or remove a payload was told to by the user.
LEMMA ConsentNext == IInv /\ ConsentInv /\ [Next]_vars => ConsentInv'
<1> SUFFICES ASSUME IInv, ConsentInv, [Next]_vars PROVE ConsentInv'
  OBVIOUS
<1>1. ASSUME NEW p \in Procs, NEW id \in Ids, NEW path \in Paths,
             StartScanQuarantine(p, path, id) \/ StartGuardQuarantine(p, path, id)
      PROVE  ConsentInv'
  BY <1>1 DEF StartScanQuarantine, StartGuardQuarantine, Goto, ConsentInv, IInv,
              TypeOK, Restoring, Deleting
<1>2. ASSUME NEW p \in Procs, NEW id \in Ids, NEW confirmed \in BOOLEAN,
             StartRestore(p, id, confirmed)
      PROVE  ConsentInv'
  <2>1. CASE Readable(record[id])
    <3>1. record[id].id = id
      BY <2>1 DEF IInv, RecordInv
    <3>2. QED
      BY <1>2, <2>1, <3>1 DEF StartRestore, Goto, ConsentInv, IInv, TypeOK,
                               Restoring, Deleting
  <2>2. CASE ~Readable(record[id])
    BY <1>2, <2>2 DEF StartRestore, ConsentInv
  <2>3. QED
    BY <2>1, <2>2
<1>3. ASSUME NEW p \in Procs, NEW id \in Ids, NEW confirmed \in BOOLEAN,
             StartDelete(p, id, confirmed)
      PROVE  ConsentInv'
  <2>1. CASE Readable(record[id])
    <3>1. record[id].id = id
      BY <2>1 DEF IInv, RecordInv
    <3>2. QED
      BY <1>3, <2>1, <3>1 DEF StartDelete, Goto, ConsentInv, IInv, TypeOK,
                               Restoring, Deleting
  <2>2. CASE ~Readable(record[id])
    BY <1>3, <2>2 DEF StartDelete, ConsentInv
  <2>3. QED
    BY <2>1, <2>2
<1>4. ASSUME NEW p \in Procs, ScanStat(p) PROVE ConsentInv'
  <2> DEFINE r == [draft[p] EXCEPT !.size = SizeOf(disk[draft[p].path])]
  <2>1. draft[p] \in Record /\ r.id = draft[p].id
    BY <1>4, DraftType DEF ScanStat, IInv, Record
  <2>2. QED
    BY <1>4, <2>1, ConsentKept
       DEF ScanStat, PCs, Restoring, Deleting, histVars
<1>5. ASSUME NEW p \in Procs, ScanMove(p) PROVE ConsentInv'
  BY <1>5, ConsentKept
     DEF ScanMove, PCs, Restoring, Deleting, histVars
<1>6. ASSUME NEW p \in Procs, ScanHash(p) PROVE ConsentInv'
  <2> DEFINE r == [draft[p] EXCEPT !.sha = payload[draft[p].id]]
  <2>1. draft[p] \in Record /\ r.id = draft[p].id
    BY <1>6, DraftType DEF ScanHash, IInv, Record
  <2>2. QED
    BY <1>6, <2>1, ConsentKept
       DEF ScanHash, PCs, Restoring, Deleting, histVars
<1>7. ASSUME NEW p \in Procs, GuardStat(p) PROVE ConsentInv'
  <2> DEFINE r == [draft[p] EXCEPT !.size = SizeOf(disk[draft[p].path])]
  <2>1. draft[p] \in Record /\ r.id = draft[p].id
    BY <1>7, DraftType DEF GuardStat, IInv, Record
  <2>2. QED
    BY <1>7, <2>1, ConsentKept
       DEF GuardStat, PCs, Restoring, Deleting, histVars
<1>8. ASSUME NEW p \in Procs, GuardMove(p) PROVE ConsentInv'
  BY <1>8, ConsentKept
     DEF GuardMove, PCs, Restoring, Deleting, histVars
<1>9. ASSUME NEW p \in Procs, GuardPerms(p) PROVE ConsentInv'
  BY <1>9, ConsentKept
     DEF GuardPerms, PCs, Restoring, Deleting, histVars
<1>10. ASSUME NEW p \in Procs, RestoreCheck(p) PROVE ConsentInv'
  BY <1>10, ConsentKept
     DEF RestoreCheck, PCs, Restoring, Deleting, histVars
<1>11. ASSUME NEW p \in Procs, RestoreDest(p) PROVE ConsentInv'
  BY <1>11, ConsentKept
     DEF RestoreDest, PCs, Restoring, Deleting, histVars
<1>12. ASSUME NEW p \in Procs, RestoreMove(p) PROVE ConsentInv'
  <2> DEFINE r == [draft[p] EXCEPT !.status = "restored"]
  <2>1. draft[p] \in Record /\ r.id = draft[p].id
    BY <1>12, DraftType DEF RestoreMove, IInv, Record
  <2>2. QED
    BY <1>12, <2>1, ConsentKept
       DEF RestoreMove, PCs, Restoring, Deleting, histVars
<1>13. ASSUME NEW p \in Procs, DeleteCheck(p) PROVE ConsentInv'
  BY <1>13, ConsentKept
     DEF DeleteCheck, PCs, Restoring, Deleting, histVars
<1>14. ASSUME NEW p \in Procs, DeleteExists(p) PROVE ConsentInv'
  <2> DEFINE r == [draft[p] EXCEPT !.status = "deleted"]
  <2>1. draft[p] \in Record /\ r.id = draft[p].id
    BY <1>14, DraftType DEF DeleteExists, IInv, Record
  <2>2. QED
    BY <1>14, <2>1, ConsentKept
       DEF DeleteExists, PCs, Restoring, Deleting, histVars
<1>15. ASSUME NEW p \in Procs, DeleteRemove(p) PROVE ConsentInv'
  <2> DEFINE r == [draft[p] EXCEPT !.status = "deleted"]
  <2>1. draft[p] \in Record /\ r.id = draft[p].id
    BY <1>15, DraftType DEF DeleteRemove, IInv, Record
  <2>2. QED
    BY <1>15, <2>1, ConsentKept
       DEF DeleteRemove, PCs, Restoring, Deleting, histVars
<1>16. ASSUME NEW p \in Procs, OpenRecord(p) PROVE ConsentInv'
  BY <1>16, ConsentKept
     DEF OpenRecord, PCs, Restoring, Deleting, histVars
<1>17. ASSUME NEW p \in Procs, WriteRecord(p) PROVE ConsentInv'
  BY <1>17, ConsentKept
     DEF WriteRecord, PCs, Restoring, Deleting, histVars
<1>18. ASSUME NEW p \in Procs, Interrupt(p) PROVE ConsentInv'
  BY <1>18, ConsentKept
     DEF Interrupt, PCs, Restoring, Deleting, histVars
<1>19. ASSUME NEW p \in Procs, GuardMoveFails(p) PROVE ConsentInv'
  BY <1>19, ConsentKept DEF GuardMoveFails, ConsentInv, histVars
<1>20. ASSUME UNCHANGED <<pc, draft, consent>> PROVE ConsentInv'
  BY <1>20 DEF ConsentInv
<1>21. QED
  BY <1>1, <1>2, <1>3, <1>4, <1>5, <1>6, <1>7, <1>8, <1>9, <1>10, <1>11, <1>12, <1>13, <1>14, <1>15, <1>16, <1>17, <1>18, <1>19, <1>20
     DEF Next, Start, Step, Environment, AppWrite, AppRemove, PayloadWrite,
         procVars, histVars, vars

\* The confirmation a command needs was given, in every reachable state.
LEMMA Consented == Spec => []ConsentInv
<1>1. Init => ConsentInv
  BY DEF Init, ConsentInv, Restoring, Deleting
<1>2. QED
  BY <1>1, ConsentNext, Invariance, PTL DEF Spec

\* No path changed: the same contents are live.
LEMMA LiveUntouched == UNCHANGED disk => Live' = Live
  BY DEF Live

\* A path that loses its content takes it out of the live ones: no other path
\* has it.
LEMMA LiveLeaves ==
    ASSUME IInv, NEW path \in Paths, disk[path] # NoFile,
           disk' = [disk EXCEPT ![path] = NoFile]
    PROVE  disk[path] \in Live /\ Live' = Live \ {disk[path]}
<1>1. \A x \in Paths : disk'[x] = IF x = path THEN NoFile ELSE disk[x]
  BY DEF IInv, TypeOK
<1>2. \A x \in Paths : x # path => disk[x] # disk[path]
  BY DEF IInv, OnePlace
<1>3. QED
  BY <1>1, <1>2 DEF Live

\* A content that arrives at a path replaces at most the one that was there.
LEMMA LiveArrives ==
    ASSUME IInv, NEW path \in Paths, NEW c \in Contents,
           disk' = [disk EXCEPT ![path] = c]
    PROVE  \E over \in {{}} \cup {{d} : d \in Live} :
             Live' = (Live \ over) \cup {c}
<1>1. \A x \in Paths : disk'[x] = IF x = path THEN c ELSE disk[x]
  BY DEF IInv, TypeOK
<1>2. c # NoFile
  BY Distinct
<1>3. CASE disk[path] = NoFile
  <2>1. Live' = (Live \ {}) \cup {c}
    BY <1>1, <1>2, <1>3 DEF Live
  <2>2. QED
    BY <2>1
<1>4. CASE disk[path] # NoFile
  <2>1. \A x \in Paths : x # path => disk[x] # disk[path]
    BY <1>4 DEF IInv, OnePlace
  <2>2. Live' = (Live \ {disk[path]}) \cup {c}
    BY <1>1, <1>2, <2>1 DEF Live
  <2>3. disk[path] \in Live
    BY <1>4 DEF Live
  <2>4. QED
    BY <2>2, <2>3
<1>5. QED
  BY <1>3, <1>4

\* What a migration left is an initial vault.
LEMMA VaultInit == Init => Vault!Init
<1> SUFFICES ASSUME Init PROVE Vault!Init
  OBVIOUS
<1>1. Live = {}
  BY DEF Live, Init
<1>2. /\ \A id \in LegacyIds : payload[id] = LegacyContent[id] /\ payload[id] # NoFile
      /\ \A id \in Ids \ LegacyIds : payload[id] = NoFile
      /\ payload \in [Ids -> Contents \cup {NoFile}]
  BY StoreAssumption DEF Init
<1>3. fate = [id \in Ids |-> IF payload[id] = NoFile THEN "new" ELSE "held"]
  BY <1>2 DEF Init
<1>4. seen = {c \in Contents : \E id \in Ids : payload[id] = c}
  BY <1>2, StoreAssumption DEF Init
<1>5. QED
  BY <1>1, <1>2, <1>3, <1>4 DEF Vault!Init, Init

\* The rename into the store is the vault's Hold.
LEMMA MoveInHolds ==
    ASSUME IInv, NEW p \in Procs, pc[p] \in {"scan_move", "guard_move"},
           MoveIn(p), UNCHANGED <<seen, consent>>
    PROVE  Vault!Next
<1> DEFINE id == draft[p].id
           path == draft[p].path
<1>1. draft[p] \in Record /\ DraftOK(p)
  BY DraftType DEF IInv, DraftInv
<1>2. id \in Ids /\ path \in Paths
  BY <1>1 DEF Record
<1>3. fate[id] = "new"
  BY <1>1 DEF DraftOK, Filling, BeforeMove
<1>4. disk[path] # NoFile /\ disk[path] \in Contents
  BY <1>2 DEF MoveIn, IInv, TypeOK
<1>5. disk[path] \in Live /\ Live' = Live \ {disk[path]}
  BY <1>2, <1>4, LiveLeaves DEF MoveIn
<1>6. Vault!Hold(id, disk[path])
  BY <1>3, <1>5 DEF MoveIn, Vault!Hold
<1>7. QED
  BY <1>2, <1>4, <1>6 DEF Vault!Next

\* The rename out of the store is the vault's Return: the item was held, and
\* the user confirmed its restore.
LEMMA RestoreReturns ==
    ASSUME IInv, ConsentInv, NEW p \in Procs, RestoreMove(p),
           payload[draft[p].id] # NoFile
    PROVE  Vault!Next
<1> DEFINE id == draft[p].id
           path == draft[p].path
<1>1. draft[p] \in Record
  BY DraftType DEF IInv, RestoreMove
<1>2. id \in Ids /\ path \in Paths
  BY <1>1 DEF Record
<1>3. fate[id] = "held" /\ payload[id] \in Contents
  BY <1>2 DEF IInv, CustodyInv, TypeOK
<1>4. <<"restore", id>> \in consent
  BY DEF ConsentInv, Restoring, RestoreMove
<1>5. \E over \in {{}} \cup {{d} : d \in Live} :
        Live' = (Live \ over) \cup {payload[id]}
  BY <1>2, <1>3, LiveArrives DEF RestoreMove
<1>6. Vault!Return(id)
  BY <1>3, <1>4, <1>5 DEF RestoreMove, Vault!Return
<1>7. QED
  BY <1>2, <1>6 DEF Vault!Next

\* The removal of a payload is the vault's Destroy: the item was held, and the
\* user confirmed its deletion.
LEMMA DeleteDestroys ==
    ASSUME IInv, ConsentInv, NEW p \in Procs, DeleteRemove(p),
           payload[draft[p].id] # NoFile
    PROVE  Vault!Next
<1> DEFINE id == draft[p].id
<1>1. id \in Ids
  BY DraftType DEF IInv, DeleteRemove, Record
<1>2. fate[id] = "held"
  BY <1>1 DEF IInv, CustodyInv
<1>3. <<"delete", id>> \in consent
  BY DEF ConsentInv, Deleting, DeleteRemove
<1>4. Vault!Destroy(id)
  BY <1>2, <1>3, LiveUntouched DEF DeleteRemove, Vault!Destroy
<1>5. QED
  BY <1>1, <1>4 DEF Vault!Next

\* Every step of the store is a step of the vault, or one the vault does not see.
LEMMA VaultStep == IInv /\ ConsentInv /\ [Next]_vars => [Vault!Next]_(Vault!vars)
<1> SUFFICES ASSUME IInv, ConsentInv, [Next]_vars
             PROVE  Vault!Next \/ UNCHANGED Vault!vars
  OBVIOUS
<1>1. ASSUME UNCHANGED <<disk, payload, fate, consent, seen>>
      PROVE  UNCHANGED Vault!vars
  BY <1>1, LiveUntouched DEF Vault!vars
<1>2. ASSUME NEW p \in Procs, NEW id \in Ids, NEW confirmed \in BOOLEAN,
             StartRestore(p, id, confirmed)
      PROVE  Vault!Next
  <2>1. Vault!Confirm("restore", id)
    BY <1>2, LiveUntouched DEF StartRestore, fsVars, Vault!Confirm
  <2>2. QED
    BY <2>1 DEF Vault!Next
<1>3. ASSUME NEW p \in Procs, NEW id \in Ids, NEW confirmed \in BOOLEAN,
             StartDelete(p, id, confirmed)
      PROVE  Vault!Next
  <2>1. Vault!Confirm("delete", id)
    BY <1>3, LiveUntouched DEF StartDelete, fsVars, Vault!Confirm
  <2>2. QED
    BY <2>1 DEF Vault!Next
<1>4. ASSUME NEW p \in Procs, ScanMove(p)
      PROVE  Vault!Next \/ UNCHANGED Vault!vars
  BY <1>1, <1>4, MoveInHolds DEF ScanMove
<1>5. ASSUME NEW p \in Procs, GuardMove(p) PROVE Vault!Next
  BY <1>5, MoveInHolds DEF GuardMove
<1>6. ASSUME NEW p \in Procs, RestoreMove(p)
      PROVE  Vault!Next \/ UNCHANGED Vault!vars
  BY <1>1, <1>6, RestoreReturns DEF RestoreMove
<1>7. ASSUME NEW p \in Procs, DeleteRemove(p)
      PROVE  Vault!Next \/ UNCHANGED Vault!vars
  BY <1>1, <1>7, DeleteDestroys DEF DeleteRemove
<1>8. ASSUME NEW path \in Paths, NEW c \in Contents, AppWrite(path, c)
      PROVE  Vault!Next
  <2>1. \E over \in {{}} \cup {{d} : d \in Live} : Live' = (Live \ over) \cup {c}
    BY <1>8, LiveArrives DEF AppWrite
  <2>2. Vault!Produce(c)
    BY <1>8, <2>1 DEF AppWrite, Vault!Produce
  <2>3. QED
    BY <2>2 DEF Vault!Next
<1>9. ASSUME NEW path \in Paths, AppRemove(path) PROVE Vault!Next
  <2>1. disk[path] \in Live /\ Live' = Live \ {disk[path]}
    BY <1>9, LiveLeaves DEF AppRemove
  <2>2. Vault!Discard(disk[path])
    BY <1>9, <2>1 DEF AppRemove, histVars, Vault!Discard
  <2>3. disk[path] \in Contents
    BY <1>9 DEF AppRemove, IInv, TypeOK
  <2>4. QED
    BY <2>2, <2>3 DEF Vault!Next
<1>10. ASSUME NEW id \in Ids, NEW c \in Contents, PayloadWrite(id, c)
       PROVE  Vault!Next
  <2>1. Vault!Rewrite(id, c)
    BY <1>10, LiveUntouched DEF PayloadWrite, Vault!Rewrite
  <2>2. QED
    BY <2>1 DEF Vault!Next
<1>11. ASSUME NEW p \in Procs,
              \/ \E id \in Ids, path \in Paths :
                   \/ StartScanQuarantine(p, path, id)
                   \/ StartGuardQuarantine(p, path, id)
              \/ ScanStat(p) \/ ScanHash(p) \/ GuardStat(p) \/ GuardMoveFails(p)
              \/ GuardPerms(p) \/ RestoreCheck(p) \/ RestoreDest(p)
              \/ DeleteCheck(p) \/ DeleteExists(p)
              \/ OpenRecord(p) \/ WriteRecord(p) \/ Interrupt(p)
       PROVE  UNCHANGED Vault!vars
  BY <1>1, <1>11
     DEF StartScanQuarantine, StartGuardQuarantine, ScanStat, ScanHash,
         GuardStat, GuardMoveFails, GuardPerms, RestoreCheck, RestoreDest,
         DeleteCheck, DeleteExists, OpenRecord, WriteRecord, Interrupt,
         fsVars, histVars
<1>12. CASE UNCHANGED vars
  BY <1>1, <1>12 DEF vars, fsVars, histVars
<1>13. QED
  BY <1>2, <1>3, <1>4, <1>5, <1>6, <1>7, <1>8, <1>9, <1>10, <1>11, <1>12
     DEF Next, Start, Step, Environment

\* QuarantineStore implements QuarantineVault: however quarantines, restores,
\* deletes and the guard's retries overlap, and wherever a process ends, each
\* content changes hands in one atomic step, each item is filled once and
\* emptied once, and only by a command the user confirmed for that item.
THEOREM ImplementsVault == Spec => VaultSpec
<1>1. Spec => Vault!Init
  BY VaultInit DEF Spec
<1>2. Spec => [][Vault!Next]_(Vault!vars)
  BY VaultStep, Invariance, Consented, PTL DEF Spec
<1>3. QED
  BY <1>1, <1>2 DEF VaultSpec, Vault!Spec

-----------------------------------------------------------------------------
(* The list at rest.                                                        *)

Working == AfterMove \cup Writing
Fills(p, id) == pc[p] \in Working /\ draft[p].id = id /\ draft[p].status = "quarantined"
Closes(p, id) == pc[p] = "open_record" /\ draft[p].id = id
Listed(id) == Readable(record[id]) /\ record[id].status = "quarantined"

\* Unless a process ended early, an item is listed if it is in the store, or will
\* be by the command that put it there; and one that has left the store is not
\* listed, or about to be closed by a command that saw it leave.
AtRestInv ==
    interrupts = 0 =>
      \A id \in Ids :
        /\ fate[id] = "held" => Listed(id) \/ \E p \in Procs : Fills(p, id)
        /\ Listed(id) => fate[id] = "held" \/ \E p \in Procs : Closes(p, id)

\* A step that moves nothing and writes no record, by a command that does not give
\* up what it has to write.
LEMMA AtRestKept ==
    ASSUME AtRestInv, UNCHANGED <<record, fate, interrupts>>,
           \A q \in Procs : pc[q] \in Working =>
             /\ pc'[q] \in Working
             /\ draft'[q].id = draft[q].id /\ draft'[q].status = draft[q].status
             /\ pc[q] = "open_record" => pc'[q] = "open_record"
    PROVE  AtRestInv'
<1> SUFFICES ASSUME interrupts = 0, NEW id \in Ids
             PROVE  /\ fate[id] = "held" => Listed(id) \/ \E p \in Procs : Fills(p, id)'
                    /\ Listed(id) => fate[id] = "held" \/ \E p \in Procs : Closes(p, id)'
  BY DEF AtRestInv, Listed
<1>1. \A p \in Procs : /\ Fills(p, id) => Fills(p, id)'
                       /\ Closes(p, id) => Closes(p, id)'
  BY DEF Fills, Closes, Working, Writing
<1>2. QED
  BY <1>1 DEF AtRestInv

\* The same, said of the process that takes the step.
LEMMA AtRestMoves ==
    ASSUME IInv, AtRestInv, UNCHANGED <<record, fate, interrupts>>, NEW p \in Procs,
           \A q \in Procs \ {p} : pc'[q] = pc[q] /\ draft'[q] = draft[q],
           pc[p] \in Working =>
             /\ pc[p] # "open_record" /\ pc'[p] \in Working
             /\ draft'[p].id = draft[p].id /\ draft'[p].status = draft[p].status
    PROVE  AtRestInv'
  BY AtRestKept DEF Working, Writing

\* A step that changes the fate or the record of the item p works on.
LEMMA AtRestItem ==
    ASSUME IInv, AtRestInv, interrupts' = interrupts, NEW p \in Procs, pc[p] # "idle",
           \A q \in Procs \ {p} : pc'[q] = pc[q] /\ draft'[q] = draft[q],
           NEW item \in Ids, item = draft[p].id,
           \A id \in Ids \ {item} : record'[id] = record[id] /\ fate'[id] = fate[id],
           fate'[item] = "held" => Listed(item)' \/ Fills(p, item)',
           Listed(item)' => fate'[item] = "held" \/ Closes(p, item)'
    PROVE  AtRestInv'
<1> SUFFICES ASSUME interrupts = 0, NEW id \in Ids
             PROVE  /\ fate'[id] = "held" =>
                         Listed(id)' \/ \E q \in Procs : Fills(q, id)'
                    /\ Listed(id)' =>
                         fate'[id] = "held" \/ \E q \in Procs : Closes(q, id)'
  BY DEF AtRestInv
<1>1. CASE id = item
  BY <1>1
<1>2. CASE id # item
  <2>1. /\ fate[id] = "held" => Listed(id) \/ \E q \in Procs : Fills(q, id)
        /\ Listed(id) => fate[id] = "held" \/ \E q \in Procs : Closes(q, id)
    BY DEF AtRestInv
  <2>2. \A q \in Procs : /\ Fills(q, id) => Fills(q, id)'
                         /\ Closes(q, id) => Closes(q, id)'
    BY <1>2 DEF Fills, Closes
  <2>3. (Listed(id)' <=> Listed(id)) /\ fate'[id] = fate[id]
    BY <1>2 DEF Listed
  <2>4. QED
    BY <2>1, <2>2, <2>3
<1>3. QED
  BY <1>1, <1>2

LEMMA AtRestNext == IInv /\ AtRestInv /\ [Next]_vars => AtRestInv'
<1> SUFFICES ASSUME IInv, AtRestInv, [Next]_vars PROVE AtRestInv'
  OBVIOUS
<1> USE DEF PCs
<1>1. ASSUME NEW p \in Procs, Start(p) PROVE AtRestInv'
  BY <1>1, AtRestMoves
     DEF Start, StartScanQuarantine, StartGuardQuarantine, StartRestore, StartDelete,
         Goto, IInv, TypeOK, Working, AfterMove, Writing, fsVars
<1>2. ASSUME NEW p \in Procs, ScanStat(p) \/ GuardStat(p) PROVE AtRestInv'
  BY <1>2, AtRestMoves
     DEF ScanStat, GuardStat, Answer, Goto, IInv, TypeOK, Working, AfterMove, Writing,
         fsVars, histVars
<1>3. ASSUME NEW p \in Procs, GuardMoveFails(p) PROVE AtRestInv'
  BY <1>3, AtRestMoves
     DEF GuardMoveFails, Answer, IInv, TypeOK, Working, AfterMove, Writing, fsVars,
         histVars
<1>4. ASSUME NEW p \in Procs, RestoreCheck(p) \/ RestoreDest(p) \/ DeleteCheck(p)
      PROVE  AtRestInv'
  BY <1>4, AtRestMoves
     DEF RestoreCheck, RestoreDest, DeleteCheck, Answer, Goto, IInv, TypeOK, Working,
         AfterMove, Writing, fsVars, histVars
<1>5. ASSUME NEW p \in Procs, ScanHash(p) \/ GuardPerms(p) PROVE AtRestInv'
  <2>1. draft[p] \in Record
    BY <1>5, DraftType DEF ScanHash, GuardPerms, IInv
  <2>2. draft'[p].id = draft[p].id /\ draft'[p].status = draft[p].status
    BY <1>5, <2>1 DEF ScanHash, GuardPerms, IInv, TypeOK, Record
  <2>3. QED
    BY <1>5, <2>2, AtRestMoves
       DEF ScanHash, GuardPerms, Goto, IInv, TypeOK, Working, AfterMove, Writing,
           fsVars, histVars
<1>6. ASSUME NEW p \in Procs, DeleteExists(p) PROVE AtRestInv'
  BY <1>6, AtRestMoves
     DEF DeleteExists, Goto, IInv, TypeOK, Working, AfterMove, Writing, fsVars, histVars
<1>7. ASSUME NEW p \in Procs, ScanMove(p) \/ GuardMove(p) PROVE AtRestInv'
  <2>1. CASE MoveIn(p)
    <3>1. /\ pc[p] \in {"scan_move", "guard_move"} /\ draft' = draft
          /\ pc'[p] \in {"scan_hash", "guard_perms"}
          /\ \A q \in Procs \ {p} : pc'[q] = pc[q]
          /\ UNCHANGED <<record, interrupts>>
      BY <1>7, <2>1 DEF ScanMove, GuardMove, MoveIn, Goto, IInv, TypeOK
    <3>2. draft[p].status = "quarantined" /\ draft[p].id \in Ids
      BY <3>1, DraftType DEF IInv, DraftInv, DraftOK, Filling, BeforeMove, Record
    <3>3. PICK item \in Ids : item = draft[p].id
      BY <3>2
    <3>4. /\ fate'[item] = "held"
          /\ \A id \in Ids \ {item} : fate'[id] = fate[id]
      BY <2>1, <3>3 DEF MoveIn, IInv, TypeOK
    <3>5. Fills(p, item)'
      BY <3>1, <3>2, <3>3 DEF Fills, Working, AfterMove
    <3>6. QED
      BY <3>1, <3>3, <3>4, <3>5, AtRestItem
  <2>2. CASE ~MoveIn(p)
    BY <1>7, <2>2, AtRestMoves
       DEF ScanMove, GuardMove, Answer, IInv, TypeOK, Working, AfterMove, Writing
  <2>3. QED
    BY <2>1, <2>2
<1>8. ASSUME NEW p \in Procs, RestoreMove(p) \/ DeleteRemove(p) PROVE AtRestInv'
  <2>1. /\ pc[p] \in {"restore_move", "delete_remove"} /\ UNCHANGED <<record, interrupts>>
        /\ \A q \in Procs \ {p} : pc'[q] = pc[q] /\ draft'[q] = draft[q]
    BY <1>8 DEF RestoreMove, DeleteRemove, Answer, Goto, IInv, TypeOK
  <2>2. draft[p] \in Record /\ draft[p].id \in Ids
    BY <2>1, DraftType DEF IInv, Record
  <2>3. PICK item \in Ids : item = draft[p].id
    BY <2>2
  <2>4. CASE payload[item] # NoFile
    <3>1. /\ pc'[p] = "open_record" /\ draft'[p].id = item
          /\ fate'[item] \in {"returned", "destroyed"}
          /\ \A id \in Ids \ {item} : fate'[id] = fate[id]
      BY <1>8, <2>2, <2>3, <2>4 DEF RestoreMove, DeleteRemove, Goto, IInv, TypeOK, Record
    <3>2. Closes(p, item)'
      BY <3>1 DEF Closes
    <3>3. QED
      BY <2>1, <2>3, <3>1, <3>2, AtRestItem
  <2>5. CASE payload[item] = NoFile
    BY <1>8, <2>1, <2>3, <2>5, AtRestMoves
       DEF RestoreMove, DeleteRemove, Working, AfterMove, Writing
  <2>6. QED
    BY <2>4, <2>5
<1>9. ASSUME NEW p \in Procs, OpenRecord(p) PROVE AtRestInv'
  <2>1. /\ pc[p] = "open_record" /\ pc'[p] = "write_record"
        /\ UNCHANGED <<draft, fate, payload, interrupts>>
        /\ \A q \in Procs \ {p} : pc'[q] = pc[q]
        /\ record' = [record EXCEPT ![draft[p].id] = Empty]
    BY <1>9 DEF OpenRecord, Goto, IInv, TypeOK, histVars
  <2>2. PICK item \in Ids : item = draft[p].id
    BY <2>1, DraftType DEF IInv, Record
  <2>3. /\ record'[item] = Empty
        /\ \A id \in Ids \ {item} : record'[id] = record[id]
    BY <2>1, <2>2 DEF IInv, TypeOK
  <2>4. ~Listed(item)'
    BY <2>3 DEF Listed, Readable
  <2>5. fate[item] = "held" => draft[p].status = "quarantined"
    BY <2>1, <2>2 DEF IInv, DraftInv, DraftOK, CustodyInv, Writing
  <2>6. fate'[item] = "held" => Fills(p, item)'
    BY <2>1, <2>2, <2>5 DEF Fills, Working, Writing
  <2>7. QED
    BY <2>1, <2>2, <2>3, <2>4, <2>6, AtRestItem
<1>10. ASSUME NEW p \in Procs, WriteRecord(p) PROVE AtRestInv'
  <2>1. /\ pc[p] = "write_record" /\ UNCHANGED <<fate, payload, interrupts>>
        /\ \A q \in Procs \ {p} : pc'[q] = pc[q] /\ draft'[q] = draft[q]
    BY <1>10 DEF WriteRecord, Answer, IInv, TypeOK, histVars
  <2>2. draft[p] \in Record
    BY <2>1, DraftType DEF IInv
  <2>3. PICK item \in Ids : item = draft[p].id
    BY <2>2 DEF Record
  <2>4. /\ record'[item] \in Overlay(record[item], draft[p])
        /\ \A id \in Ids \ {item} : record'[id] = record[id]
    BY <1>10, <2>3 DEF WriteRecord, IInv, TypeOK
  <2>5. CASE draft[p].status = "quarantined"
    <3>1. record[item] \in {NoRecord, Empty} /\ fate[item] = "held"
      BY <2>1, <2>3, <2>5 DEF IInv, DraftInv, DraftOK, Filling, Writing, BeforeMove
    <3>2. record'[item] = draft[p]
      BY <2>4, <3>1 DEF Overlay
    <3>3. Listed(item)'
      BY <2>2, <2>5, <3>2, Distinct DEF Listed
    <3>4. QED
      BY <2>1, <2>3, <2>4, <3>1, <3>3, AtRestItem
  <2>6. CASE draft[p].status # "quarantined"
    <3>1. fate[item] # "held"
      BY <2>1, <2>3, <2>6 DEF IInv, DraftInv, DraftOK, CustodyInv, Writing
    <3>2. record'[item] \in {draft[p], Garbled}
      BY <2>4 DEF Overlay
    <3>3. ~Listed(item)'
      BY <2>6, <3>2 DEF Listed, Readable
    <3>4. QED
      BY <2>1, <2>3, <2>4, <3>1, <3>3, AtRestItem
  <2>7. QED
    BY <2>5, <2>6
<1>11. ASSUME NEW p \in Procs, Interrupt(p) PROVE AtRestInv'
  BY <1>11 DEF Interrupt, AtRestInv, IInv, TypeOK
<1>12. CASE UNCHANGED <<record, fate, interrupts, pc, draft>>
  BY <1>12, AtRestKept
<1>13. QED
  BY <1>1, <1>2, <1>3, <1>4, <1>5, <1>6, <1>7, <1>8, <1>9, <1>10, <1>11, <1>12
     DEF Next, Step, Environment, AppWrite, AppRemove, PayloadWrite, procVars,
         histVars, fsVars, vars

\* As long as no process ended early, an item at rest is listed as "quarantined"
\* exactly when it is in the store (QuarantineStore::list, write_record).
THEOREM AtRestAgrees == Spec => []AtRestListMatchesStore
<1>1. Init => AtRestInv
  <2> SUFFICES ASSUME Init PROVE AtRestInv
    OBVIOUS
  <2>1. ASSUME NEW id \in LegacyIds PROVE Listed(id) /\ fate[id] = "held"
    <3>1. id \in Ids /\ fate[id] = "held"
      BY StoreAssumption DEF Init
    <3>2. record[id].status = "quarantined"
      BY <3>1, StoreAssumption DEF Init, NewRecord
    <3>3. record[id] \in Record
      <4>1. [NewRecord(id, LegacyPath[id], "scanner", LegacyContent[id])
               EXCEPT !.size = Sizes[LegacyContent[id]]] \in Record
        BY StoreAssumption, NewRecordType DEF NewRecord, Record, Statuses
      <4>2. QED
        BY <3>1, <4>1 DEF Init
    <3>4. QED
      BY <3>1, <3>2, <3>3, Distinct DEF Listed
  <2>2. ASSUME NEW id \in Ids \ LegacyIds PROVE ~Listed(id) /\ fate[id] = "new"
    BY Distinct DEF Init, Listed
  <2>3. QED
    BY <2>1, <2>2 DEF AtRestInv
<1>2. IInv /\ AtRestInv => AtRestListMatchesStore
  <2> SUFFICES ASSUME IInv, AtRestInv, interrupts = 0, NEW id \in Ids, Quiet(id)
               PROVE  fate[id] = "held" <=> Listed(id)
    BY DEF AtRestListMatchesStore, Listed
  <2>1. \A p \in Procs : ~Fills(p, id) /\ ~Closes(p, id)
    BY DEF Quiet, Fills, Closes, Working, AfterMove, Writing
  <2>2. QED
    BY <2>1 DEF AtRestInv
<1>3. QED
  BY <1>1, <1>2, AtRestNext, Invariance, PTL DEF Spec

==============================================================================
