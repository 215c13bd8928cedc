--------------------------- MODULE QuarantineStore ---------------------------
(***************************************************************************)
(* The on-disk quarantine shared by every Avorax process.                  *)
(*                                                                         *)
(* Code: zentor_local_core/src/quarantine/quarantine_store.rs (quarantine, *)
(* list, restore, delete) and zentor_guard_service/src/main.rs             *)
(* (quarantine of a stopped process's image).  The Flutter client starts a *)
(* new local-core process for every command, and the guard service is a    *)
(* process of its own, so commands overlap freely; nothing locks the       *)
(* store.  Each action is one file-system call of one process:             *)
(*                                                                         *)
(*   quarantine  metadata, rename into the store, permissions and hash,    *)
(*               create <id>.json, write <id>.json                         *)
(*   restore     read the record, check the payload, check the             *)
(*               destination, rename back, create/write <id>.json          *)
(*   delete      read the record, check the payload, exists?, remove,      *)
(*               create/write <id>.json                                    *)
(*                                                                         *)
(* fs::write creates (or truncates) the file and then writes it, so a      *)
(* reader, or a crash, can come between the two.  A process may end at any *)
(* step: killed with its client, or leaving through one of the functions'  *)
(* question marks on an I/O error.                                         *)
(*                                                                         *)
(* A path has one of a set of contents; every content is produced once, so *)
(* that "where is this content" has a meaning.  A hash is the content      *)
(* itself (SHA-256 has no collisions here); sizes may collide.             *)
(***************************************************************************)
EXTENDS Naturals

CONSTANTS
    Procs,          \* local-core command processes and the guard service
    Ids,            \* quarantine ids (UUIDs: every quarantine draws a new one)
    Paths,          \* original paths
    Contents,       \* file contents
    Sizes,          \* Sizes[c]: the length of content c
    RelativePaths,  \* paths that restore refuses: not absolute, or with ".."
    LegacyIds,      \* items migrated from .pasusq/.zentorq payloads
    LegacyContent,  \* LegacyContent[id]: the payload of legacy item id
    LegacyPath,     \* LegacyPath[id]: its original path
    MaxTries,       \* renames the guard attempts (10 in the code)
    MaxInterrupts,  \* bound: how often a process ends before its command does
    NoFile,         \* no file at this path
    NoRecord,       \* no <id>.json
    Empty,          \* <id>.json exists and has no bytes yet
    Garbled,        \* <id>.json has bytes that are not one JSON record
    NoDraft         \* the process runs no command

Statuses == {"quarantined", "restored", "deleted"}

\* The fields of the JSON record that decide later commands.
Record == [id : Ids, path : Paths, sha : Contents \cup {NoFile}, size : Nat,
           source : {"scanner", "guard_service"}, status : Statuses]

\* History: where a quarantine took an item from, and what it took.
Origin == [path : Paths, content : Contents]

ASSUME StoreAssumption ==
    /\ NoFile \notin Contents
    /\ Sizes \in [Contents -> Nat]
    /\ RelativePaths \subseteq Paths
    /\ LegacyIds \subseteq Ids
    /\ LegacyContent \in [LegacyIds -> Contents]
    /\ LegacyPath \in [LegacyIds -> Paths]
    /\ \A i, j \in LegacyIds : LegacyContent[i] = LegacyContent[j] => i = j
    /\ MaxTries \in Nat \ {0}
    /\ MaxInterrupts \in Nat
    /\ {NoRecord, Empty, Garbled, NoDraft} \cap Record = {}
    /\ NoRecord \notin Origin
    /\ NoRecord # Empty /\ NoRecord # Garbled /\ Empty # Garbled

VARIABLES
    \* The file system.
    disk,        \* disk[path]: the content at a user's path, or NoFile
    payload,     \* payload[id]: the content of <id>.avoraxq, or NoFile
    record,      \* record[id]: what <id>.json holds
    \* The processes.
    pc,          \* pc[p]: the next file-system call of p's command
    draft,       \* draft[p]: the record p's command works on
    tries,       \* tries[p]: renames the guard has attempted
    interrupts,  \* processes that ended early so far
    \* History: never read by an action.
    issued,      \* ids drawn by a quarantine, or migrated
    seen,        \* contents produced so far
    taken,       \* taken[id]: path and content at the rename into the store
    fate,        \* fate[id]: "new", "held", "returned" or "destroyed"
    consent      \* <<command, id>> pairs the user has confirmed

fsVars   == <<disk, payload, record>>
procVars == <<pc, draft, tries, interrupts>>
histVars == <<issued, seen, taken, fate, consent>>
vars     == <<fsVars, procVars, histVars>>

PCs == {"idle",
        "scan_stat", "scan_move", "scan_hash",        \* core quarantine
        "guard_stat", "guard_move", "guard_perms",    \* guard quarantine
        "restore_check", "restore_dest", "restore_move",
        "delete_check", "delete_exists", "delete_remove",
        "open_record", "write_record"}                \* all four commands

SizeOf(c) == IF c = NoFile THEN 0 ELSE Sizes[c]

Readable(r) == r \notin {NoRecord, Empty, Garbled}

\* ensure_quarantine_payload_path: the payload exists and is an .avoraxq file
\* of the store.  (A migrated payload keeps its .pasusq/.zentorq extension.)
PayloadPathOk(id) == payload[id] # NoFile /\ id \notin LegacyIds

\* ensure_payload_integrity.
Intact(r) == SizeOf(payload[r.id]) = r.size /\ payload[r.id] = r.sha

NewRecord(id, path, source, sha) ==
    [id |-> id, path |-> path, sha |-> sha, size |-> 0,
     source |-> source, status |-> "quarantined"]

-----------------------------------------------------------------------------
Init ==
    \* Store state: what a migration left, and nothing else.
    /\ disk = [path \in Paths |-> NoFile]
    /\ payload = [id \in Ids |->
                    IF id \in LegacyIds THEN LegacyContent[id] ELSE NoFile]
    /\ record = [id \in Ids |->
                    IF id \in LegacyIds
                    THEN [NewRecord(id, LegacyPath[id], "scanner", LegacyContent[id])
                            EXCEPT !.size = Sizes[LegacyContent[id]]]
                    ELSE NoRecord]
    /\ pc = [p \in Procs |-> "idle"]
    /\ draft = [p \in Procs |-> NoDraft]
    /\ tries = [p \in Procs |-> 0]
    /\ interrupts = 0
    /\ issued = LegacyIds
    /\ seen = {LegacyContent[id] : id \in LegacyIds}
    /\ taken = [id \in Ids |->
                    IF id \in LegacyIds
                    THEN [path |-> LegacyPath[id], content |-> LegacyContent[id]]
                    ELSE NoRecord]
    /\ fate = [id \in Ids |-> IF id \in LegacyIds THEN "held" ELSE "new"]
    /\ consent = {}

\* The command of p is over: its process has answered and exits.
Answer(p) ==
    /\ pc' = [pc EXCEPT ![p] = "idle"]
    /\ draft' = [draft EXCEPT ![p] = NoDraft]
    /\ tries' = [tries EXCEPT ![p] = 0]

\* p goes on to its next call.
Goto(p, next) == pc' = [pc EXCEPT ![p] = next]

-----------------------------------------------------------------------------
(* Quarantine by the local core: a confirmed scan verdict, or the user's    *)
(* "quarantine this file".                                                  *)

StartScanQuarantine(p, path, id) ==
    /\ pc[p] = "idle"
    /\ id \notin issued
    /\ issued' = issued \cup {id}
    /\ draft' = [draft EXCEPT ![p] = NewRecord(id, path, "scanner", NoFile)]
    /\ Goto(p, "scan_stat")
    /\ UNCHANGED <<fsVars, tries, interrupts, seen, taken, fate, consent>>

\* fs::metadata(path)?: the size goes into the record.
ScanStat(p) ==
    /\ pc[p] = "scan_stat"
    /\ IF disk[draft[p].path] # NoFile
       THEN /\ draft' = [draft EXCEPT ![p].size = SizeOf(disk[draft[p].path])]
            /\ Goto(p, "scan_move")
            /\ UNCHANGED tries
       ELSE Answer(p)
    /\ UNCHANGED <<fsVars, interrupts, histVars>>

\* Mutant: the file is copied and stays where it was.
MoveInByCopy(p) ==
    LET id == draft[p].id
        path == draft[p].path IN
    /\ disk[path] # NoFile
    /\ payload' = [payload EXCEPT ![id] = disk[path]]
    /\ UNCHANGED disk
    /\ taken' = [taken EXCEPT ![id] = [path |-> path, content |-> disk[path]]]
    /\ fate' = [fate EXCEPT ![id] = "held"]

\* The rename of whatever the path holds now to <id>.avoraxq.
MoveIn(p) ==
    LET id == draft[p].id
        path == draft[p].path IN
    /\ disk[path] # NoFile
    /\ payload' = [payload EXCEPT ![id] = disk[path]]
    /\ disk' = [disk EXCEPT ![path] = NoFile]
    /\ taken' = [taken EXCEPT ![id] = [path |-> path, content |-> disk[path]]]
    /\ fate' = [fate EXCEPT ![id] = "held"]

ScanMove(p) ==
    /\ pc[p] = "scan_move"
    /\ \/ /\ MoveIn(p)
          /\ Goto(p, "scan_hash")
          /\ UNCHANGED <<draft, tries>>
       \/ /\ disk[draft[p].path] = NoFile
          /\ Answer(p)
          /\ UNCHANGED <<disk, payload, taken, fate>>
    /\ UNCHANGED <<record, interrupts, issued, seen, consent>>

\* Mutant: the original path is hashed, not the payload.
ScanHashOfPath(p) ==
    /\ pc[p] = "scan_hash"
    /\ draft' = [draft EXCEPT ![p].sha = disk[draft[p].path]]
    /\ Goto(p, "open_record")
    /\ UNCHANGED <<fsVars, tries, interrupts, histVars>>

\* remove_executable_permissions(..)?; sha256_for_file(..)? of the payload.
ScanHash(p) ==
    /\ pc[p] = "scan_hash"
    /\ draft' = [draft EXCEPT ![p].sha = payload[draft[p].id]]
    /\ Goto(p, "open_record")
    /\ UNCHANGED <<fsVars, tries, interrupts, histVars>>

-----------------------------------------------------------------------------
(* Quarantine by the guard service, of the image of a process it stopped.   *)

\* handle_process_started hashes the image before it decides, and that hash
\* goes into the record.
StartGuardQuarantine(p, path, id) ==
    /\ pc[p] = "idle"
    /\ disk[path] # NoFile
    /\ id \notin issued
    /\ issued' = issued \cup {id}
    /\ draft' = [draft EXCEPT ![p] =
                   NewRecord(id, path, "guard_service", disk[path])]
    /\ Goto(p, "guard_stat")
    /\ UNCHANGED <<fsVars, tries, interrupts, seen, taken, fate, consent>>

\* fs::metadata(path).unwrap_or(0): a missing file has size 0.
GuardStat(p) ==
    /\ pc[p] = "guard_stat"
    /\ draft' = [draft EXCEPT ![p].size = SizeOf(disk[draft[p].path])]
    /\ Goto(p, "guard_move")
    /\ UNCHANGED <<fsVars, tries, interrupts, histVars>>

\* One of the renames, 150 ms apart.  It fails when the path is empty or the
\* image is still in use.
GuardMove(p) ==
    /\ pc[p] = "guard_move"
    /\ MoveIn(p)
    /\ Goto(p, "guard_perms")
    /\ UNCHANGED <<record, draft, tries, interrupts, issued, seen, consent>>

GuardMoveFails(p) ==
    /\ pc[p] = "guard_move"
    /\ IF tries[p] + 1 < MaxTries
       THEN /\ tries' = [tries EXCEPT ![p] = @ + 1]
            /\ UNCHANGED <<pc, draft>>
       ELSE Answer(p)
    /\ UNCHANGED <<fsVars, interrupts, histVars>>

\* remove_executable_permissions(..)?
GuardPerms(p) ==
    /\ pc[p] = "guard_perms"
    /\ Goto(p, "open_record")
    /\ UNCHANGED <<fsVars, draft, tries, interrupts, histVars>>

-----------------------------------------------------------------------------
(* Restore.                                                                 *)

\* Without confirmation, and without a readable record, the command answers
\* with an error at once.
StartRestore(p, id, confirmed) ==
    /\ pc[p] = "idle"
    /\ confirmed
    /\ consent' = consent \cup {<<"restore", id>>}
    /\ IF Readable(record[id])
       THEN /\ draft' = [draft EXCEPT ![p] = record[id]]
            /\ Goto(p, "restore_check")
       ELSE UNCHANGED <<pc, draft>>
    /\ UNCHANGED <<fsVars, tries, interrupts, issued, seen, taken, fate>>

\* ensure_quarantine_payload_path(..)?; ensure_payload_integrity(..)?.
RestoreCheck(p) ==
    /\ pc[p] = "restore_check"
    /\ IF PayloadPathOk(draft[p].id) /\ Intact(draft[p])
       THEN Goto(p, "restore_dest") /\ UNCHANGED <<draft, tries>>
       ELSE Answer(p)
    /\ UNCHANGED <<fsVars, interrupts, histVars>>

\* The destination is a plain absolute path and nothing exists there.
RestoreDest(p) ==
    /\ pc[p] = "restore_dest"
    /\ IF draft[p].path \notin RelativePaths /\ disk[draft[p].path] = NoFile
       THEN Goto(p, "restore_move") /\ UNCHANGED <<draft, tries>>
       ELSE Answer(p)
    /\ UNCHANGED <<fsVars, interrupts, histVars>>

\* Mutant: an existing destination is kept, and the payload dropped.
RestoreMoveKeepsExisting(p) ==
    LET id == draft[p].id IN
    /\ pc[p] = "restore_move"
    /\ IF payload[id] # NoFile
       THEN /\ disk' = [disk EXCEPT ![draft[p].path] =
                          IF @ = NoFile THEN payload[id] ELSE @]
            /\ payload' = [payload EXCEPT ![id] = NoFile]
            /\ fate' = [fate EXCEPT ![id] = "returned"]
            /\ draft' = [draft EXCEPT ![p].status = "restored"]
            /\ Goto(p, "open_record")
            /\ UNCHANGED tries
       ELSE Answer(p) /\ UNCHANGED <<disk, payload, fate>>
    /\ UNCHANGED <<record, interrupts, issued, seen, taken, consent>>

\* fs::rename replaces an existing destination, on Unix and on Windows.
RestoreMove(p) ==
    LET id == draft[p].id IN
    /\ pc[p] = "restore_move"
    /\ IF payload[id] # NoFile
       THEN /\ disk' = [disk EXCEPT ![draft[p].path] = payload[id]]
            /\ payload' = [payload EXCEPT ![id] = NoFile]
            /\ fate' = [fate EXCEPT ![id] = "returned"]
            /\ draft' = [draft EXCEPT ![p].status = "restored"]
            /\ Goto(p, "open_record")
            /\ UNCHANGED tries
       ELSE Answer(p) /\ UNCHANGED <<disk, payload, fate>>
    /\ UNCHANGED <<record, interrupts, issued, seen, taken, consent>>

-----------------------------------------------------------------------------
(* Delete.                                                                  *)

\* Mutant: the confirmation is not required.
StartDeleteUnasked(p, id, confirmed) ==
    /\ pc[p] = "idle"
    /\ consent' = IF confirmed THEN consent \cup {<<"delete", id>>} ELSE consent
    /\ IF Readable(record[id])
       THEN /\ draft' = [draft EXCEPT ![p] = record[id]]
            /\ Goto(p, "delete_check")
       ELSE UNCHANGED <<pc, draft>>
    /\ UNCHANGED <<fsVars, tries, interrupts, issued, seen, taken, fate>>

StartDelete(p, id, confirmed) ==
    /\ pc[p] = "idle"
    /\ confirmed
    /\ consent' = consent \cup {<<"delete", id>>}
    /\ IF Readable(record[id])
       THEN /\ draft' = [draft EXCEPT ![p] = record[id]]
            /\ Goto(p, "delete_check")
       ELSE UNCHANGED <<pc, draft>>
    /\ UNCHANGED <<fsVars, tries, interrupts, issued, seen, taken, fate>>

DeleteCheck(p) ==
    /\ pc[p] = "delete_check"
    /\ IF PayloadPathOk(draft[p].id)
       THEN Goto(p, "delete_exists") /\ UNCHANGED <<draft, tries>>
       ELSE Answer(p)
    /\ UNCHANGED <<fsVars, interrupts, histVars>>

\* Mutant: the record is closed and the payload left behind.
DeleteExistsOnly(p) ==
    /\ pc[p] = "delete_exists"
    /\ draft' = [draft EXCEPT ![p].status = "deleted"]
    /\ Goto(p, "open_record")
    /\ UNCHANGED <<fsVars, tries, interrupts, histVars>>

\* if quarantine_path.exists(): a payload that left since the check is not
\* an error, and the record is closed all the same.
DeleteExists(p) ==
    /\ pc[p] = "delete_exists"
    /\ IF payload[draft[p].id] # NoFile
       THEN Goto(p, "delete_remove") /\ UNCHANGED draft
       ELSE /\ draft' = [draft EXCEPT ![p].status = "deleted"]
            /\ Goto(p, "open_record")
    /\ UNCHANGED <<fsVars, tries, interrupts, histVars>>

\* Mutant: the record keeps its status.
DeleteRemoveUnmarked(p) ==
    /\ pc[p] = "delete_remove"
    /\ IF payload[draft[p].id] # NoFile
       THEN /\ payload' = [payload EXCEPT ![draft[p].id] = NoFile]
            /\ fate' = [fate EXCEPT ![draft[p].id] = "destroyed"]
            /\ Goto(p, "open_record")
            /\ UNCHANGED <<draft, tries>>
       ELSE Answer(p) /\ UNCHANGED <<payload, fate>>
    /\ UNCHANGED <<disk, record, interrupts, issued, seen, taken, consent>>

DeleteRemove(p) ==
    LET id == draft[p].id IN
    /\ pc[p] = "delete_remove"
    /\ IF payload[id] # NoFile
       THEN /\ payload' = [payload EXCEPT ![id] = NoFile]
            /\ fate' = [fate EXCEPT ![id] = "destroyed"]
            /\ draft' = [draft EXCEPT ![p].status = "deleted"]
            /\ Goto(p, "open_record")
            /\ UNCHANGED tries
       ELSE Answer(p) /\ UNCHANGED <<payload, fate>>
    /\ UNCHANGED <<disk, record, interrupts, issued, seen, taken, consent>>

-----------------------------------------------------------------------------
(* write_record and write_quarantine_record: fs::write.                     *)

\* Mutant: the record is created and never written.
OpenRecordOnly(p) ==
    /\ pc[p] = "open_record"
    /\ record' = [record EXCEPT ![draft[p].id] = Empty]
    /\ Answer(p)
    /\ UNCHANGED <<disk, payload, interrupts, histVars>>

OpenRecord(p) ==
    /\ pc[p] = "open_record"
    /\ record' = [record EXCEPT ![draft[p].id] = Empty]
    /\ Goto(p, "write_record")
    /\ UNCHANGED <<disk, payload, draft, tries, interrupts, histVars>>

\* The serialized status is the only field whose length two commands can
\* disagree on.
StatusLength == [quarantined |-> 11, restored |-> 8, deleted |-> 7]

\* Each writer starts at offset 0.  What another process wrote since our
\* truncation sticks out behind a shorter record.
Overlay(old, new) ==
    IF old \in {NoRecord, Empty} THEN {new}
    ELSE IF old = Garbled THEN {new, Garbled}
    ELSE IF StatusLength[old.status] > StatusLength[new.status] THEN {Garbled}
    ELSE {new}

WriteRecord(p) ==
    /\ pc[p] = "write_record"
    /\ \E result \in Overlay(record[draft[p].id], draft[p]) :
         record' = [record EXCEPT ![draft[p].id] = result]
    /\ Answer(p)
    /\ UNCHANGED <<disk, payload, interrupts, histVars>>

-----------------------------------------------------------------------------
\* The process of p ends before its command does.  The store stays as it is.
Interrupt(p) ==
    /\ pc[p] # "idle"
    /\ interrupts < MaxInterrupts
    /\ interrupts' = interrupts + 1
    /\ Answer(p)
    /\ UNCHANGED <<fsVars, histVars>>

(* The user's applications, and whatever else writes to the disk.           *)

AppWrite(path, c) ==
    /\ c \notin seen
    /\ disk' = [disk EXCEPT ![path] = c]
    /\ seen' = seen \cup {c}
    /\ UNCHANGED <<payload, record, procVars, issued, taken, fate, consent>>

AppRemove(path) ==
    /\ disk[path] # NoFile
    /\ disk' = [disk EXCEPT ![path] = NoFile]
    /\ UNCHANGED <<payload, record, procVars, histVars>>

\* A program that had the file open when it was moved writes on, or the
\* payload is tampered with.
PayloadWrite(id, c) ==
    /\ payload[id] # NoFile
    /\ c \notin seen
    /\ payload' = [payload EXCEPT ![id] = c]
    /\ seen' = seen \cup {c}
    /\ UNCHANGED <<disk, record, procVars, issued, taken, fate, consent>>

-----------------------------------------------------------------------------
Start(p) ==
    \E id \in Ids :
      \/ \E path \in Paths : StartScanQuarantine(p, path, id)
      \/ \E path \in Paths : StartGuardQuarantine(p, path, id)
      \/ \E confirmed \in BOOLEAN : StartRestore(p, id, confirmed)
      \/ \E confirmed \in BOOLEAN : StartDelete(p, id, confirmed)

Step(p) ==
    \/ ScanStat(p) \/ ScanMove(p) \/ ScanHash(p)
    \/ GuardStat(p) \/ GuardMove(p) \/ GuardMoveFails(p) \/ GuardPerms(p)
    \/ RestoreCheck(p) \/ RestoreDest(p) \/ RestoreMove(p)
    \/ DeleteCheck(p) \/ DeleteExists(p) \/ DeleteRemove(p)
    \/ OpenRecord(p) \/ WriteRecord(p)

Environment ==
    \E c \in Contents :
      \/ \E path \in Paths : AppWrite(path, c)
      \/ \E id \in Ids : PayloadWrite(id, c)

Next ==
    \/ \E p \in Procs : Start(p) \/ Step(p) \/ Interrupt(p)
    \/ Environment
    \/ \E path \in Paths : AppRemove(path)

Spec == Init /\ [][Next]_vars

-----------------------------------------------------------------------------
(* Properties.                                                              *)

\* The shape of the state: the draft of a running command is a full record,
\* and only items that were filled have a history.
TypeOK ==
    /\ disk \in [Paths -> Contents \cup {NoFile}]
    /\ payload \in [Ids -> Contents \cup {NoFile}]
    /\ record \in [Ids -> Record \cup {NoRecord, Empty, Garbled}]
    /\ pc \in [Procs -> PCs]
    /\ draft \in [Procs -> Record \cup {NoDraft}]
    /\ \A p \in Procs : pc[p] = "idle" <=> draft[p] = NoDraft
    /\ tries \in [Procs -> 0..MaxTries]
    /\ interrupts \in 0..MaxInterrupts
    /\ issued \subseteq Ids
    /\ seen \subseteq Contents
    /\ taken \in [Ids -> Origin \cup {NoRecord}]
    /\ fate \in [Ids -> {"new", "held", "returned", "destroyed"}]
    /\ consent \subseteq {"restore", "delete"} \X Ids

\* No content is in two places: a quarantine or a restore that is cut short,
\* raced or repeated never leaves a second copy of the file, live or held.
OnePlace ==
    /\ \A x, y \in Paths : disk[x] = disk[y] /\ disk[x] # NoFile => x = y
    /\ \A i, j \in Ids : payload[i] = payload[j] /\ payload[i] # NoFile => i = j
    /\ \A x \in Paths, i \in Ids : disk[x] = payload[i] => disk[x] = NoFile

\* A record that says its item left the store ("restored" or "deleted") never
\* stands beside the payload: whatever two commands on one item do to each
\* other, the UI does not show as gone a threat that is still in the store.
ClosedRecordHasNoPayload ==
    \A id \in Ids :
      Readable(record[id]) /\ record[id].status # "quarantined"
        => payload[id] = NoFile

\* A readable record leads back to the path its payload was taken from; and
\* one the scanner wrote has the hash of what was really moved, although the
\* file could change until the rename (quarantine_file hashes the payload
\* after it).
RecordVouches ==
    \A id \in Ids :
      Readable(record[id]) =>
        /\ record[id].path = taken[id].path
        /\ record[id].source = "scanner" /\ payload[id] = taken[id].content
             => record[id].sha = payload[id]

Quiet(id) == \A p \in Procs : pc[p] = "idle" \/ draft[p].id # id

\* As long as no process ended early, an item no command is working on is
\* listed as "quarantined" exactly when it is in the store: no interleaving of
\* quarantines, restores and deletes loses an item or lists a ghost.
AtRestListMatchesStore ==
    interrupts = 0 =>
      \A id \in Ids :
        Quiet(id) =>
          (fate[id] = "held"
             <=> Readable(record[id]) /\ record[id].status = "quarantined")

\* A record that was closed stays closed: <id>.json is written as
\* "quarantined" only while the item is in the store, across truncation,
\* crashes and commands that read the record long ago.
RecordNeverReopens ==
    [][\A id \in Ids :
         Readable(record'[id]) /\ record'[id].status = "quarantined"
             /\ record'[id] # record[id]
           => fate[id] = "held"]_vars

\* A restored content comes back at the path it was taken from.
ReturnsToOrigin ==
    [][\A id \in Ids :
         fate[id] # "returned" /\ fate'[id] = "returned"
           => disk'[taken[id].path] = payload[id]]_vars

\* Refinement: custody of the contents, seen without records, processes and
\* crashes, changes in the atomic steps of QuarantineVault, and leaves the
\* store only by a command the user confirmed for that item.
Live == {disk[path] : path \in Paths} \ {NoFile}

Vault == INSTANCE QuarantineVault WITH live <- Live, held <- payload

VaultSpec == Vault!Spec

-----------------------------------------------------------------------------
(* The inductive invariant behind the safety properties.                    *)

BeforeMove == {"scan_stat", "scan_move", "guard_stat", "guard_move"}
AfterMove == {"scan_hash", "guard_perms"}
Writing == {"open_record", "write_record"}
Emptying == {"restore_check", "restore_dest", "restore_move",
             "delete_check", "delete_exists", "delete_remove"}

\* p's command fills a new item.
Filling(p) ==
    \/ pc[p] \in BeforeMove \cup AfterMove
    \/ pc[p] \in Writing /\ draft[p].status = "quarantined"

\* r, a record or a draft, tells where its item's payload came from.
TracesBack(r) ==
    /\ r.path = taken[r.id].path
    /\ r.source = "scanner" /\ payload[r.id] = taken[r.id].content
         => r.sha = payload[r.id]

\* The store's contents are all accounted for by the history variables.
CustodyInv ==
    /\ \A path \in Paths : disk[path] \in seen \cup {NoFile}
    /\ \A id \in Ids :
         /\ payload[id] \in seen \cup {NoFile}
         /\ fate[id] = "held" <=> payload[id] # NoFile
         /\ fate[id] # "new" => /\ id \in issued
                                /\ taken[id] # NoRecord
                                /\ taken[id].content \in seen

\* A running command knows its item: a filling one is ahead of every reader
\* of its record; every other one works on an item that was filled, with a
\* record that leads back to where it was taken from.
DraftOK(p) ==
    /\ draft[p].id \in issued
    /\ Filling(p) =>
         /\ draft[p].status = "quarantined"
         /\ record[draft[p].id] \in {NoRecord, Empty}
         /\ fate[draft[p].id] = IF pc[p] \in BeforeMove THEN "new" ELSE "held"
    /\ pc[p] \in {"guard_stat", "guard_move"}
         => draft[p].source = "guard_service"
    /\ pc[p] \notin BeforeMove =>
         /\ fate[draft[p].id] # "new"
         /\ draft[p].path = taken[draft[p].id].path
         /\ pc[p] # "scan_hash" => TracesBack(draft[p])
    /\ pc[p] \in Writing /\ draft[p].status # "quarantined"
         => payload[draft[p].id] = NoFile

DraftInv == \A p \in Procs : pc[p] # "idle" => DraftOK(p)

\* A command that fills an item has it to itself.
SoleOwner ==
    \A p, q \in Procs :
      Filling(p) /\ pc[q] # "idle" /\ draft[q].id = draft[p].id => p = q

\* A record belongs to a filled item and traces back to its origin.
RecordInv ==
    \A id \in Ids :
      /\ record[id] # NoRecord => id \in issued
      /\ Readable(record[id]) =>
           /\ record[id].id = id
           /\ fate[id] # "new"
           /\ TracesBack(record[id])
           /\ record[id].status # "quarantined" => payload[id] = NoFile

\* The parts together: what the proofs carry from step to step.
IInv ==
    /\ TypeOK
    /\ OnePlace
    /\ CustodyInv
    /\ DraftInv
    /\ SoleOwner
    /\ RecordInv
==============================================================================
