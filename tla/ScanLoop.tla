------------------------------- MODULE ScanLoop -------------------------------
(***************************************************************************)
(* One scan of the local core, from the walk to the report.                *)
(*                                                                         *)
(* Code: zentor_local_core/src/main.rs (scan_paths,                        *)
(* native_should_quarantine, quarantine_selected_file),                    *)
(* scanner/file_walker.rs (collect_accessible_files_with_options) and      *)
(* allowlist/allowlist_store.rs (add, is_allowlisted).                     *)
(*                                                                         *)
(* The scan collects files first and looks at them one by one: it reads a  *)
(* file and judges it, reads the allowlist file again, and moves whatever  *)
(* the path holds by then.  Meanwhile applications write, and the user may *)
(* allowlist a file in another core process.  The native engine is a       *)
(* function from contents to verdicts; the move is one step here and is    *)
(* taken apart in QuarantineStore.                                         *)
(***************************************************************************)
EXTENDS Naturals, Sequences, FiniteSets

CONSTANTS
    Files, Contents,
    Locations,   \* the scan's roots: a sequence of sequences of entries
    Pruned,      \* <<location, entry>>: below a folder that is not walked
    Links,       \* <<location, entry>>: a link, or anything but a file
    Verdict,     \* Verdict[c]: "clean", "suspicious" or "confirmed"
    Risky,       \* files a quick scan looks at (by name)
    Limit,       \* files a quick scan collects (5000 in the code)
    MaxChanges,  \* bound: writes of other programs, and allowlist entries
    NoFile

ASSUME ScanAssumption ==
    /\ Locations \in Seq(Seq(Files))
    /\ Pruned \subseteq Nat \X Nat
    /\ Links \subseteq Nat \X Nat
    /\ Verdict \in [Contents -> {"clean", "suspicious", "confirmed"}]
    /\ Risky \subseteq Files
    /\ Limit \in Nat \ {0}
    /\ MaxChanges \in Nat
    /\ NoFile \notin Contents

VARIABLES
    kind,        \* "quick" or "full"
    actionMode,  \* "detect_only" or "auto_quarantine"
    disk,        \* disk[f]: content, or NoFile (missing or not readable)
    allowlist,   \* entries of the allowlist file
    vault,       \* <<file, content>> pairs this scan moved to quarantine
    orphans,     \* pairs it moved and then failed to record
    pc,          \* "walk", "next", "judged", "done"
    location, entry,  \* the walker's position
    todo,        \* todo[f]: how often f was collected and not yet looked at
    current,     \* the threat at hand: file, judged content, status
    scanned, skipped, suspicious, quarantined,   \* the report's counters
    total,       \* files collected
    threats,     \* the report's list
    status,      \* the report's status
    changes,
    judged       \* history: <<file, content>> pairs the engine judged

scanVars == <<kind, actionMode, pc, location, entry, todo, current, scanned,
              skipped, suspicious, quarantined, total, threats, status,
              judged>>
vars == <<disk, allowlist, vault, orphans, scanVars, changes>>

Threats == [file : Files, content : Contents,
            status : {"detected", "allowlisted", "quarantined"}]
NoThreat == [file |-> NoFile]

\* add stores "sha256:<hex>"; the engine's hash is the hex alone.
Prefixed(c) == <<"sha256", c>>
Plain(c) == c

Surfaced(c) == Verdict[c] # "clean"

\* Mutant: whatever the report lists is moved.
ShouldQuarantineSurfaced(c) ==
    actionMode = "auto_quarantine" /\ Surfaced(c)

\* Both automatic modes come to this: only ConfirmedMalware and TestThreat have
\* the confidence "confirmed", and both count as ConfirmedMalware.
ShouldQuarantine(c) ==
    actionMode = "auto_quarantine" /\ Verdict[c] = "confirmed"

\* File entries match by path and by hash; normalize_hash_text only trims and
\* lowers the case.
IsAllowlisted(f, sha) == \E e \in allowlist : e.file = f /\ e.sha = sha

Full == kind = "quick" /\ total >= Limit

-----------------------------------------------------------------------------
Init ==
    /\ kind \in {"quick", "full"}
    /\ actionMode \in {"detect_only", "auto_quarantine"}
    /\ disk \in [Files -> Contents \cup {NoFile}]
    /\ allowlist = {}
    /\ vault = {}
    /\ orphans = {}
    /\ pc = "walk"
    /\ location = 1 /\ entry = 1
    /\ todo = [f \in Files |-> 0]
    /\ current = NoThreat
    /\ scanned = 0 /\ skipped = 0 /\ suspicious = 0 /\ quarantined = 0
    /\ total = 0
    /\ threats = <<>>
    /\ status = "running"
    /\ changes = 0
    /\ judged = {}

AtEntry == location <= Len(Locations) /\ entry <= Len(Locations[location])
Here == <<location, entry>>

\* should_descend (".git", "node_modules", "target", "build" and their like)
\* keeps whole folders from the walk; nothing counts them.
PassPruned ==
    /\ pc = "walk"
    /\ AtEntry
    /\ Here \in Pruned
    /\ entry' = entry + 1
    /\ UNCHANGED <<kind, actionMode, disk, allowlist, vault, orphans, pc,
                   location, todo, current, scanned, skipped, suspicious,
                   quarantined, total, threats, status, changes, judged>>

\* A link is passed over; nothing counts it either.
PassLink ==
    /\ pc = "walk"
    /\ AtEntry
    /\ Here \in Links \ Pruned
    /\ ~Full
    /\ entry' = entry + 1
    /\ UNCHANGED <<kind, actionMode, disk, allowlist, vault, orphans, pc,
                   location, todo, current, scanned, skipped, suspicious,
                   quarantined, total, threats, status, changes, judged>>

\* add_file: a file of no interest, or without metadata, counts as skipped.  (A
\* location that is missing counts once; here each of its files does.)
Collect ==
    LET f == Locations[location][entry] IN
    /\ pc = "walk"
    /\ AtEntry
    /\ Here \notin Pruned \cup Links
    /\ ~Full
    /\ IF (kind = "quick" => f \in Risky) /\ disk[f] # NoFile
       THEN /\ todo' = [todo EXCEPT ![f] = @ + 1]
            /\ total' = total + 1
            /\ UNCHANGED skipped
       ELSE /\ skipped' = skipped + 1
            /\ UNCHANGED <<todo, total>>
    /\ entry' = entry + 1
    /\ UNCHANGED <<kind, actionMode, disk, allowlist, vault, orphans, pc, location,
                   current, scanned, suspicious, quarantined, threats, status,
                   changes, judged>>

\* The limit is met inside a location: one skip stands for the rest.
CutLocation ==
    /\ pc = "walk"
    /\ AtEntry
    /\ Here \notin Pruned
    /\ Full
    /\ skipped' = skipped + 1
    /\ location' = Len(Locations) + 1
    /\ UNCHANGED <<kind, actionMode, disk, allowlist, vault, orphans, pc, entry, todo,
                   current, scanned, suspicious, quarantined, total, threats,
                   status, changes, judged>>

\* The end of a location.  At the limit the other locations are left out.
EndLocation ==
    /\ pc = "walk"
    /\ location <= Len(Locations)
    /\ ~AtEntry
    /\ location' = IF Full THEN Len(Locations) + 1 ELSE location + 1
    /\ entry' = 1
    /\ UNCHANGED <<kind, actionMode, disk, allowlist, vault, orphans, pc, todo,
                   current, scanned, skipped, suspicious, quarantined, total,
                   threats, status, changes, judged>>

EndWalk ==
    /\ pc = "walk"
    /\ location > Len(Locations)
    /\ pc' = "next"
    /\ UNCHANGED <<kind, actionMode, disk, allowlist, vault, orphans, location, entry,
                   todo, current, scanned, skipped, suspicious, quarantined,
                   total, threats, status, changes, judged>>

-----------------------------------------------------------------------------
\* The engine reads and judges one file.  The order of the files (by priority)
\* tells no property apart: any file may be next.
ScanFile(f) ==
    /\ pc = "next"
    /\ todo[f] > 0
    /\ todo' = [todo EXCEPT ![f] = @ - 1]
    /\ scanned' = scanned + 1
    /\ IF disk[f] = NoFile
       THEN skipped' = skipped + 1 /\ UNCHANGED judged
       ELSE judged' = judged \cup {<<f, disk[f]>>} /\ UNCHANGED skipped
    /\ IF disk[f] # NoFile /\ Surfaced(disk[f])
       THEN /\ pc' = "judged"
            /\ current' = [file |-> f, content |-> disk[f],
                            status |-> "detected"]
            /\ suspicious' = suspicious
                            + (IF Verdict[disk[f]] = "confirmed" THEN 0 ELSE 1)
       ELSE UNCHANGED <<pc, current, suspicious>>
    /\ UNCHANGED <<kind, actionMode, disk, allowlist, vault, orphans, location, entry,
                   quarantined, total, threats, status, changes>>

\* The threat goes into the report with the status it got.
Push(threat) ==
    /\ pc' = "next"
    /\ threats' = Append(threats, threat)
    /\ current' = NoThreat

KeepThreat ==
    /\ pc = "judged"
    /\ LET allowed == IsAllowlisted(current.file, Plain(current.content)) IN
         /\ allowed \/ ~ShouldQuarantine(current.content)
         /\ Push([current EXCEPT !.status = IF allowed THEN "allowlisted"
                                                       ELSE "detected"])
    /\ UNCHANGED <<kind, actionMode, disk, allowlist, vault, orphans, location, entry,
                   todo, scanned, skipped, suspicious, quarantined, total,
                   status, changes, judged>>

\* Mutant: a move that failed half-way counts as a quarantine.
QuarantineThreatBlindly ==
    LET f == current.file IN
    /\ pc = "judged"
    /\ ~IsAllowlisted(f, Plain(current.content))
    /\ ShouldQuarantine(current.content)
    /\ \/ /\ disk[f] # NoFile
          /\ disk' = [disk EXCEPT ![f] = NoFile]
          /\ \/ vault' = vault \cup {<<f, disk[f]>>} /\ UNCHANGED orphans
             \/ orphans' = orphans \cup {<<f, disk[f]>>} /\ UNCHANGED vault
          /\ quarantined' = quarantined + 1
          /\ Push([current EXCEPT !.status = "quarantined"])
       \/ Push(current) /\ UNCHANGED <<vault, orphans, disk, quarantined>>
    /\ UNCHANGED <<kind, actionMode, allowlist, location, entry, todo,
                   scanned, skipped, suspicious, total, status, changes,
                   judged>>

\* quarantine_selected_file moves what the path holds now, and records it.  It
\* may fail before the move (the file is gone, or in use) and after it
\* (permissions, hash, record): either error is dropped, the threat stays
\* "detected", and the moved file is in the store without a whole record.
QuarantineThreat ==
    LET f == current.file
        moved == <<f, disk[f]>> IN
    /\ pc = "judged"
    /\ ~IsAllowlisted(f, Plain(current.content))
    /\ ShouldQuarantine(current.content)
    /\ \/ /\ disk[f] # NoFile
          /\ disk' = [disk EXCEPT ![f] = NoFile]
          /\ vault' = vault \cup {moved}
          /\ quarantined' = quarantined + 1
          /\ Push([current EXCEPT !.status = "quarantined"])
          /\ UNCHANGED orphans
       \/ /\ disk[f] # NoFile
          /\ disk' = [disk EXCEPT ![f] = NoFile]
          /\ orphans' = orphans \cup {moved}
          /\ Push(current)
          /\ UNCHANGED <<vault, quarantined>>
       \/ Push(current) /\ UNCHANGED <<vault, orphans, disk, quarantined>>
    /\ UNCHANGED <<kind, actionMode, allowlist, location, entry, todo,
                   scanned, skipped, suspicious, total, status, changes,
                   judged>>

ReportStatus(skips) ==
    IF threats # <<>> THEN "threats_found"
    ELSE IF skips > 0 THEN "completed_with_errors"
    ELSE "clean"

Finish(skips) ==
    /\ pc' = "done"
    /\ skipped' = skips
    /\ status' = ReportStatus(skips)
    /\ UNCHANGED <<kind, actionMode, disk, allowlist, vault, orphans, location, entry,
                   todo, current, scanned, suspicious, quarantined, total,
                   threats, changes, judged>>

FinishScan == pc = "next" /\ (\A f \in Files : todo[f] = 0) /\ Finish(skipped)

\* Mutant: files left out for lack of time do not count as skipped.
DeadlineUncounted ==
    /\ pc = "next"
    /\ kind = "full"
    /\ \E f \in Files : todo[f] > 0
    /\ Finish(skipped)

\* FULL_SCAN_MAX_SECONDS: the rest of the files counts as one skip.
Deadline ==
    /\ pc = "next"
    /\ kind = "full"
    /\ \E f \in Files : todo[f] > 0
    /\ Finish(skipped + 1)

-----------------------------------------------------------------------------
(* Others: an application writes, and "add to allowlist" runs in a core     *)
(* process of its own.                                                      *)

OthersWrite(f, c) ==
    /\ changes < MaxChanges
    /\ changes' = changes + 1
    /\ disk' = [disk EXCEPT ![f] = c]
    /\ UNCHANGED <<allowlist, vault, orphans, scanVars>>

AddAllowlistEntry(f) ==
    /\ changes < MaxChanges
    /\ changes' = changes + 1
    /\ disk[f] # NoFile
    /\ allowlist' = allowlist \cup {[file |-> f, sha |-> Prefixed(disk[f])]}
    /\ UNCHANGED <<disk, vault, orphans, scanVars>>

Scan ==
    \/ PassPruned \/ PassLink \/ Collect \/ CutLocation \/ EndLocation \/ EndWalk
    \/ \E f \in Files : ScanFile(f)
    \/ KeepThreat \/ QuarantineThreat
    \/ FinishScan \/ Deadline

Next ==
    \/ Scan
    \/ \E f \in Files : AddAllowlistEntry(f)
                        \/ \E c \in Contents \cup {NoFile} : OthersWrite(f, c)

Spec == Init /\ [][Next]_vars

-----------------------------------------------------------------------------
(* Properties.                                                              *)

\* What the walk is there to find: the entries of the locations but for pruned
\* folders and links.
ReachedFiles == {f \in Files : \E l \in 1..Len(Locations) :
                                 \E i \in 1..Len(Locations[l]) :
                                   /\ Locations[l][i] = f
                                   /\ <<l, i>> \notin Pruned \cup Links}

\* The shape of the state.
TypeOK ==
    /\ kind \in {"quick", "full"}
    /\ actionMode \in {"detect_only", "auto_quarantine"}
    /\ disk \in [Files -> Contents \cup {NoFile}]
    /\ allowlist \subseteq [file : Files, sha : {Prefixed(c) : c \in Contents}]
    /\ vault \subseteq Files \X Contents
    /\ orphans \subseteq Files \X Contents
    /\ pc \in {"walk", "next", "judged", "done"}
    /\ location \in 1..(Len(Locations) + 1)
    /\ entry \in Nat \ {0}
    /\ todo \in [Files -> Nat]
    /\ current \in Threats \cup {NoThreat}
    /\ (pc = "judged") = (current # NoThreat)
    /\ {scanned, skipped, suspicious, quarantined, total} \subseteq Nat
    /\ threats \in Seq(Threats)
    /\ status \in {"running", "threats_found", "completed_with_errors", "clean"}
    /\ changes \in 0..MaxChanges
    /\ judged \subseteq Files \X Contents

\* A full scan says "clean" only if every file that its walk does not pass over
\* by rule (pruned folders, links) was read and judged, and nothing that was
\* judged gave cause for concern: a denied or vanished file, the deadline or a
\* failed read can never hide behind it.
CleanMeansJudged ==
    status = "clean" =>
      /\ \A pair \in judged : Verdict[pair[2]] = "clean"
      /\ kind = "full" => \A f \in ReachedFiles :
                            \E pair \in judged : pair[1] = f

Having(s) == {i \in 1..Len(threats) : threats[i].status = s}

\* The report agrees with the store: it counts as many quarantined files as it
\* lists, each of them has a file with a record in the store, and each file with
\* a record is listed as quarantined; a file that was moved and not recorded is
\* not counted, and is still listed as detected.  Every other finding is listed.
ReportAddsUp ==
    /\ quarantined = Cardinality(Having("quarantined"))
    /\ \A i \in Having("quarantined") :
         \E pair \in vault : pair[1] = threats[i].file
    /\ \A pair \in vault :
         \E i \in Having("quarantined") : threats[i].file = pair[1]
    /\ \A pair \in orphans :
         \E i \in Having("detected") : threats[i].file = pair[1]
    /\ suspicious <= Len(threats) + (IF pc = "judged" THEN 1 ELSE 0)
    /\ pc = "done" /\ kind = "quick" => scanned = total

\* A file leaves its place only in a scan that may act, and only if a file at
\* that path was judged confirmed; "detect only" moves nothing.
QuarantineHasCause ==
    \A pair \in vault \cup orphans :
      /\ actionMode = "auto_quarantine"
      /\ \E verdict \in judged :
           verdict[1] = pair[1] /\ Verdict[verdict[2]] = "confirmed"
==============================================================================
