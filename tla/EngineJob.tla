----------------------------- MODULE EngineJob -----------------------------
(***************************************************************************)
(* One scan job of the native engine, with its own quarantine.             *)
(*                                                                         *)
(* Code: zentor_native_engine/src engine.rs (scan_roots, scan_file),       *)
(* scan/file_walker.rs, scan/content_reader.rs, quarantine_store.rs        *)
(* (quarantine_file, copy_then_remove_verified).                           *)
(*                                                                         *)
(* The bytes are read once; the publisher is asked for by path, and the    *)
(* file is moved by path, each at a later time, while other programs       *)
(* replace it.  The verdict operators are those of NativeEngine.           *)
(***************************************************************************)
EXTENDS NativeEngine

VARIABLES
    mode,       \* ScanActionMode
    quick,      \* a quick scan goes three levels deep
    disk,       \* disk[p]: content or NoFile
    pc,         \* "walk", "next", "vet", "move", "remove", "verify", "record"
    todo,       \* the entries collected and not looked at yet, by their place
    cur,        \* the file at hand: path, content read, verdict
    total,      \* files collected
    scanned, skipped, threats, quarantined,   \* the summary's counters
    vault,      \* sequence of payloads: path, content, sha, recorded
    changes     \* writes of other programs so far

vars == <<mode, quick, disk, pc, todo, cur, total, scanned, skipped, threats,
          quarantined, vault, changes>>
tally == <<scanned, skipped, threats, quarantined>>
setup == <<mode, quick, total>>

Modes == {"detect_only", "lockdown_review", "auto_confirmed", "auto_high"}
\* scan_bytes_at is a function of these three.
Verdict == [p \in Paths |-> [c \in Contents |-> [signed \in BOOLEAN |->
               Assess(p, c, signed)]]]
Idle == [path |-> NoFile]

Held == [path : Paths, content : Contents, sha : Contents, recorded : BOOLEAN]

\* Every variable has its type, and there is a file at hand while one is worked
\* on (scan_file).
TypeOK ==
    /\ mode \in Modes /\ quick \in BOOLEAN
    /\ disk \in [Paths -> Contents \cup {NoFile}]
    /\ pc \in {"walk", "next", "vet", "move", "remove", "verify", "record",
               "done"}
    /\ todo \subseteq DOMAIN Entries
    /\ pc \in {"vet", "move", "remove", "verify", "record"}
         => cur.path \in Paths /\ cur.content \in Contents
    /\ scanned \in Nat /\ skipped \in Nat /\ threats \in Nat
    /\ quarantined \in Nat /\ total \in Nat
    /\ vault \in Seq(Held)
    /\ changes \in 0..MaxChanges

Init ==
    /\ Initializes
    /\ mode \in Modes /\ quick \in BOOLEAN
    /\ disk \in [Paths -> Contents \cup {NoFile}]
    /\ pc = "walk"
    /\ todo = {} /\ cur = Idle /\ vault = <<>>
    /\ scanned = 0 /\ skipped = 0 /\ threats = 0 /\ quarantined = 0
    /\ total = 0 /\ changes = 0

\* collect_files over every root: depth limit, excluded folders, unreadable
\* entries.  A file under two roots is collected twice.
Walk ==
    LET met == {i \in DOMAIN Entries :
                  /\ disk[Entries[i]] # NoFile
                  /\ ~About[Entries[i]].excluded
                  /\ quick => About[Entries[i]].depth <= 3}
        broken == {i \in met : About[Entries[i]].broken}
    IN  /\ pc = "walk"
        /\ todo' = met \ broken
        /\ skipped' = Cardinality(broken)
        /\ total' = Cardinality(todo')
        /\ pc' = "next"
        /\ UNCHANGED <<mode, quick, disk, cur, scanned, threats, quarantined,
                       vault, changes>>

\* The files are scanned in the order they were collected.
First == Min(todo)

\* read_scan_content and analyze_path.
Read ==
    LET p == Entries[First] IN
    /\ pc = "next" /\ todo # {}
    /\ disk[p] # NoFile /\ Analyzable(disk[p])
    /\ cur' = [path |-> p, content |-> disk[p]]
    /\ pc' = "vet"
    /\ UNCHANGED <<setup, disk, todo, tally, vault, changes>>

\* Every error of scan_file counts the file as skipped and goes on.
Skip ==
    /\ todo' = todo \ {First}
    /\ cur' = Idle
    /\ skipped' = skipped + 1
    /\ pc' = "next"
    /\ UNCHANGED <<scanned, threats, quarantined>>

Unreadable ==
    /\ pc = "next" /\ todo # {}
    /\ disk[Entries[First]] # NoFile => ~Analyzable(disk[Entries[First]])
    /\ Skip
    /\ UNCHANGED <<setup, disk, vault, changes>>

Count(surfaced, moved) ==
    /\ todo' = todo \ {First}
    /\ scanned' = scanned + 1
    /\ threats' = threats + (IF surfaced THEN 1 ELSE 0)
    /\ quarantined' = quarantined + (IF moved THEN 1 ELSE 0)
    /\ pc' = "next"
    /\ UNCHANGED skipped

\* The publisher is the one of the file that is at the path now.
Judge ==
    LET signed == disk[cur.path] # NoFile /\ disk[cur.path].signed
        v      == Verdict[cur.path][cur.content][signed]
    IN  /\ pc = "vet"
        /\ IF AutoQuarantines(mode, v)
           THEN /\ cur' = [path |-> cur.path, content |-> cur.content,
                           verdict |-> v]
                /\ pc' = "move"
                /\ UNCHANGED <<todo, tally>>
           ELSE cur' = Idle /\ Count(Surfaces(v), FALSE)
        /\ UNCHANGED <<setup, disk, vault, changes>>

Payload == [path |-> cur.path, content |-> disk[cur.path],
            sha |-> cur.content, recorded |-> FALSE]

Rename ==
    /\ pc = "move" /\ disk[cur.path] # NoFile
    /\ vault' = Append(vault, Payload)
    /\ disk' = [disk EXCEPT ![cur.path] = NoFile]
    /\ pc' = "verify"
    /\ UNCHANGED <<setup, todo, cur, tally, changes>>

\* copy_then_remove_verified: a copy that differs is removed again.
Copy ==
    /\ pc = "move" /\ disk[cur.path] # NoFile
    /\ IF disk[cur.path] = cur.content
       THEN /\ vault' = Append(vault, Payload)
            /\ pc' = "remove"
            /\ UNCHANGED <<todo, cur, tally>>
       ELSE Skip /\ UNCHANGED vault
    /\ UNCHANGED <<setup, disk, changes>>

MoveFails ==
    /\ pc = "move" /\ disk[cur.path] = NoFile
    /\ Skip
    /\ UNCHANGED <<setup, disk, vault, changes>>

\* remove_file takes what is at the path by then; the copy stays if it fails.
RemoveSource ==
    /\ pc = "remove"
    /\ IF disk[cur.path] = NoFile
       THEN Skip /\ UNCHANGED disk
       ELSE /\ disk' = [disk EXCEPT ![cur.path] = NoFile]
            /\ pc' = "verify"
            /\ UNCHANGED <<todo, cur, tally>>
    /\ UNCHANGED <<setup, vault, changes>>

\* Mutant: whatever was moved is vouched for.
VerifyNothing ==
    /\ pc = "verify"
    /\ pc' = "record"
    /\ UNCHANGED <<setup, disk, todo, cur, tally, vault, changes>>

Verify ==
    /\ pc = "verify"
    /\ IF vault[Len(vault)].content = vault[Len(vault)].sha
       THEN pc' = "record" /\ UNCHANGED <<todo, cur, tally>>
       ELSE Skip
    /\ UNCHANGED <<setup, disk, vault, changes>>

Record ==
    /\ pc = "record"
    /\ vault' = [vault EXCEPT ![Len(vault)].recorded = TRUE]
    /\ cur' = Idle
    /\ Count(TRUE, TRUE)
    /\ UNCHANGED <<setup, disk, changes>>

Finish ==
    /\ pc = "next" /\ todo = {}
    /\ pc' = "done"
    /\ UNCHANGED <<setup, disk, todo, cur, tally, vault, changes>>

\* Another program writes, replaces or deletes a file.
Replace ==
    /\ changes < MaxChanges
    /\ \E p \in Paths, c \in Contents \cup {NoFile} :
         c # disk[p] /\ disk' = [disk EXCEPT ![p] = c]
    /\ changes' = changes + 1
    /\ UNCHANGED <<setup, pc, todo, cur, tally, vault>>

Step ==
    \/ Walk \/ Read \/ Unreadable \/ Judge
    \/ Rename \/ Copy \/ MoveFails \/ RemoveSource \/ Verify \/ Record \/ Finish
Next == Step \/ Replace

Spec == Init /\ [][Next]_vars

-----------------------------------------------------------------------------
Proven(p, c) ==
    \/ c \in KnownBad
    \/ \E s \in SignaturePack \cup {Eicar} :
         s.confidence = "confirmed" /\ SignatureMatches(s, p, c)

\* A file is confirmed exactly if its hash is known bad or a confirmed
\* signature matches it where it is: no place, publisher or known-good entry
\* takes the proof away, and no rule, heuristic or model stands in for it
\* (RiskFusion::fuse, scan_bytes_at).  The match itself depends on the name: a
\* signature made for some types no longer matches the same bytes under an
\* extension of another type (matches_signature, detect_file_type).
ConfirmedMeansProven ==
    pc = "vet" =>
        \A signed \in BOOLEAN :
            LET v == Verdict[cur.path][cur.content][signed]
            IN  v.confidence = "confirmed" <=> Proven(cur.path, cur.content)

\* Whatever the job moves away and vouches for was proven bad where it lay, and
\* the payload is the content that was judged, even if the file was replaced between the
\* read and the move (scan_file, quarantine_file).
RecordedIsProven ==
    \A i \in DOMAIN vault :
        vault[i].recorded =>
            /\ vault[i].content = vault[i].sha
            /\ Proven(vault[i].path, vault[i].content)

=============================================================================
