--------------------------- MODULE QuarantineVault ---------------------------
(***************************************************************************)
(* What the quarantine promises about custody of file contents, with no    *)
(* record files, no processes and no crashes.                              *)
(*                                                                         *)
(* A content is live (some path of the user's disk has it), held (the      *)
(* payload of one vault item) or gone.  Each item is filled once and       *)
(* emptied once, and it is emptied only after the user confirmed a restore *)
(* or a delete of that very item.  Every change of custody is one step:    *)
(* nobody can observe a content in two places, or in none.                 *)
(*                                                                         *)
(* The promise is ARCHITECTURE.md's "Quarantine is intended to be          *)
(* reversible and explicit"; QuarantineStore refines this module.          *)
(***************************************************************************)
CONSTANTS Ids,        \* vault items (quarantine ids)
          Contents,   \* file contents, each produced at most once
          NoFile      \* no content

VARIABLES live,       \* contents some path of the disk has
          held,       \* held[id]: the content item id holds, or NoFile
          fate,       \* fate[id]: "new", "held", "returned" or "destroyed"
          consent,    \* <<command, item>> pairs the user has confirmed
          seen        \* contents produced so far

vars == <<live, held, fate, consent, seen>>

Init ==
    /\ live = {}
    /\ held \in [Ids -> Contents \cup {NoFile}]
    /\ fate = [id \in Ids |-> IF held[id] = NoFile THEN "new" ELSE "held"]
    /\ consent = {}
    /\ seen = {c \in Contents : \E id \in Ids : held[id] = c}

\* An application writes a new content, over at most one live content, or
\* removes one: the applications own the live contents.
Produce(c) ==
    /\ c \in Contents \ seen
    /\ seen' = seen \cup {c}
    /\ \E over \in {{}} \cup {{d} : d \in live} : live' = (live \ over) \cup {c}
    /\ UNCHANGED <<held, fate, consent>>

Discard(c) ==
    /\ c \in live
    /\ live' = live \ {c}
    /\ UNCHANGED <<held, fate, consent, seen>>

\* Something outside the product rewrites a held payload in place.
Rewrite(id, c) ==
    /\ held[id] # NoFile
    /\ c \in Contents \ seen
    /\ held' = [held EXCEPT ![id] = c]
    /\ seen' = seen \cup {c}
    /\ UNCHANGED <<live, fate, consent>>

\* Quarantine: a live content becomes the content of a new item.
Hold(id, c) ==
    /\ fate[id] = "new"
    /\ c \in live
    /\ live' = live \ {c}
    /\ held' = [held EXCEPT ![id] = c]
    /\ fate' = [fate EXCEPT ![id] = "held"]
    /\ UNCHANGED <<consent, seen>>

\* The user confirms a restore, or a permanent delete, of one item.
Confirm(command, id) ==
    /\ consent' = consent \cup {<<command, id>>}
    /\ UNCHANGED <<live, held, fate, seen>>

\* Restore: the item's content is live again.  The path it goes to may have
\* been taken meanwhile; at most that one live content is replaced.
Return(id) ==
    /\ fate[id] = "held"
    /\ <<"restore", id>> \in consent
    /\ \E over \in {{}} \cup {{c} : c \in live} :
         live' = (live \ over) \cup {held[id]}
    /\ held' = [held EXCEPT ![id] = NoFile]
    /\ fate' = [fate EXCEPT ![id] = "returned"]
    /\ UNCHANGED <<consent, seen>>

\* Delete: the item's content is gone for good.
Destroy(id) ==
    /\ fate[id] = "held"
    /\ <<"delete", id>> \in consent
    /\ held' = [held EXCEPT ![id] = NoFile]
    /\ fate' = [fate EXCEPT ![id] = "destroyed"]
    /\ UNCHANGED <<live, consent, seen>>

Next ==
    \/ \E c \in Contents : Produce(c) \/ Discard(c)
    \/ \E id \in Ids :
         \/ Confirm("restore", id)
         \/ Confirm("delete", id)
         \/ Return(id)
         \/ Destroy(id)
         \/ \E c \in Contents : Hold(id, c) \/ Rewrite(id, c)

Spec == Init /\ [][Next]_vars

==============================================================================
