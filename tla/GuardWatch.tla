------------------------------ MODULE GuardWatch ------------------------------
(***************************************************************************)
(* The guard's process watcher, the protection of the default release.     *)
(*                                                                         *)
(* Code: zentor_guard_service/src/main.rs (watch_processes_until_shutdown, *)
(* watch_processes, handle_process_started, stop_process).                 *)
(*                                                                         *)
(* The watcher lists the processes every 750 ms, takes those whose pid it  *)
(* has not seen, looks at their image and hands a suspect to               *)
(* handle_process_started, which reads and judges the image once more,     *)
(* stops whatever has the pid by then and moves whatever is at the path.   *)
(* Processes come and go and files change between any two of these steps.  *)
(* The move is one step here and is taken apart in QuarantineStore.        *)
(***************************************************************************)
EXTENDS Naturals, FiniteSets

CONSTANTS
    Pids,
    Images,      \* paths of executables
    Builds,      \* contents an executable can have
    Malware,     \* contents the engine confirms as malware
    KnownHashes, \* contents whose hash the caller of the command names
    CompatBuilt, \* built with a compatibility engine (not in the default features)
    CompatMalware, \* contents that engine confirms as malware
    Skipped,     \* system paths the watcher does not look at
    MaxStarts,   \* bound: processes started after the watcher
    MaxWrites,   \* bound: writes to images
    None

ASSUME WatchAssumption ==
    /\ None \notin Builds \cup Images
    /\ Malware \subseteq Builds /\ KnownHashes \subseteq Builds
    /\ CompatBuilt \in BOOLEAN /\ CompatMalware \subseteq Builds
    /\ Skipped \subseteq Images
    /\ MaxStarts \in Nat /\ MaxWrites \in Nat

VARIABLES
    kind,      \* "service", or "command" (which ends with its first suspect)
    enforcing, \* the mode read at the start: neither Disabled nor ObserveOnly
    file,      \* file[q]: content, or None (missing, or not readable)
    proc,      \* proc[p]: the image of the process with pid p, or None
    starts, writes,
    shutdown,  \* the service was told to stop
    step,      \* "start", "loop", "pick", "hash", "match", "rehash",
               \* "rematch", "stop", "move", "ended"
    seen,      \* pids seen, never forgotten
    cache,     \* cache[q]: hash of the image when it was first looked at
    hashed,    \* paths that are in the cache
    listing,   \* the rest of the listing: [pid, path] records
    at,        \* the process at hand
    hash,      \* its image's hash (None: could not be read)
    answers,   \* history: [pid, path, action, told] of handle_process_started;
               \* told: the answer was passed on
    matched,   \* history: [pid, path] found to be a threat by the second look
    stopped,   \* history: pids stopped
    moved      \* history: [path, content] moved to quarantine

config == <<kind, enforcing>>
world == <<file, proc, starts, writes, shutdown>>
history == <<answers, matched, stopped, moved>>
watchVars ==
    <<config, world, step, seen, cache, hashed, listing, at, hash, history>>

Processes == [pid : Pids, path : Images]

\* Processes whose image is a file that is there.
Running == {r \in Processes : proc[r.pid] = r.path /\ file[r.path] # None}

Known == IF kind = "command" THEN KnownHashes ELSE {}

\* native_threat_match: nothing if the file cannot be read.
NativeMatch(q) == file[q] \in Malware

\* compat_threat_match, asked only when the native engine found nothing.
CompatMatches(q) ==
    IF ~CompatBuilt \/ NativeMatch(q) THEN {"none"}
    ELSE {"error", IF file[q] \in CompatMalware THEN "threat" ELSE "none"}

WatchInit ==
    /\ kind \in {"service", "command"}
    /\ enforcing \in BOOLEAN
    /\ file \in [Images -> Builds]
    /\ proc \in [Pids -> Images \cup {None}]
    /\ starts = 0 /\ writes = 0
    /\ shutdown = FALSE
    /\ step = "start"
    /\ seen = {}
    /\ cache = [q \in Images |-> None] /\ hashed = {}
    /\ listing = {} /\ at = None /\ hash = None
    /\ answers = {} /\ matched = {}
    /\ stopped = {} /\ moved = {}

-----------------------------------------------------------------------------
(* The machine *)

StartProcess(p, q) ==
    /\ proc[p] = None /\ file[q] # None /\ starts < MaxStarts
    /\ proc' = [proc EXCEPT ![p] = q]
    /\ starts' = starts + 1
    /\ UNCHANGED <<config, file, writes, shutdown, step, seen, cache, hashed,
                   listing, at, hash, history>>

ExitProcess(p) ==
    /\ proc[p] # None
    /\ proc' = [proc EXCEPT ![p] = None]
    /\ UNCHANGED <<config, file, starts, writes, shutdown, step, seen, cache,
                   hashed, listing, at, hash, history>>

ChangeFile(q, c) ==
    /\ file[q] # c /\ writes < MaxWrites
    /\ file' = [file EXCEPT ![q] = c]
    /\ writes' = writes + 1
    /\ UNCHANGED <<config, proc, starts, shutdown, step, seen, cache, hashed,
                   listing, at, hash, history>>

Shutdown ==
    /\ kind = "service" /\ ~shutdown
    /\ shutdown' = TRUE
    /\ UNCHANGED <<config, file, proc, starts, writes, step, seen, cache,
                   hashed, listing, at, hash, history>>

-----------------------------------------------------------------------------
(* The watcher *)

\* Everything that runs when the watcher starts counts as seen.
Begin ==
    /\ step = "start"
    /\ \/ seen' = {r.pid : r \in Running} /\ step' = "loop"
       \/ step' = "ended" /\ UNCHANGED seen        \* the listing failed
    /\ UNCHANGED <<config, world, cache, hashed, listing, at, hash, history>>

List ==
    /\ step = "loop"
    /\ ~shutdown
    /\ \/ listing' = Running /\ step' = "pick"
       \/ step' = "ended" /\ UNCHANGED listing        \* the listing failed
    /\ UNCHANGED <<config, world, seen, cache, hashed, at, hash, history>>

ObeyShutdown ==
    /\ step = "loop" /\ shutdown
    /\ step' = "ended"
    /\ UNCHANGED <<config, world, seen, cache, hashed, listing, at, hash,
                   history>>

PassBy(r) ==
    /\ step = "pick" /\ r \in listing
    /\ r.pid \in seen \/ r.path \in Skipped
    /\ seen' = seen \cup {r.pid}
    /\ listing' = listing \ {r}
    /\ UNCHANGED <<config, world, step, cache, hashed, at, hash, history>>

TakeUp(r) ==
    /\ step = "pick" /\ r \in listing
    /\ r.pid \notin seen /\ r.path \notin Skipped
    /\ seen' = seen \cup {r.pid}
    /\ listing' = listing \ {r}
    /\ at' = r
    /\ step' = "hash"
    /\ UNCHANGED <<config, world, cache, hashed, hash, history>>

\* Sleep, and begin again; the command may have a number of passes.
EndPass ==
    /\ step = "pick" /\ listing = {}
    /\ step' \in IF kind = "command" THEN {"loop", "ended"} ELSE {"loop"}
    /\ UNCHANGED <<config, world, seen, cache, hashed, listing, at, hash,
                   history>>

\* The hash from the cache, or the image's.
Hash ==
    /\ step = "hash"
    /\ hash' = IF at.path \in hashed THEN cache[at.path] ELSE file[at.path]
    /\ cache' = [cache EXCEPT ![at.path] = hash']
    /\ hashed' = hashed \cup {at.path}
    /\ step' = "match"
    /\ UNCHANGED <<config, world, seen, listing, at, history>>

\* An error of either engine is no match here.
Match ==
    /\ step = "match"
    /\ \E compat \in CompatMatches(at.path) :
         step' = IF hash \in Known \/ NativeMatch(at.path) \/ compat = "threat"
                 THEN "rehash" ELSE "pick"
    /\ UNCHANGED <<config, world, seen, cache, hashed, listing, at, hash,
                   history>>

\* handle_process_started returns.  The command ends with the answer; the service
\* writes it as an event, goes on, and does not notice if the write fails.
Answer(action) ==
    /\ \E told \in IF kind = "command" THEN {TRUE} ELSE BOOLEAN :
         answers' = answers \cup {[pid |-> at.pid, path |-> at.path,
                                   action |-> action, told |-> told]}
    /\ step' = IF kind = "command" THEN "ended" ELSE "pick"

Rehash ==
    /\ step = "rehash"
    /\ IF file[at.path] = None
       THEN Answer("error") /\ UNCHANGED hash
       ELSE hash' = file[at.path] /\ step' = "rematch" /\ UNCHANGED answers
    /\ UNCHANGED <<config, world, seen, cache, hashed, listing, at,
                   matched, stopped, moved>>

\* Mutant: what the first look found is enough.
RematchNever ==
    /\ step = "rematch"
    /\ IF enforcing THEN step' = "stop" /\ UNCHANGED answers
                    ELSE Answer("reviewOnly")
    /\ UNCHANGED <<config, world, seen, cache, hashed, listing, at, hash,
                   matched, stopped, moved>>

\* A compatibility engine that fails ends the second look with an error, even
\* for an image whose hash is known.
Rematch ==
    /\ step = "rematch"
    /\ \E compat \in CompatMatches(at.path) :
         LET threat == hash \in Known \/ NativeMatch(at.path) \/ compat = "threat"
         IN  IF compat = "error" THEN Answer("error") /\ UNCHANGED matched
             ELSE /\ matched' = IF threat THEN matched \cup {at} ELSE matched
                  /\ IF ~threat THEN Answer("monitored")
                     ELSE IF ~enforcing THEN Answer("reviewOnly")
                     ELSE step' = "stop" /\ UNCHANGED answers
    /\ UNCHANGED <<config, world, seen, cache, hashed, listing, at, hash,
                   stopped, moved>>

\* Whatever has the pid now is stopped; a failure goes unnoticed.
Stop ==
    /\ step = "stop"
    /\ proc' \in {proc, [proc EXCEPT ![at.pid] = None]}
    /\ stopped' = stopped \cup {at.pid}
    /\ step' = "move"
    /\ UNCHANGED <<config, file, starts, writes, shutdown, seen, cache,
                   hashed, listing, at, hash, answers, matched, moved>>

\* Mutant: the failure of the move is not passed on.
MoveForgiving ==
    /\ step = "move"
    /\ \/ /\ file[at.path] # None
          /\ file' = [file EXCEPT ![at.path] = None]
          /\ moved' = moved \cup {[path |-> at.path, content |-> file[at.path]]}
       \/ UNCHANGED <<file, moved>>
    /\ Answer("stoppedAndQuarantined")
    /\ UNCHANGED <<config, proc, starts, writes, shutdown, seen, cache,
                   hashed, listing, at, hash, matched, stopped>>

\* The image is moved and recorded; or moved, and the record fails; or not
\* moved at all.
Move ==
    /\ step = "move"
    /\ \/ /\ file[at.path] # None
          /\ file' = [file EXCEPT ![at.path] = None]
          /\ moved' = moved \cup {[path |-> at.path, content |-> file[at.path]]}
          /\ Answer("stoppedAndQuarantined") \/ Answer("error")
       \/ Answer("error") /\ UNCHANGED <<file, moved>>
    /\ UNCHANGED <<config, proc, starts, writes, shutdown, seen, cache,
                   hashed, listing, at, hash, matched, stopped>>

Watcher ==
    \/ Begin \/ List \/ ObeyShutdown \/ EndPass
    \/ \E r \in Processes : PassBy(r) \/ TakeUp(r)
    \/ Hash \/ Match \/ Rehash \/ Rematch \/ Stop \/ Move

WatchNext ==
    \/ \E p \in Pids : ExitProcess(p) \/ \E q \in Images : StartProcess(p, q)
    \/ \E q \in Images, c \in Builds \cup {None} : ChangeFile(q, c)
    \/ Shutdown
    \/ Watcher

WatchSpec == WatchInit /\ [][WatchNext]_watchVars

-----------------------------------------------------------------------------
(* Properties *)

Actions == {"monitored", "reviewOnly", "stoppedAndQuarantined", "error"}

\* Every variable has its type, and there is a process at hand whenever one is
\* looked at (main.rs watch_processes_until_shutdown, handle_process_started).
WatchTypeOK ==
    /\ kind \in {"service", "command"} /\ enforcing \in BOOLEAN
    /\ file \in [Images -> Builds \cup {None}]
    /\ proc \in [Pids -> Images \cup {None}]
    /\ starts \in 0 .. MaxStarts /\ writes \in 0 .. MaxWrites
    /\ shutdown \in BOOLEAN
    /\ step \in {"start", "loop", "pick", "hash", "match", "rehash", "rematch",
               "stop", "move", "ended"}
    /\ seen \subseteq Pids
    /\ cache \in [Images -> Builds \cup {None}] /\ hashed \subseteq Images
    /\ listing \subseteq Processes
    /\ at \in Processes \cup {None}
    /\ step \in {"hash", "match", "rehash", "rematch", "stop", "move"}
         => at \in Processes /\ at.pid \in seen
    /\ hash \in Builds \cup {None}
    /\ answers \subseteq [pid : Pids, path : Images, action : Actions,
                   told : BOOLEAN]
    /\ matched \subseteq Processes
    /\ stopped \subseteq Pids
    /\ moved \subseteq [path : Images, content : Builds]

\* A pid is stopped and a path is emptied only if the second look, on fresh
\* data, found the image of that process to be a threat, and only in a mode that
\* enforces: a stale hash in the cache alone never costs anybody a process
\* (main.rs handle_process_started).
StopHasCause ==
    /\ \A p \in stopped : \E r \in matched : r.pid = p
    /\ \A m \in moved : \E r \in matched : r.path = m.path
    /\ stopped # {} \/ moved # {} => enforcing

\* The answer "stopped and quarantined" is given only when the file was moved,
\* and every stop is answered for, also one whose move failed; the command passes
\* that answer on, while the service's event may be lost (main.rs
\* handle_process_started, watch_processes_until_shutdown).
AnswerTellsTruth ==
    /\ \A a \in answers : a.action = "stoppedAndQuarantined" =>
         /\ a.pid \in stopped
         /\ \E m \in moved : m.path = a.path
    /\ \A p \in stopped :
         \/ step = "move" /\ at.pid = p
         \/ \E a \in answers : /\ a.pid = p
                               /\ a.action \in {"stoppedAndQuarantined",
                                                "error"}
                               /\ kind = "command" => a.told

==============================================================================
