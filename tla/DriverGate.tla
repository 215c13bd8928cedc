------------------------------ MODULE DriverGate ------------------------------
(***************************************************************************)
(* The minifilter driver, its port, and the guard's driver port worker.    *)
(*                                                                         *)
(* Code: zentor_windows_minifilter/driver (Driver.c, Filter.c, Policy.c,   *)
(* Communication.c, QuarantineExclusions.c), zentor_guard_service/src      *)
(* driver_port.rs (run_message_loop), driver_ipc.rs                        *)
(* (evaluate_driver_request) and driver_health.rs (the probe).             *)
(*                                                                         *)
(* A file access is held in the kernel while the driver asks the guard     *)
(* over a port that takes one client.  One worker thread answers, and to   *)
(* answer it opens the file itself: that open is an access like any other, *)
(* so the driver asks the very thread that waits for it.  Every question   *)
(* has the same timeout, so the oldest one times out first; a question     *)
(* that times out, or whose port goes away, ends with access granted.      *)
(*                                                                         *)
(* The driver's mode is BlockConfirmedThreats: nothing ever sets another.  *)
(***************************************************************************)
EXTENDS Naturals, Sequences, SequencesExt, FiniteSets

CONSTANTS
    Ios,        \* accesses of applications
    Own,        \* the access the guard's worker makes (at most one at a time)
    Files,
    Class,      \* Class[f]: "known" (hash in the known-bad cache), the engine's
                \* "confirmed", "probable" or "suspicious", "plain"
    Excluded,   \* paths the driver does not ask about
    FailOpen,   \* paths the guard always allows
    MaxRestarts, \* bound: service starts and driver loads
    None

ASSUME GateAssumption ==
    /\ Own \notin Ios
    /\ None \notin Ios \cup {Own} \cup Files \cup {"guard", "probe"}
    /\ Class \in [Files -> {"known", "confirmed", "probable", "suspicious",
                        "plain"}]
    /\ Excluded \subseteq Files /\ FailOpen \subseteq Files
    /\ MaxRestarts \in Nat

VARIABLES
    loaded,    \* the driver is loaded and filters
    port,      \* the client of the driver's port: None, "guard" or "probe"
    io,        \* io[o]: "idle", "waiting", "allowed" or "denied"
    path,      \* path[o]: the file the access names
    target,    \* target[o]: the file the guard looks at (a rename's target)
    waiting,   \* accesses held by FltSendMessage, the oldest first
    pc,        \* the worker: "off", "connect", "get", "hash", "hashWait",
               \* "scan", "scanWait", "reply", "ended"
    handling,  \* the access the worker's message is about
    verdict,   \* the worker's answer
    restarts,  \* how many of the bounded starts and loads have happened
    selfAsked  \* history: accesses for whose sake the guard waited for itself

gateVars == <<loaded, port, io, path, target, waiting>>
workerVars == <<pc, handling, verdict>>
vars == <<gateVars, workerVars, restarts, selfAsked>>

Verdicts == {"allow", "monitor", "block", "timeoutAllow"}

\* Of the guard's answers only a block carries a confirmed verdict.
\* Mutant: an answer that was not a decision blocks, as a fail-closed driver would.
ShouldBlockUndecided(v) == v \in {"block", "timeoutAllow"}

ShouldBlock(v) == v = "block"

Idle == [o \in Ios |-> "idle"]

Init ==
    /\ loaded \in BOOLEAN
    /\ port = None
    /\ io = Idle
    /\ path = [o \in Ios |-> None] /\ target = [o \in Ios |-> None]
    /\ waiting = <<>>
    /\ pc = "off" /\ handling = None /\ verdict = "allow"
    /\ restarts = 0
    /\ selfAsked = {}

\* What becomes of accesses when questions end without an answer.
Granted(S) == io' = [o \in Ios |-> IF o \in S THEN "allowed" ELSE io[o]]

\* The queue when one question is over.
Without(o) ==
    IF o \in ToSet(waiting)
    THEN RemoveAt(waiting, CHOOSE i \in 1..Len(waiting) : waiting[i] = o)
    ELSE waiting

\* The port's client is gone: every question fails.
PortCloses ==
    /\ port' = None
    /\ Granted(ToSet(waiting)) /\ waiting' = <<>>

-----------------------------------------------------------------------------
LoadDriver ==
    /\ ~loaded /\ restarts < MaxRestarts
    /\ loaded' = TRUE
    /\ restarts' = restarts + 1
    /\ UNCHANGED <<port, io, path, target, waiting, workerVars, selfAsked>>

UnloadDriver ==
    /\ loaded
    /\ loaded' = FALSE
    /\ PortCloses
    /\ UNCHANGED <<path, target, workerVars, restarts, selfAsked>>

StartService ==
    /\ pc = "off" /\ restarts < MaxRestarts
    /\ pc' = "connect"
    /\ restarts' = restarts + 1
    /\ UNCHANGED <<gateVars, handling, verdict, selfAsked>>

\* Stopped, crashed, or ended by an error of the process watcher: the process,
\* its handles and its own access go.
StopService ==
    /\ pc # "off"
    /\ pc' = "off" /\ handling' = None /\ verdict' = "allow"
    /\ IF port = "guard" THEN PortCloses
                         ELSE waiting' = Without(Own) /\ UNCHANGED <<port, io>>
    /\ UNCHANGED <<loaded, path, target, restarts, selfAsked>>

\* Without the driver the worker ends quietly, with a taken port it ends with
\* an error; it never tries again.
Connect ==
    /\ pc = "connect"
    /\ IF loaded /\ port = None
       THEN pc' = "get" /\ port' = "guard"
       ELSE pc' = "ended" /\ UNCHANGED port
    /\ UNCHANGED <<loaded, io, path, target, waiting, handling, verdict, restarts,
                   selfAsked>>

\* driver_ipc_alive: a program that connects and hangs up.
ProbeConnects ==
    /\ loaded /\ port = None
    /\ port' = "probe"
    /\ UNCHANGED <<loaded, io, path, target, waiting, workerVars, restarts,
                   selfAsked>>

ProbeCloses ==
    /\ port = "probe"
    /\ PortCloses
    /\ UNCHANGED <<loaded, path, target, workerVars, restarts, selfAsked>>

-----------------------------------------------------------------------------
\* The driver asks if its callback runs, the file's name is known and not
\* excluded, and a client is there.
Asks(f) == loaded /\ port # None /\ f \notin Excluded

\* An application opens, writes, maps or executes f, or renames f to g.
AskGuard(o, f, g) ==
    /\ io[o] = "idle"
    /\ Asks(f)
    /\ io' = [io EXCEPT ![o] = "waiting"]
    /\ path' = [path EXCEPT ![o] = f]
    /\ target' = [target EXCEPT ![o] = g]
    /\ waiting' = Append(waiting, o)
    /\ UNCHANGED <<loaded, port, workerVars, restarts, selfAsked>>

\* No question: the name query failed, the path is excluded, or there is no
\* client or no driver.
PassThrough(o, f) ==
    /\ io[o] = "idle"
    /\ io' = [io EXCEPT ![o] = "allowed"]
    /\ path' = [path EXCEPT ![o] = f]
    /\ UNCHANGED <<loaded, port, target, waiting, workerVars, restarts, selfAsked>>

\* The outcome of sha256_file and of the engine's scan once the open returned:
\* the file was found and read, or not.
AfterHash(found) ==
    IF found /\ Class[target[handling]] = "known"
    THEN pc' = "reply" /\ verdict' = "block"
    ELSE pc' = "scan" /\ UNCHANGED verdict

AfterScan(found) ==
    /\ pc' = "reply"
    /\ verdict' \in IF found /\ Class[target[handling]] \in {"confirmed", "probable"}
                    THEN {"block", "timeoutAllow"}    \* the engine may fail
                    ELSE {"monitor", "timeoutAllow"}

AfterOpen(found) ==
    \/ pc \in {"hash", "hashWait"} /\ AfterHash(found)
    \/ pc \in {"scan", "scanWait"} /\ AfterScan(found)

\* Mutant: questions time out in no particular order.
TimeoutAny ==
    \E o \in ToSet(waiting) :
        /\ Granted({o}) /\ waiting' = Without(o)
        /\ IF o = Own THEN \E found \in BOOLEAN : AfterOpen(found)
                      ELSE UNCHANGED <<pc, verdict>>
        /\ UNCHANGED <<loaded, port, path, target, handling, restarts, selfAsked>>

\* Mutant: a question that was delivered waits for its answer for ever.
TimeoutUndelivered ==
    /\ waiting # <<>> /\ Head(waiting) # handling
    /\ Granted({Head(waiting)}) /\ waiting' = Tail(waiting)
    /\ IF Head(waiting) = Own THEN \E found \in BOOLEAN : AfterOpen(found)
                              ELSE UNCHANGED <<pc, verdict>>
    /\ UNCHANGED <<loaded, port, path, target, handling, restarts, selfAsked>>

\* PreExecutionTimeoutMs have passed for the oldest question.
Timeout ==
    /\ waiting # <<>>
    /\ Granted({Head(waiting)}) /\ waiting' = Tail(waiting)
    /\ IF Head(waiting) = Own THEN \E found \in BOOLEAN : AfterOpen(found)
                              ELSE UNCHANGED <<pc, verdict>>
    /\ UNCHANGED <<loaded, port, path, target, handling, restarts, selfAsked>>

-----------------------------------------------------------------------------
GetMessage ==
    /\ pc = "get" /\ port = "guard" /\ waiting # <<>>
    /\ handling' = Head(waiting)
    /\ IF target[Head(waiting)] \in FailOpen
       THEN pc' = "reply" /\ verdict' = "allow"
       ELSE pc' = "hash" /\ UNCHANGED verdict
    /\ UNCHANGED <<gateVars, restarts, selfAsked>>

\* The worker's open is itself held: the driver asks the worker.
OpenAsks ==
    /\ pc \in {"hash", "scan"}
    /\ Asks(target[handling])
    /\ waiting' = Append(waiting, Own)
    /\ pc' = IF pc = "hash" THEN "hashWait" ELSE "scanWait"
    /\ selfAsked' = selfAsked \cup {handling}
    /\ UNCHANGED <<loaded, port, io, path, target, handling, verdict, restarts>>

\* The worker's open is not held: its name query failed, the path is excluded,
\* the port is gone, or the guard finds no file under the driver's name for it.
OpenPasses ==
    /\ pc \in {"hash", "scan"}
    /\ \E found \in BOOLEAN : AfterOpen(found)
    /\ UNCHANGED <<gateVars, handling, restarts, selfAsked>>

\* The port closed while the worker's open was held.
OpenReleased ==
    /\ pc \in {"hashWait", "scanWait"}
    /\ Own \notin ToSet(waiting)
    /\ \E found \in BOOLEAN : AfterOpen(found)
    /\ UNCHANGED <<gateVars, handling, restarts, selfAsked>>

Reply ==
    /\ pc = "reply"
    /\ handling \in ToSet(waiting)
    /\ io' = [io EXCEPT ![handling] =
                  IF ShouldBlock(verdict) THEN "denied" ELSE "allowed"]
    /\ waiting' = Without(handling)
    /\ pc' = "get"
    /\ handling' = None /\ verdict' = "allow"
    /\ UNCHANGED <<loaded, port, path, target, restarts, selfAsked>>

\* Mutant: the worker ends but its handle stays open.
WorkerEndsConnected ==
    /\ \/ pc = "reply" /\ handling \notin ToSet(waiting)
       \/ pc = "get" /\ port # "guard"
    /\ pc' = "ended"
    /\ handling' = None /\ verdict' = "allow"
    /\ UNCHANGED <<gateVars, restarts, selfAsked>>

\* FilterReplyMessage fails, because nobody waits any more, or
\* FilterGetMessage does, because the port is gone: the worker ends for good
\* and its handle is closed.
WorkerEnds ==
    /\ \/ pc = "reply" /\ handling \notin ToSet(waiting)
       \/ pc = "get" /\ port # "guard"
    /\ pc' = "ended"
    /\ handling' = None /\ verdict' = "allow"
    /\ IF port = "guard" THEN PortCloses ELSE UNCHANGED <<port, io, waiting>>
    /\ UNCHANGED <<loaded, path, target, restarts, selfAsked>>

Worker == Connect \/ GetMessage \/ OpenAsks \/ OpenPasses \/ OpenReleased
          \/ Reply \/ WorkerEnds

Next ==
    \/ LoadDriver \/ UnloadDriver
    \/ StartService \/ StopService
    \/ ProbeConnects \/ ProbeCloses
    \/ \E o \in Ios, f, g \in Files : AskGuard(o, f, g)
    \/ \E o \in Ios, f \in Files : PassThrough(o, f)
    \/ Timeout
    \/ Worker

Spec == Init /\ [][Next]_vars

\* Time passes, and the worker's thread runs; nothing else must happen.
FairSpec == Spec /\ WF_vars(Timeout) /\ WF_vars(Worker)

-----------------------------------------------------------------------------
(* Properties *)

\* Every variable has its type; only accesses that are held are in the queue,
\* each once; the worker's own access is there only while the worker waits for
\* it (Filter.c, Communication.c, driver_port.rs).
TypeOK ==
    /\ loaded \in BOOLEAN
    /\ port \in {None, "guard", "probe"}
    /\ io \in [Ios -> {"idle", "waiting", "allowed", "denied"}]
    /\ path \in [Ios -> Files \cup {None}]
    /\ target \in [Ios -> Files \cup {None}]
    /\ waiting \in Seq(Ios \cup {Own})
    /\ IsInjective(waiting)
    /\ ToSet(waiting) \cap Ios = {o \in Ios : io[o] = "waiting"}
    /\ Own \in ToSet(waiting) => pc \in {"hashWait", "scanWait"}
    /\ pc \in {"off", "connect", "get", "hash", "hashWait", "scan", "scanWait",
               "reply", "ended"}
    /\ handling \in Ios \cup {None}
    /\ verdict \in Verdicts
    /\ restarts \in 0 .. MaxRestarts
    /\ selfAsked \subseteq Ios

\* Access is denied only for a file of its own that the guard found listed,
\* confirmed or probable, and never for a path that either side exempts: a late
\* answer, a timeout or a lost port never denies, and no access gets the answer
\* meant for another one (Filter.c ZentorEvaluateRequest, driver_port.rs
\* run_message_loop).  That a probable file is denied too is what the guard does,
\* not what SECURITY_MODEL.md promises for a mode less strict than lockdown.
DeniedHasCause ==
    \A o \in Ios : io[o] = "denied" =>
        /\ Class[target[o]] \in {"known", "confirmed", "probable"}
        /\ target[o] \notin FailOpen
        /\ path[o] \notin Excluded

\* The port belongs to the guard only while its worker serves it: a worker that
\* ended has left the port to others (driver_port.rs PortHandle).
PortIsServed ==
    port = "guard" => pc \notin {"off", "connect", "ended"}

\* An access for whose sake the guard waited for itself is never denied: the
\* outer question is older than the inner one and so has timed out before the
\* guard can answer it (Filter.c:61, driver_ipc.rs:176).
SelfAskedIsAllowed == \A o \in selfAsked : io[o] # "denied"

\* Every access that is held gets through or is denied in the end, also when
\* the guard waits for itself, ends or hangs up: nobody waits for ever.
EveryIoEnds ==
    \A o \in Ios : io[o] = "waiting" ~> io[o] \in {"allowed", "denied"}

==============================================================================
