----------------------------- MODULE GuardLaunch -----------------------------
(***************************************************************************)
(* One executable on its way past the guard: the driver port's question    *)
(* before it starts, the process watcher after, the commands of the        *)
(* guard's console, and the mode the core writes for it.                   *)
(*                                                                         *)
(* Code: zentor_guard_service/src main.rs (handle, watch_processes_until_  *)
(* shutdown, handle_process_started, configured_guard_mode), driver_ipc.rs *)
(* (evaluate_driver_request, cached_native_engine_verdict), driver_port.rs *)
(* (evaluate_native_request), self_test.rs, driver_health.rs; and          *)
(* zentor_local_core/src/main.rs (write_guard_mode_config).                *)
(*                                                                         *)
(* An evaluation reads the file twice, once for its hash and once for the  *)
(* engine, and other programs write in between.  The engine is loaded once *)
(* per process and a failure is kept.  The rules are those of GuardPolicy; *)
(* the port's queue is in DriverGate, the races of pids in GuardWatch.     *)
(* Bound: the port and the console do not evaluate at the same time.       *)
(***************************************************************************)
EXTENDS GuardPolicy

CONSTANTS
    RawModes,       \* names of modes the user may ask for
    Lists,          \* lists a command carries: [bad, good, approved] of texts
    Requests,       \* what the question of a command may say of the file
    MaxEvents,      \* bound: writes, replacements, starts, commands, pack
                    \* changes, all together
    CommandModes    \* modes a command may name, and "none"

\* Hashes as they are written: a content's, or none.
Texts == [of : Contents \cup {NoFile}, prefixed : BOOLEAN]
Bare == {t \in Texts : ~t.prefixed}

ASSUME LaunchAssumption ==
    /\ Lists \subseteq [bad : SUBSET Texts, good : SUBSET Texts,
                        approved : SUBSET Texts]
    /\ \A r \in Requests : r.hash \in Texts
    /\ MaxEvents \in Nat
    /\ CommandModes \subseteq Modes \cup {"none"}

VARIABLES
    setup,     \* fixed: [place, features, env, variable, badFile]
    disk,      \* content of the executable, or NoFile
    assets,    \* the engine's pack is complete
    modeFile,  \* modeFile[f]: text of a mode, "missing" or "torn"
    writing,   \* the mode the core is writing, or "none"
    saved,     \* history: the mode saved last, as the user named it
    driver,    \* [installed, running, answers, testSigned]
    svc,       \* the service: [on, mode, port]
    engine,    \* engine[process]: "unset", "ready", "failed"
    ask,       \* the evaluation under way: [who, req, config, hash, hashed]
    answer,    \* the last one that ended, and what it was based on
    image,     \* content of the running process's image, or NoFile
    look,      \* the watcher: "new", "suspect", "passed"
    asked,     \* history: modes completely written, or set by the variable
    report,    \* the last self-test
    events     \* how many of the bounded events have happened

world == <<setup, disk, assets>>
modes == <<modeFile, writing, asked, saved>>
launchVars == <<world, modes, driver, svc, engine, ask, answer, image, look,
          report, events>>

Nothing == [who |-> "none"]
Processes == {"service", "console"}

Event == events < MaxEvents /\ events' = events + 1

LaunchInit ==
    /\ setup \in [place : Places, features : SUBSET {"yara", "clam"},
                  env : SUBSET Names, variable : {"none"} \cup RawModes,
                  badFile : [torn : BOOLEAN, hashes : {l.bad : l \in Lists}]]
    /\ disk \in Contents
    /\ assets \in BOOLEAN
    /\ modeFile = [f \in ModeFiles |-> "missing"] /\ writing = "none"
    /\ saved = "none"
    /\ driver \in [installed : BOOLEAN, running : BOOLEAN, answers : BOOLEAN,
                   testSigned : BOOLEAN]
    /\ driver.running => driver.installed
    /\ driver.answers => driver.running
    /\ svc = [on |-> FALSE, mode |-> DefaultMode, port |-> FALSE]
    /\ engine \in [service : {"unset"}, console : {"unset", "ready", "failed"}]
    /\ ask = Nothing /\ answer = Nothing
    /\ image = NoFile /\ look = "passed"
    /\ asked = {ParseMode(v) : v \in {setup.variable} \ {"none"}}
    /\ report = Nothing
    /\ events = 0

-----------------------------------------------------------------------------
(* The core: write_guard_mode_config truncates the file, then fills it. *)

BeginModeWrite ==
    /\ writing = "none" /\ Event
    /\ \E raw \in RawModes :
         /\ NormalMode(raw) # "none"
         /\ writing' = raw
    /\ modeFile' = [modeFile EXCEPT ![ModeFileOfCore(setup.env)] = "torn"]
    /\ saved' = "none"
    /\ UNCHANGED <<world, asked, driver, svc, engine, ask, answer, image, look,
                   report>>

EndModeWrite ==
    /\ writing # "none"
    /\ modeFile' = [modeFile EXCEPT ![ModeFileOfCore(setup.env)] =
                                      NormalMode(writing)]
    /\ asked' = asked \cup {ParseMode(writing)}
    /\ saved' = writing
    /\ writing' = "none"
    /\ UNCHANGED <<world, driver, svc, engine, ask, answer, image, look,
                   report, events>>

CoreCrash ==
    /\ writing # "none"
    /\ writing' = "none"
    /\ UNCHANGED <<world, modeFile, asked, saved, driver, svc, engine, ask, answer,
                   image, look, report, events>>

-----------------------------------------------------------------------------
(* The service *)

\* The mode is read once; the port worker connects only if the driver is there.
StartGuard ==
    /\ ~svc.on /\ Event
    /\ svc' = [on   |-> TRUE,
               mode |-> ConfiguredMode(setup.variable,
                                       modeFile[ModeFileOfGuard(setup.env)]),
               port |-> driver.running]
    /\ engine' = [engine EXCEPT !["service"] = "unset"]
    /\ look' = "passed"              \* what runs already counts as seen
    /\ UNCHANGED <<world, modes, driver, ask, answer, image, report>>

StopGuard ==
    /\ svc.on /\ ask.who # "service"
    /\ svc' = [svc EXCEPT !.on = FALSE, !.port = FALSE]
    /\ UNCHANGED <<world, modes, driver, engine, ask, answer, image, look,
                   report, events>>

-----------------------------------------------------------------------------
(* The evaluation, in two steps *)

Begin(who, req, config) ==
    ask' = [who |-> who, req |-> req, config |-> config,
            hash |-> NoText, hashed |-> FALSE]

Run ==
    /\ image' = disk
    /\ look' = "new"

\* The executable is started: the driver asks if its port is connected.  Its
\* question carries no hash and no publisher (native_to_domain).
Start ==
    /\ image = NoFile /\ disk # NoFile /\ ask = Nothing
    /\ Event
    /\ IF svc.port
       THEN /\ Begin("service", BareRequest, PortConfig(setup.badFile))
            /\ UNCHANGED <<image, look>>
       ELSE Run /\ UNCHANGED ask
    /\ UNCHANGED <<world, modes, driver, svc, engine, answer, report>>

\* The console handles one line at a time.
Commanded == ask = Nothing /\ Event

\* driver_scan_request
ScanCommand ==
    /\ Commanded
    /\ \E lists \in Lists, req \in Requests, mode \in CommandModes :
         Begin("console", req, CommandConfig(setup.badFile, lists, mode))
    /\ UNCHANGED <<world, modes, driver, svc, engine, answer, image, look,
                   report>>

\* A denied start is over; any other, an error too, goes ahead (fail_open).
Conclude(hash, scanned, a) ==
    /\ ask' = Nothing
    /\ answer' = [who |-> ask.who, mode |-> ask.config.mode,
                  listed |-> Listed(hash, ask.config.bad),
                  scanned |-> scanned, gives |-> a]
    /\ IF ask.who = "service" /\ disk # NoFile /\ a.action # "block"
       THEN Run
       ELSE UNCHANGED <<image, look>>

HashStep ==
    LET hash == HashFor(ask.req, disk)
        a    == ByList(setup.place, ask.req, ask.config, hash)
    IN  /\ ask # Nothing /\ ~ask.hashed
        /\ IF a # Undecided
           THEN Conclude(hash, disk, a)
           ELSE /\ ask' = [ask EXCEPT !.hash = hash, !.hashed = TRUE,
                                      !.req = BareRequest]
                /\ UNCHANGED <<answer, image, look>>
        /\ UNCHANGED <<world, modes, driver, svc, engine, report, events>>

\* cached_native_engine_verdict: the first file that exists loads the engine.
Loading(who) ==
    IF engine[who] # "unset" THEN engine[who]
    ELSE IF assets THEN "ready" ELSE "failed"

ScanStep ==
    /\ ask # Nothing /\ ask.hashed
    /\ engine' = IF disk = NoFile THEN engine
                 ELSE [engine EXCEPT ![ask.who] = Loading(ask.who)]
    /\ Conclude(ask.hash, disk,
                ByScan(setup.features, ask.config.mode, disk,
                       Loading(ask.who) = "ready"))
    /\ UNCHANGED <<world, modes, driver, svc, report, events>>

-----------------------------------------------------------------------------
(* The watcher; the service knows no hashes. *)

\* Mutant: the watcher uses the engine the port has loaded.
LookShared ==
    /\ svc.on /\ image # NoFile /\ look = "new"
    /\ look' = IF ~Skipped(setup.place)
                  /\ ThreatMatch(setup.features, {}, disk, Loading("service") = "ready")
               THEN "suspect" ELSE "passed"
    /\ UNCHANGED <<world, modes, driver, svc, engine, ask, answer, image,
                   report, events>>

Look ==
    /\ svc.on /\ image # NoFile /\ look = "new"
    /\ look' = IF ~Skipped(setup.place)
                  /\ ThreatMatch(setup.features, {}, disk, assets)
               THEN "suspect" ELSE "passed"
    /\ UNCHANGED <<world, modes, driver, svc, engine, ask, answer, image,
                   report, events>>

\* handle_process_started: everything is read again.
Handle ==
    /\ svc.on /\ image # NoFile /\ look = "suspect"
    /\ look' = "passed"
    /\ IF StartedAction(setup.features, svc.mode, {}, disk, assets)
          = "stoppedAndQuarantined"
       THEN /\ image' = NoFile
            /\ disk' = NoFile
       ELSE UNCHANGED <<image, disk>>
    /\ UNCHANGED <<setup, assets, modes, driver, svc, engine, ask, answer,
                   report, events>>

Exit ==
    /\ image # NoFile
    /\ image' = NoFile
    /\ look' = "passed"
    /\ UNCHANGED <<world, modes, driver, svc, engine, ask, answer, report, events>>

-----------------------------------------------------------------------------
(* The other commands of the console *)

\* process_started, with the caller's list and mode.
StartedCommand ==
    /\ Commanded
    /\ \E lists \in Lists, mode \in CommandModes \ {"none"}, pid \in BOOLEAN :
         LET action == StartedAction(setup.features, mode, lists.bad, disk, assets)
         IN  /\ answer' = [who |-> "started", mode |-> mode, gives |-> action]
             /\ IF action = "stoppedAndQuarantined"
                THEN /\ disk' = NoFile
                     /\ image' = IF pid THEN NoFile ELSE image
                     /\ look' = IF pid THEN "passed" ELSE look
                ELSE UNCHANGED <<disk, image, look>>
    /\ UNCHANGED <<setup, assets, modes, driver, svc, engine, ask, report>>

\* DriverHealth::probe: it tries to load a driver that is not running, and then
\* has a program connect to its port, which takes one client ("alive" if that
\* program is there and the port is free otherwise).
Probed(d, loads, alive) ==
    LET running == d.running \/ (Loads(d) /\ loads)
    IN  [d EXCEPT !.running = running, !.answers = running /\ alive /\ ~svc.port]

\* driver_self_test: probes the driver, which may load it, and evaluates.  A
\* failing evaluation is an error event and leaves no report.
DriverSelfTest ==
    \E lists \in Lists, loads, alive \in BOOLEAN :
        LET d == Probed(driver, loads, alive)
            r == SelfTest(setup.features, lists.bad \cup KnownBad(setup.badFile),
                          d, Loading("console") = "ready")
        IN  /\ Commanded
            /\ driver' = d
            /\ report' = IF r.error THEN report
                         ELSE [who |-> "selftest", passed |-> r.passed,
                               available |-> r.available, driver |-> d]
            /\ engine' = [engine EXCEPT !["console"] = Loading("console")]
            /\ UNCHANGED <<world, modes, svc, ask, answer, image, look>>

-----------------------------------------------------------------------------
(* The machine *)

Replace ==
    /\ Event
    /\ disk' \in (Contents \cup {NoFile}) \ {disk}
    /\ UNCHANGED <<setup, assets, modes, driver, svc, engine, ask, answer,
                   image, look, report>>

\* An update or an installer moves the engine's pack away or puts it back.
ChangeAssets ==
    /\ Event
    /\ assets' = ~assets
    /\ UNCHANGED <<setup, disk, modes, driver, svc, engine, ask, answer, image,
                   look, report>>

Core == BeginModeWrite \/ EndModeWrite \/ CoreCrash
Evaluation == HashStep \/ ScanStep
Watcher == Look \/ Handle
Console == ScanCommand \/ StartedCommand \/ DriverSelfTest
LaunchNext ==
    \/ Core \/ StartGuard \/ StopGuard \/ Start \/ Evaluation \/ Watcher
    \/ Console \/ Exit \/ Replace \/ ChangeAssets

\* The worker answers what it has taken; the watcher lists every 750 ms.
Fairness == WF_launchVars(Evaluation) /\ WF_launchVars(Watcher)
LaunchSpec == LaunchInit /\ [][LaunchNext]_launchVars /\ Fairness

-----------------------------------------------------------------------------
(* Properties *)

Settings == [place : Places, features : SUBSET {"yara", "clam"},
             env : SUBSET Names, variable : {"none"} \cup RawModes,
             badFile : [torn : BOOLEAN, hashes : SUBSET Texts]]
Drivers == [installed : BOOLEAN, running : BOOLEAN, answers : BOOLEAN,
            testSigned : BOOLEAN]
Configs == [bad : SUBSET Texts, good : SUBSET Bare, approved : SUBSET Bare,
            publishers : {TrustedNames}, mode : Modes]
EngineStates == {"unset", "ready", "failed"}
Questions == [who : Processes, req : Requests \cup {BareRequest},
              config : Configs, hash : Texts, hashed : BOOLEAN]
Answered ==
    [who : Processes, mode : Modes, listed : BOOLEAN,
     scanned : Contents \cup {NoFile}, gives : Answers]
    \cup [who : {"started"}, mode : Modes, gives : StartedActions]
Reports == [who : {"selftest"}, passed : BOOLEAN, available : BOOLEAN,
            driver : Drivers]

\* Every variable has its type; whatever is evaluated is evaluated under complete
\* lists and a mode (evaluate_driver_request, DriverVerdictConfig).
LaunchTypeOK ==
    /\ setup \in Settings
    /\ disk \in Contents \cup {NoFile} /\ assets \in BOOLEAN
    /\ modeFile \in [ModeFiles -> {"missing", "torn"}
                                   \cup {NormalMode(raw) : raw \in RawModes}]
    /\ writing \in {"none"} \cup RawModes /\ saved \in {"none"} \cup RawModes
    /\ driver \in Drivers
    /\ svc \in [on : BOOLEAN, mode : Modes, port : BOOLEAN]
    /\ engine \in [service : EngineStates, console : EngineStates]
    /\ ask \in Questions \cup {Nothing}
    /\ answer \in Answered \cup {Nothing}
    /\ image \in Contents \cup {NoFile}
    /\ look \in {"new", "suspect", "passed"}
    /\ asked \subseteq Modes \cup {"none"}
    /\ report \in Reports \cup {Nothing}
    /\ events \in 0 .. MaxEvents

Evaluated == answer.who \in Processes
FirstYara(c, words) == YaraDecides(setup.features, c) /\ Head(c.yara) \in words
Confirmed(c) ==
    c # NoFile /\ (c.says \in {"test", "confirmed"} \/ FirstYara(c, {"confirmed"}))
Likely(c) == c # NoFile /\ (c.says = "probable" \/ FirstYara(c, {"high"}))

\* What is labelled malware is what is quarantined after the block, and it is the
\* listed hash, or the content that the engine or YARA confirms or finds likely
\* (that the likely one is blocked and labelled too, in every mode, is not what
\* SECURITY_MODEL.md promises); any other block is a question to the user, in
\* lockdown only, and names no malware (evaluate_driver_request).
LabelHasCause ==
    Evaluated =>
      LET g == answer.gives
          cause == \/ answer.listed
                   \/ Confirmed(answer.scanned)
                   \/ Likely(answer.scanned)
      IN  /\ g.label <=> g.quarantine
          /\ g.label => g.action = "block" /\ cause
          /\ g.action = "block" /\ ~g.label =>
               /\ ~cause /\ g.approval
               /\ answer.mode = "lockdown"

\* The guard only looks on if somebody asked for it: whatever the mode file holds
\* while it is written, after a crash, or instead of a mode, never turns the
\* protection off (configured_guard_mode, write_guard_mode_config).
WeakOnlyOnRequest ==
    svc.on /\ ReviewOnly(svc.mode) => svc.mode \in asked

\* The service that starts after a mode was saved runs in the mode the user named:
\* core and guard look in the same file and mean the same by its text
\* (write_guard_mode_config, read_guard_mode_config).
ModeArrives ==
    [][~svc.on /\ svc'.on /\ saved # "none" /\ ParseMode(setup.variable) = "none" =>
          svc'.mode = ParseMode(saved)]_launchVars

\* A confirmed file that runs under an enforcing service, whose engine loads and
\* whose file stays, is stopped in the end (watch_processes_until_shutdown).
Exposed ==
    /\ svc.on /\ ~ReviewOnly(svc.mode) /\ assets
    /\ image # NoFile /\ look # "passed" /\ ~Skipped(setup.place)
    /\ disk = image /\ disk.says \in {"test", "confirmed"}
Dealt == ~svc.on \/ ~assets \/ image = NoFile \/ disk # image
ConfirmedIsStopped == Exposed ~> Dealt
=============================================================================
