---------------------------- MODULE GuardPolicy ----------------------------
(***************************************************************************)
(* The guard's rules: what it answers of an executable before it starts    *)
(* and after, where it reads its mode and its lists from, and what its     *)
(* self-test concludes.                                                    *)
(*                                                                         *)
(* Code: zentor_guard_service/src driver_ipc.rs, driver_health.rs,         *)
(* self_test.rs, known_bad_cache.rs, preexecution_policy.rs, main.rs; and  *)
(* the mode writer of zentor_local_core/src/main.rs.                       *)
(*                                                                         *)
(* A content is a record: "says" is the native engine's verdict            *)
(* (NativeEngine shows how it is found), "yara" the confidences of the     *)
(* YARA patterns that match, in the order of the rule file, "clam" the     *)
(* ClamAV result; the record stands for its SHA-256.  A hash as text is    *)
(* that content with or without "sha256:".                                 *)
(***************************************************************************)
EXTENDS Integers, Sequences, FiniteSets, FiniteSetsExt

CONSTANTS Contents, NoFile, TrustedNames

EngineVerdicts == {"clean", "suspicious", "probable", "confirmed", "test", "error"}

ASSUME PolicyAssumption ==
    /\ NoFile \notin Contents
    /\ \A c \in Contents : /\ c.says \in EngineVerdicts
                           /\ c.yara \in Seq({"low", "medium", "high", "confirmed"})
                           /\ c.clam \in BOOLEAN

Spelled(c, prefixed) == [of |-> c, prefixed |-> prefixed]
FileHash(c) == Spelled(c, TRUE)
Normal(text) == [text EXCEPT !.prefixed = FALSE]
NoText == Spelled(NoFile, FALSE)

\* A decision list: the value of the first row whose condition holds.
FirstOf(rows) == rows[Min({i \in DOMAIN rows : rows[i][1]})][2]

-----------------------------------------------------------------------------
\* Places, as the two path rules tell them apart.

Places == {"user", "system", "avorax", "quarantine", "skipped"}
FailsOpen(place) == place \in {"system", "avorax", "quarantine"}   \* should_fail_open_path
Skipped(place) == place \in {"system", "skipped"}                  \* should_skip_process_path

\* Where the shared files are, by the variables that are set.  Core and guard
\* each have a copy of this search.
Names == {"MODE_CONFIG", "ZENTOR_MODE_CONFIG", "CONFIG_DIR", "DATA_DIR", "HOME"}
ConfigBase(env) ==
    FirstOf(<< <<"CONFIG_DIR" \in env, "config_dir">>,
               <<"DATA_DIR" \in env, "data_dir/config">>,
               <<"HOME" \in env, "home">>,
               <<TRUE, "cwd">> >>)
ModeFileOfGuard(env) ==
    FirstOf(<< <<"MODE_CONFIG" \in env, "mode_config">>,
               <<"ZENTOR_MODE_CONFIG" \in env, "zentor_mode_config">>,
               <<TRUE, ConfigBase(env)>> >>)
\* Mutant: the core looks for the old variable first.
ModeFileOfOldCore(env) ==
    IF "ZENTOR_MODE_CONFIG" \in env THEN "zentor_mode_config"
    ELSE ModeFileOfGuard(env)
ModeFileOfCore(env) == ModeFileOfGuard(env)
ModeFiles == {"mode_config", "zentor_mode_config", "config_dir",
              "data_dir/config", "home", "cwd"}

-----------------------------------------------------------------------------
\* Protection modes.

Modes == {"disabled", "observeOnly", "balanced", "blockKnownBad",
          "blockConfirmedThreats", "lockdown", "developerMode", "aggressive"}
DefaultMode == "blockConfirmedThreats"

\* What the core writes for a name the user gave; it knows six of the modes.
NormalMode(raw) ==
    CASE raw \in {"off", "disabled"} -> "disabled"
      [] raw \in {"monitorOnly", "observeOnly"} -> "monitorOnly"
      [] raw \in {"blockConfirmedThreats", "blockConfirmed"} ->
           "blockConfirmedThreats"
      [] raw \in {"balanced", "lockdown"} -> raw
      [] raw \in {"developerMode", "developer"} -> "developerMode"
      [] OTHER -> "none"

\* Mutant: a text that is no mode turns the protection off.
ParseModeOrOff(raw) ==
    CASE raw \in {"off", "disabled", "torn", "none"} -> "disabled"
      [] raw \in {"observeOnly", "monitorOnly"} -> "observeOnly"
      [] raw \in Modes -> raw
      [] OTHER -> "none"

\* parse_guard_mode: spaces, dashes and case do not matter.
ParseMode(raw) ==
    CASE raw \in {"off", "disabled"} -> "disabled"
      [] raw \in {"observeOnly", "monitorOnly"} -> "observeOnly"
      [] raw = "blockConfirmed" -> "blockConfirmedThreats"
      [] raw = "developer" -> "developerMode"
      [] raw \in Modes \ {"disabled", "observeOnly"} -> raw
      [] OTHER -> "none"

\* configured_guard_mode: the variable, else the file, else the default.  A file
\* that is missing, torn or holds another text counts for nothing.
ConfiguredMode(variable, file) ==
    FirstOf(<< <<ParseMode(variable) # "none", ParseMode(variable)>>,
               <<ParseMode(file) # "none", ParseMode(file)>>,
               <<TRUE, DefaultMode>> >>)

\* Post-launch the guard only looks on in these.
ReviewOnly(mode) == mode \in {"disabled", "observeOnly"}

-----------------------------------------------------------------------------
\* Answers to "may this start?".

Answer(action, verdict, trust) ==
    [action |-> action, verdict |-> verdict, trust |-> trust,
     monitor |-> action = "allow_and_monitor",
     label |-> FALSE, quarantine |-> FALSE, approval |-> FALSE]
Allow(verdict, trust) == Answer("allow", verdict, trust)
Monitor == Answer("allow_and_monitor", "unknown", "unknown")
Review == Answer("allow_and_monitor", "suspicious", "suspicious")
Block == [Answer("block", "confirmed", "confirmed") EXCEPT
             !.label = TRUE, !.quarantine = TRUE]
BlockUnknown == [Answer("block", "unknown", "unknown") EXCEPT !.approval = TRUE]
Undecided == Answer("undecided", "unknown", "unknown")
Failed == Answer("error", "unknown", "unknown")
Answers == [action : {"allow", "allow_and_monitor", "block", "error"},
            verdict : {"likely_clean", "unknown", "suspicious", "confirmed"},
            trust : {"system", "known_good", "user_approved", "publisher",
                     "unknown", "suspicious", "confirmed"},
            monitor : BOOLEAN, label : BOOLEAN, quarantine : BOOLEAN,
            approval : BOOLEAN]

TrustedSources == {"avorax_kernel_driver", "avorax_guard_service",
                   "windows_code_integrity", "windows_wintrust"}

\* What a request says of the file: its hash and its signature, and who says
\* so.  "publisher" is the set of trusted names its publisher's name contains.
BareRequest == [hash |-> NoText, hashBy |-> "none", signature |-> "none",
                signatureBy |-> "none", publisher |-> {}]
RequestHash(req) == IF req.hashBy \in TrustedSources THEN req.hash ELSE NoText
TrustedPublisher(req, config) ==
    /\ req.signatureBy \in TrustedSources
    /\ req.signature = "valid"
    /\ req.publisher \cap config.publishers # {}

\* The file's own hash counts, a trusted one from the request if there is none.
HashFor(req, content) ==
    IF content # NoFile THEN FileHash(content) ELSE RequestHash(req)

Listed(hash, list) == hash # NoText /\ Normal(hash) \in list

\* The rules up to the engine.
ByList(place, req, config, hash) ==
    FirstOf(<<
      <<FailsOpen(place),                Allow("likely_clean", "system")>>,
      <<Listed(hash, config.bad),        Block>>,
      <<Listed(hash, config.good),       Allow("likely_clean", "known_good")>>,
      <<Listed(hash, config.approved),   Allow("likely_clean", "user_approved")>>,
      <<TrustedPublisher(req, config),   Allow("likely_clean", "publisher")>>,
      <<TRUE, Undecided>> >>)

\* What is left if nothing speaks for or against the file.
ByMode(mode) ==
    CASE mode = "disabled" -> Allow("unknown", "unknown")
      [] mode = "lockdown" -> BlockUnknown
      [] mode \in Modes \ {"disabled", "lockdown"} -> Monitor

\* Compatibility YARA: the first pattern that matches decides.
YaraDecides(features, c) == "yara" \in features /\ c.yara # <<>>

\* Mutant: the mode is asked before the findings.
ByScanAfterMode(features, mode, c, loaded) ==
    FirstOf(<<
      <<mode = "lockdown", BlockUnknown>>,
      <<c = NoFile, ByMode(mode)>>,
      <<~loaded, Failed>>,
      <<c # NoFile /\ c.says \in {"test", "confirmed", "probable"}, Block>>,
      <<TRUE, ByMode(mode)>> >>)

\* The rules from the engine on; an engine that did not load, a file it cannot
\* scan and a file YARA cannot open are errors of the whole evaluation.
ByScan(features, mode, c, loaded) ==
    IF c = NoFile
    THEN IF "yara" \in features THEN Failed ELSE ByMode(mode)
    ELSE FirstOf(<<
      <<~loaded \/ c.says = "error",                      Failed>>,
      <<c.says \in {"test", "confirmed", "probable"},     Block>>,
      <<c.says = "suspicious",                            Review>>,
      <<YaraDecides(features, c),
          IF YaraDecides(features, c) /\ Head(c.yara) \in {"confirmed", "high"}
          THEN Block ELSE Review>>,
      <<TRUE,                                             ByMode(mode)>> >>)

\* evaluate_driver_request of a file nobody touches meanwhile.
Evaluate(features, place, req, config, c, loaded) ==
    LET early == ByList(place, req, config, HashFor(req, c)) IN
    IF early # Undecided THEN early ELSE ByScan(features, config.mode, c, loaded)

\* The known-bad file: one that is missing or does not parse is an empty list.
KnownBad(badFile) ==
    IF badFile.torn THEN {} ELSE {Normal(t) : t \in badFile.hashes}

\* DriverVerdictConfig::default with the known-bad file: what the port uses.
PortConfig(badFile) ==
    [bad |-> KnownBad(badFile), good |-> {}, approved |-> {},
     publishers |-> TrustedNames, mode |-> "balanced"]

\* What the driver_scan_request command uses: the caller's known-bad hashes are
\* taken as they are spelled.
CommandConfig(badFile, lists, mode) ==
    [bad |-> KnownBad(badFile) \cup lists.bad,
     good |-> {Normal(t) : t \in lists.good},
     approved |-> {Normal(t) : t \in lists.approved},
     publishers |-> TrustedNames,
     mode |-> IF mode = "none" THEN DefaultMode ELSE mode]

-----------------------------------------------------------------------------
\* After the start.

\* native_threat_match: a fresh engine every time, and no match if it fails.
NativeMatch(c, assets) == assets /\ c.says \in {"test", "confirmed"}

\* compat_threat_match: the best YARA pattern, or ClamAV.  (That an engine of them
\* fails is in GuardWatch.)
CompatMatch(features, c) ==
    \/ "yara" \in features /\ \E i \in DOMAIN c.yara : c.yara[i] = "confirmed"
    \/ "clam" \in features /\ c.clam

\* The caller's hashes are compared as they are spelled.
ThreatMatch(features, known, c, assets) ==
    /\ c # NoFile
    /\ \/ FileHash(c) \in known
       \/ NativeMatch(c, assets)
       \/ CompatMatch(features, c)

StartedActions == {"error", "monitored", "reviewOnly", "stoppedAndQuarantined"}
StartedAction(features, mode, known, c, assets) ==
    FirstOf(<< <<c = NoFile, "error">>,
               <<~ThreatMatch(features, known, c, assets), "monitored">>,
               <<ReviewOnly(mode), "reviewOnly">>,
               <<TRUE, "stoppedAndQuarantined">> >>)

-----------------------------------------------------------------------------
\* The driver's probe and the self-test.

\* probe: it loads the driver if it could run and does not.
Loads(d) == d.installed /\ ~d.running /\ d.testSigned

Fixture(name, says) == [name |-> name, says |-> says, yara |-> <<>>, clam |-> FALSE]
EicarFile == Fixture("safe-eicar", "test")
BadFile   == Fixture("known-bad-test", "clean")
PlainFile == Fixture("unknown-unsigned-test", "clean")

\* run_self_test, in the process of the command: six evaluations of files it
\* has just written (two of them of a plain file in lockdown).  "bad" is the
\* known-bad file and the caller's list.
SelfTest(features, bad, d, loaded) ==
    LET Asked(config, c) == Evaluate(features, "user", BareRequest, config, c, loaded)
        Config(mode) == [bad |-> {}, good |-> {}, approved |-> {},
                         publishers |-> TrustedNames, mode |-> mode]
        plain    == Normal(FileHash(PlainFile))
        eicar    == Asked([Config("balanced") EXCEPT !.bad = bad], EicarFile)
        known    == Asked([Config("balanced") EXCEPT
                             !.bad = bad \cup {Normal(FileHash(BadFile))}], BadFile)
        unknown  == Asked(Config("lockdown"), PlainFile)
        approved == Asked([Config("lockdown") EXCEPT !.approved = {plain}], PlainFile)
        good     == Asked([Config("lockdown") EXCEPT !.good = {plain}], PlainFile)
        available == /\ d.running /\ d.answers
                     /\ \A a \in {eicar, known, unknown} : a.action = "block"
    IN  [error     |-> Failed \in {eicar, known, unknown, approved, good},
         available |-> available,
         passed    |-> /\ d.installed /\ available
                       /\ ~unknown.label /\ ~unknown.quarantine
                       /\ approved.action = "allow" /\ good.action = "allow"]

=============================================================================
