---------------------------- MODULE NativeEngine ----------------------------
(***************************************************************************)
(* The native engine: what it finds in a file, how it fuses the findings   *)
(* into a verdict, and the scan job that judges one file after another and *)
(* moves the confirmed ones to its own quarantine.                         *)
(*                                                                         *)
(* Code: zentor_native_engine/src (engine.rs, verdict/, heuristics/,       *)
(* rules/, signatures/, trust/, ml/, analyzers/, scan/, quarantine/).      *)
(*                                                                         *)
(* A content is a record of what its bytes tell: its magic number, the     *)
(* indicators its sample shows, how often each import category occurs, its *)
(* length and whether it is signed; the record itself stands for the       *)
(* SHA-256 of the whole file.  A file without a magic number has the type  *)
(* its extension names, so the same bytes are analyzed differently under   *)
(* another name.  Other programs replace files while the job runs.         *)
(***************************************************************************)
EXTENDS Integers, Sequences, FiniteSets, FiniteSetsExt

CONSTANTS
    Paths, Contents, NoFile,
    About,        \* About[p]: [place, name, type, depth, excluded, broken]
    Model,        \* Model[p][c]: how sure the model is; it looks at the path too
    Entries,      \* what lies under the job's folders, in the order it is walked
    SignaturePack, RulePack,     \* sets of signatures and of rules
    KnownGood, KnownBad,         \* the trust store's hashes
    ProductionModel,             \* the model's production_ready flag
    SampleLimit,                 \* bytes of a file that are looked at (64 MiB)
    MaxChanges                   \* bound on the writes of other programs

ASSUME EngineAssumption ==
    /\ Entries \in Seq(Paths)
    /\ KnownGood \subseteq Contents /\ KnownBad \subseteq Contents
    /\ NoFile \notin Contents
    /\ ProductionModel \in BOOLEAN
    /\ SampleLimit \in Nat /\ MaxChanges \in Nat

\* Names the engine gives its own findings; those of the packs begin with "ZNE-"
\* (assets/zentor_native).
OwnNames == {"eicar_test_signature", "known_bad_hash"}
ASSUME PackAssumption ==
    \A x \in SignaturePack \cup RulePack : x.id \notin OwnNames

Ordered(a, b) == IF a < b THEN a ELSE b       \* Ord::min

-----------------------------------------------------------------------------
\* The analyzers.

\* detect_file_type: a magic number tells; without one, the extension does.
TypeOf(p, c) == IF c.magic # "none" THEN c.magic ELSE About[p].type

ScriptTypes == {"powershell", "javascript", "batch", "vbs"}

\* What a file shows that only an analyzer of its type can see.
Sees(p, c, types, x) == TypeOf(p, c) \in types /\ x \in c.shows
Encoded(p, c) == Sees(p, c, ScriptTypes \ {"batch"}, "encoded_command")
Fetches(p, c) == /\ Sees(p, c, ScriptTypes, "download")
                 /\ Sees(p, c, ScriptTypes, "execute")
Tampers(p, c) == Sees(p, c, {"powershell", "batch"}, "tamper")
InZip(c, x)  == c.magic = "zip" /\ x \in c.shows
Nested(c)    == InZip(c, "executable") /\ InZip(c, "decoy_name")
Imports(c, k) == IF c.magic = "pe" THEN c.imports[k] ELSE 0
Injects(c)   == Imports(c, "injection") > 0 /\ Imports(c, "network") > 0
Sample(c)    == Ordered(c.size, SampleLimit)

\* analyze_zip fails on an entry name that reaches past the end of the sample.
Analyzable(c) == ~InZip(c, "cut_entry")

-----------------------------------------------------------------------------
\* Evidence.  "says" holds the words infer_category looks for in its text.

Ev(id, weight, source, says) ==
    [id |-> id, weight |-> weight, source |-> source, says |-> says]
\* A decision list: the value of the first row whose condition holds.
FirstOf(rows) == rows[Min({i \in DOMAIN rows : rows[i][1]})][2]

Found(cases) == {k[2] : k \in {j \in cases : j[1]}}

FilenameRisk(p) == CASE About[p].name = "double_extension" -> 25
                     [] About[p].name = "exe"              -> 3
                     [] OTHER                              -> 0
LocationRisk(p) == CASE About[p].place = "temp"      -> 8
                     [] About[p].place = "downloads" -> 5
                     [] About[p].place = "startup"   -> 18
                     [] OTHER                        -> 0

ImportScore(c) ==
    Ordered(45, 12 * Imports(c, "injection") + 14 * Imports(c, "credential")
                + 10 * Imports(c, "persistence") + 8 * Imports(c, "debugging"))

Heuristics(p, c) ==
    LET H(id, w, says) == Ev(id, w, "heuristic", says) IN
    Found({
      <<FilenameRisk(p) >= 25, H("filename_risk", FilenameRisk(p), {})>>,
      <<FilenameRisk(p) \in 1..24,
        H("filename_observation", Ordered(FilenameRisk(p), 8), {})>>,
      <<LocationRisk(p) > 0, H("location_observation", LocationRisk(p), {})>>,
      <<"high_entropy" \in c.shows, H("high_entropy", 18, {})>>,
      <<Encoded(p, c), H("encoded_script_command", 20, {"script"})>>,
      <<Fetches(p, c), H("download_execute_script", 35, {"download", "script"})>>,
      <<Tampers(p, c), H("security_tamper_script", 35, {"script", "tamper"})>>,
      <<ImportScore(c) > 0,
        H("suspicious_imports", ImportScore(c), {"credential", "persistence"})>>,
      <<InZip(c, "path_escape"), H("archive_zip_slip", 45, {})>>,
      <<Nested(c), H("archive_suspicious_executable", 25, {})>>})

\* evaluate_rule: enough of the rule's conditions hold.
Holds(cond, p, c) ==
    CASE cond.on = "file_type"   -> TypeOf(p, c) = cond.value
      [] cond.on = "encoded"     -> Encoded(p, c)
      [] cond.on = "fetches"     -> Fetches(p, c)
      [] cond.on = "executable"  -> InZip(c, "executable")
      [] cond.on = "path"        -> About[p].place = cond.value
      [] cond.on = "imports"     -> Imports(c, cond.kind) >= cond.value
      [] cond.on = "tamper"      -> Tampers(p, c)
      [] cond.on = "text"        -> cond.value \in c.shows

RuleWeight(r) ==
    CASE r.verdict = "confirmed" /\ r.confidence = "confirmed" -> 100
      [] r.verdict = "probable" /\ r.confidence = "high" -> 65
      [] r.verdict = "suspicious" /\ r.confidence \in {"high", "medium"} -> 40
      [] OTHER -> 15

Rules(p, c) ==
    {Ev(r.id, RuleWeight(r), "rule", r.says) :
        r \in {q \in RulePack :
                 Cardinality({x \in q.conditions : Holds(x, p, c)}) >= q.min}}

Context(x, p, c) ==
    CASE x = "encoded_command"           -> Encoded(p, c)
      [] x = "downloader_and_execution"  -> Fetches(p, c)
      [] x = "archive_nested_executable" -> Nested(c)
      [] x = "suspicious_import_combo"   -> Injects(c)
      [] x = "high_entropy_section"      -> c.magic = "pe" /\ "packed_section" \in c.shows
      [] OTHER                           -> TRUE

Pattern(s, p, c) ==
    CASE s.kind = "exact_hash"      -> s.pattern = c
      [] s.kind = "text"            -> s.pattern \in c.shows
      [] s.kind = "encoded_command" -> Encoded(p, c)
      [] s.kind = "nested"          -> Nested(c)
      [] s.kind = "import_combo"    -> Injects(c)

\* matches_signature: the length is that of the sample, not of the file.
SignatureMatches(s, p, c) ==
    /\ Sample(c) \in s.from .. s.to
    /\ "*" \in s.types \/ TypeOf(p, c) \in s.types
    /\ \A x \in s.context : Context(x, p, c)
    /\ Pattern(s, p, c)

SignatureWeight(s) == CASE s.confidence = "confirmed" -> 100
                        [] s.confidence = "high"      -> 45
                        [] s.confidence = "medium"    -> 25
                        [] OTHER                      -> 10

\* validate_signatures, validate_rules: an invalid one fails the whole engine.
Broad(s) == s.kind = "text" /\ s.short
ValidSignature(s) ==
    /\ s.types # {}
    /\ Broad(s) => s.confidence = "low"
    /\ s.confidence = "confirmed" /\ s.kind # "exact_hash" => s.acts
ValidRule(r) ==
    /\ r.conditions # {}
    /\ r.verdict = "confirmed" => r.confidence = "confirmed"
    /\ Cardinality(r.conditions) < 2 => r.confidence = "low"
LoadsSignatures == \A s \in SignaturePack : ValidSignature(s)
LoadsRules == \A r \in RulePack : ValidRule(r)
Initializes == LoadsSignatures /\ LoadsRules

Eicar == [id |-> "eicar_test_signature", kind |-> "text", pattern |-> "eicar",
          types |-> {"*"}, from |-> 0, to |-> SampleLimit, context |-> {},
          confidence |-> "confirmed", says |-> {}, short |-> FALSE,
          acts |-> TRUE]

Signatures(p, c) ==
    {Ev(s.id, SignatureWeight(s), "signature", s.says) :
        s \in {t \in SignaturePack \cup {Eicar} : SignatureMatches(t, p, c)}}

\* analyze_features: only a production model is ever "confirmed".
MlWeight(p, c) ==
    CASE Model[p][c] = "sure"   -> IF ProductionModel THEN 80 ELSE 55
      [] Model[p][c] = "likely" -> 55
      [] Model[p][c] = "maybe"  -> 30
      [] OTHER                  -> 0
Ml(p, c) == Found({<<MlWeight(p, c) > 0, Ev("native_ml", MlWeight(p, c), "ml", {})>>})

OwnArtifact(p) == About[p].name = "avorax_setup" \/ About[p].place = "avorax"
TrustedPublisher(p, signed) == signed \/ OwnArtifact(p)
TrustedArtifact(p, signed) ==
    OwnArtifact(p) \/ (About[p].place = "system" /\ signed)

\* Trust is evidence against, and is left out for a known-bad hash.
Trust(p, c, signed) ==
    IF c \in KnownBad
    THEN {Ev("known_bad_hash", 100, "app_control", {})}
    ELSE Found({
      <<TrustedPublisher(p, signed), Ev("trusted_publisher", -80, "trust", {})>>,
      <<TrustedArtifact(p, signed),
        Ev("trusted_local_artifact", -90, "trust", {})>>})

-----------------------------------------------------------------------------
\* The verdict.

Topics == <<"ransom", "credential", "miner", "unwanted", "download", "script",
            "persistence", "tamper", "trojan">>
InferCategory(evidence) ==
    LET said == {i \in DOMAIN Topics : \E e \in evidence : Topics[i] \in e.says}
    IN  IF said = {} THEN "unknown" ELSE Topics[Min(said)]

Score(evidence) ==
    LET sum == MapThenSumSet(LAMBDA e : e.weight, evidence)
    IN  IF sum < 0 THEN 0 ELSE Ordered(sum, 100)

Graded(evidence, good) ==
    LET score  == Score(evidence)
        strong == Cardinality({e \in evidence : e.weight >= 20})
        mlHigh == \E e \in evidence : e.source = "ml" /\ e.weight >= 40
    IN  FirstOf(<< <<score >= 85 /\ strong >= 3,             "probable">>,
                   <<score >= 60 /\ (strong >= 2 \/ mlHigh), "probable">>,
                   <<score >= 35,                            "suspicious">>,
                   <<score >= 15,                            "observation">>,
                   <<good,                                   "likely_clean">>,
                   <<TRUE,                                   "clean">> >>)

ConfidenceOf(v) == CASE v \in {"confirmed", "test"} -> "confirmed"
                     [] v = "probable"              -> "high"
                     [] v = "suspicious"            -> "medium"
                     [] OTHER                       -> "low"

\* Mutant: a finding of that weight is proof whoever made it.
ProofBySum(evidence) ==
    \E e \in evidence : e.id = "known_bad_hash" \/ e.weight >= 90

Proof(evidence) ==
    \E e \in evidence :
        e.id = "known_bad_hash" \/ (e.source = "signature" /\ e.weight >= 90)

\* RiskFusion::fuse.  Proof beats everything; then behaviour; then the sum.
Fuse(found, good, allowlisted) ==
    LET evidence == found \cup
            Found({<<good \/ allowlisted, Ev("known_good", -70, "trust", {})>>})
        test    == \E e \in evidence : e.id = "eicar_test_signature"
        proof   == Proof(evidence)
        ransom  == \E e \in evidence : e.source = "behavior" /\ e.weight >= 85
        Decided(verdict, category, score) ==
            [verdict |-> verdict, confidence |-> ConfidenceOf(verdict),
             category |-> category, score |-> score]
    IN  FirstOf(<<
          <<test,   Decided("test", "test", 100)>>,
          <<proof,  Decided("confirmed", InferCategory(evidence), 100)>>,
          <<ransom, Decided("probable", "ransom", 92)>>,
          <<TRUE,   Decided(Graded(evidence, good), InferCategory(evidence),
                            Score(evidence))>> >>)

\* scan_bytes_at; the engine's own allowlist is always empty.
EvidenceOf(p, c, signed) ==
    Trust(p, c, signed) \cup Signatures(p, c) \cup Rules(p, c)
        \cup Heuristics(p, c) \cup Ml(p, c)
Assess(p, c, signed) ==
    Fuse(EvidenceOf(p, c, signed),
         c \in KnownGood \/ TrustedArtifact(p, signed), FALSE)

Surfaces(v) ==
    v.verdict \notin {"clean", "likely_clean", "unknown", "observation"}

\* should_auto_quarantine: both automatic modes ask for the same.
AutoQuarantines(mode, v) ==
    /\ mode \in {"auto_confirmed", "auto_high"}
    /\ v.verdict \in {"confirmed", "test"}
    /\ v.confidence = "confirmed"

\* analyze_process_start.
ProcessDecision(v) ==
    CASE v.verdict \in {"confirmed", "test", "probable"} -> "block"
      [] v.verdict = "suspicious" -> "allow_and_monitor"
      [] OTHER -> "allow"

=============================================================================
