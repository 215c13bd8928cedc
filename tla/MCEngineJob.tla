---------------------------- MODULE MCEngineJob ----------------------------
EXTENDS EngineJob

None == [injection |-> 0, credential |-> 0, persistence |-> 0,
         debugging |-> 0, network |-> 0]
C(magic, shows, size, signed) ==
    [magic |-> magic, shows |-> shows, imports |-> None, size |-> size,
     signed |-> signed]
Pe(shows, imports, signed) ==
    [magic |-> "pe", shows |-> shows, imports |-> imports, size |-> 1,
     signed |-> signed]

App       == Pe({}, None, FALSE)
SignedApp == Pe({}, None, TRUE)
Injector  == Pe({"high_entropy", "packed_section"},
                [None EXCEPT !.injection = 1, !.credential = 1, !.network = 2],
                FALSE)
Stealer   == Pe({}, [None EXCEPT !.credential = 4, !.debugging = 1], TRUE)
Packed    == Pe({"marker"}, None, FALSE)
Loader    == C("none", {"encoded_command", "download", "execute", "tamper"}, 1, FALSE)
Encoder   == C("none", {"encoded_command", "simulator"}, 1, FALSE)
Wiper     == C("none", {"encoded_command", "tamper"}, 1, FALSE)
Slip      == C("zip", {"path_escape", "executable", "decoy_name"}, 1, FALSE)
CutZip    == C("zip", {"cut_entry"}, 1, FALSE)
EicarText == C("none", {"eicar"}, 1, FALSE)
MarkedTxt == C("none", {"marker", "ransom_note"}, 1, FALSE)
BigBad    == C("none", {}, 3, TRUE)

MCContents == {App, SignedApp, Injector, Stealer, Packed, Loader, Encoder,
               Wiper, Slip, CutZip, EicarText, MarkedTxt, BigBad}

MCKnownGood == {App, EicarText, Wiper}
MCKnownBad == {BigBad, Stealer}

S(id, kind, pattern, types, confidence, context, says) ==
    [id |-> id, kind |-> kind, pattern |-> pattern, types |-> types,
     from |-> 0, to |-> 2, context |-> context, confidence |-> confidence,
     says |-> says, short |-> FALSE, acts |-> TRUE]
MCSignatures == {
    S("hash", "exact_hash", Slip, {"*"}, "confirmed", {}, {"trojan"}),
    S("marker", "text", "marker", {"pe"}, "confirmed", {}, {"miner"}),
    S("simulator", "text", "simulator", {"unknown", "text"}, "confirmed", {}, {}),
    S("combo", "import_combo", "", {"pe"}, "high", {"high_entropy_section"}, {}),
    S("encoded", "encoded_command", "", {"powershell"}, "medium", {}, {"script"}),
    S("nested", "nested", "", {"zip"}, "medium", {}, {}),
    [S("note", "text", "ransom_note", {"text"}, "low", {}, {"ransom"})
        EXCEPT !.short = TRUE]}

On(on, value) == [on |-> on, value |-> value]
MCRules == {
    [id |-> "fetcher", conditions |-> {On("encoded", 0), On("fetches", 0)},
     min |-> 2, verdict |-> "probable", confidence |-> "high",
     says |-> {"download"}],
    [id |-> "note", conditions |-> {On("text", "ransom_note"),
                                    On("file_type", "text")},
     min |-> 2, verdict |-> "confirmed", confidence |-> "confirmed",
     says |-> {"ransom"}],
    [id |-> "temp", conditions |-> {On("path", "temp"),
            [on |-> "imports", kind |-> "injection", value |-> 1]},
     min |-> 1, verdict |-> "suspicious", confidence |-> "medium",
     says |-> {}]}

At(place, name, type, depth, excluded, broken) ==
    [place |-> place, name |-> name, type |-> type, depth |-> depth,
     excluded |-> excluded, broken |-> broken]
MCPaths == {"tmp", "setup", "sys", "run"}
MCAbout == [p \in MCPaths |->
    CASE p = "tmp"   -> At("temp", "double_extension", "powershell", 1, FALSE, FALSE)
      [] p = "setup" -> At("downloads", "avorax_setup", "text", 4, FALSE, FALSE)
      [] p = "sys"   -> At("system", "exe", "unknown", 2, FALSE, FALSE)
      [] p = "run"   -> At("startup", "plain", "batch", 1, FALSE, TRUE)]
\* The model looks at the place of a file as well.
MCModel == [p \in MCPaths |-> [c \in MCContents |->
    CASE c = Packed   -> "sure"
      [] c = Injector -> IF p \in {"tmp", "run"} THEN "sure" ELSE "likely"
      [] c = Stealer  -> IF p = "tmp" THEN "likely" ELSE "maybe"
      [] OTHER        -> "none"]]
\* Two folders; "tmp" is under both.
MCEntries == <<"tmp", "setup", "run", "sys", "tmp">>

\* At most two files, one of them from a short list.
Small ==
    \E p, q \in MCPaths, c \in MCContents, d \in {App, EicarText, NoFile} :
        disk = [r \in MCPaths |-> IF r = p THEN c ELSE IF r = q THEN d ELSE NoFile]
MCInit == Small /\ Init
MCSpec == MCInit /\ [][Next]_vars
=============================================================================
