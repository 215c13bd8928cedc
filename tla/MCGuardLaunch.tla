---------------------------- MODULE MCGuardLaunch ----------------------------
EXTENDS GuardLaunch

C(name, says, yara, clam) ==
    [name |-> name, says |-> says, yara |-> yara, clam |-> clam]
App      == C("app", "clean", <<>>, FALSE)
Odd      == C("odd", "suspicious", <<"low", "confirmed">>, FALSE)
Probable == C("probable", "probable", <<>>, FALSE)
Bad      == C("bad", "confirmed", <<>>, FALSE)
Ruled    == C("ruled", "clean", <<"high", "confirmed">>, TRUE)
Cut      == C("cut", "error", <<"high">>, FALSE)
MCContents == {App, Odd, Probable, Bad, Ruled, Cut}

MCRawModes == {"off", "monitorOnly", "lockdown", "aggressive"}
NoList == [bad |-> {}, good |-> {}, approved |-> {}]
FullList == [bad      |-> {Spelled(App, FALSE), Spelled(Ruled, TRUE)},
             good     |-> {Spelled(Probable, FALSE)},
             approved |-> {Spelled(Bad, TRUE), Spelled(Odd, FALSE)}]
MCLists == {NoList, FullList}
Signed == [hash |-> Spelled(App, TRUE), hashBy |-> "caller", signature |-> "valid",
           signatureBy |-> "windows_wintrust", publisher |-> {"avorax"}]
MCRequests == {Signed, [Signed EXCEPT !.hashBy = "avorax_guard_service",
                                      !.signatureBy = "caller"]}

\* Some of the settings.  The plain one goes with every content, driver and
\* console; the others vary the place, the features, where the mode is configured
\* and what the known-bad file holds.
NotBad == [torn |-> FALSE, hashes |-> {}]
Plain == [place |-> "user", features |-> {}, env |-> {}, variable |-> "none",
          badFile |-> NotBad]
Varied ==
    {[Plain EXCEPT !.place = p] : p \in Places \ {"user"}}
    \cup {[Plain EXCEPT !.env = e, !.variable = v] :
            e \in {{"HOME", "DATA_DIR"}, {"MODE_CONFIG", "ZENTOR_MODE_CONFIG"}},
            v \in {"none", "off"}}
    \cup {[Plain EXCEPT !.badFile = [torn |-> t, hashes |-> FullList.bad]] :
            t \in BOOLEAN}
Both == [Plain EXCEPT !.features = {"yara", "clam"}]

Driver(running, loadable) ==
    [installed |-> running \/ loadable, running |-> running, answers |-> running,
     testSigned |-> loadable]
Chosen ==
    /\ setup \in Varied \cup {Plain, Both}
    /\ disk \in Contents
    /\ driver \in {Driver(TRUE, TRUE), Driver(FALSE, TRUE), Driver(FALSE, FALSE)}
    /\ setup \in Varied => disk \in {App, Bad, Ruled}
    /\ disk = Ruled /\ setup \in Varied => setup.badFile.hashes # {}
    /\ setup.env # {} => disk = App
    /\ setup # Plain => driver.running
    /\ ~driver.running => disk \in {App, Bad}
ChosenMore ==
    /\ engine["console"] \in {"unset", "failed"}
    /\ setup # Plain => engine["console"] = "unset" /\ assets
    /\ engine["console"] = "failed" => driver.running /\ disk \in {App, Probable}
MCInit == Chosen /\ LaunchInit /\ ChosenMore
MCSpec == MCInit /\ [][LaunchNext]_launchVars /\ Fairness
=============================================================================
