---------------------------- MODULE ClientUpdates ----------------------------
(***************************************************************************)
(* The client's updates: checking the feed, downloading, verifying and     *)
(* installing a package, rolling back.                                     *)
(*                                                                         *)
(* Code: zentor_client/lib app/app_state.dart (unawaitedCheckForUpdates,   *)
(* installUpdateInApp, rollbackUpdateInApp), core/updates/                 *)
(* update_service.dart (ZentorUpdateService), and the buttons of the home, *)
(* settings and update screens that call them.                             *)
(*                                                                         *)
(* A press of a button starts a flow: an asynchronous Dart function, cut   *)
(* at its awaits.  Flows share the state the screens show, and no lock:    *)
(* only the buttons a status disables keep them apart.  A flow runs the    *)
(* updater (UpdateApply) as a process, elevated on Windows, that outlives  *)
(* the app.  Requests to the feed have no timeout.  The model has one      *)
(* instance of the app; nothing in the code keeps a second one from        *)
(* running beside it, with the same cache and updaters of its own.         *)
(***************************************************************************)
EXTENDS Naturals, Sequences, FiniteSets

CONSTANTS
    Channel,     \* buildConfig.updateChannel
    FeedUrls,    \* what buildConfig.updateFeedUrl may be
    Versions,    \* versions: their numeric parts, without the text after "-"
    First,       \* the version that is installed at first
    Names,       \* file names of packages
    AupNames,    \* those that end in .aup
    Contents,    \* what a package file may hold; it stands for its hash too
    Servers,     \* what the feed's server may have, see IsServer
    Missing,     \* no such document, asset or file
    Torn,        \* a file that is being written
    None,        \* no update, no updater's reading
    MaxFlows,    \* bound: flows that are started
    MaxPublishes,\* bound: changes of the server
    MaxRestarts  \* bound: restarts of the app

\* A feed, as decoded.  "product": it is an object that names this product, a
\* version and a list of packages; a package's "aup": its URL ends so; "trusted":
\* the URL is HTTPS or a file.
IsFeed(feed) ==
    /\ feed.product \in BOOLEAN /\ feed.channel \in {"stable", "dev"}
    /\ feed.latest \in Versions
    /\ \A i \in DOMAIN feed.packages :
         feed.packages[i] \in [version : Versions, name : Names, aup : BOOLEAN,
                               trusted : BOOLEAN, sha : Contents \cup {Missing}]

IsServer(server) ==
    /\ server.feed # Missing => IsFeed(server.feed)
    /\ \A i \in DOMAIN server.releases :
         LET release == server.releases[i] IN
           /\ release.draft \in BOOLEAN /\ release.prerelease \in BOOLEAN
           /\ release.feed # Missing => IsFeed(release.feed)
    /\ server.files \in [Names -> Contents \cup {Missing}]

ASSUME ClientUpdatesAssumption ==
    /\ Channel \in {"stable", "dev"}
    /\ FeedUrls \subseteq {"none", "malformed", "untrusted", "latest", "other"}
    /\ Versions \subseteq Seq(Nat) /\ First \in Versions
    /\ AupNames \subseteq Names /\ {Missing, Torn, None} \cap Contents = {}
    /\ \A server \in Servers : IsServer(server)
    /\ MaxFlows \in Nat \ {0} /\ MaxPublishes \in Nat /\ MaxRestarts \in Nat

VARIABLES
    status,     \* updateStatus, which the screens show
    info,       \* updateInfo: the update that was offered, or None
    feedUrl,
    server,
    cache,      \* cache[name]: what AvoraxUpdates has under that name
    flows,      \* flows[i]: the i-th flow
    updaters,   \* updater processes the app has not heard the end of
    running,    \* version of the app that is running
    installed,  \* version that is installed
    publishes, restarts,
    masked      \* history: a status told of less than was under way

vars == <<status, info, feedUrl, server, cache, flows, updaters, running,
          installed, publishes, restarts, masked>>

Statuses == {"notConfigured", "checking", "upToDate", "updateAvailable",
             "downloading", "verifying", "installing", "readyToRestart",
             "rollingBack", "failed"}

\* UpdateInfo: "at" is the version it was compared with.
Updates == [version : Versions, at : Versions, name : Names, sha : Contents]

\* A flow: what it is to do next ("ready": it has shown that the app may be
\* restarted), the update it was given or found, and what it
\* holds: the result of a check, the body of a download.
Flows == [kind : {"check", "install", "rollback"},
          pc : {"log", "feed", "releases", "land", "fetch", "write", "hash",
                "verify", "apply", "rollback", "ready", "done"},
          update : Updates \cup {None},
          held : Statuses \cup Contents \cup {None}]
Flow(kind, pc) == [kind |-> kind, pc |-> pc, update |-> None, held |-> None]

Updaters == [flow : 1..MaxFlows, op : {"verify", "apply", "rollback"},
             update : Updates \cup {None},
             read : Contents \cup {Missing, Torn, None},
             exit : {"none", "ok", "error"}]

TypeOK ==
    /\ status \in Statuses /\ info \in Updates \cup {None}
    /\ feedUrl \in FeedUrls /\ server \in Servers
    /\ cache \in [Names -> Contents \cup {Missing, Torn}]
    /\ flows \in Seq(Flows) /\ Len(flows) <= MaxFlows
    /\ updaters \subseteq Updaters
    /\ running \in Versions /\ installed \in Versions
    /\ publishes \in 0..MaxPublishes /\ restarts \in 0..MaxRestarts
    /\ masked \in BOOLEAN

-----------------------------------------------------------------------------
(* Reading a feed.                                                          *)

\* _compareVersions: part by part, a missing part is 0.
Part(version, i) == IF i \in DOMAIN version THEN version[i] ELSE 0
Newer(v, w) ==
    \E i \in 1..(Len(v) + Len(w)) :
        /\ Part(v, i) > Part(w, i)
        /\ \A j \in 1..(i - 1) : Part(v, j) = Part(w, j)

Result(outcome, update) == [status |-> outcome, update |-> update]
Failed == Result("failed", None)

\* _updateFromFeed: the first package of the latest version, if that is newer.
UpdateFromFeed(feed, at) ==
    LET latest(i) == feed.packages[i].version = feed.latest /\ feed.packages[i].aup
        chosen == {i \in DOMAIN feed.packages :
                     latest(i) /\ \A j \in 1..(i - 1) : ~latest(j)}
        usable == {p \in {feed.packages[i] : i \in chosen} :
                     p.trusted /\ p.sha # Missing}
    IN CASE ~feed.product \/ feed.channel # Channel -> Failed
         [] feed.product /\ feed.channel = Channel /\ ~Newer(feed.latest, at) ->
              Result("upToDate", None)
         [] OTHER ->
              IF usable = {} THEN Failed
              ELSE LET p == CHOOSE p \in usable : TRUE
                   IN Result("updateAvailable",
                             [version |-> p.version, at |-> at,
                              name |-> p.name, sha |-> p.sha])

\* _resolveGithubReleaseFeedAssetUri: the feeds of the releases in their order,
\* without drafts, and without prereleases unless this is a dev build.  A release
\* whose feed is at no trusted URL has none.
ReleaseFeed(releases) ==
    LET usable(i) == /\ ~releases[i].draft
                     /\ releases[i].prerelease => Channel = "dev"
                     /\ releases[i].feed # Missing
        first == {i \in DOMAIN releases : usable(i) /\ \A j \in 1..(i - 1) : ~usable(j)}
    IN IF first = {} THEN Missing ELSE releases[CHOOSE i \in first : TRUE].feed

ReadFeed(feed) == IF feed = Missing THEN Failed ELSE UpdateFromFeed(feed, running)

-----------------------------------------------------------------------------
(* Flows and the updaters they wait for.                                    *)

Go(i, pc) == flows' = [flows EXCEPT ![i].pc = pc]
Ended(i) == flows[i].pc = "done"
Working == {i \in DOMAIN flows : /\ flows[i].kind # "check"
                                 /\ flows[i].pc \notin {"ready", "done"}}
RunningUpdaters == {u \in updaters : u.exit = "none"}

\* load(): the silent check has shown "checking" before anything is pressed.
Init ==
    /\ status = "checking" /\ info = None
    /\ feedUrl \in FeedUrls /\ server \in Servers
    /\ cache = [name \in Names |-> Missing]
    /\ flows = <<Flow("check", "feed")>>
    /\ updaters = {}
    /\ running = First /\ installed = First
    /\ publishes = 0 /\ restarts = 0 /\ masked = FALSE

\* The settings screen's button, which only a check disables; a check that the
\* user asked for is logged before the status is set.
PressCheck ==
    /\ status # "checking"
    /\ Len(flows) < MaxFlows
    /\ flows' = Append(flows, Flow("check", "log"))
    /\ UNCHANGED <<status, info, feedUrl, server, cache, updaters, running,
                   installed, publishes, restarts, masked>>

\* If the event is not logged the check ends there.
StartCheck(i) ==
    /\ flows[i].kind = "check" /\ flows[i].pc = "log"
    /\ \/ Go(i, "done") /\ UNCHANGED <<status, masked>>
       \/ /\ status' = "checking"
          /\ masked' = (masked \/ Working # {})
          /\ Go(i, "feed")
    /\ UNCHANGED <<info, feedUrl, server, cache, updaters, running, installed,
                   publishes, restarts>>

Found(i, result) ==
    flows' = [flows EXCEPT ![i].pc = "land", ![i].held = result.status,
                           ![i].update = result.update]

\* checkForUpdate up to the answer for the feed; a 404 for the latest release's
\* feed is followed by a look at the list of releases.  A URL that does not parse
\* is an error nobody catches.
AskFeed(i) ==
    /\ flows[i].pc = "feed"
    /\ CASE feedUrl = "none" -> Found(i, Result("notConfigured", None))
         [] feedUrl = "malformed" -> Go(i, "done")
         [] feedUrl = "untrusted" -> Found(i, Failed)
         [] OTHER -> \/ Found(i, Failed)      \* no connection, another status
                     \/ IF feedUrl = "latest" /\ server.feed = Missing
                        THEN Go(i, "releases")
                        ELSE Found(i, ReadFeed(server.feed))
    /\ UNCHANGED <<status, info, feedUrl, server, cache, updaters, running,
                   installed, publishes, restarts, masked>>

AskReleases(i) ==
    /\ flows[i].pc = "releases"
    /\ \E result \in {Failed, ReadFeed(ReleaseFeed(server.releases))} : Found(i, result)
    /\ UNCHANGED <<status, info, feedUrl, server, cache, updaters, running,
                   installed, publishes, restarts, masked>>

\* The answer overwrites the status and the offer, whatever they have become.
LandCheck(i) ==
    /\ flows[i].pc = "land"
    /\ status' = flows[i].held /\ info' = flows[i].update
    /\ masked' = (masked \/ Working # {})
    /\ Go(i, "done")
    /\ UNCHANGED <<feedUrl, server, cache, updaters, running, installed,
                   publishes, restarts>>

\* installUpdateInApp; the three screens show its button for this status only.
\* Without an offer it is a check.
PressInstall ==
    /\ status = "updateAvailable"
    /\ Len(flows) < MaxFlows
    /\ IF info = None
       THEN flows' = Append(flows, Flow("check", "log")) /\ UNCHANGED status
       ELSE /\ flows' = Append(flows, [Flow("install", "fetch") EXCEPT !.update = info])
            /\ status' = "downloading"
    /\ UNCHANGED <<info, feedUrl, server, cache, updaters, running, installed,
                   publishes, restarts, masked>>

\* The update screen's "busy".
Busy == {"checking", "downloading", "verifying", "installing", "rollingBack"}

\* rollbackUpdateInApp; the update screen's button.
PressRollback ==
    /\ status \notin Busy
    /\ Len(flows) < MaxFlows
    /\ flows' = Append(flows, Flow("rollback", "log"))
    /\ status' = "rollingBack"
    /\ UNCHANGED <<info, feedUrl, server, cache, updaters, running, installed,
                   publishes, restarts, masked>>

\* The catch blocks: an install goes back to the offer, a rollback has failed.
Throw(i) ==
    /\ status' = IF flows[i].kind = "install" THEN "updateAvailable" ELSE "failed"
    /\ Go(i, "done")

\* _runUpdater, when the executable is there; what it is to do with which file.
Launch(i, op) ==
    updaters' = {u \in updaters : u.flow # i}
                \cup {[flow |-> i, op |-> op, update |-> flows[i].update,
                       read |-> None, exit |-> "none"]}

\* downloadUpdatePackage: the whole body is received, then written.
Fetch(i) ==
    /\ flows[i].pc = "fetch"
    /\ LET name == flows[i].update.name
           body == server.files[name]
       IN \/ Throw(i) /\ UNCHANGED cache
          \/ /\ name \in AupNames /\ body # Missing
             /\ cache' = [cache EXCEPT ![name] = Torn]
             /\ flows' = [flows EXCEPT ![i].pc = "write", ![i].held = body]
             /\ UNCHANGED status
    /\ UNCHANGED <<info, feedUrl, server, updaters, running, installed,
                   publishes, restarts, masked>>

WriteBody(i) ==
    /\ flows[i].pc = "write"
    /\ \/ Throw(i) /\ UNCHANGED cache         \* disk full
       \/ /\ cache' = [cache EXCEPT ![flows[i].update.name] = flows[i].held]
          /\ Go(i, "hash")
          /\ UNCHANGED status
    /\ UNCHANGED <<info, feedUrl, server, updaters, running, installed,
                   publishes, restarts, masked>>

\* Mutant: the file is not compared with the feed's hash.
HashUnchecked(i) ==
    /\ flows[i].pc = "hash"
    /\ info' = flows[i].update
    /\ status' = "verifying" /\ Go(i, "verify") /\ Launch(i, "verify")
    /\ UNCHANGED <<feedUrl, server, cache, running, installed, publishes, restarts,
                   masked>>

\* The hash of what the cache has now; a file that does not match is deleted, if
\* that succeeds.  Then the updater is asked to verify the file.
Hash(i) ==
    /\ flows[i].pc = "hash"
    /\ LET update == flows[i].update IN
         IF cache[update.name] = update.sha
         THEN /\ UNCHANGED cache
              /\ info' = update
              /\ \/ Throw(i) /\ UNCHANGED updaters      \* no updater executable
                 \/ status' = "verifying" /\ Go(i, "verify") /\ Launch(i, "verify")
         ELSE /\ \/ cache' = [cache EXCEPT ![update.name] = Missing]
                 \/ UNCHANGED cache
              /\ Throw(i)
              /\ UNCHANGED <<info, updaters>>
    /\ UNCHANGED <<feedUrl, server, running, installed, publishes, restarts, masked>>

Exited(i, exit) == \E u \in updaters : u.flow = i /\ u.exit = exit
Reaped(i) == {u \in updaters : u.flow # i}

UpdaterVerified(i) ==
    /\ flows[i].pc = "verify"
    /\ \/ /\ Exited(i, "error") /\ Throw(i)
          /\ updaters' = Reaped(i) /\ UNCHANGED info
       \/ /\ Exited(i, "ok")
          /\ info' = flows[i].update
          /\ \/ Throw(i) /\ updaters' = Reaped(i)    \* no updater executable
             \/ status' = "installing" /\ Go(i, "apply") /\ Launch(i, "apply")
    /\ UNCHANGED <<feedUrl, server, cache, running, installed, publishes,
                   restarts, masked>>

UpdaterApplied(i) ==
    /\ flows[i].pc = "apply"
    /\ updaters' = Reaped(i)
    /\ \/ /\ Exited(i, "error") /\ Throw(i)
          /\ UNCHANGED info
       \/ /\ Exited(i, "ok")
          /\ status' = "readyToRestart" /\ info' = flows[i].update
          /\ Go(i, "ready")
    /\ UNCHANGED <<feedUrl, server, cache, running, installed, publishes,
                   restarts, masked>>

StartRollback(i) ==
    /\ flows[i].kind = "rollback" /\ flows[i].pc = "log"
    /\ \/ Throw(i) /\ UNCHANGED updaters                \* no updater executable
       \/ Go(i, "rollback") /\ Launch(i, "rollback") /\ UNCHANGED status
    /\ UNCHANGED <<info, feedUrl, server, cache, running, installed, publishes,
                   restarts, masked>>

\* Mutant: the error of a rollback's updater is not caught.
UpdaterRolledBackUncaught(i) ==
    /\ flows[i].pc = "rollback"
    /\ updaters' = Reaped(i)
    /\ \/ Exited(i, "error") /\ Go(i, "done") /\ UNCHANGED status
       \/ Exited(i, "ok") /\ status' = "readyToRestart" /\ Go(i, "ready")
    /\ UNCHANGED <<info, feedUrl, server, cache, running, installed, publishes,
                   restarts, masked>>

UpdaterRolledBack(i) ==
    /\ flows[i].pc = "rollback"
    /\ updaters' = Reaped(i)
    /\ \/ Exited(i, "error") /\ Throw(i)
       \/ Exited(i, "ok") /\ status' = "readyToRestart" /\ Go(i, "ready")
    /\ UNCHANGED <<info, feedUrl, server, cache, running, installed, publishes,
                   restarts, masked>>

\* The events of an install or a rollback that succeeded are logged inside the
\* try, too: one that is not makes a failure of it, over whatever the screens show
\* by then.
LogReady(i) ==
    /\ flows[i].pc = "ready"
    /\ \/ Go(i, "done") /\ UNCHANGED <<status, masked>>
       \/ Throw(i) /\ masked' = (masked \/ Working # {})
    /\ UNCHANGED <<info, feedUrl, server, cache, updaters, running, installed,
                   publishes, restarts>>

\* The updater opens the package, some time after the app has checked it.
UpdaterReads(u) ==
    /\ u.exit = "none" /\ u.op # "rollback" /\ u.read = None
    /\ updaters' = (updaters \ {u}) \cup {[u EXCEPT !.read = cache[u.update.name]]}
    /\ UNCHANGED <<status, info, feedUrl, server, cache, flows, running,
                   installed, publishes, restarts, masked>>

\* It ends; nobody waits for the exit of one the app has left behind.  It may
\* fail for reasons of its own (UpdateApply), and must if the file is no package.
UpdaterExits(u) ==
    /\ u.exit = "none" /\ (u.op = "rollback" \/ u.read # None)
    /\ \E exit \in {"ok", "error"} :
         /\ exit = "ok" /\ u.op # "rollback" => u.read \in Contents
         /\ updaters' = (updaters \ {u})
              \cup (IF Ended(u.flow) THEN {} ELSE {[u EXCEPT !.exit = exit]})
         /\ CASE exit = "ok" /\ u.op = "apply" -> installed' = u.update.version
              [] exit = "ok" /\ u.op = "rollback" -> installed' \in Versions
              [] OTHER -> UNCHANGED installed
    /\ UNCHANGED <<status, info, feedUrl, server, cache, flows, running,
                   publishes, restarts, masked>>

\* A release is made, or withdrawn; a package is built anew under its old name.
Publish ==
    /\ publishes < MaxPublishes
    /\ publishes' = publishes + 1
    /\ server' \in Servers \ {server}
    /\ UNCHANGED <<status, info, feedUrl, cache, flows, updaters, running,
                   installed, restarts, masked>>

\* The app is closed at any moment and started again; its flows end, the
\* updaters it has started do not.
RestartApp ==
    /\ restarts < MaxRestarts /\ Len(flows) < MaxFlows
    /\ restarts' = restarts + 1
    /\ flows' = Append([i \in DOMAIN flows |-> [flows[i] EXCEPT !.pc = "done"]],
                       Flow("check", "feed"))
    /\ updaters' = RunningUpdaters
    /\ masked' = (masked \/ RunningUpdaters # {})
    /\ status' = "checking" /\ info' = None /\ running' = installed
    /\ UNCHANGED <<feedUrl, server, cache, installed, publishes>>

FlowStep(i) ==
    \/ StartCheck(i) \/ AskFeed(i) \/ AskReleases(i) \/ LandCheck(i)
    \/ Fetch(i) \/ WriteBody(i) \/ Hash(i)
    \/ UpdaterVerified(i) \/ UpdaterApplied(i)
    \/ StartRollback(i) \/ UpdaterRolledBack(i) \/ LogReady(i)

Next ==
    \/ PressCheck \/ PressInstall \/ PressRollback
    \/ \E i \in DOMAIN flows : FlowStep(i)
    \/ \E u \in updaters : UpdaterReads(u) \/ UpdaterExits(u)
    \/ Publish \/ RestartApp

Spec == Init /\ [][Next]_vars

-----------------------------------------------------------------------------
(* Properties                                                               *)

\* A flow is at the stage the status names.
AtStage(f) ==
    \/ status = "checking" /\ f.pc \in {"feed", "releases", "land"}
    \/ status = "downloading" /\ f.pc \in {"fetch", "write", "hash"}
    \/ status = "verifying" /\ f.pc = "verify"
    \/ status = "installing" /\ f.pc = "apply"
    \/ /\ status = "rollingBack" /\ f.kind = "rollback"
       /\ f.pc \in {"log", "rollback"}

\* A status that disables buttons is not left behind: while the screens show
\* checking, downloading, verifying, installing or rolling back, some flow is at
\* that stage and will write the status when it ends.  The exception is a check of
\* a feed URL that does not parse: nobody catches that error, and it stays at
\* "checking" (docs/in-app-updates.md: "fail honestly").
BusyMeansUnderWay ==
    status \in Busy =>
      \/ \E i \in DOMAIN flows : AtStage(flows[i])
      \/ status = "checking" /\ feedUrl = "malformed"

\* What an updater applies is the file whose hash the feed gave when the update
\* was offered, though the app checked it before two processes were started and
\* the server may have had another one since; except after a status told of less
\* than was under way, or the app was closed while an updater ran.
AppliedIsOffered ==
    \A u \in updaters :
        u.op = "apply" /\ u.read # None => u.read = u.update.sha \/ masked
=============================================================================
