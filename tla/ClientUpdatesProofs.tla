------------------------- MODULE ClientUpdatesProofs -------------------------
(***************************************************************************)
(* Proofs about ClientUpdates, for every feed, server and set of packages  *)
(* and every number of flows, publications and restarts.                   *)
(***************************************************************************)
EXTENDS ClientUpdates, TLAPS

\* What the check of a feed can come to.
Outcomes == {"notConfigured", "upToDate", "updateAvailable", "failed"}

\* What a flow is at each of its steps: only an install has a package to fetch,
\* and a check that is about to land does not hold a status that disables buttons.
FlowOK(f) ==
    /\ f.kind = "install" => f.update \in Updates
    /\ f.pc \in {"feed", "releases", "land"} => f.kind = "check"
    /\ f.pc \in {"fetch", "write", "hash", "verify", "apply"} => f.kind = "install"
    /\ f.pc = "rollback" => f.kind = "rollback"
    /\ f.pc = "ready" => f.kind # "check"
    /\ f.pc = "land" => f.held \in Outcomes
    /\ f.pc = "write" => f.held \in Contents
FlowInv == \A i \in DOMAIN flows : FlowOK(flows[i])

\* A flow has one updater at most, and one that reads a package has one.
UpdaterInv ==
    /\ \A u \in updaters : u.op # "rollback" => u.update \in Updates
    /\ \A u, v \in updaters : u.flow = v.flow => u = v

\* Unless a status told of less than was under way, the flow that installs or
\* rolls back is the only one, the screens show it, every updater is its own,
\* and nobody touches the package it has checked.
AloneInv ==
    ~masked =>
      /\ \A i, j \in Working : i = j
      /\ Working # {} => status \in Busy \ {"checking"}
      /\ \A u \in updaters :
           /\ u.flow \in Working
           /\ flows[u.flow].pc = u.op
           /\ flows[u.flow].update = u.update
      /\ \A i \in DOMAIN flows : flows[i].pc \in {"verify", "apply"} =>
           cache[flows[i].update.name] = flows[i].update.sha

IInv == /\ TypeOK /\ FlowInv /\ UpdaterInv /\ AloneInv
        /\ BusyMeansUnderWay /\ AppliedIsOffered

-----------------------------------------------------------------------------
(* Helpers *)

\* Changing one flow leaves the others, and a list of flows.
LEMMA ChangeFlow ==
    ASSUME TypeOK, FlowInv, NEW i \in DOMAIN flows, NEW f \in Flows, FlowOK(f),
           flows' = [flows EXCEPT ![i] = f]
    PROVE  /\ flows' \in Seq(Flows) /\ Len(flows') <= MaxFlows
           /\ DOMAIN flows' = DOMAIN flows /\ Len(flows') = Len(flows)
           /\ \A j \in DOMAIN flows : flows'[j] = IF j = i THEN f ELSE flows[j]
           /\ FlowInv'
  BY DEF TypeOK, FlowInv

\* A flow that goes on stays what it is.
LEMMA GoFlow ==
    ASSUME TypeOK, FlowInv, NEW i \in DOMAIN flows,
           NEW pc \in {"feed", "releases", "hash", "verify", "apply", "rollback",
                       "ready", "done"},
           Go(i, pc), FlowOK([flows[i] EXCEPT !.pc = pc])
    PROVE  /\ flows' \in Seq(Flows) /\ Len(flows') <= MaxFlows
           /\ DOMAIN flows' = DOMAIN flows /\ Len(flows') = Len(flows)
           /\ \A j \in DOMAIN flows \ {i} : flows'[j] = flows[j]
           /\ flows'[i].pc = pc /\ flows'[i].kind = flows[i].kind
           /\ flows'[i].update = flows[i].update
           /\ FlowInv'
<1> DEFINE f == [flows[i] EXCEPT !.pc = pc]
<1>1. flows[i] \in Flows
  BY DEF TypeOK
<1>2. /\ f \in Flows /\ f.pc = pc /\ f.kind = flows[i].kind
      /\ f.update = flows[i].update
  BY <1>1 DEF Flows
<1>3. flows' = [flows EXCEPT ![i] = f]
  BY DEF Go
<1>4. FlowOK(f)
  OBVIOUS
<1> HIDE DEF f
<1>5. /\ flows' \in Seq(Flows) /\ Len(flows') <= MaxFlows
      /\ DOMAIN flows' = DOMAIN flows /\ Len(flows') = Len(flows)
      /\ \A j \in DOMAIN flows : flows'[j] = IF j = i THEN f ELSE flows[j]
      /\ FlowInv'
  BY <1>2, <1>3, <1>4, ChangeFlow
<1>6. QED
  BY <1>2, <1>5

\* A flow that has ended is in order, whatever it was.
LEMMA DoneFlow ==
    ASSUME TypeOK, FlowInv, NEW i \in DOMAIN flows, Go(i, "done")
    PROVE  /\ flows' \in Seq(Flows) /\ Len(flows') <= MaxFlows
           /\ DOMAIN flows' = DOMAIN flows /\ Len(flows') = Len(flows)
           /\ \A j \in DOMAIN flows \ {i} : flows'[j] = flows[j]
           /\ flows'[i].pc = "done"
           /\ FlowInv'
<1>1. flows[i] \in Flows /\ FlowOK(flows[i])
  BY DEF TypeOK, FlowInv
<1>2. FlowOK([flows[i] EXCEPT !.pc = "done"])
  BY <1>1 DEF FlowOK, Flows
<1>3. QED
  BY <1>2, GoFlow

\* So is one that has succeeded, if it is no check.
LEMMA ReadyFlow ==
    ASSUME TypeOK, FlowInv, NEW i \in DOMAIN flows, flows[i].kind # "check",
           Go(i, "ready")
    PROVE  /\ flows' \in Seq(Flows) /\ Len(flows') <= MaxFlows
           /\ DOMAIN flows' = DOMAIN flows /\ Len(flows') = Len(flows)
           /\ \A j \in DOMAIN flows \ {i} : flows'[j] = flows[j]
           /\ flows'[i].pc = "ready"
           /\ FlowInv'
<1>1. flows[i] \in Flows /\ FlowOK(flows[i])
  BY DEF TypeOK, FlowInv
<1>2. FlowOK([flows[i] EXCEPT !.pc = "ready"])
  BY <1>1 DEF FlowOK, Flows
<1>3. QED
  BY <1>2, GoFlow

\* Every catch block leaves a status that disables nothing.
LEMMA ThrowFlow ==
    ASSUME TypeOK, FlowInv, NEW i \in DOMAIN flows, Throw(i)
    PROVE  /\ flows' \in Seq(Flows) /\ Len(flows') <= MaxFlows
           /\ DOMAIN flows' = DOMAIN flows /\ Len(flows') = Len(flows)
           /\ \A j \in DOMAIN flows \ {i} : flows'[j] = flows[j]
           /\ flows'[i].pc = "done"
           /\ FlowInv'
           /\ status' \in Statuses \ Busy
  BY DoneFlow DEF Throw, Statuses, Busy

\* One flow more.
LEMMA AppendFlow ==
    ASSUME TypeOK, FlowInv, NEW f \in Flows, FlowOK(f), Len(flows) < MaxFlows,
           flows' = Append(flows, f)
    PROVE  /\ flows' \in Seq(Flows) /\ Len(flows') <= MaxFlows
           /\ DOMAIN flows' = 1..(Len(flows) + 1) /\ DOMAIN flows = 1..Len(flows)
           /\ Len(flows) + 1 \in 1..MaxFlows /\ Len(flows) \in Nat
           /\ \A j \in DOMAIN flows : flows'[j] = flows[j]
           /\ flows'[Len(flows) + 1] = f
           /\ FlowInv'
<1>1. flows \in Seq(Flows) /\ Len(flows) \in Nat /\ MaxFlows \in Nat
  BY ClientUpdatesAssumption DEF TypeOK
<1>2. /\ flows' \in Seq(Flows) /\ Len(flows') = Len(flows) + 1
      /\ \A j \in 1..Len(flows) : flows'[j] = flows[j]
      /\ flows'[Len(flows) + 1] = f
  BY <1>1
<1>3. DOMAIN flows' = 1..(Len(flows) + 1) /\ DOMAIN flows = 1..Len(flows)
  BY <1>1, <1>2
<1>4. FlowInv'
  BY <1>1, <1>2, <1>3 DEF FlowInv
<1>5. QED
  BY <1>1, <1>2, <1>3, <1>4

\* A check's or a rollback's new flow is in order.
LEMMA NewFlow ==
    \A kind \in {"check", "rollback"}, pc \in {"log", "feed"} :
      pc = "log" \/ kind = "check" =>
        /\ Flow(kind, pc) \in Flows /\ FlowOK(Flow(kind, pc))
        /\ Flow(kind, pc).kind = kind /\ Flow(kind, pc).pc = pc
  BY DEF Flow, Flows, FlowOK

\* Where nobody works and no updater runs, the flow that works is alone.
LEMMA NobodyWorks ==
    ASSUME FlowInv', Working' = {}, updaters' = {}
    PROVE  AloneInv'
<1>1. \A i \in DOMAIN flows' : flows'[i].pc \notin {"verify", "apply"}
  BY DEF FlowInv, FlowOK, Working, Ended
<1>2. QED
  BY <1>1 DEF AloneInv

\* When nobody works, and nothing has been masked, no updater runs either.
LEMMA NoUpdaters == ASSUME AloneInv, ~masked, Working = {} PROVE updaters = {}
  BY DEF AloneInv

\* What the flow that works finds, if nothing has been masked.
LEMMA Alone ==
    ASSUME TypeOK, AloneInv, ~masked, NEW i \in DOMAIN flows,
           flows[i].kind # "check", flows[i].pc \notin {"ready", "done"}
    PROVE  /\ i \in Working /\ Working = {i}
           /\ status \in Busy \ {"checking"}
           /\ \A u \in updaters : /\ u.flow = i /\ u.op = flows[i].pc
                                  /\ u.update = flows[i].update
           /\ flows[i].pc \notin {"verify", "apply", "rollback"} => updaters = {}
<1>1. i \in Working
  BY DEF Working, Ended
<1>2. \A j \in Working : j = i
  BY <1>1 DEF AloneInv
<1>3. status \in Busy \ {"checking"}
  BY <1>1 DEF AloneInv
<1>4. \A u \in updaters : u.flow = i /\ u.op = flows[i].pc /\ u.update = flows[i].update
  BY <1>2 DEF AloneInv
<1>5. \A u \in updaters : u.op \in {"verify", "apply", "rollback"}
  BY DEF TypeOK, Updaters
<1>6. QED
  BY <1>1, <1>2, <1>3, <1>4, <1>5

\* The flow that works has ended, and its updater has been heard of.
LEMMA AloneEnds ==
    ASSUME TypeOK, AloneInv, NEW i \in DOMAIN flows, flows[i].kind # "check",
           flows[i].pc \notin {"ready", "done"}, FlowInv', DOMAIN flows' = DOMAIN flows,
           \A j \in DOMAIN flows \ {i} : flows'[j] = flows[j],
           flows'[i].pc \in {"ready", "done"}, UNCHANGED masked,
           \/ updaters' = updaters /\ flows[i].pc \notin {"verify", "apply", "rollback"}
           \/ updaters' = Reaped(i)
    PROVE  AloneInv'
<1>1. CASE masked
  BY <1>1 DEF AloneInv
<1>2. CASE ~masked
  <2>1. /\ Working = {i}
        /\ \A u \in updaters : u.flow = i
        /\ flows[i].pc \notin {"verify", "apply", "rollback"} => updaters = {}
    BY <1>2, Alone
  <2>2. Working' = {}
    BY <2>1 DEF Working, Ended
  <2>3. updaters' = {}
    BY <2>1 DEF Reaped
  <2>4. QED
    BY <2>2, <2>3, NobodyWorks
<1>3. QED
  BY <1>1, <1>2

\* A status that disables nothing needs nobody under way.
LEMMA NotBusy == ASSUME status' \notin Busy PROVE BusyMeansUnderWay'
  BY DEF BusyMeansUnderWay

-----------------------------------------------------------------------------
(* Reading a feed *)

\* Whatever a feed says, the check comes to one of its outcomes, and what it
\* offers is an update.
LEMMA ReadFeedType ==
    ASSUME TypeOK, NEW feed, feed # Missing => IsFeed(feed)
    PROVE  /\ ReadFeed(feed).status \in Outcomes
           /\ ReadFeed(feed).update \in Updates \cup {None}
<1>1. Failed.status \in Outcomes /\ Failed.update = None
  BY DEF Failed, Result, Outcomes
<1>2. CASE feed = Missing
  BY <1>1, <1>2 DEF ReadFeed
<1>3. CASE feed # Missing
  <2> DEFINE latest(i) == feed.packages[i].version = feed.latest
                          /\ feed.packages[i].aup
             chosen == {i \in DOMAIN feed.packages :
                          latest(i) /\ \A j \in 1..(i - 1) : ~latest(j)}
             usable == {p \in {feed.packages[i] : i \in chosen} :
                          p.trusted /\ p.sha # Missing}
             p == CHOOSE p \in usable : TRUE
             offer == [version |-> p.version, at |-> running, name |-> p.name,
                       sha |-> p.sha]
  <2>1. usable # {} => offer \in Updates
    <3>1. SUFFICES ASSUME usable # {} PROVE offer \in Updates
      OBVIOUS
    <3>2. p \in usable
      BY <3>1
    <3>3. PICK i \in DOMAIN feed.packages : p = feed.packages[i]
      BY <3>2
    <3>4. p \in [version : Versions, name : Names, aup : BOOLEAN,
                 trusted : BOOLEAN, sha : Contents \cup {Missing}]
      BY <1>3, <3>3 DEF IsFeed
    <3>5. p.sha # Missing
      BY <3>2
    <3> HIDE DEF p
    <3>6. QED
      BY <3>4, <3>5 DEF TypeOK, Updates
  <2>2. UpdateFromFeed(feed, running) \in
          {Failed, Result("upToDate", None)}
          \cup (IF usable = {} THEN {} ELSE {Result("updateAvailable", offer)})
    BY DEF UpdateFromFeed
  <2> HIDE DEF usable, offer
  <2>3. QED
    BY <1>1, <1>3, <2>1, <2>2 DEF ReadFeed, Result, Outcomes
<1>4. QED
  BY <1>2, <1>3

\* The feed of the releases is a feed.
LEMMA ReleaseFeedType ==
    ASSUME TypeOK
    PROVE  LET feed == ReleaseFeed(server.releases)
           IN  feed # Missing => IsFeed(feed)
<1> DEFINE releases == server.releases
           usable(i) == /\ ~releases[i].draft
                        /\ releases[i].prerelease => Channel = "dev"
                        /\ releases[i].feed # Missing
           first == {i \in DOMAIN releases :
                       usable(i) /\ \A j \in 1..(i - 1) : ~usable(j)}
           i == CHOOSE i \in first : TRUE
<1>1. ReleaseFeed(releases) = IF first = {} THEN Missing ELSE releases[i].feed
  BY DEF ReleaseFeed
<1>2. IsServer(server)
  BY ClientUpdatesAssumption DEF TypeOK
<1>3. CASE first # {}
  <2>1. i \in first
    BY <1>3
  <2>2. i \in DOMAIN releases /\ releases[i].feed # Missing
    BY <2>1
  <2>3. IsFeed(releases[i].feed)
    BY <1>2, <2>2 DEF IsServer
  <2>4. QED
    BY <1>1, <1>3, <2>3
<1>4. QED
  BY <1>1, <1>3

\* A check that has found something holds an outcome.
LEMMA FoundFlow ==
    ASSUME TypeOK, FlowInv, NEW i \in DOMAIN flows, flows[i].kind = "check",
           NEW result, result.status \in Outcomes,
           result.update \in Updates \cup {None}, Found(i, result)
    PROVE  /\ flows' \in Seq(Flows) /\ Len(flows') <= MaxFlows
           /\ DOMAIN flows' = DOMAIN flows
           /\ \A j \in DOMAIN flows \ {i} : flows'[j] = flows[j]
           /\ flows'[i].pc = "land" /\ flows'[i].kind = "check"
           /\ FlowInv'
<1> DEFINE f == [[[flows[i] EXCEPT !.pc = "land"] EXCEPT !.held = result.status]
                   EXCEPT !.update = result.update]
<1>1. flows[i] \in Flows
  BY DEF TypeOK
<1>2. f \in Flows /\ f.pc = "land" /\ f.kind = "check" /\ f.held = result.status
  BY <1>1 DEF Flows, Outcomes, Statuses
<1>3. FlowOK(f)
  BY <1>2 DEF FlowOK
<1>4. flows' = [flows EXCEPT ![i] = f]
  BY <1>1 DEF Found, Flows, TypeOK
<1> HIDE DEF f
<1>5. QED
  BY <1>2, <1>3, <1>4, ChangeFlow

-----------------------------------------------------------------------------
(* The checks *)

\* A step of a check, or a new check, that shows no status and leaves the
\* working flows alone.
LEMMA CheckGoesOn ==
    ASSUME IInv, TypeOK', FlowInv', Working' = Working,
           \A i \in Working : flows'[i] = flows[i],
           UNCHANGED <<status, feedUrl, cache, updaters, masked>>,
           \A i \in DOMAIN flows : AtStage(flows[i]) =>
             i \in DOMAIN flows' /\ AtStage(flows'[i])
    PROVE  IInv'
<1>1. UpdaterInv' /\ AppliedIsOffered'
  BY DEF IInv, UpdaterInv, AppliedIsOffered
<1>2. BusyMeansUnderWay'
  BY DEF IInv, BusyMeansUnderWay, AtStage
<1>3. AloneInv'
  <2>1. \A i \in DOMAIN flows' : flows'[i].pc \in {"verify", "apply"} =>
          i \in Working /\ i \in DOMAIN flows /\ flows'[i] = flows[i]
    BY DEF Working, Ended, FlowInv, FlowOK
  <2>2. QED
    BY <2>1 DEF IInv, AloneInv
<1>4. QED
  BY <1>1, <1>2, <1>3 DEF IInv

\* PressCheck
LEMMA PressCheckInv == ASSUME IInv, PressCheck PROVE IInv'
<1> DEFINE f == Flow("check", "log")
<1>1. /\ TypeOK /\ FlowInv /\ Len(flows) < MaxFlows /\ flows' = Append(flows, f)
      /\ UNCHANGED <<status, info, feedUrl, server, cache, updaters, running,
                     installed, publishes, restarts, masked>>
  BY DEF PressCheck, IInv
<1>2. f \in Flows /\ FlowOK(f) /\ f.kind = "check"
  BY NewFlow
<1> HIDE DEF f
<1>3. /\ flows' \in Seq(Flows) /\ Len(flows') <= MaxFlows /\ FlowInv'
      /\ DOMAIN flows' = 1..(Len(flows) + 1) /\ DOMAIN flows = 1..Len(flows)
      /\ Len(flows) \in Nat
      /\ \A j \in DOMAIN flows : flows'[j] = flows[j]
      /\ flows'[Len(flows) + 1] = f
  BY <1>1, <1>2, AppendFlow
<1>4. TypeOK'
  BY <1>1, <1>3 DEF TypeOK
<1>5. Working' = Working
  BY <1>2, <1>3 DEF Working, Ended
<1>6. QED
  BY <1>1, <1>3, <1>4, <1>5, CheckGoesOn DEF Working, AtStage

\* Nothing of what is under way changes, and the status only when nothing is.
LEMMA AloneStays ==
    ASSUME AloneInv, UNCHANGED <<cache, updaters>>, ~masked' => ~masked,
           Working' = Working, DOMAIN flows' = DOMAIN flows,
           \A j \in DOMAIN flows :
               j \in Working \/ flows'[j].pc \in {"verify", "apply"}
                 => flows'[j] = flows[j],
           ~masked' => status' = status \/ Working = {}
    PROVE  AloneInv'
<1>1. SUFFICES ASSUME ~masked' PROVE AloneInv'
  BY DEF AloneInv
<1>2. ~masked
  BY <1>1
<1>3. \A i, j \in Working' : i = j
  BY <1>2 DEF AloneInv
<1>4. Working' # {} => status' \in Busy \ {"checking"}
  BY <1>1, <1>2 DEF AloneInv
<1>5. \A u \in updaters' : /\ u.flow \in Working'
                            /\ flows'[u.flow].pc = u.op
                            /\ flows'[u.flow].update = u.update
  <2>1. TAKE u \in updaters'
  <2>2. /\ u.flow \in Working /\ flows[u.flow].pc = u.op
        /\ flows[u.flow].update = u.update
    BY <1>2, <2>1 DEF AloneInv
  <2>3. flows'[u.flow] = flows[u.flow]
    BY <2>2 DEF Working
  <2>4. QED
    BY <2>2, <2>3
<1>6. \A i \in DOMAIN flows' : flows'[i].pc \in {"verify", "apply"} =>
        cache'[flows'[i].update.name] = flows'[i].update.sha
  BY <1>2 DEF AloneInv
<1>7. QED
  BY <1>3, <1>4, <1>5, <1>6 DEF AloneInv

\* A check that ends without a word, before it has shown anything or after its
\* feed's URL did not parse.
LEMMA CheckStops ==
    ASSUME IInv, NEW i \in DOMAIN flows, flows[i].kind = "check", Go(i, "done"),
           UNCHANGED <<status, info, feedUrl, server, cache, updaters, running,
                       installed, publishes, restarts, masked>>,
           flows[i].pc = "log" \/ feedUrl = "malformed"
    PROVE  IInv'
<1>1. /\ flows' \in Seq(Flows) /\ Len(flows') <= MaxFlows /\ FlowInv'
      /\ DOMAIN flows' = DOMAIN flows
      /\ \A j \in DOMAIN flows \ {i} : flows'[j] = flows[j]
      /\ flows'[i].pc = "done"
  BY DoneFlow DEF IInv
<1>2. TypeOK'
  BY <1>1 DEF IInv, TypeOK
<1>3. UpdaterInv' /\ AppliedIsOffered'
  BY DEF IInv, UpdaterInv, AppliedIsOffered
<1>4. Working' = Working /\ i \notin Working
  BY <1>1 DEF Working
<1>5. AloneInv'
  BY <1>1, <1>4, AloneStays DEF IInv, Working
<1>6. BusyMeansUnderWay'
  <2>1. SUFFICES ASSUME status \in Busy,
                        ~(status = "checking" /\ feedUrl = "malformed")
                 PROVE  \E j \in DOMAIN flows' : AtStage(flows'[j])
    BY DEF BusyMeansUnderWay, AtStage
  <2>2. PICK j \in DOMAIN flows : AtStage(flows[j])
    BY <2>1 DEF IInv, BusyMeansUnderWay
  <2>3. j # i
    <3>1. flows[i] \in Flows /\ FlowOK(flows[i])
      BY DEF IInv, TypeOK, FlowInv
    <3>2. QED
      BY <2>1, <2>2, <3>1 DEF AtStage, FlowOK
  <2>4. QED
    BY <1>1, <2>2, <2>3 DEF AtStage
<1>7. QED
  BY <1>1, <1>2, <1>3, <1>5, <1>6 DEF IInv

\* StartCheck shows "checking", and masks whatever else is under way.
LEMMA CheckShows ==
    ASSUME IInv, NEW i \in DOMAIN flows, StartCheck(i), status' = "checking",
           masked' = (masked \/ Working # {}), Go(i, "feed")
    PROVE  IInv'
<1>1. /\ TypeOK /\ FlowInv /\ flows[i].kind = "check" /\ flows[i].pc = "log"
      /\ status' = "checking" /\ masked' = (masked \/ Working # {})
      /\ Go(i, "feed")
      /\ UNCHANGED <<info, feedUrl, server, cache, updaters, running, installed,
                     publishes, restarts>>
  BY DEF StartCheck, IInv
<1>2. FlowOK([flows[i] EXCEPT !.pc = "feed"])
  <2>1. flows[i] \in Flows
    BY DEF IInv, TypeOK
  <2>2. QED
    BY <1>1, <2>1 DEF FlowOK, Flows
<1>3. /\ flows' \in Seq(Flows) /\ Len(flows') <= MaxFlows /\ FlowInv'
      /\ DOMAIN flows' = DOMAIN flows
      /\ \A j \in DOMAIN flows \ {i} : flows'[j] = flows[j]
      /\ flows'[i].pc = "feed" /\ flows'[i].kind = "check"
  BY <1>1, <1>2, GoFlow
<1>4. TypeOK'
  BY <1>1, <1>3 DEF TypeOK, Statuses
<1>5. UpdaterInv' /\ AppliedIsOffered'
  BY <1>1 DEF IInv, UpdaterInv, AppliedIsOffered, TypeOK
<1>6. BusyMeansUnderWay'
  BY <1>1, <1>3 DEF BusyMeansUnderWay, AtStage
<1>7. AloneInv'
  <2>1. CASE masked'
    BY <2>1 DEF AloneInv
  <2>2. CASE ~masked'
    <3>1. ~masked /\ Working = {}
      BY <1>1, <2>2
    <3>2. Working' = {}
      BY <1>1, <1>3, <3>1 DEF Working, Ended
    <3>3. updaters' = {}
      BY <1>1, <3>1, NoUpdaters DEF IInv
    <3>4. QED
      BY <1>3, <3>2, <3>3, NobodyWorks
  <2>3. QED
    BY <2>1, <2>2
<1>8. QED
  BY <1>3, <1>4, <1>5, <1>6, <1>7 DEF IInv

LEMMA StartCheckInv ==
    ASSUME IInv, NEW i \in DOMAIN flows, StartCheck(i) PROVE IInv'
<1>1. CASE Go(i, "done") /\ UNCHANGED <<status, masked>>
  BY <1>1, CheckStops DEF StartCheck
<1>2. CASE /\ status' = "checking" /\ masked' = (masked \/ Working # {})
           /\ Go(i, "feed")
  BY <1>2, CheckShows
<1>3. QED
  BY <1>1, <1>2 DEF StartCheck

\* AskFeed and AskReleases: the check stays under way.
LEMMA AskGoesOn ==
    ASSUME IInv, NEW i \in DOMAIN flows,
           (AskFeed(i) /\ feedUrl # "malformed") \/ AskReleases(i)
    PROVE  IInv'
<1>1. /\ TypeOK /\ FlowInv /\ flows[i].pc \in {"feed", "releases"}
      /\ UNCHANGED <<status, info, feedUrl, server, cache, updaters, running,
                     installed, publishes, restarts, masked>>
  BY DEF AskFeed, AskReleases, IInv
<1>2. flows[i].kind = "check" /\ flows[i] \in Flows
  BY <1>1 DEF FlowInv, FlowOK, TypeOK
<1>3. /\ Failed.status \in Outcomes /\ Failed.update \in Updates \cup {None}
      /\ Result("notConfigured", None).status \in Outcomes
      /\ Result("notConfigured", None).update \in Updates \cup {None}
  BY DEF Failed, Result, Outcomes
<1>4. /\ ReadFeed(server.feed).status \in Outcomes
      /\ ReadFeed(server.feed).update \in Updates \cup {None}
      /\ ReadFeed(ReleaseFeed(server.releases)).status \in Outcomes
      /\ ReadFeed(ReleaseFeed(server.releases)).update \in Updates \cup {None}
  <2>1. IsServer(server)
    BY <1>1, ClientUpdatesAssumption DEF TypeOK
  <2>2. QED
    BY <1>1, <2>1, ReadFeedType, ReleaseFeedType DEF IsServer
<1>5. \/ Go(i, "releases")
      \/ \E result \in {Failed, Result("notConfigured", None), ReadFeed(server.feed),
                        ReadFeed(ReleaseFeed(server.releases))} : Found(i, result)
  <2>1. CASE AskFeed(i) /\ feedUrl # "malformed"
    BY <2>1 DEF AskFeed
  <2>2. CASE AskReleases(i)
    BY <2>2 DEF AskReleases
  <2>3. QED
    BY <2>1, <2>2
<1>6. /\ flows' \in Seq(Flows) /\ Len(flows') <= MaxFlows /\ FlowInv'
      /\ DOMAIN flows' = DOMAIN flows
      /\ \A j \in DOMAIN flows \ {i} : flows'[j] = flows[j]
      /\ flows'[i].kind = "check" /\ flows'[i].pc \in {"releases", "land"}
  <2>1. CASE Go(i, "releases")
    <3>1. FlowOK([flows[i] EXCEPT !.pc = "releases"])
      BY <1>2 DEF FlowOK, Flows
    <3>2. QED
      BY <1>1, <1>2, <2>1, <3>1, GoFlow
  <2>2. CASE ~Go(i, "releases")
    <3>1. PICK result : /\ Found(i, result) /\ result.status \in Outcomes
                        /\ result.update \in Updates \cup {None}
      BY <1>3, <1>4, <1>5, <2>2
    <3>2. QED
      BY <1>1, <1>2, <3>1, FoundFlow
  <2>3. QED
    BY <2>1, <2>2
<1>7. TypeOK'
  BY <1>1, <1>6 DEF TypeOK
<1>8. Working' = Working /\ i \notin Working
  BY <1>2, <1>6 DEF Working, Ended
<1>9. \A j \in DOMAIN flows : AtStage(flows[j]) => AtStage(flows'[j])
  BY <1>1, <1>2, <1>6 DEF AtStage
<1>10. QED
  BY <1>1, <1>6, <1>7, <1>8, <1>9, CheckGoesOn DEF Working

\* AskFeed and AskReleases
LEMMA AskInv ==
    ASSUME IInv, NEW i \in DOMAIN flows, AskFeed(i) \/ AskReleases(i) PROVE IInv'
<1>1. CASE AskFeed(i) /\ feedUrl = "malformed"
  <2>1. flows[i].kind = "check"
    BY <1>1 DEF AskFeed, IInv, FlowInv, FlowOK
  <2>2. Go(i, "done")
    BY <1>1 DEF AskFeed
  <2>3. UNCHANGED <<status, info, feedUrl, server, cache, updaters, running,
                    installed, publishes, restarts, masked>>
    BY <1>1 DEF AskFeed
  <2>4. QED
    BY <1>1, <2>1, <2>2, <2>3, CheckStops
<1>2. CASE ~(AskFeed(i) /\ feedUrl = "malformed")
  BY <1>2, AskGoesOn
<1>3. QED
  BY <1>1, <1>2

\* LandCheck shows what the check came to, and masks whatever is under way.
LEMMA LandCheckInv ==
    ASSUME IInv, NEW i \in DOMAIN flows, LandCheck(i) PROVE IInv'
<1>1. /\ TypeOK /\ FlowInv /\ flows[i].pc = "land"
      /\ status' = flows[i].held /\ info' = flows[i].update
      /\ masked' = (masked \/ Working # {})
      /\ Go(i, "done")
      /\ UNCHANGED <<feedUrl, server, cache, updaters, running, installed,
                     publishes, restarts>>
  BY DEF LandCheck, IInv
<1>2. flows[i].kind = "check" /\ flows[i].held \in Outcomes /\ flows[i] \in Flows
  BY <1>1 DEF FlowInv, FlowOK, TypeOK
<1>3. /\ flows' \in Seq(Flows) /\ Len(flows') <= MaxFlows /\ FlowInv'
      /\ DOMAIN flows' = DOMAIN flows
      /\ \A j \in DOMAIN flows \ {i} : flows'[j] = flows[j]
      /\ flows'[i].pc = "done"
  BY <1>1, DoneFlow
<1>4. TypeOK'
  BY <1>1, <1>2, <1>3 DEF TypeOK, Flows, Outcomes, Statuses
<1>5. UpdaterInv' /\ AppliedIsOffered'
  BY <1>1 DEF IInv, UpdaterInv, AppliedIsOffered, TypeOK
<1>6. BusyMeansUnderWay'
  BY <1>1, <1>2, NotBusy DEF Outcomes, Busy
<1>7. AloneInv'
  <2>1. CASE masked'
    BY <2>1 DEF AloneInv
  <2>2. CASE ~masked'
    <3>1. ~masked /\ Working = {}
      BY <1>1, <2>2
    <3>2. Working' = {}
      BY <1>3, <3>1 DEF Working, Ended
    <3>3. updaters' = {}
      BY <1>1, <3>1, NoUpdaters DEF IInv
    <3>4. QED
      BY <1>3, <3>2, <3>3, NobodyWorks
  <2>3. QED
    BY <2>1, <2>2
<1>8. QED
  BY <1>3, <1>4, <1>5, <1>6, <1>7 DEF IInv

-----------------------------------------------------------------------------
(* Installs and rollbacks *)

\* A new install or rollback, which the screens show at once.
LEMMA WorkBegins ==
    ASSUME IInv, NEW f \in Flows, FlowOK(f), Len(flows) < MaxFlows,
           f.kind # "check", f.pc \in {"fetch", "log"}, status \notin Busy,
           flows' = Append(flows, f), status' \in Busy \ {"checking"},
           (AtStage(f))',
           UNCHANGED <<info, feedUrl, server, cache, updaters, running, installed,
                       publishes, restarts, masked>>
    PROVE  IInv'
<1> DEFINE n == Len(flows) + 1
<1>1. /\ flows' \in Seq(Flows) /\ Len(flows') <= MaxFlows /\ FlowInv'
      /\ DOMAIN flows' = 1..n /\ DOMAIN flows = 1..Len(flows) /\ Len(flows) \in Nat
      /\ \A j \in DOMAIN flows : flows'[j] = flows[j]
      /\ flows'[n] = f /\ n \in DOMAIN flows' /\ DOMAIN flows' = DOMAIN flows \cup {n}
  BY AppendFlow DEF IInv
<1> HIDE DEF n
<1>2. TypeOK'
  BY <1>1 DEF IInv, TypeOK, Busy, Statuses
<1>3. UpdaterInv' /\ AppliedIsOffered'
  BY DEF IInv, UpdaterInv, AppliedIsOffered
<1>4. BusyMeansUnderWay'
  BY <1>1 DEF BusyMeansUnderWay, AtStage
<1>5. AloneInv'
  <2>1. CASE masked
    BY <2>1 DEF AloneInv
  <2>2. CASE ~masked
    <3>1. Working = {}
      BY <2>2 DEF IInv, AloneInv
    <3>2. updaters' = {}
      BY <2>2, <3>1, NoUpdaters DEF IInv
    <3>3. \A j \in DOMAIN flows : flows[j].pc \in {"ready", "done"}
                                 \/ flows[j].kind = "check"
      BY <3>1 DEF Working, Ended
    <3>4. \A j \in Working' : j = n
      BY <1>1, <3>3 DEF Working, Ended
    <3>5. \A j \in DOMAIN flows' : flows'[j].pc \notin {"verify", "apply"}
      BY <1>1, <3>3 DEF IInv, FlowInv, FlowOK
    <3>6. QED
      BY <3>2, <3>4, <3>5 DEF AloneInv
  <2>3. QED
    BY <2>1, <2>2
<1>6. QED
  BY <1>1, <1>2, <1>3, <1>4, <1>5 DEF IInv

\* PressInstall, of an offer, or a check when there is none; and PressRollback.
LEMMA PressInv == ASSUME IInv, PressInstall \/ PressRollback PROVE IInv'
<1>1. CASE PressInstall /\ info = None
  <2> DEFINE f == Flow("check", "log")
  <2>1. /\ TypeOK /\ FlowInv /\ Len(flows) < MaxFlows /\ flows' = Append(flows, f)
        /\ UNCHANGED <<status, info, feedUrl, server, cache, updaters, running,
                       installed, publishes, restarts, masked>>
    BY <1>1 DEF PressInstall, IInv
  <2>2. f \in Flows /\ FlowOK(f) /\ f.kind = "check"
    BY NewFlow
  <2> HIDE DEF f
  <2>3. /\ flows' \in Seq(Flows) /\ Len(flows') <= MaxFlows /\ FlowInv'
        /\ DOMAIN flows' = 1..(Len(flows) + 1) /\ DOMAIN flows = 1..Len(flows)
        /\ Len(flows) \in Nat
        /\ \A j \in DOMAIN flows : flows'[j] = flows[j]
        /\ flows'[Len(flows) + 1] = f
    BY <2>1, <2>2, AppendFlow
  <2>4. TypeOK'
    BY <2>1, <2>3 DEF TypeOK
  <2>5. Working' = Working
    BY <2>2, <2>3 DEF Working, Ended
  <2>6. QED
    BY <2>1, <2>3, <2>4, <2>5, CheckGoesOn DEF Working, AtStage
<1>2. CASE PressInstall /\ info # None
  <2> DEFINE f == [Flow("install", "fetch") EXCEPT !.update = info]
  <2>1. info \in Updates
    BY <1>2 DEF IInv, TypeOK
  <2>2. /\ f \in Flows /\ FlowOK(f) /\ f.kind = "install" /\ f.pc = "fetch"
    BY <2>1 DEF Flow, Flows, FlowOK
  <2>3. /\ flows' = Append(flows, f) /\ status' = "downloading"
        /\ status = "updateAvailable" /\ Len(flows) < MaxFlows
        /\ UNCHANGED <<info, feedUrl, server, cache, updaters, running, installed,
                       publishes, restarts, masked>>
    BY <1>2 DEF PressInstall
  <2> HIDE DEF f
  <2>4. QED
    BY <2>2, <2>3, WorkBegins DEF Busy, AtStage
<1>3. CASE PressRollback
  <2> DEFINE f == Flow("rollback", "log")
  <2>1. f \in Flows /\ FlowOK(f) /\ f.kind = "rollback" /\ f.pc = "log"
    BY NewFlow
  <2>2. /\ flows' = Append(flows, f) /\ status' = "rollingBack"
        /\ status \notin Busy /\ Len(flows) < MaxFlows
        /\ UNCHANGED <<info, feedUrl, server, cache, updaters, running, installed,
                       publishes, restarts, masked>>
    BY <1>3 DEF PressRollback
  <2> HIDE DEF f
  <2>3. QED
    BY <2>1, <2>2, WorkBegins DEF Busy, AtStage
<1>4. QED
  BY <1>1, <1>2, <1>3

\* An install or a rollback ends: with a catch block, or well.
LEMMA WorkEnds ==
    ASSUME IInv, TypeOK', FlowInv', NEW i \in DOMAIN flows,
           flows[i].kind # "check", flows[i].pc \notin {"ready", "done"},
           DOMAIN flows' = DOMAIN flows,
           \A j \in DOMAIN flows \ {i} : flows'[j] = flows[j],
           flows'[i].pc \in {"ready", "done"}, status' \notin Busy, UNCHANGED masked,
           \/ updaters' = updaters /\ flows[i].pc \notin {"verify", "apply", "rollback"}
           \/ updaters' = Reaped(i)
    PROVE  IInv'
<1>1. updaters' \subseteq updaters
  BY DEF Reaped
<1>2. UpdaterInv' /\ AppliedIsOffered'
  BY <1>1 DEF IInv, UpdaterInv, AppliedIsOffered
<1>3. AloneInv'
  BY AloneEnds DEF IInv
<1>4. QED
  BY <1>2, <1>3, NotBusy DEF IInv

\* The flow goes on by itself, and the screens show what they showed.
LEMMA WorkGoesOn ==
    ASSUME IInv, TypeOK', FlowInv', NEW i \in DOMAIN flows,
           flows[i].kind = "install", flows[i].pc \in {"fetch", "write"},
           DOMAIN flows' = DOMAIN flows,
           \A j \in DOMAIN flows \ {i} : flows'[j] = flows[j],
           flows'[i].pc \in {"write", "hash"}, flows'[i].kind = "install",
           UNCHANGED <<status, feedUrl, updaters, masked>>
    PROVE  IInv'
<1>1. UpdaterInv' /\ AppliedIsOffered'
  BY DEF IInv, UpdaterInv, AppliedIsOffered
<1>2. BusyMeansUnderWay'
  BY DEF IInv, BusyMeansUnderWay, AtStage
<1>3. AloneInv'
  <2>1. CASE masked
    BY <2>1 DEF AloneInv
  <2>2. CASE ~masked
    <3>1. Working = {i} /\ updaters = {} /\ status \in Busy \ {"checking"}
      BY <2>2, Alone DEF IInv
    <3>2. Working' = {i}
      BY <3>1 DEF Working, Ended
    <3>3. \A j \in DOMAIN flows' : flows'[j].pc \in {"verify", "apply"} => j \in Working'
      BY DEF FlowInv, FlowOK, Working, Ended
    <3>4. QED
      BY <3>1, <3>2, <3>3 DEF AloneInv
  <2>3. QED
    BY <2>1, <2>2
<1>4. QED
  BY <1>1, <1>2, <1>3 DEF IInv

\* The flow launches the updater for its next step, which the screens show; the
\* package it is for is the one that was checked.
LEMMA WorkLaunches ==
    ASSUME IInv, TypeOK, FlowInv', NEW i \in DOMAIN flows,
           NEW op \in {"verify", "apply", "rollback"},
           flows[i].kind # "check", flows[i].pc \notin {"ready", "done"},
           flows[i].kind = (IF op = "rollback" THEN "rollback" ELSE "install"),
           flows' \in Seq(Flows), Len(flows') <= MaxFlows,
           DOMAIN flows' = DOMAIN flows,
           \A j \in DOMAIN flows \ {i} : flows'[j] = flows[j],
           flows'[i].pc = op, flows'[i].kind = flows[i].kind,
           flows'[i].update = flows[i].update,
           Launch(i, op), info' \in Updates \cup {None},
           UNCHANGED <<feedUrl, server, cache, running, installed, publishes,
                       restarts, masked>>,
           status' \in Statuses,
           \/ op = "verify" /\ status' = "verifying"
           \/ op = "apply" /\ status' = "installing"
           \/ op = "rollback" /\ UNCHANGED status,
           ~masked /\ op \in {"verify", "apply"} =>
             cache[flows[i].update.name] = flows[i].update.sha,
           BusyMeansUnderWay'
    PROVE  IInv'
<1> DEFINE new == [flow |-> i, op |-> op, update |-> flows[i].update,
                   read |-> None, exit |-> "none"]
<1>1. updaters' = {u \in updaters : u.flow # i} \cup {new}
  BY DEF Launch
<1>2. flows[i] \in Flows /\ i \in 1..MaxFlows
  BY ClientUpdatesAssumption DEF TypeOK
<1>3. new \in Updaters
  BY <1>2 DEF Updaters, Flows
<1>4. TypeOK'
  BY <1>1, <1>3 DEF TypeOK
<1>5. op # "rollback" => new.update \in Updates
  BY DEF IInv, FlowInv, FlowOK
<1>6. /\ new.flow = i /\ new.op = op /\ new.update = flows[i].update
      /\ new.read = None
  OBVIOUS
<1> HIDE DEF new
<1>7. UpdaterInv'
  BY <1>1, <1>5, <1>6 DEF IInv, UpdaterInv
<1>8. AppliedIsOffered'
  BY <1>1, <1>6 DEF IInv, AppliedIsOffered
<1>9. AloneInv'
  <2>1. CASE masked
    BY <2>1 DEF AloneInv
  <2>2. CASE ~masked
    <3>1. /\ Working = {i} /\ status \in Busy \ {"checking"}
          /\ \A u \in updaters : u.flow = i
      BY <2>2, Alone DEF IInv
    <3>2. updaters' = {new}
      BY <1>1, <3>1
    <3>3. Working' = {i}
      BY <3>1 DEF Working, Ended
    <3>4. status' \in Busy \ {"checking"}
      BY <3>1 DEF Busy
    <3>5. \A j \in DOMAIN flows' : flows'[j].pc \in {"verify", "apply"} => j = i
      BY <3>3 DEF FlowInv, FlowOK, Working, Ended
    <3>6. QED
      BY <1>6, <3>2, <3>3, <3>4, <3>5 DEF AloneInv
  <2>3. QED
    BY <2>1, <2>2
<1>10. QED
  BY <1>4, <1>7, <1>8, <1>9 DEF IInv

\* An install that is at work has an update, and a place in the cache.
LEMMA InstallType ==
    ASSUME IInv, NEW i \in DOMAIN flows,
           flows[i].pc \in {"fetch", "write", "hash", "verify", "apply"}
    PROVE  /\ flows[i].kind = "install" /\ flows[i] \in Flows
           /\ flows[i].update \in Updates /\ flows[i].update.name \in Names
<1>1. flows[i] \in Flows /\ FlowOK(flows[i])
  BY DEF IInv, TypeOK, FlowInv
<1>2. QED
  BY <1>1 DEF FlowOK, Updates

\* Fetch receives the body before it opens the file.
LEMMA FetchInv ==
    ASSUME IInv, NEW i \in DOMAIN flows, Fetch(i) PROVE IInv'
<1> DEFINE name == flows[i].update.name
           body == server.files[name]
<1>1. /\ TypeOK /\ FlowInv /\ flows[i].pc = "fetch"
      /\ flows[i].kind = "install" /\ flows[i] \in Flows /\ name \in Names
      /\ UNCHANGED <<info, feedUrl, server, updaters, running, installed,
                     publishes, restarts, masked>>
  BY InstallType DEF Fetch, IInv
<1>2. CASE Throw(i) /\ UNCHANGED cache
  <2>1. TypeOK'
    BY <1>1, <1>2, ThrowFlow DEF TypeOK
  <2>2. QED
    BY <1>1, <1>2, <2>1, ThrowFlow, WorkEnds
<1>3. CASE /\ name \in AupNames /\ body # Missing
           /\ cache' = [cache EXCEPT ![name] = Torn]
           /\ flows' = [flows EXCEPT ![i].pc = "write", ![i].held = body]
           /\ UNCHANGED status
  <2> DEFINE f == [[flows[i] EXCEPT !.pc = "write"] EXCEPT !.held = body]
  <2>1. body \in Contents
    BY <1>1, <1>3, ClientUpdatesAssumption DEF TypeOK, IsServer
  <2>2. f \in Flows /\ f.pc = "write" /\ f.kind = "install" /\ f.held = body
        /\ f.update = flows[i].update
    BY <1>1, <2>1 DEF Flows
  <2>3. FlowOK(f)
    BY <1>1, <2>1, <2>2, InstallType DEF FlowOK
  <2>4. flows' = [flows EXCEPT ![i] = f]
    BY <1>1, <1>3 DEF TypeOK, Flows
  <2> HIDE DEF f, body
  <2>5. /\ flows' \in Seq(Flows) /\ Len(flows') <= MaxFlows /\ FlowInv'
        /\ DOMAIN flows' = DOMAIN flows
        /\ \A j \in DOMAIN flows : flows'[j] = IF j = i THEN f ELSE flows[j]
    BY <1>1, <2>2, <2>3, <2>4, ChangeFlow
  <2>6. TypeOK'
    BY <1>1, <1>3, <2>5 DEF TypeOK
  <2>7. QED
    BY <1>1, <1>3, <2>2, <2>5, <2>6, WorkGoesOn
<1>4. QED
  BY <1>2, <1>3 DEF Fetch

\* WriteBody writes what was received.
LEMMA WriteBodyInv ==
    ASSUME IInv, NEW i \in DOMAIN flows, WriteBody(i) PROVE IInv'
<1>1. /\ TypeOK /\ FlowInv /\ flows[i].pc = "write"
      /\ flows[i].kind = "install" /\ flows[i] \in Flows
      /\ flows[i].update \in Updates /\ flows[i].update.name \in Names
      /\ flows[i].held \in Contents
      /\ UNCHANGED <<info, feedUrl, server, updaters, running, installed,
                     publishes, restarts, masked>>
  BY InstallType DEF WriteBody, IInv, FlowInv, FlowOK
<1>2. CASE Throw(i) /\ UNCHANGED cache
  <2>1. TypeOK'
    BY <1>1, <1>2, ThrowFlow DEF TypeOK
  <2>2. QED
    BY <1>1, <1>2, <2>1, ThrowFlow, WorkEnds
<1>3. CASE /\ cache' = [cache EXCEPT ![flows[i].update.name] = flows[i].held]
           /\ Go(i, "hash")
           /\ UNCHANGED status
  <2>1. FlowOK([flows[i] EXCEPT !.pc = "hash"])
    BY <1>1 DEF FlowOK, Flows
  <2>2. /\ flows' \in Seq(Flows) /\ Len(flows') <= MaxFlows /\ FlowInv'
        /\ DOMAIN flows' = DOMAIN flows
        /\ \A j \in DOMAIN flows \ {i} : flows'[j] = flows[j]
        /\ flows'[i].pc = "hash" /\ flows'[i].kind = "install"
    BY <1>1, <1>3, <2>1, GoFlow
  <2>3. TypeOK'
    BY <1>1, <1>3, <2>2 DEF TypeOK
  <2>4. QED
    BY <1>1, <1>3, <2>2, <2>3, WorkGoesOn
<1>4. QED
  BY <1>2, <1>3 DEF WriteBody

\* Hash lets only the package the feed named go on to the updater.
LEMMA HashInv ==
    ASSUME IInv, NEW i \in DOMAIN flows, Hash(i) PROVE IInv'
<1> DEFINE update == flows[i].update
<1>1. /\ TypeOK /\ FlowInv /\ flows[i].pc = "hash"
      /\ flows[i].kind = "install" /\ flows[i] \in Flows
      /\ update \in Updates /\ update.name \in Names
      /\ UNCHANGED <<feedUrl, server, running, installed, publishes, restarts, masked>>
  BY InstallType DEF Hash, IInv
<1>2. CASE /\ Throw(i) /\ UNCHANGED updaters
           /\ info' \in Updates \cup {None}
           /\ cache' \in [Names -> Contents \cup {Missing, Torn}]
  <2>1. TypeOK'
    BY <1>1, <1>2, ThrowFlow DEF TypeOK
  <2>2. QED
    BY <1>1, <1>2, <2>1, ThrowFlow, WorkEnds
<1>3. CASE /\ cache[update.name] = update.sha /\ UNCHANGED cache /\ info' = update
           /\ status' = "verifying" /\ Go(i, "verify") /\ Launch(i, "verify")
  <2>1. FlowOK([flows[i] EXCEPT !.pc = "verify"])
    BY <1>1 DEF FlowOK, Flows
  <2>2. /\ flows' \in Seq(Flows) /\ Len(flows') <= MaxFlows /\ FlowInv'
        /\ DOMAIN flows' = DOMAIN flows
        /\ \A j \in DOMAIN flows \ {i} : flows'[j] = flows[j]
        /\ flows'[i].pc = "verify" /\ flows'[i].kind = "install"
        /\ flows'[i].update = flows[i].update
    BY <1>1, <1>3, <2>1, GoFlow
  <2>3. BusyMeansUnderWay'
    BY <1>3, <2>2 DEF BusyMeansUnderWay, AtStage
  <2>4. QED
    BY <1>1, <1>3, <2>2, <2>3, WorkLaunches DEF Statuses
<1>4. CASE cache[update.name] = update.sha
  BY <1>1, <1>2, <1>3, <1>4 DEF Hash, TypeOK
<1>5. CASE cache[update.name] # update.sha
  <2>1. cache' \in [Names -> Contents \cup {Missing, Torn}]
    BY <1>1, <1>5 DEF Hash, TypeOK
  <2>2. QED
    BY <1>1, <1>2, <1>5, <2>1 DEF Hash, TypeOK
<1>6. QED
  BY <1>4, <1>5

\* UpdaterVerified: the package that is applied is still the one that was checked.
LEMMA UpdaterVerifiedInv ==
    ASSUME IInv, NEW i \in DOMAIN flows, UpdaterVerified(i) PROVE IInv'
<1>1. /\ TypeOK /\ FlowInv /\ flows[i].pc = "verify"
      /\ flows[i].kind = "install" /\ flows[i] \in Flows
      /\ flows[i].update \in Updates
      /\ UNCHANGED <<feedUrl, server, cache, running, installed, publishes, restarts,
                     masked>>
  BY InstallType DEF UpdaterVerified, IInv
<1>2. CASE Throw(i) /\ updaters' = Reaped(i) /\ info' \in Updates \cup {None}
  <2>1. TypeOK'
    BY <1>1, <1>2, ThrowFlow DEF TypeOK, Reaped
  <2>2. QED
    BY <1>1, <1>2, <2>1, ThrowFlow, WorkEnds
<1>3. CASE /\ status' = "installing" /\ Go(i, "apply") /\ Launch(i, "apply")
           /\ info' = flows[i].update
  <2>1. FlowOK([flows[i] EXCEPT !.pc = "apply"])
    BY <1>1 DEF FlowOK, Flows
  <2>2. /\ flows' \in Seq(Flows) /\ Len(flows') <= MaxFlows /\ FlowInv'
        /\ DOMAIN flows' = DOMAIN flows
        /\ \A j \in DOMAIN flows \ {i} : flows'[j] = flows[j]
        /\ flows'[i].pc = "apply" /\ flows'[i].kind = "install"
        /\ flows'[i].update = flows[i].update
    BY <1>1, <1>3, <2>1, GoFlow
  <2>3. BusyMeansUnderWay'
    BY <1>3, <2>2 DEF BusyMeansUnderWay, AtStage
  <2>4. ~masked => cache[flows[i].update.name] = flows[i].update.sha
    BY <1>1 DEF IInv, AloneInv
  <2>5. QED
    BY <1>1, <1>3, <2>2, <2>3, <2>4, WorkLaunches DEF Statuses
<1>4. QED
  BY <1>1, <1>2, <1>3 DEF UpdaterVerified, TypeOK

\* UpdaterApplied
LEMMA UpdaterAppliedInv ==
    ASSUME IInv, NEW i \in DOMAIN flows, UpdaterApplied(i) PROVE IInv'
<1>1. /\ TypeOK /\ FlowInv /\ flows[i].pc = "apply"
      /\ flows[i].kind = "install" /\ flows[i].update \in Updates
      /\ updaters' = Reaped(i)
      /\ UNCHANGED <<feedUrl, server, cache, running, installed, publishes, restarts,
                     masked>>
  BY InstallType DEF UpdaterApplied, IInv
<1>2. \/ Throw(i) /\ UNCHANGED info
      \/ status' = "readyToRestart" /\ info' = flows[i].update /\ Go(i, "ready")
  BY DEF UpdaterApplied
<1>3. /\ flows' \in Seq(Flows) /\ Len(flows') <= MaxFlows /\ FlowInv'
      /\ DOMAIN flows' = DOMAIN flows
      /\ \A j \in DOMAIN flows \ {i} : flows'[j] = flows[j]
      /\ flows'[i].pc \in {"ready", "done"} /\ status' \in Statuses \ Busy
  BY <1>1, <1>2, ThrowFlow, ReadyFlow DEF Statuses, Busy
<1>4. TypeOK'
  BY <1>1, <1>2, <1>3 DEF TypeOK, Reaped
<1>5. QED
  BY <1>1, <1>3, <1>4, WorkEnds

\* StartRollback
LEMMA StartRollbackInv ==
    ASSUME IInv, NEW i \in DOMAIN flows, StartRollback(i) PROVE IInv'
<1>1. /\ TypeOK /\ FlowInv /\ flows[i].pc = "log" /\ flows[i].kind = "rollback"
      /\ flows[i] \in Flows
      /\ UNCHANGED <<info, feedUrl, server, cache, running, installed, publishes,
                     restarts, masked>>
  BY DEF StartRollback, IInv, TypeOK
<1>2. CASE Throw(i) /\ UNCHANGED updaters
  <2>1. TypeOK'
    BY <1>1, <1>2, ThrowFlow DEF TypeOK
  <2>2. QED
    BY <1>1, <1>2, <2>1, ThrowFlow, WorkEnds
<1>3. CASE Go(i, "rollback") /\ Launch(i, "rollback") /\ UNCHANGED status
  <2>1. FlowOK([flows[i] EXCEPT !.pc = "rollback"])
    BY <1>1 DEF FlowOK, Flows
  <2>2. /\ flows' \in Seq(Flows) /\ Len(flows') <= MaxFlows /\ FlowInv'
        /\ DOMAIN flows' = DOMAIN flows
        /\ \A j \in DOMAIN flows \ {i} : flows'[j] = flows[j]
        /\ flows'[i].pc = "rollback" /\ flows'[i].kind = "rollback"
        /\ flows'[i].update = flows[i].update
    BY <1>1, <1>3, <2>1, GoFlow
  <2>3. BusyMeansUnderWay'
    BY <1>1, <1>3, <2>2 DEF IInv, BusyMeansUnderWay, AtStage
  <2>4. QED
    BY <1>1, <1>3, <2>2, <2>3, WorkLaunches DEF TypeOK
<1>4. QED
  BY <1>2, <1>3 DEF StartRollback

\* UpdaterRolledBack
LEMMA UpdaterRolledBackInv ==
    ASSUME IInv, NEW i \in DOMAIN flows, UpdaterRolledBack(i) PROVE IInv'
<1>1. /\ TypeOK /\ FlowInv /\ flows[i].pc = "rollback"
      /\ flows[i].kind = "rollback"
      /\ updaters' = Reaped(i)
      /\ UNCHANGED <<info, feedUrl, server, cache, running, installed, publishes,
                     restarts, masked>>
  BY DEF UpdaterRolledBack, IInv, FlowInv, FlowOK
<1>2. Throw(i) \/ (status' = "readyToRestart" /\ Go(i, "ready"))
  BY DEF UpdaterRolledBack
<1>3. /\ flows' \in Seq(Flows) /\ Len(flows') <= MaxFlows /\ FlowInv'
      /\ DOMAIN flows' = DOMAIN flows
      /\ \A j \in DOMAIN flows \ {i} : flows'[j] = flows[j]
      /\ flows'[i].pc \in {"ready", "done"} /\ status' \in Statuses \ Busy
  BY <1>1, <1>2, ThrowFlow, ReadyFlow DEF Statuses, Busy
<1>4. TypeOK'
  BY <1>1, <1>3 DEF TypeOK, Reaped
<1>5. QED
  BY <1>1, <1>3, <1>4, WorkEnds

\* LogReady: nothing of what is under way changes but the status, which is told of
\* as masked if something is.
LEMMA LogReadyInv == ASSUME IInv, NEW i \in DOMAIN flows, LogReady(i) PROVE IInv'
<1>1. /\ TypeOK /\ FlowInv /\ flows[i].pc = "ready" /\ flows[i].kind # "check"
      /\ UNCHANGED <<info, feedUrl, server, cache, updaters, running, installed,
                     publishes, restarts>>
  BY DEF LogReady, IInv, FlowInv, FlowOK
<1>2. /\ flows' \in Seq(Flows) /\ Len(flows') <= MaxFlows /\ FlowInv'
      /\ DOMAIN flows' = DOMAIN flows
      /\ \A j \in DOMAIN flows \ {i} : flows'[j] = flows[j]
      /\ flows'[i].pc = "done"
      /\ \/ UNCHANGED <<status, masked>>
         \/ status' \in Statuses \ Busy /\ masked' = (masked \/ Working # {})
  BY <1>1, DoneFlow, ThrowFlow DEF LogReady
<1>3. TypeOK'
  BY <1>1, <1>2 DEF TypeOK
<1>4. masked => masked'
  BY <1>1, <1>2 DEF TypeOK
<1>5. /\ UpdaterInv' /\ AppliedIsOffered'
      /\ Working' = Working /\ i \notin Working
  BY <1>1, <1>2, <1>4 DEF IInv, UpdaterInv, AppliedIsOffered, Working
<1>6. BusyMeansUnderWay'
  <2>1. ~AtStage(flows[i])
    BY <1>1 DEF AtStage
  <2>2. CASE UNCHANGED status
    BY <1>1, <1>2, <2>1, <2>2 DEF IInv, BusyMeansUnderWay, AtStage
  <2>3. CASE status' \notin Busy
    BY <2>3, NotBusy
  <2>4. QED
    BY <1>2, <2>2, <2>3
<1>7. AloneInv'
  <2>1. ~masked' => status' = status \/ Working = {}
    BY <1>2
  <2>2. QED
    BY <1>1, <1>2, <1>4, <1>5, <2>1, AloneStays DEF IInv
<1>8. QED
  BY <1>2, <1>3, <1>5, <1>6, <1>7 DEF IInv

-----------------------------------------------------------------------------
(* The updaters, the server and the restarts *)

\* An updater changes, or is forgotten, while the flows stay as they are.
LEMMA UpdaterChanges ==
    ASSUME IInv, NEW u \in updaters, NEW v \in Updaters,
           v.flow = u.flow, v.op = u.op, v.update = u.update,
           v.read = u.read \/ v.read = cache[u.update.name],
           \/ updaters' = (updaters \ {u}) \cup {v}
           \/ updaters' = updaters \ {u},
           installed' \in Versions,
           UNCHANGED <<status, info, feedUrl, server, cache, flows, running,
                       publishes, restarts, masked>>
    PROVE  IInv'
<1>1. TypeOK' /\ FlowInv'
  BY DEF IInv, TypeOK, FlowInv
<1>2. UpdaterInv'
  BY DEF IInv, UpdaterInv
<1>3. BusyMeansUnderWay'
  BY DEF IInv, BusyMeansUnderWay, AtStage
<1>4. AloneInv'
  BY DEF IInv, AloneInv, Working, Ended
<1>5. AppliedIsOffered'
  <2>1. SUFFICES ASSUME v.op = "apply", v.read # None, ~masked
                 PROVE  v.read = v.update.sha
    BY DEF IInv, AppliedIsOffered
  <2>2. CASE v.read = u.read
    BY <2>1, <2>2 DEF IInv, AppliedIsOffered
  <2>3. CASE v.read = cache[u.update.name]
    <3>1. /\ u.flow \in Working /\ flows[u.flow].pc = "apply"
          /\ flows[u.flow].update = u.update
      BY <2>1 DEF IInv, AloneInv
    <3>2. cache[u.update.name] = u.update.sha
      BY <2>1, <3>1 DEF IInv, AloneInv, Working
    <3>3. QED
      BY <2>3, <3>2
  <2>4. QED
    BY <2>2, <2>3
<1>6. QED
  BY <1>1, <1>2, <1>3, <1>4, <1>5 DEF IInv

\* UpdaterReads: what it opens is what the flow has checked.
LEMMA UpdaterReadsInv ==
    ASSUME IInv, NEW u \in updaters, UpdaterReads(u) PROVE IInv'
<1> DEFINE v == [u EXCEPT !.read = cache[u.update.name]]
<1>1. /\ u \in Updaters /\ u.op # "rollback"
      /\ updaters' = (updaters \ {u}) \cup {v}
      /\ UNCHANGED <<status, info, feedUrl, server, cache, flows, running,
                     installed, publishes, restarts, masked>>
  BY DEF UpdaterReads, IInv, TypeOK
<1>2. u.update \in Updates
  BY <1>1 DEF IInv, UpdaterInv
<1>3. cache[u.update.name] \in Contents \cup {Missing, Torn, None}
  BY <1>2 DEF IInv, TypeOK, Updates
<1>4. /\ v \in Updaters /\ v.flow = u.flow /\ v.op = u.op /\ v.update = u.update
      /\ v.read = cache[u.update.name]
  BY <1>1, <1>3 DEF Updaters
<1> HIDE DEF v
<1>5. installed' \in Versions
  BY <1>1 DEF IInv, TypeOK
<1>6. QED
  BY <1>1, <1>4, <1>5, UpdaterChanges

\* UpdaterExits
LEMMA UpdaterExitsInv ==
    ASSUME IInv, NEW u \in updaters, UpdaterExits(u) PROVE IInv'
<1>1. u \in Updaters /\ installed \in Versions
  BY DEF IInv, TypeOK
<1>2. PICK exit \in {"ok", "error"} :
        /\ updaters' = (updaters \ {u})
             \cup (IF Ended(u.flow) THEN {} ELSE {[u EXCEPT !.exit = exit]})
        /\ CASE exit = "ok" /\ u.op = "apply" -> installed' = u.update.version
             [] exit = "ok" /\ u.op = "rollback" -> installed' \in Versions
             [] OTHER -> UNCHANGED installed
  BY DEF UpdaterExits
<1> DEFINE v == [u EXCEPT !.exit = exit]
<1>3. /\ v \in Updaters /\ v.flow = u.flow /\ v.op = u.op /\ v.update = u.update
      /\ v.read = u.read
  BY <1>1 DEF Updaters
<1>4. \/ updaters' = (updaters \ {u}) \cup {v}
      \/ updaters' = updaters \ {u}
  BY <1>2
<1> HIDE DEF v
<1>5. u.op = "apply" => u.update.version \in Versions
  BY <1>1 DEF IInv, UpdaterInv, Updates
<1>6. installed' \in Versions
  BY <1>1, <1>2, <1>5
<1>7. UNCHANGED <<status, info, feedUrl, server, cache, flows, running,
                  publishes, restarts, masked>>
  BY DEF UpdaterExits
<1>8. QED
  BY <1>3, <1>4, <1>6, <1>7, UpdaterChanges

\* Publish
LEMMA PublishInv == ASSUME IInv, Publish PROVE IInv'
<1>1. /\ server' \in Servers /\ publishes' \in 0..MaxPublishes
      /\ UNCHANGED <<status, info, feedUrl, cache, flows, updaters, running,
                     installed, restarts, masked>>
  BY ClientUpdatesAssumption DEF Publish, IInv, TypeOK
<1>2. TypeOK' /\ FlowInv' /\ UpdaterInv'
  BY <1>1 DEF IInv, TypeOK, FlowInv, UpdaterInv
<1>3. AloneInv' /\ BusyMeansUnderWay' /\ AppliedIsOffered'
  BY <1>1 DEF IInv, AloneInv, Working, Ended, BusyMeansUnderWay, AtStage,
              AppliedIsOffered
<1>4. QED
  BY <1>2, <1>3 DEF IInv

\* RestartApp: all flows end, and updaters that go on are masked.
LEMMA RestartAppInv == ASSUME IInv, RestartApp PROVE IInv'
<1> DEFINE ended == [i \in DOMAIN flows |-> [flows[i] EXCEPT !.pc = "done"]]
           f == Flow("check", "feed")
           n == Len(flows) + 1
<1>1. /\ TypeOK /\ FlowInv /\ Len(flows) < MaxFlows
      /\ flows' = Append(ended, f)
      /\ updaters' = RunningUpdaters
      /\ masked' = (masked \/ RunningUpdaters # {})
      /\ status' = "checking" /\ info' = None /\ running' = installed
      /\ restarts' \in 0..MaxRestarts
      /\ UNCHANGED <<feedUrl, server, cache, installed, publishes>>
  BY ClientUpdatesAssumption DEF RestartApp, IInv, TypeOK
<1>2. f \in Flows /\ FlowOK(f) /\ f.kind = "check" /\ f.pc = "feed"
  BY NewFlow
<1>3. \A i \in DOMAIN flows : /\ ended[i] \in Flows /\ FlowOK(ended[i])
                              /\ ended[i].pc = "done"
  <2>1. TAKE i \in DOMAIN flows
  <2>2. flows[i] \in Flows /\ FlowOK(flows[i])
    BY <1>1 DEF TypeOK, FlowInv
  <2>3. QED
    BY <2>2 DEF FlowOK, Flows
<1>4. flows \in Seq(Flows) /\ Len(flows) \in Nat /\ DOMAIN flows = 1..Len(flows)
      /\ MaxFlows \in Nat
  BY <1>1, ClientUpdatesAssumption DEF TypeOK
<1>5. ended \in Seq(Flows) /\ Len(ended) = Len(flows)
  BY <1>3, <1>4
<1> HIDE DEF ended, f
<1>6. /\ flows' \in Seq(Flows) /\ Len(flows') = n
      /\ \A i \in DOMAIN flows : flows'[i] = ended[i]
      /\ flows'[n] = f
  BY <1>1, <1>2, <1>4, <1>5
<1>7. DOMAIN flows' = DOMAIN flows \cup {n}
  BY <1>4, <1>6
<1>8. TypeOK'
  BY <1>1, <1>4, <1>6 DEF TypeOK, RunningUpdaters, Statuses
<1>9. FlowInv'
  BY <1>2, <1>3, <1>6, <1>7 DEF FlowInv
<1>10. UpdaterInv' /\ AppliedIsOffered'
  BY <1>1 DEF IInv, UpdaterInv, AppliedIsOffered, RunningUpdaters, TypeOK
<1>11. BusyMeansUnderWay'
  BY <1>1, <1>2, <1>6, <1>7 DEF BusyMeansUnderWay, AtStage
<1>12. AloneInv'
  <2>1. CASE masked'
    BY <2>1 DEF AloneInv
  <2>2. CASE ~masked'
    <3>1. updaters' = {}
      BY <1>1, <2>2
    <3>2. Working' = {}
      BY <1>2, <1>3, <1>6, <1>7 DEF Working, Ended
    <3>3. QED
      BY <1>9, <3>1, <3>2, NobodyWorks
  <2>3. QED
    BY <2>1, <2>2
<1>13. QED
  BY <1>8, <1>9, <1>10, <1>11, <1>12 DEF IInv

-----------------------------------------------------------------------------
(* The theorems *)

\* At first there is the silent check of the start.
LEMMA InitInv == Init => IInv
<1> SUFFICES ASSUME Init PROVE IInv
  OBVIOUS
<1> DEFINE f == Flow("check", "feed")
<1>1. f \in Flows /\ FlowOK(f) /\ f.kind = "check" /\ f.pc = "feed"
  BY NewFlow
<1>2. flows = <<f>>
  BY DEF Init
<1> HIDE DEF f
<1>3. flows \in Seq(Flows) /\ Len(flows) = 1 /\ DOMAIN flows = {1} /\ flows[1] = f
  BY <1>1, <1>2
<1>4. TypeOK
  <2>1. 1 <= MaxFlows /\ 0 \in 0..MaxPublishes /\ 0 \in 0..MaxRestarts
    BY ClientUpdatesAssumption
  <2>2. cache \in [Names -> Contents \cup {Missing, Torn}]
    BY DEF Init
  <2>3. running \in Versions /\ installed \in Versions
    BY ClientUpdatesAssumption DEF Init
  <2>4. QED
    BY <1>3, <2>1, <2>2, <2>3 DEF Init, TypeOK, Statuses
<1>5. FlowInv
  BY <1>1, <1>3 DEF FlowInv
<1>6. UpdaterInv /\ AppliedIsOffered
  BY DEF Init, UpdaterInv, AppliedIsOffered
<1>7. BusyMeansUnderWay
  BY <1>1, <1>3 DEF Init, BusyMeansUnderWay, AtStage
<1>8. AloneInv
  BY <1>1, <1>3 DEF Init, AloneInv, Working, Ended
<1>9. QED
  BY <1>4, <1>5, <1>6, <1>7, <1>8 DEF IInv

\* Every press of a button, step of a flow, step of an updater and change of the
\* world preserves the invariant.
LEMMA NextInv == IInv /\ [Next]_vars => IInv'
<1> SUFFICES ASSUME IInv, [Next]_vars PROVE IInv'
  OBVIOUS
<1>1. ASSUME NEW i \in DOMAIN flows, FlowStep(i) PROVE IInv'
  BY <1>1, StartCheckInv, AskInv, LandCheckInv, FetchInv, WriteBodyInv, HashInv,
     UpdaterVerifiedInv, UpdaterAppliedInv, StartRollbackInv, UpdaterRolledBackInv,
     LogReadyInv DEF FlowStep
<1>2. ASSUME NEW u \in updaters, UpdaterReads(u) \/ UpdaterExits(u) PROVE IInv'
  BY <1>2, UpdaterReadsInv, UpdaterExitsInv
<1>3. CASE UNCHANGED vars
  BY <1>3 DEF vars, IInv, TypeOK, FlowInv, UpdaterInv, AloneInv, Working, Ended,
              BusyMeansUnderWay, AtStage, AppliedIsOffered
<1>4. QED
  BY <1>1, <1>2, <1>3, PressCheckInv, PressInv, PublishInv, RestartAppInv DEF Next

\* The inductive invariant.
THEOREM Invariance == Spec => []IInv
<1>1. Init => IInv
  BY InitInv
<1>2. IInv /\ [Next]_vars => IInv'
  BY NextInv
<1>3. QED
  BY <1>1, <1>2, PTL DEF Spec

\* Type correctness: every variable keeps its type, whatever a feed says
\* (update_service.dart ZentorUpdateService).
THEOREM TypeCorrect == Spec => []TypeOK
<1>1. IInv => TypeOK
  BY DEF IInv
<1>2. QED
  BY <1>1, Invariance, PTL

\* A status that disables buttons is not left behind, but by the check of a feed
\* URL that does not parse: some flow is at that stage and will write the status
\* when it ends, whatever other flows have written meanwhile (app_state.dart
\* unawaitedCheckForUpdates, installUpdateInApp, rollbackUpdateInApp).
THEOREM NoStatusLeftBehind == Spec => []BusyMeansUnderWay
<1>1. IInv => BusyMeansUnderWay
  BY DEF IInv
<1>2. QED
  BY <1>1, Invariance, PTL

\* What an updater applies is what the feed offered, for any number of flows,
\* packages and changes of the server, unless a status told of less than was
\* under way (update_service.dart downloadUpdatePackage, app_state.dart
\* installUpdateInApp).
THEOREM AppliesWhatWasOffered == Spec => []AppliedIsOffered
<1>1. IInv => AppliedIsOffered
  BY DEF IInv
<1>2. QED
  BY <1>1, Invariance, PTL
==============================================================================
