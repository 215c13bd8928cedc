----------------------------- MODULE UpdateApply -----------------------------
(***************************************************************************)
(* Applying an .aup package, and rolling back.                             *)
(*                                                                         *)
(* Code: avorax_update_service/src main.rs, update_applier.rs              *)
(* (apply_package), update_verifier.rs, update_manifest.rs,                *)
(* update_package.rs, rollback.rs (create_snapshot, restore_snapshot,      *)
(* restore_latest_snapshot), file_replacer.rs and service_control.rs.  The *)
(* Flutter app runs the updater as a process of its own and passes it the  *)
(* version of the app that is running.                                     *)
(*                                                                         *)
(* An installation is a set of files, each with the content some version   *)
(* gives it.  A package is what its archive and its manifest hold.  A copy *)
(* of a file may fail (in use, disk full) before it touched its target or  *)
(* after, and the updater may die at any step, in the middle of a copy     *)
(* too; both leave a torn file.                                            *)
(***************************************************************************)
EXTENDS Naturals, Sequences

CONSTANTS
    App, Core, Guard,  \* Avorax.exe and the two services' executables
    Engine,            \* files under engine/
    AppFiles,          \* other files of the app section (libraries, data)
    Extras,            \* files under docs/, tools/ and migrations/
    Registered,        \* the services the service manager of this machine knows
    Versions,          \* versions: their numeric parts, a sequence
    Packages,          \* packages the user may be offered, see Package
    Initial,           \* Initial[v]: the files an installation of v has
    DevKey,            \* the development signing key
    ProductionKey,     \* the release key
    ConfiguredKey,     \* the one this machine knows: compiled in or by variable
    MaxFailures,       \* bound: file operations that fail
    MaxDeaths,         \* bound: updaters that die
    Absent,            \* no such file
    Torn,              \* a file that was not copied to its end
    NoSnapshot         \* no snapshot directory of that version

Services == {Core, Guard}
Executables == {App, Core, Guard}
Covered == Executables \cup Engine     \* what a snapshot holds
Files == Covered \cup AppFiles \cup Extras
Cells == Versions \cup {Absent, Torn}
Channels == {"stable", "beta", "dev"}
Ids == Versions \X Channels   \* package ids, as the package builder forms them

\* A package: its manifest lists contents ("listed", by their hashes), its
\* archive has entries for a file, in their order ("at": the place in the archive).
\* The name of an entry is one of several that stand for the same file ("./" and
\* repeated "payload/" fall away); "exact" says that it is the one by which a
\* listed file is looked up.  "invalid": fields of
\* the manifest, or the archive itself, that are not as they must be; "hash":
\* what the manifest says of the archive's own hash; "key": the key the manifest
\* names, "signer": the one that signed it as it is now.
IsPackage(p) ==
    /\ p.version \in Versions /\ p.channel \in Channels
    /\ p.id = <<p.version, p.channel>>
    /\ p.invalid \subseteq {"archive", "product", "format", "algorithm",
                            "driver_update", "no_min_version"}
    /\ p.hash \in {"none", "own", "other"}
    /\ p.key \in {DevKey, ProductionKey}
    /\ p.signer \in {DevKey, ProductionKey, "none"}
    /\ p.listed \in [Files -> Cells]
    /\ p.entries \in [Files -> Seq([at : Nat, exact : BOOLEAN,
                                   content : Cells \ {Absent}])]

ASSUME UpdateAssumption ==
    /\ Versions \subseteq Seq(Nat)
    /\ \A p \in Packages : IsPackage(p)
    /\ Initial \in [Versions -> SUBSET Files]
    /\ Registered \subseteq Services
    /\ DevKey # ProductionKey /\ ConfiguredKey \in {DevKey, ProductionKey}
    /\ MaxFailures \in Nat /\ MaxDeaths \in Nat
    /\ Absent # Torn /\ {Absent, Torn} \cap Versions = {}
    /\ NoSnapshot \notin [Covered -> Cells]
    /\ App # Core /\ App # Guard /\ Core # Guard
    /\ Executables \cap Engine = {}
    /\ (AppFiles \cup Extras) \cap Covered = {} /\ AppFiles \cap Extras = {}

VARIABLES
    install,    \* install[f]: what the installation directory has
    staging,    \* staging[id]: what updates/staging/id has of each file
    snapshot,   \* snapshot[v]: what updates/rollback/v has, or NoSnapshot
    ages,       \* the snapshot directories, oldest first
    services,   \* services that run
    stopping,   \* those among them that were told to stop
    appVersion, \* version of the app that is running
    pc,         \* the updater's next step
    job,        \* what it does; outcome is kept when it has answered
    failures, deaths,
    before,     \* history: the files when the updater started
    afterUpdate \* history: the command before this one installed an update

vars == <<install, staging, snapshot, ages, services, stopping, appVersion, pc, job,
          failures, deaths, before, afterUpdate>>

PCs == {"idle", "unstage", "stage", "clear", "create", "snapshot", "stop", "apply",
        "restore", "unlink", "recopy", "start", "report"}

NoPackage == [id |-> "none"]
NothingStaged == [f \in Files |-> Absent]
Contained(contents) == {f \in Files : contents[f] # Absent}

Outcomes == {"none", "refused", "installed", "unlogged", "restored", "mixed",
             "aborted", "rolled_back", "rollback_failed", "died"}

Jobs == [op : {"none", "apply", "rollback"},
         key : Versions,         \* the snapshot it makes or restores
         target : Packages \cup {NoPackage},   \* what it installs
         todo : SUBSET Files,    \* files it still has to copy
         outcome : Outcomes]

\* A copy goes through the sections, or the snapshot's items, in order.
SectionRank == [f \in Files |-> IF f \in AppFiles \cup {App} THEN 1
                                ELSE IF f \in Services THEN 2
                                ELSE IF f \in Engine THEN 3 ELSE 4]
SnapshotRank == [f \in Files |-> IF f = App THEN 1 ELSE IF f = Core THEN 2
                                 ELSE IF f = Guard THEN 3 ELSE 4]

Firsts(S, rank) == {f \in S : \A g \in S : rank[f] <= rank[g]}

Present(s) == {f \in Covered : s[f] # Absent}

\* What an archive leaves of each file: the last entry of a file is written over
\* those before it.
Entries(package, f) == DOMAIN package.entries[f]
Extracted(package, there) ==
    [f \in Files |-> IF Entries(package, f) = {} THEN there[f]
                     ELSE package.entries[f][Len(package.entries[f])].content]
Payload(package) == Extracted(package, NothingStaged)

Startable == {s \in Registered : install[s] \in Versions}

-----------------------------------------------------------------------------
(* verify_package, on an archive that nobody changes meanwhile.             *)

\* compare_versions: part by part, a missing part is 0.
Part(version, i) == IF i \in DOMAIN version THEN version[i] ELSE 0
Newer(v, w) ==
    \E i \in 1..(Len(v) + Len(w)) :
        /\ Part(v, i) > Part(w, i)
        /\ \A j \in 1..(i - 1) : Part(v, j) = Part(w, j)

\* The development policy is used if the command or the environment asks for it.
Policy(development) ==
    [channel     |-> IF development THEN "dev" ELSE "stable",
     allowDevKey |-> development,
     key         |-> ConfiguredKey]

SignatureValid(package, policy) ==
    package.key = policy.key /\ package.signer = policy.key

\* verify_payload_hashes: the first entry that has exactly the name of a listed
\* file has its content, and every entry stands for a listed file.
PayloadHashesMatch(package) ==
    /\ Contained(package.listed) # {}
    /\ \A f \in Contained(package.listed) :
         \E i \in Entries(package, f) :
           /\ package.entries[f][i].exact
           /\ package.entries[f][i].content = package.listed[f]
           /\ \A j \in Entries(package, f) : package.entries[f][j].exact => i <= j
    /\ \A f \in Files : Entries(package, f) # {} => f \in Contained(package.listed)

Verified(package, current, policy) ==
    /\ package.invalid = {}
    /\ package.channel = policy.channel
    /\ Newer(package.version, current)
    /\ package.key = DevKey => policy.allowDevKey
    /\ package.hash # "other"
    /\ SignatureValid(package, policy)
    /\ PayloadHashesMatch(package)

-----------------------------------------------------------------------------
\* A complete installation of some version, running, and no update so far.
Init ==
    /\ \E v \in Versions :
         /\ install = [f \in Files |-> IF f \in Initial[v] THEN v ELSE Absent]
         /\ install[App] = v
         /\ appVersion = v
         /\ job = [op |-> "none", key |-> v, target |-> NoPackage, todo |-> {},
                   outcome |-> "none"]
    /\ staging = [id \in Ids |-> NothingStaged]
    /\ snapshot = [v \in Versions |-> NoSnapshot]
    /\ ages = <<>>
    /\ services = Startable
    /\ stopping = {}
    /\ pc = "idle"
    /\ failures = 0
    /\ deaths = 0
    /\ before = install
    /\ afterUpdate = FALSE

\* The updater has answered; its outcome stays for the report.
Finish(outcome) ==
    /\ pc' = "idle"
    /\ job' = [job EXCEPT !.todo = {}, !.outcome = outcome]

Goto(next, todo) ==
    /\ pc' = next
    /\ job' = [job EXCEPT !.todo = todo]

\* restore_snapshot reached its end, or gave up; a rollback has answered, an
\* apply goes on to start the services.
EndRestore(done) ==
    IF job.op = "rollback"
    THEN Finish(IF done THEN "rolled_back" ELSE "rollback_failed")
    ELSE /\ pc' = "start"
         /\ job' = [job EXCEPT !.todo = {},
                               !.outcome = IF done THEN "restored" ELSE "mixed"]

\* After the executables comes engine/, if the snapshot has one.
AfterExecutables ==
    IF Present(snapshot[job.key]) \cap Engine # {}
    THEN Goto("unlink", {})
    ELSE EndRestore(TRUE)

\* restore_snapshot(snapshot of key): the executables first.
BeginRestore(key) ==
    /\ pc' = "restore"
    /\ job' = [job EXCEPT !.todo = Present(snapshot[key]) \cap Executables]

Fails == failures < MaxFailures /\ failures' = failures + 1
Works == UNCHANGED failures

\* The snapshot directories but one, in their order.
Others(key) ==
    IF \E i \in 1..Len(ages) : ages[i] = key
    THEN LET i == CHOOSE i \in 1..Len(ages) : ages[i] = key
         IN  SubSeq(ages, 1, i - 1) \o SubSeq(ages, i + 1, Len(ages))
    ELSE ages

\* remove_dir_all of a snapshot stops half-way.  What is left of it counts as
\* the newest directory: its modification time is now.
PartlyRemoved ==
    \E gone \in SUBSET Covered :
      /\ snapshot[job.key] # NoSnapshot
      /\ snapshot' = [snapshot EXCEPT ![job.key] =
                        [f \in Covered |-> IF f \in gone THEN Absent ELSE @[f]]]
      /\ ages' = Append(Others(job.key), job.key)

-----------------------------------------------------------------------------
(* apply_package.                                                           *)

\* A package that does not verify changes nothing.
Apply(package, development) ==
    /\ pc = "idle"
    /\ IF Verified(package, appVersion, Policy(development))
       THEN /\ pc' = "unstage"
            /\ job' = [op |-> "apply", key |-> appVersion, target |-> package,
                       todo |-> {}, outcome |-> "none"]
       ELSE /\ pc' = "idle"
            /\ job' = [op |-> "apply", key |-> appVersion, target |-> NoPackage,
                       todo |-> {}, outcome |-> "refused"]
    /\ before' = install
    /\ afterUpdate' = (job.outcome \in {"installed", "unlogged"})
    /\ UNCHANGED <<install, staging, snapshot, ages, services, stopping, appVersion, failures,
                   deaths>>

\* What is left when removing a staging directory stops at a file, or extracting
\* into it at an entry: some files are gone, or some are there and one is torn.
PartlyUnstaged ==
    \E last \in Contained(staging[job.target.id]) :
        staging' = [staging EXCEPT ![job.target.id] =
                      [f \in Files |-> IF SectionRank[f] < SectionRank[last]
                                       THEN Absent ELSE @[f]]]
PartlyStaged ==
    \E last \in Contained(Payload(job.target)), part \in [Files -> Cells] :
      \E here \in Entries(job.target, last) :
        /\ part[last] = Torn
        /\ \A f \in Files \ {last} :
             LET Of == job.target.entries[f]
                 written == {i \in Entries(job.target, f) :
                               Of[i].at < job.target.entries[last][here].at}
             IN  IF written = {} THEN part[f] = staging[job.target.id][f]
                 ELSE \E i \in written :
                        part[f] = Of[i].content /\ \A j \in written : j <= i
        /\ staging' = [staging EXCEPT ![job.target.id] = part]

\* Mutant: what an earlier attempt left in staging stays there.
KeepStaging ==
    /\ pc = "unstage"
    /\ Goto("stage", {})
    /\ UNCHANGED <<install, staging, snapshot, ages, services, stopping, appVersion, failures,
                   deaths, before, afterUpdate>>

ClearStaging ==
    /\ pc = "unstage"
    /\ \/ /\ Works
          /\ staging' = [staging EXCEPT ![job.target.id] = NothingStaged]
          /\ Goto("stage", {})
       \/ Fails /\ PartlyUnstaged /\ Finish("aborted")
    /\ UNCHANGED <<install, snapshot, ages, services, stopping, appVersion, deaths, before,
                   afterUpdate>>

\* extract_payload_to
Extract ==
    /\ pc = "stage"
    /\ \/ /\ Works
          /\ staging' = [staging EXCEPT ![job.target.id] =
                           Extracted(job.target, @)]
          /\ Goto("clear", {})
       \/ Fails /\ PartlyStaged /\ Finish("aborted")
    /\ UNCHANGED <<install, snapshot, ages, services, stopping, appVersion, deaths, before,
                   afterUpdate>>

\* create_snapshot: an older snapshot of the same version is removed first.
ClearSnapshot ==
    /\ pc = "clear"
    /\ \/ /\ Works
          /\ snapshot' = [snapshot EXCEPT ![job.key] = NoSnapshot]
          /\ ages' = Others(job.key)
          /\ Goto("create", {})
       \/ Fails /\ PartlyRemoved /\ Finish("aborted")
    /\ UNCHANGED <<install, staging, services, stopping, appVersion, deaths, before, afterUpdate>>

\* Mutant: engine/ is forgotten.
CreateSnapshotOfExecutables ==
    /\ pc = "create"
    /\ snapshot' = [snapshot EXCEPT ![job.key] = [f \in Covered |-> Absent]]
    /\ ages' = Append(ages, job.key)
    /\ Goto("snapshot", {f \in Executables : install[f] # Absent})
    /\ UNCHANGED <<install, staging, services, stopping, appVersion, failures, deaths, before,
                   afterUpdate>>

CreateSnapshot ==
    /\ pc = "create"
    /\ snapshot' = [snapshot EXCEPT ![job.key] = [f \in Covered |-> Absent]]
    /\ ages' = Append(ages, job.key)
    /\ Goto("snapshot", {f \in Covered : install[f] # Absent})
    /\ UNCHANGED <<install, staging, services, stopping, appVersion, failures, deaths, before,
                   afterUpdate>>

\* One file goes into the snapshot; an error ends the update before it has
\* touched anything else.
CopyToSnapshot(f) ==
    /\ pc = "snapshot"
    /\ f \in Firsts(job.todo, SnapshotRank)
    /\ \/ /\ Works
          /\ snapshot' = [snapshot EXCEPT ![job.key][f] = install[f]]
          /\ Goto("snapshot", job.todo \ {f})
       \/ /\ Fails
          /\ \E cell \in {Absent, Torn} :
               snapshot' = [snapshot EXCEPT ![job.key][f] = cell]
          /\ Finish("aborted")
    /\ UNCHANGED <<install, staging, ages, services, stopping, appVersion, deaths, before,
                   afterUpdate>>

SnapshotDone ==
    /\ pc = "snapshot"
    /\ job.todo = {}
    /\ Goto("stop", {})
    /\ UNCHANGED <<install, staging, snapshot, ages, services, stopping, appVersion, failures,
                   deaths, before, afterUpdate>>

\* Mutant: the executables' section is left out.
StopServicesSkipsSection ==
    /\ pc = "stop"
    /\ \E told \in SUBSET services : stopping' = stopping \cup told
    /\ Goto("apply", Contained(staging[job.target.id]) \ Services)
    /\ UNCHANGED <<install, staging, snapshot, ages, services, appVersion, failures,
                   deaths, before, afterUpdate>>

\* stop_services: sc.exe tells a service to stop and does not wait for it; its
\* result is ignored, so any may not even be told.
StopServices ==
    /\ pc = "stop"
    /\ \E told \in SUBSET services : stopping' = stopping \cup told
    /\ Goto("apply", Contained(staging[job.target.id]))
    /\ UNCHANGED <<install, staging, snapshot, ages, services, appVersion, failures,
                   deaths, before, afterUpdate>>

\* copy_tree_overwrite, one file; an error goes to restore_snapshot.
CopyToInstall(f) ==
    /\ pc = "apply"
    /\ f \in Firsts(job.todo, SectionRank)
    /\ \/ /\ Works
          /\ install' = [install EXCEPT ![f] = staging[job.target.id][f]]
          /\ Goto("apply", job.todo \ {f})
       \/ /\ Fails
          /\ \E cell \in {install[f], Torn} :
               install' = [install EXCEPT ![f] = cell]
          /\ BeginRestore(job.key)
    /\ UNCHANGED <<staging, snapshot, ages, services, stopping, appVersion, deaths, before,
                   afterUpdate>>

ApplyDone ==
    /\ pc = "apply"
    /\ job.todo = {}
    /\ pc' = "start"
    /\ job' = [job EXCEPT !.outcome = "installed"]
    /\ UNCHANGED <<install, staging, snapshot, ages, services, stopping, appVersion, failures,
                   deaths, before, afterUpdate>>

\* start_services, after an update that was applied and after one that was
\* undone.  The result of sc.exe is ignored: any service may not start, and one
\* that still runs, stopping or not, is not started.  The report of an update
\* that was undone is written if it can be.
StartServices ==
    /\ pc = "start"
    /\ \E started \in SUBSET (Startable \ services) :
         services' = services \cup started
    /\ IF job.outcome = "installed" THEN Goto("report", {}) ELSE Finish(job.outcome)
    /\ UNCHANGED <<install, staging, snapshot, ages, stopping, appVersion, failures,
                   deaths, before, afterUpdate>>

\* write_update_log after an update that was applied: the updater fails if the
\* report cannot be written, with everything in place.
WriteReport ==
    /\ pc = "report"
    /\ \/ Works /\ Finish("installed")
       \/ Fails /\ Finish("unlogged")
    /\ UNCHANGED <<install, staging, snapshot, ages, services, stopping, appVersion,
                   deaths, before, afterUpdate>>

-----------------------------------------------------------------------------
(* --rollback: restore_latest_snapshot.  No service is stopped or started.  *)

Rollback ==
    /\ pc = "idle"
    /\ ages # <<>>
    /\ LET key == ages[Len(ages)] IN
         job' = [op |-> "rollback", key |-> key, target |-> NoPackage,
                 todo |-> Present(snapshot[key]) \cap Executables,
                 outcome |-> "none"]
    /\ pc' = "restore"
    /\ before' = install
    /\ afterUpdate' = (job.outcome \in {"installed", "unlogged"})
    /\ UNCHANGED <<install, staging, snapshot, ages, services, stopping, appVersion, failures,
                   deaths>>

-----------------------------------------------------------------------------
(* restore_snapshot, for both.                                              *)

\* The executables and then, in recopy, the files of engine/.
RestoreFile(f) ==
    /\ pc \in {"restore", "recopy"}
    /\ f \in Firsts(job.todo, SnapshotRank)
    /\ \/ /\ Works
          /\ install' = [install EXCEPT ![f] = snapshot[job.key][f]]
          /\ Goto(pc, job.todo \ {f})
       \/ /\ Fails
          /\ \E cell \in {install[f], Torn} :
               install' = [install EXCEPT ![f] = cell]
          /\ EndRestore(FALSE)
    /\ UNCHANGED <<staging, snapshot, ages, services, stopping, appVersion, deaths, before,
                   afterUpdate>>

RestoreDone ==
    /\ job.todo = {}
    /\ \/ pc = "restore" /\ AfterExecutables
       \/ pc = "recopy" /\ EndRestore(TRUE)
    /\ UNCHANGED <<install, staging, snapshot, ages, services, stopping, appVersion, failures,
                   deaths, before, afterUpdate>>

\* remove_dir_all(engine); when it fails some files are gone already.
UnlinkEngine ==
    /\ pc = "unlink"
    /\ \/ /\ Works
          /\ install' = [f \in Files |-> IF f \in Engine THEN Absent
                                                         ELSE install[f]]
          /\ Goto("recopy", Present(snapshot[job.key]) \cap Engine)
       \/ /\ Fails
          /\ \E gone \in SUBSET Engine :
               install' = [f \in Files |-> IF f \in gone THEN Absent
                                                         ELSE install[f]]
          /\ EndRestore(FALSE)
    /\ UNCHANGED <<staging, snapshot, ages, services, stopping, appVersion, deaths, before,
                   afterUpdate>>

-----------------------------------------------------------------------------
(* What happens around the updater.                                         *)

\* The updater dies, perhaps in the middle of a copy.  Nothing resumes it.
Die ==
    /\ pc # "idle"
    /\ deaths < MaxDeaths
    /\ deaths' = deaths + 1
    /\ \/ UNCHANGED <<install, staging, snapshot, ages>>
       \/ pc = "unstage" /\ PartlyUnstaged /\ UNCHANGED <<install, snapshot, ages>>
       \/ pc = "stage" /\ PartlyStaged /\ UNCHANGED <<install, snapshot, ages>>
       \/ pc = "clear" /\ PartlyRemoved /\ UNCHANGED <<install, staging>>
       \/ \E f \in Firsts(job.todo, SnapshotRank) :
            /\ pc = "snapshot"
            /\ snapshot' = [snapshot EXCEPT ![job.key][f] = Torn]
            /\ UNCHANGED <<install, staging, ages>>
       \/ \E f \in job.todo :
            /\ pc \in {"apply", "restore", "recopy"}
            /\ f \in Firsts(job.todo, IF pc = "apply" THEN SectionRank
                                                      ELSE SnapshotRank)
            /\ install' = [install EXCEPT ![f] = Torn]
            /\ UNCHANGED <<staging, snapshot, ages>>
       \/ \E gone \in SUBSET Engine :
            /\ pc = "unlink"
            /\ install' = [f \in Files |-> IF f \in gone THEN Absent
                                                      ELSE install[f]]
            /\ UNCHANGED <<staging, snapshot, ages>>
    /\ Finish("died")
    /\ UNCHANGED <<services, stopping, appVersion, failures, before, afterUpdate>>

\* A service that was told to stop does.
ServiceStops(s) ==
    /\ s \in stopping
    /\ services' = services \ {s}
    /\ stopping' = stopping \ {s}
    /\ UNCHANGED <<install, staging, snapshot, ages, appVersion, pc, job, failures,
                   deaths, before, afterUpdate>>

\* The user restarts the app, whose version is then the installed one.
RestartApp ==
    /\ pc = "idle"
    /\ install[App] \in Versions
    /\ appVersion' = install[App]
    /\ UNCHANGED <<install, staging, snapshot, ages, services, stopping, pc, job, failures,
                   deaths, before, afterUpdate>>

\* A reboot starts the services, which start automatically, and the app.
Reboot ==
    /\ pc = "idle"
    /\ services' = Startable
    /\ stopping' = {}
    /\ appVersion' = IF install[App] \in Versions THEN install[App]
                                                  ELSE appVersion
    /\ UNCHANGED <<install, staging, snapshot, ages, pc, job, failures, deaths, before,
                   afterUpdate>>

Update ==
    \/ ClearStaging \/ Extract \/ ClearSnapshot \/ CreateSnapshot \/ SnapshotDone
    \/ StopServices \/ ApplyDone \/ StartServices \/ WriteReport
    \/ RestoreDone \/ UnlinkEngine
    \/ \E f \in Files : CopyToSnapshot(f) \/ CopyToInstall(f) \/ RestoreFile(f)

Next ==
    \/ \E package \in Packages, development \in BOOLEAN :
          Apply(package, development)
    \/ Rollback
    \/ Update
    \/ Die
    \/ \E s \in Registered : ServiceStops(s)
    \/ RestartApp
    \/ Reboot

Spec == Init /\ [][Next]_vars

-----------------------------------------------------------------------------
(* Properties.                                                              *)

\* The shape of the state; the snapshot directories are those in ages, once.
TypeOK ==
    /\ install \in [Files -> Cells]
    /\ staging \in [Ids -> [Files -> Cells]]
    /\ snapshot \in [Versions -> [Covered -> Cells] \cup {NoSnapshot}]
    /\ ages \in Seq(Versions)
    /\ \A v \in Versions : snapshot[v] # NoSnapshot <=>
                            \E i \in 1..Len(ages) : ages[i] = v
    /\ \A i, j \in 1..Len(ages) : ages[i] = ages[j] => i = j
    /\ services \subseteq Registered
    /\ stopping \subseteq services
    /\ appVersion \in Versions
    /\ pc \in PCs
    /\ job \in Jobs
    /\ failures \in 0..MaxFailures
    /\ deaths \in 0..MaxDeaths
    /\ before \in [Files -> Cells]
    /\ afterUpdate \in BOOLEAN

\* While an update runs there is always a way back: until the snapshot is
\* complete the installation is as it was, and from the first replaced file
\* on the snapshot has every file it covers as it was.
RecoveryPoint ==
    job.op = "apply" /\ pc # "idle" =>
      IF pc \in {"unstage", "stage", "clear", "create", "snapshot", "stop"}
      THEN install = before
      ELSE \A f \in Covered : snapshot[job.key][f] = before[f]

\* Only what is signed is copied: from the first file on, staging holds what this
\* package's archive has for files its signer listed, and nothing that an earlier
\* attempt left there; a file the archive has once is as it was listed
\* (verify_package, apply_package).  Of a file that is there twice the first entry
\* is compared and the last one is staged.
OnlySignedIsCopied ==
    job.op = "apply" /\ pc = "apply" =>
      /\ job.target.signer = job.target.key
      /\ \A f \in Contained(staging[job.target.id]) :
           /\ job.target.listed[f] # Absent
           /\ \E i \in Entries(job.target, f) :
                /\ staging[job.target.id][f] = job.target.entries[f][i].content
                /\ Entries(job.target, f) = {i} =>
                     staging[job.target.id][f] = job.target.listed[f]

\* What the updater answers is so: "installed", and "unlogged" too, which is a
\* failure by its exit code, every file of the package is in place; "restored"
\* (rollback_ok in the report), every file the snapshot had is back;
\* "rolled_back", every file equals the snapshot's; "refused" and "aborted",
\* nothing was touched.
AnswerTellsTruth ==
    pc = "idle" =>
      /\ job.outcome \in {"installed", "unlogged"} =>
           \A f \in Contained(Payload(job.target)) :
             install[f] = Payload(job.target)[f]
      /\ job.outcome = "restored" =>
           \A f \in Covered : before[f] # Absent
                               => install[f] = before[f]
      /\ job.outcome = "rolled_back" =>
           \A f \in Covered : snapshot[job.key][f] # Absent
                               => install[f] = snapshot[job.key][f]
      /\ job.outcome \in {"refused", "aborted"} => install = before

-----------------------------------------------------------------------------
(* Statements of the repository that the code does not meet.                *)

\* update_screen.dart: "Rollback previous version"; right after an update it
\* brings back an older version than the update installed.
RollbackGoesBack ==
    pc = "idle" /\ job.outcome = "rolled_back" /\ afterUpdate
      => Newer(before[App], install[App])
==============================================================================
