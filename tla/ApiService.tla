----------------------------- MODULE ApiService -----------------------------
(***************************************************************************)
(* The API server: requests handled concurrently, each a list of SQL       *)
(* statements that run one at a time on a connection of the pool.          *)
(*                                                                         *)
(* Code: services/api/src main.rs (main, run_migrations,                   *)
(* seed_dev_project), auth.rs, routes.rs, error.rs; and the constraints of *)
(* infra/migrations/0001_init.sql.                                         *)
(*                                                                         *)
(* A statement commits by itself, but those of create_project's            *)
(* transaction.  It may fail before it did anything, or its answer may be  *)
(* lost after; the server may stop anywhere and is started again.  A row's *)
(* id is the number of the call that made it ("by").                       *)
(***************************************************************************)
EXTENDS Integers, Sequences, FiniteSets

CONSTANTS
    Requests,     \* requests the clients may send, see Request
    Databases,    \* databases the server may find at its first start
    DevSlug,      \* slug of the development project
    PoolSizes,    \* how many connections the pool may have
    MaxCalls, MaxFailures, MaxCrashes   \* bounds

Nobody == -1       \* no row has this id
Seed == 0          \* id of the development project; also its key
Calls == 1..MaxCalls

\* A request: its bearer key, a body that is "valid", "invalid" or names
\* "another" project than the key's, and what it is about.
Request(op, key, body) ==
    [op |-> op, key |-> key, body |-> body, slug |-> "", external |-> "",
     session |-> Nobody, device |-> Nobody, count |-> 0]
RequestType ==
    [op : {"health", "create_project", "register_device", "create_session",
           "heartbeat", "ingest_events", "end_session", "device_risk",
           "create_ban", "report_detection", "quarantine", "audit_logs"},
     key : Int, body : {"valid", "invalid", "another"}, slug : STRING,
     external : STRING, session : Int, device : Int, count : Nat]

\* The tables, and what an audit row tells of: the table of the row it is about.
AuditedTable == [create_project |-> "projects", create_session |-> "runs",
                 create_ban |-> "bans", report_detection |-> "detections"]
Rows == [
    projects   |-> [by : Int, slug : STRING],
    keys       |-> [by : Int, project : Int],
    devices    |-> [by : Int, project : Int, external : STRING],
    runs       |-> [by : Int, project : Int, device : Int, ended : BOOLEAN,
                    beaten : BOOLEAN],
    events     |-> [by : Int, project : Int, session : Int, left : Nat],
    detections |-> [by : Int, project : Int],
    bans       |-> [by : Int, project : Int, device : Int],
    audits     |-> [by : Int, project : Int, session : Int,
                    action : DOMAIN AuditedTable \cup {"end_session"}]]
Tables == DOMAIN Rows

IdsIn(d, table) == {row.by : row \in d[table]}
Truthful(audit, d) ==
    IF audit.action = "end_session"
    THEN \E r \in d.runs : r.by = audit.session /\ r.ended
    ELSE audit.by \in IdsIn(d, AuditedTable[audit.action])

\* The development project of a start that was cut short.
Unkeyed(p, d) == p.slug = DevSlug /\ Seed \notin IdsIn(d, "keys")

\* What holds of the database at any time, whatever the server that wrote it
\* was stopped in.
Coherent(d) ==
    /\ d = [t \in Tables |-> d[t]]
    /\ \A t \in Tables : d[t] \subseteq Rows[t]
    /\ \A p \in d.projects :
         Unkeyed(p, d) \/ \E k \in d.keys : k.project = p.by
    /\ Seed \in IdsIn(d, "keys") => \E p \in d.projects : p.slug = DevSlug
    /\ \A x, y \in d.devices :
         x.project = y.project /\ x.external = y.external => x = y
    /\ \A a \in d.audits : Truthful(a, d)

ASSUME ApiAssumption ==
    /\ PoolSizes \subseteq Nat \ {0} /\ MaxCalls \in Nat
    /\ MaxFailures \in Nat /\ MaxCrashes \in Nat
    /\ Requests \subseteq RequestType /\ DevSlug \in STRING
    /\ \A d \in Databases :
         Coherent(d) /\ \A t \in Tables : IdsIn(d, t) \cap Calls = {}

EmptyDatabase ==
    [projects |-> {}, keys |-> {}, devices |-> {}, runs |-> {}, events |-> {},
     detections |-> {}, bans |-> {}, audits |-> {}]

VARIABLES
    up,        \* "down", "migrate", "seed_project", "seed_key", "serving"
    pool,      \* fixed: connections of the pool
    db,        \* the committed rows
    calls,     \* calls[n]: the n-th call, or NoCall
    failures, crashes

vars == <<up, pool, db, calls, failures, crashes>>

NoCall == [answer |-> "unused"]
NoTx == [open |-> FALSE]
Open == {n \in Calls : calls[n].answer = "open"}

Init ==
    /\ up = "down"
    /\ pool \in PoolSizes
    /\ db \in Databases
    /\ calls = [n \in Calls |-> NoCall]
    /\ failures = 0 /\ crashes = 0

-----------------------------------------------------------------------------
(* The start: every statement is one that does nothing the second time. *)

Boot(from, to) == up = from /\ up' = to /\ UNCHANGED <<pool, calls, failures, crashes>>

StartServer == Boot("down", "migrate") /\ UNCHANGED db

\* run_migrations: all "if not exists".
Migrate == Boot("migrate", "seed_project") /\ UNCHANGED db

OfSlug(slug) == {p \in db.projects : p.slug = slug}

\* Mutant: a project that is there counts as seeded.
SeedProjectOnce ==
    IF OfSlug(DevSlug) # {} THEN Boot("seed_project", "serving") /\ UNCHANGED db
    ELSE /\ Boot("seed_project", "seed_key")
         /\ db' = [db EXCEPT !.projects = @ \cup {[by |-> Seed, slug |-> DevSlug]}]

SeedProject ==
    /\ Boot("seed_project", "seed_key")
    /\ db' = IF OfSlug(DevSlug) # {} THEN db
             ELSE [db EXCEPT !.projects = @ \cup {[by |-> Seed, slug |-> DevSlug]}]

SeedKey ==
    /\ Boot("seed_key", "serving")
    /\ db' = IF \E k \in db.keys : k.by = Seed THEN db
             ELSE [db EXCEPT !.keys = @ \cup
                     {[by |-> Seed, project |-> p.by] : p \in OfSlug(DevSlug)}]

-----------------------------------------------------------------------------
(* The handlers, as the statements they run in order.  "auth" includes the  *)
(* checks of the request that come before the first other statement.        *)

Health == <<"read">>
\* Mutant: the audit row is written before the commit.
CreateProjectAuditedFirst == <<"begin", "projects", "keys", "audits", "commit">>
CreateProject == <<"begin", "projects", "keys", "commit", "audits">>
RegisterDevice == <<"auth", "device">>
CreateSession == <<"auth", "runs", "audits">>
Heartbeat == <<"auth", "owner", "events", "touch">>
IngestEvents(count) == <<"auth", "owner">> \o [i \in 1..count |-> "events"]
\* Mutant: the audit row comes first.
EndSessionAuditedFirst == <<"auth", "owner", "audits", "end">>
EndSession == <<"auth", "owner", "end", "audits">>
DeviceRisk == <<"auth", "read">>
CreateBan == <<"auth", "bans", "audits">>
ReportDetection == <<"auth", "detections", "audits">>
UploadQuarantineMetadata == <<"auth", "events">>
AuditLogs == <<"auth", "read">>

Plan(request) ==
    CASE request.op = "health"           -> Health
      [] request.op = "create_project"   -> CreateProject
      [] request.op = "register_device"  -> RegisterDevice
      [] request.op = "create_session"   -> CreateSession
      [] request.op = "heartbeat"        -> Heartbeat
      [] request.op = "ingest_events"    -> IngestEvents(request.count)
      [] request.op = "end_session"      -> EndSession
      [] request.op = "device_risk"      -> DeviceRisk
      [] request.op = "create_ban"       -> CreateBan
      [] request.op = "report_detection" -> ReportDetection
      [] request.op = "quarantine"       -> UploadQuarantineMetadata
      [] request.op = "audit_logs"       -> AuditLogs

\* What the handler answers of the body, once the key is known.
Refusal(request) ==
    CASE request.body = "invalid" -> "bad_request"
      [] request.body = "another" ->
           IF request.op = "register_device" THEN "none" ELSE "unauthorized"
      [] request.body = "valid" -> "none"

-----------------------------------------------------------------------------
(* One statement: the database and the call after it, or a refusal. *)

Goes(database, call) == [db |-> database, call |-> call, refusal |-> "none"]
Refuses(call, refusal) == [db |-> db, call |-> call, refusal |-> refusal]

\* FromRequestParts of ApiAuth
Authenticate(call) ==
    LET rows == {k \in db.keys : k.by = call.request.key}
        key  == CHOOSE k \in rows : TRUE
    IN  IF rows = {} THEN Refuses(call, "unauthorized")
        ELSE IF Refusal(call.request) # "none"
        THEN Refuses(call, Refusal(call.request))
        ELSE Goes(db, [call EXCEPT !.project = key.project])

\* session_project
Owner(call) ==
    LET rows == {r \in db.runs : r.by = call.request.session}
    IN  IF rows = {} THEN Refuses(call, "not_found")
        ELSE IF \A r \in rows : r.project = call.project THEN Goes(db, call)
        ELSE Refuses(call, "unauthorized")

\* The row an insert makes; a handler's events are told apart by their place.
Row(n, table) ==
    LET call == calls[n]
        r    == call.request
        own  == IF r.op = "create_project" THEN n ELSE call.project
    IN  CASE table = "projects"   -> [by |-> n, slug |-> r.slug]
          [] table = "keys"       -> [by |-> n, project |-> n]
          [] table = "runs"       -> [by |-> n, project |-> own, device |-> r.device,
                                      ended |-> FALSE, beaten |-> FALSE]
          [] table = "events"     -> [by |-> n, project |-> own,
                                      session |-> r.session, left |-> Len(call.plan)]
          [] table = "detections" -> [by |-> n, project |-> own]
          [] table = "bans"       -> [by |-> n, project |-> own, device |-> r.device]
          [] table = "audits"     -> [by |-> n, project |-> own, action |-> r.op,
                                      session |-> r.session]

\* The constraints an insert can break: a slug is unique, a device exists.
Breaks(table, row) ==
    \/ table = "projects" /\ OfSlug(row.slug) # {}
    \/ /\ table \in {"runs", "bans"} /\ (table = "bans" \/ row.device # Nobody)
       /\ \A d \in db.devices : d.by # row.device

Inserted(database, table, row) == [database EXCEPT ![table] = @ \cup {row}]

Insert(n, table) ==
    LET call == calls[n]
        row  == Row(n, table)
    IN  IF Breaks(table, row) THEN Refuses(call, "failed")
        ELSE IF call.tx.open /\ table # "audits"
        THEN Goes(db, [call EXCEPT !.tx.rows = @ \cup {<<table, row>>}])
        ELSE Goes(Inserted(db, table, row), call)

\* commit makes the rows of the transaction visible.
Commit(call) ==
    LET Of(table) == {x[2] : x \in {y \in call.tx.rows : y[1] = table}} IN
    Goes([db EXCEPT !.projects = @ \cup Of("projects"), !.keys = @ \cup Of("keys")],
         [call EXCEPT !.tx = NoTx])

\* Mutant: the conflicting row gets the new id.
UpsertRenumbers(n) ==
    LET call == calls[n]
        same == {d \in db.devices : /\ d.project = call.project
                                    /\ d.external = call.request.external}
        row  == [by |-> n, project |-> call.project,
                 external |-> call.request.external]
    IN  Goes([db EXCEPT !.devices = (@ \ same) \cup {row}],
             [call EXCEPT !.device = row.by])

\* insert ... on conflict do update ... returning id
Upsert(n) ==
    LET call == calls[n]
        same == {d \in db.devices : /\ d.project = call.project
                                    /\ d.external = call.request.external}
        row  == IF same # {} THEN CHOOSE d \in same : TRUE
                ELSE [by |-> n, project |-> call.project,
                      external |-> call.request.external]
    IN  Goes(Inserted(db, "devices", row), [call EXCEPT !.device = row.by])

UpdateRun(call, field) ==
    Goes([db EXCEPT !.runs =
            {IF r.by = call.request.session THEN [r EXCEPT ![field] = TRUE] ELSE r :
               r \in @}], call)

Effect(n) ==
    LET call == calls[n]
        s    == Head(call.plan)
    IN  CASE s = "auth"   -> Authenticate(call)
          [] s = "owner"  -> Owner(call)
          [] s = "read"   -> Goes(db, call)
          [] s = "begin"  -> Goes(db, [call EXCEPT !.tx = [open |-> TRUE, rows |-> {}]])
          [] s = "commit" -> Commit(call)
          [] s = "device" -> Upsert(n)
          [] s = "touch"  -> UpdateRun(call, "beaten")
          [] s = "end"    -> UpdateRun(call, "ended")
          [] OTHER        -> Insert(n, s)

-----------------------------------------------------------------------------
(* The server at work *)

Accept(n) ==
    /\ up = "serving"
    /\ calls[n] = NoCall /\ \A m \in Calls : m < n => calls[m] # NoCall
    /\ \E r \in Requests :
         LET badName == r.op = "create_project" /\ r.body = "invalid" IN
         calls' = [calls EXCEPT ![n] =
                     [request |-> r, project |-> Nobody, device |-> Nobody,
                      plan   |-> IF badName THEN <<>> ELSE Plan(r), tx |-> NoTx,
                      answer |-> IF badName THEN "bad_request" ELSE "open"]]
    /\ UNCHANGED <<up, pool, db, failures, crashes>>

\* A transaction keeps its connection; every other statement takes one for
\* itself.
Holders == {n \in Open : calls[n].tx.open}
OnPool(s) == s \notin {"projects", "keys", "commit"}
Waits(n) == OnPool(Head(calls[n].plan)) /\ Cardinality(Holders) >= pool

\* A slug that another transaction has inserted is waited for.
Locked(n) ==
    /\ Head(calls[n].plan) = "projects"
    /\ \E m \in Holders \ {n} :
         \E x \in calls[m].tx.rows : x[1] = "projects"
                                     /\ x[2].slug = calls[n].request.slug

Ready(n) == up = "serving" /\ n \in Open /\ ~Waits(n) /\ ~Locked(n)

Answered(n, call, answer) ==
    calls' = [calls EXCEPT ![n] = [call EXCEPT !.plan = <<>>, !.tx = NoTx,
                                              !.answer = answer]]
Continued(n, call) ==
    IF Len(call.plan) = 1 THEN Answered(n, call, "ok")
    ELSE calls' = [calls EXCEPT ![n] = [call EXCEPT !.plan = Tail(@)]]

Execute(n) ==
    /\ Ready(n)
    /\ LET e == Effect(n) IN
         /\ db' = e.db
         /\ IF e.refusal = "none" THEN Continued(n, e.call)
                                  ELSE Answered(n, e.call, e.refusal)
    /\ UNCHANGED <<up, pool, failures, crashes>>

\* Mutant: an event that cannot be stored is skipped.
FailSkippingEvents(n) ==
    /\ Ready(n) /\ failures < MaxFailures
    /\ failures' = failures + 1
    /\ db' = db
    /\ IF Head(calls[n].plan) = "events" THEN Continued(n, calls[n])
       ELSE Answered(n, calls[n], "failed")
    /\ UNCHANGED <<up, pool, crashes>>

\* A statement fails, or its answer is lost; any error of authentication is
\* answered as a wrong key.
Fail(n) ==
    /\ Ready(n) /\ failures < MaxFailures
    /\ failures' = failures + 1
    /\ db' \in {db, Effect(n).db}
    /\ Answered(n, calls[n],
                IF Head(calls[n].plan) = "auth" THEN "unauthorized" ELSE "failed")
    /\ UNCHANGED <<up, pool, crashes>>

\* No connection came free in time.
PoolTimeout(n) ==
    /\ up = "serving" /\ n \in Open /\ Waits(n)
    /\ failures < MaxFailures /\ failures' = failures + 1
    /\ Answered(n, calls[n],
                IF Head(calls[n].plan) = "auth" THEN "unauthorized" ELSE "failed")
    /\ UNCHANGED <<up, pool, db, crashes>>

Crash ==
    /\ up # "down" /\ crashes < MaxCrashes
    /\ crashes' = crashes + 1
    /\ up' = "down"
    /\ calls' = [n \in Calls |-> IF n \in Open
                                 THEN [calls[n] EXCEPT !.plan = <<>>, !.tx = NoTx,
                                                       !.answer = "lost"]
                                 ELSE calls[n]]
    /\ UNCHANGED <<pool, db, failures>>

Serve == \E n \in Calls : Execute(n)
Start == StartServer \/ Migrate \/ SeedProject \/ SeedKey
Next ==
    \/ Start \/ Serve \/ Crash
    \/ \E n \in Calls : Accept(n) \/ Fail(n) \/ PoolTimeout(n)

Spec == Init /\ [][Next]_vars

-----------------------------------------------------------------------------
Statements ==
    Tables \cup {"auth", "owner", "read", "begin", "commit", "device", "touch", "end"}
Transaction ==
    [open : {TRUE},
     rows : SUBSET (({"projects"} \X Rows.projects) \cup ({"keys"} \X Rows.keys))]
Call == [request : Requests, project : Int, device : Int, plan : Seq(Statements),
         tx : {NoTx} \cup Transaction,
         answer : {"open", "ok", "bad_request", "unauthorized", "not_found",
                   "failed", "lost"}]

TypeOK ==
    /\ up \in {"down", "migrate", "seed_project", "seed_key", "serving"}
    /\ pool \in PoolSizes
    /\ db = [t \in Tables |-> db[t]] /\ \A t \in Tables : db[t] \subseteq Rows[t]
    /\ calls \in [Calls -> {NoCall} \cup Call]
    /\ failures \in 0..MaxFailures /\ crashes \in 0..MaxCrashes

\* While the server serves every project has a key that opens it, after whatever
\* start was cut short and whatever create_project failed (seed_dev_project,
\* create_project's transaction).
EveryProjectHasKey ==
    up = "serving" =>
        \A p \in db.projects : \E k \in db.keys : k.project = p.by

\* An audit row tells of something that is in the database, whatever failed and
\* in whatever order calls ran (audit in create_project, create_session,
\* end_session, create_ban, report_detection).
AuditTellsTruth == \A a \in db.audits : Truthful(a, db)

By(n, table) == {row \in db[table] : row.by = n}

\* A call answered with success has stored every row it stands for and its audit
\* row, as many events as it says, and a call that was refused has stored none
\* (all handlers).
AnswerTellsTruth ==
    \A n \in Calls :
      LET call == calls[n]
          Wanted(table) == Cardinality({i \in DOMAIN Plan(call.request) :
                                          Plan(call.request)[i] = table})
      IN /\ call.answer = "ok" =>
              /\ \A table \in DOMAIN db \ {"devices"} :
                   Cardinality(By(n, table)) = Wanted(table)
              /\ call.request.op = "end_session" =>
                   \E r \in db.runs : r.by = call.request.session /\ r.ended
         /\ call.answer \in {"bad_request", "unauthorized", "not_found"} =>
              \A table \in DOMAIN db : By(n, table) = {}

\* Registering a device again, at once or after an answer that was lost, gives
\* the id every other successful registration gave, and it stays valid
\* (register_device).
OneDevicePerName ==
    \A n, m \in Calls :
      calls[n].answer = "ok" /\ calls[n].request.op = "register_device" =>
        /\ \E d \in db.devices : d.by = calls[n].device
        /\ /\ calls[m].answer = "ok" /\ calls[m].request.op = "register_device"
           /\ calls[m].project = calls[n].project
           /\ calls[m].request.external = calls[n].request.external
           => calls[m].device = calls[n].device

\* The pool does not starve itself: whoever keeps a connection never waits for
\* a second one, so that connections come free (create_project, PgPoolOptions).
PoolMakesProgress ==
    Cardinality(Holders) >= pool => \E n \in Holders : Ready(n)

=============================================================================
