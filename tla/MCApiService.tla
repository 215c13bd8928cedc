---------------------------- MODULE MCApiService ----------------------------
(* Two calls at once, on a new database and on one with a second project. *)
EXTENDS ApiService

\* What earlier calls left: a second project (101) with a key and a session, a
\* device and a session of the development project.
Used ==
    [EmptyDatabase EXCEPT
       !.projects = {[by |-> Seed, slug |-> DevSlug], [by |-> 101, slug |-> "shop"]},
       !.keys     = {[by |-> Seed, project |-> Seed], [by |-> 101, project |-> 101]},
       !.devices  = {[by |-> 102, project |-> Seed, external |-> "pc"]},
       !.runs     = {[by |-> 103, project |-> Seed, device |-> 102,
                      ended |-> FALSE, beaten |-> FALSE],
                     [by |-> 104, project |-> 101, device |-> Nobody,
                      ended |-> FALSE, beaten |-> FALSE]}]
MCDatabases == {EmptyDatabase, Used}

OnSession(op, key, session) == [Request(op, key, "valid") EXCEPT !.session = session]
MCRequests ==
    {Request("health", Nobody, "valid"), Request("audit_logs", Seed, "valid"),
     Request("device_risk", Nobody, "valid"), Request("quarantine", 101, "valid"),
     Request("report_detection", Seed, "valid"),
     Request("report_detection", 101, "another")}
    \cup {[Request("create_project", Nobody, "valid") EXCEPT !.slug = s] :
            s \in {DevSlug, "shop", "new"}}
    \cup {[Request("create_project", Nobody, "invalid") EXCEPT !.slug = "new"]}
    \cup {[Request("register_device", Seed, b) EXCEPT !.external = e] :
            b \in {"valid", "another"}, e \in {"pc", "phone"}}
    \cup {[Request("create_session", Seed, "valid") EXCEPT !.device = d] :
            d \in {Nobody, 102, 999}}
    \cup {[Request("create_ban", Seed, b) EXCEPT !.device = 102] :
            b \in {"valid", "invalid"}}
    \cup {OnSession(op, k, s) : op \in {"heartbeat", "end_session"},
                                k \in {Seed, 101}, s \in {103, 1}}
    \cup {[OnSession("ingest_events", Seed, s) EXCEPT !.count = 2] : s \in {103, 104}}
=============================================================================
