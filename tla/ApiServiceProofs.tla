-------------------------- MODULE ApiServiceProofs --------------------------
(***************************************************************************)
(* What is proved of the API server, for any number of calls, connections, *)
(* failures and restarts, and any database it is started on.               *)
(***************************************************************************)
EXTENDS ApiService, FiniteSetTheorems, TLAPS

-----------------------------------------------------------------------------
(* What a call knows of itself: how far its plan is, and what it has made. *)

P(c) == Plan(c.request)
K(c) == Len(P(c)) - Len(c.plan)           \* statements executed so far
Under(c) == c.answer \in {"open", "ok"}
Refused(c) == c.answer \in {"bad_request", "unauthorized", "not_found"}

Of(d, n, t) == {row \in d[t] : row.by = n}
InTx(c, t) == IF c.tx.open THEN {x[2] : x \in {y \in c.tx.rows : y[1] = t}} ELSE {}
Made(n, c, d, t) == Of(d, n, t) \cup InTx(c, t)
Executed(c, t) == {i \in 1..K(c) : P(c)[i] = t}

\* An open call has the rest of its plan before it; any other has none.
PlanInv(c) ==
    /\ c.answer = "open" =>
         /\ Len(c.plan) \in 1..Len(P(c))
         /\ \A i \in 1..Len(c.plan) : c.plan[i] = P(c)[K(c) + i]
    /\ c.answer # "open" => c.plan = <<>> /\ c.tx = NoTx

\* It has made one row for each insert it executed; its events differ.
CountInv(n, c, d) ==
    /\ Under(c) => \A t \in Tables \ {"devices"} :
         /\ IsFiniteSet(Made(n, c, d, t))
         /\ Cardinality(Made(n, c, d, t)) = Cardinality(Executed(c, t))
    /\ c.answer = "open" =>
         \A row \in Of(d, n, "events") : row.left > Len(c.plan)

\* A refused call has made nothing, an open one no device.
NothingInv(n, c, d) ==
    /\ Refused(c) => \A t \in Tables : Of(d, n, t) = {}
    /\ c.answer = "open" => Of(d, n, "devices") = {}

\* A transaction is open from the second statement of create_project to its
\* commit, and holds rows of its own call only.
TxInv(n, c) ==
    c.answer = "open" =>
      /\ c.tx.open <=> c.request.op = "create_project" /\ K(c) \in 1..3
      /\ c.tx.open =>
           /\ \A x \in c.tx.rows : x[2].by = n /\ (x[1] = "projects" => K(c) >= 2)
           /\ K(c) = 3 => <<"keys", [by |-> n, project |-> n]>> \in c.tx.rows

\* The session end_session is about is there, and ended after the update.
SessionInv(c, d) ==
    Under(c) /\ c.request.op = "end_session" =>
      /\ K(c) >= 2 => \E r \in d.runs : r.by = c.request.session
      /\ K(c) >= 3 => \E r \in d.runs : r.by = c.request.session /\ r.ended

\* The device that was answered is the one of that name.
DeviceInv(c, d) ==
    c.answer = "ok" /\ c.request.op = "register_device" =>
      \E x \in d.devices : /\ x.by = c.device /\ x.project = c.project
                           /\ x.external = c.request.external

Known(n, c, d) ==
    /\ PlanInv(c)
    /\ CountInv(n, c, d)
    /\ NothingInv(n, c, d)
    /\ TxInv(n, c)
    /\ SessionInv(c, d)
    /\ DeviceInv(c, d)
CallInv(n, c, d) ==
    IF c = NoCall THEN \A t \in Tables : Of(d, n, t) = {} ELSE Known(n, c, d)

Keyed(d) == \A p \in d.projects : \E k \in d.keys : k.project = p.by

IInv ==
    /\ TypeOK
    /\ Coherent(db)
    /\ up = "serving" => Keyed(db)
    /\ up # "serving" => Open = {}
    /\ \A n \in Calls : CallInv(n, calls[n], db)

-----------------------------------------------------------------------------
(* The plans *)

\* Every handler's statements in order: authentication comes first, the owner
\* next, every insert but that of an event once, and the audit row last (routes.rs).
LEMMA PlanFacts ==
  ASSUME NEW r \in RequestType
  PROVE  LET p == Plan(r) IN
         /\ p \in Seq(Statements) /\ Len(p) >= 1
         /\ \A i \in 1..Len(p) :
              /\ p[i] # "devices"
              /\ p[i] = "auth" => i = 1
              /\ p[i] = "owner" => i = 2 /\ p[1] = "auth"
              /\ p[i] = "device" => i = 2 /\ Len(p) = 2 /\ r.op = "register_device"
              /\ p[i] = "end" => i = 3 /\ r.op = "end_session"
              /\ p[i] = "audits" =>
                   /\ i = Len(p)
                   /\ r.op \in DOMAIN AuditedTable \cup {"end_session"}
                   /\ r.op = "end_session" => i = 4
                   /\ r.op = "create_project" => i = 5
                   /\ r.op \in DOMAIN AuditedTable =>
                        \E j \in 1..(i - 1) : p[j] = AuditedTable[r.op]
              /\ p[i] \in {"begin", "projects", "keys", "commit"} =>
                   r.op = "create_project"
         /\ \A i, j \in 1..Len(p) :
              p[i] = p[j] /\ p[i] \in Tables \ {"events"} => i = j
<1> DEFINE p == Plan(r)
<1> USE DEF Statements, Tables, Rows, AuditedTable, RequestType
<1>1. CASE r.op = "ingest_events"
  <2>1. p = IngestEvents(r.count) /\ r.count \in Nat
    BY <1>1 DEF Plan
  <2>2. p = [i \in 1..(r.count + 2) |->
               IF i = 1 THEN "auth" ELSE IF i = 2 THEN "owner" ELSE "events"]
    BY <2>1 DEF IngestEvents
  <2>3. /\ p \in Seq(Statements) /\ Len(p) = r.count + 2
        /\ \A i \in 1..Len(p) :
             p[i] = IF i = 1 THEN "auth" ELSE IF i = 2 THEN "owner" ELSE "events"
    BY <2>1, <2>2
  <2>. HIDE DEF p
  <2>4. QED
    BY <2>3, <2>1, <1>1 DEF p
<1>2. CASE r.op = "create_project"
  BY <1>2 DEF Plan, CreateProject
<1>3. CASE r.op = "register_device"
  BY <1>3 DEF Plan, RegisterDevice
<1>4. CASE r.op = "create_session"
  BY <1>4 DEF Plan, CreateSession
<1>5. CASE r.op = "heartbeat"
  BY <1>5 DEF Plan, Heartbeat
<1>6. CASE r.op = "end_session"
  BY <1>6 DEF Plan, EndSession
<1>7. CASE r.op = "create_ban"
  BY <1>7 DEF Plan, CreateBan
<1>8. CASE r.op = "report_detection"
  BY <1>8 DEF Plan, ReportDetection
<1>9. CASE r.op = "quarantine"
  BY <1>9 DEF Plan, UploadQuarantineMetadata
<1>10. CASE r.op = "health"
  BY <1>10 DEF Plan, Health
<1>11. CASE r.op = "device_risk"
  BY <1>11 DEF Plan, DeviceRisk
<1>12. CASE r.op = "audit_logs"
  BY <1>12 DEF Plan, AuditLogs
<1>13. QED
  BY <1>1, <1>2, <1>3, <1>4, <1>5, <1>6, <1>7, <1>8, <1>9, <1>10, <1>11, <1>12

-----------------------------------------------------------------------------
(* What a statement does to the database. *)

Typed(d) ==
    /\ d = [t \in Tables |-> d[t]]
    /\ \A t \in Tables : d[t] \subseteq Rows[t]

Marked(rows, session, field) ==
    {IF r.by = session THEN [r EXCEPT ![field] = TRUE] ELSE r : r \in rows}

\* Writer w adds rows of its own and takes none away; it may mark a session.
Adds(d, e, w, t) == d[t] \subseteq e[t] /\ \A row \in e[t] \ d[t] : row.by = w
Grows(d, e, w) ==
    /\ \A t \in Tables \ {"runs"} : Adds(d, e, w, t)
    /\ \/ Adds(d, e, w, "runs")
       \/ \E s \in Int, f \in {"ended", "beaten"} : e.runs = Marked(d.runs, s, f)

\* A mark leaves each session where it is and ended if it was.
LEMMA MarkedRow ==
  ASSUME NEW r \in Rows.runs, NEW s \in Int, NEW f \in {"ended", "beaten"},
         NEW q, q = IF r.by = s THEN [r EXCEPT ![f] = TRUE] ELSE r
  PROVE  q \in Rows.runs /\ q.by = r.by /\ (r.ended => q.ended)
         /\ (f = "ended" /\ r.by = s => q.ended)
BY DEF Rows

\* No session is lost or resumed.
LEMMA RunsStay ==
  ASSUME NEW d, NEW e, NEW w, Typed(d), Grows(d, e, w), NEW r \in d.runs
  PROVE  \E q \in e.runs : q.by = r.by /\ (r.ended => q.ended)
<1>1. r \in Rows.runs
  BY DEF Typed, Tables, Rows
<1>2. CASE Adds(d, e, w, "runs")
  BY <1>2 DEF Adds
<1>3. CASE \E s \in Int, f \in {"ended", "beaten"} : e.runs = Marked(d.runs, s, f)
  <2>1. PICK s \in Int, f \in {"ended", "beaten"} : e.runs = Marked(d.runs, s, f)
    BY <1>3
  <2>2. PICK q : q = IF r.by = s THEN [r EXCEPT ![f] = TRUE] ELSE r
    OBVIOUS
  <2>3. q \in e.runs
    BY <2>1, <2>2 DEF Marked
  <2>4. q.by = r.by /\ (r.ended => q.ended)
    BY <1>1, <2>2, MarkedRow
  <2>5. QED
    BY <2>3, <2>4
<1>4. QED
  BY <1>2, <1>3 DEF Grows

\* An audit row that was true stays true.
LEMMA TruthStays ==
  ASSUME NEW d, NEW e, NEW w, Typed(d), Grows(d, e, w), NEW a \in Rows.audits,
         Truthful(a, d)
  PROVE  Truthful(a, e)
<1>1. CASE a.action = "end_session"
  <2>1. PICK r \in d.runs : r.by = a.session /\ r.ended
    BY <1>1 DEF Truthful
  <2>2. QED
    BY <1>1, <2>1, RunsStay DEF Truthful
<1>2. CASE a.action # "end_session"
  <2> DEFINE t == AuditedTable[a.action]
  <2>1. t \in Tables
    BY <1>2 DEF AuditedTable, Tables, Rows
  <2> HIDE DEF t
  <2>2. PICK row \in d[t] : row.by = a.by
    BY <1>2 DEF Truthful, IdsIn, t
  <2>3. \E q \in e[t] : q.by = a.by
    <3>1. CASE t = "runs"
      BY <2>2, <3>1, RunsStay
    <3>2. CASE t # "runs"
      BY <2>1, <2>2, <3>2 DEF Grows, Adds
    <3>3. QED
      BY <3>1, <3>2
  <2>4. QED
    BY <1>2, <2>3 DEF Truthful, IdsIn, t
<1>3. QED
  BY <1>1, <1>2

\* The rows of another call stay as they are, but for the marks of its session.
LEMMA OfOthers ==
  ASSUME NEW d, NEW e, NEW w, NEW n, n # w, Typed(d), Typed(e), Grows(d, e, w)
  PROVE  /\ \A t \in Tables \ {"runs"} : Of(e, n, t) = Of(d, n, t)
         /\ Of(d, n, "runs") = {} => Of(e, n, "runs") = {}
         /\ IsFiniteSet(Of(d, n, "runs")) /\ Cardinality(Of(d, n, "runs")) \in {0, 1} =>
              /\ IsFiniteSet(Of(e, n, "runs"))
              /\ Cardinality(Of(e, n, "runs")) = Cardinality(Of(d, n, "runs"))
<1>1. \A t \in Tables : Adds(d, e, w, t) => Of(e, n, t) = Of(d, n, t)
  BY DEF Adds, Of
<1>2. \A t \in Tables \ {"runs"} : Of(e, n, t) = Of(d, n, t)
  BY <1>1 DEF Grows
<1>3. CASE Adds(d, e, w, "runs")
  <2>1. Of(e, n, "runs") = Of(d, n, "runs")
    BY <1>1, <1>3 DEF Tables, Rows
  <2>2. QED
    BY <1>2, <2>1
<1>4. CASE \E s \in Int, f \in {"ended", "beaten"} : e.runs = Marked(d.runs, s, f)
  <2>1. PICK s \in Int, f \in {"ended", "beaten"} : e.runs = Marked(d.runs, s, f)
    BY <1>4
  <2> DEFINE Mark(r) == IF r.by = s THEN [r EXCEPT ![f] = TRUE] ELSE r
  <2>2. \A r \in d.runs : Mark(r).by = r.by /\ Mark(r) \in e.runs
    <3>1. TAKE r \in d.runs
    <3>2. r \in Rows.runs
      BY DEF Typed, Tables, Rows
    <3>3. QED
      BY <2>1, <3>2, MarkedRow DEF Marked
  <2>3. \A q \in e.runs : \E r \in d.runs : q = Mark(r)
    BY <2>1 DEF Marked
  <2> HIDE DEF Mark
  <2>4. Of(e, n, "runs") = {Mark(r) : r \in Of(d, n, "runs")}
    BY <2>2, <2>3 DEF Of
  <2>5. Of(d, n, "runs") = {} => Of(e, n, "runs") = {}
    BY <2>4
  <2>6. ASSUME IsFiniteSet(Of(d, n, "runs")), Cardinality(Of(d, n, "runs")) = 1
        PROVE  IsFiniteSet(Of(e, n, "runs")) /\ Cardinality(Of(e, n, "runs")) = 1
    <3>1. PICK r : Of(d, n, "runs") = {r}
      BY <2>6, FS_Singleton
    <3>2. Of(e, n, "runs") = {Mark(r)}
      BY <2>4, <3>1
    <3>3. QED
      BY <3>2, FS_Singleton
  <2>7. ASSUME IsFiniteSet(Of(d, n, "runs")), Cardinality(Of(d, n, "runs")) = 0
        PROVE  IsFiniteSet(Of(e, n, "runs")) /\ Cardinality(Of(e, n, "runs")) = 0
    BY <2>5, <2>7, FS_EmptySet
  <2>8. QED
    BY <1>2, <2>5, <2>6, <2>7
<1>5. QED
  BY <1>3, <1>4 DEF Grows

-----------------------------------------------------------------------------
(* A call that does not move keeps what it knows. *)

\* The plan of a call is that of its request; K counts its executed statements.
LEMMA CallFacts ==
  ASSUME NEW c \in Call
  PROVE  /\ c.request \in RequestType
         /\ P(c) \in Seq(Statements) /\ Len(P(c)) \in Nat \ {0}
         /\ c.plan \in Seq(Statements) /\ Len(c.plan) \in Nat
         /\ PlanInv(c) /\ Under(c) => K(c) \in 0..Len(P(c))
<1>1. c.request \in RequestType /\ c.plan \in Seq(Statements)
  BY ApiAssumption DEF Call
<1>2. P(c) \in Seq(Statements) /\ Len(P(c)) \in Nat /\ Len(P(c)) >= 1
  BY <1>1, PlanFacts DEF P
<1>3. Len(c.plan) \in Nat
  BY <1>1
<1>4. ASSUME PlanInv(c), Under(c) PROVE K(c) \in 0..Len(P(c))
  <2>1. Len(c.plan) \in 0..Len(P(c))
    BY <1>2, <1>4 DEF PlanInv, Under
  <2>2. QED
    BY <1>2, <2>1 DEF K
<1>5. QED
  BY <1>1, <1>2, <1>3, <1>4

\* Every insert but that of an event was executed once at most.
LEMMA ExecutedOnce ==
  ASSUME NEW c \in Call, K(c) \in 0..Len(P(c)), NEW t \in Tables
  PROVE  /\ IsFiniteSet(Executed(c, t)) /\ Cardinality(Executed(c, t)) \in Nat
         /\ t # "events" => Cardinality(Executed(c, t)) \in {0, 1}
<1>1. IsFiniteSet(1..K(c)) /\ Executed(c, t) \subseteq 1..K(c)
  BY FS_Interval DEF Executed
<1>2. IsFiniteSet(Executed(c, t)) /\ Cardinality(Executed(c, t)) \in Nat
  BY <1>1, FS_Subset, FS_CardinalityType
<1>3. ASSUME t # "events" PROVE Cardinality(Executed(c, t)) \in {0, 1}
  <2>1. \A i, j \in Executed(c, t) : i = j
    <3>1. \A i, j \in 1..Len(P(c)) :
            P(c)[i] = P(c)[j] /\ P(c)[i] \in Tables \ {"events"} => i = j
      BY CallFacts, PlanFacts DEF P
    <3>2. \A i \in Executed(c, t) : i \in 1..Len(P(c)) /\ P(c)[i] = t
      BY CallFacts DEF Executed
    <3>3. QED
      BY <1>3, <3>1, <3>2
  <2>2. CASE Executed(c, t) = {}
    BY <2>2, FS_EmptySet
  <2>3. CASE \E i : Executed(c, t) = {i}
    BY <2>3, FS_Singleton
  <2>4. QED
    BY <2>1, <2>2, <2>3
<1>4. QED
  BY <1>2, <1>3

\* A transaction holds rows of projects and keys only.
LEMMA InTxOnly ==
  ASSUME NEW c \in Call, NEW t \in Tables \ {"projects", "keys"}
  PROVE  InTx(c, t) = {}
<1>1. CASE c.tx = NoTx
  BY <1>1 DEF InTx, NoTx
<1>2. CASE c.tx \in Transaction
  <2>1. \A y \in c.tx.rows : y[1] \in {"projects", "keys"}
    BY <1>2 DEF Transaction
  <2>2. QED
    BY <2>1 DEF InTx
<1>3. QED
  BY <1>1, <1>2 DEF Call

\* Whatever another writer does, a call that does not move keeps what it knows.
LEMMA OthersKeep ==
  ASSUME NEW d, NEW e, NEW w, Typed(d), Typed(e), Grows(d, e, w),
         NEW n, n # w, NEW c \in {NoCall} \cup Call, CallInv(n, c, d)
  PROVE  CallInv(n, c, e)
<1>1. /\ \A t \in Tables \ {"runs"} : Of(e, n, t) = Of(d, n, t)
      /\ Of(d, n, "runs") = {} => Of(e, n, "runs") = {}
      /\ IsFiniteSet(Of(d, n, "runs")) /\ Cardinality(Of(d, n, "runs")) \in {0, 1} =>
           /\ IsFiniteSet(Of(e, n, "runs"))
           /\ Cardinality(Of(e, n, "runs")) = Cardinality(Of(d, n, "runs"))
  BY OfOthers
<1>2. CASE c = NoCall
  BY <1>1, <1>2 DEF CallInv
<1>3. CASE c # NoCall
  <2>1. c \in Call /\ Known(n, c, d)
    BY <1>3 DEF CallInv
  <2>2. CountInv(n, c, e)
    <3>1. ASSUME Under(c), NEW t \in Tables \ {"devices"}
          PROVE  /\ IsFiniteSet(Made(n, c, e, t))
                 /\ Cardinality(Made(n, c, e, t)) = Cardinality(Executed(c, t))
      <4>1. /\ IsFiniteSet(Made(n, c, d, t))
            /\ Cardinality(Made(n, c, d, t)) = Cardinality(Executed(c, t))
        BY <2>1, <3>1 DEF Known, CountInv
      <4>2. CASE t # "runs"
        BY <1>1, <4>1, <4>2 DEF Made
      <4>3. CASE t = "runs"
        <5>1. Made(n, c, d, t) = Of(d, n, "runs") /\ Made(n, c, e, t) = Of(e, n, "runs")
          BY <2>1, <4>3, InTxOnly DEF Made, Tables, Rows
        <5>2. Cardinality(Executed(c, t)) \in {0, 1}
          BY <2>1, <3>1, <4>3, CallFacts, ExecutedOnce DEF Known
        <5>3. QED
          BY <1>1, <4>1, <5>1, <5>2
      <4>4. QED
        BY <4>2, <4>3
    <3>2. Of(e, n, "events") = Of(d, n, "events")
      BY <1>1 DEF Tables, Rows
    <3>3. QED
      BY <2>1, <3>1, <3>2 DEF Known, CountInv
  <2>3. NothingInv(n, c, e)
    BY <1>1, <2>1 DEF Known, NothingInv, Tables, Rows
  <2>4. SessionInv(c, e)
    BY <2>1, RunsStay DEF Known, SessionInv
  <2>5. DeviceInv(c, e)
    <3>1. d.devices \subseteq e.devices
      BY DEF Grows, Adds, Tables, Rows
    <3>2. QED
      BY <2>1, <3>1 DEF Known, DeviceInv
  <2>6. QED
    BY <1>3, <2>1, <2>2, <2>3, <2>4, <2>5 DEF CallInv, Known
<1>4. QED
  BY <1>2, <1>3

-----------------------------------------------------------------------------
(* The statement at hand *)

\* An open call stands before statement K + 1 of its plan.
LEMMA Ahead ==
  ASSUME IInv, NEW n \in Open
  PROVE  LET c == calls[n]
             i == K(c) + 1
         IN  /\ n \in Calls /\ c \in Call /\ c.answer = "open" /\ up = "serving"
             /\ Known(n, c, db)
             /\ K(c) \in 0..(Len(P(c)) - 1) /\ i \in 1..Len(P(c))
             /\ Head(c.plan) = P(c)[i] /\ Head(c.plan) \in Statements
             /\ Len(c.plan) = Len(P(c)) - K(c)
<1> DEFINE c == calls[n]
           i == K(c) + 1
<1>1. n \in Calls /\ c.answer = "open" /\ up = "serving" /\ c # NoCall
  BY DEF IInv, Open, NoCall
<1>2. c \in Call /\ Known(n, c, db)
  BY <1>1 DEF IInv, TypeOK, CallInv
<1>3. /\ P(c) \in Seq(Statements) /\ Len(P(c)) \in Nat
      /\ c.plan \in Seq(Statements) /\ Len(c.plan) \in Nat
  BY <1>2, CallFacts
<1> HIDE DEF c
<1>4. /\ Len(c.plan) \in 1..Len(P(c))
      /\ \A j \in 1..Len(c.plan) : c.plan[j] = P(c)[K(c) + j]
  BY <1>1, <1>2 DEF Known, PlanInv
<1>5. /\ K(c) \in 0..(Len(P(c)) - 1) /\ i \in 1..Len(P(c))
      /\ Len(c.plan) = Len(P(c)) - K(c)
  BY <1>3, <1>4 DEF K
<1>6. Head(c.plan) = c.plan[1] /\ c.plan[1] = P(c)[i] /\ P(c)[i] \in Statements
  BY <1>3, <1>4, <1>5
<1>7. QED
  BY <1>1, <1>2, <1>5, <1>6 DEF c

Inserts == {"projects", "keys", "runs", "events", "detections", "bans", "audits"}

\* The row an insert makes is one of its table, and names the call.
LEMMA RowFacts ==
  ASSUME NEW n \in Calls, calls[n] \in Call, NEW t \in Inserts,
         t = "audits" => calls[n].request.op \in DOMAIN AuditedTable \cup {"end_session"}
  PROVE  Row(n, t) \in Rows[t] /\ Row(n, t).by = n
<1> DEFINE c == calls[n]
           r == c.request
<1>1. r \in RequestType /\ Len(c.plan) \in Nat /\ c.project \in Int /\ n \in Int
  BY CallFacts, ApiAssumption DEF Call, Calls
<1>2. r.slug \in STRING /\ r.session \in Int /\ r.device \in Int
  BY <1>1 DEF RequestType
<1> HIDE DEF r
<1>3. CASE t = "projects"
  BY <1>1, <1>2, <1>3 DEF Row, Rows, r
<1>4. CASE t = "keys"
  BY <1>1, <1>2, <1>4 DEF Row, Rows, r
<1>5. CASE t = "runs"
  BY <1>1, <1>2, <1>5 DEF Row, Rows, r
<1>6. CASE t = "events"
  BY <1>1, <1>2, <1>6 DEF Row, Rows, r
<1>7. CASE t = "detections"
  BY <1>1, <1>2, <1>7 DEF Row, Rows, r
<1>8. CASE t = "bans"
  BY <1>1, <1>2, <1>8 DEF Row, Rows, r
<1>9. CASE t = "audits"
  BY <1>1, <1>2, <1>9 DEF Row, Rows, r
<1>10. QED
  BY <1>3, <1>4, <1>5, <1>6, <1>7, <1>8, <1>9 DEF Inserts

\* What is left to show of a database that grows.
LEMMA CoherentStays ==
  ASSUME NEW d, NEW e, NEW w, Coherent(d), Typed(e), Grows(d, e, w), w # Seed,
         \A x, y \in e.devices :
             x.project = y.project /\ x.external = y.external => x = y,
         \A p \in e.projects \ d.projects : \E k \in e.keys : k.project = p.by,
         \A a \in e.audits \ d.audits : Truthful(a, e)
  PROVE  Coherent(e) /\ (Keyed(d) => Keyed(e))
<1>1. Typed(d)
  BY DEF Coherent, Typed
<1>2. /\ d.projects \subseteq e.projects /\ d.keys \subseteq e.keys
      /\ Seed \in IdsIn(e, "keys") => Seed \in IdsIn(d, "keys")
  BY DEF Grows, Adds, Tables, Rows, IdsIn
<1>3. \A p \in e.projects : Unkeyed(p, e) \/ \E k \in e.keys : k.project = p.by
  BY <1>2 DEF Coherent, Unkeyed
<1>4. \A a \in e.audits : Truthful(a, e)
  <2>1. ASSUME NEW a \in d.audits PROVE Truthful(a, e)
    <3>1. a \in Rows.audits /\ Truthful(a, d)
      BY <1>1 DEF Typed, Coherent, Tables, Rows
    <3>2. QED
      BY <1>1, <3>1, TruthStays
  <2>2. QED
    BY <2>1
<1>5. Seed \in IdsIn(e, "keys") => \E p \in e.projects : p.slug = DevSlug
  BY <1>2 DEF Coherent
<1>6. Coherent(e)
  BY <1>3, <1>4, <1>5 DEF Coherent, Typed
<1>7. Keyed(d) => Keyed(e)
  BY <1>2 DEF Keyed
<1>8. QED
  BY <1>6, <1>7

-----------------------------------------------------------------------------
(* From one statement to the next *)

\* The call after a statement that went through.
Nxt(q) == IF Len(q.plan) = 1
          THEN [q EXCEPT !.plan = <<>>, !.tx = NoTx, !.answer = "ok"]
          ELSE [q EXCEPT !.plan = Tail(@)]

\* q is call c with its project, device or transaction changed.
Alike(q, c) ==
    /\ c \in Call /\ q \in Call
    /\ q.request = c.request /\ q.plan = c.plan
    /\ c.answer = "open" /\ q.answer = "open"

LEMMA NxtFacts ==
  ASSUME NEW c, NEW q, Alike(q, c), PlanInv(c)
  PROVE  LET m == Nxt(q)
             i == K(c) + 1
         IN  /\ m \in Call /\ m # NoCall /\ PlanInv(m)
             /\ m.request = c.request /\ P(m) = P(c)
             /\ m.project = q.project /\ m.device = q.device
             /\ K(c) \in Nat /\ i \in 1..Len(P(c)) /\ K(m) = i
             /\ \/ /\ m.answer = "open" /\ m.tx = q.tx
                   /\ i < Len(P(c)) /\ Len(m.plan) = Len(c.plan) - 1
                \/ m.answer = "ok" /\ m.tx = NoTx /\ i = Len(P(c))
<1> DEFINE m == Nxt(q)
           x == Len(c.plan)
           y == Len(P(c))
<1>1. P(c) \in Seq(Statements) /\ c.plan \in Seq(Statements)
  BY CallFacts DEF Alike
<1>2. x \in Nat /\ y \in Nat /\ x >= 1 /\ x <= y
  <2>1. x \in Nat /\ y \in Nat
    BY <1>1
  <2>2. x \in 1..y
    BY DEF Alike, PlanInv
  <2> HIDE DEF x, y
  <2>3. QED
    BY <2>1, <2>2
<1>3. \A j \in 1..x : c.plan[j] = P(c)[K(c) + j]
  BY DEF Alike, PlanInv
<1>4. K(c) = y - x
  BY DEF K
<1> HIDE DEF x, y
<1>5. K(c) \in Nat /\ K(c) + 1 \in 1..y
  BY <1>2, <1>4
<1>6. c.request \in Requests
  BY DEF Alike, Call
<1>7. PICK pj \in Int, dv \in Int, tx \in {NoTx} \cup Transaction :
        q = [request |-> c.request, project |-> pj, device |-> dv,
             plan |-> c.plan, tx |-> tx, answer |-> "open"]
  BY DEF Alike, Call
<1>8. CASE x = 1
  <2>1. Nxt(q) = [q EXCEPT !.plan = <<>>, !.tx = NoTx, !.answer = "ok"]
    BY <1>8 DEF Nxt, Alike, x
  <2>2. m = [request |-> c.request, project |-> pj, device |-> dv,
             plan |-> <<>>, tx |-> NoTx, answer |-> "ok"]
    BY <1>7, <2>1
  <2> HIDE DEF m
  <2>3. <<>> \in Seq(Statements)
    OBVIOUS
  <2>4. /\ m \in Call /\ m.plan = <<>> /\ m.tx = NoTx /\ m.answer = "ok"
        /\ m.request = c.request /\ m.project = q.project /\ m.device = q.device
    BY <1>6, <1>7, <2>2, <2>3 DEF Call
  <2>5. P(m) = P(c) /\ m # NoCall
    BY <2>4 DEF P, NoCall
  <2>6. K(m) = y
    <3>1. K(m) = y - 0
      BY <2>4, <2>5 DEF K, y
    <3>2. QED
      BY <1>2, <3>1
  <2>7. PlanInv(m)
    BY <2>4 DEF PlanInv
  <2>8. K(c) + 1 = y
    BY <1>2, <1>4, <1>8
  <2>9. QED
    BY <1>5, <2>4, <2>5, <2>6, <2>7, <2>8 DEF m, y
<1>9. CASE x > 1
  <2>1. Nxt(q) = [q EXCEPT !.plan = Tail(c.plan)]
    <3>1. x # 1
      BY <1>2, <1>9
    <3>2. q.plan = c.plan
      BY DEF Alike
    <3>3. Len(q.plan) # 1
      BY <3>1, <3>2 DEF x
    <3>4. QED
      BY <3>2, <3>3 DEF Nxt
  <2>10. m = [request |-> c.request, project |-> pj, device |-> dv,
              plan |-> Tail(c.plan), tx |-> tx, answer |-> "open"]
    BY <1>7, <2>1
  <2> HIDE DEF m
  <2>2. /\ Tail(c.plan) \in Seq(Statements) /\ Len(Tail(c.plan)) = x - 1
        /\ \A j \in 1..(x - 1) : Tail(c.plan)[j] = c.plan[j + 1]
    BY <1>1, <1>2 DEF x
  <2>3. /\ m \in Call /\ m.plan = Tail(c.plan) /\ m.tx = q.tx /\ m.answer = "open"
        /\ m.request = c.request /\ m.project = q.project /\ m.device = q.device
    BY <1>6, <1>7, <2>2, <2>10 DEF Call
  <2>4. P(m) = P(c) /\ m # NoCall
    BY <2>3 DEF P, NoCall
  <2>5. Len(m.plan) = x - 1
    BY <2>2, <2>3
  <2>6. K(m) = K(c) + 1
    <3>1. K(m) = y - (x - 1)
      BY <2>4, <2>5 DEF K, y
    <3>2. QED
      BY <1>2, <1>4, <3>1
  <2>7. x - 1 >= 1 /\ K(c) + 1 < y /\ x - 1 <= y
    BY <1>2, <1>4, <1>9
  <2>8. PlanInv(m)
    <3>1. Len(m.plan) \in 1..Len(P(m))
      BY <1>2, <2>4, <2>5, <2>7 DEF y
    <3>2. ASSUME NEW j \in 1..Len(m.plan) PROVE m.plan[j] = P(m)[K(m) + j]
      <4>1. j \in 1..(x - 1) /\ j + 1 \in 1..x
        BY <1>2, <2>5
      <4>2. m.plan[j] = P(c)[K(c) + (j + 1)]
        BY <1>3, <2>2, <2>3, <4>1
      <4>3. K(c) + (j + 1) = K(m) + j
        BY <1>5, <2>6, <4>1
      <4>4. QED
        BY <2>4, <4>2, <4>3
    <3>3. QED
      BY <2>3, <3>1, <3>2 DEF PlanInv
  <2>9. QED
    BY <1>5, <2>3, <2>4, <2>5, <2>6, <2>7, <2>8 DEF m, x, y
<1>10. QED
  BY <1>2, <1>8, <1>9

\* One more statement is executed.
LEMMA OneMore ==
  ASSUME NEW c, NEW q, Alike(q, c), PlanInv(c), NEW t \in Tables
  PROVE  /\ IsFiniteSet(Executed(c, t)) /\ Cardinality(Executed(c, t)) \in Nat
         /\ Cardinality(Executed(Nxt(q), t)) =
              Cardinality(Executed(c, t)) + (IF P(c)[K(c) + 1] = t THEN 1 ELSE 0)
<1> DEFINE m == Nxt(q)
           i == K(c) + 1
<1>1. K(c) \in Nat /\ i \in 1..Len(P(c)) /\ K(m) = i /\ P(m) = P(c)
  BY NxtFacts
<1>2. K(c) \in 0..Len(P(c))
  BY <1>1, CallFacts DEF Alike
<1>3. IsFiniteSet(Executed(c, t)) /\ Cardinality(Executed(c, t)) \in Nat
  BY <1>2, ExecutedOnce DEF Alike
<1> HIDE DEF m
<1>4. i \notin Executed(c, t)
  BY <1>1 DEF Executed
<1>5. CASE P(c)[i] = t
  <2>1. Executed(m, t) = Executed(c, t) \cup {i}
    BY <1>1, <1>5 DEF Executed
  <2>2. Cardinality(Executed(c, t) \cup {i}) = Cardinality(Executed(c, t)) + 1
    BY <1>3, <1>4, FS_AddElement
  <2>3. QED
    BY <1>3, <1>5, <2>1, <2>2 DEF m
<1>6. CASE P(c)[i] # t
  <2>1. Executed(m, t) = Executed(c, t)
    BY <1>1, <1>6 DEF Executed
  <2>2. QED
    BY <1>3, <1>6, <2>1 DEF m
<1>7. QED
  BY <1>5, <1>6

\* The counts go on if the statement makes the one row it stands for.
LEMMA Counts ==
  ASSUME NEW n, NEW c, NEW q, NEW d, NEW e, Alike(q, c), Known(n, c, d), Typed(e),
         \A t \in Tables \ {"devices"} :
           IF P(c)[K(c) + 1] = t
           THEN \E row : /\ row \notin Made(n, c, d, t)
                         /\ Made(n, Nxt(q), e, t) = Made(n, c, d, t) \cup {row}
           ELSE Made(n, Nxt(q), e, t) = Made(n, c, d, t),
         \A row \in Of(e, n, "events") :
           row \in Of(d, n, "events") \/ row.left = Len(c.plan)
  PROVE  CountInv(n, Nxt(q), e)
<1> DEFINE m == Nxt(q)
           i == K(c) + 1
<1>1. PlanInv(c) /\ CountInv(n, c, d) /\ Under(c) /\ c.answer = "open"
  BY DEF Known, Alike, Under
<1>2. m.answer \in {"open", "ok"} /\ (m.answer = "open" => Len(m.plan) = Len(c.plan) - 1)
  BY <1>1, NxtFacts
<1>3. ASSUME NEW t \in Tables \ {"devices"}
      PROVE  /\ IsFiniteSet(Made(n, m, e, t))
             /\ Cardinality(Made(n, m, e, t)) = Cardinality(Executed(m, t))
  <2>1. /\ IsFiniteSet(Made(n, c, d, t))
        /\ Cardinality(Made(n, c, d, t)) = Cardinality(Executed(c, t))
    BY <1>1 DEF CountInv
  <2>2. /\ Cardinality(Executed(c, t)) \in Nat
        /\ Cardinality(Executed(m, t)) =
             Cardinality(Executed(c, t)) + (IF P(c)[i] = t THEN 1 ELSE 0)
    BY <1>1, OneMore
  <2> HIDE DEF m
  <2>3. CASE P(c)[i] = t
    <3>1. PICK row : /\ row \notin Made(n, c, d, t)
                     /\ Made(n, m, e, t) = Made(n, c, d, t) \cup {row}
      BY <2>3 DEF m
    <3>2. /\ IsFiniteSet(Made(n, c, d, t) \cup {row})
          /\ Cardinality(Made(n, c, d, t) \cup {row}) = Cardinality(Made(n, c, d, t)) + 1
      BY <2>1, <3>1, FS_AddElement
    <3>3. QED
      BY <2>1, <2>2, <2>3, <3>1, <3>2
  <2>4. CASE P(c)[i] # t
    <3>1. Made(n, m, e, t) = Made(n, c, d, t)
      BY <2>4 DEF m
    <3>2. QED
      BY <2>1, <2>2, <2>4, <3>1
  <2>5. QED
    BY <2>3, <2>4
<1>4. ASSUME m.answer = "open", NEW row \in Of(e, n, "events")
      PROVE  row.left > Len(m.plan)
  <2>1. Len(c.plan) \in Nat
    BY CallFacts DEF Alike
  <2>2. CASE row \in Of(d, n, "events")
    <3>1. row.left > Len(c.plan)
      BY <1>1, <2>2 DEF CountInv
    <3>2. row.left \in Nat
      BY DEF Typed, Of, Tables, Rows
    <3>3. QED
      BY <1>2, <1>4, <2>1, <3>1, <3>2
  <2>3. CASE row.left = Len(c.plan)
    BY <1>2, <1>4, <2>1, <2>3
  <2>4. QED
    BY <2>2, <2>3
<1>5. QED
  BY <1>3, <1>4 DEF CountInv

LEMMA PlanIs ==
  ASSUME NEW r
  PROVE  /\ r.op = "create_project" => Plan(r) = CreateProject
         /\ r.op = "end_session" => Plan(r) = EndSession
         /\ r.op = "register_device" => Plan(r) = RegisterDevice
BY DEF Plan

Transacted == {"begin", "projects", "keys", "commit"}

\* Where a transaction is, and where it is not.
LEMMA TxPlace ==
  ASSUME NEW n, NEW c, NEW d, c \in Call, c.answer = "open", Known(n, c, d)
  PROVE  LET s == P(c)[K(c) + 1] IN
         /\ s \in Transacted <=> c.request.op = "create_project" /\ K(c) \in 0..3
         /\ c.request.op = "create_project" =>
              /\ K(c) \in 0..4 /\ Len(P(c)) = 5
              /\ s = "begin" <=> K(c) = 0
              /\ s = "projects" <=> K(c) = 1
              /\ s = "keys" <=> K(c) = 2
              /\ s = "commit" <=> K(c) = 3
              /\ s = "audits" <=> K(c) = 4
         /\ c.tx.open <=> s \in {"projects", "keys", "commit"}
<1> DEFINE s == P(c)[K(c) + 1]
<1>1. K(c) \in Nat /\ K(c) + 1 \in 1..Len(P(c))
  BY NxtFacts DEF Alike, Known
<1>2. CASE c.request.op = "create_project"
  <2>1. P(c) = <<"begin", "projects", "keys", "commit", "audits">>
    BY <1>2, PlanIs DEF P, CreateProject
  <2>2. Len(P(c)) = 5 /\ K(c) \in {0, 1, 2, 3, 4}
    BY <1>1, <2>1
  <2>3. c.tx.open <=> K(c) \in 1..3
    BY <1>2 DEF Known, TxInv
  <2>4. /\ s = "begin" <=> K(c) = 0
        /\ s = "projects" <=> K(c) = 1
        /\ s = "keys" <=> K(c) = 2
        /\ s = "commit" <=> K(c) = 3
        /\ s = "audits" <=> K(c) = 4
    BY <2>1, <2>2
  <2> HIDE DEF s
  <2>5. /\ s \in Transacted <=> K(c) \in 0..3
        /\ s \in {"projects", "keys", "commit"} <=> K(c) \in 1..3
    BY <2>2, <2>4 DEF Transacted
  <2>6. QED
    BY <1>2, <2>2, <2>3, <2>4, <2>5 DEF s
<1>3. CASE c.request.op # "create_project"
  <2>1. s \notin Transacted
    BY <1>1, <1>3, CallFacts, PlanFacts DEF P, Transacted
  <2>2. ~c.tx.open
    BY <1>3 DEF Known, TxInv
  <2>3. QED
    BY <1>3, <2>1, <2>2 DEF Transacted
<1>4. QED
  BY <1>2, <1>3

\* What the next call is known by, part by part.
LEMMA KnownNext ==
  ASSUME NEW n, NEW c, NEW q, NEW d, NEW e, NEW w, Alike(q, c), Known(n, c, d),
         Typed(d), Grows(d, e, w),
         CountInv(n, Nxt(q), e), TxInv(n, Nxt(q)), DeviceInv(Nxt(q), e),
         P(c)[K(c) + 1] # "device" => Of(e, n, "devices") = {},
         c.request.op = "end_session" /\ P(c)[K(c) + 1] = "owner" =>
           \E r \in d.runs : r.by = c.request.session,
         P(c)[K(c) + 1] = "end" =>
           \E r \in e.runs : r.by = c.request.session /\ r.ended
  PROVE  Known(n, Nxt(q), e)
<1> DEFINE m == Nxt(q)
           i == K(c) + 1
<1>1. /\ PlanInv(m) /\ m.request = c.request /\ P(m) = P(c)
      /\ K(c) \in Nat /\ i \in 1..Len(P(c)) /\ K(m) = i
      /\ (m.answer = "open" /\ i < Len(P(c))) \/ m.answer = "ok"
  BY NxtFacts DEF Known
<1>2. c.request \in RequestType /\ Len(P(c)) \in Nat
  BY CallFacts DEF Alike
<1> HIDE DEF m
<1>3. NothingInv(n, m, e)
  <2>1. m.answer = "open" => P(c)[i] # "device"
    BY <1>1, <1>2, PlanFacts DEF P
  <2>2. QED
    BY <1>1, <2>1 DEF NothingInv, Refused
<1>4. SessionInv(m, e)
  <2>1. SUFFICES ASSUME c.request.op = "end_session"
                 PROVE  SessionInv(m, e)
    BY <1>1 DEF SessionInv
  <2>2. P(c) = <<"auth", "owner", "end", "audits">>
    BY <2>1, PlanIs DEF P, EndSession
  <2>3. i \in {1, 2, 3, 4} /\ (i = 2 => P(c)[i] = "owner") /\ (i = 3 => P(c)[i] = "end")
    BY <1>1, <2>2
  <2>4. /\ K(c) >= 2 => \E r \in d.runs : r.by = c.request.session
        /\ K(c) >= 3 => \E r \in d.runs : r.by = c.request.session /\ r.ended
    BY <2>1 DEF Known, SessionInv, Under, Alike
  <2>5. i >= 2 => \E r \in d.runs : r.by = c.request.session
    BY <1>1, <2>1, <2>3, <2>4
  <2>6. i >= 2 => \E r \in e.runs : r.by = c.request.session
    BY <2>5, RunsStay
  <2>7. i >= 3 => \E r \in e.runs : r.by = c.request.session /\ r.ended
    <3>1. CASE i = 3
      BY <2>3, <3>1
    <3>2. CASE i = 4
      BY <1>1, <2>4, <3>2, RunsStay
    <3>3. QED
      BY <2>3, <3>1, <3>2
  <2>8. QED
    BY <1>1, <2>6, <2>7 DEF SessionInv
<1>5. QED
  BY <1>1, <1>3, <1>4 DEF Known, m

\* A statement outside the transaction leaves it closed.
LEMMA TxNext ==
  ASSUME NEW n, NEW c, NEW q, NEW d, Alike(q, c), Known(n, c, d), q.tx = c.tx,
         P(c)[K(c) + 1] \notin Transacted
  PROVE  /\ TxInv(n, Nxt(q)) /\ ~c.tx.open /\ ~Nxt(q).tx.open
         /\ \A t : InTx(c, t) = {} /\ InTx(Nxt(q), t) = {}
<1> DEFINE m == Nxt(q)
<1>1. ~c.tx.open
  BY TxPlace DEF Alike, Transacted
<1>2. /\ m.request = c.request /\ K(m) = K(c) + 1 /\ K(c) + 1 \in 1..Len(P(c))
      /\ \/ m.answer = "open" /\ m.tx = q.tx /\ K(c) + 1 < Len(P(c))
         \/ m.answer = "ok" /\ m.tx = NoTx
  BY NxtFacts DEF Known
<1> HIDE DEF m
<1>3. ~m.tx.open
  BY <1>1, <1>2 DEF NoTx
<1>4. m.answer = "open" => c.request.op # "create_project"
  <2>1. SUFFICES ASSUME c.request.op = "create_project", K(c) + 1 < Len(P(c))
                 PROVE  FALSE
    BY <1>2
  <2>2. K(c) \notin 0..3 /\ K(c) \in 0..4 /\ Len(P(c)) = 5
    BY <2>1, TxPlace DEF Alike
  <2>3. K(c) = 4
    BY <2>2
  <2>4. K(c) + 1 < 5
    BY <2>1, <2>2
  <2>5. QED
    BY <2>3, <2>4
<1>5. TxInv(n, m)
  BY <1>2, <1>3, <1>4 DEF TxInv
<1>6. QED
  BY <1>1, <1>3, <1>5 DEF InTx, m

\* A statement that makes no row.
LEMMA QuietNext ==
  ASSUME NEW n, NEW c, NEW q, NEW d, NEW e, Typed(d), Typed(e), Grows(d, e, Nobody),
         n # Nobody, Alike(q, c), Known(n, c, d), q.tx = c.tx,
         P(c)[K(c) + 1] \notin Tables \cup Transacted \cup {"device"},
         c.request.op = "end_session" /\ P(c)[K(c) + 1] = "owner" =>
           \E r \in d.runs : r.by = c.request.session,
         P(c)[K(c) + 1] = "end" =>
           \E r \in e.runs : r.by = c.request.session /\ r.ended
  PROVE  Known(n, Nxt(q), e)
<1> DEFINE m == Nxt(q)
<1>1. Known(n, c, e)
  <2>1. c \in Call /\ c # NoCall
    BY DEF Alike, NoCall
  <2>2. CallInv(n, c, e)
    BY <2>1, OthersKeep DEF CallInv
  <2>3. QED
    BY <2>1, <2>2 DEF CallInv
<1>2. /\ TxInv(n, m) /\ \A t : InTx(c, t) = {} /\ InTx(m, t) = {}
  BY TxNext
<1>3. CountInv(n, m, e)
  <2>1. \A t \in Tables : P(c)[K(c) + 1] # t /\ Made(n, m, e, t) = Made(n, c, e, t)
    BY <1>2 DEF Made
  <2>2. QED
    BY <1>1, <2>1, Counts
<1>4. DeviceInv(m, e)
  <2>1. /\ m.request = c.request /\ K(c) + 1 \in 1..Len(P(c))
        /\ m.answer = "ok" => K(c) + 1 = Len(P(c))
    BY NxtFacts DEF Known
  <2> HIDE DEF m
  <2>2. c.request.op = "register_device" => P(c) = <<"auth", "device">>
    BY PlanIs DEF P, RegisterDevice
  <2>3. ~(m.answer = "ok" /\ m.request.op = "register_device")
    <3>1. SUFFICES ASSUME m.answer = "ok", m.request.op = "register_device"
                   PROVE  FALSE
      OBVIOUS
    <3>2. K(c) + 1 = Len(P(c)) /\ P(c) = <<"auth", "device">>
      BY <2>1, <2>2, <3>1
    <3>3. K(c) + 1 = 2 /\ P(c)[2] = "device"
      BY <3>2
    <3>4. P(c)[K(c) + 1] = "device"
      BY <3>3
    <3>5. QED
      BY <3>4
  <2>4. QED
    BY <2>3 DEF DeviceInv
<1>5. Of(e, n, "devices") = {}
  BY <1>1 DEF Known, NothingInv, Alike
<1>6. QED
  BY <1>2, <1>3, <1>4, <1>5, KnownNext

-----------------------------------------------------------------------------
(* The statements, one by one *)

\* What a statement of an open call comes to: a database that is coherent, and
\* a call that goes on knowing what it should, or a refusal that changed nothing.
Works(n, e) ==
    /\ Typed(e.db) /\ Coherent(e.db) /\ Keyed(e.db) /\ Grows(db, e.db, n)
    /\ e.refusal = "none" =>
         Alike(e.call, calls[n]) /\ Known(n, Nxt(e.call), e.db)
    /\ e.refusal # "none" =>
         /\ e.call = calls[n] /\ e.db = db
         /\ e.refusal \in {"bad_request", "unauthorized", "not_found", "failed"}
         /\ e.refusal # "failed" => \A t \in Tables : Of(db, n, t) = {}

LEMMA Base ==
  ASSUME IInv, NEW n \in Open
  PROVE  /\ n \in Int /\ n # Nobody /\ n # Seed
         /\ Typed(db) /\ Coherent(db) /\ Keyed(db) /\ \A w : Grows(db, db, w)
         /\ Alike(calls[n], calls[n])
<1>1. n \in Calls /\ calls[n] \in Call /\ calls[n].answer = "open" /\ up = "serving"
  BY Ahead
<1>2. Coherent(db) /\ Keyed(db)
  BY <1>1 DEF IInv
<1>3. n \in Int /\ n # Nobody /\ n # Seed
  BY <1>1, ApiAssumption DEF Calls, Nobody, Seed
<1>4. \A w : Grows(db, db, w)
  BY DEF Grows, Adds
<1>5. QED
  BY <1>1, <1>2, <1>3, <1>4 DEF Typed, Coherent, Alike

\* A call that is not past its own checks has made nothing.
LEMMA NothingYet ==
  ASSUME IInv, NEW n \in Open, Head(calls[n].plan) \in {"auth", "owner"}
  PROVE  \A t \in Tables : Of(db, n, t) = {}
<1> DEFINE c == calls[n]
           i == K(c) + 1
<1>1. /\ c \in Call /\ c.answer = "open" /\ Known(n, c, db)
      /\ K(c) \in 0..(Len(P(c)) - 1) /\ i \in 1..Len(P(c)) /\ Head(c.plan) = P(c)[i]
  BY Ahead
<1> HIDE DEF c
<1>2. i = 1 \/ (i = 2 /\ P(c)[1] = "auth")
  BY <1>1, CallFacts, PlanFacts DEF P, c
<1>3. \A j \in 1..K(c) : j = 1 /\ P(c)[j] = "auth"
  BY <1>1, <1>2
<1>4. ASSUME NEW t \in Tables \ {"devices"} PROVE Of(db, n, t) = {}
  <2>1. Executed(c, t) = {}
    BY <1>3 DEF Executed, Tables, Rows
  <2>2. /\ IsFiniteSet(Made(n, c, db, t))
        /\ Cardinality(Made(n, c, db, t)) = Cardinality(Executed(c, t))
    BY <1>1 DEF Known, CountInv, Under
  <2>3. Made(n, c, db, t) = {}
    BY <2>1, <2>2, FS_EmptySet
  <2>4. QED
    BY <2>3 DEF Made
<1>5. Of(db, n, "devices") = {}
  BY <1>1 DEF Known, NothingInv
<1>6. QED
  BY <1>4, <1>5

\* The answer to a body that is not wanted (error.rs).
LEMMA RefusalType ==
  ASSUME NEW r \in RequestType
  PROVE  Refusal(r) \in {"none", "bad_request", "unauthorized"}
BY DEF Refusal, RequestType

\* One table is written.
Put(d, t, rows) == [d EXCEPT ![t] = rows]
LEMMA TableSet ==
  ASSUME NEW d, Typed(d), NEW t \in Tables, NEW rows \in SUBSET Rows[t]
  PROVE  /\ Typed(Put(d, t, rows)) /\ Put(d, t, rows)[t] = rows
         /\ \A u \in Tables \ {t} : Put(d, t, rows)[u] = d[u]
BY DEF Typed, Put

LEMMA AuthWorks ==
  ASSUME IInv, NEW n \in Open, Head(calls[n].plan) = "auth"
  PROVE  Works(n, Authenticate(calls[n])) /\ Authenticate(calls[n]).db = db
<1> DEFINE c == calls[n]
           e == Authenticate(c)
           rows == {k \in db.keys : k.by = c.request.key}
           key == CHOOSE k \in rows : TRUE
           q == [c EXCEPT !.project = key.project]
<1>1. /\ c \in Call /\ c.answer = "open" /\ Known(n, c, db)
      /\ P(c)[K(c) + 1] = "auth" /\ \A t \in Tables : Of(db, n, t) = {}
  BY Ahead, NothingYet
<1>2. \/ e \in {Refuses(c, "unauthorized"), Refuses(c, "bad_request")}
      \/ rows # {} /\ e = Goes(db, q)
  <2>1. Refusal(c.request) \in {"none", "bad_request", "unauthorized"}
    BY <1>1, CallFacts, RefusalType
  <2>2. QED
    BY <2>1 DEF Authenticate
<1>3. CASE e \in {Refuses(c, "unauthorized"), Refuses(c, "bad_request")}
  <2>1. e.db = db /\ e.call = c /\ e.refusal \in {"unauthorized", "bad_request"}
    BY <1>3 DEF Refuses
  <2> HIDE DEF e
  <2>2. QED
    BY <1>1, <2>1, Base DEF Works, e
<1>4. CASE rows # {} /\ e = Goes(db, q)
  <2>1. e.db = db /\ e.call = q /\ e.refusal = "none"
    BY <1>4 DEF Goes
  <2> HIDE DEF e
  <2>2. key \in db.keys
    BY <1>4
  <2>3. key.project \in Int
    BY <2>2, Base DEF Typed, Tables, Rows
  <2> HIDE DEF key
  <2>4. Alike(q, c) /\ q.tx = c.tx
    BY <1>1, <2>3 DEF Alike, Call
  <2> HIDE DEF q
  <2>5. Known(n, Nxt(q), db)
    <3>1. P(c)[K(c) + 1] \notin Tables \cup Transacted \cup {"device", "owner", "end"}
      BY <1>1 DEF Tables, Rows, Transacted
    <3> HIDE DEF c
    <3>2. QED
      BY <1>1, <2>4, <3>1, Base, QuietNext
  <2>6. QED
    BY <2>1, <2>4, <2>5, Base DEF Works, e, c
<1>5. QED
  BY <1>2, <1>3, <1>4

LEMMA OwnerWorks ==
  ASSUME IInv, NEW n \in Open, Head(calls[n].plan) = "owner"
  PROVE  Works(n, Owner(calls[n]))
<1> DEFINE c == calls[n]
           e == Owner(c)
           rows == {r \in db.runs : r.by = c.request.session}
<1>1. /\ c \in Call /\ c.answer = "open" /\ Known(n, c, db)
      /\ P(c)[K(c) + 1] = "owner" /\ \A t \in Tables : Of(db, n, t) = {}
  BY Ahead, NothingYet
<1>2. \/ e \in {Refuses(c, "not_found"), Refuses(c, "unauthorized")}
      \/ rows # {} /\ e = Goes(db, c)
  BY DEF Owner
<1>3. CASE e \in {Refuses(c, "not_found"), Refuses(c, "unauthorized")}
  <2>1. e.db = db /\ e.call = c /\ e.refusal \in {"not_found", "unauthorized"}
    BY <1>3 DEF Refuses
  <2> HIDE DEF e
  <2>2. QED
    BY <1>1, <2>1, Base DEF Works, e
<1>4. CASE rows # {} /\ e = Goes(db, c)
  <2>1. e.db = db /\ e.call = c /\ e.refusal = "none"
    BY <1>4 DEF Goes
  <2> HIDE DEF e
  <2>2. \E r \in db.runs : r.by = c.request.session
    BY <1>4
  <2>3. Known(n, Nxt(c), db)
    <3>1. /\ P(c)[K(c) + 1] \notin Tables \cup Transacted \cup {"device"}
          /\ P(c)[K(c) + 1] # "end" /\ Alike(c, c)
      BY <1>1, Base DEF Tables, Rows, Transacted
    <3> HIDE DEF c
    <3>2. QED
      BY <1>1, <2>2, <3>1, Base, QuietNext
  <2>4. QED
    BY <2>1, <2>3, Base DEF Works, e
<1>5. QED
  BY <1>2, <1>3, <1>4

LEMMA ReadWorks ==
  ASSUME IInv, NEW n \in Open, Head(calls[n].plan) = "read"
  PROVE  Works(n, Goes(db, calls[n]))
<1> DEFINE c == calls[n]
<1>1. c \in Call /\ c.answer = "open" /\ Known(n, c, db) /\ P(c)[K(c) + 1] = "read"
  BY Ahead
<1>2. /\ P(c)[K(c) + 1] \notin Tables \cup Transacted \cup {"device", "end", "owner"}
      /\ Alike(c, c)
  BY <1>1, Base DEF Tables, Rows, Transacted
<1> HIDE DEF c
<1>3. Known(n, Nxt(c), db)
  BY <1>1, <1>2, Base, QuietNext
<1>4. QED
  BY <1>3, Base DEF Works, Goes, c

LEMMA MarkWorks ==
  ASSUME IInv, NEW n \in Open, NEW f \in {"ended", "beaten"},
         Head(calls[n].plan) = IF f = "ended" THEN "end" ELSE "touch"
  PROVE  Works(n, UpdateRun(calls[n], f))
<1> DEFINE c == calls[n]
           s == c.request.session
           runs == Marked(db.runs, s, f)
           d == [db EXCEPT !.runs = runs]
<1>1. /\ c \in Call /\ c.answer = "open" /\ Known(n, c, db) /\ n \in Calls
      /\ P(c)[K(c) + 1] = IF f = "ended" THEN "end" ELSE "touch"
      /\ K(c) + 1 \in 1..Len(P(c)) /\ s \in Int
  BY Ahead, CallFacts DEF RequestType
<1>2. UpdateRun(c, f) = Goes(d, c)
  BY DEF UpdateRun, Marked
<1> HIDE DEF s
<1>3. runs \subseteq Rows.runs
  <2>1. SUFFICES ASSUME NEW x \in runs PROVE x \in Rows.runs
    OBVIOUS
  <2>2. PICK r \in db.runs : x = IF r.by = s THEN [r EXCEPT ![f] = TRUE] ELSE r
    BY DEF Marked
  <2>3. r \in Rows.runs
    BY Base DEF Typed, Tables, Rows
  <2>4. QED
    BY <1>1, <2>2, <2>3, MarkedRow
<1> HIDE DEF runs
<1>4. /\ Typed(d) /\ d.runs = runs
      /\ \A t \in Tables \ {"runs"} : d[t] = db[t]
  <2>1. "runs" \in Tables /\ runs \in SUBSET Rows["runs"] /\ Typed(db)
    BY <1>3, Base DEF Tables, Rows
  <2>2. d = Put(db, "runs", runs)
    BY DEF Put
  <2> HIDE DEF d
  <2>3. QED
    BY <2>1, <2>2, TableSet
<1> HIDE DEF d
<1>5. \A w : Grows(db, d, w)
  BY <1>1, <1>4 DEF Grows, Adds, runs
<1>6. Coherent(d) /\ Keyed(d)
  <2>1. d.devices = db.devices /\ d.projects = db.projects /\ d.audits = db.audits
    BY <1>4 DEF Tables, Rows
  <2>2. \A x, y \in d.devices :
          x.project = y.project /\ x.external = y.external => x = y
    BY <2>1, Base DEF Coherent
  <2>3. QED
    BY <1>4, <1>5, <2>1, <2>2, Base, CoherentStays
<1>7. f = "ended" => \E r \in d.runs : r.by = s /\ r.ended
  <2>1. SUFFICES ASSUME f = "ended" PROVE \E r \in d.runs : r.by = s /\ r.ended
    OBVIOUS
  <2>2. c.request.op = "end_session" /\ K(c) + 1 = 3
    BY <1>1, <2>1, CallFacts, PlanFacts DEF P
  <2>3. K(c) >= 2
    BY <1>1, <2>2, Ahead
  <2>4. PICK r \in db.runs : r.by = s
    BY <1>1, <2>2, <2>3 DEF Known, SessionInv, Under, s
  <2>5. PICK x : x = IF r.by = s THEN [r EXCEPT ![f] = TRUE] ELSE r
    OBVIOUS
  <2>6. x \in d.runs
    BY <1>4, <2>5 DEF Marked, runs
  <2>7. r \in Rows.runs
    BY Base DEF Typed, Tables, Rows
  <2>8. QED
    BY <1>1, <2>1, <2>4, <2>5, <2>6, <2>7, MarkedRow
<1>8. Known(n, Nxt(c), d)
  <2>1. /\ P(c)[K(c) + 1] \notin Tables \cup Transacted \cup {"device", "owner"}
        /\ P(c)[K(c) + 1] = "end" => f = "ended"
        /\ Alike(c, c)
    BY <1>1, Base DEF Tables, Rows, Transacted
  <2> HIDE DEF c
  <2>2. QED
    BY <1>1, <1>4, <1>5, <1>7, <2>1, Base, QuietNext DEF s
<1>9. QED
  BY <1>2, <1>4, <1>5, <1>6, <1>8, Base DEF Works, Goes

LEMMA BeginWorks ==
  ASSUME IInv, NEW n \in Open, Head(calls[n].plan) = "begin"
  PROVE  Works(n, Goes(db, [calls[n] EXCEPT !.tx = [open |-> TRUE, rows |-> {}]]))
<1> DEFINE c == calls[n]
           q == [c EXCEPT !.tx = [open |-> TRUE, rows |-> {}]]
           m == Nxt(q)
<1>1. c \in Call /\ c.answer = "open" /\ Known(n, c, db) /\ P(c)[K(c) + 1] = "begin"
  BY Ahead
<1>2. /\ c.request.op = "create_project" /\ K(c) = 0 /\ Len(P(c)) = 5 /\ ~c.tx.open
  BY <1>1, TxPlace DEF Transacted
<1>3. Alike(q, c) /\ q.tx = [open |-> TRUE, rows |-> {}]
  BY <1>1 DEF Alike, Call, Transaction
<1> HIDE DEF q
<1>4. /\ m.request = c.request /\ K(m) = 1 /\ P(m) = P(c)
      /\ m.answer = "open" /\ m.tx = q.tx
  <2>1. /\ m.request = c.request /\ P(m) = P(c) /\ K(m) = K(c) + 1
        /\ (m.answer = "open" /\ m.tx = q.tx) \/ K(c) + 1 = Len(P(c))
    BY <1>1, <1>3, NxtFacts DEF Known
  <2>2. K(c) + 1 = 1 /\ K(c) + 1 # Len(P(c))
    BY <1>2
  <2>3. QED
    BY <2>1, <2>2
<1> HIDE DEF c, m
<1>5. \A t : InTx(c, t) = {} /\ InTx(m, t) = {}
  BY <1>2, <1>3, <1>4 DEF InTx
<1>6. CountInv(n, m, db)
  <2>1. \A t \in Tables : P(c)[K(c) + 1] # t /\ Made(n, m, db, t) = Made(n, c, db, t)
    BY <1>1, <1>5 DEF Made, Tables, Rows
  <2>2. QED
    BY <1>1, <1>3, <2>1, Base, Counts DEF m
<1>7. TxInv(n, m)
  BY <1>2, <1>3, <1>4 DEF TxInv
<1>8. DeviceInv(m, db) /\ Of(db, n, "devices") = {}
  BY <1>1, <1>4 DEF DeviceInv, Known, NothingInv
<1>9. Known(n, m, db)
  BY <1>1, <1>3, <1>6, <1>7, <1>8, Base, KnownNext DEF m
<1>10. QED
  BY <1>3, <1>9, Base DEF Works, Goes, q, m, c

\* Before its insert a call has made no row of that table, but for events.
LEMMA NoneYet ==
  ASSUME IInv, NEW n \in Open, NEW t \in Tables \ {"events", "devices"},
         Head(calls[n].plan) = t
  PROVE  Made(n, calls[n], db, t) = {}
<1> DEFINE c == calls[n]
<1>1. /\ c \in Call /\ c.answer = "open" /\ Known(n, c, db) /\ P(c)[K(c) + 1] = t
  BY Ahead
<1>2. Alike(c, c) /\ PlanInv(c) /\ CountInv(n, c, db)
  BY <1>1, Base DEF Known
<1> HIDE DEF c
<1>3. /\ Nxt(c) \in Call /\ K(Nxt(c)) = K(c) + 1 /\ P(Nxt(c)) = P(c)
      /\ K(c) + 1 \in 1..Len(P(c)) /\ K(c) \in Nat /\ Len(P(c)) \in Nat
  BY <1>1, <1>2, NxtFacts, CallFacts
<1>4. Cardinality(Executed(Nxt(c), t)) \in {0, 1}
  <2>1. K(Nxt(c)) \in 0..Len(P(Nxt(c)))
    BY <1>3
  <2>2. QED
    BY <1>3, <2>1, ExecutedOnce
<1>5. /\ Cardinality(Executed(c, t)) \in Nat
      /\ Cardinality(Executed(Nxt(c), t)) = Cardinality(Executed(c, t)) + 1
  BY <1>1, <1>2, OneMore
<1>6. Cardinality(Executed(c, t)) = 0
  BY <1>4, <1>5
<1>7. /\ IsFiniteSet(Made(n, c, db, t))
      /\ Cardinality(Made(n, c, db, t)) = Cardinality(Executed(c, t))
  BY <1>1, <1>2 DEF CountInv, Under
<1>8. QED
  BY <1>6, <1>7, FS_EmptySet DEF c

\* An open transaction is a record of its rows.
LEMMA TxOpen ==
  ASSUME NEW c \in Call, c.tx.open
  PROVE  \E rows : /\ c.tx = [open |-> TRUE, rows |-> rows]
                   /\ rows \in SUBSET (({"projects"} \X Rows.projects)
                                       \cup ({"keys"} \X Rows.keys))
                   /\ \A more : [c.tx EXCEPT !.rows = @ \cup more]
                                  = [open |-> TRUE, rows |-> rows \cup more]
<1> DEFINE x == c.tx
<1>1. x \in {NoTx} \cup Transaction /\ x.open
  BY DEF Call
<1> HIDE DEF x
<1>2. x # NoTx
  BY <1>1 DEF NoTx
<1>3. x \in Transaction
  BY <1>1, <1>2
<1>4. PICK rows \in SUBSET (({"projects"} \X Rows.projects)
                            \cup ({"keys"} \X Rows.keys)) :
        x = [open |-> TRUE, rows |-> rows]
  BY <1>3 DEF Transaction
<1>5. ASSUME NEW more
      PROVE  [x EXCEPT !.rows = @ \cup more] = [open |-> TRUE, rows |-> rows \cup more]
  <2> DEFINE y == [x EXCEPT !.rows = @ \cup more]
  <2>1. DOMAIN y = {"open", "rows"} /\ y = [f \in {"open", "rows"} |-> y[f]]
    BY <1>4
  <2>2. y.open = TRUE /\ y.rows = rows \cup more
    BY <1>4
  <2> HIDE DEF y
  <2>3. y = [open |-> TRUE, rows |-> rows \cup more]
    BY <2>1, <2>2
  <2>4. QED
    BY <2>3 DEF y
<1>6. QED
  BY <1>4, <1>5 DEF x

\* projects and keys are inserted in the transaction.
LEMMA InsertInTxWorks ==
  ASSUME IInv, NEW n \in Open, NEW t \in {"projects", "keys"},
         Head(calls[n].plan) = t
  PROVE  Works(n, Insert(n, t))
<1> DEFINE c == calls[n]
           row == Row(n, t)
           q == [c EXCEPT !.tx.rows = @ \cup {<<t, row>>}]
           m == Nxt(q)
           e == Insert(n, t)
<1>1. /\ n \in Calls /\ c \in Call /\ c.answer = "open" /\ Known(n, c, db)
      /\ P(c)[K(c) + 1] = t
  BY Ahead
<1>2. /\ c.request.op = "create_project" /\ Len(P(c)) = 5 /\ c.tx.open
      /\ t = "projects" => K(c) = 1
      /\ t = "keys" => K(c) = 2
  BY <1>1, TxPlace DEF Transacted
<1>3. row \in Rows[t] /\ row.by = n /\ (t = "keys" => row = [by |-> n, project |-> n])
  <2>1. row \in Rows[t] /\ row.by = n
    BY <1>1, RowFacts DEF Inserts
  <2>2. ASSUME t = "keys" PROVE row = [by |-> n, project |-> n]
    BY <2>2 DEF Row
  <2>3. QED
    BY <2>1, <2>2
<1>4. e = Refuses(c, "failed") \/ e = Goes(db, q)
  BY <1>2 DEF Insert
<1> HIDE DEF row
<1>5. CASE e = Refuses(c, "failed")
  <2>1. e.db = db /\ e.call = c /\ e.refusal = "failed"
    BY <1>5 DEF Refuses
  <2> HIDE DEF e
  <2>2. QED
    BY <2>1, Base DEF Works, e
<1>6. CASE e = Goes(db, q)
  <2>1. e.db = db /\ e.call = q /\ e.refusal = "none"
    BY <1>6 DEF Goes
  <2> HIDE DEF e
  <2>2. PICK rows : /\ c.tx = [open |-> TRUE, rows |-> rows]
                    /\ rows \in SUBSET (({"projects"} \X Rows.projects)
                                        \cup ({"keys"} \X Rows.keys))
                    /\ \A more : [c.tx EXCEPT !.rows = @ \cup more]
                                   = [open |-> TRUE, rows |-> rows \cup more]
    BY <1>1, <1>2, TxOpen
  <2>3. /\ Alike(q, c) /\ q.tx = [open |-> TRUE, rows |-> rows \cup {<<t, row>>}]
    <3>1. q = [c EXCEPT !.tx = [open |-> TRUE, rows |-> rows \cup {<<t, row>>}]]
      <4>1. [c.tx EXCEPT !.rows = @ \cup {<<t, row>>}]
              = [open |-> TRUE, rows |-> rows \cup {<<t, row>>}]
        BY <2>2
      <4>2. QED
        BY <4>1
    <3>2. <<t, row>> \in ({"projects"} \X Rows.projects) \cup ({"keys"} \X Rows.keys)
      BY <1>3
    <3>3. [open |-> TRUE, rows |-> rows \cup {<<t, row>>}] \in Transaction
      BY <2>2, <3>2 DEF Transaction
    <3> HIDE DEF q
    <3>4. QED
      BY <1>1, <3>1, <3>3 DEF Alike, Call
  <2> HIDE DEF q
  <2>4. /\ m.request = c.request /\ K(m) = K(c) + 1 /\ P(m) = P(c)
        /\ m.answer = "open" /\ m.tx = q.tx
    <3>1. K(c) + 1 # Len(P(c))
      BY <1>2
    <3>2. QED
      BY <1>1, <2>3, <3>1, NxtFacts DEF Known
  <2>5. Made(n, c, db, t) = {}
    BY <1>1, NoneYet, Ahead DEF Tables, Rows
  <2> HIDE DEF c, m
  <2>6. CountInv(n, m, db)
    <3>1. /\ InTx(c, t) \cup {row} = InTx(m, t)
          /\ \A u : u # t => InTx(c, u) = InTx(m, u)
      <4>1. /\ c.tx.open /\ c.tx.rows = rows
            /\ m.tx.open /\ m.tx.rows = rows \cup {<<t, row>>}
        BY <2>2, <2>3, <2>4
      <4>2. \A u : /\ InTx(c, u) = {x[2] : x \in {y \in rows : y[1] = u}}
                   /\ InTx(m, u) =
                        {x[2] : x \in {y \in rows \cup {<<t, row>>} : y[1] = u}}
        BY <4>1 DEF InTx
      <4> DEFINE new == <<t, row>>
      <4>3. new[1] = t /\ new[2] = row
        OBVIOUS
      <4> HIDE DEF new
      <4>4. InTx(m, t) = InTx(c, t) \cup {row}
        <5>1. {y \in rows \cup {<<t, row>>} : y[1] = t}
                = {y \in rows : y[1] = t} \cup {<<t, row>>}
          BY <4>3 DEF new
        <5> DEFINE old == {y \in rows : y[1] = t}
        <5>2. {x[2] : x \in old \cup {<<t, row>>}} = {x[2] : x \in old} \cup {row}
          <6> HIDE DEF old
          <6>1. QED
            BY <4>3 DEF new
        <5>3. QED
          BY <4>2, <5>1, <5>2
      <4>5. ASSUME NEW u, u # t PROVE InTx(c, u) = InTx(m, u)
        <5>1. {y \in rows \cup {<<t, row>>} : y[1] = u} = {y \in rows : y[1] = u}
          BY <4>3, <4>5 DEF new
        <5>2. QED
          BY <4>2, <5>1
      <4>6. QED
        BY <4>4, <4>5
    <3>2. \A u \in Tables :
            IF P(c)[K(c) + 1] = u
            THEN \E x : /\ x \notin Made(n, c, db, u)
                        /\ Made(n, m, db, u) = Made(n, c, db, u) \cup {x}
            ELSE Made(n, m, db, u) = Made(n, c, db, u)
      BY <1>1, <2>5, <3>1 DEF Made
    <3>3. QED
      BY <1>1, <2>3, <3>2, Base, Counts DEF m
  <2>7. TxInv(n, m)
    <3>1. K(m) \in 1..3 /\ m.request.op = "create_project" /\ m.tx.open
      BY <1>2, <2>3, <2>4
    <3>2. \A x \in c.tx.rows : x[2].by = n /\ (x[1] = "projects" => K(c) >= 2)
      BY <1>1, <1>2 DEF Known, TxInv
    <3>3. K(m) >= 2
      BY <1>2, <2>4
    <3>4. \A x \in m.tx.rows : x[2].by = n /\ (x[1] = "projects" => K(m) >= 2)
      BY <1>3, <2>2, <2>3, <2>4, <3>2, <3>3
    <3>5. K(m) = 3 => <<"keys", [by |-> n, project |-> n]>> \in m.tx.rows
      <4>1. K(m) = 3 => t = "keys"
        BY <1>2, <2>4
      <4>2. QED
        BY <1>3, <2>3, <2>4, <4>1
    <3>6. QED
      BY <3>1, <3>4, <3>5 DEF TxInv
  <2>8. DeviceInv(m, db) /\ Of(db, n, "devices") = {}
    BY <1>1, <2>4 DEF DeviceInv, Known, NothingInv
  <2>9. Known(n, m, db)
    BY <1>1, <2>3, <2>6, <2>7, <2>8, Base, KnownNext DEF m
  <2>10. QED
    BY <2>1, <2>3, <2>9, Base DEF Works, e, m, c
<1>7. QED
  BY <1>4, <1>5, <1>6

LEMMA CommitWorks ==
  ASSUME IInv, NEW n \in Open, Head(calls[n].plan) = "commit"
  PROVE  Works(n, Commit(calls[n]))
<1> DEFINE c == calls[n]
           projects == db.projects \cup InTx(c, "projects")
           keys == db.keys \cup InTx(c, "keys")
           d == [db EXCEPT !.projects = projects, !.keys = keys]
           q == [c EXCEPT !.tx = NoTx]
           m == Nxt(q)
<1>1. /\ n \in Calls /\ c \in Call /\ c.answer = "open" /\ Known(n, c, db)
      /\ P(c)[K(c) + 1] = "commit"
  BY Ahead
<1>2. /\ c.request.op = "create_project" /\ Len(P(c)) = 5 /\ c.tx.open /\ K(c) = 3
  BY <1>1, TxPlace DEF Transacted
<1>3. Commit(c) = Goes(d, q)
  BY <1>2 DEF Commit, InTx
<1>4. PICK rows : /\ c.tx = [open |-> TRUE, rows |-> rows]
                  /\ rows \in SUBSET (({"projects"} \X Rows.projects)
                                      \cup ({"keys"} \X Rows.keys))
  BY <1>1, <1>2, TxOpen
<1>5. /\ \A x \in rows : x[2].by = n
      /\ <<"keys", [by |-> n, project |-> n]>> \in rows
  BY <1>1, <1>2, <1>4 DEF Known, TxInv
<1>6. /\ InTx(c, "projects") \subseteq Rows.projects /\ InTx(c, "keys") \subseteq Rows.keys
      /\ \A row \in InTx(c, "projects") \cup InTx(c, "keys") : row.by = n
      /\ [by |-> n, project |-> n] \in InTx(c, "keys")
  BY <1>4, <1>5 DEF InTx
<1>7. Alike(q, c) /\ q.tx = NoTx
  BY <1>1 DEF Alike, Call
<1> HIDE DEF q, projects, keys, c
<1>8. /\ Typed(d) /\ d.projects = projects /\ d.keys = keys
      /\ \A t \in Tables \ {"projects", "keys"} : d[t] = db[t]
  <2> DEFINE f == Put(db, "projects", projects)
             g == Put(f, "keys", keys)
  <2>1. /\ "projects" \in Tables /\ projects \in SUBSET Rows["projects"]
        /\ "keys" \in Tables /\ keys \in SUBSET Rows["keys"] /\ Typed(db)
    <3>1. db.projects \subseteq Rows.projects /\ db.keys \subseteq Rows.keys
      BY Base DEF Typed, Tables, Rows
    <3>2. QED
      BY <1>6, <3>1, Base DEF Tables, Rows, projects, keys
  <2>2. Typed(f) /\ f["projects"] = projects /\ \A t \in Tables \ {"projects"} : f[t] = db[t]
    BY <2>1, TableSet
  <2> HIDE DEF f
  <2>3. Typed(g) /\ g["keys"] = keys /\ \A t \in Tables \ {"keys"} : g[t] = f[t]
    BY <2>1, <2>2, TableSet
  <2>4. g = d
    BY DEF f, Put
  <2> HIDE DEF g, d
  <2>5. QED
    BY <2>1, <2>2, <2>3, <2>4
<1> HIDE DEF d
<1>9. Grows(db, d, n)
  BY <1>6, <1>8 DEF Grows, Adds, Tables, Rows, projects, keys
<1>10. Coherent(d) /\ Keyed(d)
  <2>1. d.devices = db.devices /\ d.audits = db.audits
    BY <1>8 DEF Tables, Rows
  <2>2. \A x, y \in d.devices :
          x.project = y.project /\ x.external = y.external => x = y
    BY <2>1, Base DEF Coherent
  <2>3. \A p \in d.projects \ db.projects : \E k \in d.keys : k.project = p.by
    <3>1. TAKE p \in d.projects \ db.projects
    <3>2. p.by = n
      BY <1>6, <1>8 DEF projects
    <3>3. [by |-> n, project |-> n] \in d.keys
      BY <1>6, <1>8 DEF keys
    <3>4. QED
      BY <3>2, <3>3
  <2>4. QED
    BY <1>8, <1>9, <2>1, <2>2, <2>3, Base, CoherentStays
<1>11. /\ m.request = c.request /\ K(m) = 4 /\ P(m) = P(c)
       /\ m.answer = "open" /\ m.tx = NoTx
  <2>1. K(c) + 1 # Len(P(c)) /\ K(c) + 1 = 4
    BY <1>2
  <2>2. QED
    BY <1>1, <1>7, <2>1, NxtFacts DEF Known
<1> HIDE DEF m
<1>12. CountInv(n, m, d)
  <2>1. \A t : InTx(m, t) = {}
    BY <1>11 DEF InTx, NoTx
  <2>2. \A t \in Tables \ {"projects", "keys"} : InTx(c, t) = {}
    BY <1>1, InTxOnly
  <2>3. /\ Of(d, n, "projects") = Of(db, n, "projects") \cup InTx(c, "projects")
        /\ Of(d, n, "keys") = Of(db, n, "keys") \cup InTx(c, "keys")
        /\ \A t \in Tables \ {"projects", "keys"} : Of(d, n, t) = Of(db, n, t)
    BY <1>6, <1>8 DEF Of, projects, keys
  <2>4. \A t \in Tables : P(c)[K(c) + 1] # t /\ Made(n, m, d, t) = Made(n, c, db, t)
    <3>1. TAKE t \in Tables
    <3>2. P(c)[K(c) + 1] # t
      BY <1>1 DEF Tables, Rows
    <3>3. CASE t \in {"projects", "keys"}
      BY <2>1, <2>3, <3>2, <3>3 DEF Made
    <3>4. CASE t \notin {"projects", "keys"}
      BY <2>1, <2>2, <2>3, <3>2, <3>4 DEF Made
    <3>5. QED
      BY <3>3, <3>4
  <2>5. Of(d, n, "events") = Of(db, n, "events")
    BY <2>3 DEF Tables, Rows
  <2>6. QED
    BY <1>1, <1>7, <1>8, <2>4, <2>5, Counts DEF m
<1>13. TxInv(n, m)
  BY <1>2, <1>11 DEF TxInv, NoTx
<1>14. DeviceInv(m, d) /\ Of(d, n, "devices") = {}
  BY <1>1, <1>8, <1>11 DEF DeviceInv, Known, NothingInv, Of, Tables, Rows
<1>15. Known(n, m, d)
  BY <1>1, <1>7, <1>9, <1>12, <1>13, <1>14, Base, KnownNext DEF m
<1>16. QED
  BY <1>3, <1>7, <1>8, <1>9, <1>10, <1>15, Base DEF Works, Goes, m, c

\* A device is stored once, and the call is given the one that is stored.
LEMMA DeviceWorks ==
  ASSUME IInv, NEW n \in Open, Head(calls[n].plan) = "device"
  PROVE  Works(n, Upsert(n))
<1> DEFINE c == calls[n]
           x == c.request.external
           same == {y \in db.devices : y.project = c.project /\ y.external = x}
           row == IF same # {} THEN CHOOSE y \in same : TRUE
                  ELSE [by |-> n, project |-> c.project, external |-> x]
           devices == db.devices \cup {row}
           d == [db EXCEPT !["devices"] = devices]
           q == [c EXCEPT !.device = row.by]
           m == Nxt(q)
<1>1. /\ n \in Calls /\ c \in Call /\ c.answer = "open" /\ Known(n, c, db)
      /\ P(c)[K(c) + 1] = "device" /\ K(c) + 1 \in 1..Len(P(c))
      /\ c.project \in Int /\ x \in STRING
  BY Ahead, CallFacts DEF Call, RequestType
<1>2. /\ c.request.op = "register_device" /\ K(c) + 1 = Len(P(c))
  <2>1. c.request.op = "register_device" /\ K(c) + 1 = 2 /\ Len(P(c)) = 2
    BY <1>1, CallFacts, PlanFacts DEF P
  <2>2. QED
    BY <2>1
<1>3. Upsert(n) = Goes(d, q)
  BY DEF Upsert, Inserted
<1> HIDE DEF x
<1>4. /\ row \in Rows.devices /\ row.project = c.project /\ row.external = x
      /\ row \in db.devices \/ (row.by = n /\ same = {})
  <2>1. CASE same # {}
    <3>1. row \in same
      BY <2>1
    <3> HIDE DEF row
    <3>2. row \in db.devices /\ row.project = c.project /\ row.external = x
      BY <3>1
    <3>3. QED
      BY <3>2, Base DEF Typed, Tables, Rows
  <2>2. CASE same = {}
    <3>1. row = [by |-> n, project |-> c.project, external |-> x]
      BY <2>2
    <3> HIDE DEF row
    <3>2. row \in Rows.devices
      BY <1>1, <3>1, Base DEF Rows
    <3>3. QED
      BY <2>2, <3>1, <3>2
  <2>3. QED
    BY <2>1, <2>2
<1> HIDE DEF row
<1>5. Alike(q, c) /\ q.tx = c.tx /\ q.device = row.by /\ q.project = c.project
  <2>1. row.by \in Int
    BY <1>4 DEF Rows
  <2>2. QED
    BY <1>1, <2>1 DEF Alike, Call
<1> HIDE DEF q, c
<1>6. /\ Typed(d) /\ d.devices = devices
      /\ \A t \in Tables \ {"devices"} : d[t] = db[t]
  <2>1. "devices" \in Tables /\ devices \in SUBSET Rows["devices"] /\ Typed(db)
    <3>1. db.devices \subseteq Rows.devices
      BY Base DEF Typed, Tables, Rows
    <3>2. QED
      BY <1>4, <3>1, Base DEF Tables, Rows
  <2>2. d = Put(db, "devices", devices)
    BY DEF Put
  <2> HIDE DEF d
  <2>3. QED
    BY <2>1, <2>2, TableSet
<1> HIDE DEF d
<1>7. Grows(db, d, n)
  BY <1>4, <1>6 DEF Grows, Adds, Tables, Rows
<1>8. Coherent(d) /\ Keyed(d)
  <2>1. d.projects = db.projects /\ d.audits = db.audits
    BY <1>6 DEF Tables, Rows
  <2>2. \A y, z \in d.devices :
          y.project = z.project /\ y.external = z.external => y = z
    <3>1. \A y, z \in db.devices :
            y.project = z.project /\ y.external = z.external => y = z
      BY Base DEF Coherent
    <3>2. CASE row \in db.devices
      BY <1>6, <3>1, <3>2
    <3>3. CASE same = {}
      <4>1. \A y \in db.devices : ~(y.project = row.project /\ y.external = row.external)
        BY <1>4, <3>3
      <4>2. QED
        BY <1>6, <3>1, <4>1
    <3>4. QED
      BY <1>4, <3>2, <3>3
  <2>3. QED
    BY <1>6, <1>7, <2>1, <2>2, Base, CoherentStays
<1>9. /\ m.answer = "ok" /\ m.request = c.request /\ m.device = row.by
      /\ m.project = c.project
  BY <1>1, <1>2, <1>5, NxtFacts DEF Known
<1>10. /\ TxInv(n, m) /\ \A t : InTx(c, t) = {} /\ InTx(m, t) = {}
  <2>1. P(c)[K(c) + 1] \notin Transacted
    BY <1>1 DEF Transacted
  <2>2. QED
    BY <1>1, <1>5, <2>1, TxNext
<1> HIDE DEF m
<1>11. CountInv(n, m, d)
  <2>1. \A t \in Tables \ {"devices"} :
          P(c)[K(c) + 1] # t /\ Made(n, m, d, t) = Made(n, c, db, t)
    BY <1>1, <1>6, <1>10 DEF Made, Of, Tables, Rows
  <2>2. Of(d, n, "events") = Of(db, n, "events")
    BY <1>6 DEF Of, Tables, Rows
  <2>3. QED
    BY <1>1, <1>5, <1>6, <2>1, <2>2, Counts DEF m
<1>12. DeviceInv(m, d)
  BY <1>4, <1>6, <1>9 DEF DeviceInv, x
<1>13. Known(n, m, d)
  <2>1. P(c)[K(c) + 1] # "end"
    BY <1>1
  <2>2. QED
    BY <1>1, <1>2, <1>5, <1>7, <1>10, <1>11, <1>12, <2>1, Base, KnownNext DEF m
<1>14. QED
  BY <1>3, <1>5, <1>6, <1>7, <1>8, <1>13, Base DEF Works, Goes, m, c

\* What the audit row tells of is there before it.
LEMMA AuditRowTells ==
  ASSUME IInv, NEW n \in Open, Head(calls[n].plan) = "audits"
  PROVE  /\ calls[n].request.op \in DOMAIN AuditedTable \cup {"end_session"}
         /\ Truthful(Row(n, "audits"), db)
<1> DEFINE c == calls[n]
           r == c.request
           i == K(c) + 1
           a == Row(n, "audits")
<1>1. /\ n \in Calls /\ c \in Call /\ c.answer = "open" /\ Known(n, c, db)
      /\ K(c) \in Nat /\ i \in 1..Len(P(c)) /\ P(c)[i] = "audits" /\ Alike(c, c)
  BY Ahead, Base
<1>2. a.by = n /\ a.action = r.op /\ a.session = r.session
  BY DEF Row
<1> HIDE DEF c, a
<1>3. /\ r.op \in DOMAIN AuditedTable \cup {"end_session"}
      /\ r.op = "end_session" => i = 4
      /\ r.op \in DOMAIN AuditedTable =>
           \E j \in 1..(i - 1) : P(c)[j] = AuditedTable[r.op]
  BY <1>1, CallFacts, PlanFacts DEF P
<1>4. CASE r.op = "end_session"
  <2>1. K(c) >= 3
    BY <1>1, <1>3, <1>4
  <2>2. \E x \in db.runs : x.by = r.session /\ x.ended
    BY <1>1, <1>4, <2>1 DEF Known, SessionInv, Under
  <2>3. Truthful(a, db)
    BY <1>2, <1>4, <2>2 DEF Truthful
  <2>4. QED
    BY <1>3, <2>3 DEF a, c
<1>5. CASE r.op \in DOMAIN AuditedTable /\ r.op # "end_session"
  <2> DEFINE t == AuditedTable[r.op]
  <2>1. t \in Tables \ {"devices"}
    BY <1>5 DEF AuditedTable, Tables, Rows
  <2>2. PICK j \in 1..(i - 1) : P(c)[j] = t
    BY <1>3, <1>5
  <2> HIDE DEF t
  <2>3. j \in Executed(c, t)
    BY <1>1, <2>2 DEF Executed
  <2>4. /\ IsFiniteSet(Made(n, c, db, t))
        /\ Cardinality(Made(n, c, db, t)) = Cardinality(Executed(c, t))
    BY <1>1, <2>1 DEF Known, CountInv, Under
  <2>5. IsFiniteSet(Executed(c, t))
    BY <1>1, <2>1, OneMore DEF Known
  <2>6. Made(n, c, db, t) # {}
    BY <2>3, <2>4, <2>5, FS_EmptySet
  <2>7. InTx(c, t) = {}
    BY <1>1, TxNext DEF Transacted
  <2>8. n \in IdsIn(db, t)
    BY <2>6, <2>7 DEF Made, Of, IdsIn
  <2>9. Truthful(a, db)
    BY <1>2, <1>5, <2>8 DEF Truthful, t
  <2>10. QED
    BY <1>5, <2>9 DEF a, c
<1>6. QED
  BY <1>3, <1>4, <1>5

\* The other inserts take effect at once.
LEMMA InsertWorks ==
  ASSUME IInv, NEW n \in Open, NEW t \in Inserts \ {"projects", "keys"},
         Head(calls[n].plan) = t
  PROVE  Works(n, Insert(n, t))
<1> DEFINE c == calls[n]
           row == Row(n, t)
           new == db[t] \cup {row}
           d == [db EXCEPT ![t] = new]
           m == Nxt(c)
           e == Insert(n, t)
<1>1. /\ n \in Calls /\ c \in Call /\ c.answer = "open" /\ Known(n, c, db)
      /\ P(c)[K(c) + 1] = t /\ K(c) + 1 \in 1..Len(P(c)) /\ Alike(c, c)
      /\ t \in Tables \ {"projects", "keys", "devices"}
  BY Ahead, Base DEF Inserts, Tables, Rows
<1>2. /\ TxInv(n, m) /\ ~c.tx.open /\ \A u : InTx(c, u) = {} /\ InTx(m, u) = {}
  <2>1. P(c)[K(c) + 1] \notin Transacted
    BY <1>1 DEF Inserts, Transacted
  <2> HIDE DEF c
  <2>2. QED
    BY <1>1, <2>1, TxNext
<1>3. row \in Rows[t] /\ row.by = n
  BY <1>1, AuditRowTells, RowFacts
<1>4. e = Refuses(c, "failed") \/ e = Goes(d, c)
  BY <1>2 DEF Insert, Inserted
<1>5. t = "audits" => Truthful(row, db)
  BY AuditRowTells
<1>6. t = "events" => row.left = Len(c.plan)
  BY DEF Row
<1> HIDE DEF row
<1>7. CASE e = Refuses(c, "failed")
  <2>1. e.db = db /\ e.call = c /\ e.refusal = "failed"
    BY <1>7 DEF Refuses
  <2> HIDE DEF e
  <2>2. QED
    BY <2>1, Base DEF Works, e
<1>8. CASE e = Goes(d, c)
  <2>1. e.db = d /\ e.call = c /\ e.refusal = "none"
    BY <1>8 DEF Goes
  <2>2. /\ Typed(d) /\ d[t] = new
        /\ \A u \in Tables \ {t} : d[u] = db[u]
    BY <1>1, <1>3, Base DEF Typed
  <2> HIDE DEF e, d
  <2>3. Grows(db, d, n)
    <3>1. \A u \in Tables : Adds(db, d, n, u)
      BY <1>3, <2>2 DEF Adds
    <3>2. QED
      BY <3>1 DEF Grows, Tables, Rows
  <2>4. Coherent(d) /\ Keyed(d)
    <3>1. d.devices = db.devices /\ d.projects = db.projects
      BY <1>1, <2>2 DEF Tables, Rows
    <3>2. \A x, y \in d.devices :
            x.project = y.project /\ x.external = y.external => x = y
      BY <3>1, Base DEF Coherent
    <3>3. \A a \in d.audits \ db.audits : Truthful(a, d)
      <4>1. TAKE a \in d.audits \ db.audits
      <4>2. t = "audits" /\ a = row
        BY <2>2 DEF Tables, Rows
      <4>3. QED
        BY <1>3, <1>5, <2>3, <4>2, Base, TruthStays
    <3>4. QED
      BY <2>2, <2>3, <3>1, <3>2, <3>3, Base, CoherentStays
  <2>5. row \notin Made(n, c, db, t)
    <3>1. CASE t = "events"
      <4>1. CountInv(n, c, db) /\ Len(c.plan) \in Nat
        BY <1>1, CallFacts DEF Known
      <4> HIDE DEF c
      <4>2. row \notin Of(db, n, "events")
        BY <1>1, <1>6, <3>1, <4>1 DEF CountInv
      <4>3. QED
        BY <1>2, <3>1, <4>2 DEF Made
    <3>2. CASE t # "events"
      BY <1>1, <3>2, NoneYet
    <3>3. QED
      BY <3>1, <3>2
  <2> HIDE DEF c, m
  <2>6. /\ Of(d, n, t) = Of(db, n, t) \cup {row}
        /\ \A u \in Tables \ {t} : Of(d, n, u) = Of(db, n, u)
    BY <1>3, <2>2 DEF Of
  <2>7. CountInv(n, m, d)
    <3>1. \A u \in Tables : Made(n, m, d, u) = Of(d, n, u) /\ Made(n, c, db, u) = Of(db, n, u)
      BY <1>2 DEF Made
    <3>2. \A u \in Tables \ {"devices"} :
            IF P(c)[K(c) + 1] = u
            THEN \E x : /\ x \notin Made(n, c, db, u)
                        /\ Made(n, m, d, u) = Made(n, c, db, u) \cup {x}
            ELSE Made(n, m, d, u) = Made(n, c, db, u)
      BY <1>1, <2>5, <2>6, <3>1
    <3>3. \A x \in Of(d, n, "events") :
            x \in Of(db, n, "events") \/ x.left = Len(c.plan)
      BY <1>1, <1>6, <2>6 DEF Tables, Rows
    <3>4. QED
      BY <1>1, <2>2, <3>2, <3>3, Counts DEF m
  <2>8. DeviceInv(m, d) /\ Of(d, n, "devices") = {}
    <3>1. Of(d, n, "devices") = {}
      BY <1>1, <2>6 DEF Known, NothingInv, Tables, Rows
    <3>2. /\ m.request = c.request /\ (m.answer = "ok" => K(c) + 1 = Len(P(c)))
      BY <1>1, NxtFacts DEF Known, m
    <3>3. ~(m.answer = "ok" /\ m.request.op = "register_device")
      <4>1. SUFFICES ASSUME m.answer = "ok", m.request.op = "register_device"
                     PROVE  FALSE
        OBVIOUS
      <4>2. P(c) = <<"auth", "device">> /\ K(c) + 1 = Len(P(c))
        BY <3>2, <4>1, PlanIs DEF P, RegisterDevice
      <4>3. P(c)[2] = "device" /\ K(c) + 1 = 2
        BY <4>2
      <4>4. t = "device"
        BY <1>1, <4>3
      <4>5. QED
        BY <4>4 DEF Inserts
    <3>4. QED
      BY <3>1, <3>3 DEF DeviceInv
  <2>9. Known(n, m, d)
    <3>1. P(c)[K(c) + 1] \notin {"owner", "end", "device"}
      BY <1>1 DEF Inserts
    <3>2. QED
      BY <1>1, <1>2, <2>3, <2>7, <2>8, <3>1, Base, KnownNext DEF m
  <2>10. QED
    BY <1>1, <2>1, <2>2, <2>3, <2>4, <2>9 DEF Works, m, c, e
<1>9. QED
  BY <1>4, <1>7, <1>8

\* Every statement works, and authentication only reads.
LEMMA EffectWorks ==
  ASSUME IInv, NEW n \in Open
  PROVE  /\ Works(n, Effect(n))
         /\ Head(calls[n].plan) = "auth" =>
              Effect(n).db = db /\ \A t \in Tables : Of(db, n, t) = {}
<1> DEFINE c == calls[n]
           s == Head(c.plan)
<1>1. s \in Statements /\ s # "devices"
  BY Ahead, CallFacts, PlanFacts DEF P
<1>2. s \in {"auth", "owner", "read", "begin", "commit", "device", "touch", "end"}
        \cup {"projects", "keys"} \cup (Inserts \ {"projects", "keys"})
  BY <1>1 DEF Statements, Tables, Rows, Inserts
<1>3. CASE s = "auth"
  BY <1>3, AuthWorks, NothingYet DEF Effect
<1>4. CASE s = "owner"
  BY <1>4, OwnerWorks DEF Effect
<1>5. CASE s = "read"
  BY <1>5, ReadWorks DEF Effect
<1>6. CASE s = "begin"
  BY <1>6, BeginWorks DEF Effect
<1>7. CASE s = "commit"
  BY <1>7, CommitWorks DEF Effect
<1>8. CASE s = "device"
  BY <1>8, DeviceWorks DEF Effect
<1>9. CASE s = "touch"
  BY <1>9, MarkWorks DEF Effect
<1>10. CASE s = "end"
  BY <1>10, MarkWorks DEF Effect
<1>11. CASE s \in {"projects", "keys"}
  <2>1. Effect(n) = Insert(n, s)
    BY <1>11 DEF Effect
  <2>2. QED
    BY <1>11, <2>1, InsertInTxWorks
<1>12. CASE s \in Inserts \ {"projects", "keys"}
  <2>1. Effect(n) = Insert(n, s)
    BY <1>12 DEF Effect, Inserts
  <2>2. s # "auth"
    BY <1>12 DEF Inserts
  <2>3. QED
    BY <1>12, <2>1, <2>2, InsertWorks
<1>13. QED
  BY <1>2, <1>3, <1>4, <1>5, <1>6, <1>7, <1>8, <1>9, <1>10, <1>11, <1>12

-----------------------------------------------------------------------------
(* The steps *)

\* The call after an answer.
Done(c, a) == [c EXCEPT !.plan = <<>>, !.tx = NoTx, !.answer = a]

\* A call that is answered without success has nothing more to keep true.
LEMMA EndsWell ==
  ASSUME NEW n, NEW c \in Call, NEW d,
         NEW a \in {"bad_request", "unauthorized", "not_found", "failed", "lost"},
         a \in {"bad_request", "unauthorized", "not_found"} =>
           \A t \in Tables : Of(d, n, t) = {}
  PROVE  Done(c, a) \in Call /\ CallInv(n, Done(c, a), d) /\ Done(c, a).answer = a
<1> DEFINE m == Done(c, a)
<1>1. PICK r \in Requests, pj \in Int, dv \in Int, pl \in Seq(Statements),
           tx \in {NoTx} \cup Transaction,
           o \in {"open", "ok", "bad_request", "unauthorized", "not_found",
                  "failed", "lost"} :
        c = [request |-> r, project |-> pj, device |-> dv, plan |-> pl, tx |-> tx,
             answer |-> o]
  BY DEF Call
<1>2. Done(c, a) = [c EXCEPT !.plan = <<>>, !.tx = NoTx, !.answer = a]
  BY DEF Done
<1>3. m = [request |-> r, project |-> pj, device |-> dv, plan |-> <<>>, tx |-> NoTx,
           answer |-> a]
  BY <1>1, <1>2
<1> HIDE DEF m
<1>4. <<>> \in Seq(Statements)
  OBVIOUS
<1>5. m \in Call /\ m.plan = <<>> /\ m.tx = NoTx /\ m.answer = a /\ m # NoCall
  BY <1>3, <1>4 DEF Call, NoCall
<1>6. Known(n, m, d)
  <2>1. m.answer # "open" /\ m.answer # "ok"
    BY <1>5
  <2>2. NothingInv(n, m, d)
    BY <1>5, <2>1 DEF NothingInv, Refused
  <2>3. QED
    BY <1>5, <2>1, <2>2 DEF Known, PlanInv, CountInv, Under, TxInv, SessionInv, DeviceInv
<1>7. QED
  BY <1>5, <1>6 DEF CallInv, m

\* One call moves and the database grows by its rows: the others keep what they
\* know.
LEMMA StepInv ==
  ASSUME IInv, NEW n \in Calls, NEW m \in Call, n \in Open \/ db' = db,
         up = "serving", up' = up, pool' = pool, failures' \in 0..MaxFailures,
         crashes' = crashes, calls' = [calls EXCEPT ![n] = m],
         Typed(db'), Coherent(db'), Keyed(db'), Grows(db, db', n), CallInv(n, m, db')
  PROVE  IInv'
<1>1. calls \in [Calls -> {NoCall} \cup Call] /\ Typed(db)
  BY DEF IInv, TypeOK, Typed, Coherent
<1>2. calls' \in [Calls -> {NoCall} \cup Call]
  BY <1>1
<1>3. TypeOK'
  BY <1>2 DEF IInv, TypeOK, Typed
<1>4. ASSUME NEW k \in Calls PROVE CallInv(k, calls'[k], db')
  <2>1. CASE k = n
    BY <1>1, <2>1
  <2>2. CASE k # n
    <3>1. calls'[k] = calls[k] /\ CallInv(k, calls[k], db) /\ calls[k] \in {NoCall} \cup Call
      BY <1>1, <2>2 DEF IInv
    <3>2. QED
      BY <1>1, <2>2, <3>1, OthersKeep
  <2>3. QED
    BY <2>1, <2>2
<1>5. QED
  BY <1>3, <1>4 DEF IInv

LEMMA ExecuteInv ==
  ASSUME IInv, NEW n \in Calls, Execute(n)
  PROVE  IInv'
<1> DEFINE e == Effect(n)
<1>1. /\ n \in Open /\ up = "serving" /\ db' = e.db
      /\ IF e.refusal = "none" THEN Continued(n, e.call) ELSE Answered(n, e.call, e.refusal)
      /\ up' = up /\ pool' = pool /\ failures' = failures /\ crashes' = crashes
  BY DEF Execute, Ready
<1>2. Works(n, e) /\ calls[n] \in Call
  BY <1>1, EffectWorks, Ahead
<1> HIDE DEF e
<1>3. failures' \in 0..MaxFailures
  BY <1>1 DEF IInv, TypeOK
<1>4. CASE e.refusal = "none"
  <2>1. calls' = [calls EXCEPT ![n] = Nxt(e.call)]
    BY <1>1, <1>4 DEF Continued, Answered, Nxt
  <2>2. Nxt(e.call) \in Call /\ Nxt(e.call) # NoCall
    BY <1>1, <1>2, <1>4, NxtFacts, Ahead DEF Works, Known
  <2>3. CallInv(n, Nxt(e.call), e.db)
    BY <1>2, <1>4, <2>2 DEF Works, CallInv
  <2>4. QED
    BY <1>1, <1>2, <1>3, <2>1, <2>2, <2>3, StepInv DEF Works
<1>5. CASE e.refusal # "none"
  <2>1. calls' = [calls EXCEPT ![n] = Done(calls[n], e.refusal)]
    BY <1>1, <1>2, <1>5 DEF Works, Answered, Done
  <2>2. /\ Done(calls[n], e.refusal) \in Call
        /\ CallInv(n, Done(calls[n], e.refusal), db)
    BY <1>2, <1>5, EndsWell DEF Works
  <2>3. db' = db
    BY <1>1, <1>2, <1>5 DEF Works
  <2>4. QED
    BY <1>1, <1>2, <1>3, <2>1, <2>2, <2>3, StepInv DEF Works
<1>6. QED
  BY <1>4, <1>5

LEMMA FailInv ==
  ASSUME IInv, NEW n \in Calls, Fail(n)
  PROVE  IInv'
<1> DEFINE a == IF Head(calls[n].plan) = "auth" THEN "unauthorized" ELSE "failed"
           m == Done(calls[n], a)
<1>1. /\ n \in Open /\ up = "serving" /\ db' \in {db, Effect(n).db}
      /\ calls' = [calls EXCEPT ![n] = m]
      /\ up' = up /\ pool' = pool /\ crashes' = crashes
      /\ failures < MaxFailures /\ failures' = failures + 1
  BY DEF Fail, Ready, Answered, Done
<1>2. Works(n, Effect(n)) /\ calls[n] \in Call
  BY <1>1, EffectWorks, Ahead
<1>3. failures' \in 0..MaxFailures
  BY <1>1, ApiAssumption DEF IInv, TypeOK
<1>4. Typed(db') /\ Coherent(db') /\ Keyed(db') /\ Grows(db, db', n)
  BY <1>1, <1>2, Base DEF Works
<1>5. a = "unauthorized" => db' = db /\ \A t \in Tables : Of(db, n, t) = {}
  BY <1>1, EffectWorks
<1>6. a \in {"unauthorized", "failed"}
  OBVIOUS
<1> HIDE DEF a
<1>7. m \in Call /\ CallInv(n, m, db')
  BY <1>2, <1>5, <1>6, EndsWell
<1> HIDE DEF m
<1>8. QED
  BY <1>1, <1>3, <1>4, <1>7, StepInv

LEMMA PoolTimeoutInv ==
  ASSUME IInv, NEW n \in Calls, PoolTimeout(n)
  PROVE  IInv'
<1> DEFINE a == IF Head(calls[n].plan) = "auth" THEN "unauthorized" ELSE "failed"
           m == Done(calls[n], a)
<1>1. /\ n \in Open /\ up = "serving" /\ db' = db
      /\ calls' = [calls EXCEPT ![n] = m]
      /\ up' = up /\ pool' = pool /\ crashes' = crashes
      /\ failures < MaxFailures /\ failures' = failures + 1
  BY DEF PoolTimeout, Answered, Done
<1>2. calls[n] \in Call
  BY <1>1, Ahead
<1>3. failures' \in 0..MaxFailures
  BY <1>1, ApiAssumption DEF IInv, TypeOK
<1>4. Typed(db') /\ Coherent(db') /\ Keyed(db') /\ Grows(db, db', n)
  BY <1>1, Base
<1>5. a = "unauthorized" => \A t \in Tables : Of(db, n, t) = {}
  BY <1>1, EffectWorks
<1>6. a \in {"unauthorized", "failed"}
  OBVIOUS
<1> HIDE DEF a
<1>7. m \in Call /\ CallInv(n, m, db)
  BY <1>2, <1>5, <1>6, EndsWell
<1> HIDE DEF m
<1>8. QED
  BY <1>1, <1>3, <1>4, <1>7, StepInv

LEMMA AcceptInv ==
  ASSUME IInv, NEW n \in Calls, Accept(n)
  PROVE  IInv'
<1>1. PICK r \in Requests :
        LET badName == r.op = "create_project" /\ r.body = "invalid" IN
        calls' = [calls EXCEPT ![n] =
                    [request |-> r, project |-> Nobody, device |-> Nobody,
                     plan   |-> IF badName THEN <<>> ELSE Plan(r), tx |-> NoTx,
                     answer |-> IF badName THEN "bad_request" ELSE "open"]]
  BY DEF Accept
<1> DEFINE badName == r.op = "create_project" /\ r.body = "invalid"
           pl == IF badName THEN <<>> ELSE Plan(r)
           a == IF badName THEN "bad_request" ELSE "open"
           m == [request |-> r, project |-> Nobody, device |-> Nobody,
                 plan |-> pl, tx |-> NoTx, answer |-> a]
<1>2. /\ up = "serving" /\ calls[n] = NoCall /\ calls' = [calls EXCEPT ![n] = m]
      /\ up' = up /\ pool' = pool /\ db' = db /\ failures' = failures /\ crashes' = crashes
  BY <1>1 DEF Accept
<1>3. \A t \in Tables : Of(db, n, t) = {}
  BY <1>2 DEF IInv, CallInv
<1>4. r \in RequestType
  BY ApiAssumption
<1>5. Plan(r) \in Seq(Statements) /\ Len(Plan(r)) >= 1 /\ Len(Plan(r)) \in Nat
  BY <1>4, PlanFacts
<1>6. pl \in Seq(Statements) /\ a \in {"bad_request", "open"}
  BY <1>5
<1>7. badName \/ (pl = Plan(r) /\ a = "open")
  OBVIOUS
<1>8. badName => pl = <<>> /\ a = "bad_request"
  OBVIOUS
<1> HIDE DEF badName, pl, a
<1>9. m \in Call /\ m # NoCall
  <2>1. m.request = r
    OBVIOUS
  <2>2. m \in Call
    BY <1>6 DEF Call, Nobody
  <2>3. QED
    BY <2>2 DEF Call, NoCall
<1>10. m.request = r /\ m.plan = pl /\ m.tx = NoTx /\ m.answer = a
  OBVIOUS
<1> HIDE DEF m
<1>11. Known(n, m, db)
  <2>1. CASE badName
    <3>1. m.answer = "bad_request" /\ m.plan = <<>>
      BY <1>8, <1>10, <2>1
    <3>2. QED
      BY <1>3, <1>10, <3>1
         DEF Known, PlanInv, CountInv, NothingInv, Under, TxInv, SessionInv, DeviceInv
  <2>2. CASE ~badName
    <3>1. m.answer = "open" /\ m.plan = P(m)
      BY <1>7, <1>10, <2>2 DEF P
    <3>2. Len(P(m)) \in Nat /\ Len(P(m)) >= 1
      BY <1>5, <1>10 DEF P
    <3>3. K(m) = 0
      BY <3>1, <3>2 DEF K
    <3>4. PlanInv(m)
      BY <3>1, <3>2, <3>3 DEF PlanInv
    <3>5. CountInv(n, m, db)
      <4>1. ASSUME NEW t \in Tables
            PROVE  /\ IsFiniteSet(Made(n, m, db, t))
                   /\ Cardinality(Made(n, m, db, t)) = Cardinality(Executed(m, t))
        <5>1. Made(n, m, db, t) = {}
          BY <1>3, <1>10 DEF Made, InTx, NoTx
        <5>2. Executed(m, t) = {}
          BY <3>3 DEF Executed
        <5>3. QED
          BY <5>1, <5>2, FS_EmptySet
      <4>2. Of(db, n, "events") = {}
        BY <1>3 DEF Tables, Rows
      <4>3. QED
        BY <4>1, <4>2 DEF CountInv
    <3>6. NothingInv(n, m, db)
      BY <1>3 DEF NothingInv, Tables, Rows
    <3>7. TxInv(n, m) /\ SessionInv(m, db) /\ DeviceInv(m, db)
      BY <1>10, <3>1, <3>3 DEF TxInv, SessionInv, DeviceInv, NoTx
    <3>8. QED
      BY <3>4, <3>5, <3>6, <3>7 DEF Known
  <2>3. QED
    BY <2>1, <2>2
<1>12. Typed(db') /\ Coherent(db') /\ Keyed(db') /\ Grows(db, db', n)
  BY <1>2 DEF IInv, Typed, Coherent, Grows, Adds
<1>13. CallInv(n, m, db') /\ failures' \in 0..MaxFailures
  BY <1>2, <1>9, <1>11 DEF CallInv, IInv, TypeOK
<1>14. QED
  BY <1>2, <1>9, <1>12, <1>13, StepInv

LEMMA CrashInv ==
  ASSUME IInv, Crash
  PROVE  IInv'
<1>1. /\ up' = "down" /\ pool' = pool /\ db' = db /\ failures' = failures
      /\ crashes < MaxCrashes /\ crashes' = crashes + 1
      /\ calls' = [n \in Calls |-> IF n \in Open THEN Done(calls[n], "lost") ELSE calls[n]]
  BY DEF Crash, Done
<1>2. ASSUME NEW n \in Calls
      PROVE  /\ calls'[n] \in {NoCall} \cup Call /\ calls'[n].answer # "open"
             /\ CallInv(n, calls'[n], db)
  <2>1. calls[n] \in {NoCall} \cup Call /\ CallInv(n, calls[n], db)
    BY DEF IInv, TypeOK
  <2>2. CASE n \in Open
    <3>1. calls'[n] = Done(calls[n], "lost") /\ calls[n] \in Call
      BY <1>1, <2>2, Ahead
    <3>2. QED
      BY <3>1, EndsWell
  <2>3. CASE n \notin Open
    BY <1>1, <2>1, <2>3 DEF Open
  <2>4. QED
    BY <2>2, <2>3
<1>3. Open' = {}
  BY <1>2 DEF Open
<1>4. TypeOK'
  <2>1. calls' \in [Calls -> {NoCall} \cup Call]
    BY <1>1, <1>2
  <2>2. crashes' \in 0..MaxCrashes
    BY <1>1, ApiAssumption DEF IInv, TypeOK
  <2>3. QED
    BY <1>1, <2>1, <2>2 DEF IInv, TypeOK
<1>5. QED
  BY <1>1, <1>2, <1>3, <1>4 DEF IInv

\* A step of the start writes rows of the development project only.
LEMMA BootInv ==
  ASSUME IInv, up # "serving",
         up' \in {"migrate", "seed_project", "seed_key", "serving"},
         UNCHANGED <<pool, calls, failures, crashes>>,
         Typed(db'), Coherent(db'), Grows(db, db', Seed),
         up' = "serving" => Keyed(db')
  PROVE  IInv'
<1>1. TypeOK'
  BY DEF IInv, TypeOK, Typed
<1>2. Open' = {}
  BY DEF IInv, Open
<1>3. ASSUME NEW n \in Calls PROVE CallInv(n, calls'[n], db')
  <2>1. n # Seed /\ calls[n] \in {NoCall} \cup Call /\ CallInv(n, calls[n], db)
    BY ApiAssumption DEF IInv, TypeOK, Calls, Seed
  <2>2. Typed(db) /\ calls' = calls
    BY DEF IInv, TypeOK, Typed
  <2>3. QED
    BY <2>1, <2>2, OthersKeep
<1>4. QED
  BY <1>1, <1>2, <1>3 DEF IInv

LEMMA StartInv ==
  ASSUME IInv, StartServer \/ Migrate
  PROVE  IInv'
<1>1. /\ up # "serving" /\ up' \in {"migrate", "seed_project"} /\ db' = db
      /\ UNCHANGED <<pool, calls, failures, crashes>>
  BY DEF StartServer, Migrate, Boot
<1>2. Typed(db') /\ Coherent(db') /\ Grows(db, db', Seed)
  BY <1>1 DEF IInv, Typed, Coherent, Grows, Adds
<1>3. QED
  BY <1>1, <1>2, BootInv

LEMMA SeedProjectInv ==
  ASSUME IInv, SeedProject
  PROVE  IInv'
<1> DEFINE row == [by |-> Seed, slug |-> DevSlug]
<1>1. /\ up # "serving" /\ up' = "seed_key"
      /\ UNCHANGED <<pool, calls, failures, crashes>>
      /\ db' = IF OfSlug(DevSlug) # {} THEN db
               ELSE [db EXCEPT !.projects = @ \cup {row}]
  BY DEF SeedProject, Boot
<1>2. Typed(db) /\ Coherent(db) /\ \A w : Grows(db, db, w)
  BY DEF IInv, Typed, Coherent, Grows, Adds
<1>3. row \in Rows.projects /\ row.by = Seed /\ row.slug = DevSlug
  BY ApiAssumption DEF Rows, Seed
<1> HIDE DEF row
<1>4. CASE OfSlug(DevSlug) # {}
  BY <1>1, <1>2, <1>4, BootInv
<1>5. CASE OfSlug(DevSlug) = {}
  <2>1. /\ Typed(db') /\ db'.projects = db.projects \cup {row}
        /\ \A t \in Tables \ {"projects"} : db'[t] = db[t]
    <3>1. db' = Put(db, "projects", db.projects \cup {row})
      BY <1>1, <1>5 DEF Put
    <3>2. "projects" \in Tables /\ db.projects \cup {row} \in SUBSET Rows["projects"]
      BY <1>2, <1>3 DEF Typed, Tables, Rows
    <3>3. QED
      BY <1>2, <3>1, <3>2, TableSet
  <2>2. Grows(db, db', Seed)
    BY <1>3, <2>1 DEF Grows, Adds, Tables, Rows
  <2>3. db'.keys = db.keys /\ db'.devices = db.devices /\ db'.audits = db.audits
    BY <2>1 DEF Tables, Rows
  <2>4. Seed \notin IdsIn(db, "keys")
    BY <1>2, <1>5 DEF Coherent, OfSlug
  <2>5. Coherent(db')
    <3>1. \A p \in db'.projects : Unkeyed(p, db') \/ \E k \in db'.keys : k.project = p.by
      BY <1>2, <1>3, <2>1, <2>3, <2>4 DEF Coherent, Unkeyed, IdsIn
    <3>2. \A a \in db'.audits : Truthful(a, db')
      <4>1. TAKE a \in db'.audits
      <4>2. a \in Rows.audits /\ Truthful(a, db)
        BY <1>2, <2>3 DEF Coherent, Typed, Tables, Rows
      <4>3. QED
        BY <1>2, <2>2, <4>2, TruthStays
    <3>3. Seed \notin IdsIn(db', "keys")
      BY <2>3, <2>4 DEF IdsIn
    <3>4. \A x, y \in db'.devices :
            x.project = y.project /\ x.external = y.external => x = y
      BY <1>2, <2>3 DEF Coherent
    <3>5. QED
      BY <2>1, <3>1, <3>2, <3>3, <3>4 DEF Coherent, Typed
  <2>6. QED
    BY <1>1, <2>1, <2>2, <2>5, BootInv
<1>6. QED
  BY <1>4, <1>5

LEMMA SeedKeyInv ==
  ASSUME IInv, SeedKey
  PROVE  IInv'
<1> DEFINE new == {[by |-> Seed, project |-> p.by] : p \in OfSlug(DevSlug)}
<1>1. /\ up # "serving" /\ up' = "serving"
      /\ UNCHANGED <<pool, calls, failures, crashes>>
      /\ db' = IF \E k \in db.keys : k.by = Seed THEN db
               ELSE [db EXCEPT !.keys = @ \cup new]
  BY DEF SeedKey, Boot
<1>2. Typed(db) /\ Coherent(db) /\ \A w : Grows(db, db, w)
  BY DEF IInv, Typed, Coherent, Grows, Adds
<1>3. /\ new \subseteq Rows.keys /\ \A k \in new : k.by = Seed
      /\ new # {} => \E p \in db.projects : p.slug = DevSlug
      /\ \A p \in db.projects : p.slug = DevSlug => \E k \in new : k.project = p.by
  <2>1. \A p \in OfSlug(DevSlug) : p \in db.projects /\ p.slug = DevSlug /\ p.by \in Int
    BY <1>2 DEF OfSlug, Typed, Tables, Rows
  <2>2. new \subseteq Rows.keys /\ \A k \in new : k.by = Seed
    BY <2>1 DEF Rows, Seed
  <2>3. \A p \in db.projects : p.slug = DevSlug => \E k \in new : k.project = p.by
    <3>1. TAKE p \in db.projects
    <3>2. HAVE p.slug = DevSlug
    <3>3. [by |-> Seed, project |-> p.by] \in new
      BY <3>2 DEF OfSlug
    <3>4. QED
      BY <3>3
  <2>4. QED
    BY <2>1, <2>2, <2>3
<1> HIDE DEF new
<1>4. CASE \E k \in db.keys : k.by = Seed
  <2>1. Keyed(db)
    BY <1>2, <1>4 DEF Coherent, Unkeyed, Keyed, IdsIn
  <2>2. QED
    BY <1>1, <1>2, <1>4, <2>1, BootInv
<1>5. CASE ~ \E k \in db.keys : k.by = Seed
  <2>1. /\ Typed(db') /\ db'.keys = db.keys \cup new
        /\ \A t \in Tables \ {"keys"} : db'[t] = db[t]
    <3>1. db' = Put(db, "keys", db.keys \cup new)
      BY <1>1, <1>5 DEF Put
    <3>2. "keys" \in Tables /\ db.keys \cup new \in SUBSET Rows["keys"]
      BY <1>2, <1>3 DEF Typed, Tables, Rows
    <3>3. QED
      BY <1>2, <3>1, <3>2, TableSet
  <2>2. Grows(db, db', Seed)
    BY <1>3, <2>1 DEF Grows, Adds, Tables, Rows
  <2>3. db'.projects = db.projects /\ db'.devices = db.devices /\ db'.audits = db.audits
    BY <2>1 DEF Tables, Rows
  <2>4. Keyed(db')
    BY <1>2, <1>3, <2>1, <2>3 DEF Coherent, Unkeyed, Keyed
  <2>5. Coherent(db')
    <3>1. \A a \in db'.audits : Truthful(a, db')
      <4>1. TAKE a \in db'.audits
      <4>2. a \in Rows.audits /\ Truthful(a, db)
        BY <1>2, <2>3 DEF Coherent, Typed, Tables, Rows
      <4>3. QED
        BY <1>2, <2>2, <4>2, TruthStays
    <3>2. Seed \in IdsIn(db', "keys") => \E p \in db'.projects : p.slug = DevSlug
      BY <1>3, <1>5, <2>1, <2>3 DEF IdsIn
    <3>3. \A x, y \in db'.devices :
            x.project = y.project /\ x.external = y.external => x = y
      BY <1>2, <2>3 DEF Coherent
    <3>4. QED
      BY <2>1, <2>4, <3>1, <3>2, <3>3 DEF Coherent, Typed, Keyed
  <2>6. QED
    BY <1>1, <2>1, <2>2, <2>4, <2>5, BootInv
<1>6. QED
  BY <1>4, <1>5

-----------------------------------------------------------------------------
(* The theorems *)

LEMMA InitInv == Init => IInv
<1> SUFFICES ASSUME Init PROVE IInv
  OBVIOUS
<1>1. /\ up = "down" /\ pool \in PoolSizes /\ db \in Databases
      /\ calls = [n \in Calls |-> NoCall] /\ failures = 0 /\ crashes = 0
  BY DEF Init
<1>2. Coherent(db) /\ \A t \in Tables : IdsIn(db, t) \cap Calls = {}
  BY <1>1, ApiAssumption
<1>3. \A n \in Calls : \A t \in Tables : Of(db, n, t) = {}
  BY <1>2 DEF Of, IdsIn
<1>4. TypeOK
  BY <1>1, <1>2, ApiAssumption DEF TypeOK, Coherent
<1>5. Open = {}
  BY <1>1 DEF Open, NoCall
<1>6. \A n \in Calls : CallInv(n, calls[n], db)
  BY <1>1, <1>3 DEF CallInv
<1>7. QED
  BY <1>1, <1>2, <1>4, <1>5, <1>6 DEF IInv

LEMMA NextInv == IInv /\ [Next]_vars => IInv'
<1> SUFFICES ASSUME IInv, [Next]_vars PROVE IInv'
  OBVIOUS
<1>1. CASE Start
  BY <1>1, StartInv, SeedProjectInv, SeedKeyInv DEF Start
<1>2. CASE Serve
  BY <1>2, ExecuteInv DEF Serve
<1>3. CASE Crash
  BY <1>3, CrashInv
<1>4. CASE \E n \in Calls : Accept(n) \/ Fail(n) \/ PoolTimeout(n)
  BY <1>4, AcceptInv, FailInv, PoolTimeoutInv
<1>5. CASE UNCHANGED vars
  <2>1. /\ up' = up /\ pool' = pool /\ db' = db /\ calls' = calls
        /\ failures' = failures /\ crashes' = crashes
    BY <1>5 DEF vars
  <2>2. TypeOK' /\ Open' = Open
    BY <2>1 DEF IInv, TypeOK, Open
  <2>3. QED
    BY <2>1, <2>2 DEF IInv
<1>6. QED
  BY <1>1, <1>2, <1>3, <1>4, <1>5 DEF Next

\* The inductive invariant holds in every reachable state.
THEOREM Invariance == Spec => []IInv
BY InitInv, NextInv, PTL DEF Spec

\* The variables keep their types (ApiService's TypeOK).
THEOREM TypeCorrect == Spec => []TypeOK
<1>1. IInv => TypeOK
  BY DEF IInv
<1>2. QED
  BY <1>1, Invariance, PTL

\* What is assumed of the database a server is started on holds of the database
\* a server leaves behind, whenever it stops (main, seed_dev_project).
THEOREM StaysCoherent == Spec => []Coherent(db)
<1>1. IInv => Coherent(db)
  BY DEF IInv
<1>2. QED
  BY <1>1, Invariance, PTL

\* While the server serves every project has a key (seed_dev_project,
\* create_project).
THEOREM ProjectsHaveKeys == Spec => []EveryProjectHasKey
<1>1. IInv => EveryProjectHasKey
  BY DEF IInv, EveryProjectHasKey, Keyed
<1>2. QED
  BY <1>1, Invariance, PTL

\* An audit row tells of something that is in the database (audit).
THEOREM AuditsTellTruth == Spec => []AuditTellsTruth
<1>1. IInv => AuditTellsTruth
  BY DEF IInv, Coherent, AuditTellsTruth
<1>2. QED
  BY <1>1, Invariance, PTL

\* A call answered with success has stored all it stands for, one that was
\* refused nothing (all handlers).
THEOREM AnswersTellTruth == Spec => []AnswerTellsTruth
<1>1. ASSUME IInv, NEW n \in Calls, calls[n].answer # "unused"
      PROVE  calls[n] \in Call /\ Known(n, calls[n], db) /\ DOMAIN db = Tables
  <2>1. calls[n] # NoCall
    BY <1>1 DEF NoCall
  <2>2. db = [t \in Tables |-> db[t]]
    BY <1>1 DEF IInv, Coherent
  <2>3. QED
    BY <1>1, <2>1, <2>2 DEF IInv, TypeOK, CallInv
<1>2. ASSUME IInv, NEW n \in Calls, calls[n].answer = "ok"
      PROVE  /\ \A t \in DOMAIN db \ {"devices"} :
                  Cardinality(By(n, t)) =
                    Cardinality({i \in DOMAIN Plan(calls[n].request) :
                                   Plan(calls[n].request)[i] = t})
             /\ calls[n].request.op = "end_session" =>
                  \E r \in db.runs : r.by = calls[n].request.session /\ r.ended
  <2> DEFINE c == calls[n]
  <2>1. c \in Call /\ Known(n, c, db) /\ DOMAIN db = Tables /\ c.answer = "ok"
    BY <1>1, <1>2
  <2> HIDE DEF c
  <2>2. c.plan = <<>> /\ c.tx = NoTx /\ Under(c)
    BY <2>1 DEF Known, PlanInv, Under
  <2>3. P(c) \in Seq(Statements) /\ Len(P(c)) \in Nat
    BY <2>1, CallFacts
  <2>4. K(c) = Len(P(c))
    BY <2>2, <2>3 DEF K
  <2>5. ASSUME NEW t \in Tables \ {"devices"}
        PROVE  Cardinality(By(n, t)) = Cardinality({i \in DOMAIN P(c) : P(c)[i] = t})
    <3>1. Executed(c, t) = {i \in DOMAIN P(c) : P(c)[i] = t}
      BY <2>3, <2>4 DEF Executed
    <3>2. Made(n, c, db, t) = By(n, t)
      BY <2>2 DEF Made, Of, InTx, NoTx, By
    <3>3. QED
      BY <2>1, <2>2, <3>1, <3>2 DEF Known, CountInv
  <2>6. ASSUME c.request.op = "end_session"
        PROVE  \E r \in db.runs : r.by = c.request.session /\ r.ended
    <3>1. P(c) = <<"auth", "owner", "end", "audits">>
      BY <2>6, PlanIs DEF P, EndSession
    <3>2. K(c) >= 3
      BY <2>4, <3>1
    <3>3. QED
      BY <2>1, <2>2, <2>6, <3>2 DEF Known, SessionInv
  <2>7. QED
    BY <2>1, <2>5, <2>6 DEF P, c
<1>3. ASSUME IInv, NEW n \in Calls,
             calls[n].answer \in {"bad_request", "unauthorized", "not_found"}
      PROVE  \A t \in DOMAIN db : By(n, t) = {}
  BY <1>1, <1>3 DEF Known, NothingInv, Refused, By, Of
<1>4. IInv => AnswerTellsTruth
  BY <1>2, <1>3 DEF AnswerTellsTruth
<1>5. QED
  BY <1>4, Invariance, PTL

\* A device has one id, which every successful registration gives
\* (register_device).
THEOREM DevicesAreOne == Spec => []OneDevicePerName
<1>1. ASSUME IInv, NEW n \in Calls, calls[n].answer = "ok",
             calls[n].request.op = "register_device"
      PROVE  \E x \in db.devices : /\ x.by = calls[n].device
                                   /\ x.project = calls[n].project
                                   /\ x.external = calls[n].request.external
  <2>1. calls[n] # NoCall
    BY <1>1 DEF NoCall
  <2>2. QED
    BY <1>1, <2>1 DEF IInv, CallInv, Known, DeviceInv
<1>2. ASSUME IInv
      PROVE  \A x, y \in db.devices :
               x.project = y.project /\ x.external = y.external => x = y
  BY <1>2 DEF IInv, Coherent
<1>3. IInv => OneDevicePerName
  <2> SUFFICES ASSUME IInv, NEW n \in Calls, NEW m \in Calls,
                      calls[n].answer = "ok",
                      calls[n].request.op = "register_device"
               PROVE  /\ \E x \in db.devices : x.by = calls[n].device
                      /\ /\ calls[m].answer = "ok"
                         /\ calls[m].request.op = "register_device"
                         /\ calls[m].project = calls[n].project
                         /\ calls[m].request.external = calls[n].request.external
                         => calls[m].device = calls[n].device
    BY DEF OneDevicePerName
  <2>1. PICK x \in db.devices : /\ x.by = calls[n].device
                                /\ x.project = calls[n].project
                                /\ x.external = calls[n].request.external
    BY <1>1
  <2>2. ASSUME calls[m].answer = "ok", calls[m].request.op = "register_device",
               calls[m].project = calls[n].project,
               calls[m].request.external = calls[n].request.external
        PROVE  calls[m].device = calls[n].device
    <3>1. PICK y \in db.devices : /\ y.by = calls[m].device
                                  /\ y.project = calls[m].project
                                  /\ y.external = calls[m].request.external
      BY <1>1, <2>2
    <3>2. QED
      BY <1>2, <2>1, <2>2, <3>1
  <2>3. QED
    BY <2>1, <2>2
<1>4. QED
  BY <1>3, Invariance, PTL

\* Of those who keep a connection one can always go on (create_project).
THEOREM PoolGoesOn == Spec => []PoolMakesProgress
<1>1. ASSUME IInv, Cardinality(Holders) >= pool
      PROVE  \E n \in Holders : Ready(n)
  <2>1. Holders # {}
    <3>1. pool \in Nat \ {0}
      BY <1>1, ApiAssumption DEF IInv, TypeOK
    <3>2. QED
      BY <1>1, <3>1, FS_EmptySet
  <2>2. ASSUME NEW n \in Holders
        PROVE  LET c == calls[n] IN
               /\ n \in Open /\ up = "serving"
               /\ Head(c.plan) \in {"projects", "keys", "commit"}
               /\ Head(c.plan) = "projects" => \A x \in c.tx.rows : x[1] # "projects"
    <3> DEFINE c == calls[n]
    <3>1. n \in Open /\ c.tx.open
      BY DEF Holders
    <3>2. /\ c \in Call /\ c.answer = "open" /\ Known(n, c, db) /\ up = "serving"
          /\ Head(c.plan) = P(c)[K(c) + 1]
      BY <1>1, <3>1, Ahead
    <3>3. /\ Head(c.plan) \in {"projects", "keys", "commit"}
          /\ Head(c.plan) = "projects" => K(c) = 1
      BY <3>1, <3>2, TxPlace DEF Transacted
    <3>4. K(c) = 1 => \A x \in c.tx.rows : x[1] # "projects"
      BY <3>1, <3>2 DEF Known, TxInv
    <3>5. QED
      BY <3>1, <3>2, <3>3, <3>4
  <2>3. ASSUME NEW n \in Holders PROVE ~Waits(n)
    BY <2>2 DEF Waits, OnPool
  <2>4. CASE \E n \in Holders : Head(calls[n].plan) # "projects"
    BY <2>2, <2>3, <2>4 DEF Ready, Locked
  <2>5. CASE \A n \in Holders : Head(calls[n].plan) = "projects"
    <3>1. \A n \in Holders : ~Locked(n)
      BY <2>2, <2>5 DEF Locked
    <3>2. QED
      BY <2>1, <2>2, <2>3, <3>1 DEF Ready
  <2>6. QED
    BY <2>4, <2>5
<1>2. IInv => PoolMakesProgress
  BY <1>1 DEF PoolMakesProgress
<1>3. QED
  BY <1>2, Invariance, PTL

=============================================================================
