----------------------------- MODULE Lifecycle -----------------------------
(***************************************************************************)
(* The life of the processes of one deployment: run() of cmd/zora opens    *)
(* the components in order, deferring the closing of each, serves until a  *)
(* signal or an error of the listener, drains, and unwinds what was        *)
(* deferred.  Replicas open one PostgreSQL database at once; a process may *)
(* die at any point and is started again by its orchestrator.              *)
(***************************************************************************)
EXTENDS Configuration, SchemaMigration, SequencesExt

CONSTANTS
  Replica,        \* the processes a deployment may have
  First,          \* the one a deployment of a single replica has
  Busy,           \* the processes whose handlers and workers are followed
  Deployments,    \* [environment, database, stress]: what is tried with what
  MaxFaults       \* bound: failing external calls and deaths

ASSUME LifecycleAssumption ==
  /\ First \in Replica /\ Busy \subseteq Replica /\ MaxFaults \in Nat
  /\ "none" \notin Replica

ASSUME DeploymentsAssumption ==
  \A d \in Deployments : IsEnvironment(d.environment) /\ IsDatabase(d.database)

VARIABLES
  environment, \* the settings that every replica is given
  cfg,        \* what config.Load makes of them
  stress,      \* which of "replicas", "traffic" and "faults" there are
  legacy,     \* the database before any of them started
  db,         \* the database
  uncommitted, \* what the transaction of the migration has made of it
  lock,       \* pg_advisory_xact_lock: a replica, or none
  pc,         \* pc[r]: where run() is
  at,         \* at[r]: the next statement of the store's schema
  deferred,   \* deferred[r]: the deferred closings, the last one first
  live,       \* live[r]: what the process has open
  why,        \* why[r]: the constructor or the call that ended run()
  handlers,   \* handlers[r]: the HTTP handlers that run
  worker,     \* worker[r][w]: "off", "idle" or "busy"
  cancelled,  \* cancelled[r]: the workers whose context is cancelled
  overdue,    \* overdue[r]: what was no longer waited for
  faults

process == <<at, deferred, live, why, handlers, worker, cancelled, overdue>>
data == <<db, uncommitted, lock>>
given == <<environment, cfg, stress, legacy>>
vars == <<given, data, pc, process, faults>>

None == "none"
Workers == {"memory", "ingestion", "summary"}
Handlers == {"chat"}      \* what holds a connection of the pool while it runs
Off == [w \in Workers |-> "off"]

Admitted == Admits(environment)
Deployed == IF "replicas" \in stress /\ cfg.replicaCount > 1 THEN Replica ELSE {First}
Servers == [i \in DOMAIN cfg.servers |-> cfg.servers[i].name]
Postgres == cfg.storeProvider = "postgres"

Init ==
  /\ \E d \in Deployments :
       /\ environment = d.environment /\ stress = d.stress
       /\ legacy = d.database /\ db = legacy /\ uncommitted = legacy
       /\ cfg = IF Admits(environment) THEN Loaded(environment) ELSE environment
  /\ lock = None
  /\ pc = [r \in Replica |-> "down"]
  /\ at = [r \in Replica |-> 1]
  /\ deferred = [r \in Replica |-> <<>>]
  /\ live = [r \in Replica |-> {}]
  /\ why = [r \in Replica |-> None]
  /\ handlers = [r \in Replica |-> {}]
  /\ worker = [r \in Replica |-> Off]
  /\ cancelled = [r \in Replica |-> {}]
  /\ overdue = [r \in Replica |-> {}]
  /\ faults = 0

-----------------------------------------------------------------------------
(* Opening.  A step opens something, and defers its closing when it is a   *)
(* component of run() of its own; or it fails, and what was deferred runs. *)

Goto(r, stage) == pc' = [pc EXCEPT ![r] = stage]

\* Mutant: the closings run in the order in which they were deferred.
Opened_FirstIn(r, things, closing, stage) ==
  /\ Goto(r, stage)
  /\ live' = [live EXCEPT ![r] = @ \cup things]
  /\ deferred' = [deferred EXCEPT ![r] = @ \o closing]
  /\ UNCHANGED <<why, at>>

Opened(r, things, closing, stage) ==
  /\ Goto(r, stage)
  /\ live' = [live EXCEPT ![r] = @ \cup things]
  /\ deferred' = [deferred EXCEPT ![r] = closing \o @]
  /\ UNCHANGED <<why, at>>

Failed(r, reason, kept) ==
  /\ Goto(r, "unwinding")
  /\ why' = [why EXCEPT ![r] = reason]
  /\ live' = [live EXCEPT ![r] = kept]
  /\ UNCHANGED <<deferred, at>>

Advance(r) ==
  /\ at' = [at EXCEPT ![r] = @ + 1]
  /\ UNCHANGED <<pc, live, deferred, why>>

Opening(r, stage) ==
  /\ pc[r] = stage
  /\ UNCHANGED <<given, handlers, worker, cancelled, overdue, faults>>

Load(r) ==
  /\ r \in Deployed
  /\ Opening(r, "down")
  /\ IF Admitted THEN Opened(r, {}, <<>>, "telemetry")
                         ELSE Failed(r, "load", {})
  /\ UNCHANGED data

OpenTelemetry(r) ==
  /\ Opening(r, "telemetry")
  /\ IF NewTelemetry(cfg)
       THEN Opened(r, (IF cfg.otel = "on" THEN {"tracer"} ELSE {}) \cup
                      (IF cfg.prometheus = "on" THEN {"meter"} ELSE {}),
                   <<"telemetry">>, IF Postgres THEN "connect" ELSE "file")
       ELSE Failed(r, "telemetry", live[r])
  /\ UNCHANGED data

\* postgres.Open: each connection first looks for the extension ...
Connect(r) ==
  /\ Opening(r, "connect")
  /\ IF cfg.postgresDSN # "absent" /\ cfg.embeddingDimensions >= 1
       THEN Opened(r, {"pool"}, <<>>, IF db.extension THEN "begin" ELSE "extension")
       ELSE Failed(r, "store", live[r])
  /\ UNCHANGED data

\* ... and creates it when it saw none, which another may have done by then.
CreateExtension(r) ==
  /\ Opening(r, "extension")
  /\ IF db.extension
       THEN /\ Failed(r, "extension", live[r] \ {"pool"})
            /\ UNCHANGED db
       ELSE /\ Opened(r, {}, <<>>, "begin")
            /\ db' = [db EXCEPT !.extension = TRUE]
  /\ UNCHANGED <<uncommitted, lock>>

LockMigrations(r) ==
  /\ Opening(r, "begin")
  /\ lock = None /\ lock' = r /\ uncommitted' = db
  /\ Opened(r, {}, <<>>, "migrating")
  /\ UNCHANGED db

EndTransaction == lock' = None /\ uncommitted' = db /\ UNCHANGED db

\* The statements of the transaction see each other's work; the database
\* gets all of it with the last one, and nothing when one fails.
MigratePostgres(r) ==
  LET d == Apply(uncommitted, PostgresSchema[at[r]], cfg.embeddingDimensions) IN
  /\ Opening(r, "migrating")
  /\ IF d = Refused \/ cfg.embeddingDimensions > 2000
       THEN Failed(r, "store", live[r] \ {"pool"}) /\ EndTransaction
     ELSE IF at[r] < Len(PostgresSchema)
       THEN Advance(r) /\ uncommitted' = d /\ UNCHANGED <<db, lock>>
     ELSE IF d.dimensions # cfg.embeddingDimensions
       THEN Failed(r, "dimensions", live[r] \ {"pool"}) /\ EndTransaction
     ELSE /\ Opened(r, {}, <<"database">>, "redis")
          /\ db' = d /\ lock' = None /\ uncommitted' = d

OpenFile(r) ==
  /\ Opening(r, "file")
  /\ Opened(r, {"pool"}, <<>>, "schema")
  /\ UNCHANGED data

\* SQLite: one statement at a time, each committed by itself.
MigrateSQLite(r) ==
  LET d == Apply(db, SQLiteSchema[at[r]], cfg.embeddingDimensions) IN
  /\ Opening(r, "schema")
  /\ IF d = Refused
       THEN Failed(r, "store", live[r] \ {"pool"}) /\ UNCHANGED db
     ELSE IF at[r] = Len(SQLiteSchema)
       THEN Opened(r, {}, <<"database">>, "redis") /\ db' = d
     ELSE Advance(r) /\ db' = d
  /\ UNCHANGED <<uncommitted, lock>>

OpenRedis(r) ==
  /\ Opening(r, "redis")
  /\ IF cfg.redisURL = "absent" THEN Opened(r, {}, <<>>, "boundaries")
     ELSE Opened(r, {"redis"}, <<"redis">>, "boundaries")
  /\ UNCHANGED data

BuildBoundaries(r) ==
  /\ Opening(r, "boundaries")
  /\ IF Boundaries(cfg) THEN Opened(r, {}, <<>>, "office")
                        ELSE Failed(r, "boundaries", live[r])
  /\ UNCHANGED data

OpenOffice(r) ==
  /\ Opening(r, "office")
  /\ IF ~ConnectOfficeExecutor(cfg) THEN Failed(r, "office", live[r])
     ELSE IF cfg.officeExecutor = "disabled" THEN Opened(r, {}, <<>>, "recover")
     ELSE Opened(r, {"office"}, <<"office">>, "recover")
  /\ UNCHANGED data

\* RecoverExpiredOperations: what it writes is a matter of OfficeOperation.
Recover(r) ==
  /\ Opening(r, "recover")
  /\ Opened(r, {}, <<>>, "mcp")
  /\ UNCHANGED data

\* One session per server; the manager is deferred once it has them all.
OpenMCP(r) ==
  LET missing == {i \in DOMAIN Servers : Servers[i] \notin live[r]} IN
  /\ Opening(r, "mcp")
  /\ IF ~ConnectMCP(cfg) THEN Failed(r, "mcp", live[r])
     ELSE IF cfg.mcp = "off" THEN Opened(r, {}, <<>>, "services")
     ELSE IF missing = {} THEN Opened(r, {}, <<"mcp">>, "services")
     ELSE Opened(r, {Servers[CHOOSE i \in missing : \A j \in missing : i <= j]},
                 <<>>, "mcp")
  /\ UNCHANGED data

BuildServices(r) ==
  /\ Opening(r, "services")
  /\ IF Services(cfg) /\ NewCaptureWorker(cfg)
       THEN Opened(r, {}, <<>>, "workers") ELSE Failed(r, "services", live[r])
  /\ UNCHANGED data

Started == IF cfg.summary = "on" THEN Workers ELSE Workers \ {"summary"}

StartWorkers(r) ==
  /\ pc[r] = "workers"
  /\ worker' = [worker EXCEPT ![r] = [w \in Workers |-> IF w \in Started THEN "idle" ELSE "off"]]
  /\ Opened(r, {}, <<"background", "capture">>, "serving")
  /\ UNCHANGED <<given, data, handlers, cancelled, overdue, faults>>

-----------------------------------------------------------------------------
(* Serving *)

Serve(r, h) ==
  /\ pc[r] = "serving" /\ r \in Busy /\ "traffic" \in stress
  /\ handlers' = [handlers EXCEPT ![r] = @ \cup {h}]
  /\ UNCHANGED <<given, data, pc, at, deferred, live, why,
                 worker, cancelled, overdue, faults>>

\* Bounded by the request timeout.
Respond(r, h) ==
  /\ h \in handlers[r]
  /\ handlers' = [handlers EXCEPT ![r] = @ \ {h}]
  /\ UNCHANGED <<given, data, pc, at, deferred, live, why,
                 worker, cancelled, overdue, faults>>

Turn(r, w, from, to) ==
  /\ worker[r][w] = from
  /\ worker' = [worker EXCEPT ![r][w] = to]
  /\ UNCHANGED <<given, data, pc, at, deferred, live, why,
                 handlers, cancelled, overdue, faults>>

\* A worker looks at its context before it claims, and again when idle.
Claim(r, w) ==
  r \in Busy /\ "traffic" \in stress /\ w \notin cancelled[r] /\ Turn(r, w, "idle", "busy")
Finish(r, w) == Turn(r, w, "busy", "idle")
Leave(r, w) == w \in cancelled[r] /\ Turn(r, w, "idle", "off")

-----------------------------------------------------------------------------
(* Closing *)

Signal(r) ==
  /\ pc[r] = "serving"
  /\ Goto(r, "draining")
  /\ UNCHANGED <<given, data, process, faults>>

\* server.Shutdown returns once no handler runs ...
Drained(r) == pc[r] = "draining" /\ handlers[r] = {}

Drain(r) ==
  /\ Drained(r)
  /\ Goto(r, "unwinding")
  /\ UNCHANGED <<given, data, process, faults>>

\* ... or its deadline is over; a failure of the listener drains nothing.
Abandon(r, stage) ==
  /\ pc[r] = stage
  /\ Goto(r, "unwinding")
  /\ overdue' = [overdue EXCEPT ![r] = @ \cup handlers[r]]
  /\ why' = [why EXCEPT ![r] = "listener"]
  /\ UNCHANGED <<given, data, at, deferred, live, handlers,
                 worker, cancelled, faults>>

DrainExpires(r) == handlers[r] # {} /\ Abandon(r, "draining")
ListenerFails(r) == "faults" \in stress /\ Abandon(r, "serving")

\* The workers that a deferred closing stops, one after the other.
Stopped(closing) ==
  CASE closing = "background" -> <<"ingestion", "summary">>
    [] closing = "capture"    -> <<"memory">>
    [] OTHER                  -> <<>>

\* Worker.Stop cancels and waits; the next one follows.
StopWorker(r) ==
  /\ pc[r] = "unwinding" /\ deferred[r] # <<>>
  /\ \E i \in DOMAIN Stopped(Head(deferred[r])) :
       LET queue == Stopped(Head(deferred[r])) IN
       /\ queue[i] \notin cancelled[r]
       /\ \A j \in 1 .. i - 1 : worker[r][queue[j]] = "off"
       /\ cancelled' = [cancelled EXCEPT ![r] = @ \cup {queue[i]}]
  /\ UNCHANGED <<given, data, pc, at, deferred, live, why,
                 handlers, worker, overdue, faults>>

\* The ten seconds are over: the rest is cancelled and no longer waited for.
StopExpires(r) ==
  /\ pc[r] = "unwinding" /\ deferred[r] # <<>>
  /\ LET stopped == ToSet(Stopped(Head(deferred[r]))) IN
       /\ \E w \in stopped \cap cancelled[r] : worker[r][w] # "off"
       /\ cancelled' = [cancelled EXCEPT ![r] = @ \cup stopped]
       /\ overdue' = [overdue EXCEPT ![r] =
                        @ \cup {w \in stopped : worker[r][w] # "off"}]
  /\ deferred' = [deferred EXCEPT ![r] = Tail(@)]
  /\ UNCHANGED <<given, data, pc, at, live, why, handlers,
                 worker, faults>>

\* What the closing of a component ends.
Ended(closing) ==
  CASE closing = "telemetry" -> {"tracer", "meter"}
    [] closing = "database"  -> {"pool"}
    [] closing = "mcp"       -> ToSet(Servers)
    [] closing \in {"redis", "office"} -> {closing}
    [] OTHER                 -> {}    \* workers are no component

\* A pool waits for its connections: a chat handler holds one until it ends.
MayClose(r, closing) ==
  /\ \A w \in ToSet(Stopped(closing)) : w \in cancelled[r] /\ worker[r][w] = "off"
  /\ closing = "database" /\ Postgres => "chat" \notin handlers[r]

\* The deferred calls run in the reverse of the order in which they were made.
Unwind(r) ==
  /\ pc[r] = "unwinding" /\ deferred[r] # <<>>
  /\ MayClose(r, Head(deferred[r]))
  /\ live' = [live EXCEPT ![r] = @ \ Ended(Head(deferred[r]))]
  /\ deferred' = [deferred EXCEPT ![r] = Tail(@)]
  /\ UNCHANGED <<given, data, pc, at, why, handlers, worker,
                 cancelled, overdue, faults>>

Return(r) ==
  /\ pc[r] = "unwinding" /\ deferred[r] = <<>>
  /\ Goto(r, "returned")
  /\ UNCHANGED <<given, data, process, faults>>

\* The end of a process takes with it whatever it had.
Gone(r) ==
  /\ Goto(r, "down")
  /\ at' = [at EXCEPT ![r] = 1]
  /\ deferred' = [deferred EXCEPT ![r] = <<>>]
  /\ live' = [live EXCEPT ![r] = {}]
  /\ why' = [why EXCEPT ![r] = None]
  /\ handlers' = [handlers EXCEPT ![r] = {}]
  /\ worker' = [worker EXCEPT ![r] = Off]
  /\ cancelled' = [cancelled EXCEPT ![r] = {}]
  /\ overdue' = [overdue EXCEPT ![r] = {}]
  /\ UNCHANGED given

Exit(r) == pc[r] = "returned" /\ Gone(r) /\ UNCHANGED <<data, faults>>

-----------------------------------------------------------------------------
(* Faults *)

\* What a constructor had opened when an external call of its failed; the
\* constructor closes it, as nothing is deferred for it yet.
\* Mutant: Connect closes the session that failed, but none before it.
Unfinished_LastOnly(r) ==
  CASE pc[r] \in {"connect", "extension", "begin", "migrating", "schema"} -> {"pool"}
    [] OTHER -> {}

Unfinished(r) ==
  CASE pc[r] \in {"connect", "extension", "begin", "migrating", "schema"} -> {"pool"}
    [] pc[r] = "mcp" -> ToSet(Servers)
    [] OTHER -> {}

\* A call of the opening fails, or the deadline of the opening is over.
CallFails(r) ==
  /\ \/ pc[r] \in {"connect", "extension", "begin", "migrating", "schema", "recover"}
     \/ pc[r] = "telemetry" /\ (cfg.otel = "on" \/ cfg.prometheus = "on")
     \/ pc[r] = "redis" /\ cfg.redisURL # "absent"
     \/ pc[r] = "office" /\ cfg.officeExecutor # "disabled"
     \/ pc[r] = "mcp" /\ cfg.mcp = "on"
  /\ "faults" \in stress /\ faults < MaxFaults /\ faults' = faults + 1
  /\ IF lock = r THEN EndTransaction ELSE UNCHANGED data
  /\ Failed(r, "external", live[r] \ Unfinished(r))
  /\ UNCHANGED <<given, handlers, worker, cancelled, overdue>>

\* Killed, or signalled before run() listens to signals: nothing is closed.
Die(r) ==
  /\ pc[r] # "down"
  /\ "faults" \in stress /\ faults < MaxFaults /\ faults' = faults + 1
  /\ IF lock = r THEN EndTransaction ELSE UNCHANGED data
  /\ Gone(r)

-----------------------------------------------------------------------------
Open(r) ==
  \/ Load(r) \/ OpenTelemetry(r) \/ Connect(r) \/ CreateExtension(r)
  \/ LockMigrations(r) \/ MigratePostgres(r) \/ OpenFile(r) \/ MigrateSQLite(r)
  \/ OpenRedis(r) \/ BuildBoundaries(r) \/ OpenOffice(r) \/ Recover(r)
  \/ OpenMCP(r) \/ BuildServices(r) \/ StartWorkers(r)

Close(r) ==
  \/ Drain(r) \/ DrainExpires(r) \/ StopWorker(r) \/ StopExpires(r) \/ Unwind(r)
  \/ Return(r) \/ Exit(r)

Next ==
  \E r \in Replica :
    \/ Open(r) \/ Close(r) \/ Signal(r) \/ ListenerFails(r)
    \/ CallFails(r) \/ Die(r)
    \/ \E h \in Handlers : Serve(r, h) \/ Respond(r, h)
    \/ \E w \in Workers : Claim(r, w) \/ Finish(r, w) \/ Leave(r, w)

\* The process and its orchestrator proceed; a handler ends by its timeout;
\* PostgreSQL hands an advisory lock to those who wait for it in turn.
Fairness ==
  \A r \in Replica :
    /\ WF_vars(Open(r)) /\ SF_vars(LockMigrations(r)) /\ WF_vars(Close(r))
    /\ \A h \in Handlers : WF_vars(Respond(r, h))

Spec == Init /\ [][Next]_vars /\ Fairness

-----------------------------------------------------------------------------
(* Properties *)

\* When run() returns, on whatever path, everything it or one of the
\* constructors opened is closed again, and only workers and handlers whose
\* time was up may still run.
NothingLeaks ==
  \A r \in Replica : pc[r] = "returned" =>
    /\ live[r] = {}
    /\ \A w \in Workers : worker[r][w] = "off" \/ w \in overdue[r]
    /\ handlers[r] \subseteq overdue[r]

\* No component is closed under a worker or a handler that uses it, unless
\* it overran the time it was given to end.
NothingClosedUnderUse ==
  \A r \in Replica : pc[r] # "down" =>
    \A u \in handlers[r] \cup {w \in Workers : worker[r][w] # "off"} :
      \/ u \in overdue[r]
      \/ /\ "pool" \in live[r]
         /\ cfg.redisURL # "absent" => "redis" \in live[r]
         /\ cfg.officeExecutor # "disabled" => "office" \in live[r]
         /\ cfg.mcp = "on" => ToSet(Servers) \subseteq live[r]

\* What config.Load admits, no constructor refuses, but for the settings it
\* leaves to them: two validators of one setting agree.
AcceptedStarts ==
  \A r \in Replica :
    why[r] \in {"telemetry", "store", "boundaries", "office", "mcp", "services"} =>
      LeftToConstructors(cfg)

\* Once a process is past the migration no row of the older database is
\* missing, every version of a document is unique, and with PostgreSQL a
\* slot that a memory of the user held is held by one memory, the user's.
RowsSurvive ==
  LET users(d, m) == d.memories[m].edited \/ d.memories[m].manual IN
  (\E r \in Replica : "database" \in ToSet(deferred[r])) =>
    /\ DOMAIN db.memories = DOMAIN legacy.memories
    /\ DOMAIN db.documents = DOMAIN legacy.documents
    /\ VersionsDistinct(db)
    /\ \A m \in DOMAIN db.memories : users(legacy, m) => db.memories[m].edited
    /\ Postgres => /\ SlotsDistinct(db)
                   /\ \A m \in DOMAIN legacy.memories :
                        users(legacy, m) /\ legacy.memories[m].slot # "" =>
                          \E n \in DOMAIN db.memories :
                            /\ db.memories[n].slot = legacy.memories[m].slot
                            /\ users(legacy, n)

\* Every replica of a deployment that can start serves again and again,
\* however often its processes are stopped, fail while opening or die half
\* way through a migration.
EveryReplicaServes ==
  \A r \in Replica :
    /\ r \in Deployed /\ Admitted /\ ~LeftToConstructors(cfg)
    /\ legacy.dimensions \in {0, cfg.embeddingDimensions}
    => []<>(pc[r] = "serving")
=============================================================================
