-------------------------- MODULE Lifecycle_proofs --------------------------
(***************************************************************************)
(* Proofs about the processes of a deployment, for any number of replicas, *)
(* any settings, any older database, any deaths and failing calls: what is *)
(* opened is closed in order, what config.Load admits the constructors     *)
(* accept, and a migration is never refused and loses no row.              *)
(***************************************************************************)
EXTENDS Lifecycle, FiniteSetTheorems, SequenceTheorems, WellFoundedInduction, TLAPS

-----------------------------------------------------------------------------
(* The processes                                                           *)

Joint == {"background", "capture"}
Closings == {"telemetry", "database", "redis", "office", "mcp"} \cup Joint

\* The stages of run() after each of the openings.
AfterMCP == {"services", "workers"}
AfterOffice == {"recover", "mcp"} \cup AfterMCP
AfterRedis == {"boundaries", "office"} \cup AfterOffice
AfterStore == {"redis"} \cup AfterRedis
Migrates == {"extension", "begin", "migrating", "schema"}
Before == {"down", "telemetry", "connect", "file"} \cup Migrates
Opens == {"telemetry", "connect", "file"} \cup Migrates \cup AfterStore
Stage == Before \cup AfterStore \cup {"serving", "draining", "unwinding", "returned"}

AllOpen(open) ==
  /\ "pool" \in open
  /\ cfg.redisURL # "absent" => "redis" \in open
  /\ cfg.officeExecutor # "disabled" => "office" \in open
  /\ cfg.mcp = "on" => ToSet(Servers) \subseteq open

\* What the constructor that runs has opened, and still closes by itself.
Pending(stage) ==
  CASE stage \in Migrates -> {"pool"}
    [] stage = "mcp" /\ ConnectMCP(cfg) /\ cfg.mcp # "off" -> ToSet(Servers)
    [] OTHER -> {}

\* Whatever is open is closed by a deferred call or by its constructor.
Covered(stage, closings, open) ==
  \A x \in open : x \in Pending(stage) \/ \E c \in ToSet(closings) : x \in Ended(c)

OpenedBy(stage, open) ==
  /\ stage \in Migrates \cup AfterStore => "pool" \in open
  /\ stage \in AfterRedis /\ cfg.redisURL # "absent" => "redis" \in open
  /\ stage \in AfterOffice /\ cfg.officeExecutor # "disabled" => "office" \in open
  /\ stage \in AfterMCP /\ cfg.mcp = "on" => ToSet(Servers) \subseteq open

\* The workers are stopped before anything else is closed.
Ordered(stage, closings) ==
  /\ \A i, j \in DOMAIN closings : i < j /\ closings[j] \in Joint => closings[i] \in Joint
  /\ stage = "down" => closings = <<>>
  /\ stage \in Before => "database" \notin ToSet(closings)
  /\ stage \in Opens => ToSet(closings) \cap Joint = {}
  /\ stage \in {"serving", "draining"} => Joint \subseteq ToSet(closings)
  /\ stage = "returned" => closings = <<>>

\* A worker that still runs is one that a deferred call will stop, or late.
Watched(closings, state, late) ==
  \A w \in Workers : state[w] # "off" =>
    w \in late \/ \E c \in ToSet(closings) : w \in ToSet(Stopped(c))

Answering(stage, running, late) ==
  /\ stage \in {"serving", "draining", "unwinding", "returned"} \/ running = {}
  /\ stage \in {"unwinding", "returned"} => running \subseteq late

ProcessOK(r) ==
  /\ Covered(pc[r], deferred[r], live[r])
  /\ pc[r] = "down" => live[r] = {}
  /\ OpenedBy(pc[r], live[r])
  /\ Ordered(pc[r], deferred[r])
  /\ ToSet(deferred[r]) \cap Joint # {} => AllOpen(live[r])
  /\ pc[r] \in Before \cup Opens => worker[r] = Off
  /\ Watched(deferred[r], worker[r], overdue[r])
  /\ Answering(pc[r], handlers[r], overdue[r])

ProcessTypeOK ==
  /\ DOMAIN cfg.servers \subseteq Nat
  /\ pc \in [Replica -> Stage]
  /\ deferred \in [Replica -> Seq(Closings)]
  /\ live \in [Replica -> SUBSET ({"tracer", "meter", "pool", "redis", "office"} \cup ToSet(Servers))]
  /\ handlers \in [Replica -> SUBSET Handlers]
  /\ worker \in [Replica -> [Workers -> {"off", "idle", "busy"}]]
  /\ overdue \in [Replica -> SUBSET (Handlers \cup Workers)]

\* The inductive invariant of opening, serving and closing.
ProcessInv == ProcessTypeOK /\ \A r \in Replica : ProcessOK(r)

\* The process of another replica: nothing of it changes.
Apart(r) ==
  /\ pc'[r] = pc[r] /\ deferred'[r] = deferred[r] /\ live'[r] = live[r]
  /\ worker'[r] = worker[r] /\ handlers'[r] = handlers[r] /\ overdue'[r] = overdue[r]

-----------------------------------------------------------------------------
(* Deferred calls                                                          *)

\* Any number of numbers has a least one.
LEMMA LeastNumber ==
  ASSUME NEW T \in SUBSET Nat, T # {}
  PROVE  \E n \in T : \A m \in T : n <= m
<1> DEFINE R == StrictSubsetOrdering(Nat)
           Below(n) == 0 .. n - 1
           W == {Below(n) : n \in T}
<1>1. IsWellFoundedOn(R, FiniteSubsetsOf(Nat))
  BY FS_StrictSubsetOrderingWellFounded, Zenon
<1>2. W \subseteq FiniteSubsetsOf(Nat) /\ W # {}
  <2>1. \A n \in Nat : IsFiniteSet(Below(n)) 
    <3>1. TAKE n \in Nat
    <3>2. n - 1 \in Int /\ 0 \in Int OBVIOUS
    <3> QED BY <3>2, FS_Interval
  <2>2. \A n \in Nat : Below(n) \in SUBSET Nat
    OBVIOUS
  <2> QED BY <2>1, <2>2 DEF FiniteSubsetsOf
<1>3. \A m, n \in Nat : m < n => <<Below(m), Below(n)>> \in R
  <2>1. TAKE m, n \in Nat
  <2>2. HAVE m < n
  <2>3. m \in Below(n) /\ m \notin Below(m) /\ Below(m) \subseteq Below(n)
    BY <2>2
  <2>4. Below(m) \in SUBSET Nat /\ Below(n) \in SUBSET Nat
    OBVIOUS
  <2> HIDE DEF Below
  <2> QED BY <2>3, <2>4 DEF StrictSubsetOrdering
<1> HIDE DEF R, W
<1>4. PICK b \in W : \A c \in W : ~ (<<c, b>> \in R)
  BY <1>1, <1>2, WFMin, Zenon
<1>5. PICK n \in T : b = Below(n)
  BY <1>4 DEF W
<1>6. \A m \in T : ~ (<<Below(m), Below(n)>> \in R)
  BY <1>4, <1>5 DEF W
<1> HIDE DEF Below
<1>7. \A m \in T : ~ (m < n)
  <2>1. TAKE m \in T
  <2>2. m < n => <<Below(m), Below(n)>> \in R
    BY <1>3, Zenon
  <2> QED BY <2>2, <1>6, Zenon
<1>8. QED
  BY <1>7

LEMMA NothingPrepended ==
  ASSUME NEW q \in Seq(Closings)
  PROVE  <<>> \o q = q
BY ConcatEmptySeq

LEMMA OnePrepended ==
  ASSUME NEW q \in Seq(Closings), NEW c \in Closings
  PROVE  /\ <<c>> \o q \in Seq(Closings)
         /\ ToSet(<<c>> \o q) = {c} \cup ToSet(q)
         /\ (<<c>> \o q)[1] = c
         /\ DOMAIN (<<c>> \o q) = 1 .. Len(q) + 1
         /\ \A i \in DOMAIN q : (<<c>> \o q)[i + 1] = q[i]
<1> DEFINE p == <<c>> \o q
<1>1. /\ p \in Seq(Closings) /\ Len(p) = Len(q) + 1 /\ DOMAIN p = 1 .. Len(q) + 1
      /\ p[1] = c /\ \A i \in 1 .. Len(q) : p[i + 1] = q[i]
  OBVIOUS
<1>2. DOMAIN q = 1 .. Len(q) /\ Len(q) \in Nat
  OBVIOUS
<1> HIDE DEF p
<1>3. \A i \in DOMAIN p : i = 1 \/ (i - 1 \in DOMAIN q /\ p[i] = q[i - 1])
  <2> SUFFICES ASSUME NEW i \in DOMAIN p, i # 1
               PROVE  i - 1 \in DOMAIN q /\ p[i] = q[i - 1]
    OBVIOUS
  <2>1. i - 1 \in 1 .. Len(q) /\ i = (i - 1) + 1
    BY <1>1, <1>2
  <2> QED
    BY <2>1, <1>1, <1>2
<1>4. ToSet(p) \subseteq {c} \cup ToSet(q)
  BY <1>1, <1>3 DEF ToSet
<1>5. {c} \cup ToSet(q) \subseteq ToSet(p)
  <2>1. c \in ToSet(p)
    BY <1>1, <1>2 DEF ToSet
  <2>2. \A i \in DOMAIN q : i + 1 \in DOMAIN p
    BY <1>1, <1>2
  <2>3. ToSet(q) \subseteq ToSet(p)
    BY <1>1, <1>2, <2>2 DEF ToSet
  <2> QED
    BY <2>1, <2>3
<1> QED
  BY <1>1, <1>2, <1>4, <1>5 DEF p

LEMMA Popped ==
  ASSUME NEW q \in Seq(Closings), q # <<>>
  PROVE  /\ Tail(q) \in Seq(Closings) /\ Head(q) \in Closings
         /\ ToSet(q) = {Head(q)} \cup ToSet(Tail(q))
         /\ q[1] = Head(q) /\ 1 \in DOMAIN q
         /\ \A i \in DOMAIN Tail(q) : i + 1 \in DOMAIN q /\ Tail(q)[i] = q[i + 1]
<1> DEFINE t == Tail(q)
<1>1. /\ t \in Seq(Closings) /\ Head(q) = q[1] /\ q[1] \in Closings
      /\ Len(t) = Len(q) - 1 /\ \A i \in 1 .. Len(q) - 1 : t[i] = q[i + 1]
  OBVIOUS
<1>2. /\ DOMAIN q = 1 .. Len(q) /\ Len(q) \in Nat /\ Len(q) >= 1
      /\ DOMAIN t = 1 .. Len(t)
  OBVIOUS
<1> HIDE DEF t
<1>3. \A i \in DOMAIN q : i = 1 \/ (i - 1 \in DOMAIN t /\ q[i] = t[i - 1])
  <2> SUFFICES ASSUME NEW i \in DOMAIN q, i # 1
               PROVE  i - 1 \in DOMAIN t /\ q[i] = t[i - 1]
    OBVIOUS
  <2>1. i - 1 \in 1 .. Len(q) - 1 /\ i = (i - 1) + 1
    BY <1>2
  <2> QED
    BY <2>1, <1>1, <1>2
<1>4. \A i \in DOMAIN t : i + 1 \in DOMAIN q /\ t[i] = q[i + 1]
  BY <1>1, <1>2
<1>5. ToSet(q) \subseteq {Head(q)} \cup ToSet(t)
  BY <1>1, <1>3 DEF ToSet
<1>6. {Head(q)} \cup ToSet(t) \subseteq ToSet(q)
  <2>1. Head(q) \in ToSet(q)
    BY <1>1, <1>2 DEF ToSet
  <2>2. ToSet(t) \subseteq ToSet(q)
    BY <1>4 DEF ToSet
  <2> QED
    BY <2>1, <2>2
<1> QED
  BY <1>1, <1>2, <1>4, <1>5, <1>6 DEF t

LEMMA NothingDeferred == ToSet(<<>>) = {} /\ <<>> \in Seq(Closings) /\ DOMAIN <<>> = {}
<1>1. DOMAIN <<>> = {}
  OBVIOUS
<1> QED
  BY <1>1 DEF ToSet

\* What a closing stops and ends.
LEMMA WhoStops ==
  /\ ToSet(Stopped("background")) = {"ingestion", "summary"}
  /\ ToSet(Stopped("capture")) = {"memory"}
  /\ \A c \in Closings \ Joint : ToSet(Stopped(c)) = {}
<1>1. Stopped("background") = <<"ingestion", "summary">> /\ Stopped("capture") = <<"memory">>
  BY DEF Stopped
<1>2. \A c \in Closings \ Joint : Stopped(c) = <<>>
  BY DEF Stopped, Closings, Joint
<1>3. DOMAIN <<"ingestion", "summary">> = {1, 2} /\ DOMAIN <<"memory">> = {1}
  OBVIOUS
<1>4. ToSet(<<"ingestion", "summary">>) = {"ingestion", "summary"}
  BY <1>3 DEF ToSet
<1>5. ToSet(<<"memory">>) = {"memory"}
  BY <1>3 DEF ToSet
<1> QED
  BY <1>1, <1>2, <1>4, <1>5, NothingDeferred

LEMMA WhatEnds ==
  /\ Ended("telemetry") = {"tracer", "meter"}
  /\ Ended("database") = {"pool"}
  /\ Ended("mcp") = ToSet(Servers)
  /\ Ended("redis") = {"redis"} /\ Ended("office") = {"office"}
  /\ Ended("background") = {} /\ Ended("capture") = {}
BY DEF Ended

LEMMA SettingsStay ==
  ASSUME UNCHANGED cfg
  PROVE  /\ Servers' = Servers /\ Postgres' = Postgres
         /\ \A c : Ended(c)' = Ended(c)
         /\ \A stage : Pending(stage)' = Pending(stage)
         /\ \A open : AllOpen(open)' = AllOpen(open)
         /\ \A stage, open : OpenedBy(stage, open)' = OpenedBy(stage, open)
         /\ \A stage, closings, open : Covered(stage, closings, open)' = Covered(stage, closings, open)
<1>1. Servers' = Servers /\ Postgres' = Postgres
  BY DEF Servers, Postgres
<1>2. \A c : Ended(c)' = Ended(c)
  BY <1>1 DEF Ended
<1>3. \A stage : Pending(stage)' = Pending(stage)
  BY <1>1 DEF Pending, ConnectMCP
<1>4. \A open : AllOpen(open)' = AllOpen(open)
  BY <1>1 DEF AllOpen
<1>5. \A stage, open : OpenedBy(stage, open)' = OpenedBy(stage, open)
  BY <1>1 DEF OpenedBy
<1>6. \A stage, closings, open : Covered(stage, closings, open)' = Covered(stage, closings, open)
  BY <1>2, <1>3 DEF Covered
<1> QED
  BY <1>1, <1>2, <1>3, <1>4, <1>5, <1>6

LEMMA ApartKeeps ==
  ASSUME NEW r \in Replica, ProcessOK(r), Apart(r), UNCHANGED cfg
  PROVE  ProcessOK(r)'
BY SettingsStay DEF ProcessOK, Apart

-----------------------------------------------------------------------------
(* Opening                                                                 *)

\* What a step of the opening leaves alone.
Beside(r) ==
  /\ UNCHANGED <<cfg, handlers, worker, overdue>>
  /\ pc[r] \in Opens \cup {"down"}

LEMMA QuietStages ==
  /\ "unwinding" \notin Before \cup Opens /\ "down" \notin Opens
  /\ Opens \subseteq Stage /\ "unwinding" \in Stage /\ "down" \in Before
  /\ (Opens \cup {"down"}) \cap {"serving", "draining", "unwinding", "returned"} = {}
  /\ Migrates \subseteq Before /\ AfterStore \cap Before = {} /\ AfterStore \subseteq Opens
  /\ Before \subseteq Opens \cup {"down"}
BY DEF Before, Opens, Stage, Migrates, AfterStore, AfterRedis, AfterOffice, AfterMCP

\* Something is opened, and its closing, if it has one, is deferred.
LEMMA OpenedKeeps ==
  ASSUME ProcessInv, NEW r \in Replica, Beside(r), NEW things, NEW closing, NEW stage \in Opens,
         Opened(r, things, closing, stage),
         closing = <<>> \/ \E c \in Closings \ Joint : closing = <<c>>,
         things \subseteq {"tracer", "meter", "pool", "redis", "office"} \cup ToSet(Servers),
         \A x \in things : x \in Pending(stage) \/ \E c \in ToSet(closing) : x \in Ended(c),
         \A x \in Pending(pc[r]) : x \in Pending(stage) \/ \E c \in ToSet(closing) : x \in Ended(c),
         OpenedBy(stage, live[r] \cup things),
         stage \in Before => pc[r] \in Before /\ closing # <<"database">>
  PROVE  ProcessInv'
<1> DEFINE q == deferred[r]
           p == closing \o q
           open == live[r] \cup things
<1>1. /\ pc' = [pc EXCEPT ![r] = stage] /\ live' = [live EXCEPT ![r] = open]
      /\ deferred' = [deferred EXCEPT ![r] = p]
  BY DEF Opened, Goto
<1>2. /\ q \in Seq(Closings) /\ ProcessOK(r) /\ ProcessTypeOK
  BY DEF ProcessInv, ProcessTypeOK
<1>3. /\ p \in Seq(Closings)
      /\ ToSet(p) = ToSet(closing) \cup ToSet(q)
      /\ ToSet(closing) \subseteq Closings \ Joint
      /\ "database" \in ToSet(closing) => closing = <<"database">>
  <2>1. CASE closing = <<>>
    BY <2>1, <1>2, NothingPrepended, NothingDeferred
  <2>2. ASSUME NEW c \in Closings \ Joint, closing = <<c>>
        PROVE  <1>3!:
    <3>1. DOMAIN <<c>> = {1}
      OBVIOUS
    <3>2. ToSet(<<c>>) = {c}
      BY <3>1 DEF ToSet
    <3>3. p \in Seq(Closings) /\ ToSet(p) = {c} \cup ToSet(q)
      BY <2>2, <1>2, OnePrepended
    <3> QED
      BY <2>2, <3>2, <3>3
  <2> QED
    BY <2>1, <2>2
<1> HIDE DEF p, q, open
<1>4. /\ pc'[r] = stage /\ live'[r] = open /\ deferred'[r] = p
      /\ worker'[r] = worker[r] /\ handlers'[r] = handlers[r] /\ overdue'[r] = overdue[r]
      /\ \A s \in Replica \ {r} : Apart(s)
  BY <1>1, <1>2 DEF ProcessTypeOK, Beside, Apart
<1>5. Servers' = Servers /\ UNCHANGED cfg
  BY SettingsStay DEF Beside
<1>6. ProcessTypeOK'
  <2>1. open \subseteq {"tracer", "meter", "pool", "redis", "office"} \cup ToSet(Servers)
    BY <1>2 DEF ProcessTypeOK, open
  <2> QED
    BY <1>1, <1>2, <1>3, <1>5, <2>1, QuietStages DEF ProcessTypeOK, Beside
<1>7. pc[r] \in Opens \cup {"down"}
  BY DEF Beside
<1>8. ProcessOK(r)'
  <2>1. Covered(stage, p, open)
    <3> SUFFICES ASSUME NEW x \in open
                 PROVE  x \in Pending(stage) \/ \E c \in ToSet(p) : x \in Ended(c)
      BY DEF Covered
    <3>1. CASE x \in things
      BY <3>1, <1>3
    <3>2. CASE x \in live[r]
      BY <3>2, <1>2, <1>3 DEF ProcessOK, Covered, q
    <3> QED
      BY <3>1, <3>2 DEF open
  <2>2. OpenedBy(stage, open)
    BY DEF open
  <2>3. ToSet(p) \cap Joint = {}
    <3>1. ToSet(q) \cap Joint = {}
      BY <1>2, <1>7, NothingDeferred DEF ProcessOK, Ordered, q
    <3> QED
      BY <3>1, <1>3
  <2>4. Ordered(stage, p)
    <3>1. \A i \in DOMAIN p : p[i] \in ToSet(p)
      BY DEF ToSet
    <3>2. stage \in Before => "database" \notin ToSet(p)
      BY <1>2, <1>3 DEF ProcessOK, Ordered, q
    <3> QED
      BY <2>3, <3>1, <3>2, QuietStages DEF Ordered
  <2>5. worker[r] = Off
    BY <1>2, <1>7, QuietStages DEF ProcessOK
  <2>6. Watched(p, worker[r], overdue[r])
    BY <2>5 DEF Watched, Off
  <2>7. Answering(stage, handlers[r], overdue[r])
    BY <1>2, <1>7, QuietStages DEF ProcessOK, Answering
  <2> QED
    BY <1>4, <1>5, <2>1, <2>2, <2>3, <2>4, <2>5, <2>6, <2>7, QuietStages, SettingsStay
       DEF ProcessOK, Watched, Answering, Ordered
<1>9. ASSUME NEW s \in Replica PROVE ProcessOK(s)'
  <2>1. CASE s = r
    BY <1>8, <2>1
  <2>2. CASE s # r
    BY <1>4, <1>5, <2>2, ApartKeeps DEF ProcessInv
  <2> QED
    BY <2>1, <2>2
<1> QED
  BY <1>6, <1>9 DEF ProcessInv

\* A constructor fails, having closed what it had opened itself.
LEMMA FailedKeeps ==
  ASSUME ProcessInv, NEW r \in Replica, Beside(r), NEW reason, NEW kept,
         Failed(r, reason, kept), kept \subseteq live[r], kept \cap Pending(pc[r]) = {}
  PROVE  ProcessInv'
<1>1. /\ pc' = [pc EXCEPT ![r] = "unwinding"] /\ live' = [live EXCEPT ![r] = kept]
      /\ UNCHANGED deferred
  BY DEF Failed, Goto
<1>2. ProcessTypeOK /\ ProcessOK(r)
  BY DEF ProcessInv
<1>3. /\ pc'[r] = "unwinding" /\ live'[r] = kept /\ deferred'[r] = deferred[r]
      /\ worker'[r] = worker[r] /\ handlers'[r] = handlers[r] /\ overdue'[r] = overdue[r]
      /\ \A s \in Replica \ {r} : Apart(s)
  BY <1>1, <1>2 DEF ProcessTypeOK, Beside, Apart
<1>4. Servers' = Servers /\ UNCHANGED cfg
  BY SettingsStay DEF Beside
<1>5. ProcessTypeOK'
  BY <1>1, <1>2, <1>4, QuietStages DEF ProcessTypeOK, Beside
<1>6. pc[r] \in Opens \cup {"down"}
  BY DEF Beside
<1>7. ProcessOK(r)'
  <2>1. Covered("unwinding", deferred[r], kept)
    BY <1>2 DEF ProcessOK, Covered
  <2>2. ToSet(deferred[r]) \cap Joint = {}
    BY <1>2, <1>6, NothingDeferred DEF ProcessOK, Ordered
  <2>3. Ordered("unwinding", deferred[r])
    BY <1>2, QuietStages DEF ProcessOK, Ordered
  <2>4. OpenedBy("unwinding", kept)
    BY DEF OpenedBy, Migrates, AfterStore, AfterRedis, AfterOffice, AfterMCP
  <2>5. Watched(deferred[r], worker[r], overdue[r])
    BY <1>2 DEF ProcessOK
  <2>6. Answering("unwinding", handlers[r], overdue[r])
    BY <1>2, <1>6, QuietStages DEF ProcessOK, Answering
  <2> QED
    BY <1>3, <1>4, <2>1, <2>2, <2>3, <2>4, <2>5, <2>6, QuietStages, SettingsStay
       DEF ProcessOK, Watched, Answering, Ordered
<1>8. ASSUME NEW s \in Replica PROVE ProcessOK(s)'
  <2>1. CASE s = r
    BY <1>7, <2>1
  <2>2. CASE s # r
    BY <1>3, <1>4, <2>2, ApartKeeps DEF ProcessInv
  <2> QED
    BY <2>1, <2>2
<1> QED
  BY <1>5, <1>8 DEF ProcessInv

\* Another statement of the migration.
LEMMA AdvanceKeeps ==
  ASSUME ProcessInv, NEW r \in Replica, Beside(r), Advance(r)
  PROVE  ProcessInv'
<1>1. UNCHANGED <<pc, live, deferred, cfg, handlers, worker, overdue>>
  BY DEF Advance, Beside
<1>2. ProcessTypeOK'
  BY <1>1, SettingsStay DEF ProcessInv, ProcessTypeOK
<1>3. \A s \in Replica : ProcessOK(s)'
  BY <1>1, ApartKeeps DEF ProcessInv, Apart
<1> QED
  BY <1>2, <1>3 DEF ProcessInv

-----------------------------------------------------------------------------
(* The openings of run(), one by one                                       *)

LEMMA OpeningIsBeside ==
  ASSUME NEW r \in Replica, NEW stage \in Opens \cup {"down"}, Opening(r, stage)
  PROVE  Beside(r) /\ pc[r] = stage
BY DEF Opening, Beside, given

LEMMA NothingPending ==
  ASSUME NEW stage \in Stage \ (Migrates \cup {"mcp"})
  PROVE  Pending(stage) = {}
BY DEF Pending

LEMMA LoadKeeps ==
  ASSUME ProcessInv, NEW r \in Replica, Load(r)
  PROVE  ProcessInv'
<1>1. Beside(r) /\ pc[r] = "down"
  BY OpeningIsBeside DEF Load
<1>2. "down" \in Stage \ (Migrates \cup {"mcp"}) /\ "telemetry" \in Stage \ (Migrates \cup {"mcp"})
  BY DEF Stage, Before, Opens, Migrates
<1>3. live[r] = {} /\ Pending("down") = {} /\ Pending("telemetry") = {}
  BY <1>1, <1>2, NothingPending DEF ProcessInv, ProcessOK
<1>4. CASE Opened(r, {}, <<>>, "telemetry")
  <2>1. OpenedBy("telemetry", {})
    BY DEF OpenedBy, Migrates, AfterStore, AfterRedis, AfterOffice, AfterMCP
  <2>2. "telemetry" \in Opens
    BY DEF Opens
  <2> QED
    BY <1>1, <1>3, <1>4, <2>1, <2>2, OpenedKeeps, QuietStages
<1>5. CASE Failed(r, "load", {})
  BY <1>1, <1>3, <1>5, FailedKeeps
<1> QED
  BY <1>4, <1>5 DEF Load

LEMMA OpenTelemetryKeeps ==
  ASSUME ProcessInv, NEW r \in Replica, OpenTelemetry(r)
  PROVE  ProcessInv'
<1> DEFINE things == (IF cfg.otel = "on" THEN {"tracer"} ELSE {}) \cup
                     (IF cfg.prometheus = "on" THEN {"meter"} ELSE {})
           stage == IF Postgres THEN "connect" ELSE "file"
<1>1. Beside(r) /\ pc[r] = "telemetry"
  BY OpeningIsBeside DEF OpenTelemetry, Opens
<1>2. {"telemetry", "connect", "file"} \subseteq (Stage \ (Migrates \cup {"mcp"})) \cap Opens \cap Before
  BY DEF Stage, Before, Opens, Migrates
<1>3. Pending("telemetry") = {}
  BY <1>2, NothingPending
<1>4. CASE Opened(r, things, <<"telemetry">>, stage)
  <2>1. stage \in {"connect", "file"}
    OBVIOUS
  <2>2. things \subseteq {"tracer", "meter"}
    OBVIOUS
  <2>3. ToSet(<<"telemetry">>) = {"telemetry"}
    <3>1. DOMAIN <<"telemetry">> = {1}
      OBVIOUS
    <3> QED
      BY <3>1 DEF ToSet
  <2> HIDE DEF things, stage
  <2>4. OpenedBy(stage, live[r] \cup things)
    BY <2>1 DEF OpenedBy, Migrates, AfterStore, AfterRedis, AfterOffice, AfterMCP
  <2>5. "telemetry" \in Closings \ Joint /\ <<"telemetry">> # <<"database">>
    BY DEF Closings, Joint
  <2>6. \A x \in things : \E c \in ToSet(<<"telemetry">>) : x \in Ended(c)
    BY <2>2, <2>3, WhatEnds
  <2>7. stage \in Opens
    BY <1>2, <2>1
  <2>8. pc[r] \in Before
    BY <1>1, <1>2
  <2>9. \A x \in Pending(pc[r]) : x \in Pending(stage)
    BY <1>1, <1>3
  <2> QED
    BY <1>1, <1>4, <2>2, <2>4, <2>5, <2>6, <2>7, <2>8, <2>9, OpenedKeeps
<1>5. CASE Failed(r, "telemetry", live[r])
  BY <1>1, <1>3, <1>5, FailedKeeps
<1> QED
  BY <1>4, <1>5 DEF OpenTelemetry

\* A step that defers nothing of its own.
LEMMA OnwardKeeps ==
  ASSUME ProcessInv, NEW r \in Replica, NEW from \in Opens, Opening(r, from),
         NEW things, NEW stage \in Opens, Opened(r, things, <<>>, stage),
         things \subseteq {"tracer", "meter", "pool", "redis", "office"} \cup ToSet(Servers),
         things \subseteq Pending(stage), Pending(from) \subseteq Pending(stage),
         OpenedBy(stage, live[r] \cup things),
         stage \in Before => from \in Before
  PROVE  ProcessInv'
<1>1. Beside(r) /\ pc[r] = from
  BY OpeningIsBeside
<1>2. <<>> # <<"database">>
  OBVIOUS
<1> QED
  BY <1>1, <1>2, OpenedKeeps

LEMMA StoreStages ==
  /\ Migrates \cup {"connect", "file", "telemetry"} \subseteq Opens \cap Before
  /\ Pending("connect") = {} /\ Pending("file") = {}
  /\ \A stage \in Migrates : Pending(stage) = {"pool"}
  /\ \A open : "pool" \in open => \A stage \in Migrates \cup {"redis"} : OpenedBy(stage, open)
  /\ Pending("redis") = {} /\ "redis" \in Opens \ Before
BY DEF Migrates, Opens, Before, Pending, OpenedBy, AfterStore, AfterRedis, AfterOffice, AfterMCP

LEMMA PoolIsOpen ==
  ASSUME ProcessInv, NEW r \in Replica, pc[r] \in Migrates
  PROVE  "pool" \in live[r]
BY DEF ProcessInv, ProcessOK, OpenedBy

LEMMA ConnectKeeps ==
  ASSUME ProcessInv, NEW r \in Replica, Connect(r)
  PROVE  ProcessInv'
<1>1. Opening(r, "connect") /\ Beside(r) /\ pc[r] = "connect" /\ "connect" \in Opens
  BY OpeningIsBeside, StoreStages DEF Connect
<1>2. CASE Failed(r, "store", live[r])
  BY <1>1, <1>2, FailedKeeps, StoreStages
<1>3. CASE \E stage \in {"begin", "extension"} : Opened(r, {"pool"}, <<>>, stage)
  <2>1. PICK stage \in {"begin", "extension"} : Opened(r, {"pool"}, <<>>, stage)
    BY <1>3
  <2>2. stage \in Migrates
    BY DEF Migrates
  <2>3. OpenedBy(stage, live[r] \cup {"pool"})
    BY <2>2, StoreStages
  <2> QED
    BY <1>1, <2>1, <2>2, <2>3, StoreStages, OnwardKeeps
<1> QED
  BY <1>2, <1>3 DEF Connect

LEMMA MigrationStage ==
  ASSUME ProcessInv, NEW r \in Replica, NEW from \in Migrates, Opening(r, from)
  PROVE  /\ Beside(r) /\ pc[r] = from /\ Pending(from) = {"pool"} /\ from \in Opens
         /\ "pool" \in live[r] /\ from \in Before
<1>1. Beside(r) /\ pc[r] = from /\ Pending(from) = {"pool"} /\ from \in Opens
  BY OpeningIsBeside, StoreStages
<1>2. "pool" \in live[r]
  BY <1>1, PoolIsOpen
<1> QED
  BY <1>1, <1>2, StoreStages

LEMMA MigratesOnward ==
  ASSUME ProcessInv, NEW r \in Replica, NEW from \in Migrates, Opening(r, from),
         NEW stage \in Migrates, Opened(r, {}, <<>>, stage)
  PROVE  ProcessInv'
<1>1. /\ Beside(r) /\ pc[r] = from /\ Pending(from) = {"pool"} /\ from \in Opens
      /\ "pool" \in live[r] /\ from \in Before
  BY MigrationStage
<1>2. OpenedBy(stage, live[r] \cup {})
  BY <1>1, StoreStages
<1> QED
  BY <1>1, <1>2, StoreStages, OnwardKeeps

LEMMA MigrationFails ==
  ASSUME ProcessInv, NEW r \in Replica, NEW from \in Migrates, Opening(r, from),
         NEW reason, Failed(r, reason, live[r] \ {"pool"})
  PROVE  ProcessInv'
<1>1. Beside(r) /\ pc[r] = from /\ Pending(from) = {"pool"}
  BY MigrationStage
<1> QED
  BY <1>1, FailedKeeps

LEMMA MigrationEnds ==
  ASSUME ProcessInv, NEW r \in Replica, NEW from \in Migrates, Opening(r, from),
         Opened(r, {}, <<"database">>, "redis")
  PROVE  ProcessInv'
<1>1. /\ Beside(r) /\ pc[r] = from /\ Pending(from) = {"pool"} /\ from \in Opens
      /\ "pool" \in live[r]
  BY MigrationStage
<1>2. OpenedBy("redis", live[r] \cup {})
  BY <1>1, StoreStages
<1>3. ToSet(<<"database">>) = {"database"}
  <2>1. DOMAIN <<"database">> = {1}
    OBVIOUS
  <2> QED
    BY <2>1 DEF ToSet
<1>4. "database" \in Closings \ Joint
  BY DEF Closings, Joint
<1>5. \A x \in Pending(pc[r]) : \E c \in ToSet(<<"database">>) : x \in Ended(c)
  BY <1>1, <1>3, WhatEnds
<1> QED
  BY <1>1, <1>2, <1>4, <1>5, StoreStages, OpenedKeeps

LEMMA CreateExtensionKeeps ==
  ASSUME ProcessInv, NEW r \in Replica, CreateExtension(r)
  PROVE  ProcessInv'
<1>1. Opening(r, "extension") /\ {"extension", "begin"} \subseteq Migrates
  BY DEF CreateExtension, Migrates
<1>2. CASE Failed(r, "extension", live[r] \ {"pool"})
  BY <1>1, <1>2, MigrationFails
<1>3. CASE Opened(r, {}, <<>>, "begin")
  BY <1>1, <1>3, MigratesOnward
<1> QED
  BY <1>2, <1>3 DEF CreateExtension

LEMMA LockMigrationsKeeps ==
  ASSUME ProcessInv, NEW r \in Replica, LockMigrations(r)
  PROVE  ProcessInv'
<1>1. /\ Opening(r, "begin") /\ {"migrating", "begin"} \subseteq Migrates
      /\ Opened(r, {}, <<>>, "migrating")
  BY DEF LockMigrations, Migrates
<1> QED
  BY <1>1, MigratesOnward

LEMMA MigratePostgresKeeps ==
  ASSUME ProcessInv, NEW r \in Replica, MigratePostgres(r)
  PROVE  ProcessInv'
<1>1. Opening(r, "migrating") /\ "migrating" \in Migrates
  BY DEF MigratePostgres, Migrates
<1>2. CASE \E reason \in {"store", "dimensions"} : Failed(r, reason, live[r] \ {"pool"})
  BY <1>1, <1>2, MigrationFails
<1>3. CASE Advance(r)
  BY <1>1, <1>3, MigrationStage, AdvanceKeeps
<1>4. CASE Opened(r, {}, <<"database">>, "redis")
  BY <1>1, <1>4, MigrationEnds
<1> QED
  BY <1>2, <1>3, <1>4 DEF MigratePostgres

LEMMA OpenFileKeeps ==
  ASSUME ProcessInv, NEW r \in Replica, OpenFile(r)
  PROVE  ProcessInv'
<1>1. Opening(r, "file") /\ Opened(r, {"pool"}, <<>>, "schema") /\ "schema" \in Migrates
  BY DEF OpenFile, Migrates
<1>2. OpenedBy("schema", live[r] \cup {"pool"})
  BY <1>1, StoreStages
<1> QED
  BY <1>1, <1>2, StoreStages, OnwardKeeps

LEMMA MigrateSQLiteKeeps ==
  ASSUME ProcessInv, NEW r \in Replica, MigrateSQLite(r)
  PROVE  ProcessInv'
<1>1. Opening(r, "schema") /\ "schema" \in Migrates
  BY DEF MigrateSQLite, Migrates
<1>2. CASE Failed(r, "store", live[r] \ {"pool"})
  BY <1>1, <1>2, MigrationFails
<1>3. CASE Advance(r)
  BY <1>1, <1>3, MigrationStage, AdvanceKeeps
<1>4. CASE Opened(r, {}, <<"database">>, "redis")
  BY <1>1, <1>4, MigrationEnds
<1> QED
  BY <1>2, <1>3, <1>4 DEF MigrateSQLite

LEMMA LaterStages ==
  /\ AfterStore \subseteq Opens \ Before
  /\ AfterStore = {"redis", "boundaries", "office", "recover", "mcp", "services", "workers"}
  /\ \A stage \in AfterStore \ {"mcp"} : Pending(stage) = {}
  /\ Pending("mcp") \subseteq ToSet(Servers)
BY DEF AfterStore, AfterRedis, AfterOffice, AfterMCP, Opens, Before, Migrates, Pending

\* What is open stays open from one stage to the next.
LEMMA NextStages ==
  ASSUME NEW open, NEW things
  PROVE  /\ /\ OpenedBy("redis", open) /\ (cfg.redisURL # "absent" => "redis" \in things)
            => OpenedBy("boundaries", open \cup things)
         /\ OpenedBy("boundaries", open) => OpenedBy("office", open \cup things)
         /\ /\ OpenedBy("office", open) /\ (cfg.officeExecutor # "disabled" => "office" \in things)
            => OpenedBy("recover", open \cup things)
         /\ OpenedBy("recover", open) => OpenedBy("mcp", open \cup things)
         /\ OpenedBy("mcp", open) => OpenedBy("mcp", open \cup things)
         /\ /\ OpenedBy("mcp", open) /\ (cfg.mcp = "on" => ToSet(Servers) \subseteq open)
            => OpenedBy("services", open \cup things)
         /\ OpenedBy("services", open) => OpenedBy("workers", open \cup things)
BY DEF OpenedBy, Migrates, AfterStore, AfterRedis, AfterOffice, AfterMCP

LEMMA LaterStage ==
  ASSUME ProcessInv, NEW r \in Replica, NEW stage \in AfterStore, Opening(r, stage)
  PROVE  /\ Beside(r) /\ pc[r] = stage /\ stage \in Opens
         /\ OpenedBy(stage, live[r])
<1>1. Beside(r) /\ pc[r] = stage /\ stage \in Opens
  BY LaterStages, OpeningIsBeside
<1> QED
  BY <1>1 DEF ProcessInv, ProcessOK

\* The single member of a sequence of one closing.
LEMMA OneClosing ==
  ASSUME NEW c
  PROVE  ToSet(<<c>>) = {c}
<1>1. DOMAIN <<c>> = {1}
  OBVIOUS
<1> QED
  BY <1>1 DEF ToSet

LEMMA OpenRedisKeeps ==
  ASSUME ProcessInv, NEW r \in Replica, OpenRedis(r)
  PROVE  ProcessInv'
<1>1. Opening(r, "redis") /\ {"redis", "boundaries"} \subseteq AfterStore
  BY LaterStages DEF OpenRedis
<1>2. Beside(r) /\ pc[r] = "redis" /\ OpenedBy("redis", live[r])
  BY <1>1, LaterStage
<1>3. Pending("redis") = {} /\ Pending("boundaries") = {} /\ "boundaries" \in Opens \ Before
  BY LaterStages
<1>4. CASE cfg.redisURL = "absent" /\ Opened(r, {}, <<>>, "boundaries")
  <2>1. OpenedBy("boundaries", live[r] \cup {})
    BY <1>2, <1>4, NextStages
  <2> QED
    BY <1>2, <1>3, <1>4, <2>1, OpenedKeeps
<1>5. CASE Opened(r, {"redis"}, <<"redis">>, "boundaries")
  <2>1. OpenedBy("boundaries", live[r] \cup {"redis"})
    BY <1>2, NextStages
  <2>2. \A x \in {"redis"} : \E c \in ToSet(<<"redis">>) : x \in Ended(c)
    BY OneClosing, WhatEnds
  <2>3. "redis" \in Closings \ Joint
    BY DEF Closings, Joint
  <2> QED
    BY <1>2, <1>3, <1>5, <2>1, <2>2, <2>3, OpenedKeeps
<1> QED
  BY <1>4, <1>5 DEF OpenRedis

LEMMA BuildBoundariesKeeps ==
  ASSUME ProcessInv, NEW r \in Replica, BuildBoundaries(r)
  PROVE  ProcessInv'
<1>1. Opening(r, "boundaries") /\ {"boundaries", "office"} \subseteq AfterStore
  BY LaterStages DEF BuildBoundaries
<1>2. Beside(r) /\ pc[r] = "boundaries" /\ OpenedBy("boundaries", live[r])
  BY <1>1, LaterStage
<1>3. Pending("office") = {} /\ Pending("boundaries") = {} /\ "office" \in Opens \ Before
  BY LaterStages
<1>4. CASE Opened(r, {}, <<>>, "office")
  <2>1. OpenedBy("office", live[r] \cup {})
    BY <1>2, <1>4, NextStages
  <2> QED
    BY <1>2, <1>3, <1>4, <2>1, OpenedKeeps
<1>5. CASE Failed(r, "boundaries", live[r])
  BY <1>2, <1>3, <1>5, FailedKeeps
<1> QED
  BY <1>4, <1>5 DEF BuildBoundaries

LEMMA OpenOfficeKeeps ==
  ASSUME ProcessInv, NEW r \in Replica, OpenOffice(r)
  PROVE  ProcessInv'
<1>1. Opening(r, "office") /\ {"office", "recover"} \subseteq AfterStore
  BY LaterStages DEF OpenOffice
<1>2. Beside(r) /\ pc[r] = "office" /\ OpenedBy("office", live[r])
  BY <1>1, LaterStage
<1>3. Pending("office") = {} /\ Pending("recover") = {} /\ "recover" \in Opens \ Before
  BY LaterStages
<1>4. CASE cfg.officeExecutor = "disabled" /\ Opened(r, {}, <<>>, "recover")
  <2>1. OpenedBy("recover", live[r] \cup {})
    BY <1>2, <1>4, NextStages
  <2> QED
    BY <1>2, <1>3, <1>4, <2>1, OpenedKeeps
<1>5. CASE Opened(r, {"office"}, <<"office">>, "recover")
  <2>1. OpenedBy("recover", live[r] \cup {"office"})
    BY <1>2, NextStages
  <2>2. \A x \in {"office"} : \E c \in ToSet(<<"office">>) : x \in Ended(c)
    BY OneClosing, WhatEnds
  <2>3. "office" \in Closings \ Joint
    BY DEF Closings, Joint
  <2> QED
    BY <1>2, <1>3, <1>5, <2>1, <2>2, <2>3, OpenedKeeps
<1>6. CASE Failed(r, "office", live[r])
  BY <1>2, <1>3, <1>6, FailedKeeps
<1> QED
  BY <1>4, <1>5, <1>6 DEF OpenOffice

LEMMA RecoverKeeps ==
  ASSUME ProcessInv, NEW r \in Replica, Recover(r)
  PROVE  ProcessInv'
<1>1. /\ Opening(r, "recover") /\ {"recover", "mcp"} \subseteq AfterStore
      /\ Opened(r, {}, <<>>, "mcp")
  BY LaterStages DEF Recover
<1>2. Beside(r) /\ pc[r] = "recover" /\ OpenedBy("recover", live[r])
  BY <1>1, LaterStage
<1>3. Pending("recover") = {} /\ "mcp" \in Opens \ Before
  BY LaterStages
<1>4. OpenedBy("mcp", live[r] \cup {})
  BY <1>2, NextStages
<1> QED
  BY <1>1, <1>2, <1>3, <1>4, OpenedKeeps

\* The sessions are opened one by one, and one closing is deferred for all.
LEMMA OpenMCPKeeps ==
  ASSUME ProcessInv, NEW r \in Replica, OpenMCP(r)
  PROVE  ProcessInv'
<1> DEFINE missing == {i \in DOMAIN Servers : Servers[i] \notin live[r]}
           first == CHOOSE i \in missing : \A j \in missing : i <= j
<1>1. Opening(r, "mcp") /\ {"mcp", "services"} \subseteq AfterStore
  BY LaterStages DEF OpenMCP
<1>2. Beside(r) /\ pc[r] = "mcp" /\ OpenedBy("mcp", live[r])
  BY <1>1, LaterStage
<1>3. /\ Pending("services") = {} /\ Pending("mcp") \subseteq ToSet(Servers)
      /\ "mcp" \in Opens \ Before /\ "services" \in Opens \ Before
  BY LaterStages
<1>4. CASE ~ConnectMCP(cfg) /\ Failed(r, "mcp", live[r])
  <2>1. Pending("mcp") = {}
    BY <1>4 DEF Pending, Migrates
  <2> QED
    BY <1>2, <1>4, <2>1, FailedKeeps
<1>5. CASE cfg.mcp = "off" /\ Opened(r, {}, <<>>, "services")
  <2>1. Pending("mcp") = {}
    BY <1>5 DEF Pending, Migrates
  <2>2. OpenedBy("services", live[r] \cup {})
    BY <1>2, <1>5, NextStages
  <2> QED
    BY <1>2, <1>3, <1>5, <2>1, <2>2, OpenedKeeps
<1>6. CASE missing = {} /\ Opened(r, {}, <<"mcp">>, "services")
  <2>1. ToSet(Servers) \subseteq live[r]
    BY <1>6 DEF ToSet
  <2>2. OpenedBy("services", live[r] \cup {})
    BY <1>2, <2>1, NextStages
  <2>3. \A x \in Pending("mcp") : \E c \in ToSet(<<"mcp">>) : x \in Ended(c)
    BY <1>3, OneClosing, WhatEnds
  <2>4. "mcp" \in Closings \ Joint
    BY DEF Closings, Joint
  <2> QED
    BY <1>2, <1>3, <1>6, <2>2, <2>3, <2>4, OpenedKeeps
<1>7. CASE /\ ConnectMCP(cfg) /\ cfg.mcp # "off" /\ missing # {}
           /\ Opened(r, {Servers[first]}, <<>>, "mcp")
  <2>1. Pending("mcp") = ToSet(Servers)
    BY <1>7 DEF Pending, Migrates
  <2>2. first \in DOMAIN Servers
    <3>1. missing \in SUBSET Nat
      BY DEF ProcessInv, ProcessTypeOK, Servers
    <3> QED
      BY <1>7, <3>1, LeastNumber
  <2>3. Servers[first] \in ToSet(Servers)
    BY <2>2 DEF ToSet
  <2> DEFINE x == Servers[first]
  <2> HIDE DEF first, x
  <2>4. OpenedBy("mcp", live[r] \cup {x})
    BY <1>2, NextStages
  <2>5. Opened(r, {x}, <<>>, "mcp") /\ x \in ToSet(Servers)
    BY <1>7, <2>3 DEF x
  <2>6. /\ \A y \in {x} : y \in Pending("mcp")
        /\ {x} \subseteq {"tracer", "meter", "pool", "redis", "office"} \cup ToSet(Servers)
    BY <2>1, <2>5
  <2> QED
    BY <1>1, <1>3, <2>4, <2>5, <2>6, OnwardKeeps
<1> QED
  BY <1>4, <1>5, <1>6, <1>7 DEF OpenMCP

LEMMA BuildServicesKeeps ==
  ASSUME ProcessInv, NEW r \in Replica, BuildServices(r)
  PROVE  ProcessInv'
<1>1. Opening(r, "services") /\ {"services", "workers"} \subseteq AfterStore
  BY LaterStages DEF BuildServices
<1>2. Beside(r) /\ pc[r] = "services" /\ OpenedBy("services", live[r])
  BY <1>1, LaterStage
<1>3. Pending("services") = {} /\ Pending("workers") = {} /\ "workers" \in Opens \ Before
  BY LaterStages
<1>4. CASE Opened(r, {}, <<>>, "workers")
  <2>1. OpenedBy("workers", live[r] \cup {})
    BY <1>2, NextStages
  <2> QED
    BY <1>2, <1>3, <1>4, <2>1, OpenedKeeps
<1>5. CASE Failed(r, "services", live[r])
  BY <1>2, <1>3, <1>5, FailedKeeps
<1> QED
  BY <1>4, <1>5 DEF BuildServices

\* The two closings of the workers are deferred when all else is open.
LEMMA StartWorkersKeeps ==
  ASSUME ProcessInv, NEW r \in Replica, StartWorkers(r)
  PROVE  ProcessInv'
<1> DEFINE q == deferred[r]
           q1 == <<"capture">> \o q
           p == <<"background", "capture">> \o q
           w == [v \in Workers |-> IF v \in Started THEN "idle" ELSE "off"]
<1>1. /\ pc[r] = "workers" /\ pc' = [pc EXCEPT ![r] = "serving"]
      /\ live' = [live EXCEPT ![r] = @ \cup {}] /\ deferred' = [deferred EXCEPT ![r] = p]
      /\ worker' = [worker EXCEPT ![r] = w] /\ UNCHANGED <<cfg, handlers, overdue>>
  BY DEF StartWorkers, Opened, Goto, given
<1>2. /\ q \in Seq(Closings) /\ ProcessOK(r) /\ ProcessTypeOK
  BY DEF ProcessInv, ProcessTypeOK
<1>3. {"background", "capture"} \subseteq Closings /\ Joint = {"background", "capture"}
  BY DEF Closings, Joint
<1>4. /\ q1 \in Seq(Closings) /\ ToSet(q1) = {"capture"} \cup ToSet(q)
      /\ \A i \in DOMAIN q : q1[i + 1] = q[i]
      /\ DOMAIN q1 = 1 .. Len(q) + 1 /\ q1[1] = "capture"
  BY <1>2, <1>3, OnePrepended
<1>5. p = <<"background">> \o q1
  <2>1. <<"background", "capture">> = <<"background">> \o <<"capture">>
    OBVIOUS
  <2>2. <<"background">> \in Seq(Closings) /\ <<"capture">> \in Seq(Closings)
    BY <1>3
  <2> QED
    BY <1>2, <2>1, <2>2, ConcatAssociative
<1>6. /\ p \in Seq(Closings) /\ ToSet(p) = Joint \cup ToSet(q)
      /\ p[1] = "background" /\ DOMAIN p = 1 .. Len(q1) + 1
      /\ \A i \in DOMAIN q1 : p[i + 1] = q1[i]
  <2>1. LET s == <<"background">> \o q1 IN
        /\ s \in Seq(Closings) /\ ToSet(s) = {"background"} \cup ToSet(q1)
        /\ s[1] = "background" /\ DOMAIN s = 1 .. Len(q1) + 1
        /\ \A i \in DOMAIN q1 : s[i + 1] = q1[i]
    BY <1>3, <1>4, OnePrepended
  <2> HIDE DEF p, q1
  <2> QED
    BY <1>3, <1>4, <1>5, <2>1
<1>7. ToSet(q) \cap Joint = {} /\ worker[r] = Off /\ handlers[r] = {}
  <2>1. "workers" \in Opens /\ "workers" \notin {"serving", "draining", "unwinding", "returned"}
    BY LaterStages
  <2> QED
    BY <1>1, <1>2, <2>1 DEF ProcessOK, Ordered, Answering
<1>8. AllOpen(live[r])
  <2>1. OpenedBy("workers", live[r])
    BY <1>1, <1>2 DEF ProcessOK
  <2> QED
    BY <2>1 DEF OpenedBy, AllOpen, AfterStore, AfterRedis, AfterOffice, AfterMCP
<1>9. \A i \in DOMAIN p : p[i] \in Joint => i \in {1, 2}
  <2>1. Len(q1) = Len(q) + 1 /\ DOMAIN q = 1 .. Len(q) /\ Len(q) \in Nat
    BY <1>2, <1>4
  <2> HIDE DEF p, q1, q
  <2>2. SUFFICES ASSUME NEW i \in DOMAIN p, i \notin {1, 2} PROVE p[i] \notin Joint
    OBVIOUS
  <2>3. i - 1 \in DOMAIN q1 /\ i = (i - 1) + 1 /\ i - 2 \in DOMAIN q /\ i - 1 = (i - 2) + 1
    BY <1>4, <1>6, <2>1, <2>2
  <2>4. p[i] = q1[i - 1] /\ q1[i - 1] = q[i - 2]
    BY <1>4, <1>6, <2>3
  <2>5. q[i - 2] \in ToSet(q)
    BY <2>3 DEF ToSet
  <2> QED
    BY <1>7, <2>4, <2>5
<1>10. p[1] \in Joint /\ p[2] \in Joint /\ DOMAIN p \subseteq Nat \ {0}
  <2>1. 1 \in DOMAIN q1 /\ 2 = 1 + 1 /\ Len(q1) \in Nat
    BY <1>2, <1>4
  <2> HIDE DEF p, q1, q
  <2>2. p[2] = q1[1]
    BY <1>6, <2>1
  <2> QED
    BY <1>3, <1>4, <1>6, <2>1, <2>2
<1> HIDE DEF p, q, q1, w
<1>11. Ordered("serving", p)
  <2>1. \A i, j \in DOMAIN p : i < j /\ p[j] \in Joint => p[i] \in Joint
    <3> SUFFICES ASSUME NEW i \in DOMAIN p, NEW j \in DOMAIN p, i < j, p[j] \in Joint
                 PROVE  p[i] \in Joint
      OBVIOUS
    <3>1. j \in {1, 2} /\ i \in Nat \ {0}
      BY <1>9, <1>10
    <3>2. i = 1
      BY <3>1
    <3> QED
      BY <3>2, <1>10
  <2>2. "serving" \notin Before \cup Opens
    BY QuietStages DEF Before, Opens, Migrates, AfterStore, AfterRedis, AfterOffice, AfterMCP
  <2> QED
    BY <1>6, <2>1, <2>2 DEF Ordered
<1>12. Covered("serving", p, live[r])
  <2>1. \A x \in live[r] : \E c \in ToSet(q) : x \in Ended(c)
    <3>1. Pending("workers") = {}
      BY LaterStages
    <3> QED
      BY <1>1, <1>2, <3>1 DEF ProcessOK, Covered, q
  <2> QED
    BY <1>6, <2>1 DEF Covered
<1>13. Watched(p, w, overdue[r])
  <2>1. \A v \in Workers : \E c \in Joint : v \in ToSet(Stopped(c))
    BY <1>3, WhoStops DEF Workers
  <2> QED
    BY <1>6, <2>1 DEF Watched
<1>14. Answering("serving", handlers[r], overdue[r])
  BY DEF Answering
<1>15. OpenedBy("serving", live[r])
  BY DEF OpenedBy, Migrates, AfterStore, AfterRedis, AfterOffice, AfterMCP
<1>16. /\ pc'[r] = "serving" /\ live'[r] = live[r] /\ deferred'[r] = p /\ worker'[r] = w
       /\ handlers'[r] = handlers[r] /\ overdue'[r] = overdue[r]
       /\ \A s \in Replica \ {r} : Apart(s)
  BY <1>1, <1>2 DEF ProcessTypeOK, Apart
<1>17. w \in [Workers -> {"off", "idle", "busy"}] /\ "serving" \in Stage \ (Before \cup Opens)
  BY QuietStages DEF w, Stage, Before, Opens, Migrates, AfterStore, AfterRedis, AfterOffice, AfterMCP
<1>18. ProcessTypeOK'
  <2>1. live[r] \cup {} = live[r]
    OBVIOUS
  <2>2. live' \in [Replica -> SUBSET ({"tracer", "meter", "pool", "redis", "office"} \cup ToSet(Servers))]
    BY <1>1, <1>2, <2>1 DEF ProcessTypeOK
  <2> QED
    BY <1>1, <1>2, <1>6, <1>17, <2>2, SettingsStay DEF ProcessTypeOK
<1>19. ProcessOK(r)'
  <2>1. "serving" # "down"
    OBVIOUS
  <2> QED
    BY <1>1, <1>8, <1>11, <1>12, <1>13, <1>14, <1>15, <1>16, <1>17, <2>1, SettingsStay
       DEF ProcessOK, Watched, Answering, Ordered
<1>20. ASSUME NEW s \in Replica PROVE ProcessOK(s)'
  <2>1. CASE s = r
    BY <1>19, <2>1
  <2>2. CASE s # r
    BY <1>1, <1>16, <2>2, ApartKeeps DEF ProcessInv
  <2> QED
    BY <2>1, <2>2
<1> QED
  BY <1>18, <1>20 DEF ProcessInv

LEMMA OpenKeeps ==
  ASSUME ProcessInv, NEW r \in Replica, Open(r)
  PROVE  ProcessInv'
BY LoadKeeps, OpenTelemetryKeeps, ConnectKeeps, CreateExtensionKeeps, LockMigrationsKeeps,
   MigratePostgresKeeps, OpenFileKeeps, MigrateSQLiteKeeps, OpenRedisKeeps,
   BuildBoundariesKeeps, OpenOfficeKeeps, RecoverKeeps, OpenMCPKeeps, BuildServicesKeeps,
   StartWorkersKeeps DEF Open

-----------------------------------------------------------------------------
(* Serving and closing                                                     *)

\* A step of one process that keeps what is said of it.
LEMMA OneProcess ==
  ASSUME ProcessInv, NEW r \in Replica, UNCHANGED cfg,
         \A s \in Replica \ {r} : Apart(s), ProcessTypeOK', ProcessOK(r)'
  PROVE  ProcessInv'
<1>1. ASSUME NEW s \in Replica PROVE ProcessOK(s)'
  <2>1. CASE s = r
    BY <2>1
  <2>2. CASE s # r
    BY <2>2, ApartKeeps DEF ProcessInv
  <2> QED
    BY <2>1, <2>2
<1> QED
  BY <1>1 DEF ProcessInv

LEMMA ServingStages ==
  /\ {"serving", "draining", "unwinding", "returned"} \subseteq Stage
  /\ {"serving", "draining", "unwinding", "returned"} \cap (Before \cup Opens \cup Migrates) = {}
  /\ \A stage \in {"serving", "draining", "unwinding", "returned", "down"} :
       /\ Pending(stage) = {}
       /\ \A open : OpenedBy(stage, open)
  /\ "down" \in Stage \ Opens
BY DEF Stage, Before, Opens, Pending, OpenedBy, Migrates, AfterStore, AfterRedis, AfterOffice,
       AfterMCP

LEMMA ServeKeeps ==
  ASSUME ProcessInv, NEW r \in Replica, NEW h \in Handlers, Serve(r, h)
  PROVE  ProcessInv'
<1>1. /\ pc[r] = "serving" /\ handlers' = [handlers EXCEPT ![r] = @ \cup {h}]
      /\ UNCHANGED <<cfg, pc, deferred, live, worker, overdue>>
  BY DEF Serve, given
<1>2. ProcessTypeOK /\ ProcessOK(r)
  BY DEF ProcessInv
<1>3. \A s \in Replica \ {r} : Apart(s)
  BY <1>1, <1>2 DEF ProcessTypeOK, Apart
<1>4. handlers' \in [Replica -> SUBSET Handlers]
  BY <1>1, <1>2 DEF ProcessTypeOK
<1>5. ProcessTypeOK'
  BY <1>1, <1>2, <1>4, SettingsStay DEF ProcessTypeOK
<1>6. Answering("serving", handlers'[r], overdue[r])
  BY DEF Answering
<1>7. ProcessOK(r)'
  BY <1>1, <1>2, <1>6, SettingsStay DEF ProcessOK, Watched, Answering, Ordered
<1> QED
  BY <1>1, <1>3, <1>5, <1>7, OneProcess

LEMMA RespondKeeps ==
  ASSUME ProcessInv, NEW r \in Replica, NEW h \in Handlers, Respond(r, h)
  PROVE  ProcessInv'
<1>1. /\ handlers' = [handlers EXCEPT ![r] = @ \ {h}]
      /\ UNCHANGED <<cfg, pc, deferred, live, worker, overdue>>
  BY DEF Respond, given
<1>2. ProcessTypeOK /\ ProcessOK(r)
  BY DEF ProcessInv
<1>3. \A s \in Replica \ {r} : Apart(s)
  BY <1>1, <1>2 DEF ProcessTypeOK, Apart
<1>4. handlers' \in [Replica -> SUBSET Handlers] /\ handlers'[r] \subseteq handlers[r]
  BY <1>1, <1>2 DEF ProcessTypeOK
<1>5. ProcessTypeOK'
  BY <1>1, <1>2, <1>4, SettingsStay DEF ProcessTypeOK
<1>6. Answering(pc[r], handlers'[r], overdue[r])
  BY <1>2, <1>4 DEF Answering, ProcessOK
<1>7. ProcessOK(r)'
  BY <1>1, <1>2, <1>6, SettingsStay DEF ProcessOK, Watched, Answering, Ordered
<1> QED
  BY <1>1, <1>3, <1>5, <1>7, OneProcess

\* A worker that turns was running, and so the process has left the opening.
LEMMA TurnKeeps ==
  ASSUME ProcessInv, NEW r \in Replica, NEW w \in Workers, NEW from \in {"idle", "busy"},
         NEW to \in {"off", "idle", "busy"}, Turn(r, w, from, to)
  PROVE  ProcessInv'
<1>1. /\ worker[r][w] = from /\ worker' = [worker EXCEPT ![r][w] = to]
      /\ UNCHANGED <<cfg, pc, deferred, live, handlers, overdue>>
  BY DEF Turn, given
<1>2. ProcessTypeOK /\ ProcessOK(r)
  BY DEF ProcessInv
<1>3. \A s \in Replica \ {r} : Apart(s)
  BY <1>1, <1>2 DEF ProcessTypeOK, Apart
<1>4. /\ worker' \in [Replica -> [Workers -> {"off", "idle", "busy"}]]
      /\ \A v \in Workers : worker'[r][v] # "off" => worker[r][v] # "off"
  BY <1>1, <1>2 DEF ProcessTypeOK
<1>5. ProcessTypeOK'
  BY <1>1, <1>2, <1>4, SettingsStay DEF ProcessTypeOK
<1>6. Watched(deferred[r], worker'[r], overdue[r])
  BY <1>2, <1>4 DEF Watched, ProcessOK
<1>7. pc[r] \notin Before \cup Opens
  BY <1>1, <1>2 DEF ProcessOK, Off
<1>8. ProcessOK(r)'
  BY <1>1, <1>2, <1>6, <1>7, SettingsStay DEF ProcessOK, Watched, Answering, Ordered
<1> QED
  BY <1>1, <1>3, <1>5, <1>8, OneProcess

LEMMA WorkersKeep ==
  ASSUME ProcessInv, NEW r \in Replica, NEW w \in Workers,
         Claim(r, w) \/ Finish(r, w) \/ Leave(r, w)
  PROVE  ProcessInv'
BY TurnKeeps DEF Claim, Finish, Leave

\* What goes on after the listener has ended.
LEMMA LeavesServing ==
  ASSUME ProcessInv, NEW r \in Replica, pc[r] \in {"serving", "draining"},
         NEW stage \in {"draining", "unwinding"}, Goto(r, stage),
         UNCHANGED <<cfg, deferred, live, handlers, worker>>,
         overdue' \in [Replica -> SUBSET (Handlers \cup Workers)],
         \A s \in Replica \ {r} : overdue'[s] = overdue[s],
         overdue[r] \subseteq overdue'[r],
         stage = "draining" \/ handlers[r] \subseteq overdue'[r]
  PROVE  ProcessInv'
<1>1. ProcessTypeOK /\ ProcessOK(r)
  BY DEF ProcessInv
<1>2. /\ pc'[r] = stage /\ pc' \in [Replica -> Stage]
      /\ \A s \in Replica \ {r} : pc'[s] = pc[s]
  BY <1>1, ServingStages DEF Goto, ProcessTypeOK
<1>3. \A s \in Replica \ {r} : Apart(s)
  BY <1>2 DEF Apart
<1>4. ProcessTypeOK'
  BY <1>1, <1>2, SettingsStay DEF ProcessTypeOK
<1>5. stage \notin Before \cup Opens /\ OpenedBy(stage, live[r]) /\ stage # "down"
  BY ServingStages
<1>6. Covered(stage, deferred[r], live[r])
  BY <1>1, ServingStages DEF ProcessOK, Covered
<1>7. Ordered(stage, deferred[r])
  BY <1>1, <1>5 DEF ProcessOK, Ordered
<1>8. Watched(deferred[r], worker[r], overdue'[r])
  BY <1>1 DEF ProcessOK, Watched
<1>9. Answering(stage, handlers[r], overdue'[r])
  BY DEF Answering
<1>10. ProcessOK(r)'
  BY <1>1, <1>2, <1>5, <1>6, <1>7, <1>8, <1>9, SettingsStay
     DEF ProcessOK, Watched, Answering, Ordered
<1> QED
  BY <1>3, <1>4, <1>10, OneProcess

LEMMA SignalKeeps ==
  ASSUME ProcessInv, NEW r \in Replica, Signal(r)
  PROVE  ProcessInv'
<1>1. overdue \in [Replica -> SUBSET (Handlers \cup Workers)]
  BY DEF ProcessInv, ProcessTypeOK
<1> QED
  BY <1>1, LeavesServing DEF Signal, given, process

LEMMA DrainKeeps ==
  ASSUME ProcessInv, NEW r \in Replica, Drain(r)
  PROVE  ProcessInv'
<1>1. overdue \in [Replica -> SUBSET (Handlers \cup Workers)]
  BY DEF ProcessInv, ProcessTypeOK
<1> QED
  BY <1>1, LeavesServing DEF Drain, Drained, given, process

LEMMA AbandonKeeps ==
  ASSUME ProcessInv, NEW r \in Replica, DrainExpires(r) \/ ListenerFails(r)
  PROVE  ProcessInv'
<1>1. /\ pc[r] \in {"serving", "draining"} /\ Goto(r, "unwinding")
      /\ overdue' = [overdue EXCEPT ![r] = @ \cup handlers[r]]
      /\ UNCHANGED <<cfg, deferred, live, handlers, worker>>
  BY DEF DrainExpires, ListenerFails, Abandon, given
<1>2. /\ overdue \in [Replica -> SUBSET (Handlers \cup Workers)]
      /\ handlers[r] \subseteq Handlers
  BY DEF ProcessInv, ProcessTypeOK
<1>3. /\ overdue' \in [Replica -> SUBSET (Handlers \cup Workers)]
      /\ overdue'[r] = overdue[r] \cup handlers[r]
      /\ \A s \in Replica \ {r} : overdue'[s] = overdue[s]
  BY <1>1, <1>2
<1> QED
  BY <1>1, <1>3, LeavesServing

LEMMA StopWorkerKeeps ==
  ASSUME ProcessInv, NEW r \in Replica, StopWorker(r)
  PROVE  ProcessInv'
<1>1. UNCHANGED <<cfg, pc, deferred, live, handlers, worker, overdue>>
  BY DEF StopWorker, given
<1>2. ProcessTypeOK'
  BY <1>1, SettingsStay DEF ProcessInv, ProcessTypeOK
<1>3. \A s \in Replica : ProcessOK(s)'
  BY <1>1, ApartKeeps DEF ProcessInv, Apart
<1> QED
  BY <1>2, <1>3 DEF ProcessInv

\* The first deferred closing is done with: what remains is in order, and
\* of the workers' closings none remains unless the first was one.
LEMMA OneDone ==
  ASSUME ProcessInv, NEW r \in Replica, pc[r] = "unwinding", deferred[r] # <<>>
  PROVE  /\ Ordered("unwinding", Tail(deferred[r]))
         /\ ToSet(Tail(deferred[r])) \cap Joint # {} =>
              Head(deferred[r]) \in Joint /\ AllOpen(live[r])
         /\ Tail(deferred[r]) \in Seq(Closings) /\ Head(deferred[r]) \in Closings
         /\ ToSet(deferred[r]) = {Head(deferred[r])} \cup ToSet(Tail(deferred[r]))
<1> DEFINE q == deferred[r]
           t == Tail(q)
           c == Head(q)
<1>1. q \in Seq(Closings) /\ ProcessOK(r)
  BY DEF ProcessInv, ProcessTypeOK
<1>2. /\ t \in Seq(Closings) /\ c \in Closings /\ ToSet(q) = {c} \cup ToSet(t)
      /\ q[1] = c /\ 1 \in DOMAIN q
      /\ \A i \in DOMAIN t : i + 1 \in DOMAIN q /\ t[i] = q[i + 1]
  BY <1>1, Popped
<1>3. /\ \A i, j \in DOMAIN q : i < j /\ q[j] \in Joint => q[i] \in Joint
      /\ ToSet(q) \cap Joint # {} => AllOpen(live[r])
  BY <1>1 DEF ProcessOK, Ordered
<1>4. DOMAIN t \subseteq Nat \ {0}
  BY <1>2
<1> HIDE DEF q, t, c
<1>5. \A i, j \in DOMAIN t : i < j /\ t[j] \in Joint => t[i] \in Joint
  <2> SUFFICES ASSUME NEW i \in DOMAIN t, NEW j \in DOMAIN t, i < j, t[j] \in Joint
               PROVE  t[i] \in Joint
    OBVIOUS
  <2>1. i + 1 < j + 1 /\ i + 1 \in DOMAIN q /\ j + 1 \in DOMAIN q
    BY <1>2, <1>4
  <2>2. q[j + 1] \in Joint
    BY <1>2
  <2>3. q[i + 1] \in Joint
    BY <1>3, <2>1, <2>2
  <2> QED
    BY <1>2, <2>3
<1>6. Ordered("unwinding", t)
  BY <1>5, ServingStages DEF Ordered
<1>7. ToSet(t) \cap Joint # {} => c \in Joint /\ AllOpen(live[r])
  <2> SUFFICES ASSUME NEW j \in DOMAIN t, t[j] \in Joint
               PROVE  c \in Joint /\ AllOpen(live[r])
    BY DEF ToSet
  <2>1. 1 < j + 1 /\ j + 1 \in DOMAIN q /\ q[j + 1] \in Joint
    BY <1>2, <1>4
  <2>2. q[1] \in Joint
    BY <1>2, <1>3, <2>1
  <2>3. ToSet(q) \cap Joint # {}
    BY <1>2, <2>2
  <2> QED
    BY <1>2, <1>3, <2>2, <2>3
<1> QED
  BY <1>2, <1>6, <1>7 DEF q, t, c

\* A closing is done with, whether it ended what it is for or gave it up.
LEMMA PopKeeps ==
  ASSUME ProcessInv, NEW r \in Replica, pc[r] = "unwinding", deferred[r] # <<>>,
         deferred' = [deferred EXCEPT ![r] = Tail(@)],
         live' = [live EXCEPT ![r] = @ \ Ended(Head(deferred[r]))],
         UNCHANGED <<cfg, pc, handlers, worker>>,
         overdue' \in [Replica -> SUBSET (Handlers \cup Workers)],
         \A s \in Replica \ {r} : overdue'[s] = overdue[s],
         overdue[r] \subseteq overdue'[r],
         \A w \in ToSet(Stopped(Head(deferred[r]))) \cap Workers :
            worker[r][w] = "off" \/ w \in overdue'[r]
  PROVE  ProcessInv'
<1> DEFINE q == deferred[r]
           t == Tail(q)
           c == Head(q)
           rest == live[r] \ Ended(c)
<1>1. ProcessTypeOK /\ ProcessOK(r)
  BY DEF ProcessInv
<1>2. /\ Ordered("unwinding", t)
      /\ ToSet(t) \cap Joint # {} => c \in Joint /\ AllOpen(live[r])
      /\ t \in Seq(Closings) /\ c \in Closings /\ ToSet(q) = {c} \cup ToSet(t)
  BY OneDone
<1>3. /\ deferred' = [deferred EXCEPT ![r] = t] /\ live' = [live EXCEPT ![r] = rest]
      /\ \A w \in ToSet(Stopped(c)) \cap Workers : worker[r][w] = "off" \/ w \in overdue'[r]
  OBVIOUS
<1>4. /\ Covered("unwinding", q, live[r]) /\ Watched(q, worker[r], overdue[r])
      /\ Answering("unwinding", handlers[r], overdue[r])
  BY <1>1 DEF ProcessOK
<1>5. rest \subseteq live[r] /\ \A x \in rest : x \in live[r] /\ x \notin Ended(c)
  OBVIOUS
<1>6. c \in Joint => rest = live[r]
  BY WhatEnds DEF Joint
<1> HIDE DEF q, t, c, rest
<1>7. /\ deferred'[r] = t /\ live'[r] = rest
      /\ \A s \in Replica \ {r} : Apart(s)
  BY <1>1, <1>3 DEF ProcessTypeOK, Apart
<1>8. ProcessTypeOK'
  <2>1. live' \in [Replica -> SUBSET ({"tracer", "meter", "pool", "redis", "office"} \cup ToSet(Servers))]
    BY <1>1, <1>3, <1>5 DEF ProcessTypeOK
  <2>2. deferred' \in [Replica -> Seq(Closings)]
    BY <1>1, <1>2, <1>3 DEF ProcessTypeOK
  <2> QED
    BY <1>1, <2>1, <2>2, SettingsStay DEF ProcessTypeOK
<1>9. Covered("unwinding", t, rest)
  BY <1>2, <1>4, <1>5, ServingStages DEF Covered
<1>10. Watched(t, worker[r], overdue'[r])
  BY <1>2, <1>3, <1>4 DEF Watched
<1>11. Answering("unwinding", handlers[r], overdue'[r])
  BY <1>4 DEF Answering
<1>12. ToSet(t) \cap Joint # {} => AllOpen(rest)
  BY <1>2, <1>6
<1>13. "unwinding" \notin Before \cup Opens /\ OpenedBy("unwinding", rest)
  BY ServingStages
<1>14. ProcessOK(r)'
  <2>1. pc'[r] = "unwinding" /\ worker'[r] = worker[r] /\ handlers'[r] = handlers[r]
    OBVIOUS
  <2>2. /\ Covered(pc'[r], deferred'[r], live'[r]) /\ OpenedBy(pc'[r], live'[r])
        /\ Ordered(pc'[r], deferred'[r])
        /\ ToSet(deferred'[r]) \cap Joint # {} => AllOpen(live'[r])
    BY <1>2, <1>7, <1>9, <1>12, <1>13, <2>1
  <2>3. /\ Watched(deferred'[r], worker'[r], overdue'[r])
        /\ Answering(pc'[r], handlers'[r], overdue'[r])
    BY <1>7, <1>10, <1>11, <2>1
  <2> QED
    BY <1>13, <2>1, <2>2, <2>3, SettingsStay DEF ProcessOK, Watched, Answering, Ordered
<1> QED
  BY <1>7, <1>8, <1>14, OneProcess

LEMMA StopExpiresKeeps ==
  ASSUME ProcessInv, NEW r \in Replica, StopExpires(r)
  PROVE  ProcessInv'
<1> DEFINE c == Head(deferred[r])
           stopped == ToSet(Stopped(c))
           late == {w \in stopped : worker[r][w] # "off"}
<1>1. /\ pc[r] = "unwinding" /\ deferred[r] # <<>> /\ stopped # {}
      /\ overdue' = [overdue EXCEPT ![r] = @ \cup late]
      /\ deferred' = [deferred EXCEPT ![r] = Tail(@)]
      /\ UNCHANGED <<cfg, pc, live, handlers, worker>>
  BY DEF StopExpires, given
<1>2. c \in Closings /\ ProcessTypeOK
  BY <1>1, OneDone DEF ProcessInv
<1> HIDE DEF c
<1>3. c \in Joint /\ stopped \subseteq Workers
  <2>1. c \in Joint
    BY <1>1, <1>2, WhoStops
  <2> QED
    BY <2>1, WhoStops DEF Joint, Workers
<1>4. live[r] \ Ended(c) = live[r]
  BY <1>3, WhatEnds DEF Joint
<1>5. live' = [live EXCEPT ![r] = @ \ Ended(c)]
  BY <1>1, <1>2, <1>4 DEF ProcessTypeOK
<1>6. late \subseteq Workers /\ \A w \in stopped : worker[r][w] = "off" \/ w \in late
  BY <1>3
<1> HIDE DEF late
<1>7. /\ overdue' \in [Replica -> SUBSET (Handlers \cup Workers)]
      /\ overdue'[r] = overdue[r] \cup late
      /\ \A s \in Replica \ {r} : overdue'[s] = overdue[s]
  BY <1>1, <1>2, <1>6 DEF ProcessTypeOK
<1>8. \A w \in stopped \cap Workers : worker[r][w] = "off" \/ w \in overdue'[r]
  BY <1>6, <1>7
<1> QED
  BY <1>1, <1>5, <1>7, <1>8, PopKeeps DEF c

LEMMA UnwindKeeps ==
  ASSUME ProcessInv, NEW r \in Replica, Unwind(r)
  PROVE  ProcessInv'
<1>1. /\ pc[r] = "unwinding" /\ deferred[r] # <<>> /\ MayClose(r, Head(deferred[r]))
      /\ live' = [live EXCEPT ![r] = @ \ Ended(Head(deferred[r]))]
      /\ deferred' = [deferred EXCEPT ![r] = Tail(@)]
      /\ UNCHANGED <<cfg, pc, handlers, worker, overdue>>
  BY DEF Unwind, given
<1>2. overdue \in [Replica -> SUBSET (Handlers \cup Workers)]
  BY DEF ProcessInv, ProcessTypeOK
<1>3. \A w \in ToSet(Stopped(Head(deferred[r]))) : worker[r][w] = "off"
  BY <1>1 DEF MayClose
<1> QED
  BY <1>1, <1>2, <1>3, PopKeeps

LEMMA ReturnKeeps ==
  ASSUME ProcessInv, NEW r \in Replica, Return(r)
  PROVE  ProcessInv'
<1>1. /\ pc[r] = "unwinding" /\ deferred[r] = <<>> /\ pc' = [pc EXCEPT ![r] = "returned"]
      /\ UNCHANGED <<cfg, deferred, live, handlers, worker, overdue>>
  BY DEF Return, Goto, given, process
<1>2. ProcessTypeOK /\ ProcessOK(r)
  BY DEF ProcessInv
<1>3. pc'[r] = "returned" /\ \A s \in Replica \ {r} : Apart(s)
  BY <1>1, <1>2 DEF ProcessTypeOK, Apart
<1>4. ProcessTypeOK'
  BY <1>1, <1>2, ServingStages, SettingsStay DEF ProcessTypeOK
<1>5. Covered("returned", deferred[r], live[r])
  BY <1>1, <1>2, ServingStages DEF ProcessOK, Covered
<1>6. "returned" \notin Before \cup Opens /\ OpenedBy("returned", live[r]) /\ "returned" # "down"
  BY ServingStages
<1>7. Ordered("returned", deferred[r])
  BY <1>1, <1>2, <1>6 DEF ProcessOK, Ordered
<1>8. Answering("returned", handlers[r], overdue[r])
  BY <1>1, <1>2 DEF ProcessOK, Answering
<1>9. ProcessOK(r)'
  BY <1>1, <1>2, <1>3, <1>5, <1>6, <1>7, <1>8, SettingsStay
     DEF ProcessOK, Watched, Answering, Ordered
<1> QED
  BY <1>1, <1>3, <1>4, <1>9, OneProcess

LEMMA GoneKeeps ==
  ASSUME ProcessInv, NEW r \in Replica, Gone(r)
  PROVE  ProcessInv'
<1>1. ProcessTypeOK
  BY DEF ProcessInv
<1>2. /\ pc' = [pc EXCEPT ![r] = "down"] /\ deferred' = [deferred EXCEPT ![r] = <<>>]
      /\ live' = [live EXCEPT ![r] = {}] /\ handlers' = [handlers EXCEPT ![r] = {}]
      /\ worker' = [worker EXCEPT ![r] = Off] /\ overdue' = [overdue EXCEPT ![r] = {}]
      /\ UNCHANGED cfg
  BY DEF Gone, Goto, given
<1>3. /\ pc'[r] = "down" /\ deferred'[r] = <<>> /\ live'[r] = {} /\ handlers'[r] = {}
      /\ worker'[r] = Off /\ overdue'[r] = {}
      /\ \A s \in Replica \ {r} : Apart(s)
  BY <1>1, <1>2 DEF ProcessTypeOK, Apart
<1>4. Off \in [Workers -> {"off", "idle", "busy"}]
  BY DEF Off
<1>5. ProcessTypeOK'
  <2>1. /\ pc' \in [Replica -> Stage] /\ deferred' \in [Replica -> Seq(Closings)]
        /\ handlers' \in [Replica -> SUBSET Handlers]
    BY <1>1, <1>2, ServingStages, NothingDeferred DEF ProcessTypeOK
  <2>2. /\ live' \in [Replica -> SUBSET ({"tracer", "meter", "pool", "redis", "office"} \cup ToSet(Servers))]
        /\ worker' \in [Replica -> [Workers -> {"off", "idle", "busy"}]]
        /\ overdue' \in [Replica -> SUBSET (Handlers \cup Workers)]
    BY <1>1, <1>2, <1>4 DEF ProcessTypeOK
  <2> QED
    BY <1>1, <1>2, <2>1, <2>2, SettingsStay DEF ProcessTypeOK
<1>6. OpenedBy("down", {}) /\ Covered("down", <<>>, {}) /\ "down" \notin Opens
  BY ServingStages DEF Covered
<1>7. Ordered("down", <<>>)
  BY <1>6, NothingDeferred DEF Ordered
<1>8. Watched(<<>>, Off, {}) /\ Answering("down", {}, {})
  BY DEF Watched, Answering, Off
<1>9. ProcessOK(r)'
  <2>1. /\ Covered(pc'[r], deferred'[r], live'[r]) /\ OpenedBy(pc'[r], live'[r])
        /\ Ordered(pc'[r], deferred'[r]) /\ ToSet(deferred'[r]) \cap Joint = {}
    BY <1>3, <1>6, <1>7, NothingDeferred
  <2>2. /\ Watched(deferred'[r], worker'[r], overdue'[r])
        /\ Answering(pc'[r], handlers'[r], overdue'[r])
    BY <1>3, <1>8
  <2> QED
    BY <1>2, <1>3, <2>1, <2>2, SettingsStay DEF ProcessOK, Watched, Answering, Ordered
<1> QED
  BY <1>2, <1>3, <1>5, <1>9, OneProcess

LEMMA CallFailsKeeps ==
  ASSUME ProcessInv, NEW r \in Replica, CallFails(r)
  PROVE  ProcessInv'
<1>1. pc[r] \in Migrates \cup {"connect", "recover", "telemetry", "redis", "office", "mcp"}
  BY DEF CallFails, Migrates
<1>2. Beside(r)
  BY <1>1 DEF CallFails, Beside, given, Opens, AfterStore, AfterRedis, AfterOffice
<1>3. Pending(pc[r]) \subseteq Unfinished(r)
  BY <1>1 DEF Pending, Unfinished, Migrates
<1>4. Failed(r, "external", live[r] \ Unfinished(r))
  BY DEF CallFails
<1> QED
  BY <1>2, <1>3, <1>4, FailedKeeps

LEMMA CloseKeeps ==
  ASSUME ProcessInv, NEW r \in Replica, Close(r)
  PROVE  ProcessInv'
BY DrainKeeps, AbandonKeeps, StopWorkerKeeps, StopExpiresKeeps, UnwindKeeps, ReturnKeeps,
   GoneKeeps DEF Close, Exit

LEMMA ProcessStep ==
  ASSUME ProcessInv, [Next]_vars
  PROVE  ProcessInv'
<1>1. CASE UNCHANGED vars
  <2>1. UNCHANGED <<cfg, pc, deferred, live, handlers, worker, overdue>>
    BY <1>1 DEF vars, given, process
  <2>2. ProcessTypeOK'
    BY <2>1, SettingsStay DEF ProcessInv, ProcessTypeOK
  <2>3. \A s \in Replica : ProcessOK(s)'
    BY <2>1, ApartKeeps DEF ProcessInv, Apart
  <2> QED
    BY <2>2, <2>3 DEF ProcessInv
<1>2. CASE Next
  <2>1. PICK r \in Replica :
          \/ Open(r) \/ Close(r) \/ Signal(r) \/ ListenerFails(r)
          \/ CallFails(r) \/ Die(r)
          \/ \E h \in Handlers : Serve(r, h) \/ Respond(r, h)
          \/ \E w \in Workers : Claim(r, w) \/ Finish(r, w) \/ Leave(r, w)
    BY <1>2 DEF Next
  <2> QED
    BY <2>1, OpenKeeps, CloseKeeps, SignalKeeps, AbandonKeeps, CallFailsKeeps, GoneKeeps,
       ServeKeeps, RespondKeeps, WorkersKeep DEF Die
<1> QED
  BY <1>1, <1>2

-----------------------------------------------------------------------------
(* What config.Load admits, the constructors accept                        *)

Merging == {"provider", "model", "baseURL", "apiKey", "embeddingProvider",
            "embeddingDimensions", "embeddingURL", "embeddingKey"}

LEMMA MergedKeeps ==
  ASSUME NEW s, IsEnvironment(s)
  PROVE  /\ DOMAIN Merged(s) = Settings
         /\ \A k \in Settings \ Merging : Merged(s)[k] = s[k]
BY DEF Merged, IsEnvironment, Merging

LEMMA LoadedKeeps ==
  ASSUME NEW s, IsEnvironment(s)
  PROVE  /\ \A k \in Settings \ Merging : Loaded(s)[k] = s[k]
         /\ Loaded(s).embeddingDimensions = Merged(s).embeddingDimensions
         /\ Loaded(s).embeddingProvider = Merged(s).embeddingProvider
         /\ Loaded(s).provider = Merged(s).provider
<1>1. /\ DOMAIN Merged(s) = Settings
      /\ \A k \in Settings \ Merging : Merged(s)[k] = s[k]
  BY MergedKeeps
<1>2. Merging \subseteq Settings
  BY DEF Merging, Settings, KnowledgeBounds, Secrets
<1> DEFINE c == Merged(s)
<1> HIDE DEF c
<1>3. /\ \A k \in Settings \ Merging : Embedding(c)[k] = c[k]
      /\ Embedding(c).embeddingDimensions = c.embeddingDimensions
      /\ Embedding(c).embeddingProvider = c.embeddingProvider
      /\ Embedding(c).provider = c.provider
  BY <1>1, <1>2 DEF Embedding, Merging, c
<1> QED
  BY <1>1, <1>3 DEF Loaded, c

\* The settings that a constructor looks at, as the environment gave them.
LEMMA AsGiven ==
  ASSUME NEW s, IsEnvironment(s)
  PROVE  LET c == Loaded(s) IN
         /\ c.otelSampleRatio = s.otelSampleRatio /\ c.otel = s.otel
         /\ c.auth = s.auth /\ c.githubClient = s.githubClient
         /\ c.githubSecret = s.githubSecret /\ c.githubRedirect = s.githubRedirect
         /\ c.requestsPerSecond = s.requestsPerSecond /\ c.burst = s.burst
         /\ c.dailyRequests = s.dailyRequests /\ c.dailyChats = s.dailyChats
         /\ c.dailyUploadBytes = s.dailyUploadBytes
         /\ c.officeExecutor = s.officeExecutor /\ c.officeCommand = s.officeCommand
         /\ c.mcp = s.mcp /\ c.mcpConnectTimeout = s.mcpConnectTimeout
         /\ c.mcpCallTimeout = s.mcpCallTimeout /\ c.mcpMaxOutput = s.mcpMaxOutput
         /\ c.storeProvider = s.storeProvider /\ c.postgresDSN = s.postgresDSN
         /\ c.servers = s.servers
<1> DEFINE c == Loaded(s)
<1>1. \A k \in Settings \ Merging : c[k] = s[k]
  BY LoadedKeeps
<1> HIDE DEF c
<1>2. {"otelSampleRatio", "otel", "auth", "githubClient", "githubSecret", "githubRedirect",
       "requestsPerSecond", "burst", "dailyRequests", "dailyChats", "dailyUploadBytes"}
        \subseteq Settings \ Merging
  BY DEF Settings, Merging, AgentBounds, BoundaryBounds, Flags, Secrets
<1>3. {"officeExecutor", "officeCommand", "mcp", "mcpConnectTimeout", "mcpCallTimeout",
       "mcpMaxOutput", "storeProvider", "postgresDSN", "servers"}
        \subseteq Settings \ Merging
  BY DEF Settings, Merging, ConnectorBounds, Flags, Secrets
<1> QED
  BY <1>1, <1>2, <1>3 DEF c

LEMMA AsGivenToServices ==
  ASSUME NEW s, IsEnvironment(s)
  PROVE  LET c == Loaded(s) IN
         /\ c.chunkSize = s.chunkSize /\ c.chunkOverlap = s.chunkOverlap
         /\ c.messageRecallLimit = s.messageRecallLimit
         /\ c.messageRecallMinScore = s.messageRecallMinScore
         /\ c.memoryMaxCandidates = s.memoryMaxCandidates
         /\ c.memoryRecallLimit = s.memoryRecallLimit
         /\ c.memoryRecallMinScore = s.memoryRecallMinScore
         /\ c.memoryLease = s.memoryLease /\ c.memoryTask = s.memoryTask
         /\ c.topicThreshold = s.topicThreshold
         /\ c.approvalMode = s.approvalMode /\ c.approvalTimeout = s.approvalTimeout
         /\ c.summaryTrigger = s.summaryTrigger /\ c.summaryMaxRunes = s.summaryMaxRunes
         /\ c.summaryKeepRecent = s.summaryKeepRecent
         /\ c.models = s.models /\ c.defaultModel = s.defaultModel
<1> DEFINE c == Loaded(s)
<1>1. \A k \in Settings \ Merging : c[k] = s[k]
  BY LoadedKeeps
<1> HIDE DEF c
<1>2. {"chunkSize", "chunkOverlap", "messageRecallLimit", "messageRecallMinScore",
       "memoryMaxCandidates", "memoryRecallLimit", "memoryRecallMinScore", "memoryLease",
       "memoryTask"} \subseteq Settings \ Merging
  BY DEF Settings, Merging, KnowledgeBounds, MemoryBounds
<1>3. {"topicThreshold", "approvalMode", "approvalTimeout", "summaryTrigger",
       "summaryMaxRunes", "summaryKeepRecent", "models", "defaultModel"}
        \subseteq Settings \ Merging
  BY DEF Settings, Merging, AgentBounds, SummaryBounds
<1> QED
  BY <1>1, <1>2, <1>3 DEF c

\* What the range checks say of the settings that constructors look at.
LEMMA Ranged ==
  ASSUME NEW s, NEW bounds, NEW k \in DOMAIN bounds, NEW least, NEW most,
         bounds[k] = <<least, most>>, Within(s, bounds)
  PROVE  s[k] \in least .. most
BY DEF Within

LEMMA AgentsInBounds ==
  ASSUME NEW s, InRange(s)
  PROVE  /\ s.otelSampleRatio \in 0 .. 100
         /\ s.topicThreshold \in 0 .. 100
         /\ s.approvalTimeout \in Int /\ s.approvalTimeout >= 1
<1>1. Within(s, AgentBounds)
  BY DEF InRange
<1>2. "otelSampleRatio" \in DOMAIN AgentBounds /\ AgentBounds["otelSampleRatio"] = <<0, 100>>
  BY SMT DEF AgentBounds
<1>3. s["otelSampleRatio"] \in 0 .. 100
  BY <1>1, <1>2, Ranged
<1>4. "topicThreshold" \in DOMAIN AgentBounds /\ AgentBounds["topicThreshold"] = <<0, 100>>
  BY SMT DEF AgentBounds
<1>5. s["topicThreshold"] \in 0 .. 100
  BY <1>1, <1>4, Ranged
<1>6. "approvalTimeout" \in DOMAIN AgentBounds /\ AgentBounds["approvalTimeout"] = <<1, Unbounded>>
  BY SMT DEF AgentBounds
<1>7. s["approvalTimeout"] \in 1 .. Unbounded
  BY <1>1, <1>6, Ranged
<1>8. Unbounded \in Nat
  BY SMT DEF Unbounded
<1> QED
  BY <1>3, <1>5, <1>7, <1>8, SMT

LEMMA BoundariesInBounds ==
  ASSUME NEW s, InRange(s)
  PROVE  /\ s.requestsPerSecond > 0 /\ s.burst >= 1
         /\ s.dailyRequests >= 0 /\ s.dailyChats >= 0 /\ s.dailyUploadBytes >= 0
<1>1. Within(s, BoundaryBounds)
  BY DEF InRange
<1> QED
  BY <1>1, SMT DEF Within, BoundaryBounds

LEMMA ConnectorsInBounds ==
  ASSUME NEW s, InRange(s)
  PROVE  s.mcpConnectTimeout > 0 /\ s.mcpCallTimeout > 0 /\ s.mcpMaxOutput > 0
<1>1. Within(s, ConnectorBounds)
  BY DEF InRange
<1> QED
  BY <1>1, SMT DEF Within, ConnectorBounds

LEMMA KnowledgeInBounds ==
  ASSUME NEW s, InRange(s)
  PROVE  /\ s.chunkSize \in Int /\ s.chunkSize >= 100
         /\ s.chunkOverlap \in Int /\ s.chunkOverlap >= 0
         /\ s.embeddingDimensions \in Int /\ s.embeddingDimensions >= 64
         /\ s.messageRecallLimit \in 1 .. 20
         /\ s.messageRecallMinScore \in 0 .. 100
<1>1. Within(s, KnowledgeBounds)
  BY DEF InRange
<1>2. "chunkSize" \in DOMAIN KnowledgeBounds /\ KnowledgeBounds["chunkSize"] = <<100, Unbounded>>
  BY SMT DEF KnowledgeBounds
<1>3. s["chunkSize"] \in 100 .. Unbounded
  BY <1>1, <1>2, Ranged
<1>4. "chunkOverlap" \in DOMAIN KnowledgeBounds /\ KnowledgeBounds["chunkOverlap"] = <<0, Unbounded>>
  BY SMT DEF KnowledgeBounds
<1>5. s["chunkOverlap"] \in 0 .. Unbounded
  BY <1>1, <1>4, Ranged
<1>6. "embeddingDimensions" \in DOMAIN KnowledgeBounds /\ KnowledgeBounds["embeddingDimensions"] = <<64, Unbounded>>
  BY SMT DEF KnowledgeBounds
<1>7. s["embeddingDimensions"] \in 64 .. Unbounded
  BY <1>1, <1>6, Ranged
<1>8. "messageRecallLimit" \in DOMAIN KnowledgeBounds /\ KnowledgeBounds["messageRecallLimit"] = <<1, 20>>
  BY SMT DEF KnowledgeBounds
<1>9. s["messageRecallLimit"] \in 1 .. 20
  BY <1>1, <1>8, Ranged
<1>10. "messageRecallMinScore" \in DOMAIN KnowledgeBounds /\ KnowledgeBounds["messageRecallMinScore"] = <<0, 100>>
  BY SMT DEF KnowledgeBounds
<1>11. s["messageRecallMinScore"] \in 0 .. 100
  BY <1>1, <1>10, Ranged
<1>12. Unbounded \in Nat
  BY SMT DEF Unbounded
<1> QED
  BY <1>3, <1>5, <1>7, <1>9, <1>11, <1>12, SMT

LEMMA MemoryInBounds ==
  ASSUME NEW s, InRange(s)
  PROVE  /\ s.memoryMaxCandidates \in 1 .. 10
         /\ s.memoryRecallLimit \in 1 .. 20
         /\ s.memoryRecallMinScore \in 0 .. 100
         /\ s.memoryTask \in Int /\ s.memoryTask >= 1
         /\ s.memoryLease \in Int /\ s.memoryLease >= 0
<1>1. Within(s, MemoryBounds)
  BY DEF InRange
<1>2. "memoryMaxCandidates" \in DOMAIN MemoryBounds /\ MemoryBounds["memoryMaxCandidates"] = <<1, 10>>
  BY SMT DEF MemoryBounds
<1>3. s["memoryMaxCandidates"] \in 1 .. 10
  BY <1>1, <1>2, Ranged
<1>4. "memoryRecallLimit" \in DOMAIN MemoryBounds /\ MemoryBounds["memoryRecallLimit"] = <<1, 20>>
  BY SMT DEF MemoryBounds
<1>5. s["memoryRecallLimit"] \in 1 .. 20
  BY <1>1, <1>4, Ranged
<1>6. "memoryRecallMinScore" \in DOMAIN MemoryBounds /\ MemoryBounds["memoryRecallMinScore"] = <<0, 100>>
  BY SMT DEF MemoryBounds
<1>7. s["memoryRecallMinScore"] \in 0 .. 100
  BY <1>1, <1>6, Ranged
<1>8. "memoryTask" \in DOMAIN MemoryBounds /\ MemoryBounds["memoryTask"] = <<1, Unbounded>>
  BY SMT DEF MemoryBounds
<1>9. s["memoryTask"] \in 1 .. Unbounded
  BY <1>1, <1>8, Ranged
<1>10. "memoryLease" \in DOMAIN MemoryBounds /\ MemoryBounds["memoryLease"] = <<0, Unbounded>>
  BY SMT DEF MemoryBounds
<1>11. s["memoryLease"] \in 0 .. Unbounded
  BY <1>1, <1>10, Ranged
<1>12. Unbounded \in Nat
  BY SMT DEF Unbounded
<1> QED
  BY <1>3, <1>5, <1>7, <1>9, <1>11, <1>12, SMT

LEMMA SummaryInBounds ==
  ASSUME NEW s, InRange(s)
  PROVE  /\ s.summaryTrigger \in 4 .. 500
         /\ s.summaryMaxRunes \in 500 .. LongestSummary
         /\ s.summaryKeepRecent \in Int /\ s.summaryKeepRecent >= 2
<1>1. Within(s, SummaryBounds)
  BY DEF InRange
<1>2. "summaryTrigger" \in DOMAIN SummaryBounds /\ SummaryBounds["summaryTrigger"] = <<4, 500>>
  BY SMT DEF SummaryBounds
<1>3. s["summaryTrigger"] \in 4 .. 500
  BY <1>1, <1>2, Ranged
<1>4. "summaryMaxRunes" \in DOMAIN SummaryBounds /\ SummaryBounds["summaryMaxRunes"] = <<500, LongestSummary>>
  BY SMT DEF SummaryBounds
<1>5. s["summaryMaxRunes"] \in 500 .. LongestSummary
  BY <1>1, <1>4, Ranged
<1>6. "summaryKeepRecent" \in DOMAIN SummaryBounds /\ SummaryBounds["summaryKeepRecent"] = <<2, Unbounded>>
  BY SMT DEF SummaryBounds
<1>7. s["summaryKeepRecent"] \in 2 .. Unbounded
  BY <1>1, <1>6, Ranged
<1>8. Unbounded \in Nat
  BY SMT DEF Unbounded
<1> QED
  BY <1>3, <1>5, <1>7, <1>8, SMT

LEMMA Admitting ==
  ASSUME NEW s, Admits(s)
  PROVE  /\ InRange(s) /\ Related(s) /\ ConnectorsAllowed(s) /\ StoreAllowed(s)
         /\ SharedStateAllowed(s) /\ ModelsAllowed(s)
         /\ s.approvalMode \in {"off", "risky", "all"}
         /\ EmbeddingAllowed(Loaded(s))
BY DEF Admits

\* The dimensions of the embedding, whether a file gives them or not.
LEMMA DimensionsGiven ==
  ASSUME NEW s, IsEnvironment(s), Admits(s)
  PROVE  Loaded(s).embeddingDimensions \in Int /\ Loaded(s).embeddingDimensions >= 64
<1>1. s.embeddingDimensions \in Int /\ s.embeddingDimensions >= 64
  BY Admitting, KnowledgeInBounds
<1>2. Merged(s).embeddingDimensions =
        IF s.aiFile = "none" THEN s.embeddingDimensions
        ELSE IF s.fileEmbedding.dimensions = 0 THEN 384 ELSE s.fileEmbedding.dimensions
  BY DEF Merged, IsEnvironment, Settings, KnowledgeBounds
<1>3. s.aiFile # "none" => ApplyEmbeddingConfig(s.fileEmbedding)
  BY Admitting DEF ModelsAllowed, ApplyAIConfigFile
<1>4. s.fileEmbedding.dimensions \in Int
  BY DEF IsEnvironment
<1> QED
  BY <1>1, <1>2, <1>3, <1>4, LoadedKeeps, SMT DEF ApplyEmbeddingConfig

LEMMA TelemetryAccepts ==
  ASSUME NEW s, IsEnvironment(s), Admits(s), ~LeftToConstructors(Loaded(s))
  PROVE  NewTelemetry(Loaded(s))
BY AsGiven, Admitting, AgentsInBounds DEF NewTelemetry, LeftToConstructors

LEMMA StoreAccepts ==
  ASSUME NEW s, IsEnvironment(s), Admits(s), Loaded(s).storeProvider = "postgres"
  PROVE  /\ Loaded(s).postgresDSN # "absent" /\ Loaded(s).embeddingDimensions >= 1
         /\ ~LeftToConstructors(Loaded(s)) => ~(Loaded(s).embeddingDimensions > 2000)
<1>1. Loaded(s).postgresDSN # "absent"
  BY AsGiven, Admitting DEF StoreAllowed
<1>2. Loaded(s).embeddingDimensions >= 1
  BY DimensionsGiven
<1> QED
  BY <1>1, <1>2 DEF LeftToConstructors

LEMMA BoundariesAccept ==
  ASSUME NEW s, IsEnvironment(s), Admits(s), ~LeftToConstructors(Loaded(s))
  PROVE  Boundaries(Loaded(s))
<1>1. NewAuth(Loaded(s))
  <2> DEFINE c == Loaded(s)
  <2>1. /\ c.auth = s.auth /\ c.githubClient = s.githubClient
        /\ c.githubSecret = s.githubSecret /\ c.githubRedirect = s.githubRedirect
    BY AsGiven
  <2>2. s.auth = "on" =>
          /\ s.githubClient # "" /\ s.githubSecret # "absent"
          /\ s.githubRedirect \in {"http callback", "https callback"}
    BY Admitting DEF SharedStateAllowed
  <2> HIDE DEF c
  <2>3. NewAuth(c)
    BY <2>1, <2>2 DEF NewAuth
  <2> QED
    BY <2>3 DEF c
<1>2. NewSecurity(Loaded(s))
  <2>1. /\ s.requestsPerSecond > 0 /\ s.burst >= 1 /\ s.dailyRequests >= 0
        /\ s.dailyChats >= 0 /\ s.dailyUploadBytes >= 0
    BY Admitting, BoundariesInBounds
  <2> QED
    BY <2>1, AsGiven DEF NewSecurity, LeftToConstructors
<1> QED
  BY <1>1, <1>2 DEF Boundaries

LEMMA ConnectorsAccept ==
  ASSUME NEW s, IsEnvironment(s), Admits(s)
  PROVE  ConnectOfficeExecutor(Loaded(s)) /\ ConnectMCP(Loaded(s))
<1>1. s.mcpConnectTimeout > 0 /\ s.mcpCallTimeout > 0 /\ s.mcpMaxOutput > 0
  BY Admitting, ConnectorsInBounds
<1>2. s.officeExecutor = "microsoft_graph" => s.officeCommand # ""
  BY Admitting DEF ConnectorsAllowed
<1> QED
  BY <1>1, <1>2, AsGiven DEF ConnectOfficeExecutor, ConnectMCP

\* The profile that is the default keeps its identity and its provider.
LEMMA RuntimesAccept ==
  ASSUME NEW s, IsEnvironment(s), Admits(s)
  PROVE  NewRuntimes(Loaded(s))
<1> DEFINE c == Loaded(s)
<1>1. /\ c.models = s.models /\ c.defaultModel = s.defaultModel
      /\ c.topicThreshold = s.topicThreshold /\ c.provider = Merged(s).provider
  BY AsGivenToServices, LoadedKeeps
<1>2. s.topicThreshold \in 0 .. 100
  BY Admitting, AgentsInBounds
<1>3. ConfigureModels(s)
  BY Admitting DEF ModelsAllowed, ApplyAIConfigFile
<1>4. /\ \A i \in DOMAIN Profiles(s) : Profiles(s)[i].provider \in {"mock", "openai"}
      /\ \E i \in DOMAIN Profiles(s) : Profiles(s)[i].id = DefaultModelID(s)
  BY <1>3 DEF ConfigureModels, BuildModelProfile
<1> HIDE DEF c
<1>5. CASE s.models # <<>>
  <2>1. Profiles(c) = Profiles(s) /\ DefaultModelID(c) = DefaultModelID(s)
    BY <1>1, <1>5 DEF Profiles, DefaultModelID
  <2> QED
    BY <1>1, <1>2, <1>4, <2>1 DEF NewRuntimes, c
<1>6. CASE s.models = <<>>
  <2>1. /\ DOMAIN Profiles(s) = {1} /\ Profiles(s)[1].id = "default"
        /\ DefaultModelID(s) = "default"
    BY <1>6 DEF Profiles, DefaultModelID
  <2>2. DefaultProfile(s) = Profiles(s)[1]
    BY <2>1 DEF DefaultProfile
  <2>3. Merged(s).provider = Profiles(s)[1].provider
    BY <2>2 DEF Merged, IsEnvironment, Settings
  <2>4. /\ DOMAIN Profiles(c) = {1} /\ Profiles(c)[1].id = "default"
        /\ DefaultModelID(c) = "default" /\ Profiles(c)[1].provider = c.provider
    BY <1>1, <1>6 DEF Profiles, DefaultModelID
  <2>5. c.provider \in {"mock", "openai"}
    BY <1>1, <1>4, <2>1, <2>3
  <2> QED
    BY <1>1, <1>2, <2>4, <2>5 DEF NewRuntimes, c
<1> QED
  BY <1>5, <1>6

LEMMA KnowledgeAccepts ==
  ASSUME NEW s, IsEnvironment(s), Admits(s), ~LeftToConstructors(Loaded(s))
  PROVE  NewKnowledge(Loaded(s))
<1> DEFINE size == s.chunkSize
           overlap == s.chunkOverlap
<1>1. size \in Nat /\ overlap \in Nat /\ size >= 100 /\ 2 * overlap < size
  BY Admitting, KnowledgeInBounds DEF Related
<1>2. Loaded(s).chunkSize = size /\ Loaded(s).chunkOverlap = overlap
  BY AsGivenToServices
<1>3. ~(size % 2 = 1 /\ 2 * overlap = size - 1)
  BY <1>2 DEF LeftToConstructors
<1> HIDE DEF size, overlap
<1>4. overlap <= (size \div 2) - 1
  <2>1. size = (2 * (size \div 2)) + (size % 2) /\ size % 2 \in 0 .. 1
    BY <1>1
  <2>2. size \div 2 \in Int
    BY <1>1
  <2> QED
    BY <1>1, <1>3, <2>1, <2>2
<1>5. (size \div 2) - 1 \in Int
  BY <1>1
<1> QED
  BY <1>1, <1>2, <1>4, <1>5 DEF NewKnowledge

LEMMA ServicesAccept ==
  ASSUME NEW s, IsEnvironment(s), Admits(s), ~LeftToConstructors(Loaded(s))
  PROVE  Services(Loaded(s)) /\ NewCaptureWorker(Loaded(s))
<1> DEFINE c == Loaded(s)
<1>1. NewEmbedder(c)
  <2>1. EmbeddingAllowed(c)
    BY Admitting
  <2>2. c.embeddingDimensions >= 64 /\ c.embeddingDimensions >= 1
    BY DimensionsGiven
  <2> HIDE DEF c
  <2> QED
    BY <2>1, <2>2, Zenon DEF EmbeddingAllowed, NewEmbedder
<1>2. NewSemantic(c) /\ NewMemory(c)
  BY AsGivenToServices, Admitting, KnowledgeInBounds, MemoryInBounds DEF NewSemantic, NewMemory
<1>3. NewApproval(c)
  <2>1. s.approvalTimeout > 0 /\ s.approvalMode \in {"off", "risky", "all"}
    BY Admitting, AgentsInBounds
  <2> QED
    BY <2>1, AsGivenToServices DEF NewApproval
<1>4. NewSummary(c) /\ NewCaptureWorker(c)
  <2>1. /\ s.summaryTrigger \in 4 .. 500 /\ s.summaryKeepRecent >= 2
        /\ s.summaryMaxRunes \in 500 .. LongestSummary
    BY Admitting, SummaryInBounds
  <2>2. s.summaryKeepRecent < s.summaryTrigger /\ s.memoryTask < s.memoryLease
    BY Admitting DEF Related
  <2>3. s.memoryTask \in Int /\ s.memoryLease \in Int
    BY Admitting, MemoryInBounds
  <2>4. /\ c.summaryTrigger = s.summaryTrigger /\ c.summaryMaxRunes = s.summaryMaxRunes
        /\ c.summaryKeepRecent = s.summaryKeepRecent
        /\ c.memoryLease = s.memoryLease /\ c.memoryTask = s.memoryTask
    BY AsGivenToServices
  <2> HIDE DEF c
  <2>5. NewSummary(c)
    BY <2>1, <2>2, <2>4 DEF NewSummary
  <2>6. NewCaptureWorker(c)
    BY <2>2, <2>3, <2>4 DEF NewCaptureWorker
  <2> QED
    BY <2>5, <2>6
<1> QED
  BY <1>1, <1>2, <1>3, <1>4, RuntimesAccept, KnowledgeAccepts DEF Services

-----------------------------------------------------------------------------
(* Results                                                                 *)

LEMMA SettingsAreGiven ==
  ASSUME Init
  PROVE  /\ IsEnvironment(environment) /\ IsDatabase(legacy)
         /\ cfg = IF Admits(environment) THEN Loaded(environment) ELSE environment
<1>1. PICK d \in Deployments :
        /\ environment = d.environment /\ legacy = d.database
        /\ cfg = IF Admits(environment) THEN Loaded(environment) ELSE environment
  BY DEF Init
<1> QED
  BY <1>1, DeploymentsAssumption

LEMMA ProcessInitially ==
  ASSUME Init
  PROVE  ProcessInv
<1>1. DOMAIN cfg.servers \subseteq Nat
  <2>1. cfg.servers = environment.servers
    BY SettingsAreGiven, AsGiven
  <2> QED
    BY <2>1, SettingsAreGiven DEF IsEnvironment
<1>2. Off \in [Workers -> {"off", "idle", "busy"}]
  BY DEF Off
<1>3. ProcessTypeOK
  BY <1>1, <1>2, ServingStages, NothingDeferred DEF Init, ProcessTypeOK
<1>4. ASSUME NEW r \in Replica PROVE ProcessOK(r)
  <2>1. /\ pc[r] = "down" /\ deferred[r] = <<>> /\ live[r] = {} /\ handlers[r] = {}
        /\ worker[r] = Off /\ overdue[r] = {}
    BY <1>4 DEF Init
  <2>2. OpenedBy("down", {}) /\ Covered("down", <<>>, {}) /\ "down" \notin Opens
    BY ServingStages DEF Covered
  <2>3. Ordered("down", <<>>)
    BY <2>2, NothingDeferred DEF Ordered
  <2>4. Watched(<<>>, Off, {}) /\ Answering("down", {}, {})
    BY DEF Watched, Answering, Off
  <2> QED
    BY <2>1, <2>2, <2>3, <2>4, NothingDeferred DEF ProcessOK
<1> QED
  BY <1>3, <1>4 DEF ProcessInv

\* Whatever fails, whoever dies: what a process has open, a deferred call or
\* its constructor will close, the workers before what they use.
THEOREM ProcessesInOrder == Spec => []ProcessInv
<1> QED
  BY ProcessInitially, ProcessStep, PTL DEF Spec

LEMMA ReturnedIsClosed ==
  ASSUME ProcessInv
  PROVE  NothingLeaks
<1> SUFFICES ASSUME NEW r \in Replica, pc[r] = "returned"
             PROVE  /\ live[r] = {}
                    /\ \A w \in Workers : worker[r][w] = "off" \/ w \in overdue[r]
                    /\ handlers[r] \subseteq overdue[r]
  BY DEF NothingLeaks
<1>1. ProcessOK(r) /\ deferred[r] = <<>>
  BY DEF ProcessInv, ProcessOK, Ordered
<1>2. live[r] = {}
  BY <1>1, ServingStages, NothingDeferred DEF ProcessOK, Covered
<1>3. \A w \in Workers : worker[r][w] = "off" \/ w \in overdue[r]
  BY <1>1, NothingDeferred DEF ProcessOK, Watched
<1>4. handlers[r] \subseteq overdue[r]
  BY <1>1 DEF ProcessOK, Answering
<1> QED
  BY <1>2, <1>3, <1>4

\* Every path out of run() closes what was opened on it, and no worker or
\* handler runs on but those whose time was up (main.go:74-575).
THEOREM ReturnLeavesNothing == Spec => []NothingLeaks
<1> QED
  BY ProcessesInOrder, ReturnedIsClosed, PTL

LEMMA UsersKeepTheirs ==
  ASSUME ProcessInv
  PROVE  NothingClosedUnderUse
<1> SUFFICES ASSUME NEW r \in Replica, pc[r] # "down",
                    NEW u \in handlers[r] \cup {w \in Workers : worker[r][w] # "off"},
                    u \notin overdue[r]
             PROVE  AllOpen(live[r])
  BY DEF NothingClosedUnderUse, AllOpen
<1>1. ProcessOK(r) /\ pc[r] \in Stage
  BY DEF ProcessInv, ProcessTypeOK
<1>2. CASE u \in handlers[r]
  <2>1. pc[r] \in {"serving", "draining"}
    BY <1>1, <1>2 DEF ProcessOK, Answering
  <2> QED
    BY <1>1, <2>1 DEF ProcessOK, Ordered, Joint
<1>3. CASE u \in Workers /\ worker[r][u] # "off"
  <2>1. PICK c \in ToSet(deferred[r]) : u \in ToSet(Stopped(c))
    BY <1>1, <1>3 DEF ProcessOK, Watched
  <2>2. c \in Closings
    BY DEF ProcessInv, ProcessTypeOK, ToSet
  <2>3. c \in Joint
    BY <2>1, <2>2, WhoStops
  <2> QED
    BY <1>1, <2>3 DEF ProcessOK
<1> QED
  BY <1>2, <1>3

\* The store, Redis, the connectors and the MCP sessions stay open as long as
\* a worker or a handler may use them, unless its time was up.
THEOREM UsersKeepWhatTheyUse == Spec => []NothingClosedUnderUse
<1> QED
  BY ProcessesInOrder, UsersKeepTheirs, PTL

-----------------------------------------------------------------------------
(* What the statements of a schema do to the rows of an older database l   *)

Fields == {"extension", "tables", "columns", "indexes", "dimensions", "memories", "documents"}
Slot == STRING \cup {""}
MemoryRow == [slot : Slot, manual : BOOLEAN, edited : BOOLEAN, updated : Int]
DocumentRow == [group : Nat, version : Nat]

\* The memories that their user wrote or changed.
Users(l) == {m \in DOMAIN l.memories : l.memories[m].edited \/ l.memories[m].manual}

Ungrouped(d) == \A k \in DOMAIN d.documents : d.documents[k].group = 0
Grouped(d) == VersionsDistinct(d) /\ \A k \in DOMAIN d.documents : d.documents[k].group # 0

RowsOK(l, d) ==
  /\ DOMAIN d = Fields /\ d.tables \in {"missing", "present"}
  /\ d.memories \in [DOMAIN l.memories -> MemoryRow]
  /\ d.documents \in [DOMAIN l.documents -> DocumentRow]

\* What became of the memories: whose they are is not lost, and a slot that
\* a memory of the user had is with such a memory.
MemoriesOK(l, d) ==
  /\ \A m \in DOMAIN l.memories :
       /\ d.memories[m].manual = l.memories[m].manual
       /\ d.memories[m].edited => m \in Users(l)
       /\ l.memories[m].edited => d.memories[m].edited
  /\ \A m \in Users(l) : l.memories[m].slot # "" =>
       \E n \in Users(l) : d.memories[n].slot = l.memories[m].slot

Kin(l, d) == RowsOK(l, d) /\ MemoriesOK(l, d) /\ (Ungrouped(d) \/ Grouped(d))

Protected(l, d) == \A m \in Users(l) : d.memories[m].edited

\* What a statement must not undo.
Lasts(l, d, e) ==
  /\ Kin(l, e)
  /\ Protected(l, d) => Protected(l, e)
  /\ SlotsDistinct(d) => SlotsDistinct(e)
  /\ Grouped(d) => Grouped(e)

LEMMA OlderIsKin ==
  ASSUME NEW l, IsDatabase(l)
  PROVE  /\ Kin(l, l) /\ DOMAIN l.memories \subseteq Nat \ {0}
         /\ DOMAIN l.documents \subseteq Nat \ {0} /\ IsFiniteSet(DOMAIN l.memories)
<1>1. /\ DOMAIN l = Fields /\ l.tables \in {"missing", "present"}
      /\ l.memories \in Seq(MemoryRow) /\ l.documents \in Seq(DocumentRow)
  <2>1. /\ DOMAIN l = Fields /\ l.tables \in {"missing", "present"}
        /\ l.memories \in Seq([slot : STRING, manual : BOOLEAN, edited : BOOLEAN, updated : Int])
        /\ l.documents \in Seq(DocumentRow)
    BY DEF IsDatabase, Fields, DocumentRow
  <2>2. [slot : STRING, manual : BOOLEAN, edited : BOOLEAN, updated : Int] \subseteq MemoryRow
    <3>1. STRING \subseteq Slot
      BY DEF Slot
    <3> QED
      BY <3>1 DEF MemoryRow
  <2>3. \A S, T : S \subseteq T => Seq(S) \subseteq Seq(T)
    OBVIOUS
  <2> QED
    BY <2>1, <2>2, <2>3, Zenon
<1>2. DOMAIN l.memories = 1 .. Len(l.memories) /\ DOMAIN l.documents = 1 .. Len(l.documents)
  BY <1>1
<1>3. Len(l.memories) \in Nat /\ Len(l.documents) \in Nat
  BY <1>1
<1>4. RowsOK(l, l)
  BY <1>1, <1>2 DEF RowsOK
<1>5. MemoriesOK(l, l)
  BY DEF MemoriesOK, Users
<1>6. Ungrouped(l) \/ Grouped(l)
  BY DEF IsDatabase, Ungrouped, Grouped
<1>7. IsFiniteSet(1 .. Len(l.memories))
  BY <1>3, FS_Interval
<1> QED
  BY <1>2, <1>3, <1>4, <1>5, <1>6, <1>7 DEF Kin

\* A statement that touches no row.
LEMMA RowsUntouched ==
  ASSUME NEW l, NEW d, Kin(l, d), NEW e, DOMAIN e = Fields, e.tables \in {"missing", "present"},
         e.memories = d.memories, e.documents = d.documents
  PROVE  Lasts(l, d, e)
<1>1. RowsOK(l, e) /\ MemoriesOK(l, e)
  BY DEF Kin, RowsOK, MemoriesOK
<1>2. /\ Ungrouped(d) => Ungrouped(e)
      /\ Grouped(d) => Grouped(e)
  BY DEF Ungrouped, Grouped, VersionsDistinct
<1>3. /\ Protected(l, d) => Protected(l, e)
      /\ SlotsDistinct(d) => SlotsDistinct(e)
  BY DEF Protected, SlotsDistinct
<1> QED
  BY <1>1, <1>2, <1>3 DEF Lasts, Kin

LEMMA NotRefused ==
  ASSUME NEW d, d.tables \in {"missing", "present"}
  PROVE  d # Refused
BY DEF Refused

LEMMA TablesLast ==
  ASSUME NEW l, NEW d, Kin(l, d), NEW n
  PROVE  CreateTables(d, n) # Refused /\ Lasts(l, d, CreateTables(d, n))
<1> DEFINE e == CreateTables(d, n)
<1>1. /\ DOMAIN e = Fields /\ e.tables \in {"missing", "present"}
      /\ e.memories = d.memories /\ e.documents = d.documents
  BY DEF CreateTables, Kin, RowsOK, Fields
<1> HIDE DEF e
<1> QED
  BY <1>1, RowsUntouched, NotRefused DEF e

LEMMA ColumnsLast ==
  ASSUME NEW l, NEW d, Kin(l, d), NEW column
  PROVE  AddColumn(d, column) # Refused /\ Lasts(l, d, AddColumn(d, column))
<1> DEFINE e == AddColumn(d, column)
<1>1. /\ DOMAIN e = Fields /\ e.tables \in {"missing", "present"}
      /\ e.memories = d.memories /\ e.documents = d.documents
  BY DEF AddColumn, Kin, RowsOK, Fields
<1> HIDE DEF e
<1> QED
  BY <1>1, RowsUntouched, NotRefused DEF e

LEMMA ExtensionLasts ==
  ASSUME NEW l, NEW d, Kin(l, d)
  PROVE  Lasts(l, d, [d EXCEPT !.extension = TRUE])
<1> DEFINE e == [d EXCEPT !.extension = TRUE]
<1>1. /\ DOMAIN e = Fields /\ e.tables \in {"missing", "present"}
      /\ e.memories = d.memories /\ e.documents = d.documents
  BY DEF Kin, RowsOK, Fields
<1> HIDE DEF e
<1> QED
  BY <1>1, RowsUntouched DEF e

\* A unique index is refused only by rows that are not unique.
LEMMA IndexesLast ==
  ASSUME NEW l, NEW d, Kin(l, d)
  PROVE  /\ SlotsDistinct(d) => IndexSlots(d) # Refused
         /\ IndexSlots(d) # Refused => Lasts(l, d, IndexSlots(d))
         /\ VersionsDistinct(d) => IndexVersions(d) # Refused
         /\ IndexVersions(d) # Refused => Lasts(l, d, IndexVersions(d))
<1>1. ASSUME NEW index, NEW e, e = [d EXCEPT !.indexes = @ \cup {index}]
      PROVE  e # Refused /\ Lasts(l, d, e)
  <2>1. /\ DOMAIN e = Fields /\ e.tables \in {"missing", "present"}
        /\ e.memories = d.memories /\ e.documents = d.documents
    BY <1>1 DEF Kin, RowsOK, Fields
  <2> QED
    BY <2>1, RowsUntouched, NotRefused
<1>2. SlotsDistinct(d) => IndexSlots(d) # Refused /\ Lasts(l, d, IndexSlots(d))
  BY <1>1 DEF IndexSlots
<1>3. VersionsDistinct(d) => IndexVersions(d) # Refused /\ Lasts(l, d, IndexVersions(d))
  BY <1>1 DEF IndexVersions
<1>4. /\ IndexSlots(d) # Refused => SlotsDistinct(d)
      /\ IndexVersions(d) # Refused => VersionsDistinct(d)
  BY DEF IndexSlots, IndexVersions
<1> QED
  BY <1>2, <1>3, <1>4

\* UPDATE: the memories of the user are marked as such.
LEMMA ProtectLasts ==
  ASSUME NEW l, NEW d, Kin(l, d)
  PROVE  /\ ProtectManual(d) # Refused /\ Lasts(l, d, ProtectManual(d))
         /\ Protected(l, ProtectManual(d))
<1> DEFINE e == ProtectManual(d)
           D == DOMAIN l.memories
<1>1. /\ d.memories \in [D -> MemoryRow] /\ d.documents \in [DOMAIN l.documents -> DocumentRow]
      /\ DOMAIN d = Fields /\ d.tables \in {"missing", "present"}
  BY DEF Kin, RowsOK
<1>2. /\ DOMAIN e = Fields /\ e.tables \in {"missing", "present"} /\ e.documents = d.documents
      /\ e.memories = [m \in D |->
           [d.memories[m] EXCEPT !.edited = @ \/ d.memories[m].manual]]
  <2> DEFINE rows == [m \in DOMAIN d.memories |->
                       [d.memories[m] EXCEPT !.edited = @ \/ d.memories[m].manual]]
  <2>1. e = [d EXCEPT !.memories = rows]
    BY DEF ProtectManual
  <2> HIDE DEF rows, e
  <2>2. /\ DOMAIN e = Fields /\ e.tables = d.tables /\ e.documents = d.documents
        /\ e.memories = rows
    BY <1>1, <2>1 DEF Fields
  <2>3. DOMAIN d.memories = D
    BY <1>1
  <2> QED
    BY <1>1, <2>2, <2>3 DEF rows
<1>3. ASSUME NEW m \in D
      PROVE  /\ e.memories[m] \in MemoryRow
             /\ e.memories[m].slot = d.memories[m].slot
             /\ e.memories[m].manual = d.memories[m].manual
             /\ e.memories[m].edited = (d.memories[m].edited \/ d.memories[m].manual)
  <2> DEFINE row == d.memories[m]
  <2>1. row \in MemoryRow
    BY <1>1
  <2>2. e.memories[m] = [row EXCEPT !.edited = @ \/ row.manual]
    BY <1>2
  <2> HIDE DEF row, e
  <2>3. [row EXCEPT !.edited = @ \/ row.manual] =
          [slot |-> row.slot, manual |-> row.manual, edited |-> row.edited \/ row.manual,
           updated |-> row.updated]
    BY <2>1 DEF MemoryRow
  <2> QED
    BY <2>1, <2>2, <2>3 DEF row, MemoryRow
<1> HIDE DEF e, D
<1>4. RowsOK(l, e)
  <2>1. e.memories \in [D -> MemoryRow]
    BY <1>2, <1>3
  <2> QED
    BY <1>1, <1>2, <2>1 DEF RowsOK, D
<1>5. MemoriesOK(l, e)
  <2>1. MemoriesOK(l, d)
    BY DEF Kin
  <2>2. \A m \in D : /\ e.memories[m].manual = l.memories[m].manual
                     /\ e.memories[m].edited => m \in Users(l)
                     /\ l.memories[m].edited => e.memories[m].edited
    BY <1>3, <2>1 DEF MemoriesOK, Users, D
  <2>3. Users(l) \subseteq D
    BY DEF Users, D
  <2>4. ASSUME NEW m \in Users(l), l.memories[m].slot # ""
        PROVE  \E n \in Users(l) : e.memories[n].slot = l.memories[m].slot
    <3>1. PICK n \in Users(l) : d.memories[n].slot = l.memories[m].slot
      BY <2>1, <2>4 DEF MemoriesOK
    <3> QED
      BY <1>3, <2>3, <3>1
  <2> QED
    BY <2>2, <2>4 DEF MemoriesOK, D
<1>6. SlotsDistinct(d) => SlotsDistinct(e)
  <2>1. DOMAIN d.memories = D /\ DOMAIN e.memories = D
    BY <1>1, <1>2
  <2> QED
    BY <1>3, <2>1 DEF SlotsDistinct
<1>7. (Ungrouped(d) => Ungrouped(e)) /\ (Grouped(d) => Grouped(e))
  BY <1>2 DEF Ungrouped, Grouped, VersionsDistinct
<1>8. Protected(l, d) => Protected(l, e)
  BY <1>3 DEF Protected, Users, D
<1>9. Protected(l, e)
  BY <1>3 DEF Protected, Users, D, Kin, MemoriesOK
<1>10. e # Refused
  BY <1>2, NotRefused
<1>11. Lasts(l, d, e)
  BY <1>4, <1>5, <1>6, <1>7, <1>8 DEF Lasts, Kin
<1> QED
  BY <1>9, <1>10, <1>11 DEF e, D

\* UPDATE: a document that is in no group founds one.
LEMMA GroupLasts ==
  ASSUME NEW l, NEW d, Kin(l, d), DOMAIN l.documents \subseteq Nat \ {0}
  PROVE  /\ GroupDocuments(d) # Refused /\ Lasts(l, d, GroupDocuments(d))
         /\ Grouped(GroupDocuments(d))
<1> DEFINE e == GroupDocuments(d)
           D == DOMAIN l.documents
<1>1. /\ d.memories \in [DOMAIN l.memories -> MemoryRow] /\ d.documents \in [D -> DocumentRow]
      /\ DOMAIN d = Fields /\ d.tables \in {"missing", "present"}
  BY DEF Kin, RowsOK
<1>2. /\ DOMAIN e = Fields /\ e.tables \in {"missing", "present"} /\ e.memories = d.memories
      /\ e.documents = [k \in D |->
           [d.documents[k] EXCEPT !.group = IF @ = 0 THEN k ELSE @]]
  <2> DEFINE rows == [k \in DOMAIN d.documents |->
                       [d.documents[k] EXCEPT !.group = IF @ = 0 THEN k ELSE @]]
  <2>1. e = [d EXCEPT !.documents = rows]
    BY DEF GroupDocuments
  <2> HIDE DEF rows, e
  <2>2. /\ DOMAIN e = Fields /\ e.tables = d.tables /\ e.memories = d.memories
        /\ e.documents = rows
    BY <1>1, <2>1 DEF Fields
  <2>3. DOMAIN d.documents = D
    BY <1>1
  <2> QED
    BY <1>1, <2>2, <2>3 DEF rows
<1>3. ASSUME NEW k \in D
      PROVE  /\ e.documents[k] \in DocumentRow
             /\ e.documents[k].group = IF d.documents[k].group = 0 THEN k
                                       ELSE d.documents[k].group
             /\ d.documents[k].group # 0 => e.documents[k] = d.documents[k]
  <2> DEFINE row == d.documents[k]
             group == IF row.group = 0 THEN k ELSE row.group
  <2>1. row \in DocumentRow /\ k \in Nat
    BY <1>1
  <2>2. e.documents[k] = [row EXCEPT !.group = group]
    BY <1>2
  <2>3. group \in Nat
    BY <2>1 DEF DocumentRow
  <2> HIDE DEF row, e, group
  <2>4. [row EXCEPT !.group = group] = [group |-> group, version |-> row.version]
    BY <2>1 DEF DocumentRow
  <2>5. e.documents[k] \in DocumentRow /\ e.documents[k].group = group
    BY <2>1, <2>2, <2>3, <2>4 DEF DocumentRow
  <2>6. row.group # 0 => e.documents[k] = row
    BY <2>1, <2>2, <2>4 DEF group, DocumentRow
  <2> QED
    BY <2>5, <2>6 DEF row, group
<1> HIDE DEF e, D
<1>4. RowsOK(l, e)
  <2>1. e.documents \in [D -> DocumentRow]
    BY <1>2, <1>3
  <2> QED
    BY <1>1, <1>2, <2>1 DEF RowsOK, D
<1>5. DOMAIN d.documents = D /\ DOMAIN e.documents = D /\ D \subseteq Nat \ {0}
  BY <1>1, <1>2 DEF D
<1>6. Grouped(e)
  <2>1. CASE Ungrouped(d)
    <3>1. \A k \in D : e.documents[k].group = k
      BY <1>3, <1>5, <2>1 DEF Ungrouped
    <3>2. VersionsDistinct(e)
      BY <1>5, <3>1 DEF VersionsDistinct
    <3> QED
      BY <1>5, <3>1, <3>2 DEF Grouped
  <2>2. CASE Grouped(d)
    <3>1. \A k \in D : e.documents[k] = d.documents[k]
      BY <1>3, <1>5, <2>2 DEF Grouped
    <3> QED
      BY <1>5, <2>2, <3>1 DEF Grouped, VersionsDistinct
  <2> QED
    BY <2>1, <2>2 DEF Kin
<1>7. MemoriesOK(l, e)
  <2>1. MemoriesOK(l, d) /\ e.memories = d.memories
    BY <1>2 DEF Kin
  <2> QED
    BY <2>1, Zenon DEF MemoriesOK
<1>8. /\ SlotsDistinct(d) => SlotsDistinct(e)
      /\ Protected(l, d) => Protected(l, e)
  BY <1>2 DEF SlotsDistinct, Protected
<1>9. e # Refused
  BY <1>2, NotRefused
<1>10. Lasts(l, d, e)
  BY <1>4, <1>6, <1>7, <1>8 DEF Lasts, Kin
<1> QED
  BY <1>6, <1>9, <1>10 DEF e

\* Of the memories of a slot one comes first, and keeps it.
LEMMA OneComesFirst ==
  ASSUME NEW d, NEW D, IsFiniteSet(D), D \subseteq Nat, d.memories \in [D -> MemoryRow],
         NEW T \in SUBSET D, T # {}
  PROVE  \E n \in T : \A k \in T : ~Precedes(d, k, n)
<1> DEFINE Above(n) == {k \in D : Precedes(d, k, n)}
           R == StrictSubsetOrdering(D)
           W == {Above(n) : n \in T}
<1>1. IsWellFoundedOn(R, FiniteSubsetsOf(D))
  BY FS_StrictSubsetOrderingWellFounded, Zenon
<1>2. \A n : Above(n) \in SUBSET D /\ IsFiniteSet(Above(n))
  BY FS_Subset
<1> HIDE DEF Above
<1>3. W \subseteq FiniteSubsetsOf(D) /\ W # {}
  BY <1>2 DEF FiniteSubsetsOf
<1>4. ASSUME NEW k \in D, NEW n \in D, Precedes(d, k, n)
      PROVE  <<Above(k), Above(n)>> \in R
  <2>1. k \in Above(n)
    BY <1>4 DEF Above
  <2>2. k \notin Above(k)
    <3>1. d.memories[k].updated \in Int /\ k \in Nat
      BY DEF MemoryRow
    <3>2. ~(d.memories[k].updated > d.memories[k].updated) /\ ~(k > k)
      BY <3>1
    <3>3. ~Precedes(d, k, k)
      BY <3>2 DEF Precedes
    <3> QED
      BY <3>3 DEF Above
  <2>3. Above(k) \subseteq Above(n)
    <3> SUFFICES ASSUME NEW j \in D, Precedes(d, j, k) PROVE Precedes(d, j, n)
      BY DEF Above
    <3>1. /\ d.memories[j].edited \in BOOLEAN /\ d.memories[j].updated \in Int
          /\ d.memories[k].edited \in BOOLEAN /\ d.memories[k].updated \in Int
          /\ d.memories[n].edited \in BOOLEAN /\ d.memories[n].updated \in Int
          /\ j \in Nat /\ k \in Nat /\ n \in Nat
      BY DEF MemoryRow
    <3> QED
      BY <1>4, <3>1 DEF Precedes
  <2> QED
    BY <1>2, <2>1, <2>2, <2>3 DEF StrictSubsetOrdering
<1> HIDE DEF R, W
<1>5. PICK b \in W : \A c \in W : ~ (<<c, b>> \in R)
  BY <1>1, <1>3, WFMin, Zenon
<1>6. PICK n \in T : b = Above(n)
  BY <1>5 DEF W
<1>7. \A k \in T : ~ (<<Above(k), Above(n)>> \in R)
  BY <1>5, <1>6 DEF W
<1> QED
  BY <1>4, <1>7

\* UPDATE: every slot stays with the memory of it that comes first, and one
\* of the user's comes before the others.
LEMMA DemoteLasts ==
  ASSUME NEW l, NEW d, Kin(l, d), Protected(l, d), DOMAIN l.memories \subseteq Nat \ {0},
         IsFiniteSet(DOMAIN l.memories)
  PROVE  /\ DemoteDuplicates(d) # Refused /\ Lasts(l, d, DemoteDuplicates(d))
         /\ SlotsDistinct(DemoteDuplicates(d))
<1> DEFINE e == DemoteDuplicates(d)
           D == DOMAIN l.memories
           taken(m) == \E n \in DOMAIN d.memories :
                         /\ d.memories[n].slot = d.memories[m].slot
                         /\ d.memories[m].slot # "" /\ Precedes(d, n, m)
<1>1. /\ d.memories \in [D -> MemoryRow] /\ d.documents \in [DOMAIN l.documents -> DocumentRow]
      /\ DOMAIN d = Fields /\ d.tables \in {"missing", "present"}
  BY DEF Kin, RowsOK
<1>2. DOMAIN d.memories = D
  BY <1>1
<1>3. /\ DOMAIN e = Fields /\ e.tables \in {"missing", "present"} /\ e.documents = d.documents
      /\ e.memories = [m \in D |->
           [d.memories[m] EXCEPT !.slot = IF taken(m) THEN "" ELSE @]]
  <2> DEFINE rows == [m \in DOMAIN d.memories |->
                       [d.memories[m] EXCEPT !.slot = IF taken(m) THEN "" ELSE @]]
  <2>1. e = [d EXCEPT !.memories = rows]
    BY DEF DemoteDuplicates
  <2> HIDE DEF rows, e, taken
  <2>2. /\ DOMAIN e = Fields /\ e.tables = d.tables /\ e.documents = d.documents
        /\ e.memories = rows
    BY <1>1, <2>1 DEF Fields
  <2> QED
    BY <1>1, <1>2, <2>2 DEF rows
<1> HIDE DEF taken
<1>4. ASSUME NEW m \in D
      PROVE  /\ e.memories[m] \in MemoryRow
             /\ e.memories[m].slot = IF taken(m) THEN "" ELSE d.memories[m].slot
             /\ e.memories[m].manual = d.memories[m].manual
             /\ e.memories[m].edited = d.memories[m].edited
  <2> DEFINE row == d.memories[m]
             slot == IF taken(m) THEN "" ELSE row.slot
  <2>1. row \in MemoryRow
    BY <1>1
  <2>2. e.memories[m] = [row EXCEPT !.slot = slot]
    BY <1>3
  <2>3. slot \in Slot
    <3>1. row.slot \in Slot /\ "" \in Slot
      <4> HIDE DEF row
      <4>1. "" \in Slot
        BY DEF Slot
      <4> QED
        BY <2>1, <4>1 DEF MemoryRow
    <3> HIDE DEF row
    <3> QED
      BY <3>1
  <2> HIDE DEF row, e, slot
  <2>4. [row EXCEPT !.slot = slot] =
          [slot |-> slot, manual |-> row.manual, edited |-> row.edited, updated |-> row.updated]
    BY <2>1 DEF MemoryRow
  <2>5. /\ e.memories[m] \in MemoryRow /\ e.memories[m].slot = slot
        /\ e.memories[m].manual = row.manual /\ e.memories[m].edited = row.edited
    BY <2>1, <2>2, <2>3, <2>4 DEF MemoryRow
  <2> QED
    BY <2>5 DEF row, slot
<1> HIDE DEF e, D
<1>5. DOMAIN e.memories = D /\ D \subseteq Nat /\ IsFiniteSet(D)
  BY <1>3 DEF D
<1>6. RowsOK(l, e)
  <2>1. e.memories \in [D -> MemoryRow]
    BY <1>3, <1>4
  <2> QED
    BY <1>1, <1>3, <2>1 DEF RowsOK, D
<1>7. ASSUME NEW m \in D, NEW n \in D, m # n
      PROVE  Precedes(d, m, n) \/ Precedes(d, n, m)
  <2>1. /\ d.memories[m].edited \in BOOLEAN /\ d.memories[m].updated \in Int
        /\ d.memories[n].edited \in BOOLEAN /\ d.memories[n].updated \in Int
        /\ m \in Nat /\ n \in Nat
    BY <1>1, <1>5 DEF MemoryRow
  <2> QED
    BY <1>7, <2>1 DEF Precedes
<1>8. SlotsDistinct(e)
  <2> SUFFICES ASSUME NEW m \in D, NEW n \in D, m # n, e.memories[m].slot # "",
                      e.memories[m].slot = e.memories[n].slot
               PROVE  FALSE
    BY <1>5 DEF SlotsDistinct
  <2>1. /\ ~taken(m) /\ ~taken(n) /\ d.memories[m].slot = d.memories[n].slot
        /\ d.memories[m].slot # ""
    BY <1>4
  <2> QED
    BY <1>2, <1>7, <2>1 DEF taken
<1>9. MemoriesOK(l, e)
  <2>1. MemoriesOK(l, d)
    BY DEF Kin
  <2>2. \A m \in D : /\ e.memories[m].manual = l.memories[m].manual
                     /\ e.memories[m].edited => m \in Users(l)
                     /\ l.memories[m].edited => e.memories[m].edited
    BY <1>4, <2>1 DEF MemoriesOK, D
  <2>3. Users(l) \subseteq D
    BY DEF Users, D
  <2>4. ASSUME NEW m \in Users(l), l.memories[m].slot # ""
        PROVE  \E n \in Users(l) : e.memories[n].slot = l.memories[m].slot
    <3> DEFINE T == {k \in D : d.memories[k].slot = l.memories[m].slot}
    <3>1. PICK k \in Users(l) : d.memories[k].slot = l.memories[m].slot
      BY <2>1, <2>4 DEF MemoriesOK
    <3>2. T \in SUBSET D /\ T # {} /\ k \in T
      BY <2>3, <3>1
    <3>3. PICK n \in T : \A j \in T : ~Precedes(d, j, n)
      BY <1>1, <1>5, <3>2, OneComesFirst
    <3>4. n \in D /\ d.memories[n].slot = l.memories[m].slot
      BY <3>3
    <3>5. ~taken(n)
      BY <1>2, <3>3, <3>4 DEF taken
    <3>6. d.memories[n].edited
      <4>1. d.memories[k].edited /\ ~Precedes(d, k, n)
        BY <3>2, <3>3 DEF Protected
      <4> QED
        BY <4>1 DEF Precedes
    <3>7. n \in Users(l)
      BY <2>1, <3>4, <3>6 DEF MemoriesOK, D
    <3> QED
      BY <1>4, <3>4, <3>5, <3>7
  <2> QED
    BY <2>2, <2>4 DEF MemoriesOK, D
<1>10. (Ungrouped(d) => Ungrouped(e)) /\ (Grouped(d) => Grouped(e))
  BY <1>3 DEF Ungrouped, Grouped, VersionsDistinct
<1>11. Protected(l, e)
  <2>1. Users(l) \subseteq D
    BY DEF Users, D
  <2> QED
    BY <1>4, <2>1 DEF Protected
<1>12. e # Refused
  <2>1. e.tables \in {"missing", "present"}
    BY <1>3
  <2> QED
    BY <2>1, NotRefused
<1>13. Lasts(l, d, e)
  BY <1>6, <1>8, <1>9, <1>10, <1>11 DEF Lasts, Kin
<1> QED
  BY <1>8, <1>12, <1>13 DEF e

LEMMA StatementLasts ==
  ASSUME NEW l, IsDatabase(l), NEW d, Kin(l, d), NEW statement, NEW n,
         statement = "demote" => Protected(l, d),
         statement = "slots" => SlotsDistinct(d),
         statement = "versions" => Grouped(d)
  PROVE  LET e == Apply(d, statement, n) IN
         /\ e # Refused /\ Lasts(l, d, e)
         /\ statement = "protect" => Protected(l, e)
         /\ statement = "demote" => SlotsDistinct(e)
         /\ statement = "group" => Grouped(e)
<1>1. /\ DOMAIN l.memories \subseteq Nat \ {0} /\ DOMAIN l.documents \subseteq Nat \ {0}
      /\ IsFiniteSet(DOMAIN l.memories)
  BY OlderIsKin
<1>2. CASE statement = "tables"
  BY <1>2, TablesLast DEF Apply
<1>3. CASE statement = "protect"
  BY <1>3, ProtectLasts DEF Apply
<1>4. CASE statement = "demote"
  BY <1>1, <1>4, DemoteLasts DEF Apply
<1>5. CASE statement = "slots"
  BY <1>5, IndexesLast DEF Apply
<1>6. CASE statement = "group"
  BY <1>1, <1>6, GroupLasts DEF Apply
<1>7. CASE statement = "versions"
  BY <1>7, IndexesLast DEF Apply, Grouped
<1>8. CASE statement \notin {"tables", "protect", "demote", "slots", "group", "versions"}
  BY <1>8, ColumnsLast DEF Apply
<1> QED
  BY <1>2, <1>3, <1>4, <1>5, <1>6, <1>7, <1>8

\* How far the statements before the n-th of a schema have brought a database.
PostgresDone(l, d, n) ==
  /\ n > 4 => Protected(l, d)
  /\ n > 5 => SlotsDistinct(d)
  /\ n > 12 => Grouped(d)

SQLiteDone(l, d, n) ==
  /\ n > 4 => Protected(l, d)
  /\ n > 10 => Grouped(d)

LEMMA Schemas ==
  /\ Len(PostgresSchema) = 13 /\ Len(SQLiteSchema) = 11
  /\ \A n \in 1 .. 13 :
       /\ PostgresSchema[n] = "protect" <=> n = 4
       /\ PostgresSchema[n] = "demote" <=> n = 5
       /\ PostgresSchema[n] = "slots" <=> n = 6
       /\ PostgresSchema[n] = "group" <=> n = 12
       /\ PostgresSchema[n] = "versions" <=> n = 13
  /\ \A n \in 1 .. 11 :
       /\ SQLiteSchema[n] = "protect" <=> n = 4
       /\ SQLiteSchema[n] # "demote" /\ SQLiteSchema[n] # "slots"
       /\ SQLiteSchema[n] = "group" <=> n = 10
       /\ SQLiteSchema[n] = "versions" <=> n = 11
<1>1. Len(PostgresSchema) = 13 /\ Len(SQLiteSchema) = 11
  BY DEF PostgresSchema, SQLiteSchema
<1>2. ASSUME NEW n \in 1 .. 13
      PROVE  /\ PostgresSchema[n] = "protect" <=> n = 4
             /\ PostgresSchema[n] = "demote" <=> n = 5
             /\ PostgresSchema[n] = "slots" <=> n = 6
             /\ PostgresSchema[n] = "group" <=> n = 12
             /\ PostgresSchema[n] = "versions" <=> n = 13
  <2>1. n \in {1, 2, 3, 4, 5, 6, 7, 8, 9, 10, 11, 12, 13}
    OBVIOUS
  <2> QED
    BY <2>1 DEF PostgresSchema
<1>3. ASSUME NEW n \in 1 .. 11
      PROVE  /\ SQLiteSchema[n] = "protect" <=> n = 4
             /\ SQLiteSchema[n] # "demote" /\ SQLiteSchema[n] # "slots"
             /\ SQLiteSchema[n] = "group" <=> n = 10
             /\ SQLiteSchema[n] = "versions" <=> n = 11
  <2>1. n \in {1, 2, 3, 4, 5, 6, 7, 8, 9, 10, 11}
    OBVIOUS
  <2> QED
    BY <2>1 DEF SQLiteSchema
<1> QED
  BY <1>1, <1>2, <1>3

LEMMA PostgresStatement ==
  ASSUME NEW l, IsDatabase(l), NEW d, Kin(l, d), NEW n \in 1 .. 13, PostgresDone(l, d, n),
         NEW dimensions
  PROVE  LET e == Apply(d, PostgresSchema[n], dimensions) IN
         e # Refused /\ Lasts(l, d, e) /\ PostgresDone(l, e, n + 1)
<1> DEFINE s == PostgresSchema[n]
           e == Apply(d, s, dimensions)
<1>1. /\ s = "protect" <=> n = 4
      /\ s = "demote" <=> n = 5
      /\ s = "slots" <=> n = 6
      /\ s = "group" <=> n = 12
      /\ s = "versions" <=> n = 13
  BY Schemas
<1> HIDE DEF s
<1>2. /\ s = "demote" => Protected(l, d)
      /\ s = "slots" => SlotsDistinct(d)
      /\ s = "versions" => Grouped(d)
  BY <1>1 DEF PostgresDone
<1>3. /\ e # Refused /\ Lasts(l, d, e)
      /\ s = "protect" => Protected(l, e)
      /\ s = "demote" => SlotsDistinct(e)
      /\ s = "group" => Grouped(e)
  BY <1>2, StatementLasts
<1> HIDE DEF e
<1>4. PostgresDone(l, e, n + 1)
  <2>1. n + 1 > 4 => n > 4 \/ n = 4
    OBVIOUS
  <2>2. n + 1 > 5 => n > 5 \/ n = 5
    OBVIOUS
  <2>3. n + 1 > 12 => n > 12 \/ n = 12
    OBVIOUS
  <2> QED
    BY <1>1, <1>3, <2>1, <2>2, <2>3 DEF PostgresDone, Lasts
<1> QED
  BY <1>3, <1>4 DEF e, s

LEMMA SQLiteStatement ==
  ASSUME NEW l, IsDatabase(l), NEW d, Kin(l, d), NEW n \in 1 .. 11, SQLiteDone(l, d, n),
         NEW dimensions
  PROVE  LET e == Apply(d, SQLiteSchema[n], dimensions) IN
         e # Refused /\ Lasts(l, d, e) /\ SQLiteDone(l, e, n + 1)
<1> DEFINE s == SQLiteSchema[n]
           e == Apply(d, s, dimensions)
<1>1. /\ s = "protect" <=> n = 4
      /\ s # "demote" /\ s # "slots"
      /\ s = "group" <=> n = 10
      /\ s = "versions" <=> n = 11
  BY Schemas
<1> HIDE DEF s
<1>2. s = "versions" => Grouped(d)
  BY <1>1 DEF SQLiteDone
<1>3. /\ e # Refused /\ Lasts(l, d, e)
      /\ s = "protect" => Protected(l, e)
      /\ s = "group" => Grouped(e)
  BY <1>1, <1>2, StatementLasts
<1> HIDE DEF e
<1>4. SQLiteDone(l, e, n + 1)
  <2>1. n + 1 > 4 => n > 4 \/ n = 4
    OBVIOUS
  <2>2. n + 1 > 10 => n > 10 \/ n = 10
    OBVIOUS
  <2> QED
    BY <1>1, <1>3, <2>1, <2>2 DEF SQLiteDone, Lasts
<1> QED
  BY <1>3, <1>4 DEF e, s

-----------------------------------------------------------------------------
(* The migration of the deployments' databases                             *)

Starting == {"down", "telemetry", "connect", "extension", "begin", "file"}
Refusals == {"telemetry", "store", "boundaries", "office", "mcp", "services"}
Reasons == Refusals \cup {None, "load", "extension", "dimensions", "listener", "external"}

\* What is known of the settings at a stage, and of the next statement.
Reached(stage, n) ==
  /\ stage \in Starting => n = 1
  /\ stage \in {"connect", "extension", "begin", "migrating"} => Postgres
  /\ stage \in {"file", "schema"} => ~Postgres
  /\ stage \in Opens => Admitted

Migrated(d) ==
  Protected(legacy, d) /\ Grouped(d) /\ (Postgres => SlotsDistinct(d))

MigrationOK(r) ==
  /\ Reached(pc[r], at[r])
  /\ pc[r] = "migrating" =>
       lock = r /\ at[r] \in 1 .. 13 /\ PostgresDone(legacy, uncommitted, at[r])
  /\ pc[r] = "schema" => at[r] \in 1 .. 11 /\ SQLiteDone(legacy, db, at[r])
  /\ "database" \in ToSet(deferred[r]) => Migrated(db)
  /\ why[r] \in Refusals => LeftToConstructors(cfg)

GivenOK ==
  /\ IsEnvironment(environment) /\ IsDatabase(legacy)
  /\ cfg = IF Admits(environment) THEN Loaded(environment) ELSE environment

\* The inductive invariant of the settings and the database.
MigrationInv ==
  /\ GivenOK
  /\ at \in [Replica -> Nat] /\ why \in [Replica -> Reasons]
  /\ Kin(legacy, db) /\ Kin(legacy, uncommitted)
  /\ \A r \in Replica : MigrationOK(r)

LEMMA GivenStays ==
  ASSUME UNCHANGED given
  PROVE  /\ UNCHANGED <<cfg, legacy, environment>> /\ (GivenOK => GivenOK')
         /\ (LeftToConstructors(cfg) => LeftToConstructors(cfg)')
         /\ \A stage, n : Reached(stage, n)' = Reached(stage, n)
         /\ \A d : Migrated(d)' = Migrated(d)
<1>1. UNCHANGED <<cfg, legacy, environment>>
  BY DEF given
<1>2. Postgres' = Postgres /\ Admitted' = Admitted
  BY <1>1 DEF Postgres, Admitted
<1>3. GivenOK => GivenOK'
  BY <1>1 DEF GivenOK
<1>4. \A stage, n : Reached(stage, n)' = Reached(stage, n)
  BY <1>2 DEF Reached
<1>5. \A d : Migrated(d)' = Migrated(d)
  BY <1>1, <1>2 DEF Migrated
<1> QED
  BY <1>1, <1>3, <1>4, <1>5

\* The other replicas, of which a step changes nothing.
Aside(r) ==
  \A s \in Replica \ {r} :
    pc'[s] = pc[s] /\ at'[s] = at[s] /\ deferred'[s] = deferred[s] /\ why'[s] = why[s]

LEMMA MigrationKeeps ==
  ASSUME MigrationInv, NEW r \in Replica, UNCHANGED given, Aside(r),
         at' \in [Replica -> Nat], why' \in [Replica -> Reasons],
         Lasts(legacy, db, db'), Kin(legacy, uncommitted'),
         \A s \in Replica \ {r} : pc[s] = "migrating" => UNCHANGED <<lock, uncommitted>>,
         Reached(pc'[r], at'[r]),
         pc'[r] = "migrating" =>
           lock' = r /\ at'[r] \in 1 .. 13 /\ PostgresDone(legacy, uncommitted', at'[r]),
         pc'[r] = "schema" => at'[r] \in 1 .. 11 /\ SQLiteDone(legacy, db', at'[r]),
         "database" \in ToSet(deferred'[r]) =>
           "database" \in ToSet(deferred[r]) \/ Migrated(db'),
         why'[r] \in Refusals => LeftToConstructors(cfg)
  PROVE  MigrationInv'
<1>1. /\ UNCHANGED <<cfg, legacy, environment>> /\ GivenOK'
      /\ \A stage, n : Reached(stage, n)' = Reached(stage, n)
  BY GivenStays DEF MigrationInv
<1>2. Migrated(db) => Migrated(db')
  BY DEF Migrated, Lasts
<1>3. Migrated(db') => Migrated(db)'
  <2>1. Postgres' = Postgres
    BY <1>1 DEF Postgres
  <2> QED
    BY <1>1, <2>1 DEF Migrated
<1>4. MigrationOK(r)'
  <2>1. "database" \in ToSet(deferred'[r]) => Migrated(db)'
    BY <1>2, <1>3 DEF MigrationInv, MigrationOK
  <2>2. why'[r] \in Refusals => LeftToConstructors(cfg')
    BY <1>1
  <2> QED
    BY <1>1, <2>1, <2>2 DEF MigrationOK
<1>5. ASSUME NEW s \in Replica \ {r} PROVE MigrationOK(s)'
  <2>1. /\ pc'[s] = pc[s] /\ at'[s] = at[s] /\ deferred'[s] = deferred[s] /\ why'[s] = why[s]
    BY DEF Aside
  <2>2. MigrationOK(s)
    BY DEF MigrationInv
  <2>3. pc[s] = "migrating" =>
          lock' = s /\ at'[s] \in 1 .. 13 /\ PostgresDone(legacy, uncommitted', at'[s])
    BY <2>1, <2>2 DEF MigrationOK
  <2>4. pc[s] = "schema" => at'[s] \in 1 .. 11 /\ SQLiteDone(legacy, db', at'[s])
    BY <2>1, <2>2 DEF MigrationOK, SQLiteDone, Lasts
  <2>5. "database" \in ToSet(deferred'[s]) => Migrated(db)'
    BY <1>2, <1>3, <2>1, <2>2 DEF MigrationOK
  <2>6. Reached(pc'[s], at'[s])
    BY <2>1, <2>2 DEF MigrationOK
  <2>7. why'[s] \in Refusals => LeftToConstructors(cfg')
    BY <1>1, <2>1, <2>2 DEF MigrationOK
  <2> QED
    BY <1>1, <2>1, <2>3, <2>4, <2>5, <2>6, <2>7 DEF MigrationOK
<1>6. Kin(legacy', db') /\ Kin(legacy', uncommitted')
  BY <1>1 DEF Lasts
<1> QED
  BY <1>1, <1>4, <1>5, <1>6 DEF MigrationInv

\* Nothing happens to the database, but that a transaction may be given up.
Spared(r) ==
  /\ UNCHANGED <<given, db>>
  /\ \/ UNCHANGED <<uncommitted, lock>>
     \/ lock = r /\ uncommitted' = db

LEMMA SparedData ==
  ASSUME MigrationInv, NEW r \in Replica, Spared(r)
  PROVE  /\ Lasts(legacy, db, db') /\ Kin(legacy, uncommitted')
         /\ \A s \in Replica \ {r} : pc[s] = "migrating" => UNCHANGED <<lock, uncommitted>>
<1>1. Kin(legacy, db) /\ Kin(legacy, uncommitted) /\ db' = db
  BY DEF MigrationInv, Spared
<1>2. Lasts(legacy, db, db')
  BY <1>1 DEF Lasts
<1>3. Kin(legacy, uncommitted')
  BY <1>1 DEF Spared
<1>4. \A s \in Replica : pc[s] = "migrating" => lock = s
  BY DEF MigrationInv, MigrationOK
<1> QED
  BY <1>2, <1>3, <1>4 DEF Spared

LEMMA SparedKeeps ==
  ASSUME MigrationInv, NEW r \in Replica, Spared(r), Aside(r),
         at' \in [Replica -> Nat], why' \in [Replica -> Reasons],
         Reached(pc'[r], at'[r]), pc'[r] # "migrating",
         pc'[r] = "schema" => at'[r] = 1,
         "database" \in ToSet(deferred'[r]) => "database" \in ToSet(deferred[r]),
         why'[r] \in Refusals => LeftToConstructors(cfg)
  PROVE  MigrationInv'
<1>1. /\ Lasts(legacy, db, db') /\ Kin(legacy, uncommitted')
      /\ \A s \in Replica \ {r} : pc[s] = "migrating" => UNCHANGED <<lock, uncommitted>>
  BY SparedData
<1>2. UNCHANGED given
  BY DEF Spared
<1>3. pc'[r] = "schema" => at'[r] \in 1 .. 11 /\ SQLiteDone(legacy, db', at'[r])
  BY DEF SQLiteDone
<1> QED
  BY <1>1, <1>2, <1>3, MigrationKeeps

\* Something is opened.
LEMMA SparedOpened ==
  ASSUME ProcessInv, MigrationInv, NEW r \in Replica, Spared(r), NEW things, NEW closing,
         NEW stage, Opened(r, things, closing, stage),
         closing = <<>> \/ \E c \in Closings \ {"database"} : closing = <<c>>,
         Reached(stage, at[r]), stage # "migrating", stage = "schema" => at[r] = 1
  PROVE  MigrationInv'
<1> DEFINE q == deferred[r]
           p == closing \o q
<1>1. /\ pc' = [pc EXCEPT ![r] = stage] /\ deferred' = [deferred EXCEPT ![r] = p]
      /\ UNCHANGED <<why, at>>
  BY DEF Opened, Goto
<1>2. ProcessTypeOK /\ q \in Seq(Closings)
  BY DEF ProcessInv, ProcessTypeOK
<1>3. "database" \in ToSet(p) => "database" \in ToSet(q)
  <2>1. CASE closing = <<>>
    BY <1>2, <2>1, NothingPrepended
  <2>2. ASSUME NEW c \in Closings \ {"database"}, closing = <<c>>
        PROVE  <1>3!:
    <3>1. ToSet(p) = {c} \cup ToSet(q)
      BY <1>2, <2>2, OnePrepended
    <3> QED
      BY <3>1
  <2> QED
    BY <2>1, <2>2
<1> HIDE DEF p, q
<1>4. /\ pc'[r] = stage /\ deferred'[r] = p /\ Aside(r)
  BY <1>1, <1>2 DEF ProcessTypeOK, Aside
<1>5. /\ at' \in [Replica -> Nat] /\ why' \in [Replica -> Reasons]
      /\ at'[r] = at[r] /\ why'[r] = why[r]
      /\ why[r] \in Refusals => LeftToConstructors(cfg)
  BY <1>1 DEF MigrationInv, MigrationOK
<1> QED
  BY <1>3, <1>4, <1>5, SparedKeeps DEF q

\* Something is refused or fails.
LEMMA SparedFailed ==
  ASSUME ProcessInv, MigrationInv, NEW r \in Replica, Spared(r), NEW reason \in Reasons, NEW kept,
         Failed(r, reason, kept), reason \in Refusals => LeftToConstructors(cfg)
  PROVE  MigrationInv'
<1>1. /\ pc' = [pc EXCEPT ![r] = "unwinding"] /\ why' = [why EXCEPT ![r] = reason]
      /\ UNCHANGED <<deferred, at>>
  BY DEF Failed, Goto
<1>2. ProcessTypeOK /\ at \in [Replica -> Nat] /\ why \in [Replica -> Reasons]
  BY DEF ProcessInv, MigrationInv
<1>3. /\ pc'[r] = "unwinding" /\ why'[r] = reason /\ Aside(r)
      /\ at' \in [Replica -> Nat] /\ why' \in [Replica -> Reasons]
  BY <1>1, <1>2 DEF ProcessTypeOK, Aside
<1>4. Reached("unwinding", at'[r])
  BY ServingStages DEF Reached, Starting
<1> QED
  BY <1>1, <1>3, <1>4, SparedKeeps

-----------------------------------------------------------------------------
(* Every step keeps it                                                     *)

\* Behind the loading stands what config.Load admits.
LEMMA LoadedBehind ==
  ASSUME MigrationInv, NEW r \in Replica, pc[r] \in Opens
  PROVE  IsEnvironment(environment) /\ Admits(environment) /\ cfg = Loaded(environment)
BY DEF MigrationInv, MigrationOK, Reached, GivenOK, Admitted

LEMMA StepSpares ==
  ASSUME NEW r, NEW stage, Opening(r, stage), UNCHANGED data
  PROVE  Spared(r)
BY DEF Opening, Spared, data, given

\* One stage of the opening follows the other.
LEMMA Onward ==
  ASSUME MigrationInv, NEW r \in Replica
  PROVE  /\ pc[r] = "telemetry" => at[r] = 1 /\ Admitted
         /\ pc[r] \in {"connect", "extension", "begin"} => at[r] = 1 /\ Admitted /\ Postgres
         /\ pc[r] = "file" => at[r] = 1 /\ Admitted /\ ~Postgres
         /\ pc[r] \in AfterStore => Admitted
BY LaterStages, StoreStages DEF MigrationInv, MigrationOK, Reached, Starting, Migrates

LEMMA ReachedLater ==
  /\ \A stage \in AfterStore : \A n : Admitted => Reached(stage, n)
  /\ \A stage \in {"serving", "draining", "unwinding", "returned"} : \A n : Reached(stage, n)
BY LaterStages, ServingStages DEF Reached, Starting

LEMMA LoadMigrates ==
  ASSUME ProcessInv, MigrationInv, NEW r \in Replica, Load(r)
  PROVE  MigrationInv'
<1>1. pc[r] = "down" /\ Spared(r)
  BY StepSpares DEF Load, Opening
<1>2. CASE Admitted /\ Opened(r, {}, <<>>, "telemetry")
  <2>1. Reached("telemetry", at[r])
    BY <1>1, <1>2 DEF MigrationInv, MigrationOK, Reached, Starting
  <2> QED
    BY <1>1, <1>2, <2>1, SparedOpened
<1>3. CASE Failed(r, "load", {})
  <2>1. "load" \in Reasons \ Refusals
    BY DEF Refusals, Reasons
  <2> QED
    BY <1>1, <1>3, <2>1, SparedFailed
<1> QED
  BY <1>2, <1>3 DEF Load

LEMMA OpenTelemetryMigrates ==
  ASSUME ProcessInv, MigrationInv, NEW r \in Replica, OpenTelemetry(r)
  PROVE  MigrationInv'
<1> DEFINE things == (IF cfg.otel = "on" THEN {"tracer"} ELSE {}) \cup
                     (IF cfg.prometheus = "on" THEN {"meter"} ELSE {})
           stage == IF Postgres THEN "connect" ELSE "file"
<1>1. pc[r] = "telemetry" /\ Spared(r) /\ "telemetry" \in Opens
  BY StepSpares, StoreStages DEF OpenTelemetry, Opening
<1>2. CASE Opened(r, things, <<"telemetry">>, stage)
  <2>1. Reached(stage, at[r]) /\ stage \notin {"migrating", "schema"}
    BY <1>1, Onward DEF Reached
  <2>2. "telemetry" \in Closings \ {"database"}
    BY DEF Closings
  <2> HIDE DEF things, stage
  <2> QED
    BY <1>1, <1>2, <2>1, <2>2, SparedOpened
<1>3. CASE ~NewTelemetry(cfg) /\ Failed(r, "telemetry", live[r])
  <2>1. LeftToConstructors(cfg)
    BY <1>1, <1>3, LoadedBehind, TelemetryAccepts
  <2>2. "telemetry" \in Reasons
    BY DEF Refusals, Reasons
  <2> QED
    BY <1>1, <1>3, <2>1, <2>2, SparedFailed
<1> QED
  BY <1>2, <1>3 DEF OpenTelemetry

LEMMA ConnectMigrates ==
  ASSUME ProcessInv, MigrationInv, NEW r \in Replica, Connect(r)
  PROVE  MigrationInv'
<1>1. pc[r] = "connect" /\ Spared(r) /\ "connect" \in Opens
  BY StepSpares, StoreStages DEF Connect, Opening
<1>2. CASE \E stage \in {"begin", "extension"} : Opened(r, {"pool"}, <<>>, stage)
  <2>1. PICK stage \in {"begin", "extension"} : Opened(r, {"pool"}, <<>>, stage)
    BY <1>2
  <2>2. Reached(stage, at[r]) /\ stage \notin {"migrating", "schema"}
    BY <1>1, Onward DEF Reached
  <2> QED
    BY <1>1, <2>1, <2>2, SparedOpened
<1>3. CASE /\ ~(cfg.postgresDSN # "absent" /\ cfg.embeddingDimensions >= 1)
           /\ Failed(r, "store", live[r])
  <2>1. cfg.storeProvider = "postgres"
    BY <1>1, Onward DEF Postgres
  <2>2. FALSE
    BY <1>1, <1>3, <2>1, LoadedBehind, StoreAccepts
  <2> QED
    BY <2>2
<1> QED
  BY <1>2, <1>3 DEF Connect

\* The extension is no matter of the rows.
LEMMA CreateExtensionMigrates ==
  ASSUME ProcessInv, MigrationInv, NEW r \in Replica, CreateExtension(r)
  PROVE  MigrationInv'
<1>1. /\ pc[r] = "extension" /\ UNCHANGED given /\ UNCHANGED <<uncommitted, lock>>
  BY DEF CreateExtension, Opening, given
<1>2. CASE Failed(r, "extension", live[r] \ {"pool"}) /\ UNCHANGED db
  <2>1. Spared(r)
    BY <1>1, <1>2 DEF Spared
  <2>2. "extension" \in Reasons \ Refusals
    BY DEF Refusals, Reasons
  <2> QED
    BY <1>2, <2>1, <2>2, SparedFailed
<1>3. CASE Opened(r, {}, <<>>, "begin") /\ db' = [db EXCEPT !.extension = TRUE]
  <2>1. Lasts(legacy, db, db') /\ Kin(legacy, uncommitted')
    BY <1>1, <1>3, ExtensionLasts DEF MigrationInv
  <2>2. /\ pc' = [pc EXCEPT ![r] = "begin"]
        /\ deferred' = [deferred EXCEPT ![r] = <<>> \o @] /\ UNCHANGED <<why, at>>
    BY <1>3 DEF Opened, Goto
  <2>3. ProcessTypeOK /\ deferred[r] \in Seq(Closings)
    BY DEF ProcessInv, ProcessTypeOK
  <2>4. /\ pc'[r] = "begin" /\ deferred'[r] = deferred[r] /\ Aside(r)
    BY <2>2, <2>3, NothingPrepended DEF ProcessTypeOK, Aside
  <2>5. /\ at' \in [Replica -> Nat] /\ why' \in [Replica -> Reasons]
        /\ at'[r] = at[r] /\ why'[r] = why[r]
        /\ why[r] \in Refusals => LeftToConstructors(cfg)
    BY <2>2 DEF MigrationInv, MigrationOK
  <2>6. Reached("begin", at[r])
    BY <1>1, Onward DEF Reached
  <2> QED
    BY <1>1, <2>1, <2>4, <2>5, <2>6, MigrationKeeps
<1> QED
  BY <1>2, <1>3 DEF CreateExtension

LEMMA LockMigrationsMigrates ==
  ASSUME ProcessInv, MigrationInv, NEW r \in Replica, LockMigrations(r)
  PROVE  MigrationInv'
<1>1. /\ pc[r] = "begin" /\ UNCHANGED given /\ UNCHANGED db
      /\ lock = None /\ lock' = r /\ uncommitted' = db
      /\ Opened(r, {}, <<>>, "migrating")
  BY DEF LockMigrations, Opening
<1>2. Lasts(legacy, db, db') /\ Kin(legacy, uncommitted')
  BY <1>1 DEF MigrationInv, Lasts
<1>3. \A s \in Replica : pc[s] # "migrating"
  BY <1>1, LifecycleAssumption DEF MigrationInv, MigrationOK, None
<1>4. /\ pc' = [pc EXCEPT ![r] = "migrating"]
      /\ deferred' = [deferred EXCEPT ![r] = <<>> \o @] /\ UNCHANGED <<why, at>>
  BY <1>1 DEF Opened, Goto
<1>5. ProcessTypeOK /\ deferred[r] \in Seq(Closings)
  BY DEF ProcessInv, ProcessTypeOK
<1>6. /\ pc'[r] = "migrating" /\ deferred'[r] = deferred[r] /\ Aside(r)
  BY <1>4, <1>5, NothingPrepended DEF ProcessTypeOK, Aside
<1>7. /\ at' \in [Replica -> Nat] /\ why' \in [Replica -> Reasons]
      /\ at'[r] = 1 /\ why'[r] = why[r]
      /\ why[r] \in Refusals => LeftToConstructors(cfg)
  BY <1>1, <1>4, Onward DEF MigrationInv, MigrationOK
<1>8. Reached("migrating", 1) /\ PostgresDone(legacy, uncommitted', 1)
  BY <1>1, Onward DEF Reached, Starting, PostgresDone
<1> QED
  BY <1>1, <1>2, <1>3, <1>6, <1>7, <1>8, MigrationKeeps

\* No statement is refused, and after the last the database is migrated.
LEMMA MigratePostgresMigrates ==
  ASSUME ProcessInv, MigrationInv, NEW r \in Replica, MigratePostgres(r)
  PROVE  MigrationInv'
<1> DEFINE d == Apply(uncommitted, PostgresSchema[at[r]], cfg.embeddingDimensions)
<1>1. pc[r] = "migrating" /\ UNCHANGED given
  BY DEF MigratePostgres, Opening
<1>2. /\ lock = r /\ at[r] \in 1 .. 13 /\ PostgresDone(legacy, uncommitted, at[r])
      /\ Kin(legacy, uncommitted) /\ Kin(legacy, db) /\ IsDatabase(legacy)
      /\ Reached("migrating", at[r])
  BY <1>1 DEF MigrationInv, MigrationOK, GivenOK
<1>3. d # Refused /\ Lasts(legacy, uncommitted, d) /\ PostgresDone(legacy, d, at[r] + 1)
  BY <1>2, PostgresStatement
<1>4. Postgres /\ Admitted /\ "migrating" \in Opens
  BY <1>2, StoreStages DEF Reached, Migrates
<1>5. /\ ProcessTypeOK /\ deferred[r] \in Seq(Closings)
      /\ at \in [Replica -> Nat] /\ why \in [Replica -> Reasons]
      /\ why[r] \in Refusals => LeftToConstructors(cfg)
  BY DEF ProcessInv, ProcessTypeOK, MigrationInv, MigrationOK
<1>6. \A s \in Replica \ {r} : pc[s] # "migrating"
  BY <1>2 DEF MigrationInv, MigrationOK
<1>7. Lasts(legacy, db, db)
  BY <1>2 DEF Lasts
<1> HIDE DEF d
<1>8. CASE /\ cfg.embeddingDimensions > 2000
           /\ Failed(r, "store", live[r] \ {"pool"}) /\ EndTransaction
  <2>1. LeftToConstructors(cfg)
    BY <1>4, <1>8 DEF LeftToConstructors, Postgres
  <2>2. Spared(r)
    BY <1>1, <1>2, <1>8 DEF Spared, EndTransaction
  <2>3. "store" \in Reasons
    BY DEF Refusals, Reasons
  <2> QED
    BY <1>8, <2>1, <2>2, <2>3, SparedFailed
<1>9. CASE at[r] < Len(PostgresSchema) /\ Advance(r) /\ uncommitted' = d /\ UNCHANGED <<db, lock>>
  <2>1. /\ at' = [at EXCEPT ![r] = @ + 1] /\ UNCHANGED <<pc, deferred, why>>
    BY <1>9 DEF Advance
  <2>2. /\ at' \in [Replica -> Nat] /\ at'[r] = at[r] + 1 /\ Aside(r)
    BY <1>2, <1>5, <2>1 DEF Aside
  <2>3. at[r] + 1 \in 1 .. 13
    BY <1>2, <1>9, Schemas
  <2>4. Reached("migrating", at[r] + 1)
    BY <1>2 DEF Reached, Starting
  <2>5. Kin(legacy, uncommitted') /\ PostgresDone(legacy, uncommitted', at'[r])
    BY <1>3, <1>9, <2>2 DEF Lasts
  <2> QED
    BY <1>1, <1>2, <1>5, <1>6, <1>7, <1>9, <2>1, <2>2, <2>3, <2>4, <2>5, MigrationKeeps
<1>10. CASE Failed(r, "dimensions", live[r] \ {"pool"}) /\ EndTransaction
  <2>1. Spared(r)
    BY <1>1, <1>2, <1>10 DEF Spared, EndTransaction
  <2>2. "dimensions" \in Reasons \ Refusals
    BY DEF Refusals, Reasons
  <2> QED
    BY <1>10, <2>1, <2>2, SparedFailed
<1>11. CASE /\ ~(at[r] < Len(PostgresSchema)) /\ Opened(r, {}, <<"database">>, "redis")
            /\ db' = d /\ lock' = None /\ uncommitted' = d
  <2>1. at[r] = 13
    BY <1>2, <1>11, Schemas
  <2>2. Protected(legacy, d) /\ SlotsDistinct(d) /\ Grouped(d) /\ Kin(legacy, d)
    BY <1>3, <2>1 DEF PostgresDone, Lasts
  <2>3. Lasts(legacy, db, db') /\ Migrated(db') /\ Kin(legacy, uncommitted')
    BY <1>11, <2>2 DEF Lasts, Migrated
  <2>4. /\ pc' = [pc EXCEPT ![r] = "redis"] /\ UNCHANGED <<why, at>>
        /\ deferred' = [deferred EXCEPT ![r] = <<"database">> \o @]
    BY <1>11 DEF Opened, Goto
  <2>5. pc'[r] = "redis" /\ Aside(r) /\ at'[r] = at[r] /\ why'[r] = why[r]
    BY <1>5, <2>4 DEF ProcessTypeOK, Aside
  <2>6. Reached("redis", at[r])
    BY <1>4, ReachedLater, LaterStages
  <2> QED
    BY <1>1, <1>5, <1>6, <2>3, <2>4, <2>5, <2>6, MigrationKeeps
<1> QED
  BY <1>3, <1>8, <1>9, <1>10, <1>11 DEF MigratePostgres, d

LEMMA OpenFileMigrates ==
  ASSUME ProcessInv, MigrationInv, NEW r \in Replica, OpenFile(r)
  PROVE  MigrationInv'
<1>1. pc[r] = "file" /\ Spared(r) /\ Opened(r, {"pool"}, <<>>, "schema")
  BY StepSpares DEF OpenFile, Opening
<1>2. Reached("schema", at[r]) /\ at[r] = 1
  BY <1>1, Onward DEF Reached
<1> QED
  BY <1>1, <1>2, SparedOpened

LEMMA MigrateSQLiteMigrates ==
  ASSUME ProcessInv, MigrationInv, NEW r \in Replica, MigrateSQLite(r)
  PROVE  MigrationInv'
<1> DEFINE d == Apply(db, SQLiteSchema[at[r]], cfg.embeddingDimensions)
<1>1. pc[r] = "schema" /\ UNCHANGED given /\ UNCHANGED <<uncommitted, lock>>
  BY DEF MigrateSQLite, Opening
<1>2. /\ at[r] \in 1 .. 11 /\ SQLiteDone(legacy, db, at[r])
      /\ Kin(legacy, uncommitted) /\ Kin(legacy, db) /\ IsDatabase(legacy)
      /\ Reached("schema", at[r])
  BY <1>1 DEF MigrationInv, MigrationOK, GivenOK
<1>3. d # Refused /\ Lasts(legacy, db, d) /\ SQLiteDone(legacy, d, at[r] + 1)
  BY <1>2, SQLiteStatement
<1>4. ~Postgres /\ Admitted
  BY <1>2, StoreStages DEF Reached, Migrates
<1>5. /\ ProcessTypeOK /\ deferred[r] \in Seq(Closings)
      /\ at \in [Replica -> Nat] /\ why \in [Replica -> Reasons]
      /\ why[r] \in Refusals => LeftToConstructors(cfg)
  BY DEF ProcessInv, ProcessTypeOK, MigrationInv, MigrationOK
<1> HIDE DEF d
<1>6. CASE /\ at[r] = Len(SQLiteSchema) /\ Opened(r, {}, <<"database">>, "redis") /\ db' = d
  <2>1. at[r] = 11
    BY <1>6, Schemas
  <2>2. Protected(legacy, d) /\ Grouped(d)
    BY <1>3, <2>1 DEF SQLiteDone
  <2>3. Lasts(legacy, db, db') /\ Migrated(db') /\ Kin(legacy, uncommitted')
    BY <1>1, <1>2, <1>3, <1>4, <1>6, <2>2 DEF Migrated
  <2>4. /\ pc' = [pc EXCEPT ![r] = "redis"] /\ UNCHANGED <<why, at>>
        /\ deferred' = [deferred EXCEPT ![r] = <<"database">> \o @]
    BY <1>6 DEF Opened, Goto
  <2>5. pc'[r] = "redis" /\ Aside(r) /\ at'[r] = at[r] /\ why'[r] = why[r]
    BY <1>5, <2>4 DEF ProcessTypeOK, Aside
  <2>6. Reached("redis", at[r])
    BY <1>4, ReachedLater, LaterStages
  <2> QED
    BY <1>1, <1>5, <2>3, <2>4, <2>5, <2>6, MigrationKeeps
<1>7. CASE at[r] # Len(SQLiteSchema) /\ Advance(r) /\ db' = d
  <2>1. /\ at' = [at EXCEPT ![r] = @ + 1] /\ UNCHANGED <<pc, deferred, why>>
    BY <1>7 DEF Advance
  <2>2. /\ at' \in [Replica -> Nat] /\ at'[r] = at[r] + 1 /\ Aside(r)
    BY <1>2, <1>5, <2>1 DEF Aside
  <2>3. at[r] + 1 \in 1 .. 11
    BY <1>2, <1>7, Schemas
  <2>4. Reached("schema", at[r] + 1)
    BY <1>2 DEF Reached, Starting
  <2>5. Kin(legacy, uncommitted') /\ Lasts(legacy, db, db') /\ SQLiteDone(legacy, db', at'[r])
    BY <1>1, <1>2, <1>3, <1>7, <2>2
  <2> QED
    BY <1>1, <1>5, <2>1, <2>2, <2>3, <2>4, <2>5, MigrationKeeps
<1> QED
  BY <1>3, <1>6, <1>7 DEF MigrateSQLite, d

LEMMA OpenRedisMigrates ==
  ASSUME ProcessInv, MigrationInv, NEW r \in Replica, OpenRedis(r)
  PROVE  MigrationInv'
<1> DEFINE things == IF cfg.redisURL = "absent" THEN {} ELSE {"redis"}
           closing == IF cfg.redisURL = "absent" THEN <<>> ELSE <<"redis">>
<1>1. pc[r] = "redis" /\ Spared(r) /\ Opened(r, things, closing, "boundaries")
  BY StepSpares DEF OpenRedis, Opening
<1>2. closing = <<>> \/ \E c \in Closings \ {"database"} : closing = <<c>>
  BY DEF Closings
<1>3. Reached("boundaries", at[r])
  BY <1>1, Onward, ReachedLater, LaterStages
<1> HIDE DEF things, closing
<1> QED
  BY <1>1, <1>2, <1>3, SparedOpened

\* A constructor refuses what is left to it, and nothing else.
LEMMA SparedRefused ==
  ASSUME ProcessInv, MigrationInv, NEW r \in Replica, Spared(r), NEW reason \in Refusals,
         NEW kept, Failed(r, reason, kept), LeftToConstructors(cfg)
  PROVE  MigrationInv'
<1>1. reason \in Reasons
  BY DEF Reasons
<1> QED
  BY <1>1, SparedFailed

LEMMA BuildBoundariesMigrates ==
  ASSUME ProcessInv, MigrationInv, NEW r \in Replica, BuildBoundaries(r)
  PROVE  MigrationInv'
<1>1. pc[r] = "boundaries" /\ Spared(r) /\ pc[r] \in Opens
  BY StepSpares, LaterStages DEF BuildBoundaries, Opening
<1>2. CASE Opened(r, {}, <<>>, "office")
  <2>1. Reached("office", at[r])
    BY <1>1, Onward, ReachedLater, LaterStages
  <2> QED
    BY <1>1, <1>2, <2>1, SparedOpened
<1>3. CASE ~Boundaries(cfg) /\ Failed(r, "boundaries", live[r])
  <2>1. LeftToConstructors(cfg)
    BY <1>1, <1>3, LoadedBehind, BoundariesAccept
  <2>2. "boundaries" \in Refusals
    BY DEF Refusals
  <2> QED
    BY <1>1, <1>3, <2>1, <2>2, SparedRefused
<1> QED
  BY <1>2, <1>3 DEF BuildBoundaries

LEMMA OpenOfficeMigrates ==
  ASSUME ProcessInv, MigrationInv, NEW r \in Replica, OpenOffice(r)
  PROVE  MigrationInv'
<1>1. pc[r] = "office" /\ Spared(r) /\ pc[r] \in Opens
  BY StepSpares, LaterStages DEF OpenOffice, Opening
<1>2. ConnectOfficeExecutor(cfg)
  BY <1>1, LoadedBehind, ConnectorsAccept
<1>3. Reached("recover", at[r])
  BY <1>1, Onward, ReachedLater, LaterStages
<1>4. CASE Opened(r, {}, <<>>, "recover")
  BY <1>1, <1>3, <1>4, SparedOpened
<1>5. CASE Opened(r, {"office"}, <<"office">>, "recover")
  <2>1. "office" \in Closings \ {"database"}
    BY DEF Closings
  <2> QED
    BY <1>1, <1>3, <1>5, <2>1, SparedOpened
<1> QED
  BY <1>2, <1>4, <1>5 DEF OpenOffice

LEMMA RecoverMigrates ==
  ASSUME ProcessInv, MigrationInv, NEW r \in Replica, Recover(r)
  PROVE  MigrationInv'
<1>1. pc[r] = "recover" /\ Spared(r) /\ Opened(r, {}, <<>>, "mcp")
  BY StepSpares DEF Recover, Opening
<1>2. Reached("mcp", at[r])
  BY <1>1, Onward, ReachedLater, LaterStages
<1> QED
  BY <1>1, <1>2, SparedOpened

LEMMA OpenMCPMigrates ==
  ASSUME ProcessInv, MigrationInv, NEW r \in Replica, OpenMCP(r)
  PROVE  MigrationInv'
<1>1. pc[r] = "mcp" /\ Spared(r) /\ pc[r] \in Opens
  BY StepSpares, LaterStages DEF OpenMCP, Opening
<1>2. ConnectMCP(cfg)
  BY <1>1, LoadedBehind, ConnectorsAccept
<1>3. Reached("mcp", at[r]) /\ Reached("services", at[r])
  BY <1>1, Onward, ReachedLater, LaterStages
<1>4. CASE Opened(r, {}, <<>>, "services")
  BY <1>1, <1>3, <1>4, SparedOpened
<1>5. CASE Opened(r, {}, <<"mcp">>, "services")
  <2>1. "mcp" \in Closings \ {"database"}
    BY DEF Closings
  <2> QED
    BY <1>1, <1>3, <1>5, <2>1, SparedOpened
<1>6. CASE \E x : Opened(r, {x}, <<>>, "mcp")
  BY <1>1, <1>3, <1>6, SparedOpened
<1> QED
  BY <1>2, <1>4, <1>5, <1>6 DEF OpenMCP

LEMMA BuildServicesMigrates ==
  ASSUME ProcessInv, MigrationInv, NEW r \in Replica, BuildServices(r)
  PROVE  MigrationInv'
<1>1. pc[r] = "services" /\ Spared(r) /\ pc[r] \in Opens
  BY StepSpares, LaterStages DEF BuildServices, Opening
<1>2. CASE Opened(r, {}, <<>>, "workers")
  <2>1. Reached("workers", at[r])
    BY <1>1, Onward, ReachedLater, LaterStages
  <2> QED
    BY <1>1, <1>2, <2>1, SparedOpened
<1>3. CASE ~(Services(cfg) /\ NewCaptureWorker(cfg)) /\ Failed(r, "services", live[r])
  <2>1. LeftToConstructors(cfg)
    BY <1>1, <1>3, LoadedBehind, ServicesAccept
  <2>2. "services" \in Refusals
    BY DEF Refusals
  <2> QED
    BY <1>1, <1>3, <2>1, <2>2, SparedRefused
<1> QED
  BY <1>2, <1>3 DEF BuildServices

LEMMA StartWorkersMigrates ==
  ASSUME ProcessInv, MigrationInv, NEW r \in Replica, StartWorkers(r)
  PROVE  MigrationInv'
<1> DEFINE q == deferred[r]
           q1 == <<"capture">> \o q
           p == <<"background", "capture">> \o q
<1>1. /\ pc' = [pc EXCEPT ![r] = "serving"] /\ deferred' = [deferred EXCEPT ![r] = p]
      /\ UNCHANGED <<why, at>> /\ Spared(r)
  BY DEF StartWorkers, Opened, Goto, Spared, data
<1>2. ProcessTypeOK /\ q \in Seq(Closings)
  BY DEF ProcessInv, ProcessTypeOK
<1>3. {"background", "capture"} \subseteq Closings
  BY DEF Closings, Joint
<1>4. q1 \in Seq(Closings) /\ ToSet(q1) = {"capture"} \cup ToSet(q)
  BY <1>2, <1>3, OnePrepended
<1>5. p = <<"background">> \o q1
  <2>1. <<"background", "capture">> = <<"background">> \o <<"capture">>
    OBVIOUS
  <2>2. <<"background">> \in Seq(Closings) /\ <<"capture">> \in Seq(Closings)
    BY <1>3
  <2> QED
    BY <1>2, <2>1, <2>2, ConcatAssociative
<1> HIDE DEF p, q1, q
<1>6. ToSet(p) = {"background"} \cup ToSet(q1)
  BY <1>3, <1>4, <1>5, OnePrepended
<1>7. "database" \in ToSet(p) => "database" \in ToSet(q)
  BY <1>4, <1>6
<1>8. pc'[r] = "serving" /\ deferred'[r] = p /\ Aside(r)
  BY <1>1, <1>2 DEF ProcessTypeOK, Aside
<1>9. /\ at' \in [Replica -> Nat] /\ why' \in [Replica -> Reasons] /\ why'[r] = why[r]
      /\ why[r] \in Refusals => LeftToConstructors(cfg)
  BY <1>1 DEF MigrationInv, MigrationOK
<1> QED
  BY <1>1, <1>7, <1>8, <1>9, ReachedLater, SparedKeeps DEF q

LEMMA OpenMigrates ==
  ASSUME ProcessInv, MigrationInv, NEW r \in Replica, Open(r)
  PROVE  MigrationInv'
BY LoadMigrates, OpenTelemetryMigrates, ConnectMigrates, CreateExtensionMigrates,
   LockMigrationsMigrates, MigratePostgresMigrates, OpenFileMigrates, MigrateSQLiteMigrates,
   OpenRedisMigrates, BuildBoundariesMigrates, OpenOfficeMigrates, RecoverMigrates,
   OpenMCPMigrates, BuildServicesMigrates, StartWorkersMigrates DEF Open

-----------------------------------------------------------------------------
(* Serving and closing change nothing of it                                *)

\* A process that serves or closes: a deferred call may be over.
LEMMA SparedClosing ==
  ASSUME ProcessInv, MigrationInv, NEW r \in Replica, Spared(r), UNCHANGED at,
         NEW stage \in {"serving", "draining", "unwinding", "returned"},
         Goto(r, stage) \/ (pc[r] = stage /\ UNCHANGED pc),
         UNCHANGED deferred \/ (deferred[r] # <<>> /\ deferred' = [deferred EXCEPT ![r] = Tail(@)]),
         UNCHANGED why \/ why' = [why EXCEPT ![r] = "listener"]
  PROVE  MigrationInv'
<1>1. ProcessTypeOK /\ deferred[r] \in Seq(Closings)
  BY DEF ProcessInv, ProcessTypeOK
<1>2. pc'[r] = stage /\ \A s \in Replica \ {r} : pc'[s] = pc[s]
  BY <1>1 DEF ProcessTypeOK, Goto
<1>3. /\ ToSet(deferred'[r]) \subseteq ToSet(deferred[r])
      /\ \A s \in Replica \ {r} : deferred'[s] = deferred[s]
  <2>1. CASE UNCHANGED deferred
    BY <2>1
  <2>2. CASE deferred[r] # <<>> /\ deferred' = [deferred EXCEPT ![r] = Tail(@)]
    <3>1. ToSet(Tail(deferred[r])) \subseteq ToSet(deferred[r])
      BY <1>1, <2>2, Popped
    <3> QED
      BY <1>1, <2>2, <3>1 DEF ProcessTypeOK
  <2> QED
    BY <2>1, <2>2
<1>4. /\ at \in [Replica -> Nat] /\ why \in [Replica -> Reasons]
      /\ why[r] \in Refusals => LeftToConstructors(cfg)
  BY DEF MigrationInv, MigrationOK
<1>5. "listener" \in Reasons \ Refusals
  BY DEF Reasons, Refusals
<1>6. /\ why' \in [Replica -> Reasons] /\ \A s \in Replica \ {r} : why'[s] = why[s]
      /\ why'[r] \in Refusals => LeftToConstructors(cfg)
  BY <1>4, <1>5
<1>7. Aside(r) /\ at' \in [Replica -> Nat]
  BY <1>2, <1>3, <1>4, <1>6 DEF Aside
<1> QED
  BY <1>2, <1>3, <1>6, <1>7, ReachedLater, SparedKeeps

LEMMA NothingMigrates ==
  ASSUME MigrationInv, UNCHANGED <<given, data, pc, at, deferred, why>>
  PROVE  MigrationInv'
<1>1. /\ UNCHANGED <<cfg, legacy, environment>> /\ GivenOK'
      /\ \A stage, n : Reached(stage, n)' = Reached(stage, n)
      /\ \A d : Migrated(d)' = Migrated(d)
  BY GivenStays DEF MigrationInv
<1>2. UNCHANGED <<db, uncommitted, lock>>
  BY DEF data
<1>3. ASSUME NEW s \in Replica PROVE MigrationOK(s)'
  <2>1. MigrationOK(s)
    BY DEF MigrationInv
  <2>2. Reached(pc'[s], at'[s])
    BY <2>1 DEF MigrationOK
  <2>3. "database" \in ToSet(deferred'[s]) => Migrated(db)'
    BY <1>1, <1>2, <2>1 DEF MigrationOK
  <2> QED
    BY <1>1, <1>2, <2>1, <2>2, <2>3 DEF MigrationOK
<1> QED
  BY <1>1, <1>2, <1>3 DEF MigrationInv

LEMMA CloseMigrates ==
  ASSUME ProcessInv, MigrationInv, NEW r \in Replica,
         Close(r) \/ Signal(r) \/ ListenerFails(r), ~Exit(r)
  PROVE  MigrationInv'
<1>1. CASE Signal(r) \/ Drain(r) \/ Return(r)
  <2>1. Spared(r) /\ UNCHANGED <<at, deferred, why>>
    BY <1>1 DEF Signal, Drain, Return, Spared, process, data
  <2>2. \E stage \in {"serving", "draining", "unwinding", "returned"} : Goto(r, stage)
    BY <1>1 DEF Signal, Drain, Return
  <2> QED
    BY <2>1, <2>2, SparedClosing
<1>2. CASE DrainExpires(r) \/ ListenerFails(r)
  <2>1. /\ Spared(r) /\ UNCHANGED <<at, deferred>> /\ Goto(r, "unwinding")
        /\ why' = [why EXCEPT ![r] = "listener"]
    BY <1>2 DEF DrainExpires, ListenerFails, Abandon, Spared, data
  <2> QED
    BY <2>1, SparedClosing
<1>3. CASE StopWorker(r)
  BY <1>3, NothingMigrates DEF StopWorker
<1>4. CASE StopExpires(r) \/ Unwind(r)
  <2>1. /\ Spared(r) /\ UNCHANGED <<at, why, pc>> /\ pc[r] = "unwinding"
        /\ deferred[r] # <<>> /\ deferred' = [deferred EXCEPT ![r] = Tail(@)]
    BY <1>4 DEF StopExpires, Unwind, Spared, data
  <2> QED
    BY <2>1, SparedClosing
<1> QED
  BY <1>1, <1>2, <1>3, <1>4 DEF Close

LEMMA ServingMigrates ==
  ASSUME MigrationInv, NEW r \in Replica,
         \/ \E h \in Handlers : Serve(r, h) \/ Respond(r, h)
         \/ \E w \in Workers : Claim(r, w) \/ Finish(r, w) \/ Leave(r, w)
  PROVE  MigrationInv'
<1>1. UNCHANGED <<given, data, pc, at, deferred, why>>
  BY DEF Serve, Respond, Claim, Finish, Leave, Turn
<1> QED
  BY <1>1, NothingMigrates

\* A process that is gone has nothing; a transaction of its own is rolled back.
LEMMA GoneMigrates ==
  ASSUME ProcessInv, MigrationInv, NEW r \in Replica, Gone(r),
         UNCHANGED data \/ (lock = r /\ EndTransaction)
  PROVE  MigrationInv'
<1>1. /\ pc' = [pc EXCEPT ![r] = "down"] /\ at' = [at EXCEPT ![r] = 1]
      /\ deferred' = [deferred EXCEPT ![r] = <<>>] /\ why' = [why EXCEPT ![r] = None]
      /\ UNCHANGED given
  BY DEF Gone, Goto
<1>2. ProcessTypeOK /\ at \in [Replica -> Nat] /\ why \in [Replica -> Reasons]
  BY DEF ProcessInv, MigrationInv
<1>3. Spared(r)
  BY <1>1 DEF Spared, data, EndTransaction
<1>4. None \in Reasons \ Refusals
  BY DEF Reasons, Refusals, None
<1>5. /\ pc'[r] = "down" /\ at'[r] = 1 /\ deferred'[r] = <<>> /\ why'[r] = None /\ Aside(r)
      /\ at' \in [Replica -> Nat] /\ why' \in [Replica -> Reasons]
  BY <1>1, <1>2, <1>4 DEF ProcessTypeOK, Aside
<1>6. Reached("down", 1)
  BY ServingStages DEF Reached
<1> QED
  BY <1>3, <1>4, <1>5, <1>6, NothingDeferred, SparedKeeps

LEMMA CallFailsMigrates ==
  ASSUME ProcessInv, MigrationInv, NEW r \in Replica, CallFails(r)
  PROVE  MigrationInv'
<1>1. Spared(r)
  BY DEF CallFails, Spared, data, EndTransaction
<1>2. "external" \in Reasons \ Refusals
  BY DEF Reasons, Refusals
<1>3. Failed(r, "external", live[r] \ Unfinished(r))
  BY DEF CallFails
<1> QED
  BY <1>1, <1>2, <1>3, SparedFailed

LEMMA MigrationStep ==
  ASSUME ProcessInv, MigrationInv, [Next]_vars
  PROVE  MigrationInv'
<1>1. CASE UNCHANGED vars
  BY <1>1, NothingMigrates DEF vars, process
<1>2. CASE Next
  <2>1. PICK r \in Replica :
          \/ Open(r) \/ Close(r) \/ Signal(r) \/ ListenerFails(r)
          \/ CallFails(r) \/ Die(r)
          \/ \E h \in Handlers : Serve(r, h) \/ Respond(r, h)
          \/ \E w \in Workers : Claim(r, w) \/ Finish(r, w) \/ Leave(r, w)
    BY <1>2 DEF Next
  <2>2. CASE Exit(r) \/ Die(r)
    <3>1. Gone(r) /\ (UNCHANGED data \/ (lock = r /\ EndTransaction))
      BY <2>2 DEF Exit, Die
    <3> QED
      BY <3>1, GoneMigrates
  <2> QED
    BY <2>1, <2>2, OpenMigrates, CloseMigrates, ServingMigrates, CallFailsMigrates
<1> QED
  BY <1>1, <1>2

LEMMA MigrationInitially ==
  ASSUME Init
  PROVE  MigrationInv
<1>1. GivenOK
  BY SettingsAreGiven DEF GivenOK
<1>2. db = legacy /\ uncommitted = legacy
  BY DEF Init
<1>3. Kin(legacy, db) /\ Kin(legacy, uncommitted)
  BY <1>2, SettingsAreGiven, OlderIsKin
<1>4. None \in Reasons \ Refusals
  BY DEF Reasons, Refusals, None
<1>5. /\ at \in [Replica -> Nat] /\ why \in [Replica -> Reasons]
      /\ \A r \in Replica : pc[r] = "down" /\ at[r] = 1 /\ deferred[r] = <<>> /\ why[r] = None
  BY <1>4 DEF Init
<1>6. ASSUME NEW r \in Replica PROVE MigrationOK(r)
  <2>1. Reached("down", 1)
    BY ServingStages DEF Reached
  <2> QED
    BY <1>4, <1>5, <2>1, NothingDeferred DEF MigrationOK
<1> QED
  BY <1>1, <1>3, <1>5, <1>6 DEF MigrationInv

\* Whatever the replicas, their deaths and their failing calls: no statement
\* of the schema is refused, a process holds the lock of the migration while
\* it migrates, and what it did not commit harms no row.
THEOREM MigrationsInOrder == Spec => []MigrationInv
<1> QED
  BY ProcessesInOrder, ProcessInitially, ProcessStep, MigrationInitially, MigrationStep, PTL
     DEF Spec

\* config.Load and the constructors agree: what it admits they accept, but
\* for the settings of LeftToConstructors, which only they look at.
THEOREM LoadedIsAccepted == Spec => []AcceptedStarts
<1>1. MigrationInv => AcceptedStarts
  BY DEF MigrationInv, MigrationOK, AcceptedStarts, Refusals
<1> QED
  BY <1>1, MigrationsInOrder, PTL

LEMMA MigratedRows ==
  ASSUME MigrationInv
  PROVE  RowsSurvive
<1> SUFFICES ASSUME NEW r \in Replica, "database" \in ToSet(deferred[r])
             PROVE  /\ DOMAIN db.memories = DOMAIN legacy.memories
                    /\ DOMAIN db.documents = DOMAIN legacy.documents
                    /\ VersionsDistinct(db)
                    /\ \A m \in DOMAIN db.memories : m \in Users(legacy) => db.memories[m].edited
                    /\ Postgres => /\ SlotsDistinct(db)
                                   /\ \A m \in DOMAIN legacy.memories :
                                        m \in Users(legacy) /\ legacy.memories[m].slot # "" =>
                                          \E n \in DOMAIN db.memories :
                                            /\ db.memories[n].slot = legacy.memories[m].slot
                                            /\ n \in Users(legacy)
  <2>1. \A m \in DOMAIN legacy.memories :
          m \in Users(legacy) <=> legacy.memories[m].edited \/ legacy.memories[m].manual
    BY DEF Users
  <2>2. DOMAIN db.memories = DOMAIN legacy.memories
    BY DEF MigrationInv, Kin, RowsOK
  <2> QED
    BY <2>1, <2>2 DEF RowsSurvive
<1>1. Migrated(db) /\ Kin(legacy, db)
  BY DEF MigrationInv, MigrationOK
<1>2. /\ DOMAIN db.memories = DOMAIN legacy.memories
      /\ DOMAIN db.documents = DOMAIN legacy.documents
  BY <1>1 DEF Kin, RowsOK
<1>3. VersionsDistinct(db) /\ \A m \in Users(legacy) : db.memories[m].edited
  BY <1>1 DEF Migrated, Grouped, Protected
<1>4. Postgres => SlotsDistinct(db)
  BY <1>1 DEF Migrated
<1>5. \A m \in Users(legacy) : legacy.memories[m].slot # "" =>
        \E n \in Users(legacy) : db.memories[n].slot = legacy.memories[m].slot
  BY <1>1 DEF Kin, MemoriesOK
<1>6. Users(legacy) \subseteq DOMAIN db.memories
  BY <1>2 DEF Users
<1> QED
  BY <1>2, <1>3, <1>4, <1>5, <1>6

\* What a migration leaves: every row of the older database, one document
\* for each version, and the user's memories in the slots that they held.
THEOREM MigrationKeepsRows == Spec => []RowsSurvive
<1> QED
  BY MigrationsInOrder, MigratedRows, PTL
=============================================================================
