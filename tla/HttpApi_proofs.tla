--------------------------- MODULE HttpApi_proofs ---------------------------
(***************************************************************************)
(* Proofs about the two sides of the HTTP API, its gateway and the page it *)
(* serves: for any number of tabs, logins and requests, any rate and       *)
(* burst, any interleaving of replicas, clocks and faults; and for any     *)
(* number of conversations, invocations and messages of a page.            *)
(***************************************************************************)
EXTENDS Gateway, WebClient, FiniteSetTheorems, TLAPS

Stations == {"idle", "callback", "exchange", "authenticate", "refresh", "limit", "handle"}
            \cup Resources

Request == [at : Stations, kind : Kinds, session : Nat, login : Nat, size : Nat,
            trusted : BOOLEAN, charged : [Resources -> Nat]]

Tab == [token : BOOLEAN, request : Request]

Pages == tab \in [Tabs -> Tab]

Counters ==
    /\ clock \in Nat /\ passed \in Nat /\ logins \in Nat
    /\ bucket \in [tokens : 0..Burst * Unit, updated : 0..clock]
    /\ used \in [Resources -> Nat] /\ admitted \in [Resources -> Nat]

Records ==
    /\ issued \in Seq(Nat) /\ Len(issued) <= MaxSessions
    /\ sessions \subseteq 1..Len(issued)
    /\ ended \subseteq 0..Len(issued) /\ deleted \subseteq ended
    /\ states \subseteq 1..logins /\ logins <= MaxLogins
    /\ sessionCookie \in 0..Len(issued) /\ stateCookie \in 0..logins
    /\ csrfCookie \in Tabs \cup {None}
    /\ \A t \in Tabs : tab[t].request.session \in 0..Len(issued)

(* What is left in the bucket and what was let through were there from the *)
(* start or given by the time of the last request.                         *)
Afforded ==
    (bucket.tokens + passed * Unit) * (ForgetAfter + 1)
        <= Burst * Unit * (ForgetAfter + 1) + bucket.updated * Sustained

Exchanging(t) == At(t, "exchange")

(* A login is begun, taken by one callback, or has its session: each at    *)
(* most once, and never two of them.                                       *)
LoginsAreTaken ==
    /\ \A i \in 1..Len(issued) : issued[i] \in 1..logins /\ issued[i] \notin states
    /\ \A t \in Tabs : Exchanging(t) =>
          /\ tab[t].request.login \in 1..logins
          /\ tab[t].request.login \notin states
          /\ \A i \in 1..Len(issued) : issued[i] # tab[t].request.login
    /\ \A t, u \in Tabs :
          Exchanging(t) /\ Exchanging(u) /\ tab[t].request.login = tab[u].request.login
              => t = u
    /\ \A i, j \in 1..Len(issued) : issued[i] = issued[j] => i = j

(***************************************************************************)
(* The inductive invariant.  LoggedOutStaysOut needs that the next session *)
(* was never logged out, OneSessionPerLogin what becomes of a login        *)
(* between its start and its session, and RateKept the tokens that are     *)
(* left.                                                                   *)
(***************************************************************************)
IInv ==
    /\ Pages /\ Counters /\ Records
    /\ LoggedOutStaysOut
    /\ LoginsAreTaken
    /\ Afforded

USE GatewayAssumption

------------------------------------------------------------------------------
(* What a step does to the tabs.                                           *)

\* Nobody gets to the exchange of a login who was not there.
NobodyEnters ==
    \A u \in Tabs : Exchanging(u)' =>
        Exchanging(u) /\ tab'[u].request.login = tab[u].request.login

\* No request is given another session.
SessionsStay ==
    \A u \in Tabs : tab'[u].request.session \in {0, tab[u].request.session}

LEMMA NoRequestTyped == NoRequest \in Request
BY DEF NoRequest, Request, Stations, Kinds, Resources

LEMMA RefuseMoves ==
    ASSUME Pages, NEW t \in Tabs, Refuse(t)
    PROVE  Pages' /\ NobodyEnters /\ SessionsStay
<1>1. \A u \in Tabs : tab'[u] = IF u = t THEN [tab[t] EXCEPT !.request = NoRequest] ELSE tab[u]
  BY DEF Refuse, Pages
<1>2. [tab[t] EXCEPT !.request = NoRequest] \in Tab
  BY NoRequestTyped DEF Pages, Tab
<1>3. Pages'
  BY <1>2 DEF Refuse, Pages
<1>4. [tab[t] EXCEPT !.request = NoRequest].request = NoRequest
  BY DEF Pages, Tab
<1>5. NoRequest.at = "idle" /\ NoRequest.session = 0
  BY DEF NoRequest
<1>6. tab'[t].request = NoRequest /\ \A u \in Tabs \ {t} : tab'[u] = tab[u]
  BY <1>1, <1>4
<1> QED
  BY <1>3, <1>5, <1>6 DEF NobodyEnters, SessionsStay, Exchanging, At

LEMMA GotoMoves ==
    ASSUME Pages, NEW t \in Tabs, NEW s \in Stations, Goto(t, s)
    PROVE  /\ Pages' /\ SessionsStay
           /\ s # "exchange" => NobodyEnters
           /\ \A u \in Tabs \ {t} : tab'[u] = tab[u]
           /\ tab'[t].request.login = tab[t].request.login
<1> DEFINE r == [tab[t].request EXCEPT !.at = s]
<1>1. tab' = [tab EXCEPT ![t] = [tab[t] EXCEPT !.request = r]]
  BY DEF Goto
<1>2. tab[t] \in Tab /\ tab[t].request \in Request
  BY DEF Pages, Tab
<1>3. r \in Request /\ r.at = s /\ r.session = tab[t].request.session
      /\ r.login = tab[t].request.login
  BY <1>2 DEF Request
<1> HIDE DEF r
<1>4. [tab[t] EXCEPT !.request = r] \in Tab /\ [tab[t] EXCEPT !.request = r].request = r
  BY <1>2, <1>3 DEF Tab
<1>5. Pages' /\ tab'[t].request = r /\ \A u \in Tabs \ {t} : tab'[u] = tab[u]
  BY <1>1, <1>4 DEF Pages
<1> QED
  BY <1>3, <1>5 DEF NobodyEnters, SessionsStay, Exchanging, At

------------------------------------------------------------------------------
(* Steps that leave logins and sessions alone, but for the session that a  *)
(* new request is sent with.                                               *)
Drifts ==
    /\ Pages' /\ NobodyEnters
    /\ \A u \in Tabs :
          tab'[u].request.session \in {0, tab[u].request.session, sessionCookie}

LEMMA UnmovedDrifts ==
    ASSUME Pages, UNCHANGED tab
    PROVE  Drifts
BY DEF Drifts, Pages, NobodyEnters, Exchanging, At

LEMMA RefuseDrifts ==
    ASSUME Pages, NEW t \in Tabs, Refuse(t)
    PROVE  Drifts
BY RefuseMoves DEF Drifts, SessionsStay

LEMMA GotoDrifts ==
    ASSUME Pages, NEW t \in Tabs, NEW s \in Stations \ {"exchange"}, Goto(t, s)
    PROVE  Drifts
BY GotoMoves DEF Drifts, SessionsStay

\* A tab is given a request that is not at the exchange, or another token.
LEMMA ReplacedDrifts ==
    ASSUME Pages, NEW t \in Tabs, NEW new \in Tab, tab' = [tab EXCEPT ![t] = new],
           new.request.at # "exchange",
           new.request.session \in {0, tab[t].request.session, sessionCookie}
    PROVE  Drifts
<1>1. Pages' /\ tab'[t] = new /\ \A u \in Tabs \ {t} : tab'[u] = tab[u]
  BY DEF Pages
<1> QED
  BY <1>1 DEF Drifts, NobodyEnters, Exchanging, At

Calls(t) ==
    \/ Callback(t) \/ LoginFails(t) \/ IssueCSRFToken(t) \/ Reload(t)
    \/ \E kind \in Kinds \ {"upload"} : Send(t, kind, 0)
    \/ \E size \in UploadSizes : Send(t, "upload", size)
    \/ Authenticate(t) \/ Refresh(t) \/ Allow(t)
    \/ ConsumeQuotas(t) \/ Handle(t) \/ Unavailable(t)

LEMMA SendDrifts ==
    ASSUME Pages, sessionCookie \in Nat, NEW t \in Tabs, NEW kind \in Kinds,
           NEW size \in Nat, Send(t, kind, size)
    PROVE  Drifts
<1> DEFINE r == [NoRequest EXCEPT !.at = "authenticate", !.kind = kind, !.size = size,
                            !.session = sessionCookie, !.trusted = csrfCookie = t]
<1>1. r \in Request /\ r.at = "authenticate" /\ r.session = sessionCookie
  BY DEF NoRequest, Request, Stations, Kinds, Resources
<1>2. tab' = [tab EXCEPT ![t].request = r]
  BY DEF Send
<1> HIDE DEF r
<1> DEFINE new == [tab[t] EXCEPT !.request = r]
<1>3. new \in Tab /\ new.request = r
  BY <1>1 DEF Pages, Tab
<1>4. tab' = [tab EXCEPT ![t] = new]
  BY <1>2
<1> HIDE DEF new
<1> QED
  BY <1>1, <1>3, <1>4, ReplacedDrifts

LEMMA ConsumeDrifts ==
    ASSUME Pages, NEW t \in Tabs, NEW resource \in Resources, NEW amount \in Nat,
           NEW next \in Stations \ {"exchange"}, Consume(t, resource, amount, next)
    PROVE  Drifts
<1>1. CASE Refuse(t)
  BY <1>1, RefuseDrifts
<1>2. CASE tab' = [tab EXCEPT ![t].request =
                      [@ EXCEPT !.at = next, !.charged[resource] = amount]]
  <2> DEFINE r == [tab[t].request EXCEPT !.at = next, !.charged[resource] = amount]
  <2> DEFINE new == [tab[t] EXCEPT !.request = r]
  <2>1. tab[t] \in Tab /\ tab[t].request \in Request
    BY DEF Pages, Tab
  <2>2. r \in Request /\ r.at = next /\ r.session = tab[t].request.session
    BY <2>1 DEF Request
  <2>3. tab' = [tab EXCEPT ![t] = new]
    BY <1>2, <2>1 DEF Pages, Tab
  <2> HIDE DEF r
  <2>4. new \in Tab /\ new.request = r
    BY <2>1, <2>2 DEF Tab
  <2> HIDE DEF new
  <2> QED
    BY <2>2, <2>3, <2>4, ReplacedDrifts
<1> QED
  BY <1>1, <1>2 DEF Consume

LEMMA CallsDrift ==
    ASSUME Pages, sessionCookie \in Nat, stateCookie \in Nat, NEW t \in Tabs, Calls(t)
    PROVE  Drifts
<1> USE DEF Stations, Resources
<1>1. CASE Callback(t)
  <2> DEFINE r == [tab[t].request EXCEPT !.at = "callback", !.login = stateCookie]
  <2> DEFINE new == [tab[t] EXCEPT !.request = r]
  <2>1. tab[t] \in Tab /\ tab[t].request \in Request
    BY DEF Pages, Tab
  <2>2. r \in Request /\ r.at = "callback" /\ r.session = tab[t].request.session
    BY <2>1 DEF Request
  <2>3. tab' = [tab EXCEPT ![t] = new]
    BY <1>1, <2>1 DEF Callback, Pages, Tab
  <2> HIDE DEF r
  <2>4. new \in Tab /\ new.request = r
    BY <2>1, <2>2 DEF Tab
  <2> HIDE DEF new
  <2> QED
    BY <2>2, <2>3, <2>4, ReplacedDrifts
<1>2. CASE LoginFails(t) \/ Unavailable(t)
  BY <1>2, RefuseDrifts DEF LoginFails, Unavailable
<1>3. CASE IssueCSRFToken(t) \/ Reload(t)
  <2>1. PICK b \in BOOLEAN : tab' = [tab EXCEPT ![t].token = b]
    BY <1>3 DEF IssueCSRFToken, Reload
  <2> DEFINE new == [tab[t] EXCEPT !.token = b]
  <2>2. new \in Tab /\ new.request = tab[t].request
    BY DEF Pages, Tab
  <2>3. tab' = [tab EXCEPT ![t] = new] /\ tab[t].request.at = "idle"
    BY <1>3, <2>1 DEF IssueCSRFToken, Reload, At
  <2> HIDE DEF new
  <2> QED
    BY <2>2, <2>3, ReplacedDrifts
<1>4. CASE \E kind \in Kinds \ {"upload"} : Send(t, kind, 0)
  BY <1>4, SendDrifts
<1>5. CASE \E size \in UploadSizes : Send(t, "upload", size)
  <2>1. PICK size \in UploadSizes : Send(t, "upload", size)
    BY <1>5
  <2>2. size \in Nat /\ "upload" \in Kinds
    BY DEF Kinds
  <2> QED
    BY <2>1, <2>2, SendDrifts
<1>6. CASE Authenticate(t) \/ Refresh(t)
  BY <1>6, RefuseDrifts, GotoDrifts DEF Authenticate, Refresh
<1>7. CASE Allow(t)
  BY <1>7, RefuseDrifts, GotoDrifts DEF Allow, CheckCSRF
<1>8. CASE ConsumeQuotas(t)
  <2> DEFINE kind == tab[t].request.kind
             size == tab[t].request.size
             charge == IF size = 0 THEN MaxUpload ELSE size
             next == CASE kind = "chat"   -> "chat_runs"
                       [] kind = "upload" -> "knowledge_upload_bytes"
                       [] OTHER           -> "handle"
  <2>1. size \in Nat /\ kind \in Kinds
    BY DEF Pages, Tab, Request
  <2>2. charge \in Nat /\ next \in Stations \ {"exchange"}
    BY <2>1 DEF Kinds
  <2>3. \/ Consume(t, "requests", 1, next) \/ Consume(t, "chat_runs", 1, "handle")
        \/ Consume(t, "knowledge_upload_bytes", charge, "handle")
    BY <1>8 DEF ConsumeQuotas
  <2> HIDE DEF kind, size, charge, next
  <2> QED
    BY <2>2, <2>3, ConsumeDrifts
<1>9. CASE Handle(t)
  <2>1. CASE Refuse(t)
    BY <2>1, RefuseDrifts
  <2>2. CASE tab' = [tab EXCEPT ![t] = [token |-> FALSE, request |-> NoRequest]]
    <3>1. NoRequest \in Request /\ NoRequest.at = "idle" /\ NoRequest.session = 0
      BY NoRequestTyped DEF NoRequest
    <3> DEFINE new == [token |-> FALSE, request |-> NoRequest]
    <3>2. new \in Tab /\ new.request = NoRequest
      BY <3>1 DEF Tab
    <3> HIDE DEF new
    <3> QED
      BY <2>2, <3>1, <3>2, ReplacedDrifts DEF new
  <2> QED
    BY <1>9, <2>1, <2>2 DEF Handle, Logout
<1> QED
  BY <1>1, <1>2, <1>3, <1>4, <1>5, <1>6, <1>7, <1>8, <1>9 DEF Calls

LEMMA MidnightDrifts ==
    ASSUME Pages, Midnight
    PROVE  Drifts
<1> DEFINE blank == [r \in Resources |-> 0]
<1>1. blank \in [Resources -> Nat]
  OBVIOUS
<1> HIDE DEF blank
<1>2. tab' = [t \in Tabs |-> [tab[t] EXCEPT !.request.charged = blank]]
  BY DEF Midnight, blank
<1>3. ASSUME NEW u \in Tabs
      PROVE  /\ tab'[u] \in Tab
             /\ tab'[u].request.at = tab[u].request.at
             /\ tab'[u].request.login = tab[u].request.login
             /\ tab'[u].request.session = tab[u].request.session
  <2> DEFINE r == [tab[u].request EXCEPT !.charged = blank]
  <2>1. tab[u] \in Tab /\ tab[u].request \in Request
    BY DEF Pages, Tab
  <2>2. r \in Request /\ r.at = tab[u].request.at /\ r.login = tab[u].request.login
        /\ r.session = tab[u].request.session
    BY <1>1, <2>1 DEF Request
  <2>3. tab'[u] = [tab[u] EXCEPT !.request = r]
    BY <1>2
  <2> HIDE DEF r
  <2>4. tab'[u] \in Tab /\ tab'[u].request = r
    BY <2>1, <2>2, <2>3 DEF Tab
  <2> QED
    BY <2>2, <2>4
<1>4. Pages'
  BY <1>2, <1>3 DEF Pages
<1> QED
  BY <1>3, <1>4 DEF Drifts, NobodyEnters, Exchanging, At

------------------------------------------------------------------------------
(* The bucket.                                                             *)

(* Filling up gives no more than there was and what the time since brings. *)
LEMMA RefilledBounds ==
    ASSUME Counters
    PROVE  /\ Refilled \in 0..Burst * Unit
           /\ Refilled <= bucket.tokens + (clock - bucket.updated) * Rate
<1> DEFINE full == Burst * Unit
           more == bucket.tokens + (clock - bucket.updated) * Rate
<1>1. full \in Nat /\ more \in Nat
  <2>1. clock - bucket.updated \in Nat /\ bucket.tokens \in Nat
    BY DEF Counters
  <2>2. (clock - bucket.updated) * Rate \in Nat
    BY <2>1
  <2> QED
    BY <2>1, <2>2
<1>2. Refilled = Min({full, more})
  BY DEF Refilled
<1> HIDE DEF full, more
<1>3. Min({full, more}) \in {full, more}
      /\ \A x \in {full, more} : Min({full, more}) <= x
  <2>1. \E x \in {full, more} : \A y \in {full, more} : x <= y
    BY <1>1
  <2> QED
    BY <2>1 DEF Min
<1> QED
  BY <1>1, <1>2, <1>3 DEF full, more

LEMMA SustainedBounds ==
    /\ Sustained \in Nat
    /\ (ForgetAfter + 1) * Rate <= Sustained
    /\ Burst * Unit <= Sustained
<1> DEFINE full == Burst * Unit
           flow == (ForgetAfter + 1) * Rate
<1>1. full \in Nat /\ flow \in Nat
  OBVIOUS
<1>2. Sustained = Max({flow, full})
  BY DEF Sustained
<1> HIDE DEF full, flow
<1>3. Max({flow, full}) \in {flow, full}
      /\ \A x \in {flow, full} : Max({flow, full}) >= x
  <2>1. \E x \in {flow, full} : \A y \in {flow, full} : x >= y
    BY <1>1
  <2> QED
    BY <2>1 DEF Max
<1> QED
  BY <1>1, <1>2, <1>3 DEF full, flow

(* A bucket that gained no more than is given in the time since its last   *)
(* use is paid for.                                                        *)
LEMMA Paying ==
    ASSUME Counters, Afforded, NEW more \in Nat,
           more * (ForgetAfter + 1) <= bucket.tokens * (ForgetAfter + 1)
                                       + (clock - bucket.updated) * Sustained
    PROVE  (more + passed * Unit) * (ForgetAfter + 1)
               <= Burst * Unit * (ForgetAfter + 1) + clock * Sustained
<1> DEFINE w == ForgetAfter + 1
           k == passed * Unit
<1>1. clock \in Nat /\ bucket.updated \in 0..clock /\ bucket.tokens \in Nat /\ k \in Nat
      /\ w \in Nat /\ Sustained \in Nat
  BY SustainedBounds DEF Counters
<1>2. (bucket.tokens + k) * w <= Burst * Unit * w + bucket.updated * Sustained
  BY DEF Afforded
<1>3. more * w <= bucket.tokens * w + (clock - bucket.updated) * Sustained
  OBVIOUS
<1> HIDE DEF w, k
<1>4. (bucket.tokens + k) * w = bucket.tokens * w + k * w /\ (more + k) * w = more * w + k * w
  BY <1>1
<1>5. (clock - bucket.updated) * Sustained = clock * Sustained - bucket.updated * Sustained
  BY <1>1
<1>6. /\ bucket.tokens * w \in Nat /\ k * w \in Nat /\ more * w \in Nat
      /\ clock * Sustained \in Nat /\ bucket.updated * Sustained \in Nat
      /\ Burst * Unit * w \in Nat
  BY <1>1
<1>7. (more + k) * w <= Burst * Unit * w + clock * Sustained
  BY <1>2, <1>3, <1>4, <1>5, <1>6
<1> QED
  BY <1>7 DEF w, k

LEMMA Allowing ==
    ASSUME Counters, Afforded, NEW t \in Tabs, Allow(t)
    PROVE  Afforded' /\ bucket' \in [tokens : 0..Burst * Unit, updated : 0..clock]
           /\ passed' \in Nat
<1> DEFINE refilled == Refilled
           e == clock - bucket.updated
           w == ForgetAfter + 1
<1>1. clock \in Nat /\ e \in Nat /\ bucket.tokens \in Nat /\ passed \in Nat
      /\ w \in Nat /\ Sustained \in Nat
  BY SustainedBounds DEF Counters
<1>2. refilled \in 0..Burst * Unit /\ refilled <= bucket.tokens + e * Rate
  BY RefilledBounds
<1>3. \/ /\ refilled >= Unit /\ passed' = passed + 1
         /\ bucket' = [tokens |-> refilled - Unit, updated |-> clock]
      \/ passed' = passed /\ bucket' = [tokens |-> refilled, updated |-> clock]
  BY DEF Allow, Refill
<1>4. w * Rate <= Sustained
  BY SustainedBounds
<1> HIDE DEF refilled, e, w
<1>5. refilled * w <= bucket.tokens * w + e * Sustained
  <2>1. refilled \in Nat /\ e * Rate \in Nat
    BY <1>1, <1>2
  <2>2. refilled * w <= (bucket.tokens + e * Rate) * w
    BY <1>1, <1>2, <2>1
  <2>3. (bucket.tokens + e * Rate) * w = bucket.tokens * w + e * (w * Rate)
    BY <1>1
  <2>4. e * (w * Rate) <= e * Sustained
    BY <1>1, <1>4
  <2>5. /\ refilled * w \in Nat /\ bucket.tokens * w \in Nat /\ e * Sustained \in Nat
        /\ e * (w * Rate) \in Nat
    BY <1>1, <2>1
  <2> QED
    BY <2>2, <2>3, <2>4, <2>5
<1>6. (refilled + passed * Unit) * w <= Burst * Unit * w + clock * Sustained
  <2>1. refilled \in Nat
    BY <1>2
  <2> QED
    BY <1>5, <2>1, Paying DEF e, w
<1>7. CASE /\ refilled >= Unit /\ passed' = passed + 1
           /\ bucket' = [tokens |-> refilled - Unit, updated |-> clock]
  <2>1. bucket'.tokens = refilled - Unit /\ bucket'.updated = clock
    BY <1>7
  <2>2. passed' * Unit = passed * Unit + Unit /\ passed * Unit \in Nat
    BY <1>1, <1>7
  <2>3. bucket'.tokens + passed' * Unit = refilled + passed * Unit
    BY <1>2, <2>1, <2>2
  <2>4. Afforded'
    BY <1>6, <2>1, <2>3 DEF Afforded, w, Sustained
  <2> QED
    BY <1>1, <1>2, <1>7, <2>4
<1>8. CASE passed' = passed /\ bucket' = [tokens |-> refilled, updated |-> clock]
  <2>1. Afforded'
    BY <1>6, <1>8 DEF Afforded, w, Sustained
  <2> QED
    BY <1>1, <1>2, <1>8, <2>1
<1> QED
  BY <1>3, <1>7, <1>8

(* A bucket is not dropped before as much could be given as it holds.      *)
LEMMA Forgetting ==
    ASSUME Counters, Afforded, Forget
    PROVE  Afforded' /\ bucket' \in [tokens : 0..Burst * Unit, updated : 0..clock]
<1> DEFINE full == Burst * Unit
           e == clock - bucket.updated
           w == ForgetAfter + 1
<1>1. clock \in Nat /\ e \in Nat /\ bucket.tokens \in Nat /\ full \in Nat
      /\ w \in Nat /\ Sustained \in Nat /\ full <= Sustained
  BY SustainedBounds DEF Counters
<1>2. bucket' = [tokens |-> full, updated |-> clock] /\ passed' = passed
  BY DEF Forget
<1>3. w <= e
  BY DEF Forget, Counters
<1> HIDE DEF full, e, w
<1>4. full * w <= bucket.tokens * w + e * Sustained
  <2>1. full * w <= Sustained * w
    BY <1>1
  <2>2. Sustained * w <= e * Sustained
    BY <1>1, <1>3
  <2>3. /\ full * w \in Nat /\ Sustained * w \in Nat /\ e * Sustained \in Nat
        /\ bucket.tokens * w \in Nat
    BY <1>1
  <2> QED
    BY <2>1, <2>2, <2>3
<1>5. (full + passed * Unit) * w <= Burst * Unit * w + clock * Sustained
  BY <1>1, <1>4, Paying DEF e, w
<1>6. Afforded'
  BY <1>2, <1>5 DEF Afforded, w, Sustained
<1>7. full \in 0..full /\ clock \in 0..clock
  BY <1>1
<1> QED
  BY <1>2, <1>6, <1>7 DEF full

LEMMA AffordedKeeps ==
    ASSUME Counters, Afforded
    PROVE  RateKept
<1> DEFINE w == ForgetAfter + 1
           k == passed * Unit
<1>1. clock \in Nat /\ bucket.updated \in 0..clock /\ bucket.tokens \in Nat /\ k \in Nat
      /\ w \in Nat /\ Sustained \in Nat
  BY SustainedBounds DEF Counters
<1>2. (bucket.tokens + k) * w <= Burst * Unit * w + bucket.updated * Sustained
  BY DEF Afforded
<1> HIDE DEF w, k
<1>3. k * w <= (bucket.tokens + k) * w
  BY <1>1
<1>4. bucket.updated * Sustained <= clock * Sustained
  BY <1>1
<1>5. /\ k * w \in Nat /\ (bucket.tokens + k) * w \in Nat /\ Burst * Unit * w \in Nat
      /\ bucket.updated * Sustained \in Nat /\ clock * Sustained \in Nat
  BY <1>1
<1>6. k * w <= Burst * Unit * w + clock * Sustained
  BY <1>2, <1>3, <1>4, <1>5
<1> QED
  BY <1>6 DEF RateKept, w, k

(* Where a bucket is full by the time it may be dropped nothing is given   *)
(* away with it.                                                           *)
LEMMA FullWhenDropped ==
    ASSUME Counters, RateKept, ForgetAfter * Rate >= Burst * Unit
    PROVE  BurstAndRefill
<1> DEFINE w == ForgetAfter + 1
           k == passed * Unit
           full == Burst * Unit
<1>1. clock \in Nat /\ k \in Nat /\ w \in Nat /\ w > 0 /\ full \in Nat
  BY DEF Counters
<1>2. Sustained = w * Rate
  <2> DEFINE flow == w * Rate
  <2>1. flow \in Nat /\ full <= flow
    <3>1. flow = ForgetAfter * Rate + Rate /\ ForgetAfter * Rate \in Nat
      OBVIOUS
    <3> QED
      BY <1>1, <3>1
  <2>2. Sustained = Max({flow, full})
    BY DEF Sustained
  <2>3. Sustained \in Nat /\ flow <= Sustained
    BY SustainedBounds
  <2> HIDE DEF flow, full
  <2>4. Max({flow, full}) \in {flow, full}
    <3>1. \E x \in {flow, full} : \A y \in {flow, full} : x >= y
      BY <1>1, <2>1
    <3> QED
      BY <3>1 DEF Max
  <2> QED
    BY <1>1, <2>1, <2>2, <2>3, <2>4 DEF flow
<1>3. k * w <= full * w + clock * Sustained
  BY DEF RateKept
<1> HIDE DEF w, k, full
<1>4. clock * Sustained = clock * Rate * w
  BY <1>1, <1>2
<1>5. k * w <= (full + clock * Rate) * w
  <2>1. clock * Rate \in Nat
    BY <1>1
  <2>2. (full + clock * Rate) * w = full * w + clock * Rate * w
    BY <1>1, <2>1
  <2> QED
    BY <1>3, <1>4, <2>2
<1>6. k <= full + clock * Rate
  <2> DEFINE m == full + clock * Rate
  <2>1. m \in Nat
    BY <1>1
  <2>2. k * w <= m * w
    BY <1>5
  <2> HIDE DEF m
  <2>3. ~ (k > m)
    <3> SUFFICES ASSUME k > m PROVE FALSE
      OBVIOUS
    <3>1. (m + 1) * w <= k * w
      BY <1>1, <2>1
    <3>2. (m + 1) * w = m * w + w /\ m * w \in Nat /\ k * w \in Nat
      BY <1>1, <2>1
    <3> QED
      BY <1>1, <2>2, <3>1, <3>2
  <2> QED
    BY <1>1, <2>1, <2>3 DEF m
<1> QED
  BY <1>6 DEF BurstAndRefill, k, full

------------------------------------------------------------------------------
(* The counters.                                                           *)

HIDE GatewayAssumption

LEMMA Consuming ==
    ASSUME Counters, NEW t \in Tabs, NEW resource \in Resources, NEW amount \in Nat,
           NEW next, Consume(t, resource, amount, next)
    PROVE  used' \in [Resources -> Nat]
BY DEF Consume, Counters

LEMMA ConsumeAmounts ==
    ASSUME Pages, NEW t \in Tabs, ConsumeQuotas(t)
    PROVE  \E resource \in Resources, amount \in Nat, next \in Stations :
              Consume(t, resource, amount, next)
<1> DEFINE kind == tab[t].request.kind
           size == tab[t].request.size
           charge == IF size = 0 THEN MaxUpload ELSE size
           next == CASE kind = "chat"   -> "chat_runs"
                     [] kind = "upload" -> "knowledge_upload_bytes"
                     [] OTHER           -> "handle"
<1>1. size \in Nat /\ kind \in Kinds
  BY DEF Pages, Tab, Request
<1>2. charge \in Nat /\ next \in Stations
  BY <1>1, GatewayAssumption DEF Kinds, Stations, Resources
<1>3. \/ Consume(t, "requests", 1, next) \/ Consume(t, "chat_runs", 1, "handle")
      \/ Consume(t, "knowledge_upload_bytes", charge, "handle")
  BY DEF ConsumeQuotas
<1> HIDE DEF kind, size, charge, next
<1> QED
  BY <1>2, <1>3 DEF Stations, Resources

LEMMA Counting ==
    ASSUME IInv, [Next]_vars
    PROVE  Counters' /\ Afforded'
<1> USE DEF IInv
<1>1. ASSUME UNCHANGED rate, UNCHANGED quota, logins' \in Nat
      PROVE  Counters' /\ Afforded'
  BY <1>1 DEF Counters, Afforded, rate, quota
<1>2. CASE UNCHANGED vars
  BY <1>1, <1>2 DEF vars, login, Counters
<1>3. ASSUME NEW t \in Tabs, Login(t) \/ TakeState(t) \/ PutSession(t)
      PROVE  Counters' /\ Afforded'
  <2>1. UNCHANGED rate /\ UNCHANGED quota /\ logins' \in {logins, logins + 1}
    BY <1>3 DEF Login, TakeState, PutSession, login
  <2>2. logins' \in Nat
    BY <2>1 DEF Counters
  <2> QED
    BY <1>1, <2>1, <2>2
<1>4. ASSUME NEW t \in Tabs, Calls(t)
      PROVE  Counters' /\ Afforded'
  <2>1. CASE Allow(t)
    <3>1. UNCHANGED <<clock, logins, used, admitted>>
      BY <2>1 DEF Allow, login, quota
    <3> QED
      BY <2>1, <3>1, Allowing DEF Counters
  <2>2. CASE ConsumeQuotas(t)
    <3>1. PICK resource \in Resources, amount \in Nat, next \in Stations :
             Consume(t, resource, amount, next)
      BY <2>2, ConsumeAmounts
    <3>2. UNCHANGED <<rate, logins, admitted>>
      BY <3>1 DEF Consume, login
    <3> QED
      BY <3>1, <3>2, Consuming DEF Counters, Afforded, rate
  <2>3. CASE Handle(t)
    <3>1. UNCHANGED <<rate, logins, used>>
      BY <2>3 DEF Handle, login
    <3>2. admitted' \in [Resources -> Nat]
      BY <2>3 DEF Handle, Counters, Pages, Tab, Request
    <3> QED
      BY <3>1, <3>2 DEF Counters, Afforded, rate
  <2>4. CASE ~ (Allow(t) \/ ConsumeQuotas(t) \/ Handle(t))
    BY <1>1, <1>4, <2>4 DEF Calls, Callback, LoginFails, IssueCSRFToken, Reload, Send,
        Authenticate, Refresh, Unavailable, login, Counters
  <2> QED
    BY <2>1, <2>2, <2>3, <2>4
<1>5. CASE (\E l \in states : StateExpires(l)) \/ (\E s \in sessions : SessionExpires(s))
  BY <1>1, <1>5 DEF StateExpires, SessionExpires, login, Counters
<1>6. CASE Tick
  <2>1. clock' = clock + 1 /\ UNCHANGED <<bucket, passed, quota, logins>>
    BY <1>6 DEF Tick, login
  <2> QED
    BY <2>1 DEF Counters, Afforded, quota
<1>7. CASE Forget
  <2>1. UNCHANGED <<clock, passed, quota, logins>>
    BY <1>7 DEF Forget, login
  <2> QED
    BY <1>7, <2>1, Forgetting DEF Counters, quota
<1>8. CASE Midnight
  BY <1>8 DEF Midnight, Counters, Afforded, rate, login
<1> QED
  BY <1>2, <1>3, <1>4, <1>5, <1>6, <1>7, <1>8 DEF Next, Calls

------------------------------------------------------------------------------
(* Logins and sessions.                                                    *)

(* Records are kept where no login and no session is drawn.                *)
LEMMA RecordsStay ==
    ASSUME Records, Counters, UNCHANGED <<issued, logins>>,
           \A t \in Tabs :
               tab'[t].request.session \in {0, tab[t].request.session, sessionCookie},
           states' \subseteq states, sessions' \subseteq sessions,
           ended' \subseteq 0..Len(issued), deleted' \subseteq ended',
           sessionCookie' \in {0, sessionCookie}, stateCookie' \in {0, stateCookie},
           csrfCookie' \in Tabs \cup {None}
    PROVE  Records'
<1> DEFINE n == Len(issued)
<1>1. n \in Nat /\ logins \in Nat
  BY DEF Records, Counters
<1>2. issued' \in Seq(Nat) /\ n <= MaxSessions /\ Len(issued') = n
  BY DEF Records
<1>3. sessions \subseteq 1..n /\ states \subseteq 1..logins /\ logins <= MaxLogins
      /\ sessionCookie \in 0..n /\ stateCookie \in 0..logins
      /\ \A t \in Tabs : tab[t].request.session \in 0..n
  BY DEF Records
<1>4. ended' \subseteq 0..n /\ deleted' \subseteq ended'
  OBVIOUS
<1> HIDE DEF n
<1>5. \A t \in Tabs : tab'[t].request.session \in 0..n
  <2> SUFFICES ASSUME NEW t \in Tabs PROVE tab'[t].request.session \in 0..n
    OBVIOUS
  <2>1. 0 \in 0..n
    BY <1>1
  <2>2. sessionCookie \in 0..n /\ tab[t].request.session \in 0..n
    BY <1>3, Zenon
  <2>3. \/ tab'[t].request.session = 0
        \/ tab'[t].request.session = tab[t].request.session
        \/ tab'[t].request.session = sessionCookie
    BY Zenon
  <2> QED
    BY <2>1, <2>2, <2>3, Zenon
<1>6. sessionCookie' \in 0..n /\ stateCookie' \in 0..logins
  BY <1>1, <1>3
<1>7. sessions' \subseteq 1..n /\ states' \subseteq 1..logins' /\ logins' <= MaxLogins
  BY <1>3
<1>8. stateCookie' \in 0..logins' /\ csrfCookie' \in Tabs \cup {None}
  BY <1>6
<1> QED
  BY <1>2, <1>4, <1>5, <1>6, <1>7, <1>8 DEF Records

(* A step that drifts and draws no login and no session.                   *)
LEMMA DriftingKeeps ==
    ASSUME IInv, Drifts, UNCHANGED <<issued, logins>>, states' \subseteq states,
           sessions' \subseteq sessions,
           ended' \subseteq 0..Len(issued), deleted' \subseteq ended',
           \A s \in deleted' : s \in deleted \/ s \notin sessions',
           sessionCookie' = 0 \/ UNCHANGED <<sessionCookie, ended>>, stateCookie' \in {0, stateCookie},
           csrfCookie' \in Tabs \cup {None}
    PROVE  Records' /\ LoggedOutStaysOut' /\ LoginsAreTaken'
<1> USE DEF IInv
<1>1. Records'
  <2>1. sessionCookie' \in {0, sessionCookie}
    OBVIOUS
  <2> QED
    BY <2>1, RecordsStay DEF Drifts
<1>2. LoggedOutStaysOut'
  BY DEF LoggedOutStaysOut
<1>3. LoginsAreTaken'
  BY DEF LoginsAreTaken, Drifts, NobodyEnters
<1> QED
  BY <1>1, <1>2, <1>3

LEMMA CallsKeep ==
    ASSUME IInv, NEW t \in Tabs, Calls(t)
    PROVE  Pages' /\ Records' /\ LoggedOutStaysOut' /\ LoginsAreTaken'
<1>1. sessionCookie \in Nat /\ stateCookie \in Nat
  BY DEF IInv, Records, Counters
<1>2. Drifts
  BY <1>1, CallsDrift DEF IInv
<1>3. UNCHANGED <<issued, logins, states, stateCookie>>
  BY DEF Calls, Callback, LoginFails, IssueCSRFToken, Reload, Send, Authenticate, Refresh,
      Allow, ConsumeQuotas, Consume, Handle, Unavailable, session, cookies, login
<1>4. csrfCookie' \in Tabs \cup {None}
  BY DEF Calls, Callback, LoginFails, IssueCSRFToken, Reload, Send, Authenticate, Refresh,
      Allow, ConsumeQuotas, Consume, Handle, Unavailable, cookies, IInv, Records
<1>5. CASE Handle(t)
  <2> DEFINE s == tab[t].request.session
  <2>1. s \in 0..Len(issued)
    BY DEF IInv, Records
  <2>2. \/ UNCHANGED <<sessions, ended, deleted, sessionCookie>>
        \/ /\ \/ sessions' = sessions \ {s} /\ deleted' = deleted \cup {s}
              \/ sessions' = sessions /\ deleted' = deleted
           /\ ended' = ended \cup {s} /\ sessionCookie' = 0
    BY <1>5 DEF Handle, Logout, Delete
  <2> HIDE DEF s
  <2>3. ended' \subseteq 0..Len(issued) /\ deleted' \subseteq ended'
        /\ sessions' \subseteq sessions
    BY <2>1, <2>2 DEF IInv, Records
  <2>4. \A x \in deleted' : x \in deleted \/ x \notin sessions'
    BY <2>2
  <2>5. sessionCookie' = 0 \/ UNCHANGED <<sessionCookie, ended>>
    BY <2>2
  <2> QED
    BY <1>2, <1>3, <1>4, <2>3, <2>4, <2>5, DriftingKeeps DEF Drifts
<1>6. CASE ~ Handle(t)
  <2>1. UNCHANGED <<sessions, ended, deleted, sessionCookie>>
    BY <1>6 DEF Calls, Callback, LoginFails, IssueCSRFToken, Reload, Send, Authenticate,
        Refresh, Refreshed, Allow, ConsumeQuotas, Consume, Unavailable, session, cookies
  <2> QED
    BY <1>2, <1>3, <1>4, <2>1, DriftingKeeps DEF Drifts, IInv, Records
<1> QED
  BY <1>5, <1>6

LEMMA LoginKeeps ==
    ASSUME IInv, NEW t \in Tabs, Login(t)
    PROVE  Pages' /\ Records' /\ LoggedOutStaysOut' /\ LoginsAreTaken'
<1> USE DEF IInv
<1>1. /\ logins < MaxLogins /\ logins' = logins + 1 /\ logins \in Nat
      /\ states' = states \cup {logins + 1} /\ stateCookie' = logins + 1
      /\ UNCHANGED <<sessions, ended, deleted, issued, sessionCookie, csrfCookie, tab>>
  BY DEF Login, session, Counters
<1>2. Pages'
  BY <1>1 DEF Pages
<1>3. Records'
  BY <1>1, GatewayAssumption DEF Records
<1>4. LoggedOutStaysOut'
  BY <1>1 DEF LoggedOutStaysOut
<1>5. LoginsAreTaken'
  <2>1. \A i \in 1..Len(issued) : issued[i] \in 1..logins' /\ issued[i] \notin states'
    BY <1>1 DEF LoginsAreTaken
  <2>2. \A u \in Tabs : Exchanging(u)' <=> Exchanging(u)
    BY <1>1 DEF Exchanging, At
  <2>3. \A u \in Tabs : Exchanging(u) =>
           tab[u].request.login \in 1..logins' /\ tab[u].request.login \notin states'
    BY <1>1 DEF LoginsAreTaken
  <2> QED
    BY <1>1, <2>1, <2>2, <2>3 DEF LoginsAreTaken
<1> QED
  BY <1>2, <1>3, <1>4, <1>5

LEMMA TakeStateKeeps ==
    ASSUME IInv, NEW t \in Tabs, TakeState(t)
    PROVE  Pages' /\ Records' /\ LoggedOutStaysOut' /\ LoginsAreTaken'
<1> USE DEF IInv
<1>1. UNCHANGED <<sessions, ended, deleted, issued, sessionCookie, stateCookie, csrfCookie,
                  logins>>
  BY DEF TakeState, session, cookies
<1>2. CASE Refuse(t) /\ UNCHANGED states
  BY <1>1, <1>2, RefuseDrifts, DriftingKeeps DEF Drifts, Records
<1>3. CASE Take(t)
  <2> DEFINE l == tab[t].request.login
  <2>1. l \in states /\ states' = states \ {l} /\ Goto(t, "exchange")
    BY <1>3 DEF Take
  <2>2. /\ Pages' /\ SessionsStay
        /\ \A u \in Tabs \ {t} : tab'[u] = tab[u]
        /\ tab'[t].request.login = l
    BY <2>1, GotoMoves DEF Stations
  <2>3. Records'
    <3>1. states' \subseteq states /\ ended \subseteq 0..Len(issued)
          /\ csrfCookie \in Tabs \cup {None} /\ deleted \subseteq ended
      BY <2>1 DEF Records
    <3> QED
      BY <1>1, <2>2, <3>1, RecordsStay DEF SessionsStay
  <2>4. LoggedOutStaysOut'
    BY <1>1 DEF LoggedOutStaysOut
  <2>5. LoginsAreTaken'
    <3> HIDE DEF l
    <3>1. l \in 1..logins /\ l \notin states'
          /\ \A i \in 1..Len(issued) : issued[i] # l
      BY <2>1 DEF LoginsAreTaken, Records
    <3>2. \A u \in Tabs \ {t} : Exchanging(u)' => Exchanging(u)
                 /\ tab'[u].request.login = tab[u].request.login
                 /\ tab'[u].request.login # l
      <4> SUFFICES ASSUME NEW u \in Tabs \ {t}, Exchanging(u)'
                   PROVE  /\ Exchanging(u) /\ tab'[u].request.login = tab[u].request.login
                          /\ tab'[u].request.login # l
        OBVIOUS
      <4>1. Exchanging(u) /\ tab'[u].request.login = tab[u].request.login
        BY <2>2 DEF Exchanging, At
      <4>2. tab[u].request.login \notin states
        BY <4>1 DEF LoginsAreTaken
      <4> QED
        BY <2>1, <4>1, <4>2
    <3> QED
      BY <1>1, <2>1, <2>2, <3>1, <3>2 DEF LoginsAreTaken
  <2> QED
    BY <2>2, <2>3, <2>4, <2>5
<1> QED
  BY <1>2, <1>3 DEF TakeState

LEMMA PutSessionKeeps ==
    ASSUME IInv, NEW t \in Tabs, PutSession(t)
    PROVE  Pages' /\ Records' /\ LoggedOutStaysOut' /\ LoginsAreTaken'
<1> USE DEF IInv
<1> DEFINE n == Len(issued)
           l == tab[t].request.login
<1>1. n \in Nat /\ l \in Nat /\ n < MaxSessions /\ Exchanging(t)
  BY DEF Records, PutSession, Pages, Tab, Request, Exchanging
<1>2. /\ issued' = Append(issued, l) /\ issued' \in Seq(Nat) /\ Len(issued') = n + 1
      /\ issued'[n + 1] = l /\ \A i \in 1..n : issued'[i] = issued[i]
  BY <1>1 DEF PutSession, Records
<1>3. /\ sessions' = sessions \cup {n + 1} /\ sessionCookie' = n + 1 /\ stateCookie' = 0
      /\ UNCHANGED <<ended, deleted, csrfCookie, states, logins>>
  BY <1>2 DEF PutSession, login
<1>4. Pages' /\ NobodyEnters /\ SessionsStay
  BY RefuseMoves DEF PutSession
<1>5. ~ Exchanging(t)'
  BY DEF PutSession, Refuse, Pages, Tab, Exchanging, At, NoRequest
<1> HIDE DEF n, l
<1>6. Records'
  <2>1. /\ sessions \subseteq 1..n /\ ended \subseteq 0..n /\ deleted \subseteq ended
        /\ states \subseteq 1..logins /\ logins <= MaxLogins /\ logins \in Nat
        /\ csrfCookie \in Tabs \cup {None}
        /\ \A u \in Tabs : tab[u].request.session \in 0..n
    BY DEF Records, Counters, n
  <2>2. MaxSessions \in Nat
    BY GatewayAssumption
  <2>3. n + 1 <= MaxSessions
    BY <1>1, <2>2
  <2>4. sessions' \subseteq 1..(n + 1) /\ ended' \subseteq 0..(n + 1)
    <3>1. 1..n \cup {n + 1} \subseteq 1..(n + 1) /\ 0..n \subseteq 0..(n + 1)
      BY <1>1
    <3>2. sessions' \subseteq 1..n \cup {n + 1} /\ ended' \subseteq 0..n
      BY <1>3, <2>1
    <3> QED
      BY <3>1, <3>2
  <2>5. sessionCookie' \in 0..(n + 1) /\ stateCookie' \in 0..logins
    BY <1>1, <1>3, <2>1
  <2>6. \A u \in Tabs : tab'[u].request.session \in 0..(n + 1)
    BY <1>1, <1>4, <2>1 DEF SessionsStay
  <2> QED
    BY <1>2, <1>3, <2>1, <2>3, <2>4, <2>5, <2>6 DEF Records
<1>7. LoggedOutStaysOut'
  <2>1. ended \subseteq 0..n /\ deleted \subseteq ended
    BY DEF Records, n
  <2>2. n + 1 \notin ended /\ n + 1 \notin deleted
    BY <1>1, <2>1
  <2> QED
    BY <1>3, <2>2 DEF LoggedOutStaysOut
<1>8. LoginsAreTaken'
  <2>1. l \in 1..logins /\ l \notin states /\ \A i \in 1..n : issued[i] # l
    BY <1>1 DEF LoginsAreTaken, l, n
  <2>2. \A u \in Tabs : Exchanging(u)' => Exchanging(u) /\ u # t
            /\ tab'[u].request.login = tab[u].request.login
            /\ tab[u].request.login # l
    BY <1>1, <1>4, <1>5 DEF NobodyEnters, LoginsAreTaken, l
  <2>3. 1..Len(issued') = 1..n \cup {n + 1}
    BY <1>1, <1>2
  <2>4. \A i \in 1..Len(issued') : issued'[i] \in 1..logins' /\ issued'[i] \notin states'
    BY <1>2, <1>3, <2>1, <2>3 DEF LoginsAreTaken, n
  <2>5. \A u \in Tabs : Exchanging(u)' =>
          /\ tab'[u].request.login \in 1..logins'
          /\ tab'[u].request.login \notin states'
          /\ \A i \in 1..Len(issued') : issued'[i] # tab'[u].request.login
    <3> SUFFICES ASSUME NEW u \in Tabs, Exchanging(u)'
                 PROVE  /\ tab'[u].request.login \in 1..logins'
                        /\ tab'[u].request.login \notin states'
                        /\ \A i \in 1..Len(issued') : issued'[i] # tab'[u].request.login
      OBVIOUS
    <3>1. /\ Exchanging(u) /\ tab'[u].request.login = tab[u].request.login
          /\ tab[u].request.login # l
      BY <2>2
    <3>2. /\ tab[u].request.login \in 1..logins /\ tab[u].request.login \notin states
          /\ \A i \in 1..n : issued[i] # tab[u].request.login
      BY <3>1 DEF LoginsAreTaken, n
    <3>3. \A i \in 1..n : issued'[i] # tab'[u].request.login
      BY <1>2, <3>1, <3>2
    <3>4. issued'[n + 1] # tab'[u].request.login
      BY <1>2, <3>1
    <3> QED
      BY <1>3, <2>3, <3>1, <3>2, <3>3, <3>4
  <2>6. \A u, v \in Tabs :
          Exchanging(u)' /\ Exchanging(v)' /\ tab'[u].request.login = tab'[v].request.login
              => u = v
    BY <2>2 DEF LoginsAreTaken
  <2>7. \A i, j \in 1..Len(issued') : issued'[i] = issued'[j] => i = j
    <3>1. \A i, j \in 1..n : issued[i] = issued[j] => i = j
      BY DEF LoginsAreTaken, n
    <3>2. \A i, j \in 1..n : issued'[i] = issued'[j] => i = j
      BY <1>2, <3>1
    <3>3. \A i \in 1..n : issued'[i] # issued'[n + 1]
      BY <1>2, <2>1
    <3>4. \A i, j \in 1..n \cup {n + 1} : issued'[i] = issued'[j] => i = j
      BY <3>2, <3>3
    <3> QED
      BY <2>3, <3>4
  <2> QED
    BY <2>4, <2>5, <2>6, <2>7 DEF LoginsAreTaken
<1> QED
  BY <1>4, <1>6, <1>7, <1>8

LEMMA Recording ==
    ASSUME IInv, [Next]_vars
    PROVE  Pages' /\ Records' /\ LoggedOutStaysOut' /\ LoginsAreTaken'
<1>1. CASE UNCHANGED vars
  <2>1. Drifts
    BY <1>1, UnmovedDrifts DEF vars, IInv
  <2> QED
    BY <1>1, <2>1, DriftingKeeps
       DEF vars, session, cookies, login, Drifts, IInv, Records
<1>2. ASSUME NEW t \in Tabs, Login(t) \/ TakeState(t) \/ PutSession(t) \/ Calls(t)
      PROVE  Pages' /\ Records' /\ LoggedOutStaysOut' /\ LoginsAreTaken'
  BY <1>2, LoginKeeps, TakeStateKeeps, PutSessionKeeps, CallsKeep
<1>3. CASE \/ \E l \in states : StateExpires(l)
           \/ \E s \in sessions : SessionExpires(s)
           \/ Tick \/ Forget
  <2>1. Drifts
    BY <1>3, UnmovedDrifts DEF IInv, StateExpires, SessionExpires, Tick, Forget
  <2>2. /\ UNCHANGED <<issued, logins, ended, deleted, cookies>>
        /\ states' \subseteq states /\ sessions' \subseteq sessions
    BY <1>3 DEF StateExpires, SessionExpires, Tick, Forget, session, login
  <2> QED
    BY <2>1, <2>2, DriftingKeeps DEF Drifts, cookies, IInv, Records
<1>4. CASE Midnight
  <2>1. UNCHANGED <<session, cookies, login>>
    BY <1>4 DEF Midnight
  <2>2. Drifts
    BY <1>4, MidnightDrifts DEF IInv
  <2> QED
    BY <2>1, <2>2, DriftingKeeps DEF session, cookies, login, Drifts, IInv, Records
<1> QED
  BY <1>1, <1>2, <1>3, <1>4 DEF Next, Calls

------------------------------------------------------------------------------
USE GatewayAssumption

LEMMA Initially ==
    ASSUME Init
    PROVE  IInv
<1> USE DEF Init
<1>1. Pages
  <2>1. [token |-> FALSE, request |-> NoRequest] \in Tab
    BY NoRequestTyped DEF Tab
  <2> QED
    BY <2>1 DEF Pages
<1>2. Counters
  BY DEF Counters
<1>3. NoRequest.session = 0 /\ NoRequest.at = "idle"
  BY DEF NoRequest
<1>4. Records
  BY <1>3 DEF Records
<1>5. LoggedOutStaysOut
  BY DEF LoggedOutStaysOut
<1>6. LoginsAreTaken
  BY <1>3 DEF LoginsAreTaken, Exchanging, At
<1>7. Afforded
  <2>1. bucket.tokens = Burst * Unit /\ bucket.updated = 0 /\ passed = 0
    OBVIOUS
  <2>2. Burst * Unit + 0 * Unit = Burst * Unit /\ 0 * Sustained = 0
        /\ Burst * Unit * (ForgetAfter + 1) \in Nat
    BY SustainedBounds
  <2> QED
    BY <2>1, <2>2 DEF Afforded
<1> QED
  BY <1>1, <1>2, <1>4, <1>5, <1>6, <1>7 DEF IInv

(* The inductive invariant of the gateway, under every fault.              *)
THEOREM Invariance == Spec => []IInv
<1>1. IInv /\ [Next]_vars => IInv'
  BY Counting, Recording DEF IInv
<1> QED
  BY Initially, <1>1, PTL DEF Spec

(* Every value has its type.                                               *)
THEOREM Typing == Spec => []TypeOK
<1>1. IInv => TypeOK
  <2> SUFFICES ASSUME IInv PROVE TypeOK
    OBVIOUS
  <2>1. sessions \subseteq DOMAIN issued /\ states \subseteq 1..logins
    BY DEF IInv, Records
  <2>2. sessionCookie \in 0..MaxSessions /\ stateCookie \in 0..MaxLogins
        /\ csrfCookie \in Tabs \cup {None}
    BY DEF IInv, Records, Counters
  <2>3. \A t \in Tabs : tab[t].token \in BOOLEAN
    BY DEF IInv, Pages, Tab
  <2>4. bucket.tokens \in 0..Burst * Unit /\ bucket.updated \in 0..clock
        /\ \A r \in Resources : used[r] \in Nat /\ admitted[r] \in Nat
    BY DEF IInv, Counters
  <2> QED
    BY <2>1, <2>2, <2>3, <2>4 DEF TypeOK
<1> QED
  BY Invariance, <1>1, PTL

(* A session that a logout deleted never exists again, although requests   *)
(* authenticated with it go on to prolong it, and the browser never has a  *)
(* session again that it logged out of, also one whose deletion failed     *)
(* (authn/github.go:129, :262).                                            *)
THEOREM Finality == Spec => []LoggedOutStaysOut
<1>1. IInv => LoggedOutStaysOut
  BY DEF IInv
<1> QED
  BY Invariance, <1>1, PTL

(* A login gives one session however often its callback arrives and in     *)
(* however many tabs (authn/github.go:51-52).                              *)
THEOREM SingleUse == Spec => []OneSessionPerLogin
<1>1. IInv => OneSessionPerLogin
  <2> SUFFICES ASSUME IInv PROVE OneSessionPerLogin
    OBVIOUS
  <2>1. DOMAIN issued = 1..Len(issued)
    BY DEF IInv, Records
  <2>2. \A i, j \in 1..Len(issued) : issued[i] = issued[j] => i = j
    BY DEF IInv, LoginsAreTaken
  <2> QED
    BY <2>1, <2>2 DEF OneSessionPerLogin
<1> QED
  BY Invariance, <1>1, PTL

(* For every rate, burst, resolution of the clock and time after which a   *)
(* bucket is dropped, the limit lets through no more than the burst and    *)
(* what is refilled, or one more burst whenever a bucket can be dropped if *)
(* that is more (security.go:335-365).                                     *)
THEOREM Limiting == Spec => []RateKept
<1>1. IInv => RateKept
  BY AffordedKeeps DEF IInv
<1> QED
  BY Invariance, <1>1, PTL

(* A limiter that keeps a bucket for its filling time lets through no more *)
(* than burst and refills: that of redis_limiter.go, which keeps it twice  *)
(* as long, and that of security.go as long as it fills in ten minutes.    *)
THEOREM Refilling ==
    ASSUME ForgetAfter * Rate >= Burst * Unit
    PROVE  Spec => []BurstAndRefill
<1>1. IInv => BurstAndRefill
  BY AffordedKeeps, FullWhenDropped DEF IInv
<1> QED
  BY Invariance, <1>1, PTL

------------------------------------------------------------------------------
(* The quotas.                                                             *)

HIDE GatewayAssumption

(* What is charged to the requests under way, unit by unit.  Being finite  *)
(* and counted it is a sum over the tabs, of which there may be any number.*)
Charges(r) == {p \in Tabs \X Nat : p[2] \in 1..tab[p[1]].request.charged[r]}

(* What handlers were given and what is still charged to requests under    *)
(* way was taken from the quota.  AdmittedWithinQuota is not inductive     *)
(* without the charges: a request brings its own to the handler.           *)
Accounted ==
    \A r \in Resources : DailyQuota[r] > 0 =>
        /\ IsFiniteSet(Charges(r))
        /\ admitted[r] + Cardinality(Charges(r)) <= used[r]
        /\ used[r] <= DailyQuota[r]

ChargeOf(t, r) == tab[t].request.charged[r]

\* A charge stays what it is or is dropped.
ChargesDrop ==
    \A u \in Tabs, r \in Resources : ChargeOf(u, r)' \in {0, ChargeOf(u, r)}

LEMMA ChargesTyped ==
    ASSUME Pages, NEW t \in Tabs, NEW r \in Resources
    PROVE  ChargeOf(t, r) \in Nat
BY DEF Pages, Tab, Request, ChargeOf

LEMMA NoneCharged ==
    ASSUME NEW r \in Resources
    PROVE  NoRequest.charged[r] = 0
BY DEF NoRequest

\* One tab is given another page; its charges stay or are dropped.
LEMMA ReplacedDrops ==
    ASSUME Pages, NEW t \in Tabs, NEW new, tab' = [tab EXCEPT ![t] = new],
           \/ new.request.charged = tab[t].request.charged
           \/ new.request.charged = NoRequest.charged
    PROVE  ChargesDrop
<1>1. tab'[t] = new /\ \A u \in Tabs \ {t} : tab'[u] = tab[u]
  BY DEF Pages
<1> QED
  BY <1>1, NoneCharged DEF ChargesDrop, ChargeOf

LEMMA RefuseDrops ==
    ASSUME Pages, NEW t \in Tabs, Refuse(t)
    PROVE  ChargesDrop
<1> DEFINE new == [tab[t] EXCEPT !.request = NoRequest]
<1>1. new.request = NoRequest
  BY DEF Pages, Tab
<1>2. tab' = [tab EXCEPT ![t] = new]
  BY DEF Refuse
<1> HIDE DEF new
<1> QED
  BY <1>1, <1>2, ReplacedDrops

LEMMA GotoDrops ==
    ASSUME Pages, NEW t \in Tabs, NEW s, Goto(t, s)
    PROVE  ChargesDrop
<1> DEFINE r == [tab[t].request EXCEPT !.at = s]
<1> DEFINE new == [tab[t] EXCEPT !.request = r]
<1>1. tab[t] \in Tab /\ tab[t].request \in Request
  BY DEF Pages, Tab
<1>2. r.charged = tab[t].request.charged
  BY <1>1 DEF Request
<1>3. tab' = [tab EXCEPT ![t] = new]
  BY DEF Goto
<1> HIDE DEF r
<1>4. new.request = r
  BY <1>1 DEF Tab
<1> HIDE DEF new
<1> QED
  BY <1>2, <1>3, <1>4, ReplacedDrops

LEMMA SendDrops ==
    ASSUME Pages, NEW t \in Tabs, NEW kind, NEW size, Send(t, kind, size)
    PROVE  ChargesDrop
<1> DEFINE r == [NoRequest EXCEPT !.at = "authenticate", !.kind = kind, !.size = size,
                            !.session = sessionCookie, !.trusted = csrfCookie = t]
<1> DEFINE new == [tab[t] EXCEPT !.request = r]
<1>1. r.charged = NoRequest.charged
  BY DEF NoRequest
<1>2. tab' = [tab EXCEPT ![t] = new]
  BY DEF Send
<1> HIDE DEF r
<1>3. new.request = r
  BY DEF Pages, Tab
<1> HIDE DEF new
<1> QED
  BY <1>1, <1>2, <1>3, ReplacedDrops

LEMMA CallbackDrops ==
    ASSUME Pages, NEW t \in Tabs, Callback(t)
    PROVE  ChargesDrop
<1> DEFINE r == [tab[t].request EXCEPT !.at = "callback", !.login = stateCookie]
<1> DEFINE new == [tab[t] EXCEPT !.request = r]
<1>1. tab[t] \in Tab /\ tab[t].request \in Request
  BY DEF Pages, Tab
<1>2. r.charged = tab[t].request.charged
  BY <1>1 DEF Request
<1>3. tab' = [tab EXCEPT ![t] = new]
  BY <1>1 DEF Callback, Pages, Tab
<1> HIDE DEF r
<1>4. new.request = r
  BY <1>1 DEF Tab
<1> HIDE DEF new
<1> QED
  BY <1>2, <1>3, <1>4, ReplacedDrops

LEMMA TokenDrops ==
    ASSUME Pages, NEW t \in Tabs, NEW b, tab' = [tab EXCEPT ![t].token = b]
    PROVE  ChargesDrop
<1> DEFINE new == [tab[t] EXCEPT !.token = b]
<1>1. new.request = tab[t].request
  BY DEF Pages, Tab
<1>2. tab' = [tab EXCEPT ![t] = new]
  OBVIOUS
<1> HIDE DEF new
<1> QED
  BY <1>1, <1>2, ReplacedDrops

\* Steps that neither take from a quota nor reach a handler.
LEMMA OthersDrop ==
    ASSUME Pages, NEW t \in Tabs,
           \/ Login(t) \/ TakeState(t) \/ PutSession(t)
           \/ Calls(t) /\ ~ ConsumeQuotas(t) /\ ~ Handle(t)
    PROVE  ChargesDrop /\ UNCHANGED quota
<1>1. UNCHANGED quota
  BY DEF Login, TakeState, PutSession, Calls, Callback, LoginFails, IssueCSRFToken, Reload,
      Send, Authenticate, Refresh, Allow, Unavailable
<1>2. CASE Login(t)
  BY <1>2 DEF Login, ChargesDrop, ChargeOf
<1>3. CASE TakeState(t) \/ PutSession(t) \/ LoginFails(t) \/ Unavailable(t)
  BY <1>3, RefuseDrops, GotoDrops DEF TakeState, Take, PutSession, LoginFails, Unavailable
<1>4. CASE Callback(t)
  BY <1>1, <1>4, CallbackDrops
<1>5. CASE IssueCSRFToken(t) \/ Reload(t)
  BY <1>5, TokenDrops DEF IssueCSRFToken, Reload
<1>6. CASE \/ \E kind \in Kinds \ {"upload"} : Send(t, kind, 0)
           \/ \E size \in UploadSizes : Send(t, "upload", size)
  BY <1>1, <1>6, SendDrops
<1>7. CASE Authenticate(t) \/ Refresh(t)
  BY <1>7, RefuseDrops, GotoDrops DEF Authenticate, Refresh
<1>8. CASE Allow(t)
  BY <1>8, RefuseDrops, GotoDrops DEF Allow, CheckCSRF
<1> QED
  BY <1>1, <1>2, <1>3, <1>4, <1>5, <1>6, <1>7, <1>8 DEF Calls

LEMMA DroppingKeeps ==
    ASSUME Pages, Counters, Accounted, ChargesDrop, UNCHANGED quota
    PROVE  Accounted'
<1> SUFFICES ASSUME NEW r \in Resources, DailyQuota[r] > 0
             PROVE  /\ IsFiniteSet(Charges(r)')
                    /\ admitted[r] + Cardinality(Charges(r)') <= used[r]
                    /\ used[r] <= DailyQuota[r]
  BY DEF Accounted, quota
<1>1. Charges(r)' \subseteq Charges(r)
  <2> SUFFICES ASSUME NEW u \in Tabs, NEW n \in Nat, n \in 1..ChargeOf(u, r)'
               PROVE  n \in 1..ChargeOf(u, r)
    BY DEF Charges, ChargeOf
  <2>1. ChargeOf(u, r)' = 0 \/ ChargeOf(u, r)' = ChargeOf(u, r)
    BY DEF ChargesDrop
  <2> QED
    BY <2>1
<1>2. IsFiniteSet(Charges(r)) /\ admitted[r] + Cardinality(Charges(r)) <= used[r]
      /\ used[r] <= DailyQuota[r]
  BY DEF Accounted
<1>3. IsFiniteSet(Charges(r)') /\ Cardinality(Charges(r)') <= Cardinality(Charges(r))
      /\ Cardinality(Charges(r)') \in Nat /\ Cardinality(Charges(r)) \in Nat
  BY <1>1, <1>2, FS_Subset, FS_CardinalityType
<1>4. admitted[r] \in Nat /\ used[r] \in Nat
  BY DEF Counters
<1> QED
  BY <1>2, <1>3, <1>4

LEMMA UnitsCounted ==
    ASSUME NEW t, NEW n \in Nat
    PROVE  IsFiniteSet({t} \X (1..n)) /\ Cardinality({t} \X (1..n)) = n
<1>1. IsFiniteSet(1..n) /\ Cardinality(1..n) = n
  BY FS_Interval
<1>2. IsFiniteSet({t}) /\ Cardinality({t}) = 1
  BY FS_Singleton
<1>3. IsFiniteSet({t} \X (1..n)) /\ Cardinality({t} \X (1..n)) = 1 * n
  BY <1>1, <1>2, FS_Product
<1> QED
  BY <1>3

\* What is weighed against the quota is taken from it and charged.
LEMMA ConsumeAccounts ==
    ASSUME Pages, Counters, Accounted, NEW t \in Tabs, NEW resource \in Resources,
           NEW amount \in Nat, NEW next, Consume(t, resource, amount, next)
    PROVE  Accounted'
<1>1. CASE Refuse(t) /\ UNCHANGED used
  BY <1>1, RefuseDrops, DroppingKeeps DEF Consume, quota
<1>2. CASE /\ WithinQuota(resource, amount)
           /\ used' = IF DailyQuota[resource] = 0 THEN used
                      ELSE [used EXCEPT ![resource] = @ + amount]
           /\ tab' = [tab EXCEPT ![t].request =
                         [@ EXCEPT !.at = next, !.charged[resource] = amount]]
  <2> SUFFICES ASSUME NEW r \in Resources, DailyQuota[r] > 0
               PROVE  /\ IsFiniteSet(Charges(r)')
                      /\ admitted[r] + Cardinality(Charges(r)') <= used'[r]
                      /\ used'[r] <= DailyQuota[r]
    BY DEF Accounted, Consume
  <2>1. IsFiniteSet(Charges(r)) /\ admitted[r] + Cardinality(Charges(r)) <= used[r]
        /\ used[r] <= DailyQuota[r]
    BY DEF Accounted
  <2>2. admitted[r] \in Nat /\ used[r] \in Nat /\ Cardinality(Charges(r)) \in Nat
        /\ DailyQuota[r] \in Nat
    BY <2>1, FS_CardinalityType, GatewayAssumption DEF Counters
  <2>3. \A u \in Tabs : ChargeOf(u, r)' =
            IF u = t /\ r = resource THEN amount ELSE ChargeOf(u, r)
    <3> DEFINE new == [tab[t].request EXCEPT !.at = next, !.charged[resource] = amount]
    <3>1. tab[t] \in Tab /\ tab[t].request \in Request
      BY DEF Pages, Tab
    <3>2. new.charged = [tab[t].request.charged EXCEPT ![resource] = amount]
      BY <3>1 DEF Request
    <3>3. new.charged[r] = IF r = resource THEN amount ELSE ChargeOf(t, r)
      BY <3>1, <3>2 DEF Request, ChargeOf
    <3>4. tab' = [tab EXCEPT ![t] = [tab[t] EXCEPT !.request = new]]
      BY <1>2, <3>1 DEF Pages, Tab
    <3> HIDE DEF new
    <3>5. tab'[t].request = new /\ \A u \in Tabs \ {t} : tab'[u] = tab[u]
      BY <3>1, <3>4 DEF Pages, Tab
    <3> QED
      BY <3>3, <3>5 DEF ChargeOf
  <2>4. CASE r # resource
    <3>1. Charges(r)' = Charges(r)
      BY <2>3, <2>4 DEF Charges, ChargeOf
    <3>2. used'[r] = used[r]
      BY <1>2, <2>4 DEF Counters
    <3> QED
      BY <2>1, <3>1, <3>2
  <2>5. CASE r = resource
    <3> DEFINE units == {t} \X (1..amount)
    <3>1. IsFiniteSet(units) /\ Cardinality(units) = amount
      BY UnitsCounted
    <3>2. Charges(r)' \subseteq Charges(r) \cup units
      <4> SUFFICES ASSUME NEW u \in Tabs, NEW n \in Nat, n \in 1..ChargeOf(u, r)'
                   PROVE  <<u, n>> \in Charges(r) \cup units
        BY DEF Charges, ChargeOf
      <4>1. CASE u = t
        BY <2>3, <2>5, <4>1
      <4>2. CASE u # t
        BY <2>3, <4>2 DEF Charges, ChargeOf
      <4> QED
        BY <4>1, <4>2
    <3> HIDE DEF units
    <3>3. IsFiniteSet(Charges(r) \cup units)
          /\ Cardinality(Charges(r) \cup units)
                = Cardinality(Charges(r)) + amount - Cardinality(Charges(r) \cap units)
      BY <2>1, <3>1, FS_Union
    <3>4. Cardinality(Charges(r) \cap units) \in Nat
      BY <2>1, FS_Intersection, FS_CardinalityType
    <3>5. IsFiniteSet(Charges(r)') /\ Cardinality(Charges(r)') \in Nat
          /\ Cardinality(Charges(r)') <= Cardinality(Charges(r) \cup units)
      BY <3>2, <3>3, FS_Subset, FS_CardinalityType
    <3>6. Cardinality(Charges(r)') <= Cardinality(Charges(r)) + amount
      BY <2>2, <3>3, <3>4, <3>5
    <3>7. used'[r] = used[r] + amount
      BY <1>2, <2>2, <2>5 DEF Counters
    <3>8. used[r] + amount <= DailyQuota[r]
      BY <1>2, <2>1, <2>2, <2>5 DEF WithinQuota
    <3> QED
      BY <2>1, <2>2, <3>5, <3>6, <3>7, <3>8
  <2> QED
    BY <2>4, <2>5
<1> QED
  BY <1>1, <1>2 DEF Consume

\* What a handler is given is no longer charged to a request under way.
LEMMA HandleAccounts ==
    ASSUME Pages, Counters, Accounted, NEW t \in Tabs, Handle(t)
    PROVE  Accounted'
<1> SUFFICES ASSUME NEW r \in Resources, DailyQuota[r] > 0
             PROVE  /\ IsFiniteSet(Charges(r)')
                    /\ admitted'[r] + Cardinality(Charges(r)') <= used[r]
                    /\ used[r] <= DailyQuota[r]
  BY DEF Accounted, Handle
<1> DEFINE c == ChargeOf(t, r)
           units == {t} \X (1..c)
<1>1. IsFiniteSet(Charges(r)) /\ admitted[r] + Cardinality(Charges(r)) <= used[r]
      /\ used[r] <= DailyQuota[r]
  BY DEF Accounted
<1>2. c \in Nat
  BY ChargesTyped
<1>3. admitted'[r] = admitted[r] + c
  BY DEF Handle, ChargeOf
<1>4. tab'[t].request = NoRequest /\ \A u \in Tabs \ {t} : tab'[u] = tab[u]
  <2> DEFINE new == [tab[t] EXCEPT !.request = NoRequest]
  <2>1. new.request = NoRequest
    BY DEF Pages, Tab
  <2>2. \/ tab' = [tab EXCEPT ![t] = new]
        \/ tab' = [tab EXCEPT ![t] = [token |-> FALSE, request |-> NoRequest]]
    BY DEF Handle, Logout, Refuse
  <2> HIDE DEF new
  <2> QED
    BY <2>1, <2>2 DEF Pages
<1>5. IsFiniteSet(units) /\ Cardinality(units) = c
  BY <1>2, UnitsCounted
<1>6. units \subseteq Charges(r) /\ Charges(r)' \subseteq Charges(r) \ units
  <2>1. units \subseteq Charges(r)
    BY <1>2 DEF Charges, ChargeOf
  <2>2. ASSUME NEW u \in Tabs, NEW n \in Nat, n \in 1..ChargeOf(u, r)'
        PROVE  u # t /\ n \in 1..ChargeOf(u, r)
    BY <1>4, <2>2, NoneCharged DEF ChargeOf
  <2>3. Charges(r)' \subseteq Charges(r) \ units
    BY <2>2 DEF Charges, ChargeOf
  <2> QED
    BY <2>1, <2>3
<1> HIDE DEF c, units
<1>7. IsFiniteSet(Charges(r) \ units)
      /\ Cardinality(Charges(r) \ units) = Cardinality(Charges(r)) - c
  <2>1. Charges(r) \cap units = units
    BY <1>6
  <2> QED
    BY <1>1, <1>5, <2>1, FS_Difference
<1>8. IsFiniteSet(Charges(r)') /\ Cardinality(Charges(r)') \in Nat
      /\ Cardinality(Charges(r)') <= Cardinality(Charges(r) \ units)
  BY <1>6, <1>7, FS_Subset, FS_CardinalityType
<1>9. Cardinality(Charges(r)) \in Nat /\ admitted[r] \in Nat /\ used[r] \in Nat
  BY <1>1, FS_CardinalityType DEF Counters
<1> QED
  BY <1>1, <1>2, <1>3, <1>7, <1>8, <1>9

LEMMA MidnightAccounts ==
    ASSUME Pages, Midnight
    PROVE  Accounted'
<1> SUFFICES ASSUME NEW r \in Resources, DailyQuota[r] > 0
             PROVE  /\ IsFiniteSet(Charges(r)')
                    /\ admitted'[r] + Cardinality(Charges(r)') <= used'[r]
                    /\ used'[r] <= DailyQuota[r]
  BY DEF Accounted
<1> DEFINE blank == [x \in Resources |-> 0]
<1>1. used'[r] = 0 /\ admitted'[r] = 0 /\ blank[r] = 0
  BY DEF Midnight
<1>2. tab' = [t \in Tabs |-> [tab[t] EXCEPT !.request.charged = blank]]
  BY DEF Midnight
<1> HIDE DEF blank
<1>3. ASSUME NEW u \in Tabs
      PROVE  ChargeOf(u, r)' = 0
  <2> DEFINE q == [tab[u].request EXCEPT !.charged = blank]
  <2>1. tab[u] \in Tab /\ tab[u].request \in Request
    BY DEF Pages, Tab
  <2>2. q.charged = blank
    BY <2>1 DEF Request
  <2>3. tab'[u] = [tab[u] EXCEPT !.request = q]
    BY <1>2
  <2> HIDE DEF q
  <2>4. tab'[u].request = q
    BY <2>1, <2>3 DEF Tab
  <2> QED
    BY <1>1, <2>2, <2>4 DEF ChargeOf
<1>4. Charges(r)' = {}
  BY <1>3 DEF Charges, ChargeOf
<1>5. DailyQuota[r] \in Nat
  BY GatewayAssumption
<1> QED
  BY <1>1, <1>4, <1>5, FS_EmptySet

LEMMA InitiallyAccounted ==
    ASSUME Init
    PROVE  Accounted
<1> SUFFICES ASSUME NEW r \in Resources, DailyQuota[r] > 0
             PROVE  /\ IsFiniteSet(Charges(r))
                    /\ admitted[r] + Cardinality(Charges(r)) <= used[r]
                    /\ used[r] <= DailyQuota[r]
  BY DEF Accounted
<1>1. used[r] = 0 /\ admitted[r] = 0
  BY DEF Init
<1>2. \A u \in Tabs : tab[u].request = NoRequest
  BY DEF Init
<1>3. Charges(r) = {}
  BY <1>2, NoneCharged DEF Charges
<1>4. DailyQuota[r] \in Nat
  BY GatewayAssumption
<1> QED
  BY <1>1, <1>3, <1>4, FS_EmptySet

LEMMA Accounting ==
    ASSUME IInv, Accounted, [Next]_vars
    PROVE  Accounted'
<1>1. Pages /\ Counters
  BY DEF IInv
<1>2. CASE UNCHANGED <<tab, quota>>
  BY <1>1, <1>2, DroppingKeeps DEF ChargesDrop, ChargeOf
<1>3. ASSUME NEW t \in Tabs, Login(t) \/ TakeState(t) \/ PutSession(t) \/ Calls(t)
      PROVE  Accounted'
  <2>1. CASE ConsumeQuotas(t)
    <3>1. PICK resource \in Resources, amount \in Nat, next \in Stations :
             Consume(t, resource, amount, next)
      BY <1>1, <2>1, ConsumeAmounts
    <3> QED
      BY <1>1, <3>1, ConsumeAccounts
  <2>2. CASE Handle(t)
    BY <1>1, <2>2, HandleAccounts
  <2>3. CASE ~ ConsumeQuotas(t) /\ ~ Handle(t)
    BY <1>1, <1>3, <2>3, OthersDrop, DroppingKeeps
  <2> QED
    BY <2>1, <2>2, <2>3
<1>4. CASE Midnight
  BY <1>1, <1>4, MidnightAccounts
<1>5. CASE \/ UNCHANGED vars \/ Tick \/ Forget
           \/ \E l \in states : StateExpires(l)
           \/ \E s \in sessions : SessionExpires(s)
  BY <1>2, <1>5 DEF vars, Tick, Forget, StateExpires, SessionExpires
<1> QED
  BY <1>3, <1>4, <1>5 DEF Next, Calls

(* However replicas interleave the checks of a day's quota, refuse a       *)
(* request after they charged it, or lose Redis or the database, handlers  *)
(* are given no more than was charged and no more is charged than the      *)
(* quota (security.go:205-223).                                            *)
THEOREM Admission == Spec => []AdmittedWithinQuota
<1>1. Init => Accounted
  BY InitiallyAccounted
<1>2. IInv /\ Accounted /\ [Next]_vars => Accounted'
  BY Accounting
<1>3. IInv /\ Accounted => AdmittedWithinQuota
  <2> SUFFICES ASSUME Counters, Accounted, NEW r \in Resources, DailyQuota[r] > 0
               PROVE  admitted[r] <= used[r] /\ used[r] <= DailyQuota[r]
    BY DEF IInv, AdmittedWithinQuota
  <2>1. IsFiniteSet(Charges(r)) /\ admitted[r] + Cardinality(Charges(r)) <= used[r]
        /\ used[r] <= DailyQuota[r]
    BY DEF Accounted
  <2>2. Cardinality(Charges(r)) \in Nat /\ admitted[r] \in Nat /\ used[r] \in Nat
    BY <2>1, FS_CardinalityType DEF Counters
  <2> QED
    BY <2>1, <2>2
<1> QED
  BY Invariance, <1>1, <1>2, <1>3, PTL DEF Spec

-----------------------------------------------------------------------------
(* The page                                                                *)

Shown == Conversation \cup {NoConversation}

Invocation ==
    [pc : {"idle", "create", "load", "delete", "list", "token", "stream"},
     conv : Shown, then : {"return", "send", "rename"} \cup Shown,
     rows : SUBSET Conversation]

\* The values of the page's state that a step reads.
PageTypeOK ==
    /\ exists \subseteq Conversation
    /\ list \subseteq Conversation
    /\ active \in Shown
    /\ busy \in BOOLEAN
    /\ overtaken \in BOOLEAN
    /\ task \in [Task -> Invocation]

\* Until its request is sent a message belongs to the conversation on the
\* screen, or to one that is gone.
TypedIsShown ==
    ~overtaken =>
        \A t \in Task : task[t].pc = "token" => active \in {task[t].conv, NoConversation}

\* The inductive invariant of the page.
PageInv ==
    /\ PageTypeOK
    /\ TurnIsStoppable
    /\ TypedIsShown
    /\ SentWhereTyped

LEMMA IdleIsInvocation == Idle \in Invocation
BY DEF Idle, Invocation, Shown

\* What a call that awaits something else leaves behind.
LEMMA AwaitsMoves ==
    ASSUME PageTypeOK, NEW t \in Task, NEW at \in {"create", "load", "delete", "list", "token"},
           NEW conv \in Shown, NEW then \in {"return", "send", "rename"},
           Awaits(t, at, conv, then)
    PROVE  /\ task' \in [Task -> Invocation]
           /\ task'[t].pc = at /\ task'[t].conv = conv
           /\ \A u \in Task \ {t} : task'[u] = task[u]
<1> DEFINE r == [pc |-> at, conv |-> conv, then |-> then, rows |-> IF at = "list" THEN exists ELSE {}]
<1>1. r \in Invocation
    BY DEF Invocation, PageTypeOK
<1>2. r.pc = at /\ r.conv = conv
    OBVIOUS
<1>3. task \in [Task -> Invocation] /\ task' = [task EXCEPT ![t] = r]
    BY DEF Awaits, PageTypeOK
<1> HIDE DEF r
<1>. QED BY <1>1, <1>2, <1>3

LEMMA ReturnMoves ==
    ASSUME PageTypeOK, NEW t \in Task, Return(t)
    PROVE  /\ task' \in [Task -> Invocation]
           /\ task'[t] = Idle
           /\ \A u \in Task \ {t} : task'[u] = task[u]
<1>1. task \in [Task -> Invocation] /\ task' = [task EXCEPT ![t] = Idle]
    BY DEF Return, PageTypeOK
<1>. QED BY <1>1, IdleIsInvocation

LEMMA IdleIsIdle == Idle.pc = "idle"
BY DEF Idle

-----------------------------------------------------------------------------
\* A turn that begins while no other is under way keeps the invariant; one
\* that begins while the page is busy is recorded in overtaken.
LEMMA BeginTurnKeeps ==
    ASSUME PageInv, NEW t \in Task, NEW id \in Conversation, BeginTurn(t, id),
           overtaken' \in BOOLEAN, overtaken => overtaken',
           ~overtaken' => ~busy /\ id = active,
           exists' \subseteq Conversation, list' \subseteq Conversation, active' = active
    PROVE  PageInv'
<1>1. Awaits(t, "token", id, "return") /\ busy' = TRUE /\ draft' = t /\ controller' = t
    BY DEF BeginTurn
<1>2. /\ task' \in [Task -> Invocation]
      /\ task'[t].pc = "token" /\ task'[t].conv = id
      /\ \A u \in Task \ {t} : task'[u] = task[u]
    BY <1>1, AwaitsMoves DEF PageInv, Shown
<1>3. PageTypeOK'
    BY <1>1, <1>2 DEF PageInv, PageTypeOK
<1>4. CASE overtaken'
    BY <1>3, <1>4 DEF PageInv, TurnIsStoppable, TypedIsShown, SentWhereTyped
<1>5. CASE ~overtaken'
    <2>1. ~busy /\ ~overtaken /\ id = active
        BY <1>5
    <2>2. \A u \in Task : ~InTurn(u)
        BY <2>1 DEF PageInv, TurnIsStoppable
    <2>3. \A u \in Task \ {t} : task'[u].pc \notin {"token", "stream"}
        BY <1>2, <2>2 DEF InTurn
    <2>4. TurnIsStoppable'
        BY <1>1, <2>3 DEF TurnIsStoppable, InTurn
    <2>5. TypedIsShown'
        BY <1>2, <2>1, <2>3 DEF TypedIsShown
    <2>6. SentWhereTyped'
        BY <1>2, <2>3 DEF SentWhereTyped
    <2>. QED BY <1>3, <2>4, <2>5, <2>6 DEF PageInv
<1>. QED BY <1>4, <1>5

\* A step that puts one invocation out of any turn, and moves the screen only
\* while the page is free or away from a conversation that is gone.
LEMMA AsideKeeps ==
    ASSUME PageInv, NEW t \in Task, UNCHANGED <<busy, draft, controller, overtaken>>,
           exists' \subseteq Conversation, list' \subseteq Conversation, active' \in Shown,
           busy => active' \in {active, NoConversation},
           task' \in [Task -> Invocation],
           task'[t].pc \notin {"token", "stream"},
           \A u \in Task \ {t} : task'[u] = task[u]
    PROVE  PageInv'
<1>1. PageTypeOK'
    BY DEF PageInv, PageTypeOK
<1>2. TurnIsStoppable'
    BY DEF PageInv, TurnIsStoppable, InTurn
<1>3. TypedIsShown'
    <2> SUFFICES ASSUME ~overtaken, NEW u \in Task, task'[u].pc = "token"
                 PROVE  active' \in {task'[u].conv, NoConversation}
        BY DEF TypedIsShown
    <2>1. u # t /\ task'[u] = task[u]
        OBVIOUS
    <2>2. busy /\ active \in {task[u].conv, NoConversation}
        BY <2>1 DEF PageInv, TurnIsStoppable, TypedIsShown, InTurn
    <2>. QED BY <2>1, <2>2
<1>4. SentWhereTyped'
    BY DEF PageInv, SentWhereTyped
<1>. QED BY <1>1, <1>2, <1>3, <1>4 DEF PageInv

\* What an awaited function's caller does next.
LEMMA ResumeKeeps ==
    ASSUME PageInv, NEW t \in Task, NEW then, Resume(t, then, active),
           exists' \subseteq Conversation, list' \subseteq Conversation, active' = active
    PROVE  PageInv'
<1>1. CASE then = "send" /\ active # NoConversation
    <2>1. BeginTurn(t, active) /\ overtaken' = (overtaken \/ busy)
        BY <1>1 DEF Resume
    <2>2. active \in Conversation /\ overtaken \in BOOLEAN /\ busy \in BOOLEAN
        BY <1>1 DEF PageInv, PageTypeOK, Shown
    <2>. QED BY <2>1, <2>2, BeginTurnKeeps
<1>2. CASE ~ (then = "send" /\ active # NoConversation)
    <2>1. Return(t) /\ UNCHANGED <<busy, draft, controller, overtaken>>
        BY <1>2 DEF Resume
    <2>2. /\ task' \in [Task -> Invocation]
          /\ task'[t].pc = "idle"
          /\ \A u \in Task \ {t} : task'[u] = task[u]
        BY <2>1, ReturnMoves, IdleIsIdle DEF PageInv
    <2>3. active' \in Shown
        BY DEF PageInv, PageTypeOK
    <2>. QED BY <2>1, <2>2, <2>3, AsideKeeps
<1>. QED BY <1>1, <1>2

LEMMA SelectKeeps ==
    ASSUME PageInv, NEW t \in Task, NEW id \in Conversation,
           NEW then \in {"return", "send", "rename"}, Select(t, id, then),
           exists' \subseteq Conversation, list' \subseteq Conversation
    PROVE  PageInv'
<1>1. CASE MaySelect(id)
    <2>1. /\ active' = id /\ Awaits(t, "load", id, then) /\ ~busy
          /\ UNCHANGED <<busy, draft, controller, overtaken>>
        BY <1>1 DEF Select, MaySelect
    <2>2. /\ task' \in [Task -> Invocation]
          /\ task'[t].pc = "load"
          /\ \A u \in Task \ {t} : task'[u] = task[u]
        BY <2>1, AwaitsMoves DEF PageInv, Shown
    <2>. QED BY <2>1, <2>2, AsideKeeps DEF Shown
<1>2. CASE ~MaySelect(id)
    <2>1. active' = active /\ Resume(t, then, active)
        BY <1>2 DEF Select
    <2>. QED BY <2>1, ResumeKeeps
<1>. QED BY <1>1, <1>2

-----------------------------------------------------------------------------
LEMMA SubmitKeeps ==
    ASSUME PageInv, NEW t \in Task, Submit(t)
    PROVE  PageInv'
<1>1. ~busy /\ UNCHANGED <<exists, list, active>>
    BY DEF Submit, MaySubmit
<1>2. exists' \subseteq Conversation /\ list' \subseteq Conversation /\ active' \in Shown
    BY <1>1 DEF PageInv, PageTypeOK
<1>3. CASE active # NoConversation
    <2>1. BeginTurn(t, active) /\ overtaken' = overtaken
        BY <1>3 DEF Submit
    <2>2. active \in Conversation /\ overtaken \in BOOLEAN
        BY <1>3 DEF PageInv, PageTypeOK, Shown
    <2>. QED BY <1>1, <1>2, <2>1, <2>2, BeginTurnKeeps
<1>4. CASE active = NoConversation
    <2>1. /\ Awaits(t, "create", NoConversation, "send")
          /\ UNCHANGED <<busy, draft, controller, overtaken>>
        BY <1>4 DEF Submit
    <2>2. /\ task' \in [Task -> Invocation]
          /\ task'[t].pc = "create"
          /\ \A u \in Task \ {t} : task'[u] = task[u]
        BY <2>1, AwaitsMoves DEF PageInv, Shown
    <2>. QED BY <1>1, <1>2, <2>1, <2>2, AsideKeeps
<1>. QED BY <1>3, <1>4

\* The request goes to the conversation on the screen.
LEMMA PostKeeps ==
    ASSUME PageInv, NEW t \in Task, Post(t)
    PROVE  PageInv'
<1> DEFINE r == task[t]
           s == [r EXCEPT !.pc = "stream"]
           q == [s EXCEPT !.then = active]
<1>1. /\ r.pc = "token" /\ r \in Invocation /\ active \in Shown
      /\ task \in [Task -> Invocation]
    BY DEF Post, PageInv, PageTypeOK
<1>2. s = [pc |-> "stream", conv |-> r.conv, then |-> r.then, rows |-> r.rows]
    BY <1>1 DEF Invocation
<1>3. /\ s \in [pc : {"stream"}, conv : Shown, then : {"return", "send", "rename"} \cup Shown,
                rows : SUBSET Conversation]
      /\ s.conv = r.conv
    BY <1>1, <1>2 DEF Invocation
<1>4. task' = [task EXCEPT ![t] = q]
    BY <1>1 DEF Post
<1> HIDE DEF s
<1>5. q = [pc |-> "stream", conv |-> s.conv, then |-> active, rows |-> s.rows]
    BY <1>3
<1>6. q \in Invocation /\ q.pc = "stream" /\ q.conv = r.conv /\ q.then = active
    BY <1>1, <1>3, <1>5 DEF Invocation
<1> HIDE DEF q, r
<1>7. /\ task' \in [Task -> Invocation] /\ task'[t] = q
      /\ \A u \in Task \ {t} : task'[u] = task[u]
    BY <1>1, <1>4, <1>6
<1>8. UNCHANGED <<exists, list, active, busy, draft, controller, overtaken>>
    BY DEF Post
<1>9. PageTypeOK'
    BY <1>7, <1>8 DEF PageInv, PageTypeOK
<1>10. TurnIsStoppable'
    <2>1. InTurn(t)
        BY <1>1 DEF InTurn, r
    <2>2. \A u \in Task : InTurn(u)' => InTurn(u)
        BY <1>7, <2>1 DEF InTurn
    <2>. QED BY <1>8, <2>2 DEF PageInv, TurnIsStoppable
<1>11. TypedIsShown'
    BY <1>6, <1>7, <1>8 DEF PageInv, TypedIsShown
<1>12. SentWhereTyped'
    <2>1. ~overtaken => active \in {r.conv, NoConversation}
        BY <1>1 DEF PageInv, TypedIsShown, r
    <2>. QED BY <1>6, <1>7, <1>8, <2>1 DEF PageInv, SentWhereTyped
<1>. QED BY <1>9, <1>10, <1>11, <1>12 DEF PageInv

\* The turn that ends is the only one, or one has been overtaken.
LEMMA EndTurnKeeps ==
    ASSUME PageInv, NEW t \in Task, EndTurn(t)
    PROVE  PageInv'
<1>1. /\ InTurn(t) /\ busy' = FALSE
      /\ Awaits(t, "list", NoConversation, "return")
      /\ UNCHANGED <<exists, list, active, overtaken>>
    BY DEF EndTurn, InTurn
<1>2. /\ task' \in [Task -> Invocation]
      /\ task'[t].pc = "list"
      /\ \A u \in Task \ {t} : task'[u] = task[u]
    BY <1>1, AwaitsMoves DEF PageInv, Shown
<1>3. PageTypeOK'
    BY <1>1, <1>2 DEF PageInv, PageTypeOK
<1>4. ~overtaken => \A u \in Task : ~InTurn(u)'
    <2> SUFFICES ASSUME ~overtaken, NEW u \in Task, InTurn(u)'
                 PROVE  FALSE
        OBVIOUS
    <2>1. u # t /\ InTurn(u)
        BY <1>2 DEF InTurn
    <2>2. controller = t /\ controller = u
        BY <1>1, <2>1 DEF PageInv, TurnIsStoppable
    <2>. QED BY <2>1, <2>2
<1>5. TurnIsStoppable'
    BY <1>1, <1>4 DEF TurnIsStoppable
<1>6. TypedIsShown' /\ SentWhereTyped'
    BY <1>1, <1>4 DEF TypedIsShown, SentWhereTyped, InTurn
<1>. QED BY <1>3, <1>5, <1>6 DEF PageInv

LEMMA ListAnsweredKeeps ==
    ASSUME PageInv, NEW t \in Task, ListAnswered(t)
    PROVE  PageInv'
<1>1. /\ Return(t) /\ UNCHANGED <<exists, active, busy, draft, controller, overtaken>>
      /\ list' = exists \/ list' = task[t].rows \/ list' = list
    BY DEF ListAnswered
<1>2. task[t].rows \subseteq Conversation
    BY DEF PageInv, PageTypeOK, Invocation
<1>3. exists' \subseteq Conversation /\ list' \subseteq Conversation /\ active' \in Shown
    BY <1>1, <1>2 DEF PageInv, PageTypeOK
<1>4. /\ task' \in [Task -> Invocation]
      /\ task'[t].pc = "idle"
      /\ \A u \in Task \ {t} : task'[u] = task[u]
    BY <1>1, ReturnMoves, IdleIsIdle DEF PageInv
<1>. QED BY <1>1, <1>3, <1>4, AsideKeeps

LEMMA CreatedKeeps ==
    ASSUME PageInv, NEW t \in Task, Created(t)
    PROVE  PageInv'
<1>1. /\ exists \subseteq Conversation /\ list \subseteq Conversation
    BY DEF PageInv, PageTypeOK
<1>2. CASE Resume(t, task[t].then, active) /\ UNCHANGED <<exists, made, list, active>>
    BY <1>1, <1>2, ResumeKeeps
<1>3. ASSUME NEW c \in Conversation \ made, exists' = exists \cup {c}, list' = list \cup {c},
             Select(t, c, task[t].then)
      PROVE  PageInv'
    <2>1. exists' \subseteq Conversation /\ list' \subseteq Conversation
        BY <1>1, <1>3
    <2>2. CASE task[t].then \in {"return", "send", "rename"}
        BY <1>3, <2>1, <2>2, SelectKeeps
    <2>3. CASE task[t].then \notin {"return", "send", "rename"}
        <3>1. CASE MaySelect(c)
            <4>1. /\ active' = c /\ Awaits(t, "load", c, task[t].then) /\ ~busy
                  /\ UNCHANGED <<busy, draft, controller, overtaken>>
                BY <1>3, <3>1 DEF Select, MaySelect
            <4> DEFINE r == [pc |-> "load", conv |-> c, then |-> task[t].then, rows |-> {}]
            <4>2. r \in Invocation /\ r.pc = "load"
                BY DEF PageInv, PageTypeOK, Invocation, Shown
            <4>3. task \in [Task -> Invocation] /\ task' = [task EXCEPT ![t] = r]
                BY <4>1 DEF Awaits, PageInv, PageTypeOK
            <4> HIDE DEF r
            <4>4. /\ task' \in [Task -> Invocation]
                  /\ task'[t].pc = "load"
                  /\ \A u \in Task \ {t} : task'[u] = task[u]
                BY <4>2, <4>3
            <4>. QED BY <2>1, <4>1, <4>4, AsideKeeps DEF Shown
        <3>2. CASE ~MaySelect(c)
            <4>1. active' = active /\ Resume(t, task[t].then, active)
                BY <1>3, <3>2 DEF Select
            <4>. QED BY <2>1, <4>1, ResumeKeeps
        <3>. QED BY <3>1, <3>2
    <2>. QED BY <2>2, <2>3
<1>. QED BY <1>2, <1>3 DEF Created

\* A conversation that is deleted during an answer leaves no other on the screen.
LEMMA DeletedKeeps ==
    ASSUME PageInv, NEW t \in Task, Deleted(t)
    PROVE  PageInv'
<1> DEFINE id == task[t].conv
           rest == list \ {id}
<1>1. /\ exists \subseteq Conversation /\ list \subseteq Conversation /\ active \in Shown
    BY DEF PageInv, PageTypeOK
<1>2. /\ exists' = exists \ {id} /\ list' = rest
      /\ UNCHANGED <<busy, draft, controller, overtaken>>
    BY DEF Deleted
<1>3. exists' \subseteq Conversation /\ list' \subseteq Conversation
    BY <1>1, <1>2
<1>4. CASE active # id
    <2>1. Return(t) /\ active' = active
        BY <1>4 DEF Deleted
    <2>2. /\ task' \in [Task -> Invocation]
          /\ task'[t].pc = "idle"
          /\ \A u \in Task \ {t} : task'[u] = task[u]
        BY <2>1, ReturnMoves, IdleIsIdle DEF PageInv
    <2>. QED BY <1>1, <1>2, <1>3, <2>1, <2>2, AsideKeeps
<1>5. CASE active = id /\ rest # {} /\ ~busy
    <2>1. PICK next \in rest : active' = next /\ Awaits(t, "load", next, "return")
        BY <1>5 DEF Deleted
    <2>2. next \in Shown
        BY <1>1 DEF Shown
    <2>3. /\ task' \in [Task -> Invocation]
          /\ task'[t].pc = "load"
          /\ \A u \in Task \ {t} : task'[u] = task[u]
        BY <2>1, <2>2, AwaitsMoves DEF PageInv
    <2>. QED BY <1>2, <1>3, <1>5, <2>1, <2>2, <2>3, AsideKeeps
<1>6. CASE active = id /\ ~ (rest # {} /\ ~busy)
    <2>1. Return(t) /\ active' = NoConversation
        BY <1>6 DEF Deleted
    <2>2. /\ task' \in [Task -> Invocation]
          /\ task'[t].pc = "idle"
          /\ \A u \in Task \ {t} : task'[u] = task[u]
        BY <2>1, ReturnMoves, IdleIsIdle DEF PageInv
    <2>. QED BY <1>2, <1>3, <2>1, <2>2, AsideKeeps DEF Shown
<1>. QED BY <1>4, <1>5, <1>6

\* A call that only awaits, or only returns.
LEMMA StillKeeps ==
    ASSUME PageInv, NEW t \in Task,
           \/ Return(t)
           \/ \E at \in {"create", "delete"}, id \in Shown : Awaits(t, at, id, "return"),
           UNCHANGED <<exists, list, active, busy, draft, controller, overtaken>>
    PROVE  PageInv'
<1>1. exists' \subseteq Conversation /\ list' \subseteq Conversation /\ active' \in Shown
    BY DEF PageInv, PageTypeOK
<1>2. CASE Return(t)
    <2>1. /\ task' \in [Task -> Invocation]
          /\ task'[t].pc = "idle"
          /\ \A u \in Task \ {t} : task'[u] = task[u]
        BY <1>2, ReturnMoves, IdleIsIdle DEF PageInv
    <2>. QED BY <1>1, <2>1, AsideKeeps
<1>3. ASSUME NEW at \in {"create", "delete"}, NEW id \in Shown, Awaits(t, at, id, "return")
      PROVE  PageInv'
    <2>1. /\ task' \in [Task -> Invocation]
          /\ task'[t].pc = at
          /\ \A u \in Task \ {t} : task'[u] = task[u]
        BY <1>3, AwaitsMoves DEF PageInv
    <2>. QED BY <1>1, <2>1, AsideKeeps
<1>. QED BY <1>2, <1>3

LEMMA PageStarts == ASSUME PageInit PROVE PageInv
<1>1. task \in [Task -> Invocation] /\ \A t \in Task : task[t].pc = "idle"
    BY IdleIsInvocation, IdleIsIdle DEF PageInit
<1>2. PageTypeOK
    BY <1>1, WebAssumption DEF PageInit, PageTypeOK, Shown
<1>3. TurnIsStoppable /\ TypedIsShown /\ SentWhereTyped
    BY <1>1 DEF TurnIsStoppable, TypedIsShown, SentWhereTyped, InTurn
<1>. QED BY <1>2, <1>3 DEF PageInv

LEMMA PageSteps == ASSUME PageInv, [PageNext]_pagevars PROVE PageInv'
<1>1. CASE UNCHANGED pagevars
    BY <1>1 DEF pagevars, PageInv, PageTypeOK, TurnIsStoppable, TypedIsShown, SentWhereTyped, InTurn
<1>2. ASSUME NEW t \in Task, Submit(t) PROVE PageInv'
    BY <1>2, SubmitKeeps
<1>3. ASSUME NEW t \in Task, CreateConversation(t) PROVE PageInv'
    <2>1. NoConversation \in Shown
        BY DEF Shown
    <2>. QED BY <1>3, <2>1, StillKeeps DEF CreateConversation
<1>4. ASSUME NEW t \in Task, EndTurn(t) PROVE PageInv'
    BY <1>4, EndTurnKeeps
<1>5. ASSUME NEW t \in Task, Post(t) PROVE PageInv'
    BY <1>5, PostKeeps
<1>6. ASSUME NEW t \in Task, ListAnswered(t) PROVE PageInv'
    BY <1>6, ListAnsweredKeeps
<1>7. ASSUME NEW t \in Task, Loaded(t) PROVE PageInv'
    <2>1. exists' \subseteq Conversation /\ list' \subseteq Conversation
        BY <1>7 DEF Loaded, PageInv, PageTypeOK
    <2>. QED BY <1>7, <2>1, ResumeKeeps DEF Loaded
<1>8. ASSUME NEW t \in Task, Created(t) PROVE PageInv'
    BY <1>8, CreatedKeeps
<1>9. ASSUME NEW t \in Task, Deleted(t) PROVE PageInv'
    BY <1>9, DeletedKeeps
<1>10. ASSUME NEW t \in Task, DeleteFails(t) PROVE PageInv'
    BY <1>10, StillKeeps DEF DeleteFails, page
<1>11. ASSUME NEW t \in Task, NEW id \in Conversation,
              SelectConversation(t, id) \/ StartRename(t, id)
       PROVE  PageInv'
    <2>1. exists' \subseteq Conversation /\ list' \subseteq Conversation
        BY <1>11 DEF SelectConversation, StartRename, PageInv, PageTypeOK
    <2>2. Select(t, id, "return") \/ Select(t, id, "rename")
        BY <1>11 DEF SelectConversation, StartRename
    <2>. QED BY <2>1, <2>2, SelectKeeps
<1>12. ASSUME NEW t \in Task, NEW id \in Conversation, DeleteConversation(t, id)
       PROVE  PageInv'
    <2>1. id \in Shown
        BY DEF Shown
    <2>. QED BY <1>12, <2>1, StillKeeps DEF DeleteConversation
<1>. QED BY <1>1, <1>2, <1>3, <1>4, <1>5, <1>6, <1>7, <1>8, <1>9, <1>10, <1>11, <1>12
         DEF PageNext, Answered

-----------------------------------------------------------------------------
\* However many conversations, invocations and messages there are: the page
\* keeps the strengthened invariant.
THEOREM PageIsConsistent == PageSpec => []PageInv
<1>1. PageInit => PageInv
    BY PageStarts
<1>2. PageInv /\ [PageNext]_pagevars => PageInv'
    BY PageSteps
<1>. QED BY <1>1, <1>2, PTL DEF PageSpec

\* A message reaches the conversation that was on the screen when its turn
\* began or none, whatever is selected, created or deleted until its token is
\* there, unless one message has overtaken another (sendMessage, app.js).  A
\* turn begins with its submission, or, if there was no conversation to
\* submit to, when one was created and loaded: what is selected until then
\* is where the message goes.
THEOREM MessagesGoWhereTyped == PageSpec => []SentWhereTyped
<1>1. PageInv => SentWhereTyped
    BY DEF PageInv
<1>. QED BY <1>1, PageIsConsistent, PTL

\* The stop button aborts the turn that is under way, and no two turns are
\* under way at once, unless one message has overtaken another.
THEOREM TurnsAreStoppable == PageSpec => []TurnIsStoppable
<1>1. PageInv => TurnIsStoppable
    BY DEF PageInv
<1>. QED BY <1>1, PageIsConsistent, PTL
=============================================================================
