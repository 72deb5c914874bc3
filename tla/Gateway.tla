------------------------------- MODULE Gateway -------------------------------
(***************************************************************************)
(* The way of a request to its handler: login session, rate limit, CSRF    *)
(* token, daily quotas; and the GitHub login that sessions come from.      *)
(*                                                                         *)
(* One user has several tabs of one browser open: they share its cookies,  *)
(* and the tokens each page holds in memory are its own.  Replicas of the  *)
(* server share the sessions and the bucket in Redis and the quotas in the *)
(* database, so that a step is one call to either of them, or the check of *)
(* a request against its cookies.                                          *)
(***************************************************************************)
EXTENDS Naturals, Sequences, FiniteSets, FiniteSetsExt

CONSTANTS
    Tabs,
    None,
    DailyQuota,         \* of each resource; 0: unlimited
    UploadSizes,        \* sizes of uploads; 0: sent in chunks, not declared
    MaxUpload,          \* the largest request body (6 MiB)
    Unit,               \* a token of the bucket is so many units,
    Rate,               \* so many are refilled in a second,
    Burst,              \* and so many tokens are there at most
    ForgetAfter,        \* seconds after which an unused bucket may be dropped
    MaxLogins, MaxSessions, MaxRequests, MaxClock, MaxFaults   \* bounds

Resources == {"requests", "chat_runs", "knowledge_upload_bytes"}

(* A bucket that is not used is kept for two filling times, at least a     *)
(* minute, by redis_limiter.go, and is full long before; but for ten       *)
(* minutes by security.go, whatever the rate: it may still owe a refill.   *)
ASSUME GatewayAssumption ==
    /\ None \notin Tabs
    /\ DailyQuota \in [Resources -> Nat]
    /\ UploadSizes \subseteq 0..MaxUpload
    /\ MaxUpload \in Nat /\ Unit \in Nat \ {0} /\ Rate \in Nat \ {0}
    /\ Burst \in Nat \ {0}
    /\ ForgetAfter \in Nat
    /\ {MaxLogins, MaxSessions, MaxRequests, MaxClock, MaxFaults} \subseteq Nat

VARIABLES
    sessions,       \* Redis: login sessions
    states,         \* Redis: logins that were begun and not come back
    sessionCookie, stateCookie, csrfCookie,     \* of the browser
    tab,            \* the page of each tab and its request under way
    logins,         \* number of logins begun
    issued,         \* the login behind each session that was created
    ended,          \* history: sessions that were logged out
    deleted,        \* history: those of them that Redis did delete
    bucket,         \* Redis, or the one process: tokens of this client
    clock,          \* seconds
    passed,         \* history: requests that the rate limit let through
    used,           \* api_usage_daily of today
    admitted,       \* history: what handlers were given of it
    requests,       \* number of requests sent
    faults

session == <<sessions, ended, deleted, issued>>
cookies == <<sessionCookie, stateCookie, csrfCookie>>
login   == <<states, logins>>
rate    == <<bucket, clock, passed>>
quota   == <<used, admitted>>
bounds  == <<requests, faults>>

vars == <<session, cookies, login, rate, quota, bounds, tab>>

Kinds == {"read", "chat", "upload", "logout"}

NoRequest == [at |-> "idle", kind |-> "read", session |-> 0, login |-> 0,
              size |-> 0, trusted |-> FALSE, charged |-> [r \in Resources |-> 0]]

TypeOK ==
    /\ sessions \subseteq DOMAIN issued
    /\ states \subseteq 1..logins
    /\ sessionCookie \in 0..MaxSessions /\ stateCookie \in 0..MaxLogins
    /\ csrfCookie \in Tabs \cup {None}
    /\ \A t \in Tabs : tab[t].token \in BOOLEAN
    /\ bucket.tokens \in 0..Burst * Unit /\ bucket.updated \in 0..clock
    /\ \A r \in Resources : used[r] \in Nat /\ admitted[r] \in Nat

Init ==
    /\ sessions = {} /\ states = {}
    /\ sessionCookie = 0 /\ stateCookie = 0 /\ csrfCookie = None
    /\ tab = [t \in Tabs |-> [token |-> FALSE, request |-> NoRequest]]
    /\ logins = 0
    /\ issued = <<>> /\ ended = {} /\ deleted = {}
    /\ bucket = [tokens |-> Burst * Unit, updated |-> 0]
    /\ clock = 0 /\ passed = 0
    /\ used = [r \in Resources |-> 0] /\ admitted = [r \in Resources |-> 0]
    /\ requests = 0 /\ faults = 0

At(t, station) == tab[t].request.at = station

Goto(t, station) == tab' = [tab EXCEPT ![t].request.at = station]

(* Any answer other than the handler's ends the request.                   *)
Refuse(t) == tab' = [tab EXCEPT ![t].request = NoRequest]

Fault == faults < MaxFaults /\ faults' = faults + 1 /\ UNCHANGED requests

------------------------------------------------------------------------------
(* Login.                                                                  *)

(* A random state is stored, and set as a cookie for the way back.         *)
Login(t) ==
    /\ At(t, "idle") /\ logins < MaxLogins
    /\ logins' = logins + 1
    /\ states' = states \cup {logins'}
    /\ stateCookie' = logins'
    /\ UNCHANGED <<session, sessionCookie, csrfCookie, tab, rate, quota, bounds>>

(* GitHub sends a tab back, for any login it ever began, also twice.  The  *)
(* state of the address has to be that of the cookie.                      *)
Callback(t) ==
    /\ At(t, "idle") /\ stateCookie # 0
    /\ tab' = [tab EXCEPT ![t].request.at = "callback", ![t].request.login = stateCookie]
    /\ UNCHANGED <<session, cookies, login, rate, quota, bounds>>

\* Mutant: the state is read and left in place.
Take_Get(t) ==
    /\ tab[t].request.login \in states
    /\ Goto(t, "exchange")
    /\ UNCHANGED states

Take(t) ==
    /\ tab[t].request.login \in states
    /\ Goto(t, "exchange")
    /\ states' = states \ {tab[t].request.login}

TakeState(t) ==
    /\ At(t, "callback")
    /\ \/ Take(t)
       \/ tab[t].request.login \notin states /\ Refuse(t) /\ UNCHANGED states
    /\ UNCHANGED <<session, cookies, logins, rate, quota, bounds>>

(* GitHub tells whose login it was: the session is stored and its cookie   *)
(* set, that of the state is cleared.                                      *)
PutSession(t) ==
    /\ At(t, "exchange") /\ Len(issued) < MaxSessions
    /\ issued' = Append(issued, tab[t].request.login)
    /\ sessions' = sessions \cup {Len(issued')}
    /\ sessionCookie' = Len(issued')
    /\ stateCookie' = 0
    /\ Refuse(t)
    /\ UNCHANGED <<ended, deleted, csrfCookie, login, rate, quota, bounds>>

(* GitHub or Redis fails, or the ten minutes of a state are over.          *)
LoginFails(t) ==
    /\ At(t, "exchange") \/ At(t, "callback")
    /\ Fault
    /\ Refuse(t)
    /\ UNCHANGED <<session, cookies, login, rate, quota>>

StateExpires(l) ==
    /\ l \in states
    /\ states' = states \ {l}
    /\ UNCHANGED <<session, cookies, logins, tab, rate, quota, bounds>>

SessionExpires(s) ==
    /\ s \in sessions
    /\ sessions' = sessions \ {s}
    /\ UNCHANGED <<ended, deleted, issued, cookies, login, tab, rate, quota, bounds>>

------------------------------------------------------------------------------
(* The way of a request.                                                   *)

(* getCSRFToken: the page asks for a token before its first unsafe request *)
(* and keeps it; the cookie is then the one of this page.                  *)
IssueCSRFToken(t) ==
    /\ At(t, "idle") /\ ~tab[t].token
    /\ tab' = [tab EXCEPT ![t].token = TRUE]
    /\ csrfCookie' = t
    /\ UNCHANGED <<session, sessionCookie, stateCookie, login, rate, quota, bounds>>

Send(t, kind, size) ==
    /\ At(t, "idle") /\ requests < MaxRequests
    /\ kind # "read" => tab[t].token
    /\ requests' = requests + 1
    /\ tab' = [tab EXCEPT ![t].request =
          [NoRequest EXCEPT !.at = "authenticate", !.kind = kind, !.size = size,
                            !.session = sessionCookie, !.trusted = csrfCookie = t]]
    /\ UNCHANGED <<session, cookies, login, rate, quota, faults>>

Authenticate(t) ==
    /\ At(t, "authenticate")
    /\ IF tab[t].request.session \in sessions THEN Goto(t, "refresh") ELSE Refuse(t)
    /\ UNCHANGED <<session, cookies, login, rate, quota, bounds>>

\* Mutant: the session is written again to prolong it.
Refreshed_Written(s) == sessions \cup {s}

(* EXPIRE has no effect on a key that is gone.                             *)
Refreshed(s) == sessions

Refresh(t) ==
    /\ At(t, "refresh")
    /\ sessions' = Refreshed(tab[t].request.session)
    /\ Goto(t, "limit")
    /\ UNCHANGED <<ended, deleted, issued, cookies, login, rate, quota, bounds>>

Refilled == Min({Burst * Unit, bucket.tokens + (clock - bucket.updated) * Rate})

\* Mutant: a refusal leaves the time of the last refill as it was.
Refill_NotRefused(tokens) ==
    bucket' = [tokens |-> tokens, updated |-> IF tokens < Unit /\ bucket.tokens < Unit
                                              THEN bucket.updated ELSE clock]

Refill(tokens) == bucket' = [tokens |-> tokens, updated |-> clock]

(* The token of the page has to be that of the cookie it came with; a tab  *)
(* that another one has overtaken is turned away until it is loaded again. *)
CheckCSRF(t) ==
    IF tab[t].request.kind = "read" \/ tab[t].request.trusted
    THEN Goto(t, "requests")
    ELSE Refuse(t)

(* A token of the bucket is taken if there is one.                         *)
Allow(t) ==
    /\ At(t, "limit")
    /\ IF Refilled >= Unit
       THEN Refill(Refilled - Unit) /\ passed' = passed + 1 /\ CheckCSRF(t)
       ELSE Refill(Refilled) /\ UNCHANGED passed /\ Refuse(t)
    /\ UNCHANGED <<session, cookies, login, clock, quota, bounds>>

\* Mutant: the amount is not weighed.
WithinQuota_Unweighed(resource, amount) ==
    DailyQuota[resource] > 0 /\ amount > 0 => used[resource] < DailyQuota[resource]

(* ConsumeAPIQuota checks and adds in one statement.                       *)
WithinQuota(resource, amount) ==
    DailyQuota[resource] > 0 /\ amount > 0
        => used[resource] + amount <= DailyQuota[resource]

Consume(t, resource, amount, next) ==
    /\ At(t, resource)
    /\ IF WithinQuota(resource, amount)
       THEN /\ used' = IF DailyQuota[resource] = 0 THEN used
                       ELSE [used EXCEPT ![resource] = @ + amount]
            /\ tab' = [tab EXCEPT ![t].request =
                          [@ EXCEPT !.at = next, !.charged[resource] = amount]]
       ELSE Refuse(t) /\ UNCHANGED used
    /\ UNCHANGED <<session, cookies, login, rate, admitted, bounds>>

(* What is charged, in this order; a later refusal gives nothing back.  An *)
(* upload of unknown length is charged as the longest.                     *)
ConsumeQuotas(t) ==
    LET kind == tab[t].request.kind
        size == tab[t].request.size
    IN  \/ Consume(t, "requests", 1,
                CASE kind = "chat"   -> "chat_runs"
                  [] kind = "upload" -> "knowledge_upload_bytes"
                  [] OTHER           -> "handle")
        \/ Consume(t, "chat_runs", 1, "handle")
        \/ Consume(t, "knowledge_upload_bytes",
                   IF size = 0 THEN MaxUpload ELSE size, "handle")

(* The error of the deletion is dropped: it may not have happened, or its  *)
(* answer may be lost, which is no different from its success.             *)
Delete(s) ==
    \/ /\ sessions' = sessions \ {s}
       /\ deleted' = deleted \cup {s}
       /\ UNCHANGED bounds
    \/ Fault /\ UNCHANGED <<sessions, deleted>>

(* The browser is told that it is logged out, and its cookie is cleared,   *)
(* whatever became of the session.                                         *)
Logout(t) ==
    /\ Delete(tab[t].request.session)
    /\ ended' = ended \cup {tab[t].request.session}
    /\ sessionCookie' = 0
    /\ tab' = [tab EXCEPT ![t] = [token |-> FALSE, request |-> NoRequest]]

Handle(t) ==
    /\ At(t, "handle")
    /\ admitted' = [r \in Resources |-> admitted[r] + tab[t].request.charged[r]]
    /\ IF tab[t].request.kind = "logout"
       THEN Logout(t)
       ELSE Refuse(t) /\ UNCHANGED <<sessions, ended, deleted, sessionCookie, bounds>>
    /\ UNCHANGED <<issued, stateCookie, csrfCookie, login, rate, used>>

(* Redis or the database cannot be reached: 503.                           *)
Unavailable(t) ==
    /\ tab[t].request.at \in {"authenticate", "limit"} \cup Resources
    /\ Fault
    /\ Refuse(t)
    /\ UNCHANGED <<session, cookies, login, rate, quota>>

------------------------------------------------------------------------------
(* The page is loaded again; what it was waiting for goes on without it.   *)
Reload(t) ==
    /\ At(t, "idle") /\ tab[t].token
    /\ tab' = [tab EXCEPT ![t].token = FALSE]
    /\ UNCHANGED <<session, cookies, login, rate, quota, bounds>>

Tick ==
    /\ clock < MaxClock
    /\ clock' = clock + 1
    /\ UNCHANGED <<session, cookies, login, tab, bucket, passed, quota, bounds>>

(* A bucket that was not used for long is dropped, by Redis or when the    *)
(* limiter looks through them (every 1024 calls); the next one is full.    *)
Forget ==
    /\ clock - bucket.updated > ForgetAfter
    /\ bucket' = [tokens |-> Burst * Unit, updated |-> clock]
    /\ UNCHANGED <<session, cookies, login, tab, clock, passed, quota, bounds>>

(* Usage is counted by UTC day.                                            *)
Midnight ==
    /\ used # [r \in Resources |-> 0]
    /\ used' = [r \in Resources |-> 0] /\ admitted' = used'
    /\ tab' = [t \in Tabs |-> [tab[t] EXCEPT !.request.charged = used']]
    /\ UNCHANGED <<session, cookies, login, rate, bounds>>

Next ==
    \/ \E t \in Tabs :
        \/ Login(t) \/ Callback(t) \/ TakeState(t) \/ PutSession(t) \/ LoginFails(t)
        \/ IssueCSRFToken(t) \/ Reload(t)
        \/ \E kind \in Kinds \ {"upload"} : Send(t, kind, 0)
        \/ \E size \in UploadSizes : Send(t, "upload", size)
        \/ Authenticate(t) \/ Refresh(t) \/ Allow(t)
        \/ ConsumeQuotas(t) \/ Handle(t) \/ Unavailable(t)
    \/ \E l \in states : StateExpires(l)
    \/ \E s \in sessions : SessionExpires(s)
    \/ Tick \/ Forget \/ Midnight

Spec == Init /\ [][Next]_vars

------------------------------------------------------------------------------
(* Properties.                                                             *)

(* A session that a logout deleted is gone for good, although requests     *)
(* that were authenticated with it still prolong it; and one whose         *)
(* deletion failed is never again that of the browser, although requests   *)
(* and logins of other tabs are answered later (authn/github.go:129, :262).*)
LoggedOutStaysOut ==
    /\ deleted \cap sessions = {}
    /\ sessionCookie # 0 => sessionCookie \notin ended

(* However often a callback arrives, in however many tabs, a login gives   *)
(* one session (authn/github.go:51-52).                                    *)
OneSessionPerLogin ==
    \A i, j \in DOMAIN issued : issued[i] = issued[j] => i = j

(* What handlers are given in a day was charged, and no more was charged   *)
(* than the quota (security.go:205-223).                                   *)
AdmittedWithinQuota ==
    \A r \in Resources :
        DailyQuota[r] > 0 => admitted[r] <= used[r] /\ used[r] <= DailyQuota[r]

(* What a client may be given in the time after which its bucket may be    *)
(* dropped: what is refilled, or the whole bucket.                         *)
Sustained == Max({(ForgetAfter + 1) * Rate, Burst * Unit})

(* Over any time from the start, the rate limit lets through its burst and *)
(* what was refilled, or one more burst whenever a bucket can be dropped   *)
(* if that is more, however refusals, drops and replicas interleave        *)
(* (security.go:336-365, redis_limiter.go:15-36).                          *)
RateKept ==
    passed * Unit * (ForgetAfter + 1) <= Burst * Unit * (ForgetAfter + 1) + clock * Sustained

(* What holds of a logout that reaches Redis, and of a bucket that is full *)
(* when it is dropped.  Neither does in general: the deletion may fail     *)
(* unnoticed, and security.go drops a bucket at any rate.                  *)
LogoutEndsSession == ended \cap sessions = {}

BurstAndRefill == passed * Unit <= Burst * Unit + clock * Rate

=============================================================================
