------------------------------ MODULE JobQueue ------------------------------
(***************************************************************************)
(* The durable queue behind document ingestion and conversation summaries  *)
(* (internal/background over the background_jobs table), whose claim,      *)
(* lease and retry discipline the memory capture worker repeats.           *)
(*                                                                         *)
(* A job is one row: (kind, dedupe_key) is UNIQUE.  A worker is one        *)
(* incarnation of the Worker of a replica: NewWorker draws its workerID    *)
(* once, and its loop handles one job at a time.  Time is abstract: a      *)
(* pending job is due or waiting for available_at, a lease is running or   *)
(* expired.                                                                *)
(***************************************************************************)
EXTENDS Naturals, FiniteSets

CONSTANTS Job, NoJob,          \* (kind, dedupe_key) pairs of one kind
          OfConversation,      \* the summary jobs of one conversation
          Worker, NoWorker,    \* worker incarnations; NoWorker: lease_owner = ''
          MaxAttempts,         \* max_attempts of every job
          MaxRetries,          \* bound on the manual retries of one job
          Faults               \* what the environment may do

(***************************************************************************)
(* The faults an instance admits.                                          *)
(*   crash       a worker's process may exit at any point                  *)
(*   dbError     a claim, completion or failure may be lost, or may commit *)
(*               while its caller sees an error                            *)
(*   liveExpiry  a lease may run out while its handler still runs: leases  *)
(*               are compared with the clocks of the replicas, and nothing *)
(*               stops a handler that is slow to heed its deadline         *)
(***************************************************************************)
AllFaults == {"crash", "dbError", "liveExpiry"}

ASSUME JobQueueAssumption ==
    /\ NoJob \notin Job
    /\ NoWorker \notin Worker
    /\ OfConversation \subseteq Job
    /\ MaxAttempts \in Nat \ {0}
    /\ MaxRetries \in Nat
    /\ Faults \subseteq AllFaults

VARIABLES row,     \* background_jobs
          worker,  \* the loop of each worker and the job snapshot it holds
          effect,  \* jobs a handler carried out
          retries  \* manual retries so far

vars == <<row, worker, effect, retries>>

\* "absent" before a job is enqueued, "deleted" once its conversation is.
Status == {"absent", "pending", "executing", "completed", "failed", "deleted"}

Row == [status: Status, attempt: Nat, owner: Worker \cup {NoWorker},
        due: BOOLEAN, expired: BOOLEAN]
NoRow == [status |-> "absent", attempt |-> 0, owner |-> NoWorker,
          due |-> FALSE, expired |-> FALSE]
Deleted == [NoRow EXCEPT !.status = "deleted"]
\* The row of a new or manually retried job.
Fresh == [status |-> "pending", attempt |-> 0, owner |-> NoWorker,
          due |-> TRUE, expired |-> FALSE]

(***************************************************************************)
(* A worker is "off" before Start, "idle" between jobs, "running" its      *)
(* handler, about to report ("ok" or "error"), or "gone".  stopping: its   *)
(* context is cancelled.                                                   *)
(***************************************************************************)
WorkerState == [pc: {"off", "idle", "running", "ok", "error", "gone"},
                job: Job \cup {NoJob}, attempt: Nat, stopping: BOOLEAN]
Off == [pc |-> "off", job |-> NoJob, attempt |-> 0, stopping |-> FALSE]
Idle(stopping) == [pc |-> "idle", job |-> NoJob, attempt |-> 0, stopping |-> stopping]
Gone == [pc |-> "gone", job |-> NoJob, attempt |-> 0, stopping |-> TRUE]

TypeOK ==
    /\ row \in [Job -> Row]
    /\ worker \in [Worker -> WorkerState]
    /\ effect \subseteq Job
    /\ retries \in [Job -> Nat]

Init ==
    /\ row = [j \in Job |-> NoRow]
    /\ worker = [w \in Worker |-> Off]
    /\ effect = {}
    /\ retries = [j \in Job |-> 0]

-----------------------------------------------------------------------------
(* Clients *)

(***************************************************************************)
(* INSERT ... ON CONFLICT(kind, dedupe_key) DO NOTHING: enqueueing a job   *)
(* that exists, in whatever status, returns it and changes nothing.        *)
(***************************************************************************)
EnqueueBackgroundJob(j) ==
    /\ row[j].status = "absent"
    /\ row' = [row EXCEPT ![j] = Fresh]
    /\ UNCHANGED <<worker, effect, retries>>

Retriable(j) == row[j].status = "failed"

RetryBackgroundJob(j) ==
    /\ Retriable(j)
    /\ retries[j] < MaxRetries
    /\ row' = [row EXCEPT ![j] = Fresh]
    /\ retries' = [retries EXCEPT ![j] = @ + 1]
    /\ UNCHANGED <<worker, effect>>

(***************************************************************************)
(* The foreign key of background_jobs deletes a conversation's jobs with   *)
(* it, also from under a running handler; no job can be added afterwards.  *)
(***************************************************************************)
DeleteConversation ==
    /\ \E j \in OfConversation : row[j].status # "deleted"
    /\ row' = [j \in Job |-> IF j \in OfConversation THEN Deleted ELSE row[j]]
    /\ UNCHANGED <<worker, effect, retries>>

-----------------------------------------------------------------------------
(* The claim *)

Lapsed(j) == row[j].status = "executing" /\ row[j].expired

(***************************************************************************)
(* The first statement of the claim: every job whose last attempt lost its *)
(* lease is failed.                                                        *)
(***************************************************************************)
Exhausted(j) == Lapsed(j) /\ row[j].attempt >= MaxAttempts

Failed(r) == [r EXCEPT !.status = "failed", !.owner = NoWorker, !.expired = FALSE]

Swept == [j \in Job |-> IF Exhausted(j) THEN Failed(row[j]) ELSE row[j]]

\* Mutant: only pending jobs are claimed.
Claimable_PendingOnly(j) == row[j].status = "pending" /\ row[j].due

Claimable(j) ==
    \/ row[j].status = "pending" /\ row[j].due
    \/ Lapsed(j) /\ row[j].attempt < MaxAttempts

Claimed(r, w) == [r EXCEPT !.status = "executing", !.attempt = @ + 1,
                           !.owner = w, !.expired = FALSE]

\* Mutant: the row is read back before the UPDATE.
Running_ReadTooEarly(j, attempt) ==
    [pc |-> "running", job |-> j, attempt |-> attempt - 1, stopping |-> FALSE]

Running(j, attempt) ==
    [pc |-> "running", job |-> j, attempt |-> attempt, stopping |-> FALSE]

(***************************************************************************)
(* Both statements commit together.  The worker goes on with the row it    *)
(* read back, or sees an error although the claim committed.               *)
(***************************************************************************)
ClaimBackgroundJob(w) ==
    /\ worker[w] = Idle(FALSE)
    /\ \E j \in Job :
          /\ Claimable(j)
          /\ row' = [Swept EXCEPT ![j] = Claimed(row[j], w)]
          /\ \/ worker' = [worker EXCEPT ![w] = Running(j, row[j].attempt + 1)]
             \/ "dbError" \in Faults /\ UNCHANGED worker
    /\ UNCHANGED <<effect, retries>>

(***************************************************************************)
(* With nothing to claim the sweep is committed all the same.              *)
(***************************************************************************)
SweepExhausted(w) ==
    /\ worker[w] = Idle(FALSE)
    /\ \A j \in Job : ~Claimable(j)
    /\ \E j \in Job : Exhausted(j)
    /\ row' = Swept
    /\ UNCHANGED <<worker, effect, retries>>

-----------------------------------------------------------------------------
(* The handler and its report *)

Goto(w, pc) == worker' = [worker EXCEPT ![w].pc = pc]

(***************************************************************************)
(* The handler succeeds; it fails with or without having taken effect (its *)
(* deadline, a cancelled context, a result that cannot be encoded).        *)
(***************************************************************************)
Handle(w) ==
    /\ worker[w].pc = "running"
    /\ \/ /\ effect' = effect \cup {worker[w].job}
          /\ Goto(w, "ok") \/ Goto(w, "error")
       \/ /\ Goto(w, "error")
          /\ UNCHANGED effect
    /\ UNCHANGED <<row, retries>>

(***************************************************************************)
(* WHERE id = ? AND status = 'executing' AND lease_owner = ?               *)
(***************************************************************************)
Holds(w, j) == row[j].status = "executing" /\ row[j].owner = w

(***************************************************************************)
(* The worker reports under a context of its own, so that a stopping       *)
(* worker still does; a lost lease or a database error is only logged.     *)
(***************************************************************************)
Report(w, pc, newRow) ==
    LET j == worker[w].job
    IN /\ worker[w].pc = pc
       /\ \/ Holds(w, j) /\ row' = [row EXCEPT ![j] = newRow]
          \/ (~Holds(w, j) \/ "dbError" \in Faults) /\ UNCHANGED row
       /\ worker' = [worker EXCEPT ![w] = Idle(worker[w].stopping)]
       /\ UNCHANGED <<effect, retries>>

Completed(r) == [r EXCEPT !.status = "completed", !.owner = NoWorker, !.expired = FALSE]

\* Until retryAt the job is pending but not due.
BackedOff(r) == [r EXCEPT !.status = "pending", !.owner = NoWorker,
                          !.due = FALSE, !.expired = FALSE]

\* Mutant: the handler's error is ignored.
CompleteBackgroundJob_IgnoresError(w) ==
    \E pc \in {"ok", "error"} : Report(w, pc, Completed(row[worker[w].job]))

CompleteBackgroundJob(w) ==
    Report(w, "ok", Completed(row[worker[w].job]))

\* Decided by the attempt of the worker's own snapshot.
Terminal(w) == worker[w].attempt >= MaxAttempts

FailBackgroundJob(w) ==
    LET r == row[worker[w].job]
    IN Report(w, "error", IF Terminal(w) THEN Failed(r) ELSE BackedOff(r))

-----------------------------------------------------------------------------
(* Clocks and processes *)

BecomesDue(j) ==
    /\ row[j].status = "pending"
    /\ ~row[j].due
    /\ row' = [row EXCEPT ![j].due = TRUE]
    /\ UNCHANGED <<worker, effect, retries>>

\* The attempt the lease was given for is still with its worker.
Attended(j) == \E w \in Worker : Holds(w, j) /\ worker[w].job = j

LeaseExpires(j) ==
    /\ row[j].status = "executing"
    /\ ~row[j].expired
    /\ Attended(j) => "liveExpiry" \in Faults
    /\ row' = [row EXCEPT ![j].expired = TRUE]
    /\ UNCHANGED <<worker, effect, retries>>

Start(w) ==
    /\ worker[w].pc = "off"
    /\ worker' = [worker EXCEPT ![w] = Idle(FALSE)]
    /\ UNCHANGED <<row, effect, retries>>

(***************************************************************************)
(* Stop cancels the loop's context: a running handler is interrupted and   *)
(* its attempt counts as failed, then the loop returns.                    *)
(***************************************************************************)
Stop(w) ==
    /\ worker[w].pc \notin {"off", "gone"}
    /\ ~worker[w].stopping
    /\ worker' = [worker EXCEPT ![w].stopping = TRUE]
    /\ UNCHANGED <<row, effect, retries>>

LoopReturns(w) ==
    /\ worker[w] = Idle(TRUE)
    /\ worker' = [worker EXCEPT ![w] = Gone]
    /\ UNCHANGED <<row, effect, retries>>

Crash(w) ==
    /\ "crash" \in Faults
    /\ worker[w].pc \notin {"off", "gone"}
    /\ worker' = [worker EXCEPT ![w] = Gone]
    /\ UNCHANGED <<row, effect, retries>>

-----------------------------------------------------------------------------
Client(j) == EnqueueBackgroundJob(j) \/ RetryBackgroundJob(j)

Clock(j) == BecomesDue(j) \/ LeaseExpires(j)

\* processNext
ProcessNext(w) == \/ ClaimBackgroundJob(w) \/ SweepExhausted(w)
                  \/ Handle(w)
                  \/ CompleteBackgroundJob(w) \/ FailBackgroundJob(w)

Next == \/ \E j \in Job : Client(j) \/ Clock(j)
        \/ DeleteConversation
        \/ \E w \in Worker : \/ ProcessNext(w)
                             \/ Start(w) \/ Stop(w) \/ LoopReturns(w) \/ Crash(w)

Spec == Init /\ [][Next]_vars

(***************************************************************************)
(* The loop of a worker polls and never stops by itself, time passes, and  *)
(* every worker is started.                                                *)
(***************************************************************************)
Fairness ==
    /\ \A w \in Worker : WF_vars(ProcessNext(w)) /\ WF_vars(Start(w))
    /\ \A j \in Job : WF_vars(Clock(j))

FairSpec == Spec /\ Fairness

-----------------------------------------------------------------------------
(* Safety *)

(***************************************************************************)
(* Whoever holds a lease works on the attempt the lease was given for.     *)
(* The report checks the lease owner only; a worker that lost its lease    *)
(* and the job to someone else, or to a manual retry, must never come to   *)
(* report an old attempt on a lease of its own.                            *)
(***************************************************************************)
Fenced ==
    \A w \in Worker, j \in Job :
        worker[w].job = j /\ Holds(w, j) => worker[w].attempt = row[j].attempt

(***************************************************************************)
(* No job is tried more often than its budget, and it is given up only     *)
(* when the budget is spent.  Claiming a pending job does not look at its  *)
(* attempt: the budget rests on who may make a job pending again.          *)
(***************************************************************************)
BudgetKept ==
    \A j \in Job : /\ row[j].attempt <= MaxAttempts
                   /\ row[j].status = "pending" => row[j].attempt < MaxAttempts
                   /\ row[j].status = "failed" => row[j].attempt = MaxAttempts

(***************************************************************************)
(* A job shown as completed was carried out.                               *)
(***************************************************************************)
CompletedTookEffect ==
    \A j \in Job : row[j].status = "completed" => j \in effect

(***************************************************************************)
(* A completed job is settled for good: no late failure report, sweep,     *)
(* retry or repeated enqueue brings it back, and a job deleted with its    *)
(* conversation is not brought back by the worker that still runs it.      *)
(***************************************************************************)
CompletedIsFinal ==
    [][\A j \in Job :
          /\ row[j].status = "completed" => row'[j] \in {row[j], Deleted}
          /\ row[j].status = "deleted" => row'[j] = row[j]]_vars

(***************************************************************************)
(* Unless leases run out under running handlers, no two workers carry out  *)
(* the same job at the same time, whatever crashes and lost commits occur. *)
(***************************************************************************)
OneHandler ==
    \A v, w \in Worker : worker[v].job = worker[w].job /\ worker[v].job # NoJob => v = w

(***************************************************************************)
(* The queue keeps the promise of AtLeastOnce.                             *)
(***************************************************************************)
Answer(r) == CASE r.status = "absent" -> "none"
               [] r.status \in {"pending", "executing"} -> "open"
               [] r.status = "deleted" -> "withdrawn"
               [] OTHER -> r.status

Promise == INSTANCE AtLeastOnce WITH
    answer <- [j \in Job |-> Answer(row[j])],
    tries <- [j \in Job |-> row[j].attempt]

PromiseSpec == Promise!Spec

-----------------------------------------------------------------------------
(* Liveness *)

(***************************************************************************)
(* Every accepted job is settled, even if workers crash in the middle of   *)
(* it and commits are lost, as long as some worker keeps running.          *)
(***************************************************************************)
SomeWorkerStays == \E w \in Worker : <>[](worker[w].pc # "gone" /\ ~worker[w].stopping)

JobsSettle ==
    SomeWorkerStays =>
        \A j \in Job : row[j].status \in {"pending", "executing"}
                          ~> row[j].status \in {"completed", "failed", "deleted"}
=============================================================================
