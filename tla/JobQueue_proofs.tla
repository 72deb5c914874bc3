--------------------------- MODULE JobQueue_proofs ---------------------------
(***************************************************************************)
(* Proofs about the job queue, for any number of jobs, workers, attempts   *)
(* and retries and any subset of the faults.                               *)
(***************************************************************************)
EXTENDS JobQueue, TLAPS

(***************************************************************************)
(* What a worker holds between claim and report: a real job, and, once its *)
(* handler succeeded, an effect.                                           *)
(***************************************************************************)
WorkerKnowsJob ==
    \A w \in Worker :
        /\ worker[w].pc \in {"running", "ok", "error"} => worker[w].job \in Job
        /\ worker[w].pc \notin {"running", "ok", "error"} => worker[w].job = NoJob
        /\ worker[w].pc = "ok" => worker[w].job \in effect

\* A job in hand was enqueued; at most it was deleted meanwhile.
HeldJobsExist ==
    \A w \in Worker : worker[w].job \in Job => row[worker[w].job].status # "absent"

GoneIsBlank ==
    \A j \in Job : /\ row[j].status = "absent" => row[j] = NoRow
                   /\ row[j].status = "deleted" => row[j] = Deleted

(***************************************************************************)
(* The inductive invariant.  BudgetKept needs Fenced: a job is made        *)
(* pending again by the attempt a worker remembers, which must be the one  *)
(* in the row.                                                             *)
(***************************************************************************)
IInv ==
    /\ TypeOK
    /\ WorkerKnowsJob
    /\ HeldJobsExist
    /\ GoneIsBlank
    /\ Fenced
    /\ BudgetKept
    /\ CompletedTookEffect

USE JobQueueAssumption

(***************************************************************************)
(* Each way a statement rewrites a row yields a row.                       *)
(***************************************************************************)
LEMMA RowOperations ==
    ASSUME NEW r \in Row
    PROVE  /\ \A w \in Worker : Claimed(r, w) \in Row
           /\ Failed(r) \in Row
           /\ Completed(r) \in Row
           /\ BackedOff(r) \in Row
           /\ [r EXCEPT !.due = TRUE] \in Row
           /\ [r EXCEPT !.expired = TRUE] \in Row
<1> USE DEF Row, Status
<1>1. ASSUME NEW w \in Worker PROVE Claimed(r, w) \in Row
  <2> r.attempt + 1 \in Nat
    OBVIOUS
  <2> QED  BY DEF Claimed
<1>2. Failed(r) \in Row
    BY DEF Failed
<1>3. Completed(r) \in Row
    BY DEF Completed
<1>4. BackedOff(r) \in Row
    BY DEF BackedOff
<1>5. [r EXCEPT !.due = TRUE] \in Row /\ [r EXCEPT !.expired = TRUE] \in Row
    OBVIOUS
<1> QED
    BY <1>1, <1>2, <1>3, <1>4, <1>5

(***************************************************************************)
(* What each statement leaves in the status and the attempt of its row.    *)
(***************************************************************************)
LEMMA RowFields ==
    ASSUME NEW r \in Row
    PROVE  /\ \A w \in Worker : /\ Claimed(r, w).status = "executing"
                               /\ Claimed(r, w).owner = w
                               /\ Claimed(r, w).attempt = r.attempt + 1
           /\ Failed(r).status = "failed" /\ Failed(r).attempt = r.attempt
           /\ Completed(r).status = "completed" /\ Completed(r).attempt = r.attempt
           /\ BackedOff(r).status = "pending" /\ BackedOff(r).attempt = r.attempt
<1> USE DEF Row
<1>1. ASSUME NEW w \in Worker
      PROVE  /\ Claimed(r, w).status = "executing"
             /\ Claimed(r, w).owner = w
             /\ Claimed(r, w).attempt = r.attempt + 1
    BY DEF Claimed
<1>2. Failed(r).status = "failed" /\ Failed(r).attempt = r.attempt
    BY DEF Failed
<1>3. Completed(r).status = "completed" /\ Completed(r).attempt = r.attempt
    BY DEF Completed
<1>4. BackedOff(r).status = "pending" /\ BackedOff(r).attempt = r.attempt
    BY DEF BackedOff
<1> QED  BY <1>1, <1>2, <1>3, <1>4

(***************************************************************************)
(* The sweep fails some executing rows and touches no other.               *)
(***************************************************************************)
LEMMA SweptRows ==
    ASSUME TypeOK
    PROVE  /\ Swept \in [Job -> Row]
           /\ \A j \in Job :
                \/ Swept[j] = row[j]
                \/ /\ row[j].status = "executing" /\ row[j].attempt >= MaxAttempts
                   /\ Swept[j].status = "failed"
                   /\ Swept[j].attempt = row[j].attempt
<1>1. ASSUME NEW j \in Job
      PROVE  row[j] \in Row /\ Failed(row[j]) \in Row
    BY RowOperations DEF TypeOK
<1>2. Swept \in [Job -> Row]
    BY <1>1 DEF Swept
<1>3. ASSUME NEW j \in Job, Exhausted(j)
      PROVE  /\ row[j].status = "executing" /\ row[j].attempt >= MaxAttempts
             /\ Swept[j].status = "failed"
             /\ Swept[j].attempt = row[j].attempt
  <2>1. Swept[j] = Failed(row[j])
    BY <1>3 DEF Swept
  <2> QED  BY <1>1, <1>3, <2>1, RowFields DEF Exhausted, Lapsed
<1>4. ASSUME NEW j \in Job, ~Exhausted(j) PROVE Swept[j] = row[j]
    BY <1>4 DEF Swept
<1> QED  BY <1>2, <1>3, <1>4

(***************************************************************************)
(* Deleting a conversation blanks the rows of its jobs and no other.       *)
(***************************************************************************)
LEMMA DeletedRows ==
    ASSUME TypeOK, DeleteConversation
    PROVE  /\ row' \in [Job -> Row]
           /\ \A j \in Job : row'[j] = Deleted \/ row'[j] = row[j]
           /\ Deleted.status = "deleted" /\ Deleted.attempt = 0
           /\ UNCHANGED <<worker, effect, retries>>
<1>1. Deleted \in Row /\ Deleted.status = "deleted" /\ Deleted.attempt = 0
    BY DEF Deleted, NoRow, Row, Status
<1> QED  BY <1>1 DEF DeleteConversation, TypeOK

(***************************************************************************)
(* A report leaves the rows of other jobs alone and its worker idle.       *)
(***************************************************************************)
LEMMA ReportStep ==
    ASSUME TypeOK, NEW w \in Worker, NEW pc, NEW r, Report(w, pc, r),
           worker[w].job \in Job
    PROVE  /\ \/ Holds(w, worker[w].job) /\ row' = [row EXCEPT ![worker[w].job] = r]
              \/ UNCHANGED row
           /\ worker' = [worker EXCEPT ![w] = Idle(worker[w].stopping)]
           /\ UNCHANGED <<effect, retries>>
    BY DEF Report, TypeOK

(***************************************************************************)
(* The variables keep their types: no claim, report, sweep or retry stores *)
(* a status, owner or attempt the readers of the table do not know.        *)
(***************************************************************************)
LEMMA TypeStep == TypeOK /\ WorkerKnowsJob /\ [Next]_vars => TypeOK'
<1> SUFFICES ASSUME TypeOK, WorkerKnowsJob, [Next]_vars PROVE TypeOK'
    OBVIOUS
<1> USE DEF TypeOK
<1>a. \A s \in BOOLEAN : Idle(s) \in WorkerState
    BY DEF Idle, WorkerState
<1>b. \A w \in Worker : worker[w].stopping \in BOOLEAN /\ worker[w].attempt \in Nat
    BY DEF WorkerState
<1>1. ASSUME NEW j \in Job, EnqueueBackgroundJob(j) PROVE TypeOK'
    BY <1>1 DEF EnqueueBackgroundJob, Fresh, Row, Status
<1>2. ASSUME NEW j \in Job, RetryBackgroundJob(j) PROVE TypeOK'
    BY <1>2 DEF RetryBackgroundJob, Fresh, Row, Status
<1>3. ASSUME NEW j \in Job, Clock(j) PROVE TypeOK'
  <2>1. row' = [row EXCEPT ![j] = [row[j] EXCEPT !.due = TRUE]]
        \/ row' = [row EXCEPT ![j] = [row[j] EXCEPT !.expired = TRUE]]
    BY <1>3 DEF Clock, BecomesDue, LeaseExpires
  <2>2. row' \in [Job -> Row]
    <3>1. [row[j] EXCEPT !.due = TRUE] \in Row /\ [row[j] EXCEPT !.expired = TRUE] \in Row
      BY RowOperations
    <3> QED  BY <2>1, <3>1
  <2> QED  BY <1>3, <2>2 DEF Clock, BecomesDue, LeaseExpires
<1>4. ASSUME NEW w \in Worker, ClaimBackgroundJob(w) PROVE TypeOK'
  <2>1. PICK j \in Job :
            /\ row' = [Swept EXCEPT ![j] = Claimed(row[j], w)]
            /\ worker' = [worker EXCEPT ![w] = Running(j, row[j].attempt + 1)] \/ UNCHANGED worker
    BY <1>4 DEF ClaimBackgroundJob
  <2>2. row' \in [Job -> Row]
    BY <2>1, RowOperations, SweptRows
  <2>3. row[j].attempt \in Nat
    BY DEF Row
  <2>4. Running(j, row[j].attempt + 1) \in WorkerState
    BY <2>3 DEF Running, WorkerState
  <2> QED  BY <1>4, <2>1, <2>2, <2>4 DEF ClaimBackgroundJob
<1>5. ASSUME NEW w \in Worker, SweepExhausted(w) PROVE TypeOK'
    BY <1>5, SweptRows DEF SweepExhausted
<1>6. ASSUME NEW w \in Worker, Handle(w) PROVE TypeOK'
    BY <1>6 DEF Handle, Goto, WorkerKnowsJob, WorkerState
<1>7. ASSUME NEW w \in Worker, CompleteBackgroundJob(w) PROVE TypeOK'
  <2>1. worker[w].job \in Job
    BY <1>7 DEF CompleteBackgroundJob, Report, WorkerKnowsJob
  <2>2. Completed(row[worker[w].job]) \in Row
    BY <2>1, RowOperations
  <2> QED  BY <1>7, <2>1, <2>2, <1>a, <1>b, ReportStep DEF CompleteBackgroundJob
<1>8. ASSUME NEW w \in Worker, FailBackgroundJob(w) PROVE TypeOK'
  <2>1. worker[w].job \in Job
    BY <1>8 DEF FailBackgroundJob, Report, WorkerKnowsJob
  <2>2. Failed(row[worker[w].job]) \in Row /\ BackedOff(row[worker[w].job]) \in Row
    BY <2>1, RowOperations
  <2> QED  BY <1>8, <2>1, <2>2, <1>a, <1>b, ReportStep DEF FailBackgroundJob
<1>9. ASSUME NEW w \in Worker, Start(w) \/ Stop(w) \/ LoopReturns(w) \/ Crash(w)
      PROVE TypeOK'
  <2>1. Gone \in WorkerState /\ Idle(FALSE) \in WorkerState
        /\ [worker[w] EXCEPT !.stopping = TRUE] \in WorkerState
    BY DEF WorkerState, Gone, Idle
  <2>2. worker' \in [Worker -> WorkerState]
    BY <1>9, <2>1 DEF Start, Stop, LoopReturns, Crash
  <2> QED  BY <1>9, <2>2 DEF Start, Stop, LoopReturns, Crash
<1>10. CASE DeleteConversation
    BY <1>10, DeletedRows
<1>11. CASE UNCHANGED vars
    BY <1>11 DEF vars
<1> QED
    BY <1>1, <1>2, <1>3, <1>4, <1>5, <1>6, <1>7, <1>8, <1>9, <1>10, <1>11
    DEF Next, Client, ProcessNext

-----------------------------------------------------------------------------
(* The inductive invariant *)

\* An empty table and workers that have not started satisfy the invariant.
LEMMA Initially == Init => IInv
  BY DEF Init, IInv, TypeOK, WorkerKnowsJob, HeldJobsExist, GoneIsBlank, Fenced, BudgetKept,
         CompletedTookEffect, Row, NoRow, Status, WorkerState, Off, Holds

(***************************************************************************)
(* Steps that change no row, or only due and expired, and no job of a      *)
(* worker except by dropping it.                                           *)
(***************************************************************************)
LEMMA QuietStep ==
    ASSUME IInv, TypeOK',
           \A j \in Job : /\ row'[j].status = row[j].status
                          /\ row'[j].attempt = row[j].attempt
                          /\ row'[j].owner = row[j].owner
                          /\ row[j].status \in {"absent", "deleted"} => row'[j] = row[j],
           \A w \in Worker :
              \/ worker'[w].job = worker[w].job /\ worker'[w].attempt = worker[w].attempt
                 /\ worker'[w].pc = worker[w].pc
              \/ worker'[w].job = NoJob /\ worker'[w].pc \in {"idle", "gone"},
           effect' = effect
    PROVE  IInv'
  BY DEF IInv, WorkerKnowsJob, HeldJobsExist, GoneIsBlank, Fenced, BudgetKept, CompletedTookEffect, Holds

(***************************************************************************)
(* A claim hands the job over with the attempt it wrote into the row.      *)
(***************************************************************************)
LEMMA ClaimStep ==
    ASSUME IInv, TypeOK', NEW w \in Worker, ClaimBackgroundJob(w)
    PROVE  IInv'
<1> USE DEF IInv, TypeOK
<1>1. PICK j \in Job :
          /\ Claimable(j)
          /\ row' = [Swept EXCEPT ![j] = Claimed(row[j], w)]
          /\ worker' = [worker EXCEPT ![w] = Running(j, row[j].attempt + 1)] \/ UNCHANGED worker
    BY DEF ClaimBackgroundJob
<1>2. effect' = effect /\ worker[w].pc = "idle" /\ worker[w].job = NoJob
    BY DEF ClaimBackgroundJob, Idle
<1>3. /\ row'[j].status = "executing"
      /\ row'[j].owner = w
      /\ row'[j].attempt = row[j].attempt + 1
      /\ row[j].attempt < MaxAttempts
  <2>1. row'[j] = Claimed(row[j], w) /\ row[j] \in Row
    BY <1>1, SweptRows
  <2>2. row[j].attempt < MaxAttempts
    BY <1>1 DEF Claimable, BudgetKept
  <2> QED  BY <2>1, <2>2, RowFields
<1>4. \A k \in Job \ {j} :
         \/ row'[k] = row[k]
         \/ /\ row[k].status = "executing" /\ row[k].attempt >= MaxAttempts
            /\ row'[k].status = "failed" /\ row'[k].attempt = row[k].attempt
  <2>1. \A k \in Job \ {j} : row'[k] = Swept[k]
    BY <1>1, SweptRows
  <2> QED  BY <2>1, SweptRows
<1>5. \A v \in Worker \ {w} : worker'[v] = worker[v]
    BY <1>1
<1>6. \/ worker'[w] = worker[w]
      \/ worker'[w].job = j /\ worker'[w].attempt = row[j].attempt + 1 /\ worker'[w].pc = "running"
    BY <1>1 DEF Running
<1>7. WorkerKnowsJob'
    BY <1>2, <1>5, <1>6 DEF WorkerKnowsJob
<1>8. HeldJobsExist' /\ GoneIsBlank'
    BY <1>2, <1>3, <1>4, <1>5, <1>6 DEF HeldJobsExist, GoneIsBlank
<1>9. Fenced'
    BY <1>2, <1>3, <1>4, <1>5, <1>6 DEF Fenced, Holds
<1>10. BudgetKept'
  <2>1. \A k \in Job : row[k].attempt \in Nat /\ row[k].attempt <= MaxAttempts
    BY DEF BudgetKept, Row
  <2>2. \A k \in Job : row[k].attempt >= MaxAttempts => row[k].attempt = MaxAttempts
    BY <2>1
  <2>3. row'[j].attempt <= MaxAttempts
    BY <1>3, <2>1
  <2> QED  BY <1>3, <1>4, <2>1, <2>2, <2>3 DEF BudgetKept
<1>11. CompletedTookEffect'
    BY <1>2, <1>3, <1>4 DEF CompletedTookEffect
<1> QED  BY <1>7, <1>8, <1>9, <1>10, <1>11

(***************************************************************************)
(* A report ends an attempt as completed with its effect in place, as      *)
(* pending with attempts left, or as failed with none.                     *)
(***************************************************************************)
LEMMA ReportOutcome ==
    ASSUME IInv, NEW w \in Worker, CompleteBackgroundJob(w) \/ FailBackgroundJob(w),
           NEW j, j = worker[w].job
    PROVE  /\ j \in Job
           /\ effect' = effect
           /\ \A v \in Worker \ {w} : worker'[v] = worker[v]
           /\ worker'[w].job = NoJob /\ worker'[w].pc = "idle"
           /\ \/ UNCHANGED row
              \/ /\ Holds(w, j)
                 /\ \A k \in Job \ {j} : row'[k] = row[k]
                 /\ row'[j].attempt = row[j].attempt
                 /\ \/ row'[j].status = "completed" /\ j \in effect
                    \/ row'[j].status = "failed" /\ row[j].attempt = MaxAttempts
                    \/ row'[j].status = "pending" /\ row[j].attempt < MaxAttempts
<1> USE DEF IInv, TypeOK
<1>1. j \in Job
    BY DEF WorkerKnowsJob, CompleteBackgroundJob, FailBackgroundJob, Report
<1>2. /\ worker' = [worker EXCEPT ![w] = Idle(worker[w].stopping)]
      /\ effect' = effect
    BY <1>1, ReportStep DEF CompleteBackgroundJob, FailBackgroundJob
<1>3. \/ UNCHANGED row
      \/ /\ Holds(w, j)
         /\ \/ worker[w].pc = "ok" /\ row' = [row EXCEPT ![j] = Completed(row[j])]
            \/ Terminal(w) /\ row' = [row EXCEPT ![j] = Failed(row[j])]
            \/ ~Terminal(w) /\ row' = [row EXCEPT ![j] = BackedOff(row[j])]
    BY <1>1 DEF CompleteBackgroundJob, FailBackgroundJob, Report
<1>4. /\ \A v \in Worker \ {w} : worker'[v] = worker[v]
      /\ worker'[w].job = NoJob /\ worker'[w].pc = "idle"
    BY <1>2 DEF Idle
<1>5. CASE Holds(w, j) /\ ~UNCHANGED row
  <2>1. \A k \in Job \ {j} : row'[k] = row[k]
    BY <1>3, <1>5
  <2>2. /\ row[j] \in Row
        /\ row[j].attempt \in Nat /\ row[j].attempt <= MaxAttempts
        /\ row[j].attempt = worker[w].attempt
    BY <1>1, <1>5 DEF BudgetKept, Fenced, Row
  <2>3. CASE worker[w].pc = "ok" /\ row' = [row EXCEPT ![j] = Completed(row[j])]
    <3>1. row'[j] = Completed(row[j])
      BY <1>1, <2>3
    <3>2. row'[j].status = "completed" /\ row'[j].attempt = row[j].attempt
      BY <2>2, <3>1, RowFields
    <3>3. j \in effect
      BY <2>3 DEF WorkerKnowsJob
    <3> QED  BY <1>1, <1>2, <1>4, <1>5, <2>1, <3>2, <3>3
  <2>4. CASE Terminal(w) /\ row' = [row EXCEPT ![j] = Failed(row[j])]
    <3>1. row'[j] = Failed(row[j])
      BY <1>1, <2>4
    <3>2. row'[j].status = "failed" /\ row'[j].attempt = row[j].attempt
      BY <2>2, <3>1, RowFields
    <3>3. row[j].attempt = MaxAttempts
      BY <2>2, <2>4 DEF Terminal
    <3> QED  BY <1>1, <1>2, <1>4, <1>5, <2>1, <3>2, <3>3
  <2>5. CASE ~Terminal(w) /\ row' = [row EXCEPT ![j] = BackedOff(row[j])]
    <3>1. row'[j] = BackedOff(row[j])
      BY <1>1, <2>5
    <3>2. row'[j].status = "pending" /\ row'[j].attempt = row[j].attempt
      BY <2>2, <3>1, RowFields
    <3>3. row[j].attempt < MaxAttempts
      BY <2>2, <2>5 DEF Terminal
    <3> QED  BY <1>1, <1>2, <1>4, <1>5, <2>1, <3>2, <3>3
  <2> QED  BY <1>3, <1>5, <2>3, <2>4, <2>5
<1> QED  BY <1>1, <1>2, <1>3, <1>4, <1>5

\* A report by the lease holder, or one that is refused, keeps the invariant.
LEMMA ReportKeeps ==
    ASSUME IInv, TypeOK', NEW w \in Worker,
           CompleteBackgroundJob(w) \/ FailBackgroundJob(w)
    PROVE  IInv'
<1> DEFINE j == worker[w].job
<1>1. /\ j \in Job
      /\ effect' = effect
      /\ \A v \in Worker \ {w} : worker'[v] = worker[v]
      /\ worker'[w].job = NoJob /\ worker'[w].pc = "idle"
    BY ReportOutcome
<1>2. CASE UNCHANGED row
    BY <1>1, <1>2, QuietStep
<1>3. CASE /\ Holds(w, j)
           /\ \A k \in Job \ {j} : row'[k] = row[k]
           /\ row'[j].attempt = row[j].attempt
           /\ \/ row'[j].status = "completed" /\ j \in effect
              \/ row'[j].status = "failed" /\ row[j].attempt = MaxAttempts
              \/ row'[j].status = "pending" /\ row[j].attempt < MaxAttempts
  <2> HIDE DEF j
  <2>1. WorkerKnowsJob'
    BY <1>1 DEF IInv, WorkerKnowsJob
  <2>2. HeldJobsExist' /\ GoneIsBlank'
    BY <1>1, <1>3 DEF IInv, HeldJobsExist, GoneIsBlank
  <2>3. Fenced'
    BY <1>1, <1>3 DEF IInv, Fenced, Holds
  <2>4. BudgetKept'
    BY <1>1, <1>3 DEF IInv, BudgetKept
  <2>5. CompletedTookEffect'
    BY <1>1, <1>3 DEF IInv, CompletedTookEffect
  <2> QED  BY <2>1, <2>2, <2>3, <2>4, <2>5 DEF IInv
<1> QED  BY <1>2, <1>3, ReportOutcome

\* Every step of a client, a clock or a worker keeps the invariant.
LEMMA Inductive == IInv /\ [Next]_vars => IInv'
<1> SUFFICES ASSUME IInv, [Next]_vars PROVE IInv'
    OBVIOUS
<1>0. TypeOK /\ TypeOK'
    BY TypeStep DEF IInv
<1> USE <1>0
<1>1. ASSUME NEW j \in Job, Client(j) PROVE IInv'
  <2>1. /\ row' = [row EXCEPT ![j] = Fresh]
        /\ UNCHANGED <<worker, effect>>
        /\ row[j].status # "completed"
    BY <1>1 DEF Client, EnqueueBackgroundJob, RetryBackgroundJob, Retriable
  <2>2. row'[j] = Fresh /\ \A k \in Job \ {j} : row'[k] = row[k]
    BY <2>1 DEF TypeOK
  <2> QED
    BY <2>1, <2>2 DEF IInv, WorkerKnowsJob, HeldJobsExist, GoneIsBlank, Fenced, BudgetKept,
                      CompletedTookEffect, Holds, Fresh
<1>2. ASSUME NEW j \in Job, Clock(j) PROVE IInv'
  <2>1. /\ UNCHANGED <<worker, effect>>
        /\ row[j].status \notin {"absent", "deleted"}
        /\ \/ row' = [row EXCEPT ![j] = [row[j] EXCEPT !.due = TRUE]]
           \/ row' = [row EXCEPT ![j] = [row[j] EXCEPT !.expired = TRUE]]
    BY <1>2 DEF Clock, BecomesDue, LeaseExpires
  <2>2. \A k \in Job \ {j} : row'[k] = row[k]
    BY <2>1 DEF TypeOK
  <2>3. /\ row'[j].status = row[j].status
        /\ row'[j].attempt = row[j].attempt
        /\ row'[j].owner = row[j].owner
    BY <2>1 DEF TypeOK, Row
  <2> QED  BY <2>1, <2>2, <2>3, QuietStep
<1>3. ASSUME NEW w \in Worker, ClaimBackgroundJob(w) PROVE IInv'
    BY <1>3, ClaimStep
<1>4. ASSUME NEW w \in Worker, SweepExhausted(w) PROVE IInv'
  <2>1. \A j \in Job :
           \/ row'[j] = row[j]
           \/ /\ row[j].status = "executing" /\ row[j].attempt >= MaxAttempts
              /\ row'[j].status = "failed" /\ row'[j].attempt = row[j].attempt
    BY <1>4, SweptRows DEF SweepExhausted
  <2>2. UNCHANGED <<worker, effect>>
    BY <1>4 DEF SweepExhausted
  <2>3. WorkerKnowsJob' /\ HeldJobsExist' /\ GoneIsBlank' /\ Fenced' /\ CompletedTookEffect'
    BY <2>1, <2>2 DEF IInv, WorkerKnowsJob, HeldJobsExist, GoneIsBlank, Fenced, CompletedTookEffect, Holds
  <2>4. BudgetKept'
    <3>1. \A j \in Job : row[j].attempt \in Nat /\ row[j].attempt <= MaxAttempts
      BY DEF IInv, BudgetKept, TypeOK, Row
    <3>2. \A j \in Job : row[j].attempt >= MaxAttempts => row[j].attempt = MaxAttempts
      BY <3>1
    <3> QED  BY <2>1, <3>1, <3>2 DEF IInv, BudgetKept
  <2> QED  BY <2>3, <2>4 DEF IInv
<1>5. ASSUME NEW w \in Worker, Handle(w) PROVE IInv'
  <2>1. /\ UNCHANGED row
        /\ effect \subseteq effect'
        /\ \/ worker' = [worker EXCEPT ![w].pc = "ok"] /\ worker[w].job \in effect'
           \/ worker' = [worker EXCEPT ![w].pc = "error"]
        /\ worker[w].pc = "running"
    BY <1>5 DEF Handle, Goto
  <2>2. /\ \A v \in Worker \ {w} : worker'[v] = worker[v]
        /\ worker'[w].job = worker[w].job
        /\ worker'[w].attempt = worker[w].attempt
        /\ worker'[w].pc = "error" \/ (worker'[w].pc = "ok" /\ worker[w].job \in effect')
    <3>1. worker[w] \in WorkerState
      BY DEF TypeOK
    <3>2. \/ worker'[w] = [worker[w] EXCEPT !.pc = "ok"] /\ worker[w].job \in effect'
          \/ worker'[w] = [worker[w] EXCEPT !.pc = "error"]
      BY <2>1 DEF TypeOK
    <3>3. \A v \in Worker \ {w} : worker'[v] = worker[v]
      BY <2>1 DEF TypeOK
    <3>4. /\ worker'[w].job = worker[w].job
          /\ worker'[w].attempt = worker[w].attempt
          /\ worker'[w].pc = "error" \/ (worker'[w].pc = "ok" /\ worker[w].job \in effect')
      <4>1. CASE worker'[w] = [worker[w] EXCEPT !.pc = "ok"] /\ worker[w].job \in effect'
        BY <3>1, <4>1 DEF WorkerState
      <4>2. CASE worker'[w] = [worker[w] EXCEPT !.pc = "error"]
        BY <3>1, <4>2 DEF WorkerState
      <4> QED  BY <3>2, <4>1, <4>2
    <3> QED  BY <3>3, <3>4
  <2> QED
    BY <2>1, <2>2 DEF IInv, WorkerKnowsJob, HeldJobsExist, GoneIsBlank, Fenced, BudgetKept,
                      CompletedTookEffect, Holds
<1>6. ASSUME NEW w \in Worker, CompleteBackgroundJob(w) \/ FailBackgroundJob(w) PROVE IInv'
    BY <1>6, ReportKeeps
<1>7. ASSUME NEW w \in Worker, Start(w) \/ Stop(w) \/ LoopReturns(w) \/ Crash(w)
      PROVE IInv'
  <2>1. UNCHANGED <<row, effect>>
    BY <1>7 DEF Start, Stop, LoopReturns, Crash
  <2>2. \/ worker' = [worker EXCEPT ![w] = Idle(FALSE)] /\ worker[w].pc = "off"
        \/ worker' = [worker EXCEPT ![w].stopping = TRUE]
        \/ worker' = [worker EXCEPT ![w] = Gone]
    BY <1>7 DEF Start, Stop, LoopReturns, Crash
  <2>3. /\ \A v \in Worker \ {w} : worker'[v] = worker[v]
        /\ \/ /\ worker'[w].job = worker[w].job
              /\ worker'[w].attempt = worker[w].attempt
              /\ worker'[w].pc = worker[w].pc
           \/ worker'[w].job = NoJob /\ worker'[w].pc \in {"idle", "gone"}
    BY <2>2 DEF TypeOK, WorkerState, Idle, Gone
  <2> QED  BY <2>1, <2>3, QuietStep
<1>8. CASE DeleteConversation
  <2>1. /\ \A j \in Job : row'[j] = Deleted \/ row'[j] = row[j]
        /\ Deleted.status = "deleted" /\ Deleted.attempt = 0
        /\ UNCHANGED <<worker, effect>>
    BY <1>8, DeletedRows
  <2>2. 0 <= MaxAttempts
    OBVIOUS
  <2> QED
    BY <2>1, <2>2 DEF IInv, WorkerKnowsJob, HeldJobsExist, GoneIsBlank, Fenced, BudgetKept,
                      CompletedTookEffect, Holds
<1>9. CASE UNCHANGED vars
    BY <1>9, QuietStep DEF vars
<1> QED
    BY <1>1, <1>2, <1>3, <1>4, <1>5, <1>6, <1>7, <1>8, <1>9 DEF Next, ProcessNext

(***************************************************************************)
(* The inductive invariant holds throughout.                               *)
(***************************************************************************)
THEOREM Invariance == Spec => []IInv
  BY Initially, Inductive, PTL DEF Spec

(***************************************************************************)
(* Typing: statuses, owners and attempts stay within their types.          *)
(***************************************************************************)
THEOREM Typing == Spec => []TypeOK
<1>1. IInv => TypeOK
    BY DEF IInv
<1> QED  BY <1>1, Invariance, PTL

(***************************************************************************)
(* A lease holder works on the attempt its lease was given for, although   *)
(* the report compares owners only.                                        *)
(***************************************************************************)
THEOREM Fencing == Spec => []Fenced
<1>1. IInv => Fenced
    BY DEF IInv
<1> QED  BY <1>1, Invariance, PTL

(***************************************************************************)
(* No job is tried beyond max_attempts nor given up before.                *)
(***************************************************************************)
THEOREM Budget == Spec => []BudgetKept
<1>1. IInv => BudgetKept
    BY DEF IInv
<1> QED  BY <1>1, Invariance, PTL

(***************************************************************************)
(* A job shown as completed was carried out.                               *)
(***************************************************************************)
THEOREM Completion == Spec => []CompletedTookEffect
<1>1. IInv => CompletedTookEffect
    BY DEF IInv
<1> QED  BY <1>1, Invariance, PTL

(***************************************************************************)
(* A completed row is never written again, by a late report, a sweep, a    *)
(* claim, a retry or a repeated enqueue, and a deleted one never comes     *)
(* back.                                                                   *)
(***************************************************************************)
THEOREM Finality == Spec => CompletedIsFinal
<1> DEFINE Settled(r) == r.status \in {"completed", "deleted"}
           Kept == \A j \in Job :
                      /\ row[j].status = "completed" => row'[j] \in {row[j], Deleted}
                      /\ row[j].status = "deleted" => row'[j] = row[j]
<1>1. ASSUME IInv, Next PROVE Kept
  <2> SUFFICES ASSUME NEW j \in Job, Settled(row[j])
               PROVE  \/ row'[j] = row[j]
                      \/ row[j].status = "completed" /\ row'[j] = Deleted
    OBVIOUS
  <2> USE <1>1 DEF IInv
  <2>1. ASSUME NEW k \in Job, Client(k) \/ Clock(k) PROVE row'[j] = row[j]
    BY <2>1 DEF Client, Clock, EnqueueBackgroundJob, RetryBackgroundJob, Retriable,
                BecomesDue, LeaseExpires, TypeOK
  <2>2. ASSUME NEW w \in Worker, ClaimBackgroundJob(w) PROVE row'[j] = row[j]
    <3>1. Swept[j] = row[j]
      BY SweptRows
    <3> QED  BY <2>2, <3>1, SweptRows DEF ClaimBackgroundJob, Claimable, Lapsed
  <2>3. ASSUME NEW w \in Worker, SweepExhausted(w) PROVE row'[j] = row[j]
    BY <2>3, SweptRows DEF SweepExhausted
  <2>4. ASSUME NEW w \in Worker, CompleteBackgroundJob(w) \/ FailBackgroundJob(w)
        PROVE row'[j] = row[j]
    BY <2>4, ReportOutcome DEF Holds
  <2>5. ASSUME NEW w \in Worker, Handle(w) \/ Start(w) \/ Stop(w) \/ LoopReturns(w) \/ Crash(w)
        PROVE row'[j] = row[j]
    BY <2>5 DEF Handle, Start, Stop, LoopReturns, Crash
  <2>6. CASE DeleteConversation
    <3>1. CASE row[j].status = "deleted"
      <4>1. row[j] = Deleted
        BY <3>1 DEF GoneIsBlank
      <4> QED  BY <2>6, <4>1, DeletedRows
    <3> QED  BY <2>6, <3>1, DeletedRows
  <2> QED  BY <2>1, <2>2, <2>3, <2>4, <2>5, <2>6 DEF Next, ProcessNext
<1>2. IInv /\ [Next]_vars => [Kept]_vars
    BY <1>1
<1> QED  BY <1>2, Invariance, PTL DEF Spec, CompletedIsFinal

-----------------------------------------------------------------------------
(* One handler at a time, unless leases run out under running handlers *)

(***************************************************************************)
(* Every worker with a job in hand still holds a running lease on it, or   *)
(* the job was deleted, and no other worker has it.                        *)
(***************************************************************************)
LeaseRuns(w, j) == Holds(w, j) /\ ~row[j].expired

LeasesHold ==
    \A w \in Worker : worker[w].job \in Job =>
        row[worker[w].job].status = "deleted" \/ LeaseRuns(w, worker[w].job)

(***************************************************************************)
(* A job that can be claimed is in the hands of no worker.                 *)
(***************************************************************************)
LEMMA ClaimableIsFree ==
    ASSUME TypeOK, LeasesHold, NEW j \in Job, Claimable(j), NEW v \in Worker
    PROVE  worker[v].job # j
  BY DEF LeasesHold, LeaseRuns, Holds, Claimable, Lapsed

\* While leases outlive their handlers, a working worker holds its lease.
LEMMA LeasesHoldStep ==
    ASSUME "liveExpiry" \notin Faults, IInv, LeasesHold, OneHandler, [Next]_vars
    PROVE  LeasesHold'
<1> USE DEF IInv, TypeOK, LeaseRuns
<1>1. ASSUME NEW j \in Job, Client(j) PROVE LeasesHold'
  <2>1. /\ row' = [row EXCEPT ![j] = Fresh]
        /\ UNCHANGED worker
        /\ row[j].status \in {"absent", "failed"}
    BY <1>1 DEF Client, EnqueueBackgroundJob, RetryBackgroundJob, Retriable
  <2>2. \A v \in Worker : worker[v].job # j
    BY <2>1 DEF LeasesHold, HeldJobsExist, Holds
  <2> QED  BY <2>1, <2>2 DEF LeasesHold, Holds
<1>2. ASSUME NEW j \in Job, Clock(j) PROVE LeasesHold'
  <2>1. UNCHANGED worker /\ \A k \in Job \ {j} : row'[k] = row[k]
    BY <1>2 DEF Clock, BecomesDue, LeaseExpires
  <2>2. \A w \in Worker : worker[w].job # j
    <3>1. CASE BecomesDue(j)
      BY <3>1 DEF BecomesDue, LeasesHold, Holds
    <3>2. CASE LeaseExpires(j)
      BY <3>2 DEF LeaseExpires, Attended, LeasesHold, Holds
    <3> QED  BY <1>2, <3>1, <3>2 DEF Clock
  <2> QED  BY <2>1, <2>2 DEF LeasesHold, Holds
<1>3. ASSUME NEW w \in Worker, ClaimBackgroundJob(w) PROVE LeasesHold'
  <2>1. PICK j \in Job :
            /\ Claimable(j)
            /\ row' = [Swept EXCEPT ![j] = Claimed(row[j], w)]
            /\ worker' = [worker EXCEPT ![w] = Running(j, row[j].attempt + 1)] \/ UNCHANGED worker
    BY <1>3 DEF ClaimBackgroundJob
  <2>2. Swept = [k \in Job |-> IF Exhausted(k) THEN Failed(row[k]) ELSE row[k]]
    BY DEF Swept
  <2>3. \A v \in Worker : worker[v].job \in Job =>
            worker[v].job # j /\ row'[worker[v].job] = row[worker[v].job]
    BY <2>1, <2>2, ClaimableIsFree DEF LeasesHold, Holds, Lapsed, Exhausted
  <2>4. row'[j].status = "executing" /\ row'[j].owner = w /\ row'[j].expired = FALSE
    <3>1. row'[j] = Claimed(row[j], w) /\ row[j] \in Row
      BY <2>1, SweptRows
    <3> QED  BY <3>1 DEF Claimed, Row
  <2>5. ASSUME NEW v \in Worker, worker'[v].job \in Job
        PROVE  \/ row'[worker'[v].job].status = "deleted"
               \/ /\ row'[worker'[v].job].status = "executing"
                  /\ row'[worker'[v].job].owner = v
                  /\ ~row'[worker'[v].job].expired
    <3>1. CASE worker'[v] = worker[v]
      BY <2>3, <2>5, <3>1 DEF LeasesHold, Holds
    <3>2. CASE worker'[v] # worker[v]
      <4>1. v = w /\ worker'[v].job = j
        BY <2>1, <3>2 DEF Running
      <4> QED  BY <2>4, <4>1
    <3> QED  BY <3>1, <3>2
  <2> QED  BY <2>5 DEF LeasesHold, Holds
<1>4. ASSUME NEW w \in Worker, SweepExhausted(w) PROVE LeasesHold'
  <2>1. \A v \in Worker : worker[v].job \in Job => row'[worker[v].job] = row[worker[v].job]
    BY <1>4 DEF SweepExhausted, Swept, LeasesHold, Holds, Exhausted, Lapsed
  <2> QED  BY <1>4, <2>1 DEF SweepExhausted, LeasesHold, Holds
<1>5. ASSUME NEW w \in Worker, CompleteBackgroundJob(w) \/ FailBackgroundJob(w)
      PROVE LeasesHold'
  <2>1. worker[w].job \in Job
    BY <1>5 DEF WorkerKnowsJob, CompleteBackgroundJob, FailBackgroundJob, Report
  <2>2. /\ \A k \in Job : k # worker[w].job => row'[k] = row[k]
        /\ worker' = [worker EXCEPT ![w] = Idle(worker[w].stopping)]
    BY <1>5, <2>1, ReportStep DEF CompleteBackgroundJob, FailBackgroundJob
  <2>3. /\ \A v \in Worker \ {w} : worker'[v] = worker[v]
        /\ worker'[w].job = NoJob
    BY <2>2 DEF Idle
  <2>4. \A v \in Worker \ {w} : worker[v].job # worker[w].job
    BY <2>1 DEF OneHandler
  <2> QED  BY <2>2, <2>3, <2>4 DEF LeasesHold, Holds
<1>6. ASSUME NEW w \in Worker, Handle(w) \/ Stop(w) PROVE LeasesHold'
  <2>1. UNCHANGED row
    BY <1>6 DEF Handle, Stop
  <2>2. \A v \in Worker : worker'[v].job = worker[v].job
    BY <1>6 DEF Handle, Goto, Stop, WorkerState
  <2> QED  BY <2>1, <2>2 DEF LeasesHold, Holds
<1>7. ASSUME NEW w \in Worker, Start(w) \/ LoopReturns(w) \/ Crash(w) PROVE LeasesHold'
    BY <1>7 DEF Start, LoopReturns, Crash, Idle, Gone, LeasesHold, Holds
<1>8. CASE DeleteConversation
    BY <1>8, DeletedRows DEF LeasesHold, Holds
<1>9. CASE UNCHANGED vars
    BY <1>9 DEF vars, LeasesHold, Holds
<1> QED
    BY <1>1, <1>2, <1>3, <1>4, <1>5, <1>6, <1>7, <1>8, <1>9 DEF Next, ProcessNext

(***************************************************************************)
(* A claim gives a worker a job that no other has; no other step gives it  *)
(* one.                                                                    *)
(***************************************************************************)
LEMMA OneHandlerStep ==
    ASSUME IInv, LeasesHold, OneHandler, [Next]_vars
    PROVE  OneHandler'
<1> USE DEF IInv, TypeOK
<1>1. ASSUME NEW w \in Worker, ClaimBackgroundJob(w) PROVE OneHandler'
  <2>1. PICK j \in Job :
            /\ Claimable(j)
            /\ worker' = [worker EXCEPT ![w] = Running(j, row[j].attempt + 1)] \/ UNCHANGED worker
    BY <1>1 DEF ClaimBackgroundJob
  <2>2. \A v \in Worker : worker[v].job # j
    BY <2>1, ClaimableIsFree
  <2> QED  BY <2>1, <2>2 DEF OneHandler, Running
<1>2. ASSUME \A v \in Worker : worker'[v].job \in {worker[v].job, NoJob}
      PROVE  OneHandler'
    BY <1>2 DEF OneHandler
<1>3. ASSUME NEW w \in Worker, Handle(w) \/ Stop(w) PROVE OneHandler'
  <2>1. \A v \in Worker : worker'[v].job = worker[v].job
    BY <1>3 DEF Handle, Goto, Stop, WorkerState
  <2> QED  BY <1>2, <2>1
<1>4. ASSUME NEW w \in Worker,
             CompleteBackgroundJob(w) \/ FailBackgroundJob(w) \/ Start(w) \/ LoopReturns(w) \/ Crash(w)
      PROVE  OneHandler'
  <2>1. \A v \in Worker : worker'[v].job \in {worker[v].job, NoJob}
    BY <1>4, ReportOutcome DEF Start, LoopReturns, Crash, Idle, Gone
  <2> QED  BY <1>2, <2>1
<1>5. CASE UNCHANGED worker
    BY <1>2, <1>5
<1>6. ASSUME NEW j \in Job, Client(j) \/ Clock(j) PROVE UNCHANGED worker
    BY <1>6 DEF Client, Clock, EnqueueBackgroundJob, RetryBackgroundJob, BecomesDue, LeaseExpires
<1>7. ASSUME NEW w \in Worker, SweepExhausted(w) PROVE UNCHANGED worker
    BY <1>7 DEF SweepExhausted
<1>8. DeleteConversation \/ UNCHANGED vars => UNCHANGED worker
    BY DEF DeleteConversation, vars
<1> QED
    BY <1>1, <1>3, <1>4, <1>5, <1>6, <1>7, <1>8 DEF Next, ProcessNext

(***************************************************************************)
(* As long as leases outlive their handlers no job is ever in the hands of *)
(* two workers, whatever crashes and lost commits occur, and even when the *)
(* job is deleted under the handler.                                       *)
(***************************************************************************)
THEOREM Exclusion ==
    ASSUME "liveExpiry" \notin Faults
    PROVE  Spec => []OneHandler
<1>1. Init => LeasesHold /\ OneHandler
    BY DEF Init, LeasesHold, OneHandler, Off
<1>2. IInv /\ LeasesHold /\ OneHandler /\ [Next]_vars => LeasesHold' /\ OneHandler'
    BY LeasesHoldStep, OneHandlerStep
<1> QED  BY <1>1, <1>2, Invariance, PTL DEF Spec

-----------------------------------------------------------------------------
(* The queue implements AtLeastOnce *)

answerBar == [j \in Job |-> Answer(row[j])]
triesBar == [j \in Job |-> row[j].attempt]

\* With no job enqueued nothing is promised.
LEMMA PromiseInit == Init => Promise!Init
  BY DEF Init, Promise!Init, NoRow, Answer

(***************************************************************************)
(* A step that changes neither status nor attempt of a row is no step of   *)
(* the promise, unless a handler takes effect.                             *)
(***************************************************************************)
LEMMA PromiseStutter ==
    ASSUME \A j \in Job : row'[j].status = row[j].status /\ row'[j].attempt = row[j].attempt,
           effect' = effect
    PROVE  UNCHANGED Promise!vars
<1>1. \A j \in Job : Answer(row'[j]) = Answer(row[j])
    BY DEF Answer
<1> QED  BY <1>1 DEF Promise!vars

(***************************************************************************)
(* Tries beginning and jobs being given up, seen through the mapping.      *)
(***************************************************************************)
Advances(begun, lost) ==
    /\ begun \subseteq Job
    /\ lost \subseteq Job
    /\ \A j \in begun : /\ Answer(row[j]) = "open" /\ row[j].attempt < MaxAttempts
                        /\ Answer(row'[j]) = "open" /\ row'[j].attempt = row[j].attempt + 1
    /\ \A j \in lost : /\ Answer(row[j]) = "open" /\ row[j].attempt = MaxAttempts
                       /\ row'[j].status = "failed" /\ row'[j].attempt = row[j].attempt
    /\ \A j \in Job : j \notin begun /\ j \notin lost =>
          row'[j].attempt = row[j].attempt /\ Answer(row'[j]) = Answer(row[j])
    /\ effect' = effect

\* A claim begins one try and gives up the jobs whose tries are spent.
LEMMA AdvanceStep ==
    ASSUME IInv, NEW begun, NEW lost, Advances(begun, lost)
    PROVE  Promise!Next
<1> USE DEF Advances
<1>1. \A j \in Job : row[j].attempt \in Nat
    BY DEF IInv, TypeOK, Row
<1>2. \A j \in begun : row[j].attempt # MaxAttempts
    BY <1>1
<1>3. begun \subseteq Promise!Open \ Promise!Spent /\ lost \subseteq Promise!Spent
    BY <1>2 DEF Promise!Open, Promise!Spent
<1>4. \A j \in lost : j \notin begun
    BY <1>2
<1>5. triesBar' = [j \in Job |-> IF j \in begun THEN triesBar[j] + 1 ELSE triesBar[j]]
    BY <1>4 DEF triesBar
<1>6. \A j \in lost : Answer(row'[j]) = "failed"
    BY DEF Answer
<1>7. answerBar' = [j \in Job |-> IF j \in lost THEN "failed" ELSE answerBar[j]]
    BY <1>4, <1>6 DEF answerBar
<1>8. Promise!Advance(begun, lost)
    BY <1>3, <1>5, <1>7 DEF Promise!Advance, answerBar, triesBar
<1> QED  BY <1>8 DEF Promise!Next

(***************************************************************************)
(* Every step of the queue is a step of the promise or a stutter.          *)
(***************************************************************************)
LEMMA PromiseStep == IInv /\ [Next]_vars => [Promise!Next]_(Promise!vars)
<1> SUFFICES ASSUME IInv, [Next]_vars PROVE Promise!Next \/ UNCHANGED Promise!vars
    OBVIOUS
<1> USE DEF IInv
<1>a. \A j \in Job : row[j] \in Row
    BY DEF TypeOK
<1>1. ASSUME NEW j \in Job, EnqueueBackgroundJob(j) PROVE Promise!Accept(j)
  <2>1. row[j].attempt = 0 /\ row[j].status = "absent"
    BY <1>1 DEF EnqueueBackgroundJob, GoneIsBlank, NoRow
  <2>2. row' = [row EXCEPT ![j] = Fresh] /\ effect' = effect
    BY <1>1 DEF EnqueueBackgroundJob
  <2>3. Answer(row[j]) = "none" /\ Answer(Fresh) = "open" /\ Fresh.attempt = 0
    BY <2>1 DEF Answer, Fresh
  <2>4. answerBar' = [answerBar EXCEPT ![j] = "open"]
    BY <2>2, <2>3 DEF answerBar, TypeOK
  <2>5. triesBar' = triesBar
    BY <2>1, <2>2, <2>3 DEF triesBar, TypeOK
  <2> QED  BY <2>2, <2>3, <2>4, <2>5 DEF Promise!Accept, answerBar, triesBar
<1>2. ASSUME NEW j \in Job, RetryBackgroundJob(j) PROVE Promise!Revive(j)
  <2>1. row[j].status = "failed"
    BY <1>2 DEF RetryBackgroundJob, Retriable
  <2>2. row' = [row EXCEPT ![j] = Fresh] /\ effect' = effect
    BY <1>2 DEF RetryBackgroundJob
  <2>3. Answer(row[j]) = "failed" /\ Answer(Fresh) = "open" /\ Fresh.attempt = 0
    BY <2>1 DEF Answer, Fresh
  <2>4. answerBar' = [answerBar EXCEPT ![j] = "open"]
    BY <2>2, <2>3 DEF answerBar, TypeOK
  <2>5. triesBar' = [triesBar EXCEPT ![j] = 0]
    BY <2>2, <2>3 DEF triesBar, TypeOK
  <2> QED  BY <2>2, <2>3, <2>4, <2>5 DEF Promise!Revive, answerBar, triesBar
<1>3. ASSUME NEW j \in Job, Clock(j) PROVE UNCHANGED Promise!vars
  <2>1. /\ effect' = effect
        /\ \/ row' = [row EXCEPT ![j] = [row[j] EXCEPT !.due = TRUE]]
           \/ row' = [row EXCEPT ![j] = [row[j] EXCEPT !.expired = TRUE]]
    BY <1>3 DEF Clock, BecomesDue, LeaseExpires
  <2>2. \A k \in Job \ {j} : row'[k] = row[k]
    BY <2>1 DEF TypeOK
  <2>3. row'[j].status = row[j].status /\ row'[j].attempt = row[j].attempt
    BY <2>1, <1>a DEF TypeOK, Row
  <2> QED  BY <2>1, <2>2, <2>3, PromiseStutter
<1>4. ASSUME NEW w \in Worker, Start(w) \/ Stop(w) \/ LoopReturns(w) \/ Crash(w)
      PROVE UNCHANGED Promise!vars
    BY <1>4, PromiseStutter DEF Start, Stop, LoopReturns, Crash
<1>5. CASE UNCHANGED vars
    BY <1>5, PromiseStutter DEF vars
<1>7. ASSUME NEW w \in Worker, ClaimBackgroundJob(w)
      PROVE  Promise!Next
  <2>1. PICK j \in Job : Claimable(j) /\ row' = [Swept EXCEPT ![j] = Claimed(row[j], w)]
    BY <1>7 DEF ClaimBackgroundJob
  <2>2. effect' = effect
    BY <1>7 DEF ClaimBackgroundJob
  <2>3. row'[j].status = "executing" /\ row'[j].attempt = row[j].attempt + 1
    BY <1>a, <2>1, SweptRows, RowFields
  <2>4. row[j].status \in {"pending", "executing"} /\ row[j].attempt < MaxAttempts
    BY <2>1 DEF Claimable, Lapsed, BudgetKept
  <2>5. Answer(row[j]) = "open" /\ Answer(row'[j]) = "open"
    BY <2>3, <2>4 DEF Answer
  <2> DEFINE lost == {k \in Job \ {j} : row'[k] # row[k]}
  <2>6. \A k \in Job \ {j} : row'[k] = Swept[k]
    BY <2>1, SweptRows
  <2>7. \A k \in lost : row[k].status = "executing" /\ row[k].attempt = MaxAttempts
                        /\ row'[k].status = "failed" /\ row'[k].attempt = row[k].attempt
    <3>1. \A k \in Job : row[k].attempt \in Nat /\ row[k].attempt <= MaxAttempts
      BY <1>a DEF Row, BudgetKept
    <3> QED  BY <2>6, <3>1, SweptRows
  <2>8. \A k \in lost : Answer(row[k]) = "open"
    BY <2>7 DEF Answer
  <2>9. \A k \in Job : k \notin {j} /\ k \notin lost => row'[k] = row[k]
    OBVIOUS
  <2>10. {j} \subseteq Job /\ lost \subseteq Job
    OBVIOUS
  <2> HIDE DEF lost
  <2> QED
    <3>1. Advances({j}, lost)
      BY <2>2, <2>3, <2>4, <2>5, <2>7, <2>8, <2>9, <2>10 DEF Advances
    <3> QED  BY <3>1, AdvanceStep
<1>8. ASSUME NEW w \in Worker, SweepExhausted(w)
      PROVE  Promise!Next
  <2> DEFINE lost == {k \in Job : row'[k] # row[k]}
  <2>1. row' = Swept /\ effect' = effect
    BY <1>8 DEF SweepExhausted
  <2>2. \A k \in lost : row[k].status = "executing" /\ row[k].attempt = MaxAttempts
                        /\ row'[k].status = "failed" /\ row'[k].attempt = row[k].attempt
    <3>1. \A k \in Job : row[k].attempt \in Nat /\ row[k].attempt <= MaxAttempts
      BY <1>a DEF Row, BudgetKept
    <3> QED  BY <2>1, <3>1, SweptRows
  <2>3. \A k \in lost : Answer(row[k]) = "open"
    BY <2>2 DEF Answer
  <2>4. \A k \in Job : k \notin {} /\ k \notin lost => row'[k] = row[k]
    OBVIOUS
  <2>5. {} \subseteq Job /\ lost \subseteq Job
    OBVIOUS
  <2> HIDE DEF lost
  <2> QED
    <3>1. Advances({}, lost)
      BY <2>1, <2>2, <2>3, <2>4, <2>5 DEF Advances
    <3> QED  BY <3>1, AdvanceStep
<1>9. ASSUME NEW w \in Worker, Handle(w) PROVE Promise!Next \/ UNCHANGED Promise!vars
  <2>1. UNCHANGED row /\ worker[w].job \in Job
    BY <1>9 DEF Handle, WorkerKnowsJob
  <2>2. effect' = effect \/ effect' = effect \cup {worker[w].job}
    BY <1>9 DEF Handle
  <2>3. CASE effect' = effect
    BY <2>1, <2>3, PromiseStutter
  <2>4. CASE effect' = effect \cup {worker[w].job}
    <3>1. row[worker[w].job].status \in {"pending", "executing", "completed", "failed", "deleted"}
      BY <1>a, <2>1 DEF HeldJobsExist, Row, Status
    <3>2. Answer(row[worker[w].job]) # "none"
      BY <3>1 DEF Answer
    <3>3. Promise!TakeEffect(worker[w].job)
      BY <2>1, <2>4, <3>2 DEF Promise!TakeEffect
    <3> QED  BY <2>1, <3>3 DEF Promise!Next
  <2> QED  BY <2>2, <2>3, <2>4
<1>10. ASSUME NEW w \in Worker, CompleteBackgroundJob(w) \/ FailBackgroundJob(w)
       PROVE Promise!Next \/ UNCHANGED Promise!vars
  <2> DEFINE j == worker[w].job
  <2>1. j \in Job /\ effect' = effect
    BY <1>10, ReportOutcome
  <2>2. CASE UNCHANGED row
    BY <2>1, <2>2, PromiseStutter
  <2>3. CASE /\ Holds(w, j)
             /\ \A k \in Job \ {j} : row'[k] = row[k]
             /\ row'[j].attempt = row[j].attempt
             /\ \/ row'[j].status = "completed" /\ j \in effect
                \/ row'[j].status = "failed" /\ row[j].attempt = MaxAttempts
                \/ row'[j].status = "pending" /\ row[j].attempt < MaxAttempts
    <3> HIDE DEF j
    <3>1. Answer(row[j]) = "open"
      BY <2>3 DEF Holds, Answer
    <3>2. CASE row'[j].status = "completed" /\ j \in effect
      <4>1. Answer(row'[j]) = "completed"
        BY <3>2 DEF Answer
      <4>2. answerBar' = [answerBar EXCEPT ![j] = "completed"] /\ triesBar' = triesBar
        BY <2>1, <2>3, <4>1 DEF answerBar, triesBar
      <4>3. Promise!Complete(j)
        BY <2>1, <3>1, <3>2, <4>2 DEF Promise!Complete, answerBar, triesBar
      <4> QED  BY <2>1, <4>3 DEF Promise!Next
    <3>3. CASE row'[j].status = "failed" /\ row[j].attempt = MaxAttempts
      <4>1. {} \subseteq Job /\ {j} \subseteq Job
        BY <2>1
      <4> QED
        <5>1. Advances({}, {j})
          BY <2>1, <2>3, <3>1, <3>3, <4>1 DEF Advances
        <5> QED  BY <5>1, AdvanceStep
    <3>4. CASE row'[j].status = "pending"
      <4>1. Answer(row'[j]) = "open"
        BY <3>4 DEF Answer
      <4>2. UNCHANGED <<answerBar, triesBar>>
        BY <2>1, <2>3, <3>1, <4>1 DEF answerBar, triesBar
      <4> QED  BY <2>1, <4>2 DEF Promise!vars, answerBar, triesBar
    <3> QED  BY <2>3, <3>2, <3>3, <3>4
  <2> QED  BY <1>10, <2>2, <2>3, ReportOutcome
<1>11. CASE DeleteConversation
  <2>1. /\ row' = [j \in Job |-> IF j \in OfConversation THEN Deleted ELSE row[j]]
        /\ effect' = effect
    BY <1>11 DEF DeleteConversation
  <2>2. Deleted.status = "deleted" /\ Deleted.attempt = 0
    BY <1>11, DeletedRows
  <2>3. Answer(Deleted) = "withdrawn"
    BY <2>2 DEF Answer
  <2>4. /\ answerBar' = [j \in Job |-> IF j \in OfConversation THEN "withdrawn" ELSE answerBar[j]]
        /\ triesBar' = [j \in Job |-> IF j \in OfConversation THEN 0 ELSE triesBar[j]]
    BY <2>1, <2>2, <2>3 DEF answerBar, triesBar
  <2>5. Promise!Withdraw(OfConversation)
    BY <2>1, <2>4 DEF Promise!Withdraw, answerBar, triesBar
  <2> QED  BY <2>5 DEF Promise!Next
<1> QED
    BY <1>1, <1>2, <1>3, <1>4, <1>5, <1>7, <1>8, <1>9, <1>10, <1>11
    DEF Next, Client, ProcessNext, Promise!Next

(***************************************************************************)
(* The queue, with its leases, crashes and lost commits, implements the    *)
(* promise: tries within the budget, completion after the effect, no       *)
(* completed job tried again.                                              *)
(***************************************************************************)
THEOREM Implementation == Spec => PromiseSpec
  BY PromiseInit, PromiseStep, Invariance, PTL DEF Spec, PromiseSpec, Promise!Spec
=============================================================================
