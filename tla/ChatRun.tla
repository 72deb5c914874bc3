------------------------------- MODULE ChatRun -------------------------------
(***************************************************************************)
(* A chat request: SendWithModel of chat/service.go, with the approval     *)
(* gate of approval/service.go, the conversation lock, and the statements  *)
(* on the stored messages, runs, child runs, approvals and jobs.           *)
(*                                                                         *)
(* A request runs under its context: once the client is gone or the        *)
(* request has timed out, every further statement fails.  Requests on the  *)
(* same conversation queue for its lock; deciding an approval and deleting *)
(* a conversation take no lock.  Each request is taken to run in a process *)
(* of its own, so a crash ends one request; two requests of one process    *)
(* crash in two steps with anything in between.                            *)
(*                                                                         *)
(* Run events, telemetry, titles, feedback and what the model is told      *)
(* (history, recalled memories, summary) are abstracted; a failing write   *)
(* of an event that the code does not ignore is not.                       *)
(***************************************************************************)
EXTENDS Naturals, Sequences, FiniteSets

CONSTANTS
  Requests,        \* chat requests
  Conversations,   \* conversations
  ConversationOf,  \* the conversation each request is sent to
  NeedsApproval,   \* requests the approval policy stops (mode risky or all)
  Handoffs,        \* tool-call identifiers of hand-offs to specialists
  Nobody,          \* holder of a free lock
  Faults,          \* which faults may strike, see the assumption
  MaxFaults        \* bound on crashes, database faults and lost locks together

ASSUME RequestsAssumption ==
  /\ ConversationOf \in [Requests -> Conversations]
  /\ NeedsApproval \subseteq Requests
  /\ Nobody \notin Requests
  /\ Faults \subseteq {"disconnect", "database", "crash", "lock"}
  /\ MaxFaults \in Nat

VARIABLES
  pc,         \* where each request is in SendWithModel
  connected,  \* FALSE once the request context is cancelled
  cause,      \* the status failRun derives from the error it is given
  seen,       \* number of stored messages when the history was read
  decision,   \* what approval.Wait returned
  open,       \* childRuns without finishedChildRuns: hand-offs the handler tracks
  waiter,     \* the approval channel: "none", "empty" or the decision sent
  holder,     \* the advisory lock of each conversation
  exists,     \* the conversation row exists
  messages,   \* visible messages of each conversation, oldest first
  run,        \* status of each request's agent_runs row
  approval,   \* status of each request's approval_requests row
  child,      \* status of the agent_task_runs row of each hand-off
  jobs,       \* background work stored for the run
  faults      \* faults so far (crashes, database faults, lost locks)

local == <<pc, connected, cause, seen, decision, open, waiter>>
stored == <<exists, messages, run, approval, child, jobs>>
vars == <<local, holder, stored, faults>>

Stations == {"idle", "lock", "load", "say", "create", "announce", "request",
             "ask", "await", "wait", "decided", "stop", "execute", "sweep",
             "store", "output", "queue", "complete", "close", "failing",
             "unlock", "done", "crashed"}
Returned == {"done", "crashed"}
Decisions == {"approved", "rejected", "expired"}
Ended == {"completed", "failed", "cancelled", "rejected"}

Message == [role : {"user", "answer", "notice"}, of : Requests]
Written(r, role) == [role |-> role, of |-> r]

TypeOK ==
  /\ pc \in [Requests -> Stations]
  /\ connected \in [Requests -> BOOLEAN]
  /\ cause \in [Requests -> {"none", "failed", "cancelled"}]
  /\ seen \in [Requests -> Nat]
  /\ decision \in [Requests -> Decisions \cup {"none"}]
  /\ open \in [Requests -> SUBSET Handoffs]
  /\ waiter \in [Requests -> {"none", "empty", "approved", "rejected"}]
  /\ holder \in [Conversations -> Requests \cup {Nobody}]
  /\ exists \in [Conversations -> BOOLEAN]
  /\ messages \in [Conversations -> Seq(Message)]
  /\ run \in [Requests -> Ended \cup {"none", "running", "deleted"}]
  /\ approval \in [Requests -> Decisions \cup {"none", "pending", "deleted"}]
  /\ child \in [Requests -> [Handoffs ->
                 {"none", "running", "completed", "failed", "cancelled", "deleted"}]]
  /\ jobs \in [Requests -> SUBSET {"capture", "summary"}]
  /\ faults \in 0 .. MaxFaults

Init ==
  /\ pc = [r \in Requests |-> "idle"]
  /\ connected = [r \in Requests |-> TRUE]
  /\ cause = [r \in Requests |-> "none"]
  /\ seen = [r \in Requests |-> 0]
  /\ decision = [r \in Requests |-> "none"]
  /\ open = [r \in Requests |-> {}]
  /\ waiter = [r \in Requests |-> "none"]
  /\ holder = [c \in Conversations |-> Nobody]
  /\ exists = [c \in Conversations |-> TRUE]
  /\ messages = [c \in Conversations |-> <<>>]
  /\ run = [r \in Requests |-> "none"]
  /\ approval = [r \in Requests |-> "none"]
  /\ child = [r \in Requests |-> [h \in Handoffs |-> "none"]]
  /\ jobs = [r \in Requests |-> {}]
  /\ faults = 0
-----------------------------------------------------------------------------
(* How a statement can end.  "ok": done and acknowledged.  "fail": not      *)
(* done.  "lost": done, but the reply is lost.  "cut": the context ends     *)
(* while the statement is on its way; it is done all the same.  "gone": the *)
(* write to the client that follows the statement fails.                    *)

Conversation(r) == ConversationOf[r]
Present(r) == exists[Conversation(r)]
Live(r) == connected[r] /\ Present(r)

MayFault(kind) == kind \in Faults /\ faults < MaxFaults

Outcomes(r) ==
  IF Live(r)
  THEN {"ok"} \cup (IF "disconnect" \in Faults THEN {"cut"} ELSE {})
              \cup (IF MayFault("database") THEN {"fail", "lost"} ELSE {})
  ELSE {"fail"}

Told(r) == Outcomes(r) \cup (IF Live(r) /\ "disconnect" \in Faults THEN {"gone"} ELSE {})

Done(o) == o \in {"ok", "lost", "cut"}

(* What an outcome does to the request: the context, the error, the budget. *)
Suffer(r, o) ==
  /\ connected' = [connected EXCEPT ![r] = @ /\ o \notin {"cut", "gone"}]
  /\ cause' = [cause EXCEPT ![r] =
       IF o = "ok" THEN @
       ELSE IF o = "cut" \/ ~connected[r] THEN "cancelled" ELSE "failed"]
  /\ faults' = IF Live(r) /\ o \in {"fail", "lost"} THEN faults + 1 ELSE faults

Goto(r, station) == pc' = [pc EXCEPT ![r] = station]

Store(r, role) ==
  messages' = [messages EXCEPT ![Conversation(r)] = Append(@, Written(r, role))]
-----------------------------------------------------------------------------
(* Before the run exists: an error simply returns. *)

Arrive(r) ==
  /\ pc[r] = "idle"
  /\ Goto(r, "lock")
  /\ UNCHANGED <<connected, cause, seen, decision, open, waiter, holder, stored, faults>>

\* Mutant: the lock is shared.
Free_Shared(c) == c \in Conversations
Free(c) == holder[c] = Nobody

AcquireConversationLock(r) ==
  /\ pc[r] = "lock"
  /\ connected[r]
  /\ Free(Conversation(r))
  /\ holder' = [holder EXCEPT ![Conversation(r)] = r]
  /\ Goto(r, "load")
  /\ UNCHANGED <<connected, cause, seen, decision, open, waiter, stored, faults>>

(* The wait for the lock ends with the context. *)
GiveUpLock(r) ==
  /\ pc[r] = "lock"
  /\ ~connected[r]
  /\ Goto(r, "done")
  /\ UNCHANGED <<connected, cause, seen, decision, open, waiter, holder, stored, faults>>

(* GetConversation, ListMessages and the input guard, which may refuse. *)
LoadHistory(r) ==
  /\ pc[r] = "load"
  /\ \E o \in Outcomes(r), allowed \in BOOLEAN :
       /\ Suffer(r, o)
       /\ seen' = [seen EXCEPT ![r] = Len(messages[Conversation(r)])]
       /\ Goto(r, IF o = "ok" /\ allowed THEN "say" ELSE "unlock")
  /\ UNCHANGED <<decision, open, waiter, holder, stored>>

AddUserMessage(r) ==
  /\ pc[r] = "say"
  /\ \E o \in Outcomes(r) :
       /\ Suffer(r, o)
       /\ IF Done(o) THEN Store(r, "user") ELSE UNCHANGED messages
       /\ Goto(r, IF o = "ok" THEN "create" ELSE "unlock")
  /\ UNCHANGED <<seen, decision, open, waiter, holder, exists, run, approval, child, jobs>>

CreateRun(r) ==
  /\ pc[r] = "create"
  /\ \E o \in Outcomes(r) :
       /\ Suffer(r, o)
       /\ run' = [run EXCEPT ![r] = IF Done(o) THEN "running" ELSE @]
       /\ Goto(r, IF o = "ok" THEN "announce" ELSE "unlock")
  /\ UNCHANGED <<seen, decision, open, waiter, holder, exists, messages, approval, child, jobs>>

(* run_started, the start event, and the topic-shift notice if there is one. *)
Announce(r) ==
  /\ pc[r] = "announce"
  /\ \E o \in Told(r) :
       /\ Suffer(r, o)
       /\ Goto(r, IF o # "ok" THEN "failing"
                  ELSE IF r \in NeedsApproval THEN "request" ELSE "execute")
  /\ UNCHANGED <<seen, decision, open, waiter, holder, stored>>
-----------------------------------------------------------------------------
(* The approval gate. *)

(* Request registers the waiter, then stores the record; an error removes   *)
(* the waiter again.                                                        *)
RequestApproval(r) ==
  /\ pc[r] = "request"
  /\ \E o \in Outcomes(r) :
       /\ Suffer(r, o)
       /\ approval' = [approval EXCEPT ![r] = IF Done(o) THEN "pending" ELSE @]
       /\ waiter' = [waiter EXCEPT ![r] = IF o = "ok" THEN "empty" ELSE "none"]
       /\ Goto(r, IF o = "ok" THEN "ask" ELSE "failing")
  /\ UNCHANGED <<seen, decision, open, holder, exists, messages, run, child, jobs>>

(* approval_required, to the trail and to the client.  An error leaves the  *)
(* record pending.                                                          *)
AskForApproval(r) ==
  /\ pc[r] = "ask"
  /\ \E o \in Told(r) : Suffer(r, o) /\ Goto(r, IF o = "ok" THEN "await" ELSE "failing")
  /\ UNCHANGED <<seen, decision, open, waiter, holder, stored>>

Decided(r) == approval[r] # "pending"

(* Wait first looks at the record; an error returns before the select.      *)
BeginWait(r) ==
  /\ pc[r] = "await"
  /\ \E o \in Outcomes(r) :
       /\ Suffer(r, o)
       /\ IF o = "ok" /\ Decided(r)
          THEN decision' = [decision EXCEPT ![r] = approval[r]] /\ Goto(r, "decided")
          ELSE UNCHANGED decision /\ Goto(r, IF o = "ok" THEN "wait" ELSE "failing")
  /\ UNCHANGED <<seen, open, waiter, holder, stored>>

(* The select of Wait: each ready branch may be taken, and the waiter goes. *)
EndWait(r, d) ==
  /\ decision' = [decision EXCEPT ![r] = d]
  /\ waiter' = [waiter EXCEPT ![r] = "none"]
  /\ Goto(r, "decided")

AbandonWait(r, status) ==
  /\ cause' = [cause EXCEPT ![r] = status]
  /\ waiter' = [waiter EXCEPT ![r] = "none"]
  /\ Goto(r, "failing")

HearDecision(r) ==
  /\ pc[r] = "wait"
  /\ waiter[r] \in Decisions
  /\ EndWait(r, waiter[r])
  /\ UNCHANGED <<connected, cause, seen, open, holder, stored, faults>>

PollDecision(r) ==
  /\ pc[r] = "wait"
  /\ Live(r)
  /\ Decided(r)
  /\ EndWait(r, approval[r])
  /\ UNCHANGED <<connected, cause, seen, open, holder, stored, faults>>

\* Mutant: Wait has no timer.
TimeOutWait_Never(r) == pc[r] = "wait" /\ FALSE /\ UNCHANGED vars

(* The timer: expire the record, or take the decision that was faster.      *)
TimeOutWait(r) ==
  /\ pc[r] = "wait"
  /\ \/ /\ Present(r)
        /\ LET d == IF approval[r] = "pending" THEN "expired" ELSE approval[r]
           IN  approval' = [approval EXCEPT ![r] = d] /\ EndWait(r, d)
        /\ UNCHANGED <<cause, faults>>
     \/ /\ ~Present(r)
        /\ AbandonWait(r, "failed")
        /\ UNCHANGED <<decision, approval, faults>>
     \/ /\ Present(r) /\ MayFault("database")
        /\ faults' = faults + 1
        /\ \E status \in {"failed", "cancelled"} : AbandonWait(r, status)
        /\ UNCHANGED <<decision, approval>>
  /\ UNCHANGED <<connected, seen, open, holder, exists, messages, run, child, jobs>>

(* The context ends: expire the record, whatever comes of it.               *)
CancelWait(r) ==
  /\ pc[r] = "wait"
  /\ ~connected[r]
  /\ \/ /\ approval' = [approval EXCEPT ![r] = IF @ = "pending" THEN "expired" ELSE @]
        /\ UNCHANGED faults
     \/ MayFault("database") /\ faults' = faults + 1 /\ UNCHANGED approval
  /\ AbandonWait(r, "cancelled")
  /\ UNCHANGED <<connected, seen, decision, open, holder, exists, messages, run, child, jobs>>

\* Mutant: only a rejection stops the run.
Approved_UnlessRejected(r) == decision[r] # "rejected"
Approved(r) == decision[r] = "approved"

(* The approval_* event; an approved run also tells the client.             *)
RecordDecision(r) ==
  /\ pc[r] = "decided"
  /\ \E o \in (IF Approved(r) THEN Told(r) ELSE Outcomes(r)) :
       /\ Suffer(r, o)
       /\ Goto(r, IF o # "ok" THEN "failing"
                  ELSE IF Approved(r) THEN "execute" ELSE "stop")
  /\ UNCHANGED <<seen, decision, open, waiter, holder, stored>>

(* stopAfterApproval stores a notice instead of an answer.                  *)
StopAfterApproval(r) ==
  /\ pc[r] = "stop"
  /\ \E o \in Outcomes(r) :
       /\ Suffer(r, o)
       /\ IF Done(o) THEN Store(r, "notice") ELSE UNCHANGED messages
       /\ Goto(r, IF o = "ok" THEN "complete" ELSE "failing")
  /\ UNCHANGED <<seen, decision, open, waiter, holder, exists, run, approval, child, jobs>>
-----------------------------------------------------------------------------
(* Execution: hand-offs, then an answer or an error. *)

Delegate(r, h) ==
  /\ pc[r] = "execute"
  /\ child[r][h] = "none"
  /\ \E o \in Outcomes(r) :
       /\ Suffer(r, o)
       /\ child' = [child EXCEPT ![r][h] = IF Done(o) THEN "running" ELSE @]
       /\ open' = [open EXCEPT ![r] = IF o = "ok" THEN @ \cup {h} ELSE @]
       /\ Goto(r, IF o = "ok" THEN "execute" ELSE "sweep")
  /\ UNCHANGED <<seen, decision, waiter, holder, exists, messages, run, approval, jobs>>

CompleteHandoff(r, h) ==
  /\ pc[r] = "execute"
  /\ h \in open[r]
  /\ \E o \in Outcomes(r) :
       /\ Suffer(r, o)
       /\ child' = [child EXCEPT ![r][h] = IF Done(o) THEN "completed" ELSE @]
       /\ open' = [open EXCEPT ![r] = IF o = "ok" THEN @ \ {h} ELSE @]
       /\ Goto(r, IF o = "ok" THEN "execute" ELSE "sweep")
  /\ UNCHANGED <<seen, decision, waiter, holder, exists, messages, run, approval, jobs>>

(* The model or a tool fails, runs into a deadline, or cannot be reported.  *)
ExecutionFails(r) ==
  /\ pc[r] = "execute"
  /\ \E status \in {"failed", "cancelled"} : cause' = [cause EXCEPT ![r] = status]
  /\ Goto(r, "sweep")
  /\ UNCHANGED <<connected, seen, decision, open, waiter, holder, stored, faults>>

(* Execute answers only when every tool call it made has its result.        *)
ExecutionAnswers(r) ==
  /\ pc[r] = "execute"
  /\ connected[r]
  /\ open[r] = {}
  /\ Goto(r, "store")
  /\ UNCHANGED <<connected, cause, seen, decision, open, waiter, holder, stored, faults>>

\* Mutant: written under the request context.
Swept_UnderRequest(r, missed) ==
  [h \in Handoffs |-> IF Live(r) /\ h \in open[r] \ missed THEN cause[r] ELSE child[r][h]]
Swept(r, missed) ==
  [h \in Handoffs |-> IF Present(r) /\ h \in open[r] \ missed THEN cause[r] ELSE child[r][h]]

(* finishActiveChildRuns, under a context of its own; errors are ignored.   *)
FinishActiveChildRuns(r) ==
  /\ pc[r] = "sweep"
  /\ \E missed \in SUBSET open[r] :
       /\ missed = {} \/ MayFault("database")
       /\ faults' = IF missed = {} THEN faults ELSE faults + 1
       /\ child' = [child EXCEPT ![r] = Swept(r, missed)]
  /\ Goto(r, "failing")
  /\ UNCHANGED <<connected, cause, seen, decision, open, waiter, holder,
                 exists, messages, run, approval, jobs>>

\* Mutant: stored again when the reply is lost.
StoreAnswer_Retried(r) ==
  /\ pc[r] = "store"
  /\ \E o \in Outcomes(r) :
       /\ Suffer(r, o)
       /\ IF Done(o)
          THEN Store(r, "answer") /\ jobs' = [jobs EXCEPT ![r] = @ \cup {"capture"}]
          ELSE UNCHANGED <<messages, jobs>>
       /\ Goto(r, IF o = "ok" THEN "output" ELSE IF o = "lost" THEN "store" ELSE "failing")
  /\ UNCHANGED <<seen, decision, open, waiter, holder, exists, run, approval, child>>

(* The answer and its memory-capture job are stored in one transaction.     *)
StoreAnswer(r) ==
  /\ pc[r] = "store"
  /\ \E o \in Outcomes(r) :
       /\ Suffer(r, o)
       /\ IF Done(o)
          THEN Store(r, "answer") /\ jobs' = [jobs EXCEPT ![r] = @ \cup {"capture"}]
          ELSE UNCHANGED <<messages, jobs>>
       /\ Goto(r, IF o = "ok" THEN "output" ELSE "failing")
  /\ UNCHANGED <<seen, decision, open, waiter, holder, exists, run, approval, child>>

RecordOutput(r) ==
  /\ pc[r] = "output"
  /\ \E o \in Outcomes(r) : Suffer(r, o) /\ Goto(r, IF o = "ok" THEN "queue" ELSE "failing")
  /\ UNCHANGED <<seen, decision, open, waiter, holder, stored>>

(* A summary job that cannot be stored does not fail the run.               *)
EnqueueSummary(r) ==
  /\ pc[r] = "queue"
  /\ \E o \in Outcomes(r) :
       /\ Suffer(r, o)
       /\ jobs' = [jobs EXCEPT ![r] = IF Done(o) THEN @ \cup {"summary"} ELSE @]
  /\ Goto(r, "complete")
  /\ UNCHANGED <<seen, decision, open, waiter, holder, exists, messages, run, approval, child>>
-----------------------------------------------------------------------------
(* The end of the run. *)

(* run_completed, or model_output and run_* of a stopped run.               *)
RecordEnd(r) ==
  /\ pc[r] = "complete"
  /\ \E o \in Outcomes(r) : Suffer(r, o) /\ Goto(r, IF o = "ok" THEN "close" ELSE "failing")
  /\ UNCHANGED <<seen, decision, open, waiter, holder, stored>>

\* Mutant: whatever is not approved counts as rejected.
Outcome_TwoWay(r) == IF decision[r] \in {"none", "approved"} THEN "completed" ELSE "rejected"

Outcome(r) ==
  CASE decision[r] = "rejected" -> "rejected"
    [] decision[r] = "expired"  -> "cancelled"
    [] OTHER                    -> "completed"

(* FinishRun under the request context: an error is returned, not repaired. *)
FinishRun(r) ==
  /\ pc[r] = "close"
  /\ \E o \in Outcomes(r) :
       /\ Suffer(r, o)
       /\ run' = [run EXCEPT ![r] = IF Done(o) THEN Outcome(r) ELSE @]
  /\ Goto(r, "unlock")
  /\ UNCHANGED <<seen, decision, open, waiter, holder, exists, messages, approval, child, jobs>>

\* Mutant: nothing is written.
FailRun_Silent(r) ==
  /\ pc[r] = "failing"
  /\ Goto(r, "unlock")
  /\ UNCHANGED <<connected, cause, seen, decision, open, waiter, holder, stored, faults>>

(* failRun, under a context of its own; errors are ignored.                 *)
FailRun(r) ==
  /\ pc[r] = "failing"
  /\ \/ /\ run' = [run EXCEPT ![r] = IF Present(r) THEN cause[r] ELSE @]
        /\ UNCHANGED faults
     \/ Present(r) /\ MayFault("database") /\ faults' = faults + 1 /\ UNCHANGED run
  /\ Goto(r, "unlock")
  /\ UNCHANGED <<connected, cause, seen, decision, open, waiter, holder,
                 exists, messages, approval, child, jobs>>

Freed(r) == [holder EXCEPT ![Conversation(r)] = IF @ = r THEN Nobody ELSE @]

Unlock(r) ==
  /\ pc[r] = "unlock"
  /\ holder' = Freed(r)
  /\ Goto(r, "done")
  /\ UNCHANGED <<connected, cause, seen, decision, open, waiter, stored, faults>>
-----------------------------------------------------------------------------
(* Everyone else. *)

(* Decide: one update of a pending record, then, if the request waits in    *)
(* this process, a send that does not block.                                *)
Decide(r, d) ==
  /\ approval[r] = "pending"
  /\ approval' = [approval EXCEPT ![r] = d]
  /\ \E here \in BOOLEAN :
       waiter' = [waiter EXCEPT ![r] = IF here /\ @ = "empty" THEN d ELSE @]
  /\ UNCHANGED <<pc, connected, cause, seen, decision, open, holder,
                 exists, messages, run, child, jobs, faults>>

(* DeleteConversation cascades to everything stored about it.               *)
DeleteConversation(c) ==
  LET Gone(r, status) == IF Conversation(r) = c /\ status # "none" THEN "deleted" ELSE status
  IN  /\ exists[c]
      /\ exists' = [exists EXCEPT ![c] = FALSE]
      /\ messages' = [messages EXCEPT ![c] = <<>>]
      /\ run' = [r \in Requests |-> Gone(r, run[r])]
      /\ approval' = [r \in Requests |-> Gone(r, approval[r])]
      /\ child' = [r \in Requests |-> [h \in Handoffs |-> Gone(r, child[r][h])]]
      /\ jobs' = [r \in Requests |-> IF Conversation(r) = c THEN {} ELSE jobs[r]]
      /\ UNCHANGED <<local, holder, faults>>

Active(r) == pc[r] \notin Returned \cup {"idle"}

(* The client leaves, or the request times out. *)
Disconnect(r) ==
  /\ "disconnect" \in Faults
  /\ Active(r) /\ connected[r]
  /\ connected' = [connected EXCEPT ![r] = FALSE]
  /\ UNCHANGED <<pc, cause, seen, decision, open, waiter, holder, stored, faults>>

(* The process dies; the database frees the lock of its connection.         *)
Crash(r) ==
  /\ MayFault("crash")
  /\ Active(r)
  /\ faults' = faults + 1
  /\ Goto(r, "crashed")
  /\ waiter' = [waiter EXCEPT ![r] = "none"]
  /\ holder' = Freed(r)
  /\ UNCHANGED <<connected, cause, seen, decision, open, stored>>

(* The connection that carries the lock breaks; nothing tells the request.  *)
LoseLock(r) ==
  /\ MayFault("lock")
  /\ holder[Conversation(r)] = r
  /\ faults' = faults + 1
  /\ holder' = Freed(r)
  /\ UNCHANGED <<local, stored>>
-----------------------------------------------------------------------------
Enter(r) == Arrive(r) \/ GiveUpLock(r) \/ LoadHistory(r) \/ AddUserMessage(r)
            \/ CreateRun(r) \/ Announce(r)

Wait(r) == HearDecision(r) \/ PollDecision(r) \/ TimeOutWait(r) \/ CancelWait(r)

Gate(r) == RequestApproval(r) \/ AskForApproval(r) \/ BeginWait(r) \/ Wait(r)
           \/ RecordDecision(r) \/ StopAfterApproval(r)

Execute(r) == \/ \E h \in Handoffs : Delegate(r, h) \/ CompleteHandoff(r, h)
              \/ ExecutionFails(r) \/ ExecutionAnswers(r) \/ FinishActiveChildRuns(r)

Finish(r) == StoreAnswer(r) \/ RecordOutput(r) \/ EnqueueSummary(r) \/ RecordEnd(r)
             \/ FinishRun(r) \/ FailRun(r) \/ Unlock(r)

Handle(r) == Enter(r) \/ Gate(r) \/ Execute(r) \/ Finish(r)

Environment ==
  \/ \E r \in Requests : Disconnect(r) \/ Crash(r) \/ LoseLock(r)
  \/ \E r \in Requests, d \in {"approved", "rejected"} : Decide(r, d)
  \/ \E c \in Conversations : DeleteConversation(c)

Next == Environment \/ \E r \in Requests : AcquireConversationLock(r) \/ Handle(r)

Spec == Init /\ [][Next]_vars

(* A handler runs on; PostgreSQL serves those queueing for a lock in turn.  *)
(* Nobody has to decide, leave, crash or delete.                            *)
FairSpec ==
  /\ Spec
  /\ \A r \in Requests : WF_vars(Handle(r)) /\ SF_vars(AcquireConversationLock(r))
-----------------------------------------------------------------------------
(* Properties *)

Stands(r, role) == LET log == messages[Conversation(r)]
                   IN  \E i \in DOMAIN log : log[i] = Written(r, role)

(* The history a request read is the whole conversation until it adds its   *)
(* own question, and its question is the last message until it adds its own *)
(* reply: nobody else's question or reply comes in between (service.go:375, *)
(* the conversation lock).  Holds as long as no lock is lost.               *)
HistoryIsCurrent ==
  \A r \in Requests : Present(r) =>
    LET log == messages[Conversation(r)]
    IN  /\ pc[r] = "say" => Len(log) = seen[r]
        /\ pc[r] \in {"create", "announce", "request", "ask", "await", "wait", "decided",
                      "stop", "execute", "sweep", "store"} =>
             Len(log) = seen[r] + 1 /\ log[seen[r] + 1] = Written(r, "user")
        /\ pc[r] \in {"output", "queue"} =>
             Len(log) = seen[r] + 2 /\ log[seen[r] + 2] = Written(r, "answer")

(* What needs approval neither runs, nor delegates, nor answers unless the  *)
(* stored record says approved, however the decision, the timer, the client *)
(* and the deletion of the conversation race (approval/service.go Wait).    *)
NothingRunsUnapproved ==
  \A r \in NeedsApproval :
    \/ pc[r] \in {"execute", "sweep", "store", "output", "queue"}
    \/ \E h \in Handoffs : child[r][h] # "none"
    \/ Stands(r, "answer")
    => approval[r] \in {"approved", "deleted"}

(* The run, the conversation and the approval record tell the same story:   *)
(* completed means answered and remembered, with approval if one was        *)
(* needed; rejected means a human said no and the user was told; a notice   *)
(* is never shown for an approved run; an answer always comes with its      *)
(* capture job (memory/types.go:161).                                       *)
RunTellsWhatHappened ==
  \A r \in Requests :
    /\ run[r] = "completed" => Stands(r, "answer")
    /\ run[r] = "completed" /\ r \in NeedsApproval => approval[r] = "approved"
    /\ run[r] = "rejected" => Stands(r, "notice") /\ approval[r] = "rejected"
    /\ Stands(r, "notice") => approval[r] \in {"rejected", "expired"}
    /\ Stands(r, "answer") <=> "capture" \in jobs[r]

(* When a run has ended, the specialist runs its handler knew about have    *)
(* ended too, unless something else failed (service.go:713-714).            *)
NoTrackedChildLeftRunning ==
  \A r \in Requests :
    faults = 0 /\ run[r] \in Ended =>
      \A h \in open[r] : child[r][h] # "running"

(* A decision and the end of a run are final: only deletion takes them      *)
(* away.  FinishRun is an unconditional update, so for runs this rests on   *)
(* the order of the handler's steps.                                        *)
VerdictsAreFinal ==
  [][\A r \in Requests :
       /\ run[r] \in Ended => run'[r] \in {run[r], "deleted"}
       /\ approval[r] \in Decisions => approval'[r] \in {approval[r], "deleted"}]_vars

(* The conversation is a sequence of turns (TurnLog). *)
Turns == INSTANCE TurnLog WITH log <- messages, floor <- holder
TurnsAreSerial == Turns!Spec

(* Every request returns, whatever fails, and so frees its conversation:    *)
(* the lock, the approval timer and the cleanup never wait for anyone who   *)
(* need not move.                                                           *)
RequestsReturn == \A r \in Requests : pc[r] # "idle" ~> pc[r] \in Returned

(* With a client that stays and a database that works, neither a run nor an *)
(* approval stays open.                                                     *)
SettlesUndisturbed ==
  \A r \in Requests :
    (run[r] = "running" \/ approval[r] = "pending")
      ~> \/ run[r] # "running" /\ approval[r] # "pending"
         \/ ~connected[r] \/ faults > 0

(* docs/architecture.md:55: even if the browser disconnects, a run does not *)
(* stay running for ever.  FinishRun at service.go:810 and 874 uses the     *)
(* request context, and its error is returned without failRun, so a run     *)
(* that executed, answered and recorded run_completed may.                  *)
RunsSettle ==
  \A r \in Requests : run[r] = "running" /\ pc[r] = "execute" ~> run[r] # "running"

(* docs/technical-design.md:468: a run whose Pod crashed ends as cancelled  *)
(* or failed.  Nothing looks for runs that were left running.               *)
CrashedRunsSettle ==
  \A r \in Requests : run[r] = "running" /\ pc[r] = "crashed" ~> run[r] # "running"

(* approval/service.go:139: when the request is cancelled, its approval     *)
(* lapses.  Only the select of Wait does that; a context that ends after    *)
(* Request and before the select leaves the record pending.                 *)
ApprovalsLapse ==
  \A r \in Requests : approval[r] = "pending" /\ ~connected[r] ~> approval[r] # "pending"
=============================================================================
