-------------------------- MODULE OfficeOperation --------------------------
(***************************************************************************)
(* Confirmed office work: a draft is confirmed by a person, an operation   *)
(* is prepared for it, and a request executes the operation against        *)
(* Microsoft Graph under a database lease (internal/office, the office     *)
(* tables of internal/store, internal/mcpbridge/office_executor.go).       *)
(*                                                                         *)
(* A draft has at most one operation (draft_id is UNIQUE), so the          *)
(* operation table is a function of the draft.  A process is one           *)
(* incarnation of the server: NewService gives it one workerID for life,   *)
(* the lease owner of every operation it executes.  A caller is one        *)
(* ExecuteOperation call in flight.  Time is abstract: a lease is either   *)
(* running or expired.                                                     *)
(***************************************************************************)
EXTENDS Naturals, FiniteSets

CONSTANTS Draft, NoDraft,      \* office drafts
          KindOf,              \* kind of each draft, "email" or "calendar"
          Process, NoProcess,  \* server incarnations; NoProcess: lease_owner = ''
          Caller,              \* ExecuteOperation calls that may be in flight
          Remote, NoRemote,    \* Graph identifiers; NoRemote: external_reference = ''
          MaxAttempt,          \* bound on the claims of one operation
          BatchSize,           \* recoveryBatchSize
          Faults               \* what the environment may do

(***************************************************************************)
(* The faults an instance admits.                                          *)
(*   crash          a process may exit at any point                        *)
(*   dbError        a checkpoint or finish may fail without effect         *)
(*   unknownCommit  a transaction may commit while its caller sees an error*)
(*   liveExpiry     a lease may run out while its attempt still runs       *)
(*   overlap        two starting processes may recover at the same time    *)
(***************************************************************************)
AllFaults == {"crash", "dbError", "unknownCommit", "liveExpiry", "overlap"}

ASSUME OfficeAssumption ==
    /\ KindOf \in [Draft -> {"email", "calendar"}]
    /\ NoDraft \notin Draft
    /\ NoProcess \notin Process
    /\ NoRemote \notin Remote
    /\ MaxAttempt \in Nat
    /\ BatchSize \in Nat \ {0}
    /\ Faults \subseteq AllFaults

VARIABLES draft,      \* office_drafts.status; "absent" when there is no row
          op,         \* the office_operations row of each draft
          remote,     \* the Graph mailbox and calendar
          late,       \* messages whose send request outlived its caller
          process,    \* life cycle of each incarnation
          recovery,   \* RecoverExpiredOperations of each starting process
          call        \* the locals of each ExecuteOperation call

vars == <<draft, op, remote, late, process, recovery, call>>

DraftStatus == {"absent", "draft", "pending_confirmation", "approved",
                "rejected", "executing", "completed", "failed"}
OpStatus == {"none", "pending", "executing", "completed", "failed"}
Ref == Remote \cup {NoRemote}
Owner == Process \cup {NoProcess}

Operation == [status: OpStatus, attempt: Nat, owner: Owner,
              ref: Ref, expired: BOOLEAN]
NoOperation == [status |-> "none", attempt |-> 0, owner |-> NoProcess,
                ref |-> NoRemote, expired |-> FALSE]

(***************************************************************************)
(* A Graph object belongs to the draft it was created for.  A message is   *)
(* "unsent" (isDraft) or "sent"; a calendar event is "event".              *)
(***************************************************************************)
RemoteObject == [state: {"free", "unsent", "sent", "event"},
                 of: Draft \cup {NoDraft}]
NoObject == [state |-> "free", of |-> NoDraft]

(***************************************************************************)
(* pc of a call: "execute" after the claim, "checkpoint" with a new Graph  *)
(* object in hand, "send" before the send tool, "succeed" and "fail"       *)
(* before finishOperation.  ref is latestReference, msg the Graph object.  *)
(***************************************************************************)
Call == [pc: {"idle", "execute", "checkpoint", "send", "succeed", "fail"},
         proc: Owner, draft: Draft \cup {NoDraft}, ref: Ref, msg: Ref]
NoCall == [pc |-> "idle", proc |-> NoProcess, draft |-> NoDraft,
           ref |-> NoRemote, msg |-> NoRemote]

(***************************************************************************)
(* The batch a recovering process works through: the listed rows not yet   *)
(* finished, whether the batch was full, whether any row was recovered.    *)
(***************************************************************************)
Listed == [draft: Draft, owner: Owner, ref: Ref]
Batch == [items: SUBSET Listed, full: BOOLEAN, any: BOOLEAN]
NoBatch == [items |-> {}, full |-> FALSE, any |-> FALSE]

TypeOK ==
    /\ draft \in [Draft -> DraftStatus]
    /\ op \in [Draft -> Operation]
    /\ remote \in [Remote -> RemoteObject]
    /\ late \subseteq Remote
    /\ process \in [Process -> {"new", "recovering", "up", "dead"}]
    /\ recovery \in [Process -> Batch]
    /\ call \in [Caller -> Call]

Init ==
    /\ draft = [d \in Draft |-> "absent"]
    /\ op = [d \in Draft |-> NoOperation]
    /\ remote = [r \in Remote |-> NoObject]
    /\ late = {}
    /\ process = [p \in Process |-> "new"]
    /\ recovery = [p \in Process |-> NoBatch]
    /\ call = [c \in Caller |-> NoCall]

-----------------------------------------------------------------------------
(* The draft and its confirmation *)

(***************************************************************************)
(* TransitionDraft: the compare-and-swap every status change goes through. *)
(***************************************************************************)
\* Mutant: UPDATE without the condition on the status.
TransitionDraft_NoCompare(d, from, to) ==
    /\ draft[d] # to
    /\ draft' = [draft EXCEPT ![d] = to]
    /\ UNCHANGED <<op, remote, late, process, recovery, call>>

TransitionDraft(d, from, to) ==
    /\ draft[d] = from
    /\ draft' = [draft EXCEPT ![d] = to]
    /\ UNCHANGED <<op, remote, late, process, recovery, call>>

SaveDraft(d) == TransitionDraft(d, "absent", "draft")

DeleteDraft(d) == TransitionDraft(d, "draft", "absent")

SubmitForConfirmation(d) == TransitionDraft(d, "draft", "pending_confirmation")

Decide(d) == \E decision \in {"approved", "rejected"} :
                TransitionDraft(d, "pending_confirmation", decision)

(***************************************************************************)
(* INSERT ... SELECT ... WHERE status = 'approved' ON CONFLICT(draft_id)   *)
(* DO NOTHING: a second call returns the existing row and changes nothing. *)
(***************************************************************************)
PrepareOperation(d) ==
    /\ draft[d] = "approved"
    /\ op[d].status = "none"
    /\ op' = [op EXCEPT ![d].status = "pending"]
    /\ UNCHANGED <<draft, remote, late, process, recovery, call>>

-----------------------------------------------------------------------------
(* ExecuteOperation *)

(***************************************************************************)
(* The pairs of statuses the claim accepts, re-read inside its transaction.*)
(***************************************************************************)
Claimable(d) ==
    \/ op[d].status = "pending" /\ draft[d] = "approved"
    \/ op[d].status = "failed" /\ draft[d] = "failed"

(***************************************************************************)
(* The claim commits and the call holds its snapshot, or the commit is     *)
(* not confirmed and the call returns without knowing it holds the lease.  *)
(***************************************************************************)
ClaimOperation(c, p, d) ==
    /\ process[p] = "up"
    /\ call[c].pc = "idle"
    /\ Claimable(d)
    /\ op[d].attempt < MaxAttempt
    /\ op' = [op EXCEPT ![d] = [status |-> "executing", attempt |-> @.attempt + 1,
                                owner |-> p, ref |-> @.ref, expired |-> FALSE]]
    /\ draft' = [draft EXCEPT ![d] = "executing"]
    /\ \/ call' = [call EXCEPT ![c] = [pc |-> "execute", proc |-> p, draft |-> d,
                                       ref |-> op[d].ref, msg |-> NoRemote]]
       \/ "unknownCommit" \in Faults /\ UNCHANGED call
    /\ UNCHANGED <<remote, late, process, recovery>>

Goto(c, pc) == call' = [call EXCEPT ![c].pc = pc]
GotoWith(c, pc, r) == call' = [call EXCEPT ![c].pc = pc, ![c].msg = r]

Executing(c, kind) == call[c].pc = "execute" /\ KindOf[call[c].draft] = kind

(***************************************************************************)
(* A tool call of the executor fails or times out without an effect.       *)
(***************************************************************************)
\* Mutant: no deadline while a message is being sent.
CallFails_NoSendDeadline(c) ==
    /\ call[c].pc = "execute"
    /\ Goto(c, "fail")
    /\ UNCHANGED <<draft, op, remote, late, process, recovery>>

CallFails(c) ==
    /\ call[c].pc \in {"execute", "send"}
    /\ Goto(c, "fail")
    /\ UNCHANGED <<draft, op, remote, late, process, recovery>>

(***************************************************************************)
(* create_email_draft when no reference was recorded.  Graph has no key to *)
(* recognise a repeated creation by: every call makes a new message.  The  *)
(* reply arrives, or is lost and the attempt fails.                        *)
(***************************************************************************)
CreateEmailDraft(c) ==
    /\ Executing(c, "email")
    /\ call[c].ref = NoRemote
    /\ \E r \in Remote :
          /\ remote[r].state = "free"
          /\ remote' = [remote EXCEPT ![r] = [state |-> "unsent", of |-> call[c].draft]]
          /\ GotoWith(c, "checkpoint", r) \/ Goto(c, "fail")
    /\ UNCHANGED <<draft, op, late, process, recovery>>

(***************************************************************************)
(* get_email_delivery_state of the recorded message: a message that is no  *)
(* longer a draft was sent by an earlier attempt and is not sent again.    *)
(***************************************************************************)
CheckEmailState(c) ==
    /\ Executing(c, "email")
    /\ call[c].ref # NoRemote
    /\ LET sent == remote[call[c].ref].state = "sent"
       IN GotoWith(c, IF sent THEN "succeed" ELSE "send", call[c].ref)
    /\ UNCHANGED <<draft, op, remote, late, process, recovery>>

(***************************************************************************)
(* create_calendar_event with the transactionId derived from the           *)
(* operation's idempotency key: Graph answers a repeated creation with the *)
(* event it already has.                                                   *)
(***************************************************************************)
CreateCalendarEvent(c) ==
    /\ Executing(c, "calendar")
    /\ call[c].ref = NoRemote
    /\ LET d == call[c].draft
           existing == {r \in Remote : remote[r] = [state |-> "event", of |-> d]}
           fresh == {r \in Remote : remote[r].state = "free"}
       IN \E r \in IF existing # {} THEN existing ELSE fresh :
             /\ remote' = [remote EXCEPT ![r] = [state |-> "event", of |-> d]]
             /\ GotoWith(c, "checkpoint", r) \/ Goto(c, "fail")
    /\ UNCHANGED <<draft, op, late, process, recovery>>

(***************************************************************************)
(* A recorded event reference means the event exists: nothing is called.   *)
(***************************************************************************)
ReuseCalendarEvent(c) ==
    /\ Executing(c, "calendar")
    /\ call[c].ref # NoRemote
    /\ GotoWith(c, "succeed", call[c].ref)
    /\ UNCHANGED <<draft, op, remote, late, process, recovery>>

(***************************************************************************)
(* WHERE id = ? AND status = 'executing' AND lease_owner = ?               *)
(***************************************************************************)
Holds(d, p) == op[d].status = "executing" /\ op[d].owner = p

(***************************************************************************)
(* The checkpoint callback.  Only a confirmed checkpoint moves             *)
(* latestReference and lets the executor go on; on any error the executor  *)
(* gives up with what it knew before.                                      *)
(***************************************************************************)
CheckpointOperation(c) ==
    LET k == call[c]
    IN /\ k.pc = "checkpoint"
       /\ \/ /\ Holds(k.draft, k.proc)
             /\ op' = [op EXCEPT ![k.draft].ref = k.msg]
             /\ \/ call' = [call EXCEPT ![c].ref = k.msg,
                               ![c].pc = IF KindOf[k.draft] = "email" THEN "send" ELSE "succeed"]
                \/ "unknownCommit" \in Faults /\ Goto(c, "fail")
          \/ /\ ~Holds(k.draft, k.proc) \/ "dbError" \in Faults
             /\ Goto(c, "fail")
             /\ UNCHANGED op
       /\ UNCHANGED <<draft, remote, late, process, recovery>>

(***************************************************************************)
(* send_email_draft.  Graph sends a message that is still a draft and      *)
(* refuses one that is not.  The reply may be lost, and a request that     *)
(* timed out may still be under way.                                       *)
(***************************************************************************)
\* Mutant: a request that timed out is taken for sent.
SendEmailDraft_TimeoutIsSent(c) ==
    /\ call[c].pc = "send"
    /\ late' = late \cup {call[c].msg}
    /\ Goto(c, "succeed")
    /\ UNCHANGED <<draft, op, remote, process, recovery>>

SendEmailDraft(c) ==
    LET r == call[c].msg
    IN /\ call[c].pc = "send"
       /\ remote[r].state = "unsent"
       /\ \/ /\ remote' = [remote EXCEPT ![r].state = "sent"]
             /\ Goto(c, "succeed") \/ Goto(c, "fail")
             /\ UNCHANGED late
          \/ /\ late' = late \cup {r}
             /\ Goto(c, "fail")
             /\ UNCHANGED remote
       /\ UNCHANGED <<draft, op, process, recovery>>

(***************************************************************************)
(* A send request that outlived its caller reaches Graph.                  *)
(***************************************************************************)
LateSend(r) ==
    /\ r \in late
    /\ late' = late \ {r}
    /\ remote' = [remote EXCEPT ![r].state = "sent"]
    /\ UNCHANGED <<draft, op, process, recovery, call>>

(***************************************************************************)
(* FinishOperation: the operation and its draft move together, the lease   *)
(* is released and external_reference is overwritten with ref.             *)
(***************************************************************************)
CanFinish(d, p) == Holds(d, p) /\ draft[d] = "executing"

FinishOperation(d, status, ref) ==
    /\ op' = [op EXCEPT ![d] = [status |-> status, attempt |-> @.attempt,
                                owner |-> NoProcess, ref |-> ref, expired |-> FALSE]]
    /\ draft' = [draft EXCEPT ![d] = status]

(***************************************************************************)
(* The end of ExecuteOperation.  A lost lease or a database error is       *)
(* reported to the client and leaves the row as it is.                     *)
(***************************************************************************)
FinishCall(c) ==
    LET k == call[c]
    IN /\ k.pc \in {"succeed", "fail"}
       /\ call' = [call EXCEPT ![c] = NoCall]
       /\ \/ /\ CanFinish(k.draft, k.proc)
             /\ IF k.pc = "succeed" THEN FinishOperation(k.draft, "completed", k.msg)
                                    ELSE FinishOperation(k.draft, "failed", k.ref)
          \/ /\ ~CanFinish(k.draft, k.proc) \/ "dbError" \in Faults
             /\ UNCHANGED <<op, draft>>
       /\ UNCHANGED <<remote, late, process, recovery>>

-----------------------------------------------------------------------------
(* Leases, crashes and the recovery at start-up *)

LiveAttempt(d) == \E c \in Caller : call[c].draft = d

LeaseExpires(d) ==
    /\ op[d].status = "executing"
    /\ ~op[d].expired
    /\ LiveAttempt(d) => "liveExpiry" \in Faults
    /\ op' = [op EXCEPT ![d].expired = TRUE]
    /\ UNCHANGED <<draft, remote, late, process, recovery, call>>

Expired == {d \in Draft : op[d].status = "executing" /\ op[d].expired}

(***************************************************************************)
(* ListExpiredOperations: up to BatchSize rows, each with the lease owner  *)
(* and the reference it had when it was listed.                            *)
(***************************************************************************)
ListExpired(p) ==
    \E rows \in SUBSET Expired :
        /\ Cardinality(rows) <= BatchSize
        /\ rows = Expired \/ Cardinality(rows) = BatchSize
        /\ recovery' = [recovery EXCEPT ![p] =
              [items |-> {[draft |-> d, owner |-> op[d].owner, ref |-> op[d].ref] : d \in rows},
               full |-> Cardinality(rows) = BatchSize, any |-> FALSE]]

StartProcess(p) ==
    /\ process[p] = "new"
    /\ "overlap" \in Faults \/ \A q \in Process : process[q] # "recovering"
    /\ process' = [process EXCEPT ![p] = "recovering"]
    /\ ListExpired(p)
    /\ UNCHANGED <<draft, op, remote, late, call>>

(***************************************************************************)
(* One listed row is finished as failed, for the owner and with the        *)
(* reference it was listed with; a conflict skips it.                      *)
(***************************************************************************)
RecoverItem(p) ==
    /\ process[p] = "recovering"
    /\ \E item \in recovery[p].items :
          LET won == CanFinish(item.draft, item.owner)
          IN /\ IF won THEN FinishOperation(item.draft, "failed", item.ref)
                       ELSE UNCHANGED <<op, draft>>
             /\ recovery' = [recovery EXCEPT ![p].items = @ \ {item},
                                             ![p].any = @ \/ won]
    /\ UNCHANGED <<remote, late, process, call>>

(***************************************************************************)
(* A full batch of which something was recovered is followed by another.   *)
(***************************************************************************)
NextBatch(p) ==
    /\ process[p] = "recovering"
    /\ recovery[p].items = {}
    /\ IF recovery[p].full /\ recovery[p].any
       THEN ListExpired(p) /\ UNCHANGED process
       ELSE /\ process' = [process EXCEPT ![p] = "up"]
            /\ recovery' = [recovery EXCEPT ![p] = NoBatch]
    /\ UNCHANGED <<draft, op, remote, late, call>>

Crash(p) ==
    /\ "crash" \in Faults
    /\ process[p] \in {"recovering", "up"}
    /\ process' = [process EXCEPT ![p] = "dead"]
    /\ recovery' = [recovery EXCEPT ![p] = NoBatch]
    /\ call' = [c \in Caller |-> IF call[c].proc = p THEN NoCall ELSE call[c]]
    /\ UNCHANGED <<draft, op, remote, late>>

-----------------------------------------------------------------------------
User(d) == \/ SaveDraft(d) \/ DeleteDraft(d)
           \/ SubmitForConfirmation(d) \/ Decide(d) \/ PrepareOperation(d)

Execute(c) == \/ CallFails(c)
              \/ CreateEmailDraft(c) \/ CheckEmailState(c) \/ SendEmailDraft(c)
              \/ CreateCalendarEvent(c) \/ ReuseCalendarEvent(c)
              \/ CheckpointOperation(c) \/ FinishCall(c)

Recover(p) == StartProcess(p) \/ RecoverItem(p) \/ NextBatch(p)

Next == \/ \E d \in Draft : User(d) \/ LeaseExpires(d)
        \/ \E c \in Caller, p \in Process, d \in Draft : ClaimOperation(c, p, d)
        \/ \E c \in Caller : Execute(c)
        \/ \E r \in Remote : LateSend(r)
        \/ \E p \in Process : Recover(p) \/ Crash(p)

Spec == Init /\ [][Next]_vars

(***************************************************************************)
(* Requests run to their end, and a starting process completes its         *)
(* recovery; nothing obliges a person to act or a new process to start.    *)
(***************************************************************************)
Fairness ==
    /\ \A c \in Caller : WF_vars(Execute(c))
    /\ \A p \in Process : WF_vars(RecoverItem(p) \/ NextBatch(p))
    /\ \A d \in Draft : WF_vars(LeaseExpires(d))
    /\ \A r \in Remote : WF_vars(LateSend(r))

FairSpec == Spec /\ Fairness

-----------------------------------------------------------------------------
(* Safety *)

(***************************************************************************)
(* The two rows of a draft move in lockstep: whatever requests, recoveries *)
(* and crashes interleave, the draft status is the one its operation       *)
(* implies, so the "draft is no longer executing" rollback of              *)
(* FinishOperation is never taken.                                         *)
(***************************************************************************)
RowsAgree ==
    \A d \in Draft :
        CASE op[d].status = "none" -> draft[d] \notin {"executing", "completed", "failed"}
          [] op[d].status = "pending" -> draft[d] = "approved"
          [] OTHER -> draft[d] = op[d].status

(***************************************************************************)
(* At most one message is ever sent for a draft, over all attempts,        *)
(* retries, crashes and lost replies.                                      *)
(***************************************************************************)
Delivered(d) == {r \in Remote : remote[r].of = d /\ remote[r].state \in {"sent", "event"}}

AtMostOneEffect ==
    \A d \in Draft : \A r, s \in Delivered(d) : r = s

(***************************************************************************)
(* What was sent can be found again: the operation's row points at the     *)
(* message that was sent or whose send is still under way.  This is what   *)
(* lets a retry recognise that there is nothing left to do.                *)
(***************************************************************************)
SentIsRecorded ==
    \A r \in Remote :
        remote[r].state = "sent" \/ r \in late => op[remote[r].of].ref = r

(***************************************************************************)
(* An operation shown as completed did take effect, and its                *)
(* external_reference names the object that did.                           *)
(***************************************************************************)
CompletedTookEffect ==
    \A d \in Draft : op[d].status = "completed" => op[d].ref \in Delivered(d)

(***************************************************************************)
(* A recorded external_reference is never cleared or replaced, by a retry, *)
(* by a failure or by the recovery of an expired lease.                    *)
(***************************************************************************)
ReferenceKept ==
    [][\A d \in Draft : op[d].ref # NoRemote => op'[d].ref = op[d].ref]_vars

(***************************************************************************)
(* Only one attempt at a time works on a draft, and it is the one its row  *)
(* names: no call survives the loss of its lease to act on a later claim.  *)
(***************************************************************************)
AttemptHoldsLease ==
    \A c \in Caller : call[c].pc # "idle" =>
        /\ CanFinish(call[c].draft, call[c].proc)
        /\ \A b \in Caller : call[b].draft = call[c].draft => b = c

(***************************************************************************)
(* The component keeps the promise of OfficeEffect.                        *)
(***************************************************************************)
Effect == INSTANCE OfficeEffect WITH
    authorised <- {d \in Draft : draft[d] \in {"approved", "executing", "completed", "failed"}},
    effects <- [d \in Draft |-> Cardinality(Delivered(d))],
    reported <- {d \in Draft : op[d].status = "completed"}

EffectSpec == Effect!Spec

-----------------------------------------------------------------------------
(* Liveness *)

(***************************************************************************)
(* An execution that was claimed is settled, or its process dies, or the   *)
(* request that worked on it ends without saving the result: no attempt    *)
(* hangs on to an operation.                                               *)
(***************************************************************************)
AttemptsEnd ==
    \A d \in Draft, p \in Process :
        op[d].status = "executing" /\ op[d].owner = p
            ~> \/ op[d].status # "executing"
               \/ process[p] = "dead"
               \/ \A c \in Caller : call[c].draft # d
=============================================================================
