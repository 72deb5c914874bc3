------------------------ MODULE OfficeOperation_proofs ------------------------
(***************************************************************************)
(* Proofs about confirmed office work, for any number of drafts, processes *)
(* and requests.                                                           *)
(***************************************************************************)
EXTENDS OfficeOperation, FiniteSetTheorems, TLAPS

USE OfficeAssumption

-----------------------------------------------------------------------------
(* Types *)

(***************************************************************************)
(* What a call holds while it runs: a draft and a process, and, once Graph *)
(* answered, a Graph object.                                               *)
(***************************************************************************)
CallShape ==
    \A c \in Caller :
        /\ call[c].pc = "idle" => call[c] = NoCall
        /\ call[c].pc # "idle" => call[c].draft \in Draft /\ call[c].proc \in Process
        /\ call[c].pc \in {"checkpoint", "send", "succeed"} => call[c].msg \in Remote

\* With no rows, no calls and an empty mailbox all types are right.
LEMMA InitTypes == Init => TypeOK
  BY DEF Init, TypeOK, NoOperation, Operation, NoObject, RemoteObject, NoBatch, Batch,
         NoCall, Call, DraftStatus, OpStatus, Ref, Owner

(***************************************************************************)
(* A call moves on, alone, keeping its draft, its process and reference.   *)
(***************************************************************************)
Moves(c, pc, r) ==
    /\ call' \in [Caller -> Call]
    /\ \A b \in Caller \ {c} : call'[b] = call[b]
    /\ call'[c].pc = pc
    /\ call'[c].msg = r
    /\ call'[c].proc = call[c].proc
    /\ call'[c].draft = call[c].draft
    /\ call'[c].ref = call[c].ref

Pcs == {"execute", "checkpoint", "send", "succeed", "fail"}

\* Goto and GotoWith move one call and no other.
LEMMA GotoWithMoves ==
    ASSUME TypeOK, NEW c \in Caller, NEW pc \in Pcs, NEW r \in Ref, GotoWith(c, pc, r)
    PROVE  Moves(c, pc, r)
<1>1. call[c] \in Call
    BY DEF TypeOK
<1>2. call' = [call EXCEPT ![c] = [call[c] EXCEPT !.pc = pc, !.msg = r]]
    BY DEF GotoWith, TypeOK
<1>3. [call[c] EXCEPT !.pc = pc, !.msg = r] \in Call
    BY <1>1 DEF Call, Pcs
<1> QED
    BY <1>1, <1>2, <1>3 DEF Moves, Call, TypeOK

\* A call that goes on keeps the Graph object it has.
LEMMA GotoMoves ==
    ASSUME TypeOK, NEW c \in Caller, NEW pc \in Pcs, Goto(c, pc)
    PROVE  Moves(c, pc, call[c].msg)
<1>1. call[c] \in Call
    BY DEF TypeOK
<1>2. call' = [call EXCEPT ![c] = [call[c] EXCEPT !.pc = pc]]
    BY DEF Goto, TypeOK
<1>3. [call[c] EXCEPT !.pc = pc] \in Call
    BY <1>1 DEF Call, Pcs
<1> QED
    BY <1>1, <1>2, <1>3 DEF Moves, Call, TypeOK

(***************************************************************************)
(* An operation and its draft are finished together, alone.                *)
(***************************************************************************)
Finishes(d, status, ref) ==
    /\ op' \in [Draft -> Operation] /\ draft' \in [Draft -> DraftStatus]
    /\ \A e \in Draft \ {d} : op'[e] = op[e] /\ draft'[e] = draft[e]
    /\ op'[d].status = status /\ draft'[d] = status
    /\ op'[d].ref = ref
    /\ op'[d].owner = NoProcess

\* FinishOperation releases the lease and moves both rows, of one draft.
LEMMA FinishOperationFinishes ==
    ASSUME TypeOK, NEW d \in Draft, NEW status \in {"completed", "failed"}, NEW ref \in Ref,
           FinishOperation(d, status, ref)
    PROVE  Finishes(d, status, ref)
<1> DEFINE r == [status |-> status, attempt |-> op[d].attempt, owner |-> NoProcess,
                 ref |-> ref, expired |-> FALSE]
<1>1. op' = [op EXCEPT ![d] = r] /\ draft' = [draft EXCEPT ![d] = status]
    BY DEF FinishOperation, TypeOK
<1>2. r \in Operation
    BY DEF TypeOK, Operation, OpStatus, Owner
<1> QED
    BY <1>1, <1>2 DEF Finishes, TypeOK, DraftStatus

(***************************************************************************)
(* The listed rows are rows of operations that are executing and expired.  *)
(***************************************************************************)
LEMMA ListStep ==
    ASSUME TypeOK, NEW p \in Process, ListExpired(p)
    PROVE  /\ recovery' \in [Process -> Batch]
           /\ \A q \in Process \ {p} : recovery'[q] = recovery[q]
           /\ \A item \in recovery'[p].items :
                 /\ item.draft \in Draft
                 /\ op[item.draft].status = "executing" /\ op[item.draft].expired
                 /\ item.owner = op[item.draft].owner /\ item.ref = op[item.draft].ref
<1>1. PICK rows \in SUBSET Expired :
          recovery' = [recovery EXCEPT ![p] =
              [items |-> {[draft |-> d, owner |-> op[d].owner, ref |-> op[d].ref] : d \in rows},
               full |-> Cardinality(rows) = BatchSize, any |-> FALSE]]
    BY DEF ListExpired
<1> DEFINE items == {[draft |-> d, owner |-> op[d].owner, ref |-> op[d].ref] : d \in rows}
<1>2. \A d \in rows : d \in Draft /\ op[d].status = "executing" /\ op[d].expired
                     /\ op[d].owner \in Owner /\ op[d].ref \in Ref
    BY DEF Expired, TypeOK, Operation
<1>3. items \subseteq Listed
    BY <1>2 DEF Listed
<1>4. [items |-> items, full |-> Cardinality(rows) = BatchSize, any |-> FALSE] \in Batch
    BY <1>3 DEF Batch
<1>5. recovery' \in [Process -> Batch] /\ recovery'[p].items = items
    BY <1>1, <1>4 DEF TypeOK
<1> QED
    BY <1>1, <1>2, <1>5 DEF TypeOK

(***************************************************************************)
(* The variables keep their types: every status stored is one the program  *)
(* knows, and every reference and owner comes from the process or the      *)
(* mailbox that produced it.                                               *)
(***************************************************************************)
\* A draft's status is replaced by a status, an operation by an operation.
LEMMA DraftReplaced ==
    ASSUME draft \in [Draft -> DraftStatus], NEW d \in Draft, NEW s \in DraftStatus,
           draft' = [draft EXCEPT ![d] = s]
    PROVE  draft' \in [Draft -> DraftStatus]
  OBVIOUS

LEMMA OperationReplaced ==
    ASSUME op \in [Draft -> Operation], NEW d \in Draft, NEW r \in Operation,
           op' = [op EXCEPT ![d] = r]
    PROVE  op' \in [Draft -> Operation]
  OBVIOUS

\* An operation keeps its type when its lease expires, or when it is prepared.
LEMMA OperationUpdated ==
    ASSUME NEW o \in Operation
    PROVE  /\ [o EXCEPT !.expired = TRUE] \in Operation
           /\ [o EXCEPT !.status = "pending"] \in Operation
  BY DEF Operation, OpStatus

LEMMA TypeStep == TypeOK /\ CallShape /\ [Next]_vars => TypeOK'
<1> SUFFICES ASSUME TypeOK, CallShape, [Next]_vars PROVE TypeOK'
    OBVIOUS
<1> USE DEF TypeOK
<1>1. ASSUME NEW d \in Draft, User(d) PROVE TypeOK'
  <2>1. CASE \E from, to \in DraftStatus : TransitionDraft(d, from, to)
    <3>1. draft' \in [Draft -> DraftStatus]
      BY <2>1, DraftReplaced DEF TransitionDraft
    <3> QED  BY <2>1, <3>1 DEF TransitionDraft
  <2>2. CASE PrepareOperation(d)
    <3>1. op[d] \in Operation
      OBVIOUS
    <3>2. op' = [op EXCEPT ![d] = [op[d] EXCEPT !.status = "pending"]]
      BY <2>2 DEF PrepareOperation
    <3>3. op' \in [Draft -> Operation]
      BY <3>1, <3>2, OperationReplaced, OperationUpdated
    <3> QED  BY <2>2, <3>3 DEF PrepareOperation
  <2>3. /\ "absent" \in DraftStatus /\ "draft" \in DraftStatus
        /\ "pending_confirmation" \in DraftStatus
        /\ "approved" \in DraftStatus /\ "rejected" \in DraftStatus
    BY DEF DraftStatus
  <2>4. (\E from, to \in DraftStatus : TransitionDraft(d, from, to)) \/ PrepareOperation(d)
    BY <1>1, <2>3 DEF User, SaveDraft, DeleteDraft, SubmitForConfirmation, Decide
  <2> QED  BY <2>1, <2>2, <2>4
<1>2. ASSUME NEW d \in Draft, LeaseExpires(d) PROVE TypeOK'
  <2>1. op[d] \in Operation
    OBVIOUS
  <2>2. op' = [op EXCEPT ![d] = [op[d] EXCEPT !.expired = TRUE]]
    BY <1>2 DEF LeaseExpires
  <2>3. op' \in [Draft -> Operation]
    BY <2>1, <2>2, OperationReplaced, OperationUpdated
  <2> QED  BY <1>2, <2>3 DEF LeaseExpires
<1>3. ASSUME NEW c \in Caller, NEW p \in Process, NEW d \in Draft, ClaimOperation(c, p, d)
      PROVE TypeOK'
    BY <1>3 DEF ClaimOperation, Operation, OpStatus, Owner, DraftStatus, Call, Ref
<1>4. ASSUME NEW c \in Caller, CallFails(c) PROVE TypeOK'
  <2>1. call' \in [Caller -> Call]
    BY <1>4, GotoMoves DEF CallFails, Moves, Pcs
  <2> QED  BY <1>4, <2>1 DEF CallFails
<1>5. ASSUME NEW c \in Caller, CreateEmailDraft(c) \/ CreateCalendarEvent(c) PROVE TypeOK'
  <2>1. PICK r \in Remote :
            /\ \/ remote' = [remote EXCEPT ![r] = [state |-> "unsent", of |-> call[c].draft]]
               \/ remote' = [remote EXCEPT ![r] = [state |-> "event", of |-> call[c].draft]]
            /\ GotoWith(c, "checkpoint", r) \/ Goto(c, "fail")
    BY <1>5 DEF CreateEmailDraft, CreateCalendarEvent
  <2>2. call' \in [Caller -> Call]
    BY <2>1, GotoMoves, GotoWithMoves DEF Moves, Pcs, Ref
  <2>3. call[c].draft \in Draft \cup {NoDraft}
    BY DEF Call
  <2>4. remote' \in [Remote -> RemoteObject]
    BY <2>1, <2>3 DEF RemoteObject
  <2> QED  BY <1>5, <2>2, <2>4 DEF CreateEmailDraft, CreateCalendarEvent
<1>6. ASSUME NEW c \in Caller, CheckEmailState(c) PROVE TypeOK'
  <2>1. call[c].ref \in Ref
    BY DEF Call
  <2>2. call' \in [Caller -> Call]
    BY <1>6, <2>1, GotoWithMoves DEF CheckEmailState, Moves, Pcs
  <2> QED  BY <1>6, <2>2 DEF CheckEmailState
<1>7. ASSUME NEW c \in Caller, SendEmailDraft(c) PROVE TypeOK'
  <2>1. call' \in [Caller -> Call]
    BY <1>7, GotoMoves DEF SendEmailDraft, Moves, Pcs
  <2>2. late' \subseteq Remote
    BY <1>7 DEF SendEmailDraft, CallShape
  <2>3. remote' \in [Remote -> RemoteObject]
    BY <1>7 DEF SendEmailDraft, RemoteObject
  <2> QED  BY <1>7, <2>1, <2>2, <2>3 DEF SendEmailDraft
<1>9. ASSUME NEW c \in Caller, ReuseCalendarEvent(c) PROVE TypeOK'
  <2>1. call[c].ref \in Ref
    BY DEF Call
  <2>2. call' \in [Caller -> Call]
    BY <1>9, <2>1, GotoWithMoves DEF ReuseCalendarEvent, Moves, Pcs
  <2> QED  BY <1>9, <2>2 DEF ReuseCalendarEvent
<1>10. ASSUME NEW c \in Caller, CheckpointOperation(c) PROVE TypeOK'
  <2> DEFINE k == call[c]
  <2>1. k \in Call
    OBVIOUS
  <2>2. op' \in [Draft -> Operation]
    BY <1>10, <2>1 DEF CheckpointOperation, Call, Operation, Ref
  <2>3. [k EXCEPT !.ref = k.msg, !.pc = "send"] \in Call
        /\ [k EXCEPT !.ref = k.msg, !.pc = "succeed"] \in Call
        /\ [k EXCEPT !.pc = "fail"] \in Call
    BY <2>1 DEF Call
  <2>4. call' \in [Caller -> Call]
    BY <1>10, <2>3 DEF CheckpointOperation, Goto
  <2> QED  BY <1>10, <2>2, <2>4 DEF CheckpointOperation
<1>11. ASSUME NEW c \in Caller, FinishCall(c) PROVE TypeOK'
  <2> DEFINE k == call[c]
  <2>1. k \in Call /\ NoCall \in Call
    BY DEF Call, NoCall, Owner, Ref
  <2>2. k.msg \in Ref /\ k.ref \in Ref
    BY <2>1 DEF Call
  <2>3. CASE UNCHANGED <<op, draft>>
    BY <1>11, <2>1, <2>3 DEF FinishCall
  <2>4. CASE \/ FinishOperation(k.draft, "completed", k.msg)
             \/ FinishOperation(k.draft, "failed", k.ref)
    <3>1. k.draft \in Draft
      BY <1>11 DEF FinishCall, CallShape
    <3> QED  BY <1>11, <2>1, <2>2, <2>4, <3>1, FinishOperationFinishes DEF FinishCall, Finishes
  <2> QED  BY <1>11, <2>3, <2>4 DEF FinishCall
<1>12. ASSUME NEW r \in Remote, LateSend(r) PROVE TypeOK'
    BY <1>12 DEF LateSend, RemoteObject
<1>13. ASSUME NEW p \in Process, StartProcess(p) PROVE TypeOK'
    BY <1>13, ListStep DEF StartProcess
<1>14. ASSUME NEW p \in Process, RecoverItem(p) PROVE TypeOK'
  <2>1. PICK item \in recovery[p].items :
            LET won == CanFinish(item.draft, item.owner)
            IN /\ IF won THEN FinishOperation(item.draft, "failed", item.ref)
                         ELSE UNCHANGED <<op, draft>>
               /\ recovery' = [recovery EXCEPT ![p].items = @ \ {item},
                                               ![p].any = @ \/ won]
    BY <1>14 DEF RecoverItem
  <2>2. recovery[p] \in Batch /\ item.draft \in Draft /\ item.ref \in Ref
    BY <2>1 DEF Batch, Listed
  <2>3. op' \in [Draft -> Operation] /\ draft' \in [Draft -> DraftStatus]
    BY <2>1, <2>2, FinishOperationFinishes DEF Finishes
  <2>4. recovery' \in [Process -> Batch]
    BY <2>1, <2>2 DEF Batch
  <2> QED  BY <1>14, <2>3, <2>4 DEF RecoverItem
<1>15. ASSUME NEW p \in Process, NextBatch(p) PROVE TypeOK'
  <2>1. NoBatch \in Batch
    BY DEF NoBatch, Batch
  <2>2. CASE ListExpired(p) /\ UNCHANGED process
    BY <1>15, <2>2, ListStep DEF NextBatch
  <2>3. CASE /\ process' = [process EXCEPT ![p] = "up"]
             /\ recovery' = [recovery EXCEPT ![p] = NoBatch]
    BY <1>15, <2>1, <2>3 DEF NextBatch
  <2> QED  BY <1>15, <2>2, <2>3 DEF NextBatch
<1>16. ASSUME NEW p \in Process, Crash(p) PROVE TypeOK'
    BY <1>16 DEF Crash, NoBatch, Batch, NoCall, Call, Owner, Ref
<1>17. CASE UNCHANGED vars
    BY <1>17 DEF vars
<1> QED
    BY <1>1, <1>2, <1>3, <1>4, <1>5, <1>6, <1>7, <1>9, <1>10, <1>11, <1>12, <1>13,
       <1>14, <1>15, <1>16, <1>17 DEF Next, Execute, Recover

-----------------------------------------------------------------------------
(* The inductive invariant *)

(***************************************************************************)
(* A running call holds a running lease and has its draft to itself.       *)
(***************************************************************************)
Leases ==
    \A c \in Caller : call[c].pc # "idle" =>
        /\ CanFinish(call[c].draft, call[c].proc)
        /\ ~op[call[c].draft].expired
        /\ \A b \in Caller : call[b].draft = call[c].draft => b = c

(***************************************************************************)
(* One process recovers at a time, and what it listed is still so: nobody  *)
(* else finishes or claims an operation whose lease has expired.           *)
(***************************************************************************)
Recoveries ==
    /\ \A p, q \in Process : process[p] = "recovering" /\ process[q] = "recovering" => p = q
    /\ \A p \in Process : \A item \in recovery[p].items :
          /\ process[p] = "recovering"
          /\ item.draft \in Draft
          /\ op[item.draft].status = "executing" /\ op[item.draft].expired
          /\ item.owner = op[item.draft].owner /\ item.ref = op[item.draft].ref

Owns(r, d) == remote[r].of = d /\ remote[r].state # "free"

\* Messages belong to email drafts and events to calendar drafts.
RemoteShape ==
    \A r \in Remote :
        /\ remote[r].state \in {"unsent", "sent"} =>
              remote[r].of \in Draft /\ KindOf[remote[r].of] = "email"
        /\ remote[r].state = "event" =>
              remote[r].of \in Draft /\ KindOf[remote[r].of] = "calendar"
        /\ r \in late => remote[r].state \in {"unsent", "sent"}

\* external_reference points at an object made for its draft once it was claimed.
RefShape == \A d \in Draft : op[d].ref \in Remote =>
                Owns(op[d].ref, d) /\ op[d].status \in {"executing", "completed", "failed"}

(***************************************************************************)
(* Until it has failed, a call knows the reference its row has.            *)
(***************************************************************************)
InHand ==
    \A c \in Caller :
        /\ call[c].pc \in {"execute", "checkpoint", "send", "succeed"} =>
              call[c].ref = op[call[c].draft].ref
        /\ call[c].pc = "checkpoint" =>
              call[c].ref = NoRemote /\ Owns(call[c].msg, call[c].draft)
        /\ call[c].pc = "send" => call[c].msg = call[c].ref
        /\ call[c].pc = "succeed" =>
              call[c].msg = call[c].ref /\ remote[call[c].msg].state \in {"sent", "event"}

\* r was sent, or may still be.
MaybeSent(r) == remote[r].state = "sent" \/ r \in late

(***************************************************************************)
(* A failed call does not forget a message that may have been sent, even   *)
(* when it could not tell whether its checkpoint was stored.               *)
(***************************************************************************)
FailSafe ==
    \A c \in Caller : call[c].pc = "fail" =>
        /\ call[c].ref \in Remote => Owns(call[c].ref, call[c].draft)
        /\ \A r \in Remote : MaybeSent(r) /\ remote[r].of = call[c].draft => call[c].ref = r

\* transactionId: a draft has one event.
EventUnique ==
    \A r, s \in Remote : remote[r].state = "event" /\ remote[s].state = "event"
                         /\ remote[r].of = remote[s].of => r = s

Data == /\ RemoteShape /\ RefShape /\ InHand /\ FailSafe /\ EventUnique
        /\ SentIsRecorded /\ CompletedTookEffect

Control == TypeOK /\ CallShape /\ RowsAgree /\ Leases /\ Recoveries

IInv == Control /\ Data

\* Before anything is saved the invariant holds.
LEMMA Initially == Init => IInv
<1> SUFFICES ASSUME Init PROVE IInv
    OBVIOUS
<1>1. TypeOK
    BY InitTypes
<1>2. CallShape /\ RowsAgree /\ Leases /\ Recoveries
    BY DEF Init, CallShape, RowsAgree, Leases, Recoveries, NoCall, NoOperation, NoBatch
<1>3. Data
    BY DEF Init, Data, RemoteShape, RefShape, InHand, FailSafe, EventUnique, SentIsRecorded,
           CompletedTookEffect, NoCall, NoOperation, NoObject, MaybeSent
<1> QED  BY <1>1, <1>2, <1>3 DEF IInv, Control

(***************************************************************************)
(* People act on drafts no operation works on yet.                         *)
(***************************************************************************)
LEMMA UserStep ==
    ASSUME IInv, TypeOK', NEW d \in Draft, User(d)
    PROVE  IInv'
<1> USE DEF IInv, Control, TypeOK
<1>1. UNCHANGED <<remote, late, process, recovery, call>>
    BY DEF User, SaveDraft, DeleteDraft, SubmitForConfirmation, Decide, TransitionDraft,
           PrepareOperation
<1>2. /\ \A e \in Draft \ {d} : op'[e] = op[e] /\ draft'[e] = draft[e]
      /\ op'[d].ref = op[d].ref
      /\ \/ /\ op[d].status = "none" /\ op'[d].status = "none"
            /\ draft'[d] \in {"absent", "draft", "pending_confirmation", "approved", "rejected"}
         \/ /\ op[d].status = "none" /\ op'[d].status = "pending"
            /\ draft'[d] = "approved"
  <2>1. CASE PrepareOperation(d)
    BY <2>1 DEF PrepareOperation, Operation
  <2>2. CASE SaveDraft(d) \/ DeleteDraft(d) \/ SubmitForConfirmation(d) \/ Decide(d)
    <3>1. draft[d] \in {"absent", "draft", "pending_confirmation"} /\ op' = op
      BY <2>2 DEF SaveDraft, DeleteDraft, SubmitForConfirmation, Decide, TransitionDraft
    <3>2. op[d].status = "none"
      BY <3>1 DEF RowsAgree, Operation, OpStatus
    <3>3. /\ \A e \in Draft \ {d} : draft'[e] = draft[e]
          /\ draft'[d] \in {"absent", "draft", "pending_confirmation", "approved", "rejected"}
      BY <2>2 DEF SaveDraft, DeleteDraft, SubmitForConfirmation, Decide, TransitionDraft
    <3> QED  BY <3>1, <3>2, <3>3
  <2> QED  BY <2>1, <2>2 DEF User
<1>3. CallShape' /\ Leases' /\ Recoveries'
    BY <1>1, <1>2 DEF CallShape, Leases, CanFinish, Holds, Recoveries
<1>4. RowsAgree'
    BY <1>1, <1>2 DEF RowsAgree
<1>5. RemoteShape' /\ EventUnique'
    BY <1>1 DEF Data, RemoteShape, EventUnique
<1>6. RefShape' /\ InHand' /\ FailSafe'
    BY <1>1, <1>2 DEF Data, RefShape, InHand, FailSafe, Owns, MaybeSent, CallShape
<1>7. SentIsRecorded' /\ CompletedTookEffect'
    BY <1>1, <1>2 DEF Data, SentIsRecorded, CompletedTookEffect, Delivered, RemoteShape
<1> QED  BY <1>3, <1>4, <1>5, <1>6, <1>7 DEF Data

(***************************************************************************)
(* A lease runs out only when no call works under it.                      *)
(***************************************************************************)
LEMMA ExpiryStep ==
    ASSUME IInv, TypeOK', "liveExpiry" \notin Faults, NEW d \in Draft, LeaseExpires(d)
    PROVE  IInv'
<1> USE DEF IInv, Control, TypeOK
<1>1. UNCHANGED <<draft, remote, late, process, recovery, call>>
    BY DEF LeaseExpires
<1>2. /\ \A e \in Draft \ {d} : op'[e] = op[e]
      /\ op'[d].status = op[d].status /\ op'[d].ref = op[d].ref
      /\ op'[d].owner = op[d].owner /\ op'[d].expired
    BY DEF LeaseExpires, Operation
<1>3. \A c \in Caller : call[c].draft # d
    BY DEF LeaseExpires, LiveAttempt
<1>4. CallShape' /\ RowsAgree'
    BY <1>1, <1>2 DEF CallShape, RowsAgree
<1>5. Leases'
    BY <1>1, <1>2, <1>3 DEF Leases, CanFinish, Holds, CallShape
<1>6. Recoveries'
    BY <1>1, <1>2 DEF Recoveries
<1>7. RemoteShape' /\ EventUnique'
    BY <1>1 DEF Data, RemoteShape, EventUnique
<1>8. RefShape' /\ InHand' /\ FailSafe'
    BY <1>1, <1>2 DEF Data, RefShape, InHand, FailSafe, Owns, MaybeSent, CallShape
<1>9. SentIsRecorded' /\ CompletedTookEffect'
    BY <1>1, <1>2 DEF Data, SentIsRecorded, CompletedTookEffect, Delivered, RemoteShape
<1> QED  BY <1>4, <1>5, <1>6, <1>7, <1>8, <1>9 DEF Data

(***************************************************************************)
(* A claim takes an operation nobody works on and learns its reference.    *)
(***************************************************************************)
LEMMA ClaimStep ==
    ASSUME IInv, TypeOK', NEW c \in Caller, NEW p \in Process, NEW d \in Draft,
           ClaimOperation(c, p, d)
    PROVE  IInv'
<1> USE DEF IInv, Control, TypeOK
<1>1. /\ UNCHANGED <<remote, late, process, recovery>>
      /\ call[c].pc = "idle" /\ op[d].status \in {"pending", "failed"}
    BY DEF ClaimOperation, Claimable
<1>2. /\ \A e \in Draft \ {d} : op'[e] = op[e] /\ draft'[e] = draft[e]
      /\ op'[d].status = "executing" /\ draft'[d] = "executing"
      /\ op'[d].ref = op[d].ref /\ op'[d].owner = p /\ ~op'[d].expired
    BY DEF ClaimOperation
<1>3. /\ \A b \in Caller \ {c} : call'[b] = call[b]
      /\ \/ call'[c] = call[c]
         \/ /\ call'[c].pc = "execute" /\ call'[c].proc = p
            /\ call'[c].draft = d /\ call'[c].ref = op[d].ref
    BY DEF ClaimOperation
<1>4. \A b \in Caller : call[b].draft # d
  <2>1. \A b \in Caller : call[b].pc = "idle" => call[b].draft = NoDraft
    BY DEF CallShape, NoCall
  <2> QED  BY <1>1, <2>1 DEF Leases, CanFinish, Holds
<1>5. CallShape' /\ RowsAgree'
    BY <1>2, <1>3 DEF CallShape, RowsAgree
<1>6. Leases'
    BY <1>1, <1>2, <1>3, <1>4 DEF Leases, CanFinish, Holds, CallShape
<1>7. Recoveries'
    BY <1>1, <1>2 DEF Recoveries
<1>8. RemoteShape' /\ EventUnique'
    BY <1>1 DEF Data, RemoteShape, EventUnique
<1>9. RefShape' /\ InHand' /\ FailSafe'
    BY <1>1, <1>2, <1>3, <1>4 DEF Data, RefShape, InHand, FailSafe, Owns, MaybeSent, CallShape
<1>10. SentIsRecorded' /\ CompletedTookEffect'
    BY <1>1, <1>2 DEF Data, SentIsRecorded, CompletedTookEffect, Delivered, RemoteShape
<1> QED  BY <1>5, <1>6, <1>7, <1>8, <1>9, <1>10 DEF Data

(***************************************************************************)
(* The control part is kept by whatever moves one running call on and      *)
(* touches neither statuses nor leases.                                    *)
(***************************************************************************)
LEMMA ControlKept ==
    ASSUME Control, TypeOK', NEW c \in Caller, call[c].pc # "idle",
           NEW pc, NEW r, Moves(c, pc, r), pc \in Pcs,
           pc \in {"checkpoint", "send", "succeed"} => r \in Remote,
           UNCHANGED <<draft, op, process, recovery>>
    PROVE  Control'
<1> USE DEF Control, TypeOK, Moves, Pcs
<1>1. CallShape'
    BY DEF CallShape
<1>2. RowsAgree' /\ Recoveries'
    BY DEF RowsAgree, Recoveries
<1>3. Leases'
    BY DEF Leases, CanFinish, Holds
<1> QED  BY <1>1, <1>2, <1>3

(***************************************************************************)
(* A step of a call that changes nothing but the call.                     *)
(***************************************************************************)
LEMMA QuietCall ==
    ASSUME IInv, TypeOK', NEW c \in Caller, NEW pc, NEW r, Moves(c, pc, r),
           UNCHANGED <<draft, op, remote, late, process, recovery>>,
           \/ /\ call[c].pc \in {"execute", "checkpoint", "send"} /\ pc = "fail"
           \/ /\ call[c].pc = "execute" /\ pc = "send"
              /\ r = call[c].ref /\ r \in Remote
           \/ /\ call[c].pc = "execute" /\ pc = "succeed"
              /\ r = call[c].ref /\ r \in Remote /\ remote[r].state \in {"sent", "event"}
    PROVE  IInv'
<1> USE DEF IInv
<1>1. Control'
    BY ControlKept DEF Pcs
<1>2. call[c].draft \in Draft /\ call[c].ref = op[call[c].draft].ref
    BY DEF Control, CallShape, Data, InHand
<1>3. RemoteShape' /\ EventUnique' /\ RefShape'
    BY DEF Data, RemoteShape, EventUnique, RefShape, Owns
<1>4. SentIsRecorded' /\ CompletedTookEffect'
    BY DEF Data, SentIsRecorded, CompletedTookEffect, Delivered
<1>5. InHand'
    BY DEF Data, InHand, Moves, Owns
<1>6. FailSafe'
    BY <1>2 DEF Data, FailSafe, Moves, Owns, MaybeSent, RefShape, SentIsRecorded, RemoteShape
<1> QED  BY <1>1, <1>3, <1>4, <1>5, <1>6 DEF Data

\* A failing tool call, the state check of a message and the reuse of an event.
LEMMA CheckStep ==
    ASSUME IInv, TypeOK', NEW c \in Caller,
           CallFails(c) \/ CheckEmailState(c) \/ ReuseCalendarEvent(c)
    PROVE  IInv'
<1> USE DEF IInv, Control
<1>1. UNCHANGED <<draft, op, remote, late, process, recovery>>
    BY DEF CallFails, CheckEmailState, ReuseCalendarEvent
<1>2. CASE CallFails(c)
  <2>1. Moves(c, "fail", call[c].msg)
    BY <1>2, GotoMoves DEF CallFails, Pcs
  <2> QED  BY <1>1, <1>2, <2>1, QuietCall DEF CallFails
<1>3. CASE CheckEmailState(c)
  <2>1. call[c].pc = "execute" /\ call[c].ref \in Remote
    BY <1>3 DEF CheckEmailState, Executing, TypeOK, Call, Ref
  <2>2. \/ GotoWith(c, "succeed", call[c].ref) /\ remote[call[c].ref].state = "sent"
        \/ GotoWith(c, "send", call[c].ref)
    BY <1>3 DEF CheckEmailState
  <2>3. \/ Moves(c, "succeed", call[c].ref) /\ remote[call[c].ref].state = "sent"
        \/ Moves(c, "send", call[c].ref)
    BY <2>1, <2>2, GotoWithMoves DEF Pcs, Ref
  <2> QED  BY <1>1, <2>1, <2>3, QuietCall
<1>4. CASE ReuseCalendarEvent(c)
  <2>1. /\ call[c].pc = "execute" /\ call[c].ref \in Remote
        /\ KindOf[call[c].draft] = "calendar"
    BY <1>4 DEF ReuseCalendarEvent, Executing, TypeOK, Call, Ref
  <2>2. Moves(c, "succeed", call[c].ref)
    BY <1>4, <2>1, GotoWithMoves DEF ReuseCalendarEvent, Pcs, Ref
  <2>3. Owns(call[c].ref, call[c].draft)
    BY <2>1 DEF Data, InHand, RefShape, CallShape
  <2>4. remote[call[c].ref].state = "event"
    BY <2>1, <2>3 DEF Owns, Data, RemoteShape, TypeOK, RemoteObject
  <2> QED  BY <1>1, <2>1, <2>2, <2>4, QuietCall
<1> QED  BY <1>2, <1>3, <1>4

(***************************************************************************)
(* A creation makes one object, for the draft of the call; a repeated      *)
(* creation of an event finds the one there is.                            *)
(***************************************************************************)
Creates(r, s, d) ==
    /\ remote' \in [Remote -> RemoteObject]
    /\ \A q \in Remote \ {r} : remote'[q] = remote[q]
    /\ remote'[r].state = s /\ remote'[r].of = d
    /\ remote[r].state = "free" \/ remote'[r] = remote[r]
    /\ s = "unsent" => remote[r].state = "free" /\ KindOf[d] = "email"
    /\ s = "event" => /\ KindOf[d] = "calendar"
                      /\ \A q \in Remote : remote[q].state = "event" /\ remote[q].of = d
                                           => remote[r].state = "event"

\* A creation makes an object of the draft that has none, and is not yet a send.
LEMMA CreateStep ==
    ASSUME IInv, TypeOK', NEW c \in Caller, CreateEmailDraft(c) \/ CreateCalendarEvent(c)
    PROVE  IInv'
<1> USE DEF IInv, Control
<1> DEFINE d == call[c].draft
<1>1. /\ UNCHANGED <<draft, op, late, process, recovery>>
      /\ call[c].pc = "execute" /\ call[c].ref = NoRemote
    BY DEF CreateEmailDraft, CreateCalendarEvent, Executing
<1>2. d \in Draft /\ op[d].ref = NoRemote
    BY <1>1 DEF CallShape, Data, InHand
<1>3. PICK r \in Remote, s \in {"unsent", "event"} :
          /\ Creates(r, s, d)
          /\ GotoWith(c, "checkpoint", r) \/ Goto(c, "fail")
  <2>1. CASE CreateEmailDraft(c)
    <3>1. PICK r \in Remote :
              /\ remote[r].state = "free"
              /\ remote' = [remote EXCEPT ![r] = [state |-> "unsent", of |-> d]]
              /\ GotoWith(c, "checkpoint", r) \/ Goto(c, "fail")
      BY <2>1 DEF CreateEmailDraft
    <3>2. Creates(r, "unsent", d)
      BY <2>1, <3>1 DEF Creates, TypeOK, CreateEmailDraft, Executing
    <3> QED  BY <3>1, <3>2
  <2>2. CASE CreateCalendarEvent(c)
    <3> DEFINE existing == {r \in Remote : remote[r] = [state |-> "event", of |-> d]}
               fresh == {r \in Remote : remote[r].state = "free"}
    <3>1. PICK r \in IF existing # {} THEN existing ELSE fresh :
              /\ remote' = [remote EXCEPT ![r] = [state |-> "event", of |-> d]]
              /\ GotoWith(c, "checkpoint", r) \/ Goto(c, "fail")
      BY <2>2 DEF CreateCalendarEvent
    <3>2. KindOf[d] = "calendar"
      BY <2>2 DEF CreateCalendarEvent, Executing
    <3>3. r \in Remote /\ remote' \in [Remote -> RemoteObject]
          /\ remote'[r] = [state |-> "event", of |-> d]
          /\ \A q \in Remote \ {r} : remote'[q] = remote[q]
      BY <3>1 DEF TypeOK
    <3>4. \A q \in Remote : remote[q].state = "event" /\ remote[q].of = d => q \in existing
      BY DEF TypeOK, RemoteObject
    <3>5. CASE existing # {}
      BY <3>1, <3>2, <3>3, <3>5 DEF Creates
    <3>6. CASE existing = {}
      BY <3>1, <3>2, <3>3, <3>4, <3>6 DEF Creates
    <3> QED  BY <3>1, <3>3, <3>5, <3>6
  <2> QED  BY <2>1, <2>2
<1>4. PICK pc \in {"checkpoint", "fail"}, m \in Ref :
          Moves(c, pc, m) /\ (pc = "checkpoint" => m = r)
    BY <1>3, GotoWithMoves, GotoMoves DEF Pcs, Ref, TypeOK, Call
<1>5. Control'
    BY <1>1, <1>4, ControlKept DEF Pcs
<1>6. RemoteShape'
    BY <1>1, <1>2, <1>3 DEF Data, RemoteShape, Creates
<1>7. RefShape'
    BY <1>1, <1>3 DEF Data, RefShape, Owns, Creates
<1>8. InHand'
    BY <1>1, <1>3, <1>4 DEF Data, InHand, Owns, Creates, Moves, CallShape
<1>9. \A q \in Remote : MaybeSent(q)' => MaybeSent(q) /\ remote'[q] = remote[q]
    BY <1>1, <1>3 DEF Data, MaybeSent, Creates, RemoteShape
<1>10. SentIsRecorded'
    BY <1>1, <1>9 DEF Data, SentIsRecorded, MaybeSent
<1>11. FailSafe'
    BY <1>1, <1>2, <1>3, <1>4, <1>9
       DEF Data, FailSafe, Moves, Owns, Creates, SentIsRecorded, MaybeSent
<1>12. EventUnique'
    BY <1>2, <1>3 DEF Data, EventUnique, Creates, RemoteShape
<1>13. CompletedTookEffect'
    BY <1>1, <1>3 DEF Data, CompletedTookEffect, Delivered, Creates
<1> QED
    BY <1>5, <1>6, <1>7, <1>8, <1>10, <1>11, <1>12, <1>13 DEF Data

(***************************************************************************)
(* A message is sent, now or later, only when its operation's row names it *)
(* and no other call can be working on the draft.                          *)
(***************************************************************************)
LEMMA SendStep ==
    ASSUME IInv, TypeOK', NEW c \in Caller, SendEmailDraft(c)
    PROVE  IInv'
<1> USE DEF IInv, Control
<1> DEFINE d == call[c].draft
           m == call[c].msg
<1>1. /\ UNCHANGED <<draft, op, process, recovery>>
      /\ call[c].pc = "send" /\ remote[m].state = "unsent"
    BY DEF SendEmailDraft
<1>2. d \in Draft /\ m \in Remote /\ op[d].ref = m /\ call[c].ref = m /\ Owns(m, d)
    BY <1>1 DEF CallShape, Data, InHand, RefShape
<1>3. /\ remote' \in [Remote -> RemoteObject]
      /\ \A q \in Remote \ {m} : remote'[q] = remote[q]
      /\ remote'[m].of = d
      /\ \/ remote'[m].state = "sent" /\ late' = late
         \/ remote'[m].state = "unsent" /\ late' = late \cup {m}
  <2>1. CASE remote' = [remote EXCEPT ![m].state = "sent"] /\ late' = late
    BY <1>2, <2>1 DEF TypeOK, Owns, RemoteObject
  <2>2. CASE remote' = remote /\ late' = late \cup {m}
    BY <1>1, <1>2, <2>2 DEF TypeOK, Owns
  <2> QED  BY <2>1, <2>2 DEF SendEmailDraft
<1>4. PICK pc \in {"succeed", "fail"} :
          Moves(c, pc, m) /\ (pc = "succeed" => remote'[m].state = "sent")
  <2>1. CASE remote' = [remote EXCEPT ![m].state = "sent"] /\ Goto(c, "succeed")
    <3>1. remote'[m].state = "sent"
      BY <1>2, <2>1 DEF TypeOK, RemoteObject
    <3> QED  BY <2>1, <3>1, GotoMoves DEF Pcs
  <2>2. CASE Goto(c, "fail")
    BY <2>2, GotoMoves DEF Pcs
  <2> QED  BY <2>1, <2>2 DEF SendEmailDraft
<1>5. Control'
    BY <1>1, <1>2, <1>4, ControlKept DEF Pcs
<1>6. RemoteShape' /\ EventUnique'
  <2>1. KindOf[d] = "email"
    BY <1>1, <1>2 DEF Data, RemoteShape, Owns
  <2>2. RemoteShape'
    BY <1>2, <1>3, <2>1 DEF Data, RemoteShape
  <2>3. EventUnique'
    BY <1>3 DEF Data, EventUnique
  <2> QED  BY <2>2, <2>3
<1>7. RefShape'
  <2>1. \A q \in Remote : Owns(q, remote[q].of) => Owns(q, remote[q].of)' /\ remote'[q].of = remote[q].of
    BY <1>2, <1>3 DEF Owns
  <2> QED  BY <1>1, <2>1 DEF Data, RefShape, Owns
<1>8. InHand'
    BY <1>1, <1>2, <1>3, <1>4 DEF Data, InHand, Owns, Moves, CallShape
<1>9. \A q \in Remote : /\ MaybeSent(q)' => MaybeSent(q) \/ q = m
                        /\ remote'[q].of = remote[q].of
    BY <1>2, <1>3 DEF MaybeSent, Owns
<1>10. SentIsRecorded'
    BY <1>1, <1>2, <1>3, <1>9 DEF Data, SentIsRecorded, MaybeSent
<1>11. FailSafe'
  <2>1. \A b \in Caller \ {c} : call'[b].pc = "fail" => call'[b] = call[b] /\ call[b].draft # d
    BY <1>4 DEF Moves, Leases
  <2>2. \A r \in Remote : Owns(r, call[c].draft)' <=> Owns(r, call[c].draft)
    BY <1>1, <1>2, <1>3, <1>4 DEF Owns, Moves
  <2>3. \A b \in Caller \ {c} : call'[b].pc = "fail" =>
           /\ call[b].ref \in Remote => Owns(call[b].ref, call[b].draft)'
           /\ \A r \in Remote : MaybeSent(r)' /\ remote'[r].of = call[b].draft
                                => call[b].ref = r
    BY <1>1, <1>2, <1>3, <1>9, <2>1 DEF Data, FailSafe, Owns
  <2>4. call'[c].ref = m /\ call'[c].draft = d
    BY <1>2, <1>4 DEF Moves
  <2>5. \A r \in Remote : MaybeSent(r)' /\ remote'[r].of = d => r = m
    BY <1>1, <1>2, <1>3, <1>9 DEF Data, SentIsRecorded, MaybeSent
  <2>6. remote'[m].of = d /\ remote'[m].state # "free"
    BY <1>3
  <2> QED  BY <2>1, <2>3, <2>4, <2>5, <2>6 DEF FailSafe, Owns
<1>12. CompletedTookEffect'
    BY <1>1, <1>2, <1>3 DEF Data, CompletedTookEffect, Delivered
<1> QED
    BY <1>5, <1>6, <1>7, <1>8, <1>10, <1>11, <1>12 DEF Data

(***************************************************************************)
(* A request that outlived its caller sends what the row already names.    *)
(***************************************************************************)
LEMMA LateSendStep ==
    ASSUME IInv, TypeOK', NEW m \in Remote, LateSend(m)
    PROVE  IInv'
<1> USE DEF IInv, Control
<1>1. /\ UNCHANGED <<draft, op, process, recovery, call>>
      /\ m \in late /\ late' = late \ {m}
    BY DEF LateSend
<1>2. /\ \A q \in Remote \ {m} : remote'[q] = remote[q]
      /\ remote'[m].of = remote[m].of /\ remote'[m].state = "sent"
    BY DEF LateSend, TypeOK, RemoteObject
<1>3. remote[m].state \in {"unsent", "sent"}
    BY <1>1 DEF Data, RemoteShape
<1>4. CallShape' /\ RowsAgree' /\ Leases' /\ Recoveries'
    BY <1>1 DEF CallShape, RowsAgree, Leases, CanFinish, Holds, Recoveries
<1>5. RemoteShape' /\ EventUnique'
    BY <1>1, <1>2, <1>3 DEF Data, RemoteShape, EventUnique
<1>6. \A r \in Remote : (MaybeSent(r)' => MaybeSent(r)) /\ remote'[r].of = remote[r].of
                        /\ (remote[r].state # "free" => remote'[r].state # "free")
                        /\ (remote[r].state \in {"sent", "event"}
                               => remote'[r].state \in {"sent", "event"})
    BY <1>1, <1>2 DEF MaybeSent
<1>7. RefShape' /\ FailSafe'
    BY <1>1, <1>6 DEF Data, RefShape, FailSafe, Owns
<1>8. InHand'
    BY <1>1, <1>6 DEF Data, InHand, Owns, CallShape
<1>9. SentIsRecorded' /\ CompletedTookEffect'
    BY <1>1, <1>6 DEF Data, SentIsRecorded, CompletedTookEffect, Delivered, MaybeSent
<1> QED  BY <1>4, <1>5, <1>7, <1>8, <1>9 DEF Data

(***************************************************************************)
(* A checkpoint records the first object of the draft; until it is known   *)
(* to be stored nothing of the draft has been sent.                        *)
(***************************************************************************)
LEMMA CheckpointStep ==
    ASSUME IInv, TypeOK', NEW c \in Caller, CheckpointOperation(c)
    PROVE  IInv'
<1> USE DEF IInv, Control
<1> DEFINE d == call[c].draft
           m == call[c].msg
<1>1. /\ UNCHANGED <<draft, remote, late, process, recovery>>
      /\ call[c].pc = "checkpoint"
    BY DEF CheckpointOperation
<1>2. d \in Draft /\ m \in Remote /\ call[c].ref = NoRemote /\ op[d].ref = NoRemote
      /\ Owns(m, d) /\ call[c] \in Call /\ call[c].proc \in Process
    BY <1>1 DEF CallShape, Data, InHand, TypeOK
<1>3. CASE Goto(c, "fail") /\ UNCHANGED op
  <2>1. Moves(c, "fail", m)
    BY <1>3, GotoMoves DEF Pcs
  <2> QED  BY <1>1, <1>3, <2>1, QuietCall
<1>4. CASE /\ op' = [op EXCEPT ![d].ref = m]
           /\ \/ call' = [call EXCEPT ![c].ref = m,
                             ![c].pc = IF KindOf[d] = "email" THEN "send" ELSE "succeed"]
              \/ Goto(c, "fail")
  <2>1. /\ \A e \in Draft \ {d} : op'[e] = op[e]
        /\ op'[d].ref = m /\ op'[d].status = op[d].status /\ op'[d].owner = op[d].owner
        /\ op'[d].expired = op[d].expired
    BY <1>2, <1>4 DEF TypeOK, Operation
  <2>2. /\ \A b \in Caller \ {c} : call'[b] = call[b]
        /\ call'[c].draft = d /\ call'[c].proc = call[c].proc /\ call'[c].msg = m
        /\ \/ call'[c].ref = m /\ call'[c].pc = "send" /\ KindOf[d] = "email"
           \/ call'[c].ref = m /\ call'[c].pc = "succeed" /\ KindOf[d] # "email"
           \/ call'[c].ref = NoRemote /\ call'[c].pc = "fail"
    BY <1>2, <1>4 DEF TypeOK, Call, Goto
  <2>3. CallShape' /\ RowsAgree'
    BY <1>1, <1>2, <2>1, <2>2 DEF CallShape, RowsAgree
  <2>4. Leases'
    BY <1>1, <1>2, <2>1, <2>2 DEF Leases, CanFinish, Holds, CallShape
  <2>5. Recoveries'
    BY <1>1, <1>2, <2>1 DEF Recoveries, Leases
  <2>6. RemoteShape' /\ EventUnique'
    BY <1>1 DEF Data, RemoteShape, EventUnique
  <2>7. RefShape'
    <3>1. op[d].status = "executing"
      BY <1>1 DEF Leases, CanFinish, Holds
    <3> QED  BY <1>1, <1>2, <2>1, <3>1 DEF Data, RefShape, Owns
  <2>8. \A b \in Caller \ {c} : call[b].draft # d
    BY <1>1 DEF Leases
  <2>9. remote[m].state \in {"sent", "event"} \/ KindOf[d] = "email"
    BY <1>2 DEF Owns, Data, RemoteShape, TypeOK, RemoteObject
  <2>10. InHand'
    <3>1. \A b \in Caller \ {c} : call[b].pc # "idle" => op'[call[b].draft] = op[call[b].draft]
      BY <2>1, <2>8 DEF CallShape
    <3>2. remote' = remote
      BY <1>1
    <3>3. \A r, e : Owns(r, e)' <=> Owns(r, e)
      BY <3>2 DEF Owns
    <3> QED  BY <2>1, <2>2, <2>9, <3>1, <3>2, <3>3 DEF Data, InHand
  <2>11. \A r \in Remote : MaybeSent(r) => remote[r].of # d
    BY <1>2 DEF Data, SentIsRecorded, MaybeSent
  <2>12. SentIsRecorded'
    BY <1>1, <1>2, <2>1, <2>11 DEF Data, SentIsRecorded, MaybeSent, RemoteShape
  <2>13. FailSafe'
    BY <1>1, <1>2, <2>2, <2>11 DEF Data, FailSafe, Owns, MaybeSent
  <2>14. CompletedTookEffect'
    BY <1>1, <1>2, <2>1 DEF Data, CompletedTookEffect, Delivered, Leases, CanFinish, Holds
  <2> QED
    BY <2>3, <2>4, <2>5, <2>6, <2>7, <2>10, <2>12, <2>13, <2>14 DEF Data
<1> QED
    BY <1>3, <1>4 DEF CheckpointOperation

(***************************************************************************)
(* The data part is kept when a draft no call works on any longer is       *)
(* finished with a reference that covers what may have been sent for it.   *)
(***************************************************************************)
LEMMA DataKept ==
    ASSUME Control, Data, NEW d \in Draft, NEW status \in {"completed", "failed"},
           NEW ref \in Ref, Finishes(d, status, ref),
           UNCHANGED <<remote, late>>,
           \A b \in Caller : call'[b].draft # d /\ (call'[b].pc # "idle" => call'[b] = call[b]),
           ref \in Remote => Owns(ref, d),
           \A r \in Remote : MaybeSent(r) /\ remote[r].of = d => ref = r,
           status = "completed" => ref \in Delivered(d)
    PROVE  Data'
<1> USE DEF Control, Data, Finishes
<1>1. RemoteShape' /\ EventUnique'
    BY DEF RemoteShape, EventUnique
<1>2. RefShape'
    BY DEF RefShape, Owns
<1>3. InHand'
  <2>1. \A b \in Caller : call'[b].pc # "idle" =>
            call'[b] = call[b] /\ op'[call[b].draft] = op[call[b].draft]
    BY DEF CallShape
  <2> QED  BY <2>1 DEF InHand, Owns
<1>4. FailSafe'
    BY DEF FailSafe, Owns, MaybeSent
<1>5. SentIsRecorded'
    BY DEF SentIsRecorded, MaybeSent, RemoteShape
<1>6. CompletedTookEffect'
    BY DEF CompletedTookEffect, Delivered
<1> QED  BY <1>1, <1>2, <1>3, <1>4, <1>5, <1>6

\* The end of a call leaves a row that still covers what may have been sent.
LEMMA FinishStep ==
    ASSUME IInv, TypeOK', NEW c \in Caller, FinishCall(c)
    PROVE  IInv'
<1> USE DEF IInv, Control
<1> DEFINE d == call[c].draft
<1>1. /\ UNCHANGED <<remote, late, process, recovery>>
      /\ call[c].pc \in {"succeed", "fail"}
      /\ call' = [call EXCEPT ![c] = NoCall]
    BY DEF FinishCall
<1>2. d \in Draft /\ call[c].proc \in Process /\ call[c].msg \in Ref /\ call[c].ref \in Ref
    BY <1>1 DEF CallShape, TypeOK, Call
<1>3. /\ \A b \in Caller \ {c} : call'[b] = call[b] /\ call[b].draft # d
      /\ call'[c] = NoCall
    BY <1>1 DEF TypeOK, Leases
<1>4. \A b \in Caller : call'[b].draft # d /\ (call'[b].pc # "idle" => call'[b] = call[b])
    BY <1>2, <1>3 DEF NoCall
<1>5. CallShape'
    BY <1>3 DEF CallShape, NoCall
<1>6. CASE UNCHANGED <<op, draft>>
  <2>1. RowsAgree' /\ Recoveries'
    BY <1>1, <1>6 DEF RowsAgree, Recoveries
  <2>2. Leases'
    BY <1>2, <1>3, <1>4, <1>6 DEF Leases, CanFinish, Holds, CallShape, NoCall
  <2>3. RemoteShape' /\ EventUnique' /\ RefShape' /\ SentIsRecorded' /\ CompletedTookEffect'
    BY <1>1, <1>6 DEF Data, RemoteShape, EventUnique, RefShape, SentIsRecorded,
                      CompletedTookEffect, Owns, Delivered
  <2>4. InHand' /\ FailSafe'
    BY <1>1, <1>4, <1>6 DEF Data, InHand, FailSafe, Owns, MaybeSent
  <2> QED  BY <1>5, <2>1, <2>2, <2>3, <2>4 DEF Data
<1>7. ASSUME NEW status \in {"completed", "failed"}, NEW ref \in Ref,
             FinishOperation(d, status, ref),
             ref \in Remote => Owns(ref, d),
             \A r \in Remote : MaybeSent(r) /\ remote[r].of = d => ref = r,
             status = "completed" => ref \in Delivered(d)
      PROVE  IInv'
  <2>1. Finishes(d, status, ref)
    BY <1>2, <1>7, FinishOperationFinishes
  <2>2. Data'
    BY <1>1, <1>2, <1>4, <1>7, <2>1, DataKept
  <2>3. RowsAgree'
    BY <2>1 DEF RowsAgree, Finishes
  <2>4. Leases'
    BY <1>2, <1>3, <1>4, <2>1 DEF Leases, CanFinish, Holds, NoCall, Finishes, CallShape
  <2>5. \A p \in Process : \A item \in recovery[p].items : item.draft # d
    BY <1>1 DEF Leases, Recoveries
  <2>6. Recoveries'
    BY <1>1, <2>1, <2>5 DEF Recoveries, Finishes
  <2> QED  BY <1>5, <2>2, <2>3, <2>4, <2>6
<1>8. CASE call[c].pc = "succeed" /\ FinishOperation(d, "completed", call[c].msg)
  <2>1. /\ call[c].msg = op[d].ref /\ call[c].msg \in Remote
        /\ remote[call[c].msg].state \in {"sent", "event"}
    BY <1>8 DEF Data, InHand, CallShape
  <2>2. Owns(call[c].msg, d) /\ call[c].msg \in Delivered(d)
    BY <1>2, <2>1 DEF Data, RefShape, Owns, Delivered
  <2>3. \A r \in Remote : MaybeSent(r) /\ remote[r].of = d => call[c].msg = r
    BY <2>1 DEF Data, SentIsRecorded, MaybeSent
  <2> QED  BY <1>2, <1>7, <1>8, <2>2, <2>3
<1>9. CASE call[c].pc = "fail" /\ FinishOperation(d, "failed", call[c].ref)
    BY <1>2, <1>7, <1>9 DEF Data, FailSafe
<1> QED
    BY <1>1, <1>6, <1>8, <1>9 DEF FinishCall

(***************************************************************************)
(* Recovery fails exactly the operations nobody works on, with the         *)
(* reference they have.                                                    *)
(***************************************************************************)
LEMMA RecoverStep ==
    ASSUME IInv, TypeOK', NEW p \in Process, RecoverItem(p)
    PROVE  IInv'
<1> USE DEF IInv, Control
<1>1. UNCHANGED <<remote, late, process, call>> /\ process[p] = "recovering"
    BY DEF RecoverItem
<1>2. PICK item \in recovery[p].items :
          LET won == CanFinish(item.draft, item.owner)
          IN /\ IF won THEN FinishOperation(item.draft, "failed", item.ref)
                       ELSE UNCHANGED <<op, draft>>
             /\ recovery' = [recovery EXCEPT ![p].items = @ \ {item},
                                             ![p].any = @ \/ won]
    BY DEF RecoverItem
<1> DEFINE d == item.draft
<1>3. /\ d \in Draft /\ op[d].status = "executing" /\ op[d].expired
      /\ item.owner = op[d].owner /\ item.ref = op[d].ref
    BY <1>2 DEF Recoveries
<1>4. draft[d] = "executing" /\ item.ref \in Ref
    BY <1>3 DEF RowsAgree, TypeOK, Operation
<1>5. Finishes(d, "failed", item.ref)
    BY <1>2, <1>3, <1>4, FinishOperationFinishes DEF CanFinish, Holds
<1>6. \A b \in Caller : call[b].draft # d
  <2>1. \A b \in Caller : call[b].pc = "idle" => call[b].draft = NoDraft
    BY DEF CallShape, NoCall
  <2> QED  BY <1>3, <2>1 DEF Leases
<1>7. CallShape' /\ RowsAgree'
    BY <1>1, <1>3, <1>5 DEF CallShape, RowsAgree, Finishes
<1>8. Leases'
    BY <1>1, <1>5, <1>6 DEF Leases, CanFinish, Holds, Finishes, CallShape
<1>9. recovery'[p].items = recovery[p].items \ {item}
      /\ \A q \in Process \ {p} : recovery'[q] = recovery[q] /\ recovery[q].items = {}
    BY <1>1, <1>2 DEF TypeOK, Batch, Recoveries
<1>10. \A other \in recovery[p].items : other.draft = d => other = item
  <2>1. \A other \in recovery[p].items : other \in Listed
    BY DEF TypeOK, Batch
  <2> QED  BY <1>2, <2>1 DEF Recoveries, Listed
<1>11. Recoveries'
    BY <1>1, <1>5, <1>9, <1>10 DEF Recoveries, Finishes
<1>12. (item.ref \in Remote => Owns(item.ref, d))
       /\ \A r \in Remote : MaybeSent(r) /\ remote[r].of = d => item.ref = r
    BY <1>3 DEF Data, RefShape, SentIsRecorded, MaybeSent
<1>13. Data'
    BY <1>1, <1>3, <1>4, <1>5, <1>6, <1>12, DataKept
<1> QED  BY <1>7, <1>8, <1>11, <1>13

(***************************************************************************)
(* Processes start one at a time, list what has expired, and may die.      *)
(***************************************************************************)
LEMMA ProcessStep ==
    ASSUME IInv, TypeOK', "overlap" \notin Faults, NEW p \in Process,
           StartProcess(p) \/ NextBatch(p)
    PROVE  IInv'
<1> USE DEF IInv, Control
<1>1. UNCHANGED <<draft, op, remote, late, call>>
    BY DEF StartProcess, NextBatch
<1>2. CallShape' /\ RowsAgree' /\ Leases'
    BY <1>1 DEF CallShape, RowsAgree, Leases, CanFinish, Holds
<1>3. Data'
    BY <1>1 DEF Data, RemoteShape, RefShape, InHand, FailSafe, EventUnique, SentIsRecorded,
                CompletedTookEffect, Owns, Delivered, MaybeSent
<1>4. CASE StartProcess(p) \/ (NextBatch(p) /\ ListExpired(p) /\ UNCHANGED process)
  <2>1. process'[p] = "recovering" /\ ListExpired(p)
        /\ \A q \in Process \ {p} : process[q] # "recovering" /\ process'[q] = process[q]
    BY <1>4 DEF StartProcess, NextBatch, TypeOK, Recoveries
  <2> QED  BY <1>1, <1>2, <1>3, <2>1, ListStep DEF Recoveries
<1>5. CASE /\ process' = [process EXCEPT ![p] = "up"]
           /\ recovery' = [recovery EXCEPT ![p] = NoBatch]
  <2>1. Recoveries'
    BY <1>1, <1>5 DEF Recoveries, TypeOK, NoBatch
  <2> QED  BY <1>2, <1>3, <2>1
<1> QED  BY <1>4, <1>5 DEF NextBatch

\* A crash takes its calls and its recovery with it and touches no row.
LEMMA CrashStep ==
    ASSUME IInv, TypeOK', NEW p \in Process, Crash(p)
    PROVE  IInv'
<1> USE DEF IInv, Control
<1>1. UNCHANGED <<draft, op, remote, late>>
      /\ process' = [process EXCEPT ![p] = "dead"]
      /\ recovery' = [recovery EXCEPT ![p] = NoBatch]
    BY DEF Crash
<1>2. \A c \in Caller : call'[c] = NoCall \/ call'[c] = call[c]
    BY DEF Crash
<1>3. CallShape' /\ RowsAgree'
    BY <1>1, <1>2 DEF CallShape, RowsAgree, NoCall
<1>4. Leases'
    BY <1>1, <1>2 DEF Leases, CanFinish, Holds, NoCall, CallShape
<1>5. Recoveries'
    BY <1>1 DEF Recoveries, TypeOK, NoBatch
<1>6. Data'
    BY <1>1, <1>2 DEF Data, RemoteShape, RefShape, InHand, FailSafe, EventUnique, SentIsRecorded,
                      CompletedTookEffect, Owns, Delivered, MaybeSent, NoCall
<1> QED  BY <1>3, <1>4, <1>5, <1>6

(***************************************************************************)
(* Where a lease outlives its attempt and processes start one at a time,   *)
(* every step keeps the invariant.                                         *)
(***************************************************************************)
LEMMA Inductive ==
    ASSUME "liveExpiry" \notin Faults, "overlap" \notin Faults
    PROVE  IInv /\ [Next]_vars => IInv'
<1> SUFFICES ASSUME IInv, [Next]_vars PROVE IInv'
    OBVIOUS
<1>1. TypeOK'
    BY TypeStep DEF IInv, Control
<1>2. CASE \E d \in Draft : User(d) \/ LeaseExpires(d)
    BY <1>1, <1>2, UserStep, ExpiryStep
<1>3. CASE \E c \in Caller, p \in Process, d \in Draft : ClaimOperation(c, p, d)
    BY <1>1, <1>3, ClaimStep
<1>4. CASE \E c \in Caller : Execute(c)
    BY <1>1, <1>4, CheckStep, CreateStep, SendStep, CheckpointStep, FinishStep DEF Execute
<1>5. CASE \E r \in Remote : LateSend(r)
    BY <1>1, <1>5, LateSendStep
<1>6. CASE \E p \in Process : Recover(p) \/ Crash(p)
    BY <1>1, <1>6, RecoverStep, ProcessStep, CrashStep DEF Recover
<1>7. CASE UNCHANGED vars
    BY <1>7 DEF vars, IInv, Control, TypeOK, CallShape, RowsAgree, Leases, CanFinish, Holds,
                Recoveries, Data, RemoteShape, RefShape, InHand, FailSafe, EventUnique,
                SentIsRecorded, CompletedTookEffect, Owns, Delivered, MaybeSent
<1> QED
    BY <1>2, <1>3, <1>4, <1>5, <1>6, <1>7 DEF Next

-----------------------------------------------------------------------------
(* What needs no assumption on the faults *)

\* Whatever the faults, a running call has a draft, a process and an object.
LEMMA ShapeStep == TypeOK /\ CallShape /\ [Next]_vars => CallShape'
<1> SUFFICES ASSUME TypeOK, CallShape, [Next]_vars PROVE CallShape'
    OBVIOUS
<1> USE DEF CallShape
<1>1. CASE UNCHANGED call
    BY <1>1
<1>2. ASSUME NEW c \in Caller, NEW p \in Process, NEW d \in Draft, ClaimOperation(c, p, d)
      PROVE  CallShape'
  <2>1. CASE call' = [call EXCEPT ![c] = [pc |-> "execute", proc |-> p, draft |-> d,
                                          ref |-> op[d].ref, msg |-> NoRemote]]
    BY <2>1 DEF TypeOK
  <2> QED  BY <1>1, <1>2, <2>1 DEF ClaimOperation
<1>3. ASSUME NEW c \in Caller, NEW pc \in Pcs, NEW r \in Ref, Moves(c, pc, r),
             call[c].pc # "idle",
             pc \in {"checkpoint", "send", "succeed"} => r \in Remote
      PROVE  CallShape'
    BY <1>3 DEF Moves, Pcs
<1>4. ASSUME NEW c \in Caller, Goto(c, "fail"), call[c].pc # "idle"
      PROVE  CallShape'
    BY <1>3, <1>4, GotoMoves DEF Pcs, TypeOK, Call
<1>5. ASSUME NEW c \in Caller, NEW pc \in Pcs, NEW r \in Remote, GotoWith(c, pc, r),
             call[c].pc # "idle"
      PROVE  CallShape'
    BY <1>3, <1>5, GotoWithMoves DEF Ref
<1>6. ASSUME NEW c \in Caller, Execute(c) PROVE CallShape'
  <2>1. CASE CallFails(c)
    BY <1>4, <2>1 DEF CallFails
  <2>2. CASE CreateEmailDraft(c) \/ CreateCalendarEvent(c)
    <3>1. PICK r \in Remote : GotoWith(c, "checkpoint", r) \/ Goto(c, "fail")
      BY <2>2 DEF CreateEmailDraft, CreateCalendarEvent
    <3> QED  BY <1>4, <1>5, <2>2, <3>1
             DEF CreateEmailDraft, CreateCalendarEvent, Executing, Pcs
  <2>3. CASE CheckEmailState(c) \/ ReuseCalendarEvent(c)
    <3>1. call[c].ref \in Remote /\ call[c].pc # "idle"
      BY <2>3 DEF CheckEmailState, ReuseCalendarEvent, Executing, TypeOK, Call, Ref
    <3>2. PICK pc \in Pcs : GotoWith(c, pc, call[c].ref)
      BY <2>3 DEF CheckEmailState, ReuseCalendarEvent, Pcs
    <3> QED  BY <1>5, <3>1, <3>2
  <2>4. CASE SendEmailDraft(c)
    <3>1. call[c].pc = "send" /\ call[c].msg \in Remote
      BY <2>4 DEF SendEmailDraft
    <3>2. PICK pc \in {"succeed", "fail"} : Goto(c, pc)
      BY <2>4 DEF SendEmailDraft
    <3> QED  BY <1>3, <3>1, <3>2, GotoMoves DEF Pcs, Ref
  <2>5. CASE CheckpointOperation(c)
    <3>1. CASE call' = [call EXCEPT ![c].ref = call[c].msg,
                           ![c].pc = IF KindOf[call[c].draft] = "email" THEN "send"
                                                                        ELSE "succeed"]
      BY <2>5, <3>1 DEF CheckpointOperation, TypeOK, Call
    <3>2. CASE Goto(c, "fail")
      BY <1>4, <2>5, <3>2 DEF CheckpointOperation
    <3> QED  BY <2>5, <3>1, <3>2 DEF CheckpointOperation
  <2>6. CASE FinishCall(c)
    BY <2>6 DEF FinishCall, TypeOK, NoCall
  <2> QED  BY <1>6, <2>1, <2>2, <2>3, <2>4, <2>5, <2>6 DEF Execute
<1>7. ASSUME NEW p \in Process, Crash(p) PROVE CallShape'
    BY <1>7 DEF Crash, NoCall
<1>8. ASSUME NEW d \in Draft, User(d) \/ LeaseExpires(d) PROVE CallShape'
    BY <1>1, <1>8 DEF User, SaveDraft, DeleteDraft, SubmitForConfirmation, Decide,
                      TransitionDraft, PrepareOperation, LeaseExpires
<1>9. ASSUME NEW p \in Process, Recover(p) PROVE CallShape'
    BY <1>1, <1>9 DEF Recover, StartProcess, RecoverItem, NextBatch
<1> QED
    BY <1>1, <1>2, <1>6, <1>7, <1>8, <1>9 DEF Next, LateSend, vars

(***************************************************************************)
(* The draft and its operation move together whatever happens: every       *)
(* statement that writes one of the rows has compared both.                *)
(***************************************************************************)
LEMMA RowsStep == TypeOK /\ CallShape /\ RowsAgree /\ [Next]_vars => RowsAgree'
<1> SUFFICES ASSUME TypeOK, CallShape, RowsAgree, [Next]_vars PROVE RowsAgree'
    OBVIOUS
<1> USE DEF TypeOK, RowsAgree
<1>1. CASE UNCHANGED <<draft, op>>
    BY <1>1
<1>2. ASSUME NEW d \in Draft, User(d) PROVE RowsAgree'
  <2>1. CASE PrepareOperation(d)
    BY <2>1 DEF PrepareOperation, Operation
  <2>2. CASE SaveDraft(d) \/ DeleteDraft(d) \/ SubmitForConfirmation(d) \/ Decide(d)
    <3>1. draft[d] \in {"absent", "draft", "pending_confirmation"} /\ op' = op
      BY <2>2 DEF SaveDraft, DeleteDraft, SubmitForConfirmation, Decide, TransitionDraft
    <3>2. op[d].status = "none"
      BY <3>1 DEF Operation, OpStatus
    <3>3. /\ \A e \in Draft \ {d} : draft'[e] = draft[e]
          /\ draft'[d] \in {"absent", "draft", "pending_confirmation", "approved", "rejected"}
      BY <2>2 DEF SaveDraft, DeleteDraft, SubmitForConfirmation, Decide, TransitionDraft
    <3> QED  BY <3>1, <3>2, <3>3
  <2> QED  BY <1>2, <2>1, <2>2 DEF User
<1>3. ASSUME NEW d \in Draft, LeaseExpires(d) PROVE RowsAgree'
    BY <1>3 DEF LeaseExpires, Operation
<1>4. ASSUME NEW c \in Caller, NEW p \in Process, NEW d \in Draft, ClaimOperation(c, p, d)
      PROVE  RowsAgree'
    BY <1>4 DEF ClaimOperation
<1>5. ASSUME NEW d \in Draft, NEW status \in {"completed", "failed"}, NEW ref \in Ref,
             FinishOperation(d, status, ref)
      PROVE  RowsAgree'
    BY <1>5, FinishOperationFinishes DEF Finishes
<1>6. ASSUME NEW c \in Caller, Execute(c) PROVE RowsAgree'
  <2>1. CASE CheckpointOperation(c)
    BY <2>1 DEF CheckpointOperation, Operation
  <2>2. CASE FinishCall(c)
    <3>1. call[c].draft \in Draft /\ call[c].msg \in Ref /\ call[c].ref \in Ref
      BY <2>2 DEF FinishCall, CallShape, Call
    <3> QED  BY <1>1, <1>5, <2>2, <3>1 DEF FinishCall
  <2> QED  BY <1>1, <1>6, <2>1, <2>2 DEF Execute, CallFails, CreateEmailDraft, CheckEmailState,
              SendEmailDraft, CreateCalendarEvent, ReuseCalendarEvent
<1>7. ASSUME NEW p \in Process, Recover(p) \/ Crash(p) PROVE RowsAgree'
  <2>1. CASE RecoverItem(p)
    <3>1. PICK item \in recovery[p].items :
             FinishOperation(item.draft, "failed", item.ref) \/ UNCHANGED <<op, draft>>
      BY <2>1 DEF RecoverItem
    <3>2. item.draft \in Draft /\ item.ref \in Ref
      BY <3>1 DEF Batch, Listed
    <3> QED  BY <1>1, <1>5, <3>1, <3>2
  <2> QED  BY <1>1, <1>7, <2>1 DEF Recover, StartProcess, NextBatch, Crash
<1> QED
    BY <1>1, <1>2, <1>3, <1>4, <1>6, <1>7 DEF Next, LateSend, vars

(***************************************************************************)
(* Typing: the stored statuses, owners and references, and what a running  *)
(* call holds of them, are ones the program knows, under every fault.      *)
(***************************************************************************)
THEOREM Typing == Spec => []TypeOK
<1>1. Init => TypeOK /\ CallShape
    BY Initially DEF IInv, Control
<1>2. TypeOK /\ CallShape /\ [Next]_vars => TypeOK' /\ CallShape'
    BY TypeStep, ShapeStep
<1> QED  BY <1>1, <1>2, PTL DEF Spec

(***************************************************************************)
(* Lockstep: FinishOperation, ClaimOperation and PrepareOperation keep the *)
(* draft's row and its operation's row in agreement under every fault,     *)
(* late leases and overlapping recoveries included.                        *)
(***************************************************************************)
THEOREM Lockstep == Spec => []RowsAgree
<1>1. Init => TypeOK /\ CallShape /\ RowsAgree
    BY Initially DEF IInv, Control
<1>2. TypeOK /\ CallShape /\ RowsAgree /\ [Next]_vars => TypeOK' /\ CallShape' /\ RowsAgree'
    BY TypeStep, ShapeStep, RowsStep
<1> QED  BY <1>1, <1>2, PTL DEF Spec

-----------------------------------------------------------------------------
(* What needs leases that outlive their attempts *)

\* Invariance: the inductive invariant of leases, recovery and references holds
\* of every execution in which leases outlive their attempts.
THEOREM Invariance ==
    ASSUME "liveExpiry" \notin Faults, "overlap" \notin Faults
    PROVE  Spec => []IInv
  BY Initially, Inductive, PTL DEF Spec

(***************************************************************************)
(* Exclusion: while leases outlive their attempts, every running request   *)
(* holds the lease of its draft and has the draft to itself.               *)
(***************************************************************************)
THEOREM Exclusion ==
    ASSUME "liveExpiry" \notin Faults, "overlap" \notin Faults
    PROVE  Spec => []AttemptHoldsLease
<1>1. IInv => AttemptHoldsLease
    BY DEF IInv, Control, Leases, AttemptHoldsLease
<1> QED  BY <1>1, Invariance, PTL

(***************************************************************************)
(* Recorded: what was sent, or is still being sent, is what the            *)
(* operation's external_reference names.                                   *)
(***************************************************************************)
THEOREM Recorded ==
    ASSUME "liveExpiry" \notin Faults, "overlap" \notin Faults
    PROVE  Spec => []SentIsRecorded
<1>1. IInv => SentIsRecorded
    BY DEF IInv, Data
<1> QED  BY <1>1, Invariance, PTL

(***************************************************************************)
(* Completion: an operation is stored as completed only after its message  *)
(* was sent or its event created.                                          *)
(***************************************************************************)
THEOREM Completion ==
    ASSUME "liveExpiry" \notin Faults, "overlap" \notin Faults
    PROVE  Spec => []CompletedTookEffect
<1>1. IInv => CompletedTookEffect
    BY DEF IInv, Data
<1> QED  BY <1>1, Invariance, PTL

\* A sent message is the one its row names, and an event is the only one.
LEMMA OneDelivered == IInv => AtMostOneEffect
<1> SUFFICES ASSUME IInv, NEW d \in Draft, NEW r \in Delivered(d), NEW s \in Delivered(d)
             PROVE  r = s
    BY DEF AtMostOneEffect
<1> USE DEF IInv, Data, Delivered
<1>1. CASE remote[r].state = "sent" /\ remote[s].state = "sent"
    BY <1>1 DEF SentIsRecorded
<1>2. CASE remote[r].state = "event" /\ remote[s].state = "event"
    BY <1>2 DEF EventUnique
<1> QED  BY <1>1, <1>2 DEF RemoteShape

(***************************************************************************)
(* OnceOnly: however often an operation is executed, fails, is recovered   *)
(* and retried, one message or one event comes of its draft.               *)
(***************************************************************************)
THEOREM OnceOnly ==
    ASSUME "liveExpiry" \notin Faults, "overlap" \notin Faults
    PROVE  Spec => []AtMostOneEffect
  BY OneDelivered, Invariance, PTL

-----------------------------------------------------------------------------
(* The recorded reference *)

(***************************************************************************)
(* A failed call knows the reference of its row when no commit is left in  *)
(* doubt: an error of the checkpoint means that nothing was stored.        *)
(***************************************************************************)
Known == \A c \in Caller : call[c].pc = "fail" => call[c].ref = op[call[c].draft].ref

\* With no commit in doubt a failed call still knows the reference of its row.
LEMMA KnownStep ==
    ASSUME "unknownCommit" \notin Faults, IInv, Known, [Next]_vars
    PROVE  Known'
<1> USE DEF IInv, Control, Known
<1>1. CASE UNCHANGED call /\ \A d \in Draft : op[d].status = "executing" /\ ~op[d].expired
                                               => op'[d].ref = op[d].ref
    BY <1>1 DEF Leases, CanFinish, Holds, CallShape
<1>2. ASSUME NEW c \in Caller, NEW pc \in Pcs, NEW r \in Ref, Moves(c, pc, r), UNCHANGED op,
             call[c].pc \in {"execute", "checkpoint", "send", "succeed"}
      PROVE  Known'
    BY <1>2 DEF Moves, Data, InHand
<1>3. ASSUME NEW c \in Caller, CheckpointOperation(c) PROVE Known'
  <2>1. CASE UNCHANGED op /\ Goto(c, "fail")
    BY <1>2, <1>3, <2>1, GotoMoves DEF CheckpointOperation, Pcs, TypeOK, Call
  <2>2. CASE /\ op' = [op EXCEPT ![call[c].draft].ref = call[c].msg]
             /\ call' = [call EXCEPT ![c].ref = call[c].msg,
                    ![c].pc = IF KindOf[call[c].draft] = "email" THEN "send" ELSE "succeed"]
    <3>1. call'[c].pc # "fail" /\ \A b \in Caller \ {c} : call'[b] = call[b]
      BY <1>3, <2>2 DEF TypeOK, Call, CheckpointOperation
    <3>2. \A b \in Caller \ {c} : call[b].draft # call[c].draft
      BY <1>3 DEF CheckpointOperation, Leases
    <3>3. \A e \in Draft \ {call[c].draft} : op'[e] = op[e]
      BY <2>2 DEF TypeOK
    <3> QED  BY <3>1, <3>2, <3>3 DEF CallShape
  <2> QED  BY <1>3, <2>1, <2>2 DEF CheckpointOperation
<1>4. ASSUME NEW c \in Caller, FinishCall(c) PROVE Known'
  <2>1. /\ call'[c] = NoCall
        /\ \A b \in Caller \ {c} : call'[b] = call[b] /\ call[b].draft # call[c].draft
    BY <1>4 DEF FinishCall, TypeOK, Leases
  <2>2. \A e \in Draft \ {call[c].draft} : op'[e] = op[e]
    BY <1>4 DEF FinishCall, FinishOperation, TypeOK
  <2> QED  BY <2>1, <2>2 DEF NoCall, CallShape
<1>5. ASSUME NEW c \in Caller, Execute(c) PROVE Known'
  <2>1. CASE CheckpointOperation(c) \/ FinishCall(c)
    BY <1>3, <1>4, <2>1
  <2>2. CASE ~(CheckpointOperation(c) \/ FinishCall(c))
    <3>1. UNCHANGED op /\ call[c].pc \in {"execute", "send"}
      BY <1>5, <2>2 DEF Execute, CallFails, CreateEmailDraft, CheckEmailState, SendEmailDraft,
            CreateCalendarEvent, ReuseCalendarEvent, Executing
    <3>2. \E pc \in Pcs, r \in Ref : Goto(c, pc) \/ GotoWith(c, pc, r)
      <4>1. call[c].ref \in Ref /\ Remote \subseteq Ref
        BY DEF TypeOK, Call, Ref
      <4> QED  BY <1>5, <2>2, <4>1 DEF Execute, CallFails, CreateEmailDraft, CheckEmailState,
                  SendEmailDraft, CreateCalendarEvent, ReuseCalendarEvent, Pcs
    <3> QED  BY <1>2, <3>1, <3>2, GotoMoves, GotoWithMoves DEF TypeOK, Call
  <2> QED  BY <2>1, <2>2
<1>6. ASSUME NEW c \in Caller, NEW p \in Process, NEW d \in Draft, ClaimOperation(c, p, d)
      PROVE  Known'
  <2>1. \A e \in Draft : op'[e].ref = op[e].ref
    BY <1>6 DEF ClaimOperation, TypeOK
  <2>2. \A b \in Caller : call'[b].pc = "fail" => call'[b] = call[b]
    BY <1>6 DEF ClaimOperation, TypeOK
  <2> QED  BY <2>1, <2>2 DEF CallShape
<1>7. ASSUME NEW d \in Draft, User(d) \/ LeaseExpires(d) PROVE Known'
    BY <1>1, <1>7 DEF User, SaveDraft, DeleteDraft, SubmitForConfirmation, Decide,
                      TransitionDraft, PrepareOperation, LeaseExpires, TypeOK, Operation
<1>8. ASSUME NEW p \in Process, Recover(p) PROVE Known'
  <2>1. CASE RecoverItem(p)
    <3>1. PICK item \in recovery[p].items :
              FinishOperation(item.draft, "failed", item.ref) \/ UNCHANGED <<op, draft>>
      BY <2>1 DEF RecoverItem
    <3>2. \A e \in Draft \ {item.draft} : op'[e] = op[e]
      BY <3>1 DEF FinishOperation, TypeOK
    <3>3. op[item.draft].expired
      BY <3>1 DEF Recoveries
    <3> QED  BY <1>1, <2>1, <3>2, <3>3 DEF RecoverItem
  <2> QED  BY <1>1, <1>8, <2>1 DEF Recover, StartProcess, NextBatch
<1>9. ASSUME NEW p \in Process, Crash(p) PROVE Known'
    BY <1>9 DEF Crash, NoCall
<1> QED
    BY <1>1, <1>5, <1>6, <1>7, <1>8, <1>9 DEF Next, LateSend, vars

\* No step changes a reference that is there.
LEMMA ReferenceStep ==
    ASSUME IInv, Known, [Next]_vars, NEW d \in Draft, op[d].ref # NoRemote
    PROVE  op'[d].ref = op[d].ref
<1> USE DEF IInv, Control
<1>1. ASSUME NEW e \in Draft, NEW status, FinishOperation(e, status, op[e].ref)
      PROVE  op'[d].ref = op[d].ref
    BY <1>1 DEF FinishOperation, TypeOK
<1>2. ASSUME NEW c \in Caller, CheckpointOperation(c) PROVE op'[d].ref = op[d].ref
  <2>1. call[c].draft \in Draft /\ op[call[c].draft].ref = NoRemote
    BY <1>2 DEF CheckpointOperation, CallShape, Data, InHand
  <2>2. op'[d] = op[d]
    BY <1>2, <2>1 DEF CheckpointOperation, TypeOK
  <2> QED  BY <2>2
<1>3. ASSUME NEW c \in Caller, FinishCall(c) PROVE op'[d].ref = op[d].ref
  <2>1. /\ call[c].draft \in Draft
        /\ call[c].pc = "succeed" => call[c].msg = op[call[c].draft].ref
        /\ call[c].pc = "fail" => call[c].ref = op[call[c].draft].ref
    BY <1>3 DEF FinishCall, CallShape, Known, Data, InHand
  <2> QED  BY <1>1, <1>3, <2>1 DEF FinishCall
<1>4. ASSUME NEW c \in Caller, Execute(c) PROVE op'[d].ref = op[d].ref
    BY <1>2, <1>3, <1>4 DEF Execute, CallFails, CreateEmailDraft, CheckEmailState, SendEmailDraft,
                            CreateCalendarEvent, ReuseCalendarEvent
<1>5. ASSUME NEW p \in Process, Recover(p) PROVE op'[d].ref = op[d].ref
  <2>1. CASE RecoverItem(p)
    <3>1. PICK item \in recovery[p].items :
              FinishOperation(item.draft, "failed", item.ref) \/ UNCHANGED <<op, draft>>
      BY <2>1 DEF RecoverItem
    <3>2. item.draft \in Draft /\ item.ref = op[item.draft].ref
      BY <3>1 DEF Recoveries
    <3> QED  BY <1>1, <3>1, <3>2
  <2> QED  BY <1>5, <2>1 DEF Recover, StartProcess, NextBatch
<1>6. ASSUME NEW e \in Draft, User(e) \/ LeaseExpires(e) PROVE op'[d].ref = op[d].ref
    BY <1>6 DEF User, SaveDraft, DeleteDraft, SubmitForConfirmation, Decide, TransitionDraft,
                PrepareOperation, LeaseExpires, TypeOK, Operation
<1>7. ASSUME NEW c \in Caller, NEW p \in Process, NEW e \in Draft, ClaimOperation(c, p, e)
      PROVE  op'[d].ref = op[d].ref
    BY <1>7 DEF ClaimOperation, TypeOK
<1> QED
    BY <1>4, <1>5, <1>6, <1>7 DEF Next, LateSend, Crash, vars

(***************************************************************************)
(* Kept: where leases outlive their attempts, processes start one at a     *)
(* time and no commit is in doubt, a stored external_reference is never    *)
(* cleared or replaced.                                                    *)
(***************************************************************************)
THEOREM Kept ==
    ASSUME "liveExpiry" \notin Faults, "overlap" \notin Faults, "unknownCommit" \notin Faults
    PROVE  Spec => ReferenceKept
<1>1. Init => IInv /\ Known
    BY Initially DEF Init, Known, NoCall
<1>2. IInv /\ Known /\ [Next]_vars => IInv' /\ Known'
    BY Inductive, KnownStep
<1>3. IInv /\ Known /\ [Next]_vars =>
          [\A d \in Draft : op[d].ref # NoRemote => op'[d].ref = op[d].ref]_vars
    BY ReferenceStep
<1> QED  BY <1>1, <1>2, <1>3, PTL DEF Spec, ReferenceKept

-----------------------------------------------------------------------------
(* The promise of OfficeEffect *)

\* What was delivered for a draft is counted as nothing or as one.
LEMMA Counted ==
    ASSUME IInv, NEW d \in Draft
    PROVE  /\ Cardinality(Delivered(d)) \in {0, 1}
           /\ Cardinality(Delivered(d)) = 0 <=> Delivered(d) = {}
<1>1. CASE Delivered(d) = {}
    BY <1>1, FS_EmptySet
<1>2. ASSUME NEW r \in Delivered(d)
      PROVE  Cardinality(Delivered(d)) = 1
  <2>1. Delivered(d) = {r}
    BY OneDelivered, <1>2 DEF AtMostOneEffect
  <2> QED  BY <2>1, FS_Singleton
<1> QED  BY <1>1, <1>2

Approved == {d \in Draft : draft[d] \in {"approved", "executing", "completed", "failed"}}
Reported == {d \in Draft : op[d].status = "completed"}
Effects == [d \in Draft |-> Cardinality(Delivered(d))]

\* The steps of the promise, in terms of the rows and the mailbox.
LEMMA Unfolded == /\ Effect!Next <=>
                       \E d \in Draft :
                          \/ /\ Approved' = Approved \cup {d}
                             /\ Effects' = Effects /\ Reported' = Reported
                          \/ /\ d \in Approved /\ Effects[d] = 0
                             /\ Effects' = [Effects EXCEPT ![d] = 1]
                             /\ Approved' = Approved /\ Reported' = Reported
                          \/ /\ Effects[d] = 1 /\ Reported' = Reported \cup {d}
                             /\ Approved' = Approved /\ Effects' = Effects
                  /\ UNCHANGED Effect!vars <=> /\ Approved' = Approved
                                               /\ Effects' = Effects /\ Reported' = Reported
  BY DEF Effect!Next, Effect!Authorise, Effect!TakeEffect, Effect!Report, Effect!vars,
         Approved, Reported, Effects

(***************************************************************************)
(* A step of the outside world is a step of the promise: one object comes  *)
(* to be delivered for a draft that was approved and had none.             *)
(***************************************************************************)
LEMMA Delivers ==
    ASSUME IInv, AtMostOneEffect', UNCHANGED <<draft, op>>, NEW d \in Approved, NEW m \in Remote,
           remote'[m].of = d, remote'[m].state \in {"sent", "event"},
           \A q \in Remote \ {m} : remote'[q] = remote[q],
           remote[m].state = "free" \/ remote[m].of = d,
           remote[m].state \in {"sent", "event"} => remote'[m] = remote[m]
    PROVE  Effect!Next \/ UNCHANGED Effect!vars
<1>1. Approved' = Approved /\ Reported' = Reported /\ d \in Draft
    BY DEF Approved, Reported
<1>2. \A e \in Draft \ {d} : Delivered(e)' = Delivered(e)
    BY DEF Delivered, IInv, Data, RemoteShape
<1>3. m \in Delivered(d)'
    BY DEF Delivered
<1>4. CASE m \in Delivered(d)
  <2>1. Delivered(d)' = Delivered(d)
    BY <1>4 DEF Delivered
  <2> QED  BY <1>1, <1>2, <2>1, Unfolded DEF Effects
<1>5. CASE m \notin Delivered(d)
  <2>1. Delivered(d)' = {m}
    BY <1>1, <1>3 DEF AtMostOneEffect
  <2>2. Delivered(d) = {}
    BY <1>5, <2>1 DEF Delivered
  <2>3. Cardinality(Delivered(d)) = 0 /\ Cardinality(Delivered(d)') = 1
    BY <2>1, <2>2, FS_EmptySet, FS_Singleton
  <2>4. \A e \in Draft : Cardinality(Delivered(e)') = IF e = d THEN 1 ELSE Cardinality(Delivered(e))
    BY <1>2, <2>3
  <2>5. Effects' = [e \in Draft |-> Cardinality(Delivered(e)')]
    BY DEF Effects
  <2>6. Effects[d] = 0 /\ Effects' = [Effects EXCEPT ![d] = 1]
    BY <1>1, <2>3, <2>4, <2>5 DEF Effects
  <2> QED  BY <1>1, <2>6, Unfolded
<1> QED  BY <1>4, <1>5

(***************************************************************************)
(* A step that leaves the outside world alone approves a draft, reports    *)
(* one that took effect, or is invisible.                                  *)
(***************************************************************************)
LEMMA Answers ==
    ASSUME IInv, UNCHANGED remote, NEW d \in Draft,
           \A e \in Draft \ {d} : draft'[e] = draft[e] /\ op'[e].status = op[e].status,
           \/ Approved' = Approved \cup {d} /\ op'[d].status # "completed"
                                           /\ op[d].status # "completed"
           \/ /\ Approved' = Approved
              /\ op'[d].status = "completed" => Delivered(d) # {}
              /\ op[d].status = "completed" => op'[d].status = "completed"
    PROVE  Effect!Next \/ UNCHANGED Effect!vars
<1>1. Effects' = Effects
    BY DEF Effects, Delivered
<1>2. CASE op'[d].status = "completed"
  <2>1. Reported' = Reported \cup {d} /\ Approved' = Approved
    BY <1>2 DEF Reported
  <2>2. Effects[d] = 1
    BY <1>2, Counted DEF Effects
  <2> QED  BY <1>1, <2>1, <2>2, Unfolded
<1>3. CASE op'[d].status # "completed"
  <2>1. Reported' = Reported
    BY <1>3 DEF Reported
  <2>2. Approved' = Approved \/ Approved' = Approved \cup {d}
    OBVIOUS
  <2> QED  BY <1>1, <2>1, <2>2, Unfolded
<1> QED  BY <1>2, <1>3

\* With no drafts and an empty mailbox nothing is promised.
LEMMA PromiseInit == Init => Effect!Init
<1> SUFFICES ASSUME Init PROVE Effect!Init
    OBVIOUS
<1>1. \A d \in Draft : Cardinality(Delivered(d)) = 0
  <2>1. \A d \in Draft : Delivered(d) = {}
    BY DEF Init, Delivered, NoObject
  <2> QED  BY <2>1, FS_EmptySet
<1> QED  BY <1>1 DEF Init, Effect!Init, NoOperation

\* Every step of the program is a step of the promise or invisible in it.
LEMMA PromiseStep ==
    ASSUME IInv, AtMostOneEffect', [Next]_vars
    PROVE  Effect!Next \/ UNCHANGED Effect!vars
<1> USE DEF IInv, Control
<1>1. CASE UNCHANGED <<draft, op, remote>>
    BY <1>1 DEF Effect!vars, Delivered
<1>2. ASSUME NEW d \in Draft, User(d) PROVE Effect!Next \/ UNCHANGED Effect!vars
  <2>1. UNCHANGED remote /\ \A e \in Draft \ {d} : draft'[e] = draft[e] /\ op'[e] = op[e]
    BY <1>2 DEF User, SaveDraft, DeleteDraft, SubmitForConfirmation, Decide, TransitionDraft,
                PrepareOperation, TypeOK
  <2>2. op[d].status \in {"none", "pending"} /\ op'[d].status \in {"none", "pending"}
        /\ Approved' \in {Approved, Approved \cup {d}}
    <3>1. CASE PrepareOperation(d)
      BY <3>1 DEF PrepareOperation, Approved, TypeOK, Operation
    <3>2. CASE SaveDraft(d) \/ DeleteDraft(d) \/ SubmitForConfirmation(d) \/ Decide(d)
      <4>1. draft[d] \in {"absent", "draft", "pending_confirmation"} /\ op' = op
        BY <3>2 DEF SaveDraft, DeleteDraft, SubmitForConfirmation, Decide, TransitionDraft
      <4>2. op[d].status = "none"
        BY <4>1 DEF RowsAgree, TypeOK, Operation, OpStatus
      <4>3. draft'[d] \in {"absent", "draft", "pending_confirmation", "approved", "rejected"}
        BY <3>2 DEF SaveDraft, DeleteDraft, SubmitForConfirmation, Decide, TransitionDraft, TypeOK
      <4> QED  BY <2>1, <4>1, <4>2, <4>3 DEF Approved
    <3> QED  BY <1>2, <3>1, <3>2 DEF User
  <2> QED  BY <2>1, <2>2, Answers
<1>3. ASSUME NEW d \in Draft, LeaseExpires(d) PROVE Effect!Next \/ UNCHANGED Effect!vars
  <2>1. UNCHANGED <<remote, draft>> /\ \A e \in Draft : op'[e].status = op[e].status
    BY <1>3 DEF LeaseExpires, TypeOK, Operation
  <2> QED  BY <2>1, Unfolded DEF Approved, Reported, Effects, Delivered
<1>4. ASSUME NEW c \in Caller, NEW p \in Process, NEW d \in Draft, ClaimOperation(c, p, d)
      PROVE  Effect!Next \/ UNCHANGED Effect!vars
  <2>1. /\ UNCHANGED remote
        /\ \A e \in Draft \ {d} : draft'[e] = draft[e] /\ op'[e] = op[e]
        /\ op'[d].status = "executing" /\ draft'[d] = "executing"
        /\ op[d].status # "completed" /\ draft[d] \in {"approved", "failed"}
    BY <1>4 DEF ClaimOperation, Claimable, TypeOK
  <2>2. Approved' = Approved
    BY <2>1 DEF Approved
  <2> QED  BY <2>1, <2>2, Answers
<1>5. ASSUME NEW d \in Draft, CanFinish(d, op[d].owner), NEW status \in {"completed", "failed"},
             NEW ref \in Ref, FinishOperation(d, status, ref), UNCHANGED remote,
             status = "completed" => Delivered(d) # {}
      PROVE  Effect!Next \/ UNCHANGED Effect!vars
  <2>1. Finishes(d, status, ref)
    BY <1>5, FinishOperationFinishes
  <2>2. op[d].status = "executing" /\ draft[d] = "executing"
    BY <1>5 DEF CanFinish, Holds
  <2>3. Approved' = Approved
    BY <2>1, <2>2 DEF Approved, Finishes
  <2> QED  BY <1>5, <2>1, <2>2, <2>3, Answers DEF Finishes
<1>6. ASSUME NEW c \in Caller, Execute(c) PROVE Effect!Next \/ UNCHANGED Effect!vars
  <2> DEFINE d == call[c].draft
  <2>1. CASE CreateEmailDraft(c)
    <3>1. UNCHANGED <<draft, op>> /\ \A e \in Draft : Delivered(e)' = Delivered(e)
      BY <2>1 DEF CreateEmailDraft, Delivered, TypeOK
    <3> QED  BY <3>1, Unfolded DEF Approved, Reported, Effects
  <2>2. CASE CreateCalendarEvent(c)
    <3>1. call[c].pc = "execute"
      BY <2>2 DEF CreateCalendarEvent, Executing
    <3>2. d \in Approved
      BY <3>1 DEF Leases, CanFinish, CallShape, Approved
    <3>3. PICK r \in Remote :
              /\ remote' = [remote EXCEPT ![r] = [state |-> "event", of |-> d]]
              /\ remote[r] = [state |-> "event", of |-> d] \/ remote[r].state = "free"
      BY <2>2 DEF CreateCalendarEvent
    <3> QED  BY <2>2, <3>2, <3>3, Delivers DEF CreateCalendarEvent, TypeOK
  <2>3. CASE SendEmailDraft(c)
    <3> DEFINE m == call[c].msg
    <3>1. call[c].pc = "send" /\ m \in Remote /\ remote[m].of = d /\ remote[m].state = "unsent"
      BY <2>3 DEF SendEmailDraft, CallShape, Data, InHand, RefShape, Owns
    <3>2. d \in Approved
      BY <3>1 DEF Leases, CanFinish, CallShape, Approved
    <3>3. CASE remote' = [remote EXCEPT ![m].state = "sent"]
      <4>1. /\ remote'[m].of = d /\ remote'[m].state = "sent"
            /\ \A q \in Remote \ {m} : remote'[q] = remote[q]
        BY <3>1, <3>3 DEF TypeOK, RemoteObject
      <4> QED  BY <2>3, <3>1, <3>2, <4>1, Delivers DEF SendEmailDraft
    <3> QED  BY <1>1, <2>3, <3>3 DEF SendEmailDraft
  <2>4. CASE CheckpointOperation(c)
    <3>1. UNCHANGED <<draft, remote>> /\ \A e \in Draft : op'[e].status = op[e].status
      BY <2>4 DEF CheckpointOperation, TypeOK, Operation
    <3> QED  BY <3>1, Unfolded DEF Approved, Reported, Effects, Delivered
  <2>5. CASE FinishCall(c)
    <3>1. d \in Draft /\ call[c].msg \in Ref /\ call[c].ref \in Ref /\ CanFinish(d, op[d].owner)
      BY <2>5 DEF FinishCall, CallShape, TypeOK, Call, Leases, CanFinish, Holds
    <3>2. call[c].pc = "succeed" => call[c].msg \in Delivered(d)
      BY <3>1 DEF Data, InHand, RefShape, Owns, Delivered, CallShape
    <3> QED  BY <1>1, <1>5, <2>5, <3>1, <3>2 DEF FinishCall
  <2> QED
    BY <1>1, <1>6, <2>1, <2>2, <2>3, <2>4, <2>5
       DEF Execute, CallFails, CheckEmailState, ReuseCalendarEvent
<1>7. ASSUME NEW m \in Remote, LateSend(m) PROVE Effect!Next \/ UNCHANGED Effect!vars
  <2> DEFINE d == remote[m].of
  <2>1. /\ remote'[m].of = d /\ remote'[m].state = "sent" /\ remote[m].state \in {"unsent", "sent"}
        /\ \A q \in Remote \ {m} : remote'[q] = remote[q]
        /\ d \in Draft /\ op[d].ref = m /\ UNCHANGED <<draft, op>>
    BY <1>7 DEF LateSend, TypeOK, RemoteObject, Data, RemoteShape, SentIsRecorded
  <2>2. d \in Approved
    BY <2>1 DEF Data, RefShape, RowsAgree, Approved
  <2>3. remote[m].state \in {"sent", "event"} => remote'[m] = remote[m]
    BY <1>7, <2>1 DEF LateSend, TypeOK, RemoteObject
  <2> QED  BY <2>1, <2>2, <2>3, Delivers
<1>8. ASSUME NEW p \in Process, Recover(p) PROVE Effect!Next \/ UNCHANGED Effect!vars
  <2>1. CASE RecoverItem(p)
    <3>1. PICK item \in recovery[p].items :
              IF CanFinish(item.draft, item.owner)
              THEN FinishOperation(item.draft, "failed", item.ref)
              ELSE UNCHANGED <<op, draft>>
      BY <2>1 DEF RecoverItem
    <3>2. item.draft \in Draft /\ item.ref \in Ref
      BY <3>1 DEF Recoveries, TypeOK, Operation
    <3> QED  BY <1>1, <1>5, <2>1, <3>1, <3>2 DEF RecoverItem, CanFinish, Holds
  <2> QED  BY <1>1, <1>8, <2>1 DEF Recover, StartProcess, NextBatch
<1> QED
    BY <1>1, <1>2, <1>3, <1>4, <1>6, <1>7, <1>8 DEF Next, Crash, vars

(***************************************************************************)
(* Implementation: while leases outlive their attempts, drafts, leases,    *)
(* recovery and the Graph calls together keep the promise of OfficeEffect: *)
(* nothing happens without approval, nothing happens twice, and success is *)
(* reported only of what happened.                                         *)
(***************************************************************************)
THEOREM Implementation ==
    ASSUME "liveExpiry" \notin Faults, "overlap" \notin Faults
    PROVE  Spec => EffectSpec
<1>1. IInv /\ AtMostOneEffect' /\ [Next]_vars => [Effect!Next]_(Effect!vars)
    BY PromiseStep
<1> QED  BY <1>1, PromiseInit, OnceOnly, Invariance, PTL DEF Spec, EffectSpec, Effect!Spec
=============================================================================
