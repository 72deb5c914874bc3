--------------------------- MODULE ChatRun_proofs ---------------------------
(***************************************************************************)
(* Proofs about chat runs, for any number of requests, conversations and   *)
(* hand-offs, any approval policy and any faults; those about turns assume *)
(* that no lock is lost.                                                   *)
(***************************************************************************)
EXTENDS ChatRun, TLAPS

USE RequestsAssumption

(***************************************************************************)
(* The strengthening.  Where a request is in its handler bounds what is    *)
(* stored for it, and what Wait returned is what the record says for good. *)
(***************************************************************************)
Fresh == {"idle", "lock", "load", "say", "create", "announce", "request"}
Undecided == Fresh \cup {"ask", "await", "wait"}
Running == {"execute", "sweep", "store", "output", "queue"}

Stopped(r) == decision[r] \in {"rejected", "expired"}
Cleared(r) == decision[r] \in {"none", "approved"}
              /\ (r \in NeedsApproval => decision[r] = "approved")

\* The rows of a conversation live as long as it does.
Rows(r) ==
  /\ ~Present(r) => run[r] \in {"none", "deleted"} /\ approval[r] \in {"none", "deleted"}
  /\ ~Present(r) => jobs[r] = {} /\ ~Stands(r, "answer") /\ ~Stands(r, "notice")
  /\ Present(r) => run[r] # "deleted" /\ approval[r] # "deleted"
  /\ Stands(r, "answer") <=> "capture" \in jobs[r]

\* What was sent to the waiter or returned by Wait is what is stored.
Ruled(r) ==
  /\ waiter[r] \in Decisions => approval[r] \in {waiter[r], "deleted"}
  /\ decision[r] # "none" => approval[r] \in {decision[r], "deleted"}

\* What a station tells about the request.
Stage(r) ==
  /\ pc[r] \in Fresh => approval[r] = "none"
  /\ pc[r] \in Undecided =>
       /\ decision[r] = "none"
       /\ ~Stands(r, "answer")
       /\ ~Stands(r, "notice")
       /\ \A h \in Handoffs : child[r][h] = "none"
  /\ pc[r] \in {"ask", "await", "wait"} => approval[r] # "none"
  /\ pc[r] = "decided" => decision[r] # "none"
  /\ pc[r] = "stop" => Stopped(r)
  /\ pc[r] \in Running => Cleared(r)
  /\ pc[r] \in {"output", "queue"} /\ Present(r) => Stands(r, "answer")
  /\ pc[r] \in {"complete", "close"} =>
       /\ Stopped(r) \/ Cleared(r)
       /\ Present(r) /\ Stopped(r) => Stands(r, "notice")
       /\ Present(r) /\ Cleared(r) => Stands(r, "answer")
  /\ pc[r] \in {"sweep", "failing"} => cause[r] # "none"

\* What is stored tells what was decided.
Story(r) ==
  /\ Stands(r, "answer") => Cleared(r)
  /\ Stands(r, "notice") => Stopped(r)
  /\ (\E h \in Handoffs : child[r][h] # "none") => Cleared(r)
  /\ run[r] = "completed" => Stands(r, "answer")
  /\ run[r] = "rejected" => Stands(r, "notice") /\ decision[r] = "rejected"
  /\ run[r] \in Ended => pc[r] \in {"unlock", "done", "crashed"}
  /\ pc[r] \in {"idle", "lock", "load", "say", "create"} => run[r] = "none"

Tale(r) == Rows(r) /\ Ruled(r) /\ Stage(r) /\ Story(r)

\* The types the tale relies on.
Typed(r) ==
  /\ decision[r] \in Decisions \cup {"none"}
  /\ cause[r] \in {"none", "failed", "cancelled"}

Erased == \A c \in Conversations : ~exists[c] => messages[c] = <<>>

IInv == TypeOK /\ Erased /\ \A r \in Requests : Tale(r)

(***************************************************************************)
(* Outcomes of statements.                                                 *)
(***************************************************************************)
LEMMA Suffered ==
  ASSUME TypeOK, NEW r \in Requests, NEW o \in Told(r), Suffer(r, o)
  PROVE  /\ connected' \in [Requests -> BOOLEAN]
         /\ cause' \in [Requests -> {"none", "failed", "cancelled"}]
         /\ faults' \in 0 .. MaxFaults
         /\ o # "ok" => cause'[r] # "none"
         /\ \A q \in Requests : q # r => cause'[q] = cause[q]
<1>1. o \in {"ok", "cut", "gone", "fail", "lost"}
    BY DEF Told, Outcomes
<1>2. Live(r) /\ o \in {"fail", "lost"} => faults < MaxFaults
    BY DEF Told, Outcomes, MayFault
<1> QED
    BY <1>1, <1>2 DEF Suffer, TypeOK

LEMMA OutcomeFacts ==
  ASSUME NEW r \in Requests, NEW o \in Outcomes(r)
  PROVE  /\ o \in Told(r) /\ o \in {"ok", "lost", "cut", "fail"}
         /\ o = "ok" \/ Done(o) => Present(r)
BY DEF Told, Outcomes, Done, Live

LEMMA ToldFacts ==
  ASSUME NEW r \in Requests, NEW o \in Told(r)
  PROVE  o = "ok" => Present(r)
BY DEF Told, Outcomes, Live

(***************************************************************************)
(* Storing a message adds that message and no other.                       *)
(***************************************************************************)
LEMMA Stored ==
  ASSUME TypeOK, NEW r \in Requests, NEW role \in {"user", "answer", "notice"}, Store(r, role)
  PROVE  /\ messages' \in [Conversations -> Seq(Message)]
         /\ \A q \in Requests, ro \in {"user", "answer", "notice"} :
              Stands(q, ro)' <=> Stands(q, ro) \/ (q = r /\ ro = role)
<1> DEFINE c == ConversationOf[r]
           m == Written(r, role)
<1>1. c \in Conversations /\ m \in Message /\ messages[c] \in Seq(Message)
    BY DEF TypeOK, Message, Written
<1>2. messages' = [messages EXCEPT ![c] = Append(messages[c], m)]
    BY DEF Store, Conversation
<1>3. messages' \in [Conversations -> Seq(Message)]
    BY <1>1, <1>2 DEF TypeOK
<1>4. ASSUME NEW q \in Requests, NEW ro \in {"user", "answer", "notice"}
      PROVE  Stands(q, ro)' <=> Stands(q, ro) \/ (q = r /\ ro = role)
  <2> DEFINE d == ConversationOf[q]
  <2>1. d \in Conversations
      OBVIOUS
  <2>2. CASE d # c
    <3>1. messages'[d] = messages[d] /\ q # r
        BY <1>2, <2>1, <2>2 DEF TypeOK
    <3> QED
        BY <3>1 DEF Stands, Conversation
  <2>3. CASE d = c
    <3>1. /\ messages'[d] = Append(messages[d], m)
          /\ Len(messages'[d]) = Len(messages[d]) + 1
          /\ messages'[d][Len(messages[d]) + 1] = m
          /\ \A i \in 1 .. Len(messages[d]) : messages'[d][i] = messages[d][i]
        BY <1>1, <1>2, <2>1, <2>3 DEF TypeOK
    <3>2. /\ DOMAIN messages[d] = 1 .. Len(messages[d])
          /\ DOMAIN messages'[d] = 1 .. Len(messages[d]) + 1
          /\ Len(messages[d]) \in Nat
        BY <1>1, <2>3, <3>1
    <3>3. m = Written(q, ro) <=> (q = r /\ ro = role)
        BY DEF Written
    <3>4. (\E i \in DOMAIN messages'[d] : messages'[d][i] = Written(q, ro))
          <=> (\E i \in DOMAIN messages[d] : messages[d][i] = Written(q, ro)) \/ m = Written(q, ro)
        BY <3>1, <3>2
    <3> QED
        BY <3>3, <3>4 DEF Stands, Conversation, Written
  <2> QED
      BY <2>2, <2>3
<1> QED
    BY <1>3, <1>4

LEMMA StandsKept ==
  ASSUME UNCHANGED messages
  PROVE  \A q \in Requests, ro \in {"user", "answer", "notice"} : Stands(q, ro)' <=> Stands(q, ro)
BY DEF Stands, Conversation, Written

(***************************************************************************)
(* Types.                                                                  *)
(***************************************************************************)
LEMMA Replaced ==
  ASSUME NEW S, NEW f \in [Requests -> S], NEW r \in Requests, NEW v \in S
  PROVE  [f EXCEPT ![r] = v] \in [Requests -> S]
OBVIOUS

LEMMA Moved ==
  ASSUME TypeOK, NEW r \in Requests, NEW s \in Stations, Goto(r, s)
  PROVE  pc' \in [Requests -> Stations]
<1>1. pc \in [Requests -> Stations]
    BY DEF TypeOK
<1> QED
    BY <1>1 DEF Goto

LEMMA TypeStep ==
  ASSUME IInv, [Next]_vars
  PROVE  TypeOK'
<1>a. TypeOK /\ \A r \in Requests : Tale(r)
    BY DEF IInv
<1>1. ASSUME NEW r \in Requests, Arrive(r)
      PROVE  TypeOK'
    BY <1>a, <1>1
    DEF Arrive, TypeOK, Stations, Goto, stored, local, vars, Conversation
<1>2. ASSUME NEW r \in Requests, AcquireConversationLock(r)
      PROVE  TypeOK'
    BY <1>a, <1>2
    DEF AcquireConversationLock, Free, TypeOK, Stations, Goto, stored, local, vars,
        Conversation
<1>3. ASSUME NEW r \in Requests, GiveUpLock(r)
      PROVE  TypeOK'
    BY <1>a, <1>3
    DEF GiveUpLock, TypeOK, Stations, Goto, stored, local, vars, Conversation
<1>4. ASSUME NEW r \in Requests, LoadHistory(r)
      PROVE  TypeOK'
    BY <1>a, <1>4, Suffered, OutcomeFacts
    DEF LoadHistory, TypeOK, Stations, Goto, stored, local, vars, Conversation
<1>5. ASSUME NEW r \in Requests, AddUserMessage(r)
      PROVE  TypeOK'
    BY <1>a, <1>5, Suffered, OutcomeFacts, Stored
    DEF AddUserMessage, TypeOK, Stations, Goto, stored, local, vars, Conversation
<1>6. ASSUME NEW r \in Requests, CreateRun(r)
      PROVE  TypeOK'
    BY <1>a, <1>6, Suffered, OutcomeFacts
    DEF CreateRun, TypeOK, Stations, Goto, stored, local, vars, Conversation, Ended
<1>7. ASSUME NEW r \in Requests, Announce(r)
      PROVE  TypeOK'
    BY <1>a, <1>7, Suffered, OutcomeFacts
    DEF Announce, TypeOK, Stations, Goto, stored, local, vars, Conversation
<1>8. ASSUME NEW r \in Requests, RequestApproval(r)
      PROVE  TypeOK'
    BY <1>a, <1>8, Suffered, OutcomeFacts
    DEF RequestApproval, TypeOK, Stations, Goto, stored, local, vars, Conversation,
        Decisions
<1>9. ASSUME NEW r \in Requests, AskForApproval(r)
      PROVE  TypeOK'
  <2>1. PICK o \in Told(r) :
          Suffer(r, o) /\ Goto(r, IF o = "ok" THEN "await" ELSE "failing")
      BY <1>9 DEF AskForApproval
  <2>2. "await" \in Stations /\ "failing" \in Stations
      BY DEF Stations
  <2>3. pc' \in [Requests -> Stations]
    <3>1. CASE o = "ok"
        BY <1>a, <2>1, <2>2, <3>1, Moved
    <3>2. CASE o # "ok"
        BY <1>a, <2>1, <2>2, <3>2, Moved
    <3> QED
        BY <3>1, <3>2
  <2>4. /\ connected' \in [Requests -> BOOLEAN]
        /\ cause' \in [Requests -> {"none", "failed", "cancelled"}]
        /\ faults' \in 0 .. MaxFaults
      BY <1>a, <2>1, Suffered
  <2>5. UNCHANGED <<seen, decision, open, waiter, holder, stored>>
      BY <1>9 DEF AskForApproval
  <2> QED
      BY <1>a, <2>3, <2>4, <2>5 DEF TypeOK, stored
<1>10. ASSUME NEW r \in Requests, BeginWait(r)
      PROVE  TypeOK'
  <2>1. PICK o \in Outcomes(r) :
          /\ Suffer(r, o)
          /\ IF o = "ok" /\ Decided(r)
             THEN decision' = [decision EXCEPT ![r] = approval[r]] /\ Goto(r, "decided")
             ELSE UNCHANGED decision /\ Goto(r, IF o = "ok" THEN "wait" ELSE "failing")
      BY <1>a, <1>10 DEF BeginWait
  <2>2. o = "ok" /\ Decided(r) => approval[r] \in Decisions
      BY <1>a, <1>10, <2>1, OutcomeFacts
      DEF BeginWait, Decided, TypeOK, Decisions, Tale, Rows, Stage
  <2>3. decision \in [Requests -> Decisions \cup {"none"}]
      BY <1>a DEF TypeOK
  <2>4. decision' \in [Requests -> Decisions \cup {"none"}]
      BY <2>1, <2>2, <2>3
  <2>5. "decided" \in Stations /\ "wait" \in Stations /\ "failing" \in Stations
      BY DEF Stations
  <2>6. \E s \in {"decided", "wait", "failing"} : Goto(r, s)
      BY <2>1
  <2>7. pc' \in [Requests -> Stations]
      BY <1>a, <2>5, <2>6, Moved
  <2>8. o \in Told(r)
      BY OutcomeFacts
  <2>9. /\ connected' \in [Requests -> BOOLEAN]
        /\ cause' \in [Requests -> {"none", "failed", "cancelled"}]
        /\ faults' \in 0 .. MaxFaults
      BY <1>a, <2>1, <2>8, Suffered
  <2> QED
      BY <1>a, <1>10, <2>4, <2>7, <2>9 DEF BeginWait, TypeOK, stored
<1>11. ASSUME NEW r \in Requests, HearDecision(r)
      PROVE  TypeOK'
    BY <1>a, <1>11
    DEF HearDecision, EndWait, TypeOK, Stations, Goto, stored, local, vars,
        Conversation, Decisions
<1>12. ASSUME NEW r \in Requests, PollDecision(r)
      PROVE  TypeOK'
  <2>1. approval[r] \in Decisions
      BY <1>a, <1>12
      DEF PollDecision, Decided, Live, TypeOK, Decisions, Tale, Rows, Stage,
          Undecided
  <2> QED
      BY <1>a, <1>12, <2>1 DEF PollDecision, EndWait, Goto, TypeOK, Stations, stored
<1>13. ASSUME NEW r \in Requests, TimeOutWait(r)
      PROVE  TypeOK'
  <2>1. Present(r) /\ approval[r] # "pending" => approval[r] \in Decisions
      BY <1>a, <1>13
      DEF TimeOutWait, TypeOK, Decisions, Tale, Rows, Stage, Undecided
  <2>2. faults' \in 0 .. MaxFaults
      BY <1>a, <1>13 DEF TimeOutWait, MayFault, TypeOK
  <2>3. /\ approval' \in [Requests -> Decisions \cup {"none", "pending", "deleted"}]
        /\ decision' \in [Requests -> Decisions \cup {"none"}]
    <3> DEFINE Answers == Decisions \cup {"none", "pending", "deleted"}
               Rulings == Decisions \cup {"none"}
    <3>1. approval \in [Requests -> Answers] /\ decision \in [Requests -> Rulings]
        BY <1>a DEF TypeOK
    <3>2. \/ UNCHANGED <<approval, decision>>
          \/ \E d \in Decisions : /\ approval' = [approval EXCEPT ![r] = d]
                                  /\ decision' = [decision EXCEPT ![r] = d]
      <4>1. "expired" \in Decisions
          BY DEF Decisions
      <4>2. \/ UNCHANGED <<approval, decision>>
            \/ /\ Present(r)
               /\ LET d == IF approval[r] = "pending" THEN "expired" ELSE approval[r]
                  IN  /\ approval' = [approval EXCEPT ![r] = d]
                      /\ decision' = [decision EXCEPT ![r] = d]
          BY <1>13 DEF TimeOutWait, EndWait
      <4> QED
          BY <2>1, <4>1, <4>2
    <3>3. Decisions \subseteq Answers /\ Decisions \subseteq Rulings
        OBVIOUS
    <3> HIDE DEF Answers, Rulings
    <3>4. approval' \in [Requests -> Answers] /\ decision' \in [Requests -> Rulings]
        BY <3>1, <3>2, <3>3, Replaced
    <3> QED
        BY <3>4 DEF Answers, Rulings
  <2>4. pc' \in [Requests -> Stations]
    <3>1. Goto(r, "decided") \/ Goto(r, "failing")
        BY <1>13 DEF TimeOutWait, EndWait, AbandonWait
    <3>2. "decided" \in Stations /\ "failing" \in Stations
        BY DEF Stations
    <3> QED
        BY <1>a, <3>1, <3>2, Moved
  <2>5. waiter' \in [Requests -> {"none", "empty", "approved", "rejected"}]
    <3>1. waiter' = [waiter EXCEPT ![r] = "none"]
        BY <1>13 DEF TimeOutWait, EndWait, AbandonWait
    <3> QED
        BY <1>a, <3>1 DEF TypeOK
  <2>6. cause' \in [Requests -> {"none", "failed", "cancelled"}]
      BY <1>a, <1>13 DEF TimeOutWait, AbandonWait, TypeOK
  <2> QED
      BY <1>a, <1>13, <2>2, <2>3, <2>4, <2>5, <2>6 DEF TimeOutWait, TypeOK
<1>14. ASSUME NEW r \in Requests, CancelWait(r)
      PROVE  TypeOK'
  <2>1. faults' \in 0 .. MaxFaults
      BY <1>a, <1>14 DEF CancelWait, MayFault, TypeOK
  <2>2. approval' \in [Requests -> Decisions \cup {"none", "pending", "deleted"}]
    <3> DEFINE Answers == Decisions \cup {"none", "pending", "deleted"}
    <3>1. approval \in [Requests -> Answers] /\ "expired" \in Answers
        BY <1>a DEF TypeOK, Decisions
    <3>2. \/ UNCHANGED approval
          \/ approval' = [approval EXCEPT ![r] = "expired"]
          \/ approval' = [approval EXCEPT ![r] = approval[r]]
        BY <1>14 DEF CancelWait
    <3> HIDE DEF Answers
    <3>3. approval' \in [Requests -> Answers]
        BY <3>1, <3>2, Replaced
    <3> QED
        BY <3>3 DEF Answers
  <2>3. pc' \in [Requests -> Stations]
      BY <1>a, <1>14, Moved DEF CancelWait, AbandonWait, Stations
  <2>4. waiter' \in [Requests -> {"none", "empty", "approved", "rejected"}]
    <3>1. waiter' = [waiter EXCEPT ![r] = "none"]
        BY <1>14 DEF CancelWait, AbandonWait
    <3> QED
        BY <1>a, <3>1 DEF TypeOK
  <2>5. cause' \in [Requests -> {"none", "failed", "cancelled"}]
      BY <1>a, <1>14 DEF CancelWait, AbandonWait, TypeOK
  <2> QED
      BY <1>a, <1>14, <2>1, <2>2, <2>3, <2>4, <2>5 DEF CancelWait, AbandonWait, TypeOK
<1>15. ASSUME NEW r \in Requests, RecordDecision(r)
      PROVE  TypeOK'
    BY <1>a, <1>15, Suffered, OutcomeFacts
    DEF RecordDecision, Approved, TypeOK, Stations, Goto, stored, local, vars,
        Conversation
<1>16. ASSUME NEW r \in Requests, StopAfterApproval(r)
      PROVE  TypeOK'
    BY <1>a, <1>16, Suffered, OutcomeFacts, Stored
    DEF StopAfterApproval, TypeOK, Stations, Goto, stored, local, vars, Conversation
<1>17. ASSUME NEW r \in Requests, ExecutionFails(r)
      PROVE  TypeOK'
    BY <1>a, <1>17
    DEF ExecutionFails, TypeOK, Stations, Goto, stored, local, vars, Conversation
<1>18. ASSUME NEW r \in Requests, ExecutionAnswers(r)
      PROVE  TypeOK'
    BY <1>a, <1>18
    DEF ExecutionAnswers, TypeOK, Stations, Goto, stored, local, vars, Conversation
<1>19. ASSUME NEW r \in Requests, FinishActiveChildRuns(r)
      PROVE  TypeOK'
    BY <1>a, <1>19
    DEF FinishActiveChildRuns, Swept, MayFault, TypeOK, Stations, Goto, stored,
        local, vars, Conversation, Ended, Tale, Stage
<1>20. ASSUME NEW r \in Requests, StoreAnswer(r)
      PROVE  TypeOK'
  <2>1. PICK o \in Outcomes(r) :
          /\ Suffer(r, o)
          /\ IF Done(o)
             THEN Store(r, "answer") /\ jobs' = [jobs EXCEPT ![r] = @ \cup {"capture"}]
             ELSE UNCHANGED <<messages, jobs>>
          /\ Goto(r, IF o = "ok" THEN "output" ELSE "failing")
      BY <1>a, <1>20 DEF StoreAnswer
  <2>2. messages' \in [Conversations -> Seq(Message)]
      BY <1>a, <2>1, Stored DEF TypeOK
  <2>3. jobs' \in [Requests -> SUBSET {"capture", "summary"}]
    <3> DEFINE Kinds == SUBSET {"capture", "summary"}
    <3>1. jobs \in [Requests -> Kinds] /\ jobs[r] \cup {"capture"} \in Kinds
        BY <1>a, <1>a DEF TypeOK
    <3>2. jobs' = jobs \/ jobs' = [jobs EXCEPT ![r] = jobs[r] \cup {"capture"}]
        BY <2>1
    <3> HIDE DEF Kinds
    <3>3. jobs' \in [Requests -> Kinds]
        BY <3>1, <3>2
    <3> QED
        BY <3>3 DEF Kinds
  <2> QED
      BY <1>a, <1>20, <2>1, <2>2, <2>3, Suffered, OutcomeFacts
      DEF StoreAnswer, Goto, TypeOK, Stations
<1>21. ASSUME NEW r \in Requests, RecordOutput(r)
      PROVE  TypeOK'
    BY <1>a, <1>21, Suffered, OutcomeFacts
    DEF RecordOutput, TypeOK, Stations, Goto, stored, local, vars, Conversation
<1>22. ASSUME NEW r \in Requests, EnqueueSummary(r)
      PROVE  TypeOK'
    BY <1>a, <1>22, Suffered, OutcomeFacts
    DEF EnqueueSummary, TypeOK, Stations, Goto, stored, local, vars, Conversation
<1>23. ASSUME NEW r \in Requests, RecordEnd(r)
      PROVE  TypeOK'
    BY <1>a, <1>23, Suffered, OutcomeFacts
    DEF RecordEnd, TypeOK, Stations, Goto, stored, local, vars, Conversation
<1>24. ASSUME NEW r \in Requests, FinishRun(r)
      PROVE  TypeOK'
    BY <1>a, <1>24, Suffered, OutcomeFacts
    DEF FinishRun, Outcome, TypeOK, Stations, Goto, stored, local, vars,
        Conversation, Ended
<1>25. ASSUME NEW r \in Requests, FailRun(r)
      PROVE  TypeOK'
  <2>1. cause[r] \in {"failed", "cancelled"}
      BY <1>a, <1>25 DEF FailRun, TypeOK, Tale, Stage
  <2>2. run' \in [Requests -> Ended \cup {"none", "running", "deleted"}]
      BY <1>a, <1>25, <2>1 DEF FailRun, TypeOK, Ended
  <2>3. faults' \in 0 .. MaxFaults
      BY <1>a, <1>25 DEF FailRun, MayFault, TypeOK
  <2> QED
      BY <1>a, <1>25, <2>2, <2>3 DEF FailRun, Goto, TypeOK, Stations
<1>26. ASSUME NEW r \in Requests, Unlock(r)
      PROVE  TypeOK'
    BY <1>a, <1>26
    DEF Unlock, Freed, TypeOK, Stations, Goto, stored, local, vars, Conversation
<1>27. ASSUME NEW r \in Requests, Disconnect(r)
      PROVE  TypeOK'
    BY <1>a, <1>27
    DEF Disconnect, TypeOK, Stations, Goto, stored, local, vars, Conversation
<1>28. ASSUME NEW r \in Requests, Crash(r)
      PROVE  TypeOK'
    BY <1>a, <1>28
    DEF Crash, Freed, MayFault, TypeOK, Stations, Goto, stored, local, vars,
        Conversation
<1>29. ASSUME NEW r \in Requests, LoseLock(r)
      PROVE  TypeOK'
    BY <1>a, <1>29
    DEF LoseLock, Freed, MayFault, TypeOK, Stations, Goto, stored, local, vars,
        Conversation
<1>30. ASSUME NEW r \in Requests, NEW h \in Handoffs, Delegate(r, h)
      PROVE  TypeOK'
    BY <1>a, <1>30, Suffered, OutcomeFacts
    DEF Delegate, TypeOK, Stations, Goto, stored, local, vars, Conversation
<1>31. ASSUME NEW r \in Requests, NEW h \in Handoffs, CompleteHandoff(r, h)
      PROVE  TypeOK'
    BY <1>a, <1>31, Suffered, OutcomeFacts
    DEF CompleteHandoff, TypeOK, Stations, Goto, stored, local, vars, Conversation
<1>32. ASSUME NEW r \in Requests, NEW d \in {"approved", "rejected"}, Decide(r, d)
      PROVE  TypeOK'
    BY <1>a, <1>32
    DEF Decide, TypeOK, Stations, Goto, stored, local, vars, Conversation, Decisions
<1>33. ASSUME NEW c \in Conversations, DeleteConversation(c)
      PROVE  TypeOK'
    BY <1>a, <1>33
    DEF DeleteConversation, TypeOK, Stations, Goto, stored, local, vars,
        Conversation
<1>34. ASSUME UNCHANGED vars
      PROVE  TypeOK'
    BY <1>a, <1>34 DEF TypeOK, Stations, Goto, stored, local, vars, Conversation
<1> QED
    BY <1>1, <1>2, <1>3, <1>4, <1>5, <1>6, <1>7, <1>8, <1>9, <1>10, <1>11, <1>12,
        <1>13, <1>14, <1>15, <1>16, <1>17, <1>18, <1>19, <1>20, <1>21, <1>22, <1>23,
        <1>24, <1>25, <1>26, <1>27, <1>28, <1>29, <1>30, <1>31, <1>32, <1>33, <1>34
    DEF Next, Environment, Handle, Enter, Gate, Wait, Execute, Finish

(***************************************************************************)
(* A request keeps its tale while others act.                              *)
(***************************************************************************)
LEMMA Others ==
  ASSUME NEW q \in Requests, Tale(q),
         pc'[q] = pc[q], decision'[q] = decision[q], waiter'[q] = waiter[q],
         cause'[q] = cause[q], run'[q] = run[q], approval'[q] = approval[q],
         child'[q] = child[q], jobs'[q] = jobs[q],
         exists'[Conversation(q)] = exists[Conversation(q)],
         Stands(q, "answer")' <=> Stands(q, "answer"),
         Stands(q, "notice")' <=> Stands(q, "notice")
  PROVE  Tale(q)'
BY DEF Tale, Rows, Ruled, Stage, Story, Stopped, Cleared, Present, Conversation

LEMMA TaleStep ==
  ASSUME IInv, [Next]_vars
  PROVE  \A r \in Requests : Tale(r)'
<1>a. TypeOK /\ \A r \in Requests : Tale(r)
    BY DEF IInv
<1>1. ASSUME NEW r \in Requests, Arrive(r)
      PROVE  \A q \in Requests : Tale(q)'
  <2>1. \A q \in Requests, ro \in {"answer", "notice"} : Stands(q, ro)' <=> Stands(q, ro)
      BY <1>1, StandsKept DEF Arrive, stored, local
  <2>2. ASSUME NEW q \in Requests, q # r PROVE Tale(q)'
      BY <1>a, <1>1, <2>1, <2>2, Others
      DEF Arrive, Goto, stored, local, vars, TypeOK
  <2>3. Tale(r)'
      BY <1>a, <1>1, <2>1
      DEF Arrive, Goto, stored, local, vars, TypeOK, Tale, Rows, Ruled, Stage, Story,
          Stopped, Cleared, Fresh, Undecided, Running, Decisions, Ended, Present,
          Live, Conversation
  <2> QED
      BY <2>2, <2>3
<1>2. ASSUME NEW r \in Requests, AcquireConversationLock(r)
      PROVE  \A q \in Requests : Tale(q)'
  <2>1. \A q \in Requests, ro \in {"answer", "notice"} : Stands(q, ro)' <=> Stands(q, ro)
      BY <1>2, StandsKept DEF AcquireConversationLock, Free, stored, local
  <2>2. ASSUME NEW q \in Requests, q # r PROVE Tale(q)'
      BY <1>a, <1>2, <2>1, <2>2, Others
      DEF AcquireConversationLock, Free, Goto, stored, local, vars, TypeOK
  <2>3. Tale(r)'
      BY <1>a, <1>2, <2>1
      DEF AcquireConversationLock, Free, Goto, stored, local, vars, TypeOK, Tale,
          Rows, Ruled, Stage, Story, Stopped, Cleared, Fresh, Undecided, Running,
          Decisions, Ended, Present, Live, Conversation
  <2> QED
      BY <2>2, <2>3
<1>3. ASSUME NEW r \in Requests, GiveUpLock(r)
      PROVE  \A q \in Requests : Tale(q)'
  <2>1. \A q \in Requests, ro \in {"answer", "notice"} : Stands(q, ro)' <=> Stands(q, ro)
      BY <1>3, StandsKept DEF GiveUpLock, stored, local
  <2>2. ASSUME NEW q \in Requests, q # r PROVE Tale(q)'
      BY <1>a, <1>3, <2>1, <2>2, Others
      DEF GiveUpLock, Goto, stored, local, vars, TypeOK
  <2>3. Tale(r)'
      BY <1>a, <1>3, <2>1
      DEF GiveUpLock, Goto, stored, local, vars, TypeOK, Tale, Rows, Ruled, Stage,
          Story, Stopped, Cleared, Fresh, Undecided, Running, Decisions, Ended,
          Present, Live, Conversation
  <2> QED
      BY <2>2, <2>3
<1>4. ASSUME NEW r \in Requests, LoadHistory(r)
      PROVE  \A q \in Requests : Tale(q)'
  <2>1. \A q \in Requests, ro \in {"answer", "notice"} : Stands(q, ro)' <=> Stands(q, ro)
      BY <1>4, StandsKept DEF LoadHistory, stored, local
  <2>2. ASSUME NEW q \in Requests, q # r PROVE Tale(q)'
      BY <1>a, <1>4, <2>1, <2>2, Suffered, OutcomeFacts, ToldFacts, Others
      DEF LoadHistory, Goto, stored, local, vars, TypeOK
  <2>3. Tale(r)'
      BY <1>a, <1>4, <2>1, Suffered, OutcomeFacts, ToldFacts
      DEF LoadHistory, Goto, stored, local, vars, TypeOK, Tale, Rows, Ruled, Stage,
          Story, Stopped, Cleared, Fresh, Undecided, Running, Decisions, Ended,
          Present, Live, Conversation
  <2> QED
      BY <2>2, <2>3
<1>5. ASSUME NEW r \in Requests, AddUserMessage(r)
      PROVE  \A q \in Requests : Tale(q)'
  <2>1. \A q \in Requests, ro \in {"answer", "notice"} :
          Stands(q, ro)' => Stands(q, ro) \/ (q = r /\ ro = "user")
      BY <1>a, <1>5, StandsKept, Stored DEF AddUserMessage
  <2>2. \A q \in Requests, ro \in {"answer", "notice"} : Stands(q, ro) => Stands(q, ro)'
      BY <1>a, <1>5, StandsKept, Stored DEF AddUserMessage
  <2>3. ASSUME NEW q \in Requests, q # r PROVE Tale(q)'
    <3>1. /\ pc'[q] = pc[q] /\ decision'[q] = decision[q] /\ waiter'[q] = waiter[q]
          /\ run'[q] = run[q] /\ approval'[q] = approval[q] /\ child'[q] = child[q]
          /\ jobs'[q] = jobs[q] /\ exists' = exists
        BY <1>a, <1>5, <2>3 DEF AddUserMessage, Goto, TypeOK
    <3>2. cause'[q] = cause[q]
        BY <1>a, <1>5, <2>3, Suffered, OutcomeFacts DEF AddUserMessage
    <3> QED
        BY <1>a, <2>1, <2>2, <2>3, <3>1, <3>2, Others
  <2>4. Tale(r)'
      BY <1>a, <1>5, <2>1, <2>2, Suffered, OutcomeFacts, ToldFacts
      DEF AddUserMessage, Goto, stored, local, vars, TypeOK, Tale, Rows, Ruled,
          Stage, Story, Stopped, Cleared, Fresh, Undecided, Running, Decisions,
          Ended, Present, Live, Conversation
  <2> QED
      BY <2>3, <2>4
<1>6. ASSUME NEW r \in Requests, CreateRun(r)
      PROVE  \A q \in Requests : Tale(q)'
  <2>1. \A q \in Requests, ro \in {"answer", "notice"} : Stands(q, ro)' <=> Stands(q, ro)
      BY <1>6, StandsKept DEF CreateRun, stored, local
  <2>2. ASSUME NEW q \in Requests, q # r PROVE Tale(q)'
      BY <1>a, <1>6, <2>1, <2>2, Suffered, OutcomeFacts, ToldFacts, Others
      DEF CreateRun, Goto, stored, local, vars, TypeOK
  <2>3. Tale(r)'
      BY <1>a, <1>6, <2>1, Suffered, OutcomeFacts, ToldFacts
      DEF CreateRun, Goto, stored, local, vars, TypeOK, Tale, Rows, Ruled, Stage,
          Story, Stopped, Cleared, Fresh, Undecided, Running, Decisions, Ended,
          Present, Live, Conversation
  <2> QED
      BY <2>2, <2>3
<1>7. ASSUME NEW r \in Requests, Announce(r)
      PROVE  \A q \in Requests : Tale(q)'
  <2>1. \A q \in Requests, ro \in {"answer", "notice"} : Stands(q, ro)' <=> Stands(q, ro)
      BY <1>7, StandsKept DEF Announce, stored, local
  <2>2. ASSUME NEW q \in Requests, q # r PROVE Tale(q)'
      BY <1>a, <1>7, <2>1, <2>2, Suffered, OutcomeFacts, ToldFacts, Others
      DEF Announce, Goto, stored, local, vars, TypeOK
  <2>3. Tale(r)'
    <3>1. /\ pc[r] = "announce"
          /\ pc'[r] \in {"failing", "request", "execute"}
          /\ pc'[r] = "failing" => cause'[r] # "none"
          /\ pc'[r] = "execute" => r \notin NeedsApproval
          /\ decision'[r] = decision[r]
          /\ waiter'[r] = waiter[r]
          /\ run'[r] = run[r]
          /\ approval'[r] = approval[r]
          /\ child'[r] = child[r]
          /\ jobs'[r] = jobs[r]
          /\ Present(r)' <=> Present(r)
          /\ Stands(r, "answer")' <=> Stands(r, "answer")
          /\ Stands(r, "notice")' <=> Stands(r, "notice")
        BY <1>a, <1>7, <2>1, Suffered, OutcomeFacts, ToldFacts
        DEF Announce, Goto, stored, local, TypeOK, Present, Conversation
    <3>2. Tale(r) /\ Typed(r)
        BY <1>a DEF TypeOK, Typed
    <3> QED
        BY <3>1, <3>2
        DEF Tale, Rows, Ruled, Stage, Story, Stopped, Cleared, Fresh, Undecided,
            Running, Ended, Decisions, Typed
  <2> QED
      BY <2>2, <2>3
<1>8. ASSUME NEW r \in Requests, RequestApproval(r)
      PROVE  \A q \in Requests : Tale(q)'
  <2>1. \A q \in Requests, ro \in {"answer", "notice"} : Stands(q, ro)' <=> Stands(q, ro)
      BY <1>8, StandsKept DEF RequestApproval, stored, local
  <2>2. ASSUME NEW q \in Requests, q # r PROVE Tale(q)'
      BY <1>a, <1>8, <2>1, <2>2, Suffered, OutcomeFacts, ToldFacts, Others
      DEF RequestApproval, Goto, stored, local, vars, TypeOK
  <2>3. Tale(r)'
    <3>1. /\ pc[r] = "request"
          /\ pc'[r] \in {"ask", "failing"}
          /\ pc'[r] = "failing" => cause'[r] # "none"
          /\ waiter'[r] \in {"empty", "none"}
          /\ approval'[r] \in {approval[r], "pending"}
          /\ approval'[r] # approval[r] => Present(r)
          /\ pc'[r] = "ask" => approval'[r] = "pending"
          /\ decision'[r] = decision[r]
          /\ run'[r] = run[r]
          /\ child'[r] = child[r]
          /\ jobs'[r] = jobs[r]
          /\ Present(r)' <=> Present(r)
          /\ Stands(r, "answer")' <=> Stands(r, "answer")
          /\ Stands(r, "notice")' <=> Stands(r, "notice")
        BY <1>a, <1>8, <2>1, Suffered, OutcomeFacts, ToldFacts
        DEF RequestApproval, Goto, stored, local, TypeOK, Present, Conversation,
            Done
    <3>2. Tale(r) /\ Typed(r)
        BY <1>a DEF TypeOK, Typed
    <3> QED
        BY <3>1, <3>2
        DEF Tale, Rows, Ruled, Stage, Story, Stopped, Cleared, Fresh, Undecided,
            Running, Ended, Decisions, Typed
  <2> QED
      BY <2>2, <2>3
<1>9. ASSUME NEW r \in Requests, AskForApproval(r)
      PROVE  \A q \in Requests : Tale(q)'
  <2>1. \A q \in Requests, ro \in {"answer", "notice"} : Stands(q, ro)' <=> Stands(q, ro)
      BY <1>9, StandsKept DEF AskForApproval, stored, local
  <2>2. ASSUME NEW q \in Requests, q # r PROVE Tale(q)'
      BY <1>a, <1>9, <2>1, <2>2, Suffered, OutcomeFacts, ToldFacts, Others
      DEF AskForApproval, Goto, stored, local, vars, TypeOK
  <2>3. Tale(r)'
    <3>1. /\ pc[r] = "ask"
          /\ pc'[r] \in {"await", "failing"}
          /\ pc'[r] = "failing" => cause'[r] # "none"
          /\ decision'[r] = decision[r]
          /\ waiter'[r] = waiter[r]
          /\ run'[r] = run[r]
          /\ approval'[r] = approval[r]
          /\ child'[r] = child[r]
          /\ jobs'[r] = jobs[r]
          /\ Present(r)' <=> Present(r)
          /\ Stands(r, "answer")' <=> Stands(r, "answer")
          /\ Stands(r, "notice")' <=> Stands(r, "notice")
        BY <1>a, <1>9, <2>1, Suffered, OutcomeFacts, ToldFacts
        DEF AskForApproval, Goto, stored, local, TypeOK, Present, Conversation
    <3>2. Tale(r) /\ Typed(r)
        BY <1>a DEF TypeOK, Typed
    <3> QED
        BY <3>1, <3>2
        DEF Tale, Rows, Ruled, Stage, Story, Stopped, Cleared, Fresh, Undecided,
            Running, Ended, Decisions, Typed
  <2> QED
      BY <2>2, <2>3
<1>10. ASSUME NEW r \in Requests, BeginWait(r)
      PROVE  \A q \in Requests : Tale(q)'
  <2>1. \A q \in Requests, ro \in {"answer", "notice"} : Stands(q, ro)' <=> Stands(q, ro)
      BY <1>10, StandsKept DEF BeginWait, Decided, stored, local
  <2>2. ASSUME NEW q \in Requests, q # r PROVE Tale(q)'
      BY <1>a, <1>10, <2>1, <2>2, Suffered, OutcomeFacts, ToldFacts, Others
      DEF BeginWait, Decided, Goto, stored, local, vars, TypeOK
  <2>3. Tale(r)'
    <3>1. /\ pc[r] = "await"
          /\ pc'[r] \in {"wait", "failing", "decided"}
          /\ pc'[r] = "failing" => cause'[r] # "none"
          /\ pc'[r] # "decided" => decision'[r] = decision[r]
          /\ pc'[r] = "decided" => Present(r) /\ approval[r] # "pending" /\ decision'[r] = approval[r]
          /\ waiter'[r] = waiter[r]
          /\ run'[r] = run[r]
          /\ approval'[r] = approval[r]
          /\ child'[r] = child[r]
          /\ jobs'[r] = jobs[r]
          /\ Present(r)' <=> Present(r)
          /\ Stands(r, "answer")' <=> Stands(r, "answer")
          /\ Stands(r, "notice")' <=> Stands(r, "notice")
        BY <1>a, <1>10, <2>1, Suffered, OutcomeFacts, ToldFacts
        DEF BeginWait, Decided, Goto, stored, local, TypeOK, Present, Conversation
    <3>2. Tale(r) /\ Typed(r)
        BY <1>a DEF TypeOK, Typed
    <3> QED
        BY <3>1, <3>2
        DEF Tale, Rows, Ruled, Stage, Story, Stopped, Cleared, Fresh, Undecided,
            Running, Ended, Decisions, Typed
  <2> QED
      BY <2>2, <2>3
<1>11. ASSUME NEW r \in Requests, HearDecision(r)
      PROVE  \A q \in Requests : Tale(q)'
  <2>1. \A q \in Requests, ro \in {"answer", "notice"} : Stands(q, ro)' <=> Stands(q, ro)
      BY <1>11, StandsKept DEF HearDecision, EndWait, stored, local
  <2>2. ASSUME NEW q \in Requests, q # r PROVE Tale(q)'
      BY <1>a, <1>11, <2>1, <2>2, Others
      DEF HearDecision, EndWait, Goto, stored, local, vars, TypeOK
  <2>3. Tale(r)'
    <3>1. /\ pc[r] = "wait"
          /\ pc'[r] = "decided"
          /\ waiter[r] \in Decisions
          /\ decision'[r] = waiter[r]
          /\ waiter'[r] = "none"
          /\ cause'[r] = cause[r]
          /\ run'[r] = run[r]
          /\ approval'[r] = approval[r]
          /\ child'[r] = child[r]
          /\ jobs'[r] = jobs[r]
          /\ Present(r)' <=> Present(r)
          /\ Stands(r, "answer")' <=> Stands(r, "answer")
          /\ Stands(r, "notice")' <=> Stands(r, "notice")
        BY <1>a, <1>11, <2>1
        DEF HearDecision, EndWait, Goto, stored, local, TypeOK, Present,
            Conversation
    <3>2. Tale(r) /\ Typed(r)
        BY <1>a DEF TypeOK, Typed
    <3> QED
        BY <3>1, <3>2
        DEF Tale, Rows, Ruled, Stage, Story, Stopped, Cleared, Fresh, Undecided,
            Running, Ended, Decisions, Typed
  <2> QED
      BY <2>2, <2>3
<1>12. ASSUME NEW r \in Requests, PollDecision(r)
      PROVE  \A q \in Requests : Tale(q)'
  <2>1. \A q \in Requests, ro \in {"answer", "notice"} : Stands(q, ro)' <=> Stands(q, ro)
      BY <1>12, StandsKept DEF PollDecision, Decided, EndWait, stored, local
  <2>2. ASSUME NEW q \in Requests, q # r PROVE Tale(q)'
      BY <1>a, <1>12, <2>1, <2>2, Others
      DEF PollDecision, Decided, EndWait, Goto, stored, local, vars, TypeOK
  <2>3. Tale(r)'
    <3>1. /\ pc[r] = "wait"
          /\ pc'[r] = "decided"
          /\ Present(r) /\ approval[r] # "pending"
          /\ decision'[r] = approval[r]
          /\ waiter'[r] = "none"
          /\ cause'[r] = cause[r]
          /\ run'[r] = run[r]
          /\ approval'[r] = approval[r]
          /\ child'[r] = child[r]
          /\ jobs'[r] = jobs[r]
          /\ Present(r)' <=> Present(r)
          /\ Stands(r, "answer")' <=> Stands(r, "answer")
          /\ Stands(r, "notice")' <=> Stands(r, "notice")
        BY <1>a, <1>12, <2>1
        DEF PollDecision, Decided, EndWait, Goto, stored, local, TypeOK, Present,
            Conversation, Live
    <3>2. Tale(r) /\ Typed(r)
        BY <1>a DEF TypeOK, Typed
    <3> QED
        BY <3>1, <3>2
        DEF Tale, Rows, Ruled, Stage, Story, Stopped, Cleared, Fresh, Undecided,
            Running, Ended, Decisions, Typed
  <2> QED
      BY <2>2, <2>3
<1>13. ASSUME NEW r \in Requests, TimeOutWait(r)
      PROVE  \A q \in Requests : Tale(q)'
  <2>1. \A q \in Requests, ro \in {"answer", "notice"} : Stands(q, ro)' <=> Stands(q, ro)
      BY <1>13, StandsKept
      DEF TimeOutWait, EndWait, AbandonWait, MayFault, stored, local
  <2>2. ASSUME NEW q \in Requests, q # r PROVE Tale(q)'
      BY <1>a, <1>13, <2>1, <2>2, Others
      DEF TimeOutWait, EndWait, AbandonWait, MayFault, Goto, stored, local, vars,
          TypeOK
  <2>3. Tale(r)'
    <3>1. /\ pc[r] = "wait"
          /\ pc'[r] \in {"decided", "failing"}
          /\ pc'[r] = "failing" => cause'[r] # "none"
          /\ waiter'[r] = "none"
          /\ pc'[r] = "failing" => decision'[r] = decision[r] /\ approval'[r] = approval[r]
          /\ pc'[r] = "decided" => Present(r) /\ decision'[r] = approval'[r]
          /\ pc'[r] = "decided" => approval'[r] =
               IF approval[r] = "pending" THEN "expired" ELSE approval[r]
          /\ run'[r] = run[r]
          /\ child'[r] = child[r]
          /\ jobs'[r] = jobs[r]
          /\ Present(r)' <=> Present(r)
          /\ Stands(r, "answer")' <=> Stands(r, "answer")
          /\ Stands(r, "notice")' <=> Stands(r, "notice")
        BY <1>a, <1>13, <2>1
        DEF TimeOutWait, EndWait, AbandonWait, MayFault, Goto, stored, local, TypeOK,
            Present, Conversation
    <3>2. Tale(r) /\ Typed(r)
        BY <1>a DEF TypeOK, Typed
    <3> QED
        BY <3>1, <3>2
        DEF Tale, Rows, Ruled, Stage, Story, Stopped, Cleared, Fresh, Undecided,
            Running, Ended, Decisions, Typed
  <2> QED
      BY <2>2, <2>3
<1>14. ASSUME NEW r \in Requests, CancelWait(r)
      PROVE  \A q \in Requests : Tale(q)'
  <2>1. \A q \in Requests, ro \in {"answer", "notice"} : Stands(q, ro)' <=> Stands(q, ro)
      BY <1>14, StandsKept DEF CancelWait, AbandonWait, MayFault, stored, local
  <2>2. ASSUME NEW q \in Requests, q # r PROVE Tale(q)'
      BY <1>a, <1>14, <2>1, <2>2, Others
      DEF CancelWait, AbandonWait, MayFault, Goto, stored, local, vars, TypeOK
  <2>3. Tale(r)'
    <3>1. /\ pc[r] = "wait"
          /\ pc'[r] = "failing"
          /\ cause'[r] # "none"
          /\ waiter'[r] = "none"
          /\ approval'[r] = approval[r] \/ (approval[r] = "pending" /\ approval'[r] = "expired")
          /\ decision'[r] = decision[r]
          /\ run'[r] = run[r]
          /\ child'[r] = child[r]
          /\ jobs'[r] = jobs[r]
          /\ Present(r)' <=> Present(r)
          /\ Stands(r, "answer")' <=> Stands(r, "answer")
          /\ Stands(r, "notice")' <=> Stands(r, "notice")
        BY <1>a, <1>14, <2>1
        DEF CancelWait, AbandonWait, MayFault, Goto, stored, local, TypeOK, Present,
            Conversation
    <3>2. Tale(r) /\ Typed(r)
        BY <1>a DEF TypeOK, Typed
    <3> QED
        BY <3>1, <3>2
        DEF Tale, Rows, Ruled, Stage, Story, Stopped, Cleared, Fresh, Undecided,
            Running, Ended, Decisions, Typed
  <2> QED
      BY <2>2, <2>3
<1>15. ASSUME NEW r \in Requests, RecordDecision(r)
      PROVE  \A q \in Requests : Tale(q)'
  <2>1. \A q \in Requests, ro \in {"answer", "notice"} : Stands(q, ro)' <=> Stands(q, ro)
      BY <1>15, StandsKept DEF RecordDecision, Approved, stored, local
  <2>2. ASSUME NEW q \in Requests, q # r PROVE Tale(q)'
      BY <1>a, <1>15, <2>1, <2>2, Suffered, OutcomeFacts, ToldFacts, Others
      DEF RecordDecision, Approved, Goto, stored, local, vars, TypeOK
  <2>3. Tale(r)'
    <3>1. /\ pc[r] = "decided"
          /\ pc'[r] \in {"failing", "execute", "stop"}
          /\ pc'[r] = "failing" => cause'[r] # "none"
          /\ pc'[r] = "execute" <=> pc'[r] # "failing" /\ decision[r] = "approved"
          /\ decision'[r] = decision[r]
          /\ waiter'[r] = waiter[r]
          /\ run'[r] = run[r]
          /\ approval'[r] = approval[r]
          /\ child'[r] = child[r]
          /\ jobs'[r] = jobs[r]
          /\ Present(r)' <=> Present(r)
          /\ Stands(r, "answer")' <=> Stands(r, "answer")
          /\ Stands(r, "notice")' <=> Stands(r, "notice")
        BY <1>a, <1>15, <2>1, Suffered, OutcomeFacts, ToldFacts
        DEF RecordDecision, Approved, Goto, stored, local, TypeOK, Present,
            Conversation
    <3>2. Tale(r) /\ Typed(r)
        BY <1>a DEF TypeOK, Typed
    <3> QED
        BY <3>1, <3>2
        DEF Tale, Rows, Ruled, Stage, Story, Stopped, Cleared, Fresh, Undecided,
            Running, Ended, Decisions, Typed
  <2> QED
      BY <2>2, <2>3
<1>16. ASSUME NEW r \in Requests, StopAfterApproval(r)
      PROVE  \A q \in Requests : Tale(q)'
  <2>1. \A q \in Requests, ro \in {"answer", "notice"} :
          Stands(q, ro)' => Stands(q, ro) \/ (q = r /\ ro = "notice")
      BY <1>a, <1>16, StandsKept, Stored DEF StopAfterApproval
  <2>2. \A q \in Requests, ro \in {"answer", "notice"} : Stands(q, ro) => Stands(q, ro)'
      BY <1>a, <1>16, StandsKept, Stored DEF StopAfterApproval
  <2>3. ASSUME NEW q \in Requests, q # r PROVE Tale(q)'
    <3>1. /\ pc'[q] = pc[q] /\ decision'[q] = decision[q] /\ waiter'[q] = waiter[q]
          /\ run'[q] = run[q] /\ approval'[q] = approval[q] /\ child'[q] = child[q]
          /\ jobs'[q] = jobs[q] /\ exists' = exists
        BY <1>a, <1>16, <2>3 DEF StopAfterApproval, Goto, TypeOK
    <3>2. cause'[q] = cause[q]
        BY <1>a, <1>16, <2>3, Suffered, OutcomeFacts DEF StopAfterApproval
    <3> QED
        BY <1>a, <2>1, <2>2, <2>3, <3>1, <3>2, Others
  <2>4. Tale(r)'
    <3>1. /\ pc[r] = "stop"
          /\ pc'[r] \in {"complete", "failing"}
          /\ pc'[r] = "failing" => cause'[r] # "none"
          /\ Stands(r, "answer")' <=> Stands(r, "answer")
          /\ Stands(r, "notice") => Stands(r, "notice")'
          /\ Stands(r, "notice")' => Stands(r, "notice") \/ Present(r)
          /\ pc'[r] = "complete" => Stands(r, "notice")'
          /\ decision'[r] = decision[r]
          /\ waiter'[r] = waiter[r]
          /\ run'[r] = run[r]
          /\ approval'[r] = approval[r]
          /\ child'[r] = child[r]
          /\ jobs'[r] = jobs[r]
          /\ Present(r)' <=> Present(r)
      <4>1. PICK o \in Outcomes(r) :
              /\ Suffer(r, o)
              /\ IF Done(o) THEN Store(r, "notice") ELSE UNCHANGED messages
              /\ pc' = [pc EXCEPT ![r] = IF o = "ok" THEN "complete" ELSE "failing"]
          BY <1>16 DEF StopAfterApproval, Goto
      <4>2. /\ Done(o) => Present(r)
            /\ o = "ok" => Done(o)
            /\ o # "ok" => cause'[r] # "none"
          BY <1>a, <4>1, OutcomeFacts, Suffered DEF Done
      <4>3. /\ Stands(r, "answer")' <=> Stands(r, "answer")
            /\ Done(o) => Stands(r, "notice")'
            /\ ~Done(o) => (Stands(r, "notice")' <=> Stands(r, "notice"))
        <5>1. CASE Done(o)
            BY <1>a, <4>1, <5>1, Stored
        <5>2. CASE ~Done(o)
            BY <4>1, <5>2, StandsKept
        <5> QED
            BY <5>1, <5>2
      <4> QED
          BY <1>a, <1>16, <4>1, <4>2, <4>3
          DEF StopAfterApproval, TypeOK, Present, Conversation
    <3>2. Tale(r) /\ Typed(r)
        BY <1>a DEF TypeOK, Typed
    <3> QED
        BY <3>1, <3>2
        DEF Tale, Rows, Ruled, Stage, Story, Stopped, Cleared, Fresh, Undecided,
            Running, Ended, Decisions, Typed
  <2> QED
      BY <2>3, <2>4
<1>17. ASSUME NEW r \in Requests, ExecutionFails(r)
      PROVE  \A q \in Requests : Tale(q)'
  <2>1. \A q \in Requests, ro \in {"answer", "notice"} : Stands(q, ro)' <=> Stands(q, ro)
      BY <1>17, StandsKept DEF ExecutionFails, stored, local
  <2>2. ASSUME NEW q \in Requests, q # r PROVE Tale(q)'
      BY <1>a, <1>17, <2>1, <2>2, Others
      DEF ExecutionFails, Goto, stored, local, vars, TypeOK
  <2>3. Tale(r)'
    <3>1. /\ pc[r] = "execute"
          /\ pc'[r] = "sweep"
          /\ cause'[r] # "none"
          /\ decision'[r] = decision[r]
          /\ waiter'[r] = waiter[r]
          /\ run'[r] = run[r]
          /\ approval'[r] = approval[r]
          /\ child'[r] = child[r]
          /\ jobs'[r] = jobs[r]
          /\ Present(r)' <=> Present(r)
          /\ Stands(r, "answer")' <=> Stands(r, "answer")
          /\ Stands(r, "notice")' <=> Stands(r, "notice")
        BY <1>a, <1>17, <2>1
        DEF ExecutionFails, Goto, stored, local, TypeOK, Present, Conversation
    <3>2. Tale(r) /\ Typed(r)
        BY <1>a DEF TypeOK, Typed
    <3> QED
        BY <3>1, <3>2
        DEF Tale, Rows, Ruled, Stage, Story, Stopped, Cleared, Fresh, Undecided,
            Running, Ended, Decisions, Typed
  <2> QED
      BY <2>2, <2>3
<1>18. ASSUME NEW r \in Requests, ExecutionAnswers(r)
      PROVE  \A q \in Requests : Tale(q)'
  <2>1. \A q \in Requests, ro \in {"answer", "notice"} : Stands(q, ro)' <=> Stands(q, ro)
      BY <1>18, StandsKept DEF ExecutionAnswers, stored, local
  <2>2. ASSUME NEW q \in Requests, q # r PROVE Tale(q)'
      BY <1>a, <1>18, <2>1, <2>2, Others
      DEF ExecutionAnswers, Goto, stored, local, vars, TypeOK
  <2>3. Tale(r)'
    <3>1. /\ pc[r] = "execute"
          /\ pc'[r] = "store"
          /\ decision'[r] = decision[r]
          /\ waiter'[r] = waiter[r]
          /\ cause'[r] = cause[r]
          /\ run'[r] = run[r]
          /\ approval'[r] = approval[r]
          /\ child'[r] = child[r]
          /\ jobs'[r] = jobs[r]
          /\ Present(r)' <=> Present(r)
          /\ Stands(r, "answer")' <=> Stands(r, "answer")
          /\ Stands(r, "notice")' <=> Stands(r, "notice")
        BY <1>a, <1>18, <2>1
        DEF ExecutionAnswers, Goto, stored, local, TypeOK, Present, Conversation
    <3>2. Tale(r) /\ Typed(r)
        BY <1>a DEF TypeOK, Typed
    <3> QED
        BY <3>1, <3>2
        DEF Tale, Rows, Ruled, Stage, Story, Stopped, Cleared, Fresh, Undecided,
            Running, Ended, Decisions, Typed
  <2> QED
      BY <2>2, <2>3
<1>19. ASSUME NEW r \in Requests, FinishActiveChildRuns(r)
      PROVE  \A q \in Requests : Tale(q)'
  <2>1. \A q \in Requests, ro \in {"answer", "notice"} : Stands(q, ro)' <=> Stands(q, ro)
      BY <1>19, StandsKept DEF FinishActiveChildRuns, Swept, MayFault, stored, local
  <2>2. ASSUME NEW q \in Requests, q # r PROVE Tale(q)'
      BY <1>a, <1>19, <2>1, <2>2, Others
      DEF FinishActiveChildRuns, Swept, MayFault, Goto, stored, local, vars, TypeOK
  <2>3. Tale(r)'
    <3>1. /\ pc[r] = "sweep"
          /\ pc'[r] = "failing"
          /\ decision'[r] = decision[r]
          /\ waiter'[r] = waiter[r]
          /\ cause'[r] = cause[r]
          /\ run'[r] = run[r]
          /\ approval'[r] = approval[r]
          /\ jobs'[r] = jobs[r]
          /\ Present(r)' <=> Present(r)
          /\ Stands(r, "answer")' <=> Stands(r, "answer")
          /\ Stands(r, "notice")' <=> Stands(r, "notice")
        BY <1>a, <1>19, <2>1
        DEF FinishActiveChildRuns, Swept, MayFault, Goto, stored, local, TypeOK,
            Present, Conversation
    <3>2. Tale(r) /\ Typed(r)
        BY <1>a DEF TypeOK, Typed
    <3> QED
        BY <3>1, <3>2
        DEF Tale, Rows, Ruled, Stage, Story, Stopped, Cleared, Fresh, Undecided,
            Running, Ended, Decisions, Typed
  <2> QED
      BY <2>2, <2>3
<1>20. ASSUME NEW r \in Requests, StoreAnswer(r)
      PROVE  \A q \in Requests : Tale(q)'
  <2>1. \A q \in Requests, ro \in {"answer", "notice"} :
          Stands(q, ro)' => Stands(q, ro) \/ (q = r /\ ro = "answer")
      BY <1>a, <1>20, StandsKept, Stored DEF StoreAnswer
  <2>2. \A q \in Requests, ro \in {"answer", "notice"} : Stands(q, ro) => Stands(q, ro)'
      BY <1>a, <1>20, StandsKept, Stored DEF StoreAnswer
  <2>3. ASSUME NEW q \in Requests, q # r PROVE Tale(q)'
    <3>1. /\ pc'[q] = pc[q] /\ decision'[q] = decision[q] /\ waiter'[q] = waiter[q]
          /\ run'[q] = run[q] /\ approval'[q] = approval[q] /\ child'[q] = child[q]
          /\ jobs'[q] = jobs[q] /\ exists' = exists
        BY <1>a, <1>20, <2>3 DEF StoreAnswer, Goto, TypeOK
    <3>2. cause'[q] = cause[q]
        BY <1>a, <1>20, <2>3, Suffered, OutcomeFacts DEF StoreAnswer
    <3> QED
        BY <1>a, <2>1, <2>2, <2>3, <3>1, <3>2, Others
  <2>4. Tale(r)'
    <3>1. /\ pc[r] = "store"
          /\ pc'[r] \in {"output", "failing"}
          /\ pc'[r] = "failing" => cause'[r] # "none"
          /\ Stands(r, "notice")' <=> Stands(r, "notice")
          /\ Stands(r, "answer") => Stands(r, "answer")'
          /\ ~Present(r) => jobs'[r] = jobs[r] /\ (Stands(r, "answer")' => Stands(r, "answer"))
          /\ (Stands(r, "answer") <=> "capture" \in jobs[r])
             => (Stands(r, "answer")' <=> "capture" \in jobs'[r])
          /\ pc'[r] = "output" => Stands(r, "answer")'
          /\ decision'[r] = decision[r]
          /\ waiter'[r] = waiter[r]
          /\ run'[r] = run[r]
          /\ approval'[r] = approval[r]
          /\ child'[r] = child[r]
          /\ Present(r)' <=> Present(r)
      <4>1. PICK o \in Outcomes(r) :
              /\ Suffer(r, o)
              /\ IF Done(o) THEN Store(r, "answer") /\ jobs' = [jobs EXCEPT ![r] = @ \cup {"capture"}]
                 ELSE UNCHANGED <<messages, jobs>>
              /\ pc' = [pc EXCEPT ![r] = IF o = "ok" THEN "output" ELSE "failing"]
          BY <1>20 DEF StoreAnswer, Goto
      <4>2. /\ Done(o) => Present(r)
            /\ o = "ok" => Done(o)
            /\ o # "ok" => cause'[r] # "none"
          BY <1>a, <4>1, OutcomeFacts, Suffered DEF Done
      <4>3. /\ Stands(r, "notice")' <=> Stands(r, "notice")
            /\ Done(o) => Stands(r, "answer")'
            /\ ~Done(o) => (Stands(r, "answer")' <=> Stands(r, "answer"))
        <5>1. CASE Done(o)
            BY <1>a, <4>1, <5>1, Stored
        <5>2. CASE ~Done(o)
            BY <4>1, <5>2, StandsKept
        <5> QED
            BY <5>1, <5>2
      <4> QED
          BY <1>a, <1>20, <4>1, <4>2, <4>3
          DEF StoreAnswer, TypeOK, Present, Conversation
    <3>2. Tale(r) /\ Typed(r)
        BY <1>a DEF TypeOK, Typed
    <3> QED
        BY <3>1, <3>2
        DEF Tale, Rows, Ruled, Stage, Story, Stopped, Cleared, Fresh, Undecided,
            Running, Ended, Decisions, Typed
  <2> QED
      BY <2>3, <2>4
<1>21. ASSUME NEW r \in Requests, RecordOutput(r)
      PROVE  \A q \in Requests : Tale(q)'
  <2>1. \A q \in Requests, ro \in {"answer", "notice"} : Stands(q, ro)' <=> Stands(q, ro)
      BY <1>21, StandsKept DEF RecordOutput, stored, local
  <2>2. ASSUME NEW q \in Requests, q # r PROVE Tale(q)'
      BY <1>a, <1>21, <2>1, <2>2, Suffered, OutcomeFacts, ToldFacts, Others
      DEF RecordOutput, Goto, stored, local, vars, TypeOK
  <2>3. Tale(r)'
    <3>1. /\ pc[r] = "output"
          /\ pc'[r] \in {"queue", "failing"}
          /\ pc'[r] = "failing" => cause'[r] # "none"
          /\ decision'[r] = decision[r]
          /\ waiter'[r] = waiter[r]
          /\ run'[r] = run[r]
          /\ approval'[r] = approval[r]
          /\ child'[r] = child[r]
          /\ jobs'[r] = jobs[r]
          /\ Present(r)' <=> Present(r)
          /\ Stands(r, "answer")' <=> Stands(r, "answer")
          /\ Stands(r, "notice")' <=> Stands(r, "notice")
        BY <1>a, <1>21, <2>1, Suffered, OutcomeFacts, ToldFacts
        DEF RecordOutput, Goto, stored, local, TypeOK, Present, Conversation
    <3>2. Tale(r) /\ Typed(r)
        BY <1>a DEF TypeOK, Typed
    <3> QED
        BY <3>1, <3>2
        DEF Tale, Rows, Ruled, Stage, Story, Stopped, Cleared, Fresh, Undecided,
            Running, Ended, Decisions, Typed
  <2> QED
      BY <2>2, <2>3
<1>22. ASSUME NEW r \in Requests, EnqueueSummary(r)
      PROVE  \A q \in Requests : Tale(q)'
  <2>1. \A q \in Requests, ro \in {"answer", "notice"} : Stands(q, ro)' <=> Stands(q, ro)
      BY <1>22, StandsKept DEF EnqueueSummary, stored, local
  <2>2. ASSUME NEW q \in Requests, q # r PROVE Tale(q)'
      BY <1>a, <1>22, <2>1, <2>2, Suffered, OutcomeFacts, ToldFacts, Others
      DEF EnqueueSummary, Goto, stored, local, vars, TypeOK
  <2>3. Tale(r)'
    <3>1. /\ pc[r] = "queue"
          /\ pc'[r] = "complete"
          /\ "capture" \in jobs'[r] <=> "capture" \in jobs[r]
          /\ ~Present(r) => jobs'[r] = jobs[r]
          /\ decision'[r] = decision[r]
          /\ waiter'[r] = waiter[r]
          /\ run'[r] = run[r]
          /\ approval'[r] = approval[r]
          /\ child'[r] = child[r]
          /\ Present(r)' <=> Present(r)
          /\ Stands(r, "answer")' <=> Stands(r, "answer")
          /\ Stands(r, "notice")' <=> Stands(r, "notice")
        BY <1>a, <1>22, <2>1, Suffered, OutcomeFacts, ToldFacts
        DEF EnqueueSummary, Goto, stored, local, TypeOK, Present, Conversation
    <3>2. Tale(r) /\ Typed(r)
        BY <1>a DEF TypeOK, Typed
    <3> QED
        BY <3>1, <3>2
        DEF Tale, Rows, Ruled, Stage, Story, Stopped, Cleared, Fresh, Undecided,
            Running, Ended, Decisions, Typed
  <2> QED
      BY <2>2, <2>3
<1>23. ASSUME NEW r \in Requests, RecordEnd(r)
      PROVE  \A q \in Requests : Tale(q)'
  <2>1. \A q \in Requests, ro \in {"answer", "notice"} : Stands(q, ro)' <=> Stands(q, ro)
      BY <1>23, StandsKept DEF RecordEnd, stored, local
  <2>2. ASSUME NEW q \in Requests, q # r PROVE Tale(q)'
      BY <1>a, <1>23, <2>1, <2>2, Suffered, OutcomeFacts, ToldFacts, Others
      DEF RecordEnd, Goto, stored, local, vars, TypeOK
  <2>3. Tale(r)'
    <3>1. /\ pc[r] = "complete"
          /\ pc'[r] \in {"close", "failing"}
          /\ pc'[r] = "failing" => cause'[r] # "none"
          /\ decision'[r] = decision[r]
          /\ waiter'[r] = waiter[r]
          /\ run'[r] = run[r]
          /\ approval'[r] = approval[r]
          /\ child'[r] = child[r]
          /\ jobs'[r] = jobs[r]
          /\ Present(r)' <=> Present(r)
          /\ Stands(r, "answer")' <=> Stands(r, "answer")
          /\ Stands(r, "notice")' <=> Stands(r, "notice")
        BY <1>a, <1>23, <2>1, Suffered, OutcomeFacts, ToldFacts
        DEF RecordEnd, Goto, stored, local, TypeOK, Present, Conversation
    <3>2. Tale(r) /\ Typed(r)
        BY <1>a DEF TypeOK, Typed
    <3> QED
        BY <3>1, <3>2
        DEF Tale, Rows, Ruled, Stage, Story, Stopped, Cleared, Fresh, Undecided,
            Running, Ended, Decisions, Typed
  <2> QED
      BY <2>2, <2>3
<1>24. ASSUME NEW r \in Requests, FinishRun(r)
      PROVE  \A q \in Requests : Tale(q)'
  <2>1. \A q \in Requests, ro \in {"answer", "notice"} : Stands(q, ro)' <=> Stands(q, ro)
      BY <1>24, StandsKept DEF FinishRun, Outcome, stored, local
  <2>2. ASSUME NEW q \in Requests, q # r PROVE Tale(q)'
      BY <1>a, <1>24, <2>1, <2>2, Suffered, OutcomeFacts, ToldFacts, Others
      DEF FinishRun, Outcome, Goto, stored, local, vars, TypeOK
  <2>3. Tale(r)'
      BY <1>a, <1>24, <2>1, Suffered, OutcomeFacts, ToldFacts
      DEF FinishRun, Outcome, Goto, stored, local, vars, TypeOK, Tale, Rows, Ruled,
          Stage, Story, Stopped, Cleared, Fresh, Undecided, Running, Decisions,
          Ended, Present, Live, Conversation
  <2> QED
      BY <2>2, <2>3
<1>25. ASSUME NEW r \in Requests, FailRun(r)
      PROVE  \A q \in Requests : Tale(q)'
  <2>1. \A q \in Requests, ro \in {"answer", "notice"} : Stands(q, ro)' <=> Stands(q, ro)
      BY <1>25, StandsKept DEF FailRun, MayFault, stored, local
  <2>2. ASSUME NEW q \in Requests, q # r PROVE Tale(q)'
      BY <1>a, <1>25, <2>1, <2>2, Others
      DEF FailRun, MayFault, Goto, stored, local, vars, TypeOK
  <2>3. Tale(r)'
    <3>1. /\ pc[r] = "failing"
          /\ pc'[r] = "unlock"
          /\ run'[r] = run[r] \/ (Present(r) /\ run'[r] = cause[r])
          /\ decision'[r] = decision[r]
          /\ waiter'[r] = waiter[r]
          /\ cause'[r] = cause[r]
          /\ approval'[r] = approval[r]
          /\ child'[r] = child[r]
          /\ jobs'[r] = jobs[r]
          /\ Present(r)' <=> Present(r)
          /\ Stands(r, "answer")' <=> Stands(r, "answer")
          /\ Stands(r, "notice")' <=> Stands(r, "notice")
        BY <1>a, <1>25, <2>1
        DEF FailRun, MayFault, Goto, stored, local, TypeOK, Present, Conversation
    <3>2. Tale(r) /\ Typed(r)
        BY <1>a DEF TypeOK, Typed
    <3> QED
        BY <3>1, <3>2
        DEF Tale, Rows, Ruled, Stage, Story, Stopped, Cleared, Fresh, Undecided,
            Running, Ended, Decisions, Typed
  <2> QED
      BY <2>2, <2>3
<1>26. ASSUME NEW r \in Requests, Unlock(r)
      PROVE  \A q \in Requests : Tale(q)'
  <2>1. \A q \in Requests, ro \in {"answer", "notice"} : Stands(q, ro)' <=> Stands(q, ro)
      BY <1>26, StandsKept DEF Unlock, Freed, stored, local
  <2>2. ASSUME NEW q \in Requests, q # r PROVE Tale(q)'
      BY <1>a, <1>26, <2>1, <2>2, Others
      DEF Unlock, Freed, Goto, stored, local, vars, TypeOK
  <2>3. Tale(r)'
      BY <1>a, <1>26, <2>1
      DEF Unlock, Freed, Goto, stored, local, vars, TypeOK, Tale, Rows, Ruled, Stage,
          Story, Stopped, Cleared, Fresh, Undecided, Running, Decisions, Ended,
          Present, Live, Conversation
  <2> QED
      BY <2>2, <2>3
<1>27. ASSUME NEW r \in Requests, Disconnect(r)
      PROVE  \A q \in Requests : Tale(q)'
  <2>1. \A q \in Requests, ro \in {"answer", "notice"} : Stands(q, ro)' <=> Stands(q, ro)
      BY <1>27, StandsKept DEF Disconnect, stored, local
  <2>2. ASSUME NEW q \in Requests, q # r PROVE Tale(q)'
      BY <1>a, <1>27, <2>1, <2>2, Others
      DEF Disconnect, Goto, stored, local, vars, TypeOK
  <2>3. Tale(r)'
      BY <1>a, <1>27, <2>1
      DEF Disconnect, Goto, stored, local, vars, TypeOK, Tale, Rows, Ruled, Stage,
          Story, Stopped, Cleared, Fresh, Undecided, Running, Decisions, Ended,
          Present, Live, Conversation
  <2> QED
      BY <2>2, <2>3
<1>28. ASSUME NEW r \in Requests, Crash(r)
      PROVE  \A q \in Requests : Tale(q)'
  <2>1. \A q \in Requests, ro \in {"answer", "notice"} : Stands(q, ro)' <=> Stands(q, ro)
      BY <1>28, StandsKept DEF Crash, Freed, MayFault, stored, local
  <2>2. ASSUME NEW q \in Requests, q # r PROVE Tale(q)'
      BY <1>a, <1>28, <2>1, <2>2, Others
      DEF Crash, Freed, MayFault, Goto, stored, local, vars, TypeOK
  <2>3. Tale(r)'
      BY <1>a, <1>28, <2>1
      DEF Crash, Freed, MayFault, Goto, stored, local, vars, TypeOK, Tale, Rows,
          Ruled, Stage, Story, Stopped, Cleared, Fresh, Undecided, Running,
          Decisions, Ended, Present, Live, Conversation
  <2> QED
      BY <2>2, <2>3
<1>29. ASSUME NEW r \in Requests, LoseLock(r)
      PROVE  \A q \in Requests : Tale(q)'
  <2>1. \A q \in Requests, ro \in {"answer", "notice"} : Stands(q, ro)' <=> Stands(q, ro)
      BY <1>29, StandsKept DEF LoseLock, Freed, MayFault, stored, local
  <2>2. ASSUME NEW q \in Requests, q # r PROVE Tale(q)'
      BY <1>a, <1>29, <2>1, <2>2, Others
      DEF LoseLock, Freed, MayFault, Goto, stored, local, vars, TypeOK
  <2>3. Tale(r)'
      BY <1>a, <1>29, <2>1
      DEF LoseLock, Freed, MayFault, Goto, stored, local, vars, TypeOK, Tale, Rows,
          Ruled, Stage, Story, Stopped, Cleared, Fresh, Undecided, Running,
          Decisions, Ended, Present, Live, Conversation
  <2> QED
      BY <2>2, <2>3
<1>30. ASSUME NEW r \in Requests, NEW h \in Handoffs, Delegate(r, h)
      PROVE  \A q \in Requests : Tale(q)'
  <2>1. \A q \in Requests, ro \in {"answer", "notice"} : Stands(q, ro)' <=> Stands(q, ro)
      BY <1>30, StandsKept DEF Delegate, stored, local
  <2>2. ASSUME NEW q \in Requests, q # r PROVE Tale(q)'
      BY <1>a, <1>30, <2>1, <2>2, Suffered, OutcomeFacts, ToldFacts, Others
      DEF Delegate, Goto, stored, local, vars, TypeOK
  <2>3. Tale(r)'
    <3>1. /\ pc[r] = "execute"
          /\ pc'[r] \in {"execute", "sweep"}
          /\ pc'[r] = "sweep" => cause'[r] # "none"
          /\ decision'[r] = decision[r]
          /\ waiter'[r] = waiter[r]
          /\ run'[r] = run[r]
          /\ approval'[r] = approval[r]
          /\ jobs'[r] = jobs[r]
          /\ Present(r)' <=> Present(r)
          /\ Stands(r, "answer")' <=> Stands(r, "answer")
          /\ Stands(r, "notice")' <=> Stands(r, "notice")
        BY <1>a, <1>30, <2>1, Suffered, OutcomeFacts, ToldFacts
        DEF Delegate, Goto, stored, local, TypeOK, Present, Conversation
    <3>2. Tale(r) /\ Typed(r)
        BY <1>a DEF TypeOK, Typed
    <3> QED
        BY <3>1, <3>2
        DEF Tale, Rows, Ruled, Stage, Story, Stopped, Cleared, Fresh, Undecided,
            Running, Ended, Decisions, Typed
  <2> QED
      BY <2>2, <2>3
<1>31. ASSUME NEW r \in Requests, NEW h \in Handoffs, CompleteHandoff(r, h)
      PROVE  \A q \in Requests : Tale(q)'
  <2>1. \A q \in Requests, ro \in {"answer", "notice"} : Stands(q, ro)' <=> Stands(q, ro)
      BY <1>31, StandsKept DEF CompleteHandoff, stored, local
  <2>2. ASSUME NEW q \in Requests, q # r PROVE Tale(q)'
      BY <1>a, <1>31, <2>1, <2>2, Suffered, OutcomeFacts, ToldFacts, Others
      DEF CompleteHandoff, Goto, stored, local, vars, TypeOK
  <2>3. Tale(r)'
    <3>1. /\ pc[r] = "execute"
          /\ pc'[r] \in {"execute", "sweep"}
          /\ pc'[r] = "sweep" => cause'[r] # "none"
          /\ decision'[r] = decision[r]
          /\ waiter'[r] = waiter[r]
          /\ run'[r] = run[r]
          /\ approval'[r] = approval[r]
          /\ jobs'[r] = jobs[r]
          /\ Present(r)' <=> Present(r)
          /\ Stands(r, "answer")' <=> Stands(r, "answer")
          /\ Stands(r, "notice")' <=> Stands(r, "notice")
        BY <1>a, <1>31, <2>1, Suffered, OutcomeFacts, ToldFacts
        DEF CompleteHandoff, Goto, stored, local, TypeOK, Present, Conversation
    <3>2. Tale(r) /\ Typed(r)
        BY <1>a DEF TypeOK, Typed
    <3> QED
        BY <3>1, <3>2
        DEF Tale, Rows, Ruled, Stage, Story, Stopped, Cleared, Fresh, Undecided,
            Running, Ended, Decisions, Typed
  <2> QED
      BY <2>2, <2>3
<1>32. ASSUME NEW r \in Requests, NEW d \in {"approved", "rejected"}, Decide(r, d)
      PROVE  \A q \in Requests : Tale(q)'
  <2>1. \A q \in Requests, ro \in {"answer", "notice"} : Stands(q, ro)' <=> Stands(q, ro)
      BY <1>32, StandsKept DEF Decide, stored, local
  <2>2. ASSUME NEW q \in Requests, q # r PROVE Tale(q)'
      BY <1>a, <1>32, <2>1, <2>2, Others
      DEF Decide, Goto, stored, local, vars, TypeOK
  <2>3. Tale(r)'
      BY <1>a, <1>32, <2>1
      DEF Decide, Goto, stored, local, vars, TypeOK, Tale, Rows, Ruled, Stage, Story,
          Stopped, Cleared, Fresh, Undecided, Running, Decisions, Ended, Present,
          Live, Conversation
  <2> QED
      BY <2>2, <2>3
<1>33. ASSUME NEW c \in Conversations, DeleteConversation(c)
      PROVE  \A q \in Requests : Tale(q)'
  <2> SUFFICES ASSUME NEW q \in Requests PROVE Tale(q)'
      OBVIOUS
  <2>1. CASE Conversation(q) = c
    <3>1. messages'[c] = <<>> /\ exists'[c] = FALSE
        BY <1>a, <1>33 DEF DeleteConversation, TypeOK
    <3>2. ~Stands(q, "answer")' /\ ~Stands(q, "notice")'
        BY <2>1, <3>1 DEF Stands, Conversation
    <3>3. /\ pc' = pc /\ decision' = decision /\ waiter' = waiter /\ cause' = cause
          /\ run'[q] = IF run[q] # "none" THEN "deleted" ELSE "none"
          /\ approval'[q] = IF approval[q] # "none" THEN "deleted" ELSE "none"
          /\ jobs'[q] = {}
          /\ \A h \in Handoffs : child[q][h] = "none" <=> child'[q][h] = "none"
        BY <2>1, <1>33 DEF DeleteConversation, local
    <3> QED
        BY <1>a, <2>1, <3>1, <3>2, <3>3
        DEF Tale, Rows, Ruled, Stage, Story, Present, Conversation, Stopped, Cleared,
            Decisions, Ended
  <2>2. CASE Conversation(q) # c
    <3>1. messages'[Conversation(q)] = messages[Conversation(q)]
          /\ exists'[Conversation(q)] = exists[Conversation(q)]
        BY <1>a, <2>2, <1>33 DEF DeleteConversation, TypeOK, Conversation
    <3>2. Stands(q, "answer")' <=> Stands(q, "answer")
        BY <3>1 DEF Stands, Conversation, Written
    <3>3. Stands(q, "notice")' <=> Stands(q, "notice")
        BY <3>1 DEF Stands, Conversation, Written
    <3>4. /\ run'[q] = run[q] /\ approval'[q] = approval[q] /\ jobs'[q] = jobs[q]
          /\ child'[q] = child[q]
        BY <1>a, <2>2, <1>33 DEF DeleteConversation, TypeOK
    <3> QED
        BY <1>a, <1>33, <3>1, <3>2, <3>3, <3>4, Others DEF DeleteConversation, local
  <2> QED
      BY <2>1, <2>2
<1>34. ASSUME UNCHANGED vars
      PROVE  \A q \in Requests : Tale(q)'
    BY <1>a, <1>34, StandsKept, Others DEF vars, local, stored
<1> QED
    BY <1>1, <1>2, <1>3, <1>4, <1>5, <1>6, <1>7, <1>8, <1>9, <1>10, <1>11, <1>12,
        <1>13, <1>14, <1>15, <1>16, <1>17, <1>18, <1>19, <1>20, <1>21, <1>22, <1>23,
        <1>24, <1>25, <1>26, <1>27, <1>28, <1>29, <1>30, <1>31, <1>32, <1>33, <1>34
    DEF Next, Environment, Handle, Enter, Gate, Wait, Execute, Finish
(***************************************************************************)
(* Which actions write messages, runs and approvals.                       *)
(***************************************************************************)
Speaks(r) == AddUserMessage(r) \/ StopAfterApproval(r) \/ StoreAnswer(r)
MovesRun(r) == CreateRun(r) \/ FinishRun(r) \/ FailRun(r)
MovesApproval(r) == RequestApproval(r) \/ TimeOutWait(r) \/ CancelWait(r)

LEMMA Footprint ==
  ASSUME [Next]_vars
  PROVE  \/ UNCHANGED <<exists, messages, run, approval>>
         \/ \E r \in Requests : Speaks(r) \/ MovesRun(r) \/ MovesApproval(r)
         \/ \E r \in Requests, d \in {"approved", "rejected"} : Decide(r, d)
         \/ \E c \in Conversations : DeleteConversation(c)
<1> DEFINE Quiet == UNCHANGED <<exists, messages, run, approval>>
<1>1. ASSUME NEW r \in Requests, Enter(r)
      PROVE  Quiet \/ Speaks(r) \/ MovesRun(r)
  <2>1. Arrive(r) \/ GiveUpLock(r) \/ LoadHistory(r) \/ Announce(r) => Quiet
      BY DEF Arrive, GiveUpLock, LoadHistory, Announce, stored
  <2> QED
      BY <1>1, <2>1 DEF Enter, Speaks, MovesRun
<1>2. ASSUME NEW r \in Requests, Gate(r)
      PROVE  Quiet \/ Speaks(r) \/ MovesApproval(r)
  <2>1. AskForApproval(r) \/ BeginWait(r) \/ RecordDecision(r) => Quiet
      BY DEF AskForApproval, BeginWait, RecordDecision, stored
  <2>2. HearDecision(r) \/ PollDecision(r) => Quiet
      BY DEF HearDecision, PollDecision, stored
  <2> QED
      BY <1>2, <2>1, <2>2 DEF Gate, Wait, Speaks, MovesApproval
<1>3. ASSUME NEW r \in Requests, Execute(r)
      PROVE  Quiet
  <2>1. ASSUME NEW h \in Handoffs, Delegate(r, h) \/ CompleteHandoff(r, h)
        PROVE  Quiet
      BY <2>1 DEF Delegate, CompleteHandoff
  <2>2. ExecutionFails(r) \/ ExecutionAnswers(r) \/ FinishActiveChildRuns(r) => Quiet
      BY DEF ExecutionFails, ExecutionAnswers, FinishActiveChildRuns, stored
  <2> QED
      BY <1>3, <2>1, <2>2 DEF Execute
<1>4. ASSUME NEW r \in Requests, Finish(r)
      PROVE  Quiet \/ Speaks(r) \/ MovesRun(r)
  <2>1. RecordOutput(r) \/ EnqueueSummary(r) \/ RecordEnd(r) \/ Unlock(r) => Quiet
      BY DEF RecordOutput, EnqueueSummary, RecordEnd, Unlock, stored
  <2> QED
      BY <1>4, <2>1 DEF Finish, Speaks, MovesRun
<1>5. ASSUME NEW r \in Requests,
             AcquireConversationLock(r) \/ Disconnect(r) \/ Crash(r) \/ LoseLock(r)
      PROVE  Quiet
    BY <1>5 DEF AcquireConversationLock, Disconnect, Crash, LoseLock, stored
<1>6. ASSUME UNCHANGED vars
      PROVE  Quiet
    BY <1>6 DEF vars, stored
<1> HIDE DEF Quiet
<1>7. \/ Quiet
      \/ \E r \in Requests : Speaks(r) \/ MovesRun(r) \/ MovesApproval(r)
      \/ \E r \in Requests, d \in {"approved", "rejected"} : Decide(r, d)
      \/ \E c \in Conversations : DeleteConversation(c)
    BY <1>1, <1>2, <1>3, <1>4, <1>5, <1>6 DEF Next, Environment, Handle
<1> QED
    BY <1>7 DEF Quiet

LEMMA ErasedStep ==
  ASSUME IInv, [Next]_vars
  PROVE  Erased'
<1>a. TypeOK /\ Erased
    BY DEF IInv
<1>1. ASSUME UNCHANGED <<exists, messages>>
      PROVE  Erased'
    BY <1>a, <1>1 DEF Erased
<1>2. ASSUME NEW r \in Requests, Speaks(r)
      PROVE  Erased'
  <2>1. PICK o \in Outcomes(r), role \in {"user", "answer", "notice"} :
          /\ exists' = exists
          /\ IF Done(o) THEN Store(r, role) ELSE messages' = messages
    <3>1. CASE AddUserMessage(r)
        BY <3>1 DEF AddUserMessage
    <3>2. CASE StopAfterApproval(r)
        BY <3>2 DEF StopAfterApproval
    <3>3. CASE StoreAnswer(r)
        BY <3>3 DEF StoreAnswer
    <3> QED
        BY <1>2, <3>1, <3>2, <3>3 DEF Speaks
  <2>2. CASE Done(o)
    <3>1. exists[Conversation(r)]
        BY <2>2, OutcomeFacts DEF Present
    <3>2. \A c \in Conversations : c # Conversation(r) => messages'[c] = messages[c]
        BY <1>a, <2>1, <2>2 DEF Store, TypeOK
    <3> QED
        BY <1>a, <2>1, <3>1, <3>2 DEF Erased
  <2>3. CASE ~Done(o)
      BY <1>a, <2>1, <2>3 DEF Erased
  <2> QED
      BY <2>2, <2>3
<1>3. ASSUME NEW r \in Requests, MovesRun(r) \/ MovesApproval(r)
      PROVE  UNCHANGED <<exists, messages>>
    BY <1>3
    DEF MovesRun, CreateRun, FinishRun, FailRun,
        MovesApproval, RequestApproval, TimeOutWait, CancelWait
<1>4. ASSUME NEW r \in Requests, NEW d \in {"approved", "rejected"}, Decide(r, d)
      PROVE  UNCHANGED <<exists, messages>>
    BY <1>4 DEF Decide
<1>5. ASSUME NEW c \in Conversations, DeleteConversation(c)
      PROVE  Erased'
    BY <1>a, <1>5 DEF DeleteConversation, Erased, TypeOK
<1> QED
    BY <1>1, <1>2, <1>3, <1>4, <1>5, Footprint

(***************************************************************************)
(* The inductive invariant holds.                                          *)
(***************************************************************************)
LEMMA Start ==
  ASSUME Init
  PROVE  IInv
<1>1. TypeOK
    BY DEF Init, TypeOK, Stations
<1>2. Erased
    BY DEF Init, Erased
<1>3. ASSUME NEW r \in Requests
      PROVE  Tale(r)
  <2>1. /\ pc[r] = "idle" /\ decision[r] = "none" /\ waiter[r] = "none"
        /\ run[r] = "none" /\ approval[r] = "none" /\ jobs[r] = {}
        /\ \A h \in Handoffs : child[r][h] = "none"
      BY DEF Init
  <2>2. \A role \in {"user", "answer", "notice"} : ~Stands(r, role)
      BY DEF Init, Stands, Conversation
  <2> QED
      BY <2>1, <2>2
      DEF Tale, Rows, Ruled, Stage, Story, Fresh, Undecided, Running, Decisions,
          Ended
<1> QED
    BY <1>1, <1>2, <1>3 DEF IInv

LEMMA Step ==
  ASSUME IInv, [Next]_vars
  PROVE  IInv'
BY TypeStep, TaleStep, ErasedStep DEF IInv

LEMMA Invariance == Spec => []IInv
<1>1. Init => IInv
    BY Start
<1>2. IInv /\ [Next]_vars => IInv'
    BY Step
<1> QED
    BY <1>1, <1>2, PTL DEF Spec

(***************************************************************************)
(* Every value has its type.                                               *)
(***************************************************************************)
THEOREM Typing == Spec => []TypeOK
<1>1. IInv => TypeOK
    BY DEF IInv
<1> QED
    BY <1>1, Invariance, PTL

(***************************************************************************)
(* Nothing that needs approval runs, delegates or answers without an       *)
(* approved record, for every interleaving of decisions, timers, leaving   *)
(* clients, crashes, database errors, lost locks and deletions.            *)
(***************************************************************************)
THEOREM Approval == Spec => []NothingRunsUnapproved
<1>1. ASSUME IInv
      PROVE  NothingRunsUnapproved
  <2> SUFFICES ASSUME NEW r \in NeedsApproval,
                      \/ pc[r] \in {"execute", "sweep", "store", "output", "queue"}
                      \/ \E h \in Handoffs : child[r][h] # "none"
                      \/ Stands(r, "answer")
               PROVE  approval[r] \in {"approved", "deleted"}
      BY DEF NothingRunsUnapproved
  <2>1. r \in Requests /\ Tale(r)
      BY <1>1 DEF IInv
  <2>2. Cleared(r)
      BY <2>1 DEF Tale, Stage, Story, Running
  <2> QED
      BY <2>1, <2>2 DEF Cleared, Tale, Ruled
<1> QED
    BY <1>1, Invariance, PTL

(***************************************************************************)
(* The stored run, messages, approval and jobs agree.                      *)
(***************************************************************************)
THEOREM Agreement == Spec => []RunTellsWhatHappened
<1>1. ASSUME IInv
      PROVE  RunTellsWhatHappened
  <2> SUFFICES ASSUME NEW r \in Requests
               PROVE  /\ run[r] = "completed" => Stands(r, "answer")
                      /\ run[r] = "completed" /\ r \in NeedsApproval => approval[r] = "approved"
                      /\ run[r] = "rejected" => Stands(r, "notice") /\ approval[r] = "rejected"
                      /\ Stands(r, "notice") => approval[r] \in {"rejected", "expired"}
                      /\ Stands(r, "answer") <=> "capture" \in jobs[r]
      BY DEF RunTellsWhatHappened
  <2>1. Tale(r)
      BY <1>1 DEF IInv
  <2>2. Stands(r, "answer") => Cleared(r) /\ Present(r)
      BY <2>1 DEF Tale, Story, Rows
  <2>3. Stands(r, "notice") => Stopped(r) /\ Present(r)
      BY <2>1 DEF Tale, Story, Rows
  <2>4. Present(r) /\ decision[r] # "none" => approval[r] = decision[r]
      BY <2>1 DEF Tale, Ruled, Rows
  <2> QED
      BY <2>1, <2>2, <2>3, <2>4 DEF Tale, Story, Rows, Cleared, Stopped
<1> QED
    BY <1>1, Invariance, PTL

(***************************************************************************)
(* A decision and the end of a run are final.                              *)
(***************************************************************************)
LEMMA VerdictStep ==
  ASSUME IInv, [Next]_vars, NEW q \in Requests
  PROVE  /\ run[q] \in Ended => run'[q] \in {run[q], "deleted"}
         /\ approval[q] \in Decisions => approval'[q] \in {approval[q], "deleted"}
<1> DEFINE Kept == /\ run[q] \in Ended => run'[q] \in {run[q], "deleted"}
                   /\ approval[q] \in Decisions => approval'[q] \in {approval[q], "deleted"}
<1>a. TypeOK /\ Tale(q)
    BY DEF IInv
<1>1. ASSUME UNCHANGED <<run, approval>>
      PROVE  Kept
    BY <1>1
<1>2. ASSUME NEW r \in Requests, Speaks(r)
      PROVE  UNCHANGED <<run, approval>>
    BY <1>2 DEF Speaks, AddUserMessage, StopAfterApproval, StoreAnswer
<1>3. ASSUME NEW r \in Requests, MovesRun(r)
      PROVE  Kept
  <2>1. approval' = approval /\ pc[r] \in {"create", "close", "failing"}
      BY <1>3 DEF MovesRun, CreateRun, FinishRun, FailRun
  <2>2. q # r => run'[q] = run[q]
      BY <1>a, <1>3 DEF MovesRun, CreateRun, FinishRun, FailRun, TypeOK
  <2>3. q = r => run[q] \notin Ended
      BY <1>a, <2>1 DEF Tale, Story, Ended
  <2> QED
      BY <2>1, <2>2, <2>3
<1>4. ASSUME NEW r \in Requests, MovesApproval(r)
      PROVE  Kept
  <2>1. run' = run
      BY <1>4 DEF MovesApproval, RequestApproval, TimeOutWait, CancelWait
  <2>2. RequestApproval(r) => Kept
      BY <1>a, <2>1 DEF RequestApproval, TypeOK, Tale, Stage, Fresh, Decisions
  <2>3. TimeOutWait(r) => Kept
    <3>1. TimeOutWait(r) => \/ approval' = approval
                            \/ approval' = [approval EXCEPT ![r] =
                                 IF approval[r] = "pending" THEN "expired" ELSE approval[r]]
        BY DEF TimeOutWait
    <3> QED
        BY <1>a, <2>1, <3>1 DEF TypeOK, Decisions
  <2>4. CancelWait(r) => Kept
      BY <1>a, <2>1 DEF CancelWait, TypeOK, Decisions
  <2> QED
      BY <1>4, <2>2, <2>3, <2>4 DEF MovesApproval
<1>5. ASSUME NEW r \in Requests, NEW d \in {"approved", "rejected"}, Decide(r, d)
      PROVE  Kept
    BY <1>a, <1>5 DEF Decide, TypeOK, Decisions
<1>6. ASSUME NEW c \in Conversations, DeleteConversation(c)
      PROVE  Kept
    BY <1>a, <1>6 DEF DeleteConversation, TypeOK
<1> QED
    BY <1>1, <1>2, <1>3, <1>4, <1>5, <1>6, Footprint

(***************************************************************************)
(* No later step takes back a decision or the end of a run; only deletion  *)
(* removes them.                                                           *)
(***************************************************************************)
THEOREM Verdicts == Spec => VerdictsAreFinal
<1>1. IInv /\ [Next]_vars =>
        [\A r \in Requests :
           /\ run[r] \in Ended => run'[r] \in {run[r], "deleted"}
           /\ approval[r] \in Decisions => approval'[r] \in {approval[r], "deleted"}]_vars
    BY VerdictStep
<1> QED
    BY <1>1, Invariance, PTL DEF Spec, VerdictsAreFinal

-----------------------------------------------------------------------------
(* Specialist runs *)

(***************************************************************************)
(* The strengthening.  As long as nothing failed, a hand-off the handler   *)
(* tracks is not left running by anyone who does not still delegate or     *)
(* sweep; and nothing runs for a conversation that is gone, so that a      *)
(* sweep that finds no rows has none to miss.                              *)
(***************************************************************************)
Delegating == {"execute", "sweep"}

Tracked(r) ==
  faults = 0 /\ pc[r] \notin Delegating => \A h \in open[r] : child[r][h] # "running"

Dismissed(r) == ~Present(r) => \A h \in Handoffs : child[r][h] # "running"

KInv == IInv /\ \A r \in Requests : Tracked(r) /\ Dismissed(r)

(***************************************************************************)
(* Most steps write no hand-off.                                           *)
(***************************************************************************)
Keeps(r) ==
  /\ UNCHANGED <<open, child, exists>>
  /\ \A q \in Requests : q # r => pc'[q] = pc[q]
  /\ pc[r] \in Delegating /\ pc'[r] \notin Delegating => open[r] = {} \/ faults' # 0
  /\ faults' = 0 => faults = 0

Delegates(r) ==
  (\E h \in Handoffs : Delegate(r, h) \/ CompleteHandoff(r, h)) \/ FinishActiveChildRuns(r)

LEMMA FaultsStay ==
  ASSUME TypeOK, NEW r \in Requests, NEW o, Suffer(r, o)
  PROVE  faults' = 0 => faults = 0
BY DEF Suffer, TypeOK

LEMMA ChildCourse ==
  ASSUME TypeOK, [Next]_vars
  PROVE  \/ \E r \in Requests : Keeps(r) \/ Delegates(r)
         \/ \E c \in Conversations : DeleteConversation(c)
         \/ UNCHANGED <<pc, open, child, exists, faults>>
<1> USE DEF Delegating
<1>1. ASSUME NEW r \in Requests, Enter(r)
      PROVE  Keeps(r)
  <2>1. Arrive(r) \/ GiveUpLock(r) => Keeps(r)
      BY DEF Arrive, GiveUpLock, Keeps, Goto, stored, TypeOK
  <2>2. LoadHistory(r) => Keeps(r)
      BY FaultsStay DEF LoadHistory, Keeps, Goto, stored, TypeOK
  <2>3. AddUserMessage(r) => Keeps(r)
      BY FaultsStay DEF AddUserMessage, Keeps, Goto, TypeOK
  <2>4. CreateRun(r) => Keeps(r)
      BY FaultsStay DEF CreateRun, Keeps, Goto, TypeOK
  <2>5. Announce(r) => Keeps(r)
      BY FaultsStay DEF Announce, Keeps, Goto, stored, TypeOK
  <2> QED
      BY <1>1, <2>1, <2>2, <2>3, <2>4, <2>5 DEF Enter
<1>2. ASSUME NEW r \in Requests, Gate(r)
      PROVE  Keeps(r)
  <2>1. RequestApproval(r) => Keeps(r)
      BY FaultsStay DEF RequestApproval, Keeps, Goto, TypeOK
  <2>2. AskForApproval(r) => Keeps(r)
      BY FaultsStay DEF AskForApproval, Keeps, Goto, stored, TypeOK
  <2>3. BeginWait(r) => Keeps(r)
      BY FaultsStay DEF BeginWait, Keeps, Goto, stored, TypeOK
  <2>4. HearDecision(r) \/ PollDecision(r) => Keeps(r)
      BY DEF HearDecision, PollDecision, EndWait, Keeps, Goto, stored, TypeOK
  <2>5. TimeOutWait(r) => Keeps(r)
    <3>1. TimeOutWait(r) => /\ pc[r] = "wait"
                            /\ \E s \in Stations : pc' = [pc EXCEPT ![r] = s]
                            /\ UNCHANGED <<open, child, exists>>
                            /\ faults' = faults \/ faults' = faults + 1
        BY DEF TimeOutWait, EndWait, AbandonWait, Goto, Stations
    <3> QED
        BY <3>1 DEF Keeps, TypeOK
  <2>6. CancelWait(r) => Keeps(r)
      BY DEF CancelWait, AbandonWait, Keeps, Goto, TypeOK
  <2>7. RecordDecision(r) => Keeps(r)
      BY FaultsStay DEF RecordDecision, Keeps, Goto, stored, TypeOK
  <2>8. StopAfterApproval(r) => Keeps(r)
      BY FaultsStay DEF StopAfterApproval, Keeps, Goto, TypeOK
  <2> QED
      BY <1>2, <2>1, <2>2, <2>3, <2>4, <2>5, <2>6, <2>7, <2>8 DEF Gate, Wait
<1>3. ASSUME NEW r \in Requests, Execute(r)
      PROVE  Keeps(r) \/ Delegates(r)
  <2>1. ExecutionFails(r) \/ ExecutionAnswers(r) => Keeps(r)
      BY DEF ExecutionFails, ExecutionAnswers, Keeps, Goto, stored, TypeOK
  <2> QED
      BY <1>3, <2>1 DEF Execute, Delegates
<1>4. ASSUME NEW r \in Requests, Finish(r)
      PROVE  Keeps(r)
  <2>1. StoreAnswer(r) => Keeps(r)
      BY FaultsStay DEF StoreAnswer, Keeps, Goto, TypeOK
  <2>2. RecordOutput(r) \/ RecordEnd(r) => Keeps(r)
      BY FaultsStay DEF RecordOutput, RecordEnd, Keeps, Goto, stored, TypeOK
  <2>3. EnqueueSummary(r) => Keeps(r)
      BY FaultsStay DEF EnqueueSummary, Keeps, Goto, TypeOK
  <2>4. FinishRun(r) => Keeps(r)
      BY FaultsStay DEF FinishRun, Keeps, Goto, TypeOK
  <2>5. FailRun(r) => Keeps(r)
      BY DEF FailRun, Keeps, Goto, TypeOK
  <2>6. Unlock(r) => Keeps(r)
      BY DEF Unlock, Keeps, Goto, stored, TypeOK
  <2> QED
      BY <1>4, <2>1, <2>2, <2>3, <2>4, <2>5, <2>6 DEF Finish
<1>5. ASSUME NEW r \in Requests, AcquireConversationLock(r) \/ Crash(r)
      PROVE  Keeps(r)
    BY <1>5 DEF AcquireConversationLock, Crash, Keeps, Goto, stored, TypeOK
<1>6. ASSUME NEW r \in Requests, LoseLock(r)
      PROVE  Keeps(r)
    BY <1>6 DEF LoseLock, Keeps, local, stored, TypeOK
<1>7. ASSUME NEW r \in Requests, Disconnect(r)
      PROVE  UNCHANGED <<pc, open, child, exists, faults>>
    BY <1>7 DEF Disconnect, stored
<1>8. ASSUME NEW r \in Requests, NEW d \in {"approved", "rejected"}, Decide(r, d)
      PROVE  UNCHANGED <<pc, open, child, exists, faults>>
    BY <1>8 DEF Decide
<1>9. UNCHANGED vars => UNCHANGED <<pc, open, child, exists, faults>>
    BY DEF vars, local, stored
<1> QED
    BY <1>1, <1>2, <1>3, <1>4, <1>5, <1>6, <1>7, <1>8, <1>9
    DEF Next, Environment, Handle

LEMMA ChildStep ==
  ASSUME KInv, [Next]_vars, NEW q \in Requests
  PROVE  Tracked(q)' /\ Dismissed(q)'
<1> DEFINE Goal == Tracked(q)' /\ Dismissed(q)'
<1>a. TypeOK /\ (\A r \in Requests : Tale(r) /\ Tracked(r) /\ Dismissed(r))
      /\ open[q] \subseteq Handoffs
    BY DEF KInv, IInv, TypeOK
<1>1. ASSUME NEW r \in Requests, Keeps(r)
      PROVE  Goal
  <2>1. Dismissed(q)'
      BY <1>a, <1>1 DEF Keeps, Dismissed, Present, Conversation
  <2>2. Tracked(q)'
      BY <1>a, <1>1 DEF Keeps, Tracked
  <2> QED
      BY <2>1, <2>2
<1>2. ASSUME NEW r \in Requests, NEW h \in Handoffs, Delegate(r, h) \/ CompleteHandoff(r, h)
      PROVE  Goal
  <2>1. PICK o \in Outcomes(r), status \in {"running", "completed"} :
          /\ Suffer(r, o) /\ exists' = exists
          /\ child' = [child EXCEPT ![r][h] = IF Done(o) THEN status ELSE @]
          /\ pc[r] = "execute" /\ pc' = [pc EXCEPT ![r] = IF o = "ok" THEN "execute" ELSE "sweep"]
          /\ \E set : open' = [open EXCEPT ![r] = set]
    <3>1. CASE Delegate(r, h)
        BY <3>1 DEF Delegate, Goto
    <3>2. CASE CompleteHandoff(r, h)
        BY <3>2 DEF CompleteHandoff, Goto
    <3> QED
        BY <1>2, <3>1, <3>2
  <2>2. faults' = 0 => faults = 0
      BY <1>a, <2>1, FaultsStay
  <2>3. CASE q # r
    <3>1. pc'[q] = pc[q] /\ open'[q] = open[q] /\ child'[q] = child[q]
        BY <1>a, <2>1, <2>3 DEF TypeOK
    <3> QED
        BY <1>a, <2>1, <2>2, <3>1 DEF Tracked, Dismissed, Present, Conversation
  <2>4. CASE q = r
    <3>1. pc'[r] \in Delegating
        BY <1>a, <2>1 DEF TypeOK, Delegating
    <3>2. Done(o) => Present(r)
        BY OutcomeFacts
    <3>3. ~Done(o) => child'[r] = child[r]
        BY <1>a, <2>1 DEF TypeOK
    <3>4. Present(r)' <=> Present(r)
        BY <2>1 DEF Present, Conversation
    <3>5. Dismissed(r)'
        BY <1>a, <3>2, <3>3, <3>4 DEF Dismissed
    <3> QED
        BY <2>4, <3>1, <3>5 DEF Tracked
  <2> QED
      BY <2>3, <2>4
<1>3. ASSUME NEW r \in Requests, FinishActiveChildRuns(r)
      PROVE  Goal
  <2>1. PICK missed \in SUBSET open[r] :
          /\ missed = {} \/ MayFault("database")
          /\ faults' = IF missed = {} THEN faults ELSE faults + 1
          /\ child' = [child EXCEPT ![r] = Swept(r, missed)]
      BY <1>3 DEF FinishActiveChildRuns
  <2>2. /\ pc[r] = "sweep" /\ UNCHANGED <<open, exists>>
        /\ \A s \in Requests : s # r => pc'[s] = pc[s]
      BY <1>a, <1>3 DEF FinishActiveChildRuns, Goto, TypeOK
  <2>3. faults' = 0 => faults = 0 /\ missed = {}
      BY <1>a, <2>1 DEF TypeOK
  <2>4. CASE q # r
    <3>1. pc'[q] = pc[q] /\ open'[q] = open[q] /\ child'[q] = child[q]
        BY <1>a, <2>1, <2>2, <2>4 DEF TypeOK
    <3> QED
        BY <1>a, <2>2, <2>3, <3>1 DEF Tracked, Dismissed, Present, Conversation
  <2>5. CASE q = r
    <3>1. cause[r] # "running"
        BY <1>a DEF TypeOK
    <3>2. child'[r] = Swept(r, missed)
        BY <1>a, <2>1 DEF TypeOK
    <3>3. \A h \in Handoffs : child'[r][h] =
            IF Present(r) /\ h \in open[r] \ missed THEN cause[r] ELSE child[r][h]
        BY <3>2 DEF Swept
    <3>4. Dismissed(r)'
        BY <1>a, <2>2, <3>3 DEF Dismissed, Present, Conversation
    <3>5. faults' = 0 => \A h \in open[r] : child'[r][h] # "running"
      <4> SUFFICES ASSUME faults' = 0, NEW h \in open[r] PROVE child'[r][h] # "running"
          OBVIOUS
      <4>1. h \in Handoffs /\ missed = {}
          BY <1>a, <2>3, <2>5
      <4>2. CASE Present(r)
          BY <3>1, <3>3, <4>1, <4>2
      <4>3. CASE ~Present(r)
          BY <1>a, <3>3, <4>1, <4>3 DEF Dismissed
      <4> QED
          BY <4>2, <4>3
    <3> QED
        BY <2>2, <2>5, <3>4, <3>5 DEF Tracked
  <2> QED
      BY <2>4, <2>5
<1>4. ASSUME NEW c \in Conversations, DeleteConversation(c)
      PROVE  Goal
  <2>1. /\ exists' = [exists EXCEPT ![c] = FALSE]
        /\ UNCHANGED <<pc, open, faults>>
      BY <1>4 DEF DeleteConversation, local
  <2>2. \A h \in Handoffs : child'[q][h] =
          IF Conversation(q) = c /\ child[q][h] # "none" THEN "deleted" ELSE child[q][h]
      BY <1>4 DEF DeleteConversation
  <2>3. \A h \in Handoffs : child[q][h] # "running" => child'[q][h] # "running"
      BY <2>2
  <2>4. Tracked(q)'
      BY <1>a, <2>1, <2>3 DEF Tracked
  <2>5. Dismissed(q)'
    <3>1. CASE Conversation(q) = c
        BY <2>2, <3>1 DEF Dismissed
    <3>2. CASE Conversation(q) # c
      <4>1. Present(q)' <=> Present(q)
          BY <1>a, <2>1, <3>2 DEF Present, Conversation, TypeOK
      <4> QED
          BY <1>a, <2>3, <4>1 DEF Dismissed
    <3> QED
        BY <3>1, <3>2
  <2> QED
      BY <2>4, <2>5
<1>5. ASSUME UNCHANGED <<pc, open, child, exists, faults>>
      PROVE  Goal
    BY <1>a, <1>5 DEF Tracked, Dismissed, Present, Conversation
<1> HIDE DEF Goal
<1>6. Goal
    BY <1>a, <1>1, <1>2, <1>3, <1>4, <1>5, ChildCourse DEF Delegates
<1> QED
    BY <1>6 DEF Goal

(***************************************************************************)
(* As long as nothing failed, the specialist runs the handler knew about   *)
(* have ended when the run has (service.go:713-714): whatever ended it, a  *)
(* refusal, an error, a client that left or a deletion.                    *)
(***************************************************************************)
THEOREM Supervision == Spec => []NoTrackedChildLeftRunning
<1>1. Init => KInv
    BY Start DEF KInv, Tracked, Dismissed, Init
<1>2. KInv /\ [Next]_vars => KInv'
    BY ChildStep, Step DEF KInv
<1>3. ASSUME KInv
      PROVE  NoTrackedChildLeftRunning
  <2> SUFFICES ASSUME NEW r \in Requests, faults = 0, run[r] \in Ended, NEW h \in open[r]
               PROVE  child[r][h] # "running"
      BY DEF NoTrackedChildLeftRunning
  <2>1. Tale(r) /\ Tracked(r)
      BY <1>3 DEF KInv, IInv
  <2>2. pc[r] \in {"unlock", "done", "crashed"}
      BY <2>1 DEF Tale, Story
  <2> QED
      BY <2>1, <2>2 DEF Tracked, Delegating
<1> QED
    BY <1>1, <1>2, <1>3, PTL DEF Spec

-----------------------------------------------------------------------------
(* Turns, as long as no lock is lost *)

(***************************************************************************)
(* The strengthening.  Whoever is inside the handler holds the lock of its *)
(* conversation; what it read is current; and it has not spoken before it  *)
(* does.                                                                   *)
(***************************************************************************)
Outside == {"idle", "lock", "done", "crashed"}
BeforeSpeaking == {"idle", "lock", "load", "say"}
AfterQuestion == {"create", "announce", "request", "ask", "await", "wait", "decided",
                  "stop", "execute", "sweep", "store"}
AfterAnswer == {"output", "queue"}

Holds(r) == pc[r] \notin Outside => holder[Conversation(r)] = r

Current(r) ==
  LET log == messages[Conversation(r)]
  IN  /\ Present(r) /\ pc[r] = "say" => Len(log) = seen[r]
      /\ Present(r) /\ pc[r] \in AfterQuestion =>
           Len(log) = seen[r] + 1 /\ log[seen[r] + 1] = Written(r, "user")
      /\ Present(r) /\ pc[r] \in AfterAnswer =>
           Len(log) = seen[r] + 2 /\ log[seen[r] + 2] = Written(r, "answer")

Silent(r) ==
  pc[r] \in BeforeSpeaking =>
    \A i \in DOMAIN messages[Conversation(r)] : messages[Conversation(r)][i].of # r

Turn(r) == Holds(r) /\ Current(r) /\ Silent(r)

LInv == IInv /\ \A r \in Requests : Turn(r)

(***************************************************************************)
(* Most steps move one request to a place that asks no more of its turn.   *)
(***************************************************************************)
Drifts(r) ==
  /\ UNCHANGED <<holder, messages, exists, seen>>
  /\ \A q \in Requests : q # r => pc'[q] = pc[q]
  /\ pc'[r] \notin Outside => pc[r] \notin Outside
  /\ pc'[r] \in BeforeSpeaking => pc[r] \in BeforeSpeaking
  /\ pc'[r] = "say" => pc[r] = "say"
  /\ pc'[r] \in AfterQuestion => pc[r] \in AfterQuestion
  /\ pc'[r] \in AfterAnswer => pc[r] \in AfterAnswer

Moves(r) == AcquireConversationLock(r) \/ LoadHistory(r) \/ Speaks(r) \/ Unlock(r) \/ Crash(r)

LEMMA Course ==
  ASSUME TypeOK, "lock" \notin Faults, [Next]_vars
  PROVE  \/ \E r \in Requests : Drifts(r) \/ Moves(r)
         \/ \E c \in Conversations : DeleteConversation(c)
         \/ UNCHANGED <<pc, holder, messages, exists, seen>>
<1> USE DEF Outside, BeforeSpeaking, AfterQuestion, AfterAnswer
<1>1. ASSUME NEW r \in Requests, Enter(r)
      PROVE  Drifts(r) \/ Moves(r)
  <2>1. Arrive(r) \/ GiveUpLock(r) => Drifts(r)
      BY DEF Arrive, GiveUpLock, Drifts, Goto, stored, TypeOK
  <2>2. CreateRun(r) => Drifts(r)
      BY DEF CreateRun, Drifts, Goto, TypeOK
  <2>3. Announce(r) => Drifts(r)
      BY DEF Announce, Drifts, Goto, stored, TypeOK
  <2> QED
      BY <1>1, <2>1, <2>2, <2>3 DEF Enter, Moves, Speaks
<1>2. ASSUME NEW r \in Requests, Gate(r)
      PROVE  Drifts(r) \/ Moves(r)
  <2>1. RequestApproval(r) => Drifts(r)
      BY DEF RequestApproval, Drifts, Goto, TypeOK
  <2>2. AskForApproval(r) => Drifts(r)
      BY DEF AskForApproval, Drifts, Goto, stored, TypeOK
  <2>3. BeginWait(r) => Drifts(r)
      BY DEF BeginWait, Drifts, Goto, stored, TypeOK
  <2>4. HearDecision(r) \/ PollDecision(r) => Drifts(r)
      BY DEF HearDecision, PollDecision, EndWait, Drifts, Goto, stored, TypeOK
  <2>5. TimeOutWait(r) => Drifts(r)
    <3>1. TimeOutWait(r) => /\ pc[r] = "wait"
                            /\ \/ pc' = [pc EXCEPT ![r] = "decided"]
                               \/ pc' = [pc EXCEPT ![r] = "failing"]
                            /\ UNCHANGED <<holder, messages, exists, seen>>
        BY DEF TimeOutWait, EndWait, AbandonWait, Goto
    <3> QED
        BY <3>1 DEF Drifts, TypeOK
  <2>6. CancelWait(r) => Drifts(r)
      BY DEF CancelWait, AbandonWait, Drifts, Goto, TypeOK
  <2>7. RecordDecision(r) => Drifts(r)
      BY DEF RecordDecision, Drifts, Goto, stored, TypeOK
  <2> QED
      BY <1>2, <2>1, <2>2, <2>3, <2>4, <2>5, <2>6, <2>7
      DEF Gate, Wait, Moves, Speaks
<1>3. ASSUME NEW r \in Requests, Execute(r)
      PROVE  Drifts(r)
  <2>1. ASSUME NEW h \in Handoffs, Delegate(r, h)
        PROVE  Drifts(r)
      BY <2>1 DEF Delegate, Drifts, Goto, TypeOK
  <2>2. ASSUME NEW h \in Handoffs, CompleteHandoff(r, h)
        PROVE  Drifts(r)
      BY <2>2 DEF CompleteHandoff, Drifts, Goto, TypeOK
  <2>3. ExecutionFails(r) \/ ExecutionAnswers(r) => Drifts(r)
      BY DEF ExecutionFails, ExecutionAnswers, Drifts, Goto, stored, TypeOK
  <2>4. FinishActiveChildRuns(r) => Drifts(r)
      BY DEF FinishActiveChildRuns, Drifts, Goto, TypeOK
  <2> QED
      BY <1>3, <2>1, <2>2, <2>3, <2>4 DEF Execute
<1>4. ASSUME NEW r \in Requests, Finish(r)
      PROVE  Drifts(r) \/ Moves(r)
  <2>1. RecordOutput(r) \/ RecordEnd(r) => Drifts(r)
      BY DEF RecordOutput, RecordEnd, Drifts, Goto, stored, TypeOK
  <2>2. EnqueueSummary(r) => Drifts(r)
      BY DEF EnqueueSummary, Drifts, Goto, TypeOK
  <2>3. FinishRun(r) => Drifts(r)
      BY DEF FinishRun, Drifts, Goto, TypeOK
  <2>4. FailRun(r) => Drifts(r)
      BY DEF FailRun, Drifts, Goto, TypeOK
  <2> QED
      BY <1>4, <2>1, <2>2, <2>3, <2>4 DEF Finish, Moves, Speaks
<1>5. ASSUME NEW r \in Requests, Disconnect(r) \/ UNCHANGED vars
      PROVE  UNCHANGED <<pc, holder, messages, exists, seen>>
    BY <1>5 DEF Disconnect, stored, vars, local
<1>6. ASSUME NEW r \in Requests, NEW d \in {"approved", "rejected"}, Decide(r, d)
      PROVE  UNCHANGED <<pc, holder, messages, exists, seen>>
    BY <1>6 DEF Decide
<1>7. ASSUME NEW r \in Requests
      PROVE  ~LoseLock(r)
    BY DEF LoseLock, MayFault
<1>8. UNCHANGED vars => UNCHANGED <<pc, holder, messages, exists, seen>>
    BY DEF vars, local, stored
<1> QED
    BY <1>1, <1>2, <1>3, <1>4, <1>5, <1>6, <1>7, <1>8
    DEF Next, Environment, Handle, Moves

(***************************************************************************)
(* Two requests inside one conversation are one.                           *)
(***************************************************************************)
LEMMA Alone ==
  ASSUME NEW r \in Requests, NEW q \in Requests, Holds(r), Holds(q),
         pc[r] \notin Outside, pc[q] \notin Outside, Conversation(r) = Conversation(q)
  PROVE  r = q
BY DEF Holds

(***************************************************************************)
(* The turn of a request nothing happens to.                               *)
(***************************************************************************)
LEMMA Untouched ==
  ASSUME NEW q \in Requests, Turn(q), pc'[q] = pc[q], seen'[q] = seen[q],
         pc[q] \notin Outside => holder'[Conversation(q)] = holder[Conversation(q)],
         exists'[Conversation(q)] = exists[Conversation(q)],
         messages'[Conversation(q)] = messages[Conversation(q)]
  PROVE  Turn(q)'
BY DEF Turn, Holds, Current, Silent, Present, Conversation, Written

LEMMA TurnDrifts ==
  ASSUME \A q \in Requests : Turn(q), NEW r \in Requests, Drifts(r)
  PROVE  \A q \in Requests : Turn(q)'
<1>1. ASSUME NEW q \in Requests, q # r
      PROVE  Turn(q)'
    BY <1>1, Untouched DEF Drifts
<1>2. Turn(r)'
    BY DEF Drifts, Turn, Holds, Current, Silent, Present, Conversation, Written
<1> QED
    BY <1>1, <1>2

(***************************************************************************)
(* A message stored by a request: the log of its conversation grows by it. *)
(***************************************************************************)
LEMMA Grown ==
  ASSUME TypeOK, NEW r \in Requests, NEW role \in {"user", "answer", "notice"}, Store(r, role)
  PROVE  LET c == Conversation(r)
         IN  /\ Len(messages[c]) \in Nat
             /\ Len(messages'[c]) = Len(messages[c]) + 1
             /\ messages'[c][Len(messages[c]) + 1] = Written(r, role)
             /\ \A i \in 1 .. Len(messages[c]) : messages'[c][i] = messages[c][i]
             /\ DOMAIN messages[c] = 1 .. Len(messages[c])
             /\ DOMAIN messages'[c] = 1 .. Len(messages[c]) + 1
             /\ \A d \in Conversations : d # c => messages'[d] = messages[d]
<1> DEFINE c == Conversation(r)
           m == Written(r, role)
<1>1. c \in Conversations /\ m \in Message /\ messages[c] \in Seq(Message)
    BY DEF TypeOK, Message, Written, Conversation
<1>2. /\ messages'[c] = Append(messages[c], m)
      /\ \A d \in Conversations : d # c => messages'[d] = messages[d]
    BY <1>1 DEF Store, TypeOK
<1> HIDE DEF m, c
<1>3. /\ Len(messages[c]) \in Nat
      /\ Len(messages'[c]) = Len(messages[c]) + 1
      /\ messages'[c][Len(messages[c]) + 1] = m
      /\ \A i \in 1 .. Len(messages[c]) : messages'[c][i] = messages[c][i]
      /\ DOMAIN messages[c] = 1 .. Len(messages[c])
      /\ DOMAIN messages'[c] = 1 .. Len(messages[c]) + 1
    BY <1>1, <1>2
<1> QED
    BY <1>2, <1>3 DEF m, c

LEMMA TurnSpeaks ==
  ASSUME TypeOK, \A q \in Requests : Turn(q), NEW r \in Requests, Speaks(r)
  PROVE  \A q \in Requests : Turn(q)'
<1> DEFINE c == Conversation(r)
<1>1. PICK o \in Outcomes(r), role \in {"user", "answer", "notice"} :
        /\ IF Done(o) THEN Store(r, role) ELSE messages' = messages
        /\ UNCHANGED <<holder, exists, seen>>
        /\ \A q \in Requests : q # r => pc'[q] = pc[q]
        /\ o # "ok" => pc'[r] \in {"unlock", "failing"}
        /\ role = "user" => pc[r] = "say" /\ (o = "ok" => pc'[r] = "create")
        /\ role = "answer" => pc[r] = "store" /\ (o = "ok" => pc'[r] = "output")
        /\ role = "notice" => pc[r] = "stop" /\ (o = "ok" => pc'[r] = "complete")
  <2>1. CASE AddUserMessage(r)
      BY <2>1 DEF AddUserMessage, Goto, TypeOK
  <2>2. CASE StopAfterApproval(r)
      BY <2>2 DEF StopAfterApproval, Goto, TypeOK
  <2>3. CASE StoreAnswer(r)
      BY <2>3 DEF StoreAnswer, Goto, TypeOK
  <2> QED
      BY <2>1, <2>2, <2>3 DEF Speaks
<1>2. pc[r] \notin Outside
    BY <1>1 DEF Outside
<1>3. ASSUME NEW d \in Conversations, d # c
      PROVE  messages'[d] = messages[d]
    BY <1>1, <1>3, Grown
<1>4. ASSUME NEW q \in Requests, q # r
      PROVE  Turn(q)'
  <2>1. CASE Conversation(q) # c
      BY <1>1, <1>3, <1>4, <2>1, Untouched DEF Conversation
  <2>2. CASE Conversation(q) = c
    <3>1. pc[q] \in Outside
        BY <1>2, <1>4, <2>2, Alone DEF Turn
    <3>2. Silent(q)'
      <4>1. CASE Done(o)
        <5>1. Store(r, role)
            BY <1>1, <4>1
        <5>2. ASSUME pc[q] \in BeforeSpeaking, NEW i \in DOMAIN messages'[c]
              PROVE  messages'[c][i].of # q
          <6>1. CASE i = Len(messages[c]) + 1
            <7>1. messages'[c][i] = Written(r, role)
                BY <5>1, <6>1, Grown
            <7> QED
                BY <1>4, <7>1 DEF Written
          <6>2. CASE i # Len(messages[c]) + 1
            <7>1. i \in DOMAIN messages[c] /\ messages'[c][i] = messages[c][i]
                BY <5>1, <5>2, <6>2, Grown
            <7> QED
                BY <2>2, <5>2, <7>1 DEF Turn, Silent
          <6> QED
              BY <6>1, <6>2
        <5> QED
            BY <1>1, <1>4, <2>2, <5>2 DEF Silent, Conversation
      <4>2. CASE ~Done(o)
          BY <1>1, <1>4, <4>2 DEF Turn, Silent, Conversation
      <4> QED
          BY <4>1, <4>2
    <3> QED
        BY <1>1, <1>4, <3>1, <3>2
        DEF Turn, Holds, Current, Outside, AfterQuestion, AfterAnswer
  <2> QED
      BY <2>1, <2>2
<1>5. Turn(r)'
  <2>1. Holds(r)' /\ Silent(r)'
      BY <1>1, <1>2 DEF Turn, Holds, Silent, Conversation, Outside, BeforeSpeaking
  <2>2. CASE o # "ok" \/ role = "notice"
      BY <1>1, <2>1, <2>2 DEF Turn, Current, AfterQuestion, AfterAnswer
  <2>3. CASE o = "ok" /\ role # "notice"
    <3>1. Store(r, role) /\ Present(r)
        BY <1>1, <2>3, OutcomeFacts DEF Done
    <3>2. seen[r] \in Nat /\ seen'[r] = seen[r]
        BY <1>1 DEF TypeOK
    <3>3. CASE role = "user"
      <4>1. pc'[r] = "create" /\ Len(messages[c]) = seen[r]
          BY <1>1, <2>3, <3>1, <3>3 DEF Turn, Current
      <4>2. Len(messages'[c]) = seen[r] + 1 /\ messages'[c][seen[r] + 1] = Written(r, "user")
          BY <3>1, <3>3, <4>1, Grown
      <4> QED
          BY <2>1, <3>2, <4>1, <4>2
          DEF Turn, Current, AfterQuestion, AfterAnswer, Conversation, Written
    <3>4. CASE role = "answer"
      <4>1. pc'[r] = "output" /\ Len(messages[c]) = seen[r] + 1
          BY <1>1, <2>3, <3>1, <3>4 DEF Turn, Current, AfterQuestion
      <4>2. Len(messages'[c]) = seen[r] + 2 /\ messages'[c][seen[r] + 2] = Written(r, "answer")
          BY <3>1, <3>2, <3>4, <4>1, Grown
      <4> QED
          BY <2>1, <3>2, <4>1, <4>2
          DEF Turn, Current, AfterQuestion, AfterAnswer, Conversation, Written
    <3> QED
        BY <2>3, <3>3, <3>4
  <2> QED
      BY <2>2, <2>3
<1> QED
    BY <1>4, <1>5

LEMMA TurnStep ==
  ASSUME LInv, "lock" \notin Faults, [Next]_vars
  PROVE  \A q \in Requests : Turn(q)'
<1>a. TypeOK /\ Erased /\ \A q \in Requests : Turn(q)
    BY DEF LInv, IInv
<1>1. ASSUME UNCHANGED <<pc, holder, messages, exists, seen>>
      PROVE  \A q \in Requests : Turn(q)'
    BY <1>a, <1>1, Untouched
<1>2. ASSUME NEW r \in Requests, AcquireConversationLock(r)
      PROVE  \A q \in Requests : Turn(q)'
  <2>1. /\ holder[Conversation(r)] = Nobody /\ holder'[Conversation(r)] = r
        /\ pc[r] = "lock" /\ pc'[r] = "load"
        /\ UNCHANGED <<messages, exists, seen>>
        /\ \A q \in Requests : q # r => pc'[q] = pc[q]
        /\ \A d \in Conversations : d # Conversation(r) => holder'[d] = holder[d]
      BY <1>a, <1>2
      DEF AcquireConversationLock, Free, Goto, TypeOK, stored, Conversation
  <2>2. ASSUME NEW q \in Requests, q # r
        PROVE  Turn(q)'
    <3>1. pc[q] \notin Outside => Conversation(q) # Conversation(r)
        BY <1>a, <2>1 DEF Turn, Holds
    <3> QED
        BY <1>a, <2>1, <2>2, <3>1, Untouched DEF Conversation
  <2>3. Turn(r)'
      BY <1>a, <2>1
      DEF Turn, Holds, Current, Silent, Conversation, BeforeSpeaking, AfterQuestion,
          AfterAnswer
  <2> QED
      BY <2>2, <2>3
<1>3. ASSUME NEW r \in Requests, LoadHistory(r)
      PROVE  \A q \in Requests : Turn(q)'
  <2>1. /\ pc[r] = "load" /\ pc'[r] \in {"say", "unlock"}
        /\ seen'[r] = Len(messages[Conversation(r)])
        /\ UNCHANGED <<holder, messages, exists>>
        /\ \A q \in Requests : q # r => pc'[q] = pc[q] /\ seen'[q] = seen[q]
      BY <1>a, <1>3 DEF LoadHistory, Goto, TypeOK, stored
  <2>2. ASSUME NEW q \in Requests, q # r
        PROVE  Turn(q)'
      BY <1>a, <2>1, <2>2, Untouched
  <2>3. Turn(r)'
      BY <1>a, <2>1
      DEF Turn, Holds, Current, Silent, Conversation, Outside, BeforeSpeaking,
          AfterQuestion,
          AfterAnswer
  <2> QED
      BY <2>2, <2>3
<1>4. ASSUME NEW r \in Requests, Unlock(r) \/ Crash(r)
      PROVE  \A q \in Requests : Turn(q)'
  <2>1. /\ holder' = Freed(r)
        /\ pc'[r] \in {"done", "crashed"}
        /\ UNCHANGED <<messages, exists, seen>>
        /\ \A q \in Requests : q # r => pc'[q] = pc[q]
      BY <1>a, <1>4 DEF Unlock, Crash, Goto, TypeOK, stored
  <2>2. ASSUME NEW q \in Requests, q # r
        PROVE  Turn(q)'
    <3>1. holder[Conversation(q)] = q => holder'[Conversation(q)] = q
        BY <1>a, <2>1, <2>2 DEF Freed, TypeOK, Conversation
    <3> QED
        BY <1>a, <2>1, <2>2, <3>1, Untouched DEF Turn, Holds
  <2>3. Turn(r)'
      BY <2>1
      DEF Turn, Holds, Current, Silent, Outside, BeforeSpeaking, AfterQuestion,
          AfterAnswer
  <2> QED
      BY <2>2, <2>3
<1>5. ASSUME NEW c \in Conversations, DeleteConversation(c)
      PROVE  \A q \in Requests : Turn(q)'
  <2>1. /\ UNCHANGED <<pc, seen, holder>>
        /\ messages'[c] = <<>> /\ ~exists'[c]
        /\ \A d \in Conversations : d # c => messages'[d] = messages[d] /\ exists'[d] = exists[d]
      BY <1>a, <1>5 DEF DeleteConversation, local, TypeOK
  <2>2. ASSUME NEW q \in Requests
        PROVE  Turn(q)'
    <3>1. CASE Conversation(q) # c
        BY <1>a, <2>1, <3>1, Untouched DEF Conversation
    <3>2. CASE Conversation(q) = c
        BY <1>a, <2>1, <3>2 DEF Turn, Holds, Current, Silent, Present, Conversation
    <3> QED
        BY <3>1, <3>2
  <2> QED
      BY <2>2
<1> QED
    BY <1>a, <1>1, <1>2, <1>3, <1>4, <1>5, Course, TurnDrifts, TurnSpeaks DEF Moves

LEMMA TurnInvariance == "lock" \notin Faults /\ Spec => []LInv
<1> SUFFICES ASSUME "lock" \notin Faults
             PROVE  Spec => []LInv
    OBVIOUS
<1>1. Init => LInv
  <2> SUFFICES ASSUME Init
               PROVE  \A r \in Requests : Turn(r)
      BY Start DEF LInv
  <2> QED
      BY
      DEF Init, Turn, Holds, Current, Silent, Conversation, Outside, AfterQuestion,
          AfterAnswer
<1>2. LInv /\ [Next]_vars => LInv'
    BY TurnStep, Step DEF LInv
<1> QED
    BY <1>1, <1>2, PTL DEF Spec

(***************************************************************************)
(* The history a request works from is current: nobody else speaks between *)
(* its reading of the conversation and its reply.                          *)
(***************************************************************************)
THEOREM Currency == "lock" \notin Faults /\ Spec => []HistoryIsCurrent
<1>1. LInv => HistoryIsCurrent
    BY DEF LInv, Turn, Current, HistoryIsCurrent, AfterQuestion, AfterAnswer
<1> QED
    BY <1>1, TurnInvariance, PTL

(***************************************************************************)
(* Every step of a chat run is a step of TurnLog or changes neither log    *)
(* nor floor.                                                              *)
(***************************************************************************)
LEMMA TurnMaps ==
  ASSUME LInv, "lock" \notin Faults, [Next]_vars
  PROVE  [Turns!Next]_(Turns!logVars)
<1>a. TypeOK /\ \A q \in Requests : Turn(q)
    BY DEF LInv, IInv
<1>1. ASSUME UNCHANGED <<holder, messages>>
      PROVE  UNCHANGED Turns!logVars
    BY <1>1 DEF Turns!logVars
<1>2. ASSUME NEW r \in Requests, AcquireConversationLock(r)
      PROVE  Turns!Take(r)
    BY <1>2 DEF AcquireConversationLock, Free, Turns!Take, Conversation, stored
<1>3. ASSUME NEW r \in Requests, Unlock(r) \/ Crash(r)
      PROVE  Turns!Leave(r) \/ UNCHANGED <<holder, messages>>
    BY <1>a, <1>3
    DEF Unlock, Crash, Freed, Turns!Leave, Conversation, stored, TypeOK
<1>4. ASSUME NEW r \in Requests, LoadHistory(r)
      PROVE  UNCHANGED <<holder, messages>>
    BY <1>4 DEF LoadHistory, stored
<1>5. ASSUME NEW c \in Conversations, DeleteConversation(c)
      PROVE  Turns!Erase(c)
    BY <1>5 DEF DeleteConversation, Turns!Erase
<1>6. ASSUME NEW r \in Requests, Speaks(r)
      PROVE  Turns!Say(r) \/ Turns!Reply(r) \/ UNCHANGED <<holder, messages>>
  <2> DEFINE c == Conversation(r)
  <2>1. PICK o \in Outcomes(r), role \in {"user", "answer", "notice"} :
          /\ IF Done(o) THEN Store(r, role) ELSE messages' = messages
          /\ holder' = holder
          /\ role = "user" => pc[r] = "say"
          /\ role # "user" => pc[r] \in {"stop", "store"}
    <3>1. CASE AddUserMessage(r)
        BY <3>1 DEF AddUserMessage
    <3>2. CASE StopAfterApproval(r)
        BY <3>2 DEF StopAfterApproval
    <3>3. CASE StoreAnswer(r)
        BY <3>3 DEF StoreAnswer
    <3> QED
        BY <1>6, <3>1, <3>2, <3>3 DEF Speaks
  <2>2. holder[c] = r
      BY <1>a, <2>1 DEF Turn, Holds, Outside
  <2>3. CASE Done(o) /\ role = "user"
    <3>1. \A i \in DOMAIN messages[c] : messages[c][i].of # r
        BY <1>a, <2>1, <2>3 DEF Turn, Silent, BeforeSpeaking
    <3> QED
        BY <2>1, <2>2, <2>3, <3>1
        DEF Turns!Say, Turns!Question, Store, Written, Conversation
  <2>4. CASE Done(o) /\ role # "user"
    <3>1. Present(r) /\ seen[r] \in Nat
        BY <1>a, <2>4, OutcomeFacts DEF TypeOK
    <3>2. Len(messages[c]) = seen[r] + 1 /\ messages[c][seen[r] + 1] = Written(r, "user")
        BY <1>a, <2>1, <2>4, <3>1 DEF Turn, Current, AfterQuestion
    <3>3. messages[c] # <<>> /\ messages[c][Len(messages[c])] = Written(r, "user")
        BY <3>1, <3>2
    <3> QED
        BY <2>1, <2>2, <2>4, <3>3
        DEF Turns!Reply, Turns!Question, Store, Written, Conversation
  <2> QED
      BY <2>1, <2>3, <2>4
<1>7. ASSUME NEW r \in Requests, Drifts(r)
      PROVE  UNCHANGED <<holder, messages>>
    BY <1>7 DEF Drifts
<1> QED
    BY <1>a, <1>1, <1>2, <1>3, <1>4, <1>5, <1>6, <1>7, Course DEF Moves, Turns!Next

(***************************************************************************)
(* Chat runs implement TurnLog: a conversation is a sequence of turns.     *)
(***************************************************************************)
THEOREM SerialTurns == "lock" \notin Faults /\ Spec => TurnsAreSerial
<1> SUFFICES ASSUME "lock" \notin Faults
             PROVE  Spec => TurnsAreSerial
    OBVIOUS
<1>1. Init => Turns!Init
    BY DEF Init, Turns!Init
<1>2. LInv /\ [Next]_vars => [Turns!Next]_(Turns!logVars)
    BY TurnMaps
<1>3. Spec => []LInv
    BY TurnInvariance
<1> QED
    BY <1>1, <1>2, <1>3, PTL DEF Spec, TurnsAreSerial, Turns!Spec
=============================================================================
