------------------------------- MODULE TurnLog -------------------------------
(***************************************************************************)
(* What a conversation promises to whoever reads it: it is a sequence of   *)
(* turns.  A request takes the floor, says its question once, may give one *)
(* reply directly below it, and leaves; a request without the floor writes *)
(* nothing.  The conversation may be erased at any time.                   *)
(* ChatRun implements this as long as the conversation lock is never lost. *)
(***************************************************************************)
EXTENDS Sequences, Naturals

CONSTANTS Conversations, Requests, ConversationOf, Nobody

VARIABLES
  log,     \* log[c]: the visible messages of conversation c, oldest first
  floor    \* floor[c]: the request that may write to c, or Nobody

logVars == <<log, floor>>

Message == [role : {"user", "answer", "notice"}, of : Requests]

Question(r) == [role |-> "user", of |-> r]

Init == log = [c \in Conversations |-> <<>>] /\ floor = [c \in Conversations |-> Nobody]

Take(r) ==
  /\ floor[ConversationOf[r]] = Nobody
  /\ floor' = [floor EXCEPT ![ConversationOf[r]] = r]
  /\ UNCHANGED log

Leave(r) ==
  /\ floor[ConversationOf[r]] = r
  /\ floor' = [floor EXCEPT ![ConversationOf[r]] = Nobody]
  /\ UNCHANGED log

Say(r) ==
  LET c == ConversationOf[r]
  IN  /\ floor[c] = r
      /\ \A i \in DOMAIN log[c] : log[c][i].of # r
      /\ log' = [log EXCEPT ![c] = Append(@, Question(r))]
      /\ UNCHANGED floor

Reply(r) ==
  LET c == ConversationOf[r]
  IN  /\ floor[c] = r
      /\ log[c] # <<>> /\ log[c][Len(log[c])] = Question(r)
      /\ \E role \in {"answer", "notice"} :
           log' = [log EXCEPT ![c] = Append(@, [role |-> role, of |-> r])]
      /\ UNCHANGED floor

Erase(c) == log' = [log EXCEPT ![c] = <<>>] /\ UNCHANGED floor

Next ==
  \/ \E r \in Requests : Take(r) \/ Leave(r) \/ Say(r) \/ Reply(r)
  \/ \E c \in Conversations : Erase(c)

Spec == Init /\ [][Next]_logVars
=============================================================================
