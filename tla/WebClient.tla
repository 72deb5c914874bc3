----------------------------- MODULE WebClient -----------------------------
(***************************************************************************)
(* The single-page client of src/internal/httpapi/web/app.js.  The page    *)
(* runs one event handler at a time; a handler that awaits a request lets  *)
(* others run, and answers arrive in any order.  A task is an invocation   *)
(* of an async function that has not returned; its pc says what it awaits. *)
(***************************************************************************)
EXTENDS FiniteSets, Naturals

CONSTANTS
    Conversation,     \* every conversation there ever is
    Initial,          \* those that exist when the page is opened
    NoConversation,   \* null
    Task,             \* bounds the invocations that are under way at once
    NoTask,
    MaxTurns          \* bounds the messages that are sent

ASSUME WebAssumption ==
    /\ Initial \subseteq Conversation
    /\ NoConversation \notin Conversation
    /\ NoTask \notin Task
    /\ MaxTurns \in Nat

VARIABLES
    exists,      \* conversations the server has
    made,        \* those it ever had: an identifier is never used again
    list,        \* state.conversations
    active,      \* state.activeID
    renaming,    \* state.renamingConversationID
    busy,        \* state.busy
    draft,       \* the task whose answer state.draft is
    controller,  \* the task state.controller would abort
    task,        \* the invocations under way
    turns,       \* messages sent so far
    overtaken    \* a message that waited for its conversation to be created was
                 \* sent while another one was being answered

page == <<list, active, renaming, busy, draft, controller>>
pagevars == <<exists, made, list, active, renaming, busy, draft, controller, task, turns, overtaken>>

Idle == [pc |-> "idle", conv |-> NoConversation, then |-> "return", rows |-> {}]

Awaits(t, pc, conv, then) ==
    task' = [task EXCEPT ![t] = [pc |-> pc, conv |-> conv, then |-> then,
                                rows |-> IF pc = "list" THEN exists ELSE {}]]

Return(t) == task' = [task EXCEPT ![t] = Idle]

(***************************************************************************)
(* initialize has shown the most recent conversation, if there is one.     *)
(***************************************************************************)
PageInit ==
    /\ exists = Initial /\ made = Initial
    /\ list = Initial
    /\ active \in IF Initial = {} THEN {NoConversation} ELSE Initial
    /\ renaming = NoConversation
    /\ busy = FALSE
    /\ draft = NoTask /\ controller = NoTask
    /\ task = [t \in Task |-> Idle]
    /\ turns = 0
    /\ overtaken = FALSE

-----------------------------------------------------------------------------
(* Sending a message *)

(***************************************************************************)
(* The synchronous part of sendMessage behind its awaits, up to the        *)
(* request for the CSRF token; conv records the conversation on the screen *)
(* at that moment.  busy is not read again here.                           *)
(***************************************************************************)
BeginTurn(t, id) ==
    /\ busy' = TRUE
    /\ draft' = t
    /\ controller' = t
    /\ turns' = turns + 1
    /\ Awaits(t, "token", id, "return")

(***************************************************************************)
(* What a function does once the one it awaited has returned, with id the  *)
(* conversation then active: sendMessage begins its turn,                  *)
(* startConversationRename opens the form, the others are done.            *)
(***************************************************************************)
Resume(t, then, id) ==
    CASE then = "send" /\ id # NoConversation ->
            BeginTurn(t, id) /\ overtaken' = (overtaken \/ busy) /\ UNCHANGED renaming
      [] then = "rename" /\ id \in list ->
            /\ renaming' = id
            /\ Return(t)
            /\ UNCHANGED <<busy, draft, controller, turns, overtaken>>
      [] OTHER ->
            Return(t) /\ UNCHANGED <<renaming, busy, draft, controller, turns, overtaken>>

Free(t) == task[t].pc = "idle"

\* Mutant: a submission during an answer is taken for another message.
MaySubmit_Always == TRUE
MaySubmit == ~busy

Submit(t) ==
    /\ Free(t) /\ MaySubmit
    /\ turns < MaxTurns
    /\ IF active # NoConversation
       THEN BeginTurn(t, active) /\ UNCHANGED overtaken
       ELSE /\ Awaits(t, "create", NoConversation, "send")
            /\ UNCHANGED <<busy, draft, controller, turns, overtaken>>
    /\ UNCHANGED <<exists, made, list, active, renaming>>

(***************************************************************************)
(* The token is there: the POST goes to the conversation that is active    *)
(* now.  One that no longer exists is answered with an error.              *)
(***************************************************************************)
Post(t) ==
    /\ task[t].pc = "token"
    /\ task' = [task EXCEPT ![t].pc = "stream", ![t].then = active]
    /\ UNCHANGED <<exists, made, list, active, renaming, busy, draft, controller,
                   turns, overtaken>>

(***************************************************************************)
(* The finally block, after the answer, an error or an abort; then the     *)
(* list is fetched.                                                        *)
(***************************************************************************)
\* Mutant: a response that is an error returns before the cleanup.
EndTurn_ErrorReturns(t) ==
    /\ task[t].pc \in {"token", "stream"}
    /\ IF task[t].then = NoConversation
       THEN UNCHANGED <<busy, draft, controller>>
       ELSE busy' = FALSE /\ draft' = NoTask /\ controller' = NoTask
    /\ Awaits(t, "list", NoConversation, "return")
    /\ UNCHANGED <<exists, made, list, active, renaming, turns, overtaken>>

EndTurn(t) ==
    /\ task[t].pc \in {"token", "stream"}
    /\ busy' = FALSE /\ draft' = NoTask /\ controller' = NoTask
    /\ Awaits(t, "list", NoConversation, "return")
    /\ UNCHANGED <<exists, made, list, active, renaming, turns, overtaken>>

(***************************************************************************)
(* The answer holds the rows of the moment the server read them.           *)
(***************************************************************************)
ListAnswered(t) ==
    /\ task[t].pc = "list"
    /\ list' = exists \/ list' = task[t].rows \/ UNCHANGED list
    /\ Return(t)
    /\ UNCHANGED <<exists, made, active, renaming, busy, draft, controller, turns, overtaken>>

-----------------------------------------------------------------------------
(* Conversations *)

CancelRename == renaming' = NoConversation

(***************************************************************************)
(* selectConversation(id) called by t, which goes on with then.            *)
(***************************************************************************)
\* Mutant: the page may be switched while an answer arrives.
MaySelect_WhileBusy(id) == id # active
MaySelect(id) == ~busy /\ id # active

Select(t, id, then) ==
    IF MaySelect(id)
    THEN /\ active' = id
         /\ CancelRename
         /\ Awaits(t, "load", id, then)
         /\ UNCHANGED <<busy, draft, controller, turns, overtaken>>
    ELSE UNCHANGED active /\ Resume(t, then, active)

SelectConversation(t, id) ==
    /\ Free(t) /\ id \in list /\ MaySelect(id)
    /\ Select(t, id, "return")
    /\ UNCHANGED <<exists, made, list>>

\* startConversationRename, from the menu of any conversation.
StartRename(t, id) ==
    /\ Free(t) /\ ~busy /\ id \in list
    /\ Select(t, id, "rename")
    /\ UNCHANGED <<exists, made, list>>

(***************************************************************************)
(* The messages arrive, or the request fails; the caller goes on with the  *)
(* conversation that is active by now.                                     *)
(***************************************************************************)
Loaded(t) ==
    /\ task[t].pc = "load"
    /\ Resume(t, task[t].then, active)
    /\ UNCHANGED <<exists, made, list, active>>

CreateConversation(t) ==
    /\ Free(t) /\ ~busy
    /\ Awaits(t, "create", NoConversation, "return")
    /\ UNCHANGED <<exists, made, list, active, renaming, busy, draft, controller,
                   turns, overtaken>>

Created(t) ==
    /\ task[t].pc = "create"
    /\ \/ \E c \in Conversation \ made :
             /\ exists' = exists \cup {c}
             /\ made' = made \cup {c}
             /\ list' = list \cup {c}
             /\ Select(t, c, task[t].then)
       \/ /\ Resume(t, task[t].then, active)
          /\ UNCHANGED <<exists, made, list, active>>

DeleteConversation(t, id) ==
    /\ Free(t) /\ ~busy /\ id \in list
    /\ Awaits(t, "delete", id, "return")
    /\ UNCHANGED <<exists, made, list, active, renaming, busy, draft, controller,
                   turns, overtaken>>

(***************************************************************************)
(* The conversation is gone.  If it was the active one the page moves to   *)
(* the next, unless a message is being answered meanwhile: then            *)
(* selectConversation refuses and no conversation is active.               *)
(***************************************************************************)
Deleted(t) ==
    LET id == task[t].conv
        rest == list \ {id}
    IN /\ task[t].pc = "delete"
       /\ exists' = exists \ {id}
       /\ list' = rest
       /\ IF active # id
          THEN Return(t) /\ UNCHANGED <<active, renaming>>
          ELSE IF rest # {} /\ ~busy
               THEN \E next \in rest :
                       /\ active' = next
                       /\ CancelRename
                       /\ Awaits(t, "load", next, "return")
               ELSE /\ active' = NoConversation
                    /\ Return(t)
                    /\ UNCHANGED renaming
       /\ UNCHANGED <<made, busy, draft, controller, turns, overtaken>>

DeleteFails(t) ==
    /\ task[t].pc = "delete"
    /\ Return(t)
    /\ UNCHANGED <<exists, made, page, turns, overtaken>>

-----------------------------------------------------------------------------
Answered(t) == EndTurn(t) \/ Post(t) \/ ListAnswered(t) \/ Loaded(t) \/ Created(t)

PageNext == \E t \in Task :
            \/ Submit(t) \/ CreateConversation(t) \/ Answered(t)
            \/ Deleted(t) \/ DeleteFails(t)
            \/ \E id \in Conversation :
                  SelectConversation(t, id) \/ StartRename(t, id) \/ DeleteConversation(t, id)

PageSpec == PageInit /\ [][PageNext]_pagevars

(***************************************************************************)
(* The server ends every stream (a run has a deadline) and the browser     *)
(* every request.                                                          *)
(***************************************************************************)
FairPageSpec == PageSpec /\ \A t \in Task : WF_pagevars(EndTurn(t))

-----------------------------------------------------------------------------
InTurn(t) == task[t].pc \in {"token", "stream"}

(***************************************************************************)
(* A message goes to the conversation that was on the screen when its turn *)
(* began, or, if that one is deleted meanwhile, to none; selections,       *)
(* creations and deletions that are still under way never redirect it.     *)
(* With a conversation on the screen a turn begins as it is submitted;     *)
(* without one it begins after the creation and the loading of one, and    *)
(* what is selected until then is where the message goes.  The property    *)
(* fails once a message has overtaken another.                             *)
(***************************************************************************)
SentWhereTyped ==
    ~overtaken =>
        \A t \in Task : task[t].pc = "stream" => task[t].then \in {task[t].conv, NoConversation}

(***************************************************************************)
(* While a turn is under way the button is a stop button, and it aborts    *)
(* that turn: no answer streams that the user cannot stop.  The exception  *)
(* is a message that overtook another, which two submissions before the    *)
(* first conversation exists can do.                                       *)
(***************************************************************************)
TurnIsStoppable ==
    ~overtaken => \A t \in Task : InTurn(t) => busy /\ controller = t /\ draft = t

(***************************************************************************)
(* The page never stays busy: whatever was sent, deleted or aborted, the   *)
(* composer accepts messages again.                                        *)
(***************************************************************************)
BusyEnds == busy ~> ~busy
=============================================================================
