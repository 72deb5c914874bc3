------------------------- MODULE ConversationContext -------------------------
(***************************************************************************)
(* What the model is shown of a long conversation: the summary of its      *)
(* older messages and a window of the latest ones; and the background      *)
(* updates that move the border between the two.                           *)
(*                                                                         *)
(* A message is its sequence number, which is drawn from one sequence for  *)
(* all conversations, so that numbers are skipped; the content of a        *)
(* summary is the set of messages that were given to the summarizer for    *)
(* it.  Turns of the conversation are serial (ChatRun); updates are queued *)
(* jobs that any worker may run, also while another still does, until one  *)
(* of them settles the job (AtLeastOnce).                                  *)
(***************************************************************************)
EXTENDS Naturals, FiniteSets, FiniteSetsExt

CONSTANTS
    Store,              \* "sqlite" or "postgres"
    Workers,            \* summary workers
    TriggerMessages, KeepRecent,
    Window,             \* messages of a turn's history, at least (40)
    maxSummaryBatchMessages,
    MaxAttempts,
    MaxSequence,        \* bound: the last sequence number
    MaxFaults           \* bound: failed calls and crashes

(* The limits that NewService enforces on its options.                     *)
NewService ==
    /\ TriggerMessages >= 4
    /\ KeepRecent >= 2 /\ KeepRecent < TriggerMessages

ASSUME ContextAssumption ==
    /\ Store \in {"sqlite", "postgres"}
    /\ TriggerMessages \in Nat /\ KeepRecent \in Nat /\ NewService
    /\ Window \in Nat /\ maxSummaryBatchMessages \in Nat
    /\ maxSummaryBatchMessages >= TriggerMessages
    /\ MaxAttempts \in Nat \ {0} /\ MaxSequence \in Nat /\ MaxFaults \in Nat

VARIABLES
    messages,   \* the messages of the conversation
    last,       \* the last sequence number that was drawn
    deleted,    \* the conversation is gone
    summary,    \* its row in conversation_summaries; none if through is 0
    job,        \* the summary job of the turn that ended with this message
    worker,     \* the update each worker is at
    turn,       \* the turn under way
    faults,
    overlapped  \* history: two updates were under way at once

vars == <<messages, last, deleted, summary, job, worker, turn, faults, overlapped>>

Sequences == 1..MaxSequence

NoSummary == [content |-> {}, through |-> 0, count |-> 0]

NoJob == [status |-> "none", attempts |-> 0]

NoUpdate == [at |-> "idle", latest |-> 0, current |-> NoSummary, batch |-> {}]

NoTurn == [at |-> "idle", window |-> {}, summary |-> NoSummary]

Summary == [content : SUBSET Sequences, through : 0..MaxSequence,
            count : 0..MaxSequence]

TypeOK ==
    /\ messages \subseteq 1..last /\ last \in 0..MaxSequence
    /\ deleted \in BOOLEAN
    /\ summary \in Summary
    /\ \A j \in Sequences : job[j].attempts <= MaxAttempts
    /\ \A w \in Workers : worker[w].at = "idle" <=> worker[w] = NoUpdate
    /\ turn.window \subseteq messages \/ deleted
    /\ faults \in 0..MaxFaults

Init ==
    /\ messages = {} /\ last = 0 /\ deleted = FALSE
    /\ summary = NoSummary
    /\ job = [j \in Sequences |-> NoJob]
    /\ worker = [w \in Workers |-> NoUpdate]
    /\ turn = NoTurn
    /\ faults = 0
    /\ overlapped = FALSE

Fault == faults < MaxFaults /\ faults' = faults + 1

------------------------------------------------------------------------------
(* The stores.                                                             *)

(* The n greatest, or least, of a set of messages.                         *)
Newest(n, set) == {m \in set : Cardinality({k \in set : k > m}) < n}
Oldest(n, set) == {m \in set : Cardinality({k \in set : k < m}) < n}

HistoryLimit == Max({Window, TriggerMessages})

ListMessages == Newest(HistoryLimit, messages)

\* Mutant: every message up to latest, whatever is summarized already.
ListMessagesForSummary_All(after, latest) ==
    Oldest(maxSummaryBatchMessages, {m \in messages : m <= latest})

(* The oldest messages in (after, latest].                                 *)
ListMessagesForSummary(after, latest) ==
    Oldest(maxSummaryBatchMessages, {m \in messages : m > after /\ m <= latest})

(* On PostgreSQL the query names updated_at, a column of both tables that  *)
(* it joins, without a qualifier: the server refuses it every time.        *)
GetConversationSummary == Store = "sqlite"

(* The message takes the next number, or a later one if other              *)
(* conversations have drawn some.                                          *)
AddMessage ==
    \E sequence \in last + 1 .. last + 2 :
        /\ sequence <= MaxSequence
        /\ last' = sequence
        /\ messages' = messages \cup {sequence}

------------------------------------------------------------------------------
(* A turn of the conversation.                                             *)

(* The history is listed, and the user's message is saved.                 *)
BeginTurn ==
    /\ turn.at = "idle" /\ ~deleted
    /\ turn' = [turn EXCEPT !.at = "begun", !.window = ListMessages]
    /\ AddMessage
    /\ UNCHANGED <<deleted, summary, job, worker, faults, overlapped>>

(* A summary that cannot be loaded leaves the turn with its window.        *)
LoadSummary ==
    /\ turn.at = "begun"
    /\ \/ /\ turn' = [turn EXCEPT !.at = "shown",
                       !.summary = IF GetConversationSummary THEN summary ELSE @]
          /\ UNCHANGED faults
       \/ /\ Fault
          /\ turn' = [turn EXCEPT !.at = "shown"]
    /\ UNCHANGED <<messages, last, deleted, summary, job, worker, overlapped>>

(* Of the history, the model is shown what came after the summary.         *)
messagesAfterSequence == {m \in turn.window : m > turn.summary.through}

Shown == turn.summary.content \cup messagesAfterSequence

(* The answer is saved and its summary job queued, if the queue accepts.   *)
Answer ==
    /\ turn.at = "shown" /\ ~deleted
    /\ AddMessage
    /\ \/ /\ job' = [job EXCEPT ![last'].status = "queued"]
          /\ UNCHANGED faults
       \/ Fault /\ UNCHANGED job
    /\ turn' = NoTurn
    /\ UNCHANGED <<deleted, summary, worker, overlapped>>

(* The run fails before an answer is saved.                                *)
GiveUp ==
    /\ turn.at # "idle"
    /\ deleted \/ last = MaxSequence
    /\ turn' = NoTurn
    /\ UNCHANGED <<messages, last, deleted, summary, job, worker, faults, overlapped>>

DeleteConversation ==
    /\ ~deleted
    /\ deleted' = TRUE
    /\ messages' = {}
    /\ summary' = NoSummary
    /\ job' = [j \in Sequences |-> NoJob]
    /\ UNCHANGED <<last, worker, turn, faults, overlapped>>

------------------------------------------------------------------------------
(* Update.                                                                 *)

Settles(w, status) ==
    LET j == worker[w].latest IN
    /\ job' = IF job[j].status = "queued" THEN [job EXCEPT ![j].status = status] ELSE job
    /\ worker' = [worker EXCEPT ![w] = NoUpdate]

(* The attempt ends in an error: the job waits for its next attempt.       *)
AttemptFails(w) ==
    LET j == worker[w].latest IN
    Settles(w, IF job[j].attempts < MaxAttempts THEN "queued" ELSE "failed")

(* A worker claims a job and reads the summary there is.                   *)
BeginUpdate(w, j) ==
    /\ worker[w] = NoUpdate
    /\ job[j].status = "queued" /\ job[j].attempts < MaxAttempts
    /\ IF GetConversationSummary
       THEN /\ job' = [job EXCEPT ![j].attempts = @ + 1]
            /\ worker' = [worker EXCEPT ![w] =
                 [at |-> "read", latest |-> j, current |-> summary, batch |-> {}]]
       ELSE /\ job' = [job EXCEPT ![j] =
                 [status |-> IF @.attempts + 1 < MaxAttempts THEN "queued" ELSE "failed",
                  attempts |-> @.attempts + 1]]
            /\ UNCHANGED worker
    /\ overlapped' = (overlapped \/ \E v \in Workers : worker[v] # NoUpdate)
    /\ UNCHANGED <<messages, last, deleted, summary, turn, faults>>

(* Too few messages are left to themselves; of enough, all but the most    *)
(* recent ones go to the summarizer.                                       *)
SelectBatch(w) ==
    LET batch == ListMessagesForSummary(worker[w].current.through, worker[w].latest)
    IN  /\ worker[w].at = "read"
        /\ IF Cardinality(batch) < TriggerMessages
           THEN Settles(w, "completed")
           ELSE /\ worker' = [worker EXCEPT
                     ![w].at = "summarizing",
                     ![w].batch = Oldest(Cardinality(batch) - KeepRecent, batch)]
                /\ UNCHANGED job
        /\ UNCHANGED <<messages, last, deleted, summary, turn, faults, overlapped>>

\* Mutant: the messages kept as they are count as summarized.
Updated_Latest(w) ==
    [content |-> worker[w].current.content \cup worker[w].batch,
     through |-> worker[w].latest,
     count   |-> worker[w].current.count + Cardinality(worker[w].batch)]

Updated(w) ==
    [content |-> worker[w].current.content \cup worker[w].batch,
     through |-> Max(worker[w].batch),
     count   |-> worker[w].current.count + Cardinality(worker[w].batch)]

(* The summary replaces whatever row there is by now.  That of a deleted   *)
(* conversation is refused by SQLite's foreign key; PostgreSQL inserts     *)
(* nothing.                                                                *)
UpsertConversationSummary(w) ==
    /\ worker[w].at = "summarizing"
    /\ IF deleted THEN summary' = summary ELSE summary' = Updated(w)
    /\ IF deleted /\ Store = "sqlite" THEN AttemptFails(w)
                                      ELSE Settles(w, "completed")
    /\ UNCHANGED <<messages, last, deleted, turn, faults, overlapped>>

(* The summarizer or the store fails, the summarizer returns nothing, too  *)
(* much or something that looks like a credential, or the process exits.   *)
UpdateFails(w) ==
    /\ worker[w].at # "idle"
    /\ Fault
    /\ AttemptFails(w)
    /\ UNCHANGED <<messages, last, deleted, summary, turn, overlapped>>

------------------------------------------------------------------------------
Update(w) ==
    \/ \E j \in Sequences : BeginUpdate(w, j)
    \/ SelectBatch(w) \/ UpsertConversationSummary(w)

Next ==
    \/ BeginTurn \/ LoadSummary \/ Answer \/ GiveUp \/ DeleteConversation
    \/ \E w \in Workers : Update(w) \/ UpdateFails(w)

Spec == Init /\ [][Next]_vars

------------------------------------------------------------------------------
(* Properties.                                                             *)

(* However updates overlap, are repeated or are overtaken: the summary is  *)
(* made of exactly the messages up to its border, each counted once        *)
(* (summary/types.go:14, service.go:63-97).                                *)
SummaryIsFaithful ==
    /\ summary.content = {m \in messages : m <= summary.through}
    /\ summary.count = Cardinality(summary.content)

(* The model is shown every earlier message, in the summary or as it is,   *)
(* unless more messages follow the summary than the window takes           *)
(* (service.go:52, chat/service.go:391-396).                               *)
NothingForgotten ==
    turn.at = "shown" /\ ~deleted
        => LET earlier == messages \ {last}
               beyond  == {m \in earlier : m > turn.summary.through}
           IN  Cardinality(beyond) <= HistoryLimit => earlier \subseteq Shown

(* Jobs may run in any order and more than once: as long as their updates  *)
(* do not overlap, the border never moves back, and no message is          *)
(* summarized again.                                                       *)
BorderAdvances ==
    [][~overlapped /\ ~deleted' => summary'.through >= summary.through]_vars

(* postgres_integration_test.go:53 reads the summary that was saved: an    *)
(* update is not turned down as long as nothing fails.                     *)
UpdatesSucceed ==
    faults = 0 => \A j \in Sequences : job[j].status # "failed"

=============================================================================
