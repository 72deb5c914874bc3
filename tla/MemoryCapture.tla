---------------------------- MODULE MemoryCapture ----------------------------
(***************************************************************************)
(* Long-term memory: the outbox of capture jobs, the workers that turn a   *)
(* finished chat turn into memories, the user's own edits of memories, and *)
(* the vector index derived from both.                                     *)
(*                                                                         *)
(* Two workers are two replicas of the server over one PostgreSQL: within  *)
(* a replica the worker's loop runs one job at a time, so that the mutex   *)
(* of Service.Capture never has a second taker.  A turn is one chat run of *)
(* a conversation of its own.  The content of a memory is a value; its     *)
(* expiry is folded into the content, and importance is a small number.    *)
(***************************************************************************)
EXTENDS Naturals, Sequences, FiniteSets, FiniteSetsExt, Functions

CONSTANTS
    Turns,          \* chat runs; run_id names a job and its two messages
    Workers,        \* capture workers, one per replica
    Kinds,          \* semantic, episodic
    Keys,           \* memory_key values the extractor produces
    NoKey,          \* the empty memory_key of a memory the user wrote
    Contents,       \* what extracted memories say
    Sensitive,      \* contents that carry a credential's label
    UserText,       \* what the user writes
    Candidates,     \* Candidates[t]: what the extractor returns for t, in order
    MaxAttempts,    \* max_attempts of a job
    MaxMemories,    \* bound: memory ids ever handed out
    MaxFaults,      \* bound: failed calls, suspended replicas and crashes
    MaxRequests,    \* bound: requests of the user, captures' turns apart
    BatchSize       \* page of a reindex

None == "none"

Candidate == [kind : Kinds, key : Keys, content : Contents, importance : 0..10]

ASSUME MemoryAssumption ==
    /\ MaxAttempts \in Nat \ {0}
    /\ BatchSize \in Nat \ {0}
    /\ MaxMemories \in Nat
    /\ MaxFaults \in Nat /\ MaxRequests \in Nat
    /\ NoKey \notin Keys
    /\ UserText \notin Contents /\ Sensitive \subseteq Contents
    /\ \A c \in Contents \cup {UserText} : c # None
    /\ Candidates \in [Turns -> Seq(Candidate)]

VARIABLES
    job,        \* memory_capture_jobs, by run_id
    memory,     \* memories: the rows ever created, by id
    vector,     \* memory_embeddings: the content a memory's vector was made of
    indexed,    \* message_embeddings: turns whose two messages have vectors
    worker,     \* what each worker is doing
    edit,       \* the user's PUT that is under way, if there is one
    reindex,    \* the reindex request that is under way
    spent,      \* faults suffered and requests made, against their bounds
    settled     \* history: slots of a turn that were stored or rightly skipped

vars == <<job, memory, vector, indexed, worker, edit, reindex, spent, settled>>

Ids == 1..MaxMemories

Slot(item) == <<item.kind, item.key>>

Row == [live : BOOLEAN, kind : Kinds, key : Keys \cup {NoKey},
        content : Contents \cup {UserText}, importance : 0..10,
        edited : BOOLEAN, source : Turns \cup {None}]

JobStatus == {"none", "pending", "executing", "completed", "failed", "deleted"}

Stations == {"idle", "indexing", "planning", "vectorizing", "writing",
             "done", "failing"}

Idle == [at |-> "idle", turn |-> None, next |-> 1, plan |-> <<>>]

TypeOK ==
    /\ job \in [Turns -> [status : JobStatus, attempt : 0..MaxAttempts,
                          due : BOOLEAN, leased : BOOLEAN,
                          owner : Workers \cup {None}]]
    /\ memory \in Seq(Row) /\ Len(memory) <= MaxMemories
    /\ vector \in [Ids -> Contents \cup {UserText, None}]
    /\ indexed \subseteq Turns
    /\ \A w \in Workers :
          /\ worker[w].at \in Stations
          /\ worker[w].turn \in Turns \cup {None}
          /\ worker[w].next \in Nat \ {0}
          /\ worker[w].plan \in Seq([id : Ids \cup {0}, row : Row])
    /\ edit \in Seq([id : Ids, row : Row]) /\ Len(edit) <= 1
    /\ reindex.at \in {"none", "messages", "memories", "upserting"}
    /\ reindex.after \in Ids \cup {0}
    /\ DOMAIN reindex.page \subseteq Ids
    /\ \A i \in DOMAIN reindex.page : reindex.page[i] \in Contents \cup {UserText}
    /\ spent \in [faults : 0..MaxFaults, requests : 0..MaxRequests]
    /\ settled \in [Turns -> SUBSET (Kinds \X Keys)]

Init ==
    /\ job = [t \in Turns |-> [status |-> "none", attempt |-> 0, due |-> FALSE,
                               leased |-> FALSE, owner |-> None]]
    /\ memory = <<>>
    /\ vector = [i \in Ids |-> None]
    /\ indexed = {}
    /\ worker = [w \in Workers |-> Idle]
    /\ edit = <<>>
    /\ reindex = [at |-> "none", after |-> 0, page |-> <<>>]
    /\ spent = [faults |-> 0, requests |-> 0]
    /\ settled = [t \in Turns |-> {}]

------------------------------------------------------------------------------
(* The store.                                                              *)

Live == {i \in DOMAIN memory : memory[i].live}

(* GetMemoryByKey: the rows of a slot; the unique index keeps it to one.   *)
InSlot(slot) == {i \in Live : Slot(memory[i]) = slot}

(* The unique index over keyed rows refuses a second row in a slot.        *)
SlotFree(row, id) == row.key # NoKey => InSlot(Slot(row)) \subseteq {id}

(* source_conversation_id references a conversation that still exists.     *)
SourceExists(row) ==
    row.source \notin {t \in Turns : job[t].status = "deleted"}

CanCreate(row) == /\ Len(memory) < MaxMemories
                  /\ SlotFree(row, 0)
                  /\ SourceExists(row)

CanUpdate(id, row) == /\ id \in Live
                      /\ SlotFree(row, id)
                      /\ SourceExists(row)

(* The row and its vector are written by one transaction.                  *)
UpsertEmbedding(id, row) == vector' = [vector EXCEPT ![id] = row.content]

CreateMemory(row) == /\ memory' = Append(memory, row)
                     /\ UpsertEmbedding(Len(memory) + 1, row)

\* Mutant: an update leaves the vector to the next reindex.
UpdateMemory_NoVector(id, row) ==
    memory' = [memory EXCEPT ![id] = row] /\ UNCHANGED vector

UpdateMemory(id, row) == /\ memory' = [memory EXCEPT ![id] = row]
                         /\ UpsertEmbedding(id, row)

(* Message vectors belong to conversations that still exist.               *)
MessagesExist(t) == job[t].status \notin {"none", "deleted"}

UpsertMessageEmbeddings(turns) == indexed' = indexed \cup turns

Fault == /\ spent.faults < MaxFaults
         /\ spent' = [spent EXCEPT !.faults = @ + 1]

Request == /\ spent.requests < MaxRequests
           /\ spent' = [spent EXCEPT !.requests = @ + 1]

------------------------------------------------------------------------------
(* The outbox.                                                             *)

(* The assistant's message and its job are saved by one transaction; a     *)
(* second enqueue of a run returns the first one's job and saves nothing.  *)
Enqueued(t) == job[t].status # "none"

EnqueueCaptureJob(t) ==
    /\ ~Enqueued(t)
    /\ job' = [job EXCEPT ![t].status = "pending", ![t].due = TRUE]
    /\ UNCHANGED <<memory, vector, indexed, worker, edit, reindex, spent, settled>>

Exhausted(t) == /\ job[t].status = "executing"
                /\ ~job[t].leased
                /\ job[t].attempt >= MaxAttempts

Swept == [t \in Turns |->
            IF Exhausted(t)
            THEN [job[t] EXCEPT !.status = "failed", !.owner = None]
            ELSE job[t]]

\* Mutant: expired leases are not taken over.
Claimable_PendingOnly(t) == job[t].status = "pending" /\ job[t].due

Claimable(t) == \/ job[t].status = "pending" /\ job[t].due
                \/ /\ job[t].status = "executing"
                   /\ ~job[t].leased
                   /\ job[t].attempt < MaxAttempts

ClaimCaptureJob(w) ==
    /\ worker[w].at = "idle"
    /\ \/ /\ \E t \in Turns :
                /\ Claimable(t)
                /\ job' = [Swept EXCEPT ![t].status = "executing",
                              ![t].attempt = @ + 1,
                              ![t].leased = TRUE, ![t].owner = w]
                /\ worker' = [worker EXCEPT ![w] =
                                 [Idle EXCEPT !.at = "indexing", !.turn = t]]
       \/ /\ \E t \in Turns : Exhausted(t)
          /\ \A t \in Turns : ~Claimable(t)
          /\ job' = Swept
          /\ UNCHANGED worker
    /\ UNCHANGED <<memory, vector, indexed, edit, reindex, spent, settled>>

Goto(w, station) == worker' = [worker EXCEPT ![w].at = station]

(* A call of an attempt fails: the store, the embedder or the model        *)
(* returned an error, or the attempt's deadline or shutdown cut it short.  *)
AttemptFails(w) ==
    /\ worker[w].at \in {"indexing", "planning", "vectorizing", "writing"}
    /\ Fault
    /\ Goto(w, "failing")
    /\ UNCHANGED <<job, memory, vector, indexed, edit, reindex, settled>>

(* Both messages are read and their vectors written; a deleted             *)
(* conversation has no messages, and fails the attempt.                    *)
IndexMessages(w) ==
    LET t == worker[w].turn IN
    /\ worker[w].at = "indexing"
    /\ IF MessagesExist(t)
       THEN Goto(w, "planning") /\ UpsertMessageEmbeddings({t})
       ELSE Goto(w, "failing") /\ UNCHANGED indexed
    /\ UNCHANGED <<job, memory, vector, edit, reindex, spent, settled>>

(* ------ Capture: merging the candidates, one lookup at a time ---------- *)

ValidCandidate(c) == c.key # NoKey /\ c.content \notin Sensitive

Supersedes(c, row) == row.content # c.content \/ row.importance < c.importance

Merged(row, c, t) ==
    [row EXCEPT !.content = c.content,
                !.importance = IF @ > c.importance THEN @ ELSE c.importance,
                !.source = t]

NewMemory(c, t) ==
    [live |-> TRUE, kind |-> c.kind, key |-> c.key, content |-> c.content,
     importance |-> c.importance, edited |-> FALSE, source |-> t]

Settle(t, slot) == settled' = [settled EXCEPT ![t] = @ \cup {slot}]

(* The plan after candidate c of turn t, given what is stored in its slot. *)
PlanWith(plan, c, t) ==
    LET pending == {n \in DOMAIN plan : Slot(plan[n].row) = Slot(c)}
        stored  == InSlot(Slot(c))
    IN  IF ~ValidCandidate(c) THEN plan
        ELSE IF pending # {}
        THEN LET n == CHOOSE n \in pending : TRUE
             IN  IF Supersedes(c, plan[n].row)
                 THEN [plan EXCEPT ![n].row = Merged(@, c, t)]
                 ELSE plan
        ELSE IF stored = {} THEN Append(plan, [id |-> 0, row |-> NewMemory(c, t)])
        ELSE LET i == CHOOSE i \in stored : TRUE
             IN  IF memory[i].edited \/ ~Supersedes(c, memory[i])
                 THEN plan
                 ELSE Append(plan, [id |-> i, row |-> Merged(memory[i], c, t)])

PlanCandidate(w) ==
    LET t == worker[w].turn
        n == worker[w].next
    IN  /\ worker[w].at = "planning"
        /\ n <= Len(Candidates[t])
        /\ LET c    == Candidates[t][n]
               plan == PlanWith(worker[w].plan, c, t)
           IN  /\ worker' = [worker EXCEPT ![w].plan = plan, ![w].next = n + 1]
               /\ IF ~ValidCandidate(c)
                     \/ \E m \in DOMAIN plan : Slot(plan[m].row) = Slot(c)
                  THEN UNCHANGED settled
                  ELSE Settle(t, Slot(c))
        /\ UNCHANGED <<job, memory, vector, indexed, edit, reindex, spent>>

(* Extraction found nothing, or nothing is left to change: Capture is done. *)
PlanDone(w) ==
    /\ worker[w].at = "planning"
    /\ worker[w].next > Len(Candidates[worker[w].turn])
    /\ worker' = [worker EXCEPT ![w].next = 1, ![w].at =
                     IF worker[w].plan = <<>> THEN "done" ELSE "vectorizing"]
    /\ UNCHANGED <<job, memory, vector, indexed, edit, reindex, spent, settled>>

VectorizeMemories(w) ==
    /\ worker[w].at = "vectorizing"
    /\ Goto(w, "writing")
    /\ UNCHANGED <<job, memory, vector, indexed, edit, reindex, spent, settled>>

(* The planned changes are stored one transaction each, and the first one  *)
(* that is refused fails the attempt: what was stored before it stays.     *)
WriteChange(w) ==
    LET t == worker[w].turn
        n == worker[w].next
        change == worker[w].plan[n]
    IN  /\ worker[w].at = "writing"
        /\ \/ /\ change.id = 0 /\ CanCreate(change.row)
              /\ CreateMemory(change.row)
           \/ /\ change.id # 0 /\ CanUpdate(change.id, change.row)
              /\ UpdateMemory(change.id, change.row)
        /\ Settle(t, Slot(change.row))
        /\ worker' = [worker EXCEPT ![w].next = n + 1,
                         ![w].at = IF n = Len(worker[w].plan) THEN "done" ELSE @]
        /\ UNCHANGED <<job, indexed, edit, reindex, spent>>

\* Mutant: the rows written so far are good enough.
WriteRefused_Swallowed(w) ==
    /\ worker[w].at = "writing"
    /\ IF worker[w].plan[worker[w].next].id = 0
       THEN ~CanCreate(worker[w].plan[worker[w].next].row)
       ELSE ~CanUpdate(worker[w].plan[worker[w].next].id,
                       worker[w].plan[worker[w].next].row)
    /\ Goto(w, "done")
    /\ UNCHANGED <<job, memory, vector, indexed, edit, reindex, spent, settled>>

WriteRefused(w) ==
    LET change == worker[w].plan[worker[w].next] IN
    /\ worker[w].at = "writing"
    /\ IF change.id = 0 THEN ~CanCreate(change.row)
                        ELSE ~CanUpdate(change.id, change.row)
    /\ Goto(w, "failing")
    /\ UNCHANGED <<job, memory, vector, indexed, edit, reindex, spent, settled>>

(* ------ the end of an attempt ------------------------------------------ *)

Holds(w) == /\ job[worker[w].turn].status = "executing"
            /\ job[worker[w].turn].owner = w

Released(t, status) ==
    [job[t] EXCEPT !.status = status, !.owner = None, !.leased = FALSE]

(* An attempt that lost its lease changes nothing: the update is fenced.   *)
CompleteCaptureJob(w) ==
    LET t == worker[w].turn IN
    /\ worker[w].at = "done"
    /\ job' = IF Holds(w) THEN [job EXCEPT ![t] = Released(t, "completed")] ELSE job
    /\ worker' = [worker EXCEPT ![w] = Idle]
    /\ UNCHANGED <<memory, vector, indexed, edit, reindex, spent, settled>>

FailCaptureJob(w) ==
    LET t == worker[w].turn
        terminal == job[t].attempt >= MaxAttempts
    IN  /\ worker[w].at = "failing"
        /\ job' = IF ~Holds(w) THEN job
                  ELSE [job EXCEPT ![t] =
                          [Released(t, IF terminal THEN "failed" ELSE "pending")
                             EXCEPT !.due = FALSE]]
        /\ worker' = [worker EXCEPT ![w] = Idle]
        /\ UNCHANGED <<memory, vector, indexed, edit, reindex, spent, settled>>

(* The outcome cannot be saved, or the replica stops for good measure: the *)
(* job stays executing until its lease runs out.                           *)
AttemptLost(w) ==
    /\ worker[w].at # "idle"
    /\ Fault
    /\ worker' = [worker EXCEPT ![w] = Idle]
    /\ UNCHANGED <<job, memory, vector, indexed, edit, reindex, settled>>

------------------------------------------------------------------------------
(* The user.                                                               *)

UserRow(kind, key) ==
    [live |-> TRUE, kind |-> kind, key |-> key, content |-> UserText,
     importance |-> 5, edited |-> TRUE, source |-> None]

Create(kind) ==
    /\ Request
    /\ CanCreate(UserRow(kind, NoKey))
    /\ CreateMemory(UserRow(kind, NoKey))
    /\ UNCHANGED <<job, indexed, worker, edit, reindex, settled>>

(* PUT: the row is read, changed, vectorized, and written back whole.      *)
ReplaceRead(i, kind) ==
    /\ Request
    /\ edit = <<>> /\ i \in Live
    /\ edit' = <<[id |-> i, row |-> [memory[i] EXCEPT !.kind = kind,
                    !.content = UserText, !.edited = TRUE]]>>
    /\ UNCHANGED <<job, memory, vector, indexed, worker, reindex, settled>>

ReplaceWrite ==
    /\ edit # <<>>
    /\ IF CanUpdate(edit[1].id, edit[1].row)
       THEN UpdateMemory(edit[1].id, edit[1].row)
       ELSE UNCHANGED <<memory, vector>>
    /\ edit' = <<>>
    /\ UNCHANGED <<job, indexed, worker, reindex, spent, settled>>

(* The vector goes with the row.                                           *)
Delete(i) ==
    /\ Request
    /\ i \in Live
    /\ memory' = [memory EXCEPT ![i].live = FALSE]
    /\ vector' = [vector EXCEPT ![i] = None]
    /\ UNCHANGED <<job, indexed, worker, edit, reindex, settled>>

(* The job and the message vectors go with the conversation; memories      *)
(* taken from it stay, without their source.                               *)
DeleteConversation(t) ==
    /\ Request
    /\ job[t].status \notin {"none", "deleted"}
    /\ job' = [job EXCEPT ![t] = [Released(t, "deleted") EXCEPT !.due = FALSE]]
    /\ indexed' = indexed \ {t}
    /\ memory' = [i \in DOMAIN memory |->
                    IF memory[i].source = t
                    THEN [memory[i] EXCEPT !.source = None] ELSE memory[i]]
    /\ UNCHANGED <<vector, worker, edit, reindex, settled>>

------------------------------------------------------------------------------
(* Reindex: messages first, then memories page by page.                    *)

StartReindex ==
    /\ Request
    /\ reindex.at = "none"
    /\ reindex' = [at |-> "messages", after |-> 0, page |-> <<>>]
    /\ UNCHANGED <<job, memory, vector, indexed, worker, edit, settled>>

ReindexMessages ==
    /\ reindex.at = "messages"
    /\ UpsertMessageEmbeddings({t \in Turns : MessagesExist(t)})
    /\ reindex' = [reindex EXCEPT !.at = "memories"]
    /\ UNCHANGED <<job, memory, vector, worker, edit, spent, settled>>

(* The next page of rows by id, each with the content its vector is made of. *)
Page(after) ==
    [i \in {i \in Live : /\ i > after
                         /\ Cardinality({j \in Live : after < j /\ j < i}) < BatchSize}
       |-> memory[i].content]

ListMemories ==
    /\ reindex.at = "memories"
    /\ LET page == Page(reindex.after)
       IN  reindex' = IF DOMAIN page = {}
                      THEN [at |-> "none", after |-> 0, page |-> <<>>]
                      ELSE [at |-> "upserting", after |-> Max(DOMAIN page),
                            page |-> page]
    /\ UNCHANGED <<job, memory, vector, indexed, worker, edit, spent, settled>>

(* The page's vectors replace whatever is there; rows deleted since then   *)
(* are passed over.                                                        *)
UpsertMemoryEmbeddings ==
    /\ reindex.at = "upserting"
    /\ vector' = [i \in Ids |-> IF i \in Live /\ i \in DOMAIN reindex.page
                                THEN reindex.page[i] ELSE vector[i]]
    /\ reindex' = [reindex EXCEPT !.at = "memories", !.page = <<>>]
    /\ UNCHANGED <<job, memory, indexed, worker, edit, spent, settled>>

------------------------------------------------------------------------------
(* Time.                                                                   *)

BecomesDue(t) ==
    /\ job[t].status = "pending" /\ ~job[t].due
    /\ job' = [job EXCEPT ![t].due = TRUE]
    /\ UNCHANGED <<memory, vector, indexed, worker, edit, reindex, spent, settled>>

(* A live attempt ends before its lease, unless its replica was suspended. *)
LeaseExpires(t) ==
    /\ job[t].leased
    /\ IF \E w \in Workers : worker[w].turn = t /\ job[t].owner = w
       THEN Fault ELSE UNCHANGED spent
    /\ job' = [job EXCEPT ![t].leased = FALSE]
    /\ UNCHANGED <<memory, vector, indexed, worker, edit, reindex, settled>>

Work(w) ==
    \/ ClaimCaptureJob(w) \/ IndexMessages(w) \/ PlanCandidate(w) \/ PlanDone(w)
    \/ VectorizeMemories(w) \/ WriteChange(w) \/ WriteRefused(w)
    \/ CompleteCaptureJob(w) \/ FailCaptureJob(w)

Clock(t) == BecomesDue(t) \/ LeaseExpires(t)

User ==
    \/ \E kind \in Kinds : Create(kind)
    \/ \E i \in DOMAIN memory, kind \in Kinds : ReplaceRead(i, kind)
    \/ ReplaceWrite
    \/ \E i \in DOMAIN memory : Delete(i)
    \/ \E t \in Turns : EnqueueCaptureJob(t) \/ DeleteConversation(t)

Reindex == \/ StartReindex \/ ReindexMessages
           \/ ListMemories \/ UpsertMemoryEmbeddings

Next ==
    \/ User
    \/ Reindex
    \/ \E w \in Workers : Work(w) \/ AttemptFails(w) \/ AttemptLost(w)
    \/ \E t \in Turns : Clock(t)

Fairness == /\ \A w \in Workers : WF_vars(Work(w))
            /\ \A t \in Turns : WF_vars(Clock(t))

Spec == Init /\ [][Next]_vars /\ Fairness

------------------------------------------------------------------------------
(* Properties.                                                             *)

(* A completed job lost nothing: every fact its turn gave was stored, or   *)
(* found stored or user-edited, whatever attempts were cut short half-way  *)
(* through their writes or lost their lease (capture_worker.go:161).       *)
CompletedIsCaptured ==
    \A t \in Turns :
        job[t].status = "completed" =>
            /\ settled[t] = {Slot(c) : c \in {d \in Range(Candidates[t]) :
                                                   ValidCandidate(d)}}
            /\ t \in indexed

(* Only a reindex can part a memory from its vector: every other write     *)
(* leaves the vector of what it wrote (semantic/service.go:91).            *)
OnlyReindexLeavesStaleVectors ==
    [][\A i \in Live' :
          \/ vector'[i] = memory'[i].content
          \/ i \in Live /\ vector[i] # memory[i].content
          \/ reindex.at = "upserting"]_vars

(* No attempt is left to run for ever and no job is forgotten: a job that  *)
(* was enqueued completes, fails for good, or goes with its conversation.  *)
JobsSettle ==
    \A t \in Turns : (job[t].status = "pending") ~>
        (job[t].status \in {"completed", "failed", "deleted"})

(* technical-design.md:1183 says of a memory the user has edited that      *)
(* automatic merging must not overwrite it.                                *)
EditsSurvive ==
    [][\A i \in Live : memory[i].edited /\ i \in Live' => memory'[i].edited]_vars

=============================================================================
