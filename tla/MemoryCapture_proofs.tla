------------------------ MODULE MemoryCapture_proofs ------------------------
(***************************************************************************)
(* Proofs about long-term memory, for any number of turns, candidates,     *)
(* workers and memories, and any faults and requests.                      *)
(***************************************************************************)
EXTENDS MemoryCapture, FiniteSetTheorems, WellFoundedInduction, TLAPS

(* What a turn has to leave behind: the slots of its valid candidates.     *)
Facts(t) == {Slot(c) : c \in {d \in Range(Candidates[t]) : ValidCandidate(d)}}

Slots(plan) == {Slot(plan[n].row) : n \in DOMAIN plan}

Change == [id : Ids \cup {0}, row : Row]

Attempt == [at : Stations, turn : Turns \cup {None}, next : Nat \ {0},
            plan : Seq(Change)]

Job == [status : JobStatus, attempt : 0..MaxAttempts, due : BOOLEAN,
        leased : BOOLEAN, owner : Workers \cup {None}]

(* TypeOK in parts, and which turn and which change an attempt is at.      *)
JobsTyped ==
    /\ job \in [Turns -> Job]
    /\ \A t \in Turns : job[t].status \in {"none", "pending"} =>
                            job[t].attempt < MaxAttempts

StoreTyped ==
    /\ memory \in Seq(Row) /\ Len(memory) <= MaxMemories
    /\ vector \in [Ids -> Contents \cup {UserText, None}]
    /\ indexed \subseteq Turns

Sited(a) ==
    /\ a.at # "idle" => a.turn \in Turns
    /\ a.at = "indexing" => a.next = 1
    /\ a.at = "vectorizing" => a.plan # <<>> /\ a.next = 1
    /\ a.at = "writing" => a.next <= Len(a.plan)

WorkersTyped ==
    /\ worker \in [Workers -> Attempt]
    /\ \A w \in Workers : Sited(worker[w])

RequestsTyped ==
    /\ edit \in Seq([id : Ids, row : Row]) /\ Len(edit) <= 1
    /\ reindex = [at |-> reindex.at, after |-> reindex.after, page |-> reindex.page]
    /\ reindex.at \in {"none", "messages", "memories", "upserting"}
    /\ reindex.after \in Ids \cup {0}
    /\ DOMAIN reindex.page \subseteq Ids
    /\ \A i \in DOMAIN reindex.page : reindex.page[i] \in Contents \cup {UserText}
    /\ spent \in [faults : 0..MaxFaults, requests : 0..MaxRequests]

Typed == JobsTyped /\ StoreTyped /\ WorkersTyped /\ RequestsTyped

(* Nothing is counted as stored, or planned, but facts of the turn.        *)
OnlyFacts ==
    /\ settled \in [Turns -> SUBSET (Kinds \X Keys)]
    /\ \A t \in Turns : settled[t] \subseteq Facts(t)
    /\ \A w \in Workers :
          worker[w].at # "idle" => Slots(worker[w].plan) \subseteq Facts(worker[w].turn)

(* Whatever an attempt has passed over is planned or among the settled     *)
(* slots S of its turn, and what it has written is settled.                *)
Covers(a, S) ==
    /\ a.at = "planning" =>
          \A m \in DOMAIN Candidates[a.turn] :
              m < a.next /\ ValidCandidate(Candidates[a.turn][m]) =>
                  Slot(Candidates[a.turn][m]) \in Slots(a.plan) \cup S
    /\ a.at \in {"vectorizing", "writing"} => Facts(a.turn) \subseteq Slots(a.plan) \cup S
    /\ a.at = "writing" =>
          \A m \in DOMAIN a.plan : m < a.next => Slot(a.plan[m].row) \in S
    /\ a.at = "done" => Facts(a.turn) \subseteq S

NothingDropped == \A w \in Workers : Covers(worker[w], settled[worker[w].turn])

(* The messages an attempt indexed stay so as long as their conversation.  *)
Indexed == {"planning", "vectorizing", "writing", "done"}

StaysIndexed ==
    \A w \in Workers :
        worker[w].at \in Indexed =>
            \/ worker[w].turn \in indexed
            \/ job[worker[w].turn].status = "deleted"

(***************************************************************************)
(* The inductive invariant.  It needs no word about leases: an attempt     *)
(* that lost its lease settles facts too, and settled facts stay settled.  *)
(***************************************************************************)
IInv == Typed /\ OnlyFacts /\ NothingDropped /\ StaysIndexed /\ CompletedIsCaptured


------------------------------------------------------------------------------
(* Who writes what.                                                        *)

LEMMA JobWriters ==
    ASSUME Next
    PROVE  \/ job' = job
           \/ \E w \in Workers : \/ ClaimCaptureJob(w) \/ CompleteCaptureJob(w)
                                 \/ FailCaptureJob(w)
           \/ \E t \in Turns : \/ EnqueueCaptureJob(t) \/ DeleteConversation(t)
                               \/ BecomesDue(t) \/ LeaseExpires(t)
<1>1. CASE User
  BY <1>1 DEF User, Create, ReplaceRead, ReplaceWrite, Delete
<1>2. CASE Reindex
  BY <1>2 DEF Reindex, StartReindex, ReindexMessages, ListMemories, UpsertMemoryEmbeddings
<1>3. CASE \E w \in Workers : Work(w) \/ AttemptFails(w) \/ AttemptLost(w)
  BY <1>3 DEF Work, IndexMessages, PlanCandidate, PlanDone, VectorizeMemories,
              WriteChange, WriteRefused, AttemptFails, AttemptLost
<1>4. CASE \E t \in Turns : Clock(t)
  BY <1>4 DEF Clock
<1> QED
  BY <1>1, <1>2, <1>3, <1>4 DEF Next

LEMMA StoreWriters ==
    ASSUME Next
    PROVE  \/ UNCHANGED <<memory, vector>>
           \/ \E kind \in Kinds : Create(kind)
           \/ ReplaceWrite
           \/ \E i \in DOMAIN memory : Delete(i)
           \/ \E t \in Turns : DeleteConversation(t)
           \/ UpsertMemoryEmbeddings
           \/ \E w \in Workers : WriteChange(w)
<1>1. CASE User
  BY <1>1 DEF User, ReplaceRead, EnqueueCaptureJob
<1>2. CASE Reindex
  BY <1>2 DEF Reindex, StartReindex, ReindexMessages, ListMemories
<1>3. CASE \E w \in Workers : Work(w) \/ AttemptFails(w) \/ AttemptLost(w)
  BY <1>3 DEF Work, ClaimCaptureJob, IndexMessages, PlanCandidate, PlanDone,
              VectorizeMemories, WriteRefused, CompleteCaptureJob, FailCaptureJob,
              AttemptFails, AttemptLost
<1>4. CASE \E t \in Turns : Clock(t)
  BY <1>4 DEF Clock, BecomesDue, LeaseExpires
<1> QED
  BY <1>1, <1>2, <1>3, <1>4 DEF Next

LEMMA IndexWriters ==
    ASSUME Next
    PROVE  \/ indexed' = indexed
           \/ \E t \in Turns : DeleteConversation(t)
           \/ ReindexMessages
           \/ \E w \in Workers : IndexMessages(w)
<1>1. CASE User
  BY <1>1 DEF User, Create, ReplaceRead, ReplaceWrite, Delete, EnqueueCaptureJob
<1>2. CASE Reindex
  BY <1>2 DEF Reindex, StartReindex, ListMemories, UpsertMemoryEmbeddings
<1>3. CASE \E w \in Workers : Work(w) \/ AttemptFails(w) \/ AttemptLost(w)
  BY <1>3 DEF Work, ClaimCaptureJob, PlanCandidate, PlanDone, VectorizeMemories,
              WriteChange, WriteRefused, CompleteCaptureJob, FailCaptureJob,
              AttemptFails, AttemptLost
<1>4. CASE \E t \in Turns : Clock(t)
  BY <1>4 DEF Clock, BecomesDue, LeaseExpires
<1> QED
  BY <1>1, <1>2, <1>3, <1>4 DEF Next

LEMMA Workings ==
    ASSUME Next
    PROVE  \/ UNCHANGED <<worker, settled>>
           \/ \E w \in Workers : Work(w) \/ AttemptFails(w) \/ AttemptLost(w)
<1>1. CASE User
  BY <1>1 DEF User, Create, ReplaceRead, ReplaceWrite, Delete, EnqueueCaptureJob,
              DeleteConversation
<1>2. CASE Reindex
  BY <1>2 DEF Reindex, StartReindex, ReindexMessages, ListMemories, UpsertMemoryEmbeddings
<1>3. CASE \E t \in Turns : Clock(t)
  BY <1>3 DEF Clock, BecomesDue, LeaseExpires
<1> QED
  BY <1>1, <1>2, <1>3 DEF Next

LEMMA RequestWriters ==
    ASSUME Next
    PROVE  \/ UNCHANGED <<edit, reindex, spent>>
           \/ UNCHANGED <<edit, reindex>> /\ (Fault \/ Request)
           \/ \E i \in DOMAIN memory, kind \in Kinds : ReplaceRead(i, kind)
           \/ ReplaceWrite
           \/ Reindex
<1>1. CASE User
  BY <1>1 DEF User, Create, Delete, EnqueueCaptureJob, DeleteConversation
<1>2. ASSUME NEW w \in Workers, Work(w) \/ AttemptFails(w) \/ AttemptLost(w)
      PROVE  UNCHANGED <<edit, reindex>> /\ (UNCHANGED spent \/ Fault)
  <2>1. CASE Work(w)
    BY <2>1 DEF Work, ClaimCaptureJob, IndexMessages, PlanCandidate, PlanDone,
                VectorizeMemories, WriteChange, WriteRefused, CompleteCaptureJob,
                FailCaptureJob
  <2>2. CASE AttemptFails(w) \/ AttemptLost(w)
    BY <2>2 DEF AttemptFails, AttemptLost
  <2> QED
    BY <1>2, <2>1, <2>2
<1>3. ASSUME NEW t \in Turns, Clock(t)
      PROVE  UNCHANGED <<edit, reindex>> /\ (UNCHANGED spent \/ Fault)
  BY <1>3 DEF Clock, BecomesDue, LeaseExpires
<1> QED
  BY <1>1, <1>2, <1>3 DEF Next

------------------------------------------------------------------------------
(* The store and the plan.                                                 *)

LEMMA Memories ==
    ASSUME StoreTyped
    PROVE  /\ Len(memory) \in Nat /\ DOMAIN memory = 1..Len(memory)
           /\ DOMAIN memory \subseteq Ids
           /\ \A i \in DOMAIN memory : memory[i] \in Row
           /\ Live \subseteq DOMAIN memory /\ Live \subseteq Ids
<1>1. memory \in Seq(Row) /\ Len(memory) <= MaxMemories
  BY DEF StoreTyped
<1>2. Len(memory) \in Nat /\ DOMAIN memory = 1..Len(memory)
      /\ \A i \in DOMAIN memory : memory[i] \in Row
  BY <1>1
<1>3. DOMAIN memory \subseteq Ids
  BY <1>1, <1>2, MemoryAssumption DEF MemoryAssumption, Ids
<1> QED
  BY <1>2, <1>3 DEF Live

\* A function over the ids of the rows is a sequence of as many.
LEMMA SameRows ==
    ASSUME StoreTyped, NEW m, m \in [DOMAIN memory -> Row]
    PROVE  m \in Seq(Row) /\ Len(m) = Len(memory) /\ DOMAIN m = DOMAIN memory
<1>1. Len(memory) \in Nat /\ DOMAIN memory = 1..Len(memory)
  BY Memories
<1> QED
  BY <1>1

LEMMA Creating ==
    ASSUME StoreTyped, NEW row \in Row, CanCreate(row), CreateMemory(row)
    PROVE  /\ memory' \in Seq(Row) /\ Len(memory') = Len(memory) + 1
           /\ Len(memory') <= MaxMemories
           /\ vector' \in [Ids -> Contents \cup {UserText, None}]
           /\ \A i \in DOMAIN memory : memory'[i] = memory[i] /\ vector'[i] = vector[i]
           /\ LET new == Len(memory) + 1
              IN  new \in Ids /\ memory'[new] = row /\ vector'[new] = row.content
<1>1. memory \in Seq(Row) /\ Len(memory) \in Nat /\ DOMAIN memory = 1..Len(memory)
      /\ DOMAIN memory \subseteq Ids
  BY Memories DEF StoreTyped
<1>2. Len(memory) < MaxMemories /\ memory' = Append(memory, row)
      /\ vector' = [vector EXCEPT ![Len(memory) + 1] = row.content]
  BY DEF CanCreate, CreateMemory, UpsertEmbedding
<1>3. Len(memory) + 1 \in Ids /\ Len(memory) + 1 \notin DOMAIN memory
  BY <1>1, <1>2, MemoryAssumption DEF MemoryAssumption, Ids
<1>4. memory' \in Seq(Row) /\ Len(memory') = Len(memory) + 1
      /\ memory'[Len(memory) + 1] = row
      /\ \A i \in DOMAIN memory : memory'[i] = memory[i]
  BY <1>1, <1>2
<1>5. row.content \in Contents \cup {UserText}
  BY DEF Row
<1>6. vector' \in [Ids -> Contents \cup {UserText, None}]
      /\ vector'[Len(memory) + 1] = row.content
      /\ \A i \in DOMAIN memory : vector'[i] = vector[i]
  BY <1>1, <1>2, <1>3, <1>5 DEF StoreTyped
<1> QED
  BY <1>1, <1>2, <1>3, <1>4, <1>6, MemoryAssumption DEF MemoryAssumption

LEMMA Updating ==
    ASSUME StoreTyped, NEW id \in Live, NEW row \in Row, UpdateMemory(id, row)
    PROVE  /\ memory' \in Seq(Row) /\ Len(memory') = Len(memory)
           /\ DOMAIN memory' = DOMAIN memory
           /\ vector' \in [Ids -> Contents \cup {UserText, None}]
           /\ \A i \in DOMAIN memory \ {id} :
                 memory'[i] = memory[i] /\ vector'[i] = vector[i]
           /\ memory'[id] = row /\ vector'[id] = row.content
<1>1. memory \in Seq(Row) /\ DOMAIN memory \subseteq Ids /\ id \in DOMAIN memory
      /\ \A i \in DOMAIN memory : memory[i] \in Row
  BY Memories DEF StoreTyped
<1>2. memory' = [memory EXCEPT ![id] = row]
      /\ vector' = [vector EXCEPT ![id] = row.content]
  BY DEF UpdateMemory, UpsertEmbedding
<1>3. memory' \in [DOMAIN memory -> Row] /\ memory'[id] = row
      /\ \A i \in DOMAIN memory \ {id} : memory'[i] = memory[i]
  BY <1>1, <1>2
<1>4. row.content \in Contents \cup {UserText}
  BY DEF Row
<1>5. vector' \in [Ids -> Contents \cup {UserText, None}]
      /\ vector'[id] = row.content
      /\ \A i \in DOMAIN memory \ {id} : vector'[i] = vector[i]
  BY <1>1, <1>2, <1>4 DEF StoreTyped
<1> QED
  BY <1>1, <1>3, <1>5, SameRows

\* What a plan keeps for a slot is of that slot.
LEMMA MergedRow ==
    ASSUME NEW row \in Row, NEW c \in Candidate, NEW t \in Turns
    PROVE  Merged(row, c, t) \in Row /\ Slot(Merged(row, c, t)) = Slot(row)
BY DEF Row, Candidate, Merged, Slot

LEMMA NewRow ==
    ASSUME NEW c \in Candidate, NEW t \in Turns
    PROVE  NewMemory(c, t) \in Row /\ Slot(NewMemory(c, t)) = Slot(c)
BY DEF Row, Candidate, NewMemory, Slot

LEMMA Appending ==
    ASSUME NEW plan \in Seq(Change), NEW change \in Change
    PROVE  /\ Append(plan, change) \in Seq(Change)
           /\ Slots(Append(plan, change)) = Slots(plan) \cup {Slot(change.row)}
<1> DEFINE longer == Append(plan, change)
<1>1. longer \in Seq(Change) /\ DOMAIN longer = DOMAIN plan \cup {Len(plan) + 1}
      /\ longer[Len(plan) + 1] = change
      /\ \A n \in DOMAIN plan : longer[n] = plan[n]
  BY DEF Change
<1> HIDE DEF longer
<1>2. Slots(longer) = Slots(plan) \cup {Slot(change.row)}
  BY <1>1 DEF Slots
<1> QED
  BY <1>1, <1>2 DEF longer

\* A plan gains no slot but that of a valid candidate, and loses none.
LEMMA Planning ==
    ASSUME StoreTyped, NEW plan \in Seq(Change), NEW c \in Candidate, NEW t \in Turns
    PROVE  /\ PlanWith(plan, c, t) \in Seq(Change)
           /\ Slots(plan) \subseteq Slots(PlanWith(plan, c, t))
           /\ Slots(PlanWith(plan, c, t)) \subseteq
                 Slots(plan) \cup (IF ValidCandidate(c) THEN {Slot(c)} ELSE {})
<1> DEFINE pending == {n \in DOMAIN plan : Slot(plan[n].row) = Slot(c)}
           stored == InSlot(Slot(c))
           planned == PlanWith(plan, c, t)
<1>1. CASE ~ValidCandidate(c)
  BY <1>1 DEF PlanWith
<1>2. CASE ValidCandidate(c) /\ pending # {}
  <2> DEFINE n == CHOOSE n \in pending : TRUE
             row == Merged(plan[n].row, c, t)
  <2>1. n \in pending /\ n \in DOMAIN plan /\ plan[n] \in Change
    BY <1>2
  <2>2. planned = IF Supersedes(c, plan[n].row) THEN [plan EXCEPT ![n].row = row] ELSE plan
    BY <1>2 DEF PlanWith
  <2>3. plan[n].row \in Row /\ plan[n].id \in Ids \cup {0}
        /\ plan[n] = [id |-> plan[n].id, row |-> plan[n].row]
    BY <2>1 DEF Change
  <2>4. row \in Row /\ Slot(row) = Slot(plan[n].row)
    BY <2>3, MergedRow
  <2> HIDE DEF n, row, pending
  <2>5. CASE planned = plan
    BY <2>5, <1>2
  <2>6. CASE planned = [plan EXCEPT ![n].row = row]
    <3> DEFINE change == [id |-> plan[n].id, row |-> row]
    <3>1. planned = [plan EXCEPT ![n] = change] /\ change \in Change /\ change.row = row
      BY <2>1, <2>3, <2>4, <2>6 DEF Change
    <3> HIDE DEF change
    <3>2. planned \in Seq(Change) /\ DOMAIN planned = DOMAIN plan /\ planned[n] = change
          /\ \A m \in DOMAIN plan \ {n} : planned[m] = plan[m]
      BY <2>1, <3>1
    <3>3. \A m \in DOMAIN plan : Slot(planned[m].row) = Slot(plan[m].row)
      BY <2>4, <3>1, <3>2
    <3> HIDE DEF planned
    <3>4. Slots(planned) = Slots(plan)
      BY <3>2, <3>3 DEF Slots
    <3> QED
      BY <3>2, <3>4 DEF planned
  <2> QED
    BY <2>2, <2>5, <2>6
<1>3. CASE ValidCandidate(c) /\ pending = {} /\ stored = {}
  <2> DEFINE change == [id |-> 0, row |-> NewMemory(c, t)]
  <2>1. planned = Append(plan, change)
    BY <1>3 DEF PlanWith
  <2>2. change \in Change /\ Slot(change.row) = Slot(c)
    BY NewRow DEF Change
  <2> HIDE DEF change
  <2> QED
    BY <1>3, <2>1, <2>2, Appending
<1>4. CASE ValidCandidate(c) /\ pending = {} /\ stored # {}
  <2> DEFINE i == CHOOSE i \in stored : TRUE
             change == [id |-> i, row |-> Merged(memory[i], c, t)]
  <2>1. i \in stored
    BY <1>4
  <2>2. i \in Ids /\ memory[i] \in Row /\ Slot(memory[i]) = Slot(c)
    BY <2>1, Memories DEF InSlot
  <2>3. planned = plan \/ planned = Append(plan, change)
    BY <1>4 DEF PlanWith
  <2>4. change \in Change /\ Slot(change.row) = Slot(c)
    BY <2>2, MergedRow DEF Change
  <2> HIDE DEF change
  <2>5. CASE planned = plan
    BY <1>4, <2>5
  <2>6. CASE planned = Append(plan, change)
    BY <1>4, <2>4, <2>6, Appending
  <2> QED
    BY <2>3, <2>5, <2>6
<1> QED
  BY <1>1, <1>2, <1>3, <1>4

LEMMA FactsAre ==
    ASSUME NEW t \in Turns, NEW s
    PROVE  s \in Facts(t) <=>
              \E m \in DOMAIN Candidates[t] :
                 ValidCandidate(Candidates[t][m]) /\ s = Slot(Candidates[t][m])
BY DEF Facts, Range

LEMMA CandidatesAre ==
    ASSUME NEW t \in Turns
    PROVE  /\ Candidates[t] \in Seq(Candidate) /\ Len(Candidates[t]) \in Nat
           /\ DOMAIN Candidates[t] = 1..Len(Candidates[t])
           /\ \A m \in DOMAIN Candidates[t] :
                 Candidates[t][m] \in Candidate /\ Slot(Candidates[t][m]) \in Kinds \X Keys
<1>1. Candidates[t] \in Seq(Candidate)
  BY MemoryAssumption DEF MemoryAssumption
<1>2. \A m \in DOMAIN Candidates[t] : Candidates[t][m] \in Candidate
  BY <1>1
<1>3. \A c \in Candidate : Slot(c) \in Kinds \X Keys
  BY DEF Candidate, Slot
<1> QED
  BY <1>1, <1>2, <1>3

LEMMA FactsTyped ==
    ASSUME NEW t \in Turns
    PROVE  Facts(t) \subseteq Kinds \X Keys
BY FactsAre, CandidatesAre

------------------------------------------------------------------------------
(* What a step of a worker makes of its attempt.                           *)

LEMMA StillSettled ==
    ASSUME NEW a \in Attempt, Sited(a), NEW S, NEW S2, S \subseteq S2, Covers(a, S)
    PROVE  Covers(a, S2)
BY DEF Covers

LEMMA NothingToCover ==
    ASSUME NEW a, NEW S, a.at \in {"idle", "indexing", "failing"}
    PROVE  Covers(a, S)
BY DEF Covers

LEMMA IdleAttempt == Idle \in Attempt /\ Sited(Idle) /\ Idle.at = "idle" /\ Idle.plan = <<>>
<1>1. <<>> \in Seq(Change)
  OBVIOUS
<1>2. Idle \in Attempt
  BY <1>1 DEF Idle, Attempt, Stations
<1> QED
  BY <1>2 DEF Idle, Sited

LEMMA NoSlots == Slots(<<>>) = {}
BY DEF Slots

\* An attempt as it may be after a step, with the slots settled for its turn.
Carries(a, S) ==
    /\ a \in Attempt /\ Sited(a) /\ Covers(a, S)
    /\ a.at # "idle" => Slots(a.plan) \subseteq Facts(a.turn)

LEMMA IdleCarries == ASSUME NEW S PROVE Carries(Idle, S)
BY IdleAttempt, NothingToCover DEF Carries

\* The settled slots of turn t before the step and those after it.
Settles(t, s) ==
    /\ settled' \in [Turns -> SUBSET (Kinds \X Keys)]
    /\ \A u \in Turns \ {t} : settled'[u] = settled[u]
    /\ settled'[t] = settled[t] \cup s

LEMMA SettleOne ==
    ASSUME OnlyFacts, NEW t \in Turns, NEW slot \in Facts(t), Settle(t, slot)
    PROVE  Settles(t, {slot})
<1>1. slot \in Kinds \X Keys
  BY FactsTyped
<1>2. settled \in [Turns -> SUBSET (Kinds \X Keys)]
  BY DEF OnlyFacts
<1> QED
  BY <1>1, <1>2 DEF Settle, Settles

LEMMA SettleNone ==
    ASSUME OnlyFacts, UNCHANGED settled, NEW t \in Turns
    PROVE  Settles(t, {})
BY DEF OnlyFacts, Settles

\* Two fields of an attempt change: the prover takes them one at a time.
LEMMA Replans ==
    ASSUME NEW a \in Attempt, NEW p, NEW n
    PROVE  [a EXCEPT !.plan = p, !.next = n]
              = [at |-> a.at, turn |-> a.turn, next |-> n, plan |-> p]
<1> DEFINE b == [a EXCEPT !.plan = p]
<1>1. b = [at |-> a.at, turn |-> a.turn, next |-> a.next, plan |-> p]
  BY DEF Attempt
<1>2. [a EXCEPT !.plan = p, !.next = n] = [b EXCEPT !.next = n]
  OBVIOUS
<1> HIDE DEF b
<1>3. [b EXCEPT !.next = n] = [at |-> b.at, turn |-> b.turn, next |-> n, plan |-> b.plan]
  BY <1>1
<1> QED
  BY <1>1, <1>2, <1>3

LEMMA Advances ==
    ASSUME NEW a \in Attempt, NEW n \in Nat \ {0}, NEW s \in Stations
    PROVE  [a EXCEPT !.next = n, !.at = s]
              = [at |-> s, turn |-> a.turn, next |-> n, plan |-> a.plan]
<1> DEFINE b == [a EXCEPT !.next = n]
<1>1. b = [at |-> a.at, turn |-> a.turn, next |-> n, plan |-> a.plan] /\ b \in Attempt
  BY DEF Attempt
<1>2. [a EXCEPT !.next = n, !.at = s] = [b EXCEPT !.at = s]
  OBVIOUS
<1> HIDE DEF b
<1>3. [b EXCEPT !.at = s] = [at |-> s, turn |-> b.turn, next |-> b.next, plan |-> b.plan]
  BY <1>1 DEF Attempt
<1> QED
  BY <1>1, <1>2, <1>3

LEMMA PlanStep ==
    ASSUME Typed, OnlyFacts, NothingDropped, NEW w \in Workers, PlanCandidate(w)
    PROVE  LET t == worker[w].turn
           IN  \E a, s : /\ worker' = [worker EXCEPT ![w] = a] /\ a.turn = t
                         /\ a.at = "planning"
                         /\ s \subseteq Facts(t) /\ Settles(t, s)
                         /\ Carries(a, settled[t] \cup s)
<1> DEFINE t == worker[w].turn
           n == worker[w].next
           c == Candidates[t][n]
           plan == PlanWith(worker[w].plan, c, t)
           a == [worker[w] EXCEPT !.plan = plan, !.next = n + 1]
           s == IF ~ValidCandidate(c) \/ Slot(c) \in Slots(plan) THEN {} ELSE {Slot(c)}
<1>1. /\ worker[w] \in Attempt /\ Sited(worker[w]) /\ worker[w].at = "planning"
      /\ t \in Turns /\ n \in Nat \ {0} /\ worker[w].plan \in Seq(Change)
      /\ n <= Len(Candidates[t])
  BY DEF Typed, WorkersTyped, Sited, Attempt, PlanCandidate
<1>2. n \in DOMAIN Candidates[t] /\ c \in Candidate
  BY <1>1, CandidatesAre
<1>3. /\ plan \in Seq(Change)
      /\ Slots(worker[w].plan) \subseteq Slots(plan)
      /\ Slots(plan) \subseteq
            Slots(worker[w].plan) \cup (IF ValidCandidate(c) THEN {Slot(c)} ELSE {})
  BY <1>1, <1>2, Planning DEF Typed
<1>4. (\E m \in DOMAIN plan : Slot(plan[m].row) = Slot(c)) <=> Slot(c) \in Slots(plan)
  BY DEF Slots
<1>5. /\ worker' = [worker EXCEPT ![w].plan = plan, ![w].next = n + 1]
      /\ IF ~ValidCandidate(c) \/ Slot(c) \in Slots(plan)
         THEN UNCHANGED settled ELSE Settle(t, Slot(c))
  BY <1>4 DEF PlanCandidate
<1>6. ValidCandidate(c) => Slot(c) \in Facts(t)
  BY <1>1, <1>2, FactsAre
<1>7. Slots(worker[w].plan) \subseteq Facts(t)
  BY <1>1 DEF OnlyFacts
<1>8. Covers(worker[w], settled[t])
  BY DEF NothingDropped
<1> HIDE DEF plan, c
<1>9. worker' = [worker EXCEPT ![w] = a]
  BY <1>5
<1>10. /\ a \in Attempt /\ a.turn = t /\ a.at = "planning"
       /\ a.plan = plan /\ a.next = n + 1
  <2>1. n + 1 \in Nat \ {0}
    BY <1>1
  <2>2. a = [at |-> "planning", turn |-> t, next |-> n + 1, plan |-> plan]
    BY <1>1, <1>3, <2>1, Replans
  <2> QED
    BY <1>1, <1>3, <2>1, <2>2 DEF Attempt
<1>11. s \subseteq Facts(t) /\ Settles(t, s)
  <2>1. CASE ~ValidCandidate(c) \/ Slot(c) \in Slots(plan)
    BY <1>1, <1>5, <2>1, SettleNone
  <2>2. CASE ~(~ValidCandidate(c) \/ Slot(c) \in Slots(plan))
    BY <1>1, <1>5, <1>6, <2>2, SettleOne
  <2> QED
    BY <2>1, <2>2
<1>12. Slots(plan) \subseteq Facts(t)
  BY <1>3, <1>6, <1>7
<1>13. Covers(a, settled[t] \cup s)
  <2>1. SUFFICES ASSUME NEW m \in DOMAIN Candidates[t], m < n + 1,
                        ValidCandidate(Candidates[t][m])
                 PROVE  Slot(Candidates[t][m]) \in Slots(plan) \cup (settled[t] \cup s)
    BY <1>10 DEF Covers
  <2>2. CASE m = n
    BY <2>1, <2>2 DEF c
  <2>3. CASE m < n
    BY <1>1, <1>3, <1>8, <2>1, <2>3 DEF Covers
  <2>4. m \in Nat
    BY <1>1, CandidatesAre
  <2> QED
    BY <1>1, <2>1, <2>2, <2>3, <2>4
<1>14. Sited(a)
  BY <1>1, <1>10 DEF Sited
<1>15. Carries(a, settled[t] \cup s)
  BY <1>10, <1>12, <1>13, <1>14 DEF Carries
<1> HIDE DEF a, s, t
<1>16. \E aa, ss : /\ worker' = [worker EXCEPT ![w] = aa] /\ aa.turn = t
                   /\ aa.at = "planning" /\ ss \subseteq Facts(t) /\ Settles(t, ss)
                   /\ Carries(aa, settled[t] \cup ss)
  BY <1>9, <1>10, <1>11, <1>15
<1> QED
  BY <1>16 DEF t

LEMMA WriteStep ==
    ASSUME Typed, OnlyFacts, NothingDropped, NEW w \in Workers, WriteChange(w)
    PROVE  LET t == worker[w].turn
           IN  \E a, s : /\ worker' = [worker EXCEPT ![w] = a] /\ a.turn = t
                         /\ a.at \in {"writing", "done"}
                         /\ s \subseteq Facts(t) /\ Settles(t, s)
                         /\ Carries(a, settled[t] \cup s)
<1> DEFINE t == worker[w].turn
           n == worker[w].next
           plan == worker[w].plan
           at == IF n = Len(plan) THEN "done" ELSE "writing"
           a == [worker[w] EXCEPT !.next = n + 1, !.at = at]
           s == {Slot(plan[n].row)}
<1>1. /\ worker[w] \in Attempt /\ Sited(worker[w]) /\ worker[w].at = "writing"
      /\ t \in Turns /\ n \in Nat \ {0} /\ plan \in Seq(Change) /\ n <= Len(plan)
  BY DEF Typed, WorkersTyped, Sited, Attempt, WriteChange
<1>2. n \in DOMAIN plan /\ Len(plan) \in Nat /\ DOMAIN plan = 1..Len(plan)
  BY <1>1
<1>3. Settle(t, Slot(plan[n].row))
      /\ worker' = [worker EXCEPT ![w].next = n + 1,
                       ![w].at = IF n = Len(plan) THEN "done" ELSE @]
  BY DEF WriteChange
<1>4. Slots(plan) \subseteq Facts(t)
  BY <1>1 DEF OnlyFacts
<1>5. Slot(plan[n].row) \in Facts(t)
  BY <1>2, <1>4 DEF Slots
<1>6. Covers(worker[w], settled[t])
  BY DEF NothingDropped
<1>7. worker' = [worker EXCEPT ![w] = a]
  BY <1>1, <1>3
<1>8. /\ a \in Attempt /\ a.turn = t /\ a.at = at /\ at \in {"writing", "done"}
      /\ a.plan = plan /\ a.next = n + 1
  <2>1. n + 1 \in Nat \ {0} /\ at \in Stations /\ at \in {"writing", "done"}
    BY <1>1 DEF Stations
  <2>2. a = [at |-> at, turn |-> t, next |-> n + 1, plan |-> plan]
    BY <1>1, <2>1, Advances
  <2> HIDE DEF a, at
  <2> QED
    BY <1>1, <2>1, <2>2 DEF Attempt
<1>9. s \subseteq Facts(t) /\ Settles(t, s)
  BY <1>1, <1>3, <1>5, SettleOne
<1>10. /\ Facts(t) \subseteq Slots(plan) \cup settled[t]
       /\ \A m \in DOMAIN plan : m < n => Slot(plan[m].row) \in settled[t]
  BY <1>1, <1>6 DEF Covers
<1>11. \A m \in DOMAIN plan : m < n + 1 => Slot(plan[m].row) \in settled[t] \cup s
  BY <1>1, <1>2, <1>10
<1>12. CASE n = Len(plan)
  <2>1. at = "done"
    BY <1>12
  <2>2. \A m \in DOMAIN plan : Slot(plan[m].row) \in settled[t] \cup s
    BY <1>2, <1>11, <1>12
  <2>3. Slots(plan) \subseteq settled[t] \cup s
    BY <2>2 DEF Slots
  <2>4. Covers(a, settled[t] \cup s)
    BY <1>8, <1>10, <2>1, <2>3 DEF Covers
  <2>5. Sited(a)
    BY <1>1, <1>8, <2>1 DEF Sited
  <2>6. Carries(a, settled[t] \cup s)
    BY <1>4, <1>8, <2>4, <2>5 DEF Carries
  <2> QED
    BY <1>7, <1>8, <1>9, <2>6
<1>13. CASE n # Len(plan)
  <2>1. at = "writing" /\ n + 1 <= Len(plan)
    BY <1>1, <1>2, <1>13
  <2>2. Covers(a, settled[t] \cup s)
    BY <1>8, <1>10, <1>11, <2>1 DEF Covers
  <2>3. Sited(a)
    BY <1>1, <1>8, <2>1 DEF Sited
  <2>4. Carries(a, settled[t] \cup s)
    BY <1>4, <1>8, <2>2, <2>3 DEF Carries
  <2> QED
    BY <1>7, <1>8, <1>9, <2>4
<1> QED
  BY <1>12, <1>13

LEMMA Going ==
    ASSUME NEW a \in Attempt, NEW s \in Stations
    PROVE  /\ [a EXCEPT !.at = s]
                 = [at |-> s, turn |-> a.turn, next |-> a.next, plan |-> a.plan]
           /\ [a EXCEPT !.at = s] \in Attempt
<1> DEFINE b == [a EXCEPT !.at = s]
<1>1. b = [at |-> s, turn |-> a.turn, next |-> a.next, plan |-> a.plan]
  BY DEF Attempt
<1> HIDE DEF b
<1>2. b \in Attempt
  BY <1>1 DEF Attempt
<1> QED
  BY <1>1, <1>2 DEF b

LEMMA Claiming ==
    ASSUME NEW t \in Turns
    PROVE  [Idle EXCEPT !.at = "indexing", !.turn = t]
              = [at |-> "indexing", turn |-> t, next |-> 1, plan |-> <<>>]
<1> DEFINE b == [Idle EXCEPT !.at = "indexing"]
<1>1. b = [at |-> "indexing", turn |-> None, next |-> 1, plan |-> <<>>]
  BY DEF Idle
<1>2. [Idle EXCEPT !.at = "indexing", !.turn = t] = [b EXCEPT !.turn = t]
  OBVIOUS
<1> HIDE DEF b
<1>3. [b EXCEPT !.turn = t] = [at |-> "indexing", turn |-> t, next |-> 1, plan |-> <<>>]
  BY <1>1
<1> QED
  BY <1>2, <1>3

\* Settled slots are facts, and stay.
Grows ==
    /\ settled' \in [Turns -> SUBSET (Kinds \X Keys)]
    /\ \A t \in Turns : settled[t] \subseteq settled'[t] /\ settled'[t] \subseteq Facts(t)

LEMMA SettlesGrows ==
    ASSUME OnlyFacts, NEW t \in Turns, NEW s, s \subseteq Facts(t), Settles(t, s)
    PROVE  Grows
BY DEF OnlyFacts, Settles, Grows

LEMMA UnchangedGrows ==
    ASSUME OnlyFacts, UNCHANGED settled
    PROVE  Grows
BY DEF OnlyFacts, Grows

\* The step of worker w leaves it with attempt a.
Becomes(w, a) ==
    /\ worker' = [worker EXCEPT ![w] = a]
    /\ Carries(a, settled'[a.turn])
    /\ a.at \in Indexed => \/ IndexMessages(w)
                           \/ worker[w].at \in Indexed /\ a.turn = worker[w].turn

LEMMA BecomesIdle ==
    ASSUME NEW w \in Workers, worker' = [worker EXCEPT ![w] = Idle]
    PROVE  Becomes(w, Idle)
BY IdleCarries, IdleAttempt DEF Becomes, Indexed

\* An attempt that moves on with the same plan.
LEMMA BecomesOther ==
    ASSUME Typed, OnlyFacts, NEW w \in Workers, worker[w].at # "idle",
           UNCHANGED settled, NEW s \in Stations,
           NEW a, worker' = [worker EXCEPT ![w] = a],
           a \in Attempt, a.at = s, a.turn = worker[w].turn, a.plan = worker[w].plan,
           Sited(a), Covers(a, settled[worker[w].turn]),
           s \in Indexed => worker[w].at \in Indexed \/ IndexMessages(w)
    PROVE  Becomes(w, a)
<1>1. worker[w].turn \in Turns
  BY DEF Typed, WorkersTyped, Sited
<1>2. Slots(a.plan) \subseteq Facts(a.turn)
  BY DEF OnlyFacts
<1>3. Carries(a, settled'[a.turn])
  BY <1>2 DEF Carries
<1> QED
  BY <1>3 DEF Becomes

LEMMA Failing ==
    ASSUME Typed, OnlyFacts, NEW w \in Workers, worker[w].at # "idle",
           Goto(w, "failing"), UNCHANGED settled
    PROVE  \E a : Becomes(w, a)
<1> DEFINE a == [worker[w] EXCEPT !.at = "failing"]
<1>1. worker[w] \in Attempt /\ Sited(worker[w]) /\ "failing" \in Stations
  BY DEF Typed, WorkersTyped, Stations
<1>2. /\ a = [at |-> "failing", turn |-> worker[w].turn, next |-> worker[w].next,
              plan |-> worker[w].plan]
      /\ a \in Attempt
  BY <1>1, Going
<1>3. worker' = [worker EXCEPT ![w] = a]
  BY DEF Goto
<1> HIDE DEF a
<1>4. a.at = "failing" /\ a.turn = worker[w].turn /\ a.plan = worker[w].plan
  BY <1>2
<1>5. Sited(a) /\ Covers(a, settled[worker[w].turn])
  BY <1>1, <1>4, NothingToCover DEF Sited
<1>6. "failing" \notin Indexed
  BY DEF Indexed
<1> QED
  BY <1>1, <1>2, <1>3, <1>4, <1>5, <1>6, BecomesOther

LEMMA Indexing ==
    ASSUME Typed, OnlyFacts, NEW w \in Workers, IndexMessages(w)
    PROVE  \E a : Becomes(w, a)
<1> DEFINE a == [worker[w] EXCEPT !.at = "planning"]
<1>1. worker[w] \in Attempt /\ Sited(worker[w]) /\ "planning" \in Stations
      /\ worker[w].at = "indexing" /\ worker[w].next = 1 /\ UNCHANGED settled
      /\ worker[w].turn \in Turns
  BY DEF Typed, WorkersTyped, Stations, IndexMessages, Sited
<1>2. CASE Goto(w, "failing")
  BY <1>1, <1>2, Failing
<1>3. CASE Goto(w, "planning")
  <2>1. /\ a = [at |-> "planning", turn |-> worker[w].turn, next |-> 1,
                plan |-> worker[w].plan]
        /\ a \in Attempt
    BY <1>1, Going
  <2>2. worker' = [worker EXCEPT ![w] = a]
    BY <1>3 DEF Goto
  <2> HIDE DEF a
  <2>3. a.at = "planning" /\ a.turn = worker[w].turn /\ a.plan = worker[w].plan
        /\ a.next = 1
    BY <2>1
  <2>4. Sited(a) /\ Covers(a, settled[worker[w].turn])
    <3>1. \A m \in DOMAIN Candidates[worker[w].turn] : ~(m < 1)
      BY <1>1, CandidatesAre
    <3> QED
      BY <1>1, <2>3, <3>1 DEF Sited, Covers
  <2> QED
    BY <1>1, <2>1, <2>2, <2>3, <2>4, BecomesOther
<1> QED
  BY <1>2, <1>3 DEF IndexMessages

LEMMA Planned ==
    ASSUME Typed, OnlyFacts, NothingDropped, NEW w \in Workers, PlanDone(w)
    PROVE  \E a : Becomes(w, a)
<1> DEFINE plan == worker[w].plan
           t == worker[w].turn
           at == IF plan = <<>> THEN "done" ELSE "vectorizing"
           a == [worker[w] EXCEPT !.next = 1, !.at = at]
<1>1. worker[w] \in Attempt /\ Sited(worker[w]) /\ at \in Stations
      /\ worker[w].at = "planning" /\ worker[w].next > Len(Candidates[t])
      /\ worker[w].next \in Nat /\ t \in Turns /\ UNCHANGED settled
  BY DEF Typed, WorkersTyped, Stations, PlanDone, Sited, Attempt
<1>2. a = [at |-> at, turn |-> t, next |-> 1, plan |-> plan]
  <2>1. 1 \in Nat \ {0}
    OBVIOUS
  <2> QED
    BY <1>1, <2>1, Advances
<1>3. worker' = [worker EXCEPT ![w] = a]
  BY DEF PlanDone
<1> HIDE DEF a
<1>4. a \in Attempt
  BY <1>1, <1>2 DEF Attempt
<1>5. a.at = at /\ a.turn = t /\ a.plan = plan /\ a.next = 1
  BY <1>2
<1>6. Facts(t) \subseteq Slots(plan) \cup settled[t]
  <2>1. \A m \in DOMAIN Candidates[t] : m < worker[w].next
    BY <1>1, CandidatesAre
  <2>2. \A m \in DOMAIN Candidates[t] :
           ValidCandidate(Candidates[t][m]) =>
               Slot(Candidates[t][m]) \in Slots(plan) \cup settled[t]
    BY <1>1, <2>1 DEF NothingDropped, Covers
  <2> SUFFICES ASSUME NEW s \in Facts(t) PROVE s \in Slots(plan) \cup settled[t]
    OBVIOUS
  <2>3. PICK m \in DOMAIN Candidates[t] :
               ValidCandidate(Candidates[t][m]) /\ s = Slot(Candidates[t][m])
    BY <1>1, FactsAre
  <2> QED
    BY <2>2, <2>3
<1>7. CASE plan = <<>>
  <2>1. a.at = "done" /\ Facts(t) \subseteq settled[t]
    BY <1>5, <1>6, <1>7, NoSlots
  <2>2. Sited(a) /\ Covers(a, settled[t])
    BY <1>1, <1>5, <2>1 DEF Sited, Covers
  <2> QED
    BY <1>1, <1>3, <1>4, <1>5, <2>2, BecomesOther DEF Indexed
<1>8. CASE plan # <<>>
  <2>1. a.at = "vectorizing"
    BY <1>5, <1>8
  <2>2. Sited(a) /\ Covers(a, settled[t])
    BY <1>1, <1>5, <1>6, <1>8, <2>1 DEF Sited, Covers
  <2> QED
    BY <1>1, <1>3, <1>4, <1>5, <2>2, BecomesOther DEF Indexed
<1> QED
  BY <1>7, <1>8

LEMMA Vectorized ==
    ASSUME Typed, OnlyFacts, NothingDropped, NEW w \in Workers, VectorizeMemories(w)
    PROVE  \E a : Becomes(w, a)
<1> DEFINE plan == worker[w].plan
           t == worker[w].turn
           a == [worker[w] EXCEPT !.at = "writing"]
<1>1. /\ worker[w] \in Attempt /\ "writing" \in Stations /\ UNCHANGED settled
      /\ worker[w].at = "vectorizing" /\ worker[w].next = 1 /\ t \in Turns
      /\ plan \in Seq(Change) /\ plan # <<>>
  BY DEF Typed, WorkersTyped, Stations, VectorizeMemories, Sited, Attempt
<1>2. /\ a = [at |-> "writing", turn |-> t, next |-> 1, plan |-> plan]
      /\ a \in Attempt
  BY <1>1, Going
<1>3. worker' = [worker EXCEPT ![w] = a]
  BY DEF VectorizeMemories, Goto
<1> HIDE DEF a
<1>4. a.at = "writing" /\ a.turn = t /\ a.plan = plan /\ a.next = 1
  BY <1>2
<1>5. 1 <= Len(plan) /\ \A m \in DOMAIN plan : ~(m < 1)
  BY <1>1
<1>6. Facts(t) \subseteq Slots(plan) \cup settled[t]
  BY <1>1 DEF NothingDropped, Covers
<1>7. Sited(a) /\ Covers(a, settled[t])
  BY <1>1, <1>4, <1>5, <1>6 DEF Sited, Covers
<1> QED
  BY <1>1, <1>2, <1>3, <1>4, <1>7, BecomesOther DEF Indexed

LEMMA Claimed ==
    ASSUME Typed, OnlyFacts, NothingDropped, NEW w \in Workers, ClaimCaptureJob(w)
    PROVE  \E a : Becomes(w, a)
<1>1. worker \in [Workers -> Attempt] /\ Sited(worker[w]) /\ worker[w].at = "idle"
      /\ UNCHANGED settled
  BY DEF Typed, WorkersTyped, ClaimCaptureJob
<1>2. CASE UNCHANGED worker
  <2>1. worker' = [worker EXCEPT ![w] = worker[w]]
    BY <1>1, <1>2
  <2>2. Carries(worker[w], settled'[worker[w].turn])
    BY <1>1, NothingToCover DEF Carries
  <2> QED
    BY <1>1, <2>1, <2>2 DEF Becomes, Indexed
<1>3. CASE \E t \in Turns : worker' = [worker EXCEPT ![w] =
                               [Idle EXCEPT !.at = "indexing", !.turn = t]]
  <2>1. PICK t \in Turns : worker' = [worker EXCEPT ![w] =
                               [Idle EXCEPT !.at = "indexing", !.turn = t]]
    BY <1>3
  <2> DEFINE a == [at |-> "indexing", turn |-> t, next |-> 1, plan |-> <<>>]
  <2>2. worker' = [worker EXCEPT ![w] = a]
    BY <2>1, Claiming
  <2>3. <<>> \in Seq(Change)
    OBVIOUS
  <2>4. a \in Attempt /\ Sited(a) /\ a.at = "indexing" /\ Slots(a.plan) = {}
    BY <2>3, NoSlots DEF Attempt, Sited, Stations
  <2> HIDE DEF a
  <2>5. Carries(a, settled'[a.turn])
    BY <2>4, NothingToCover DEF Carries
  <2> QED
    BY <2>2, <2>4, <2>5 DEF Becomes, Indexed
<1> QED
  BY <1>2, <1>3 DEF ClaimCaptureJob

\* A step of a worker: settled facts stay, and its attempt drops none.
LEMMA WorkerStep ==
    ASSUME Typed, OnlyFacts, NothingDropped, NEW w \in Workers,
           Work(w) \/ AttemptFails(w) \/ AttemptLost(w)
    PROVE  Grows /\ \E a : Becomes(w, a)
<1>1. CASE PlanCandidate(w)
  <2> DEFINE t == worker[w].turn
  <2>1. PICK a, s : /\ worker' = [worker EXCEPT ![w] = a] /\ a.turn = t
                    /\ a.at = "planning"
                    /\ s \subseteq Facts(t) /\ Settles(t, s)
                    /\ Carries(a, settled[t] \cup s)
    BY <1>1, PlanStep
  <2>2. t \in Turns /\ worker[w].at = "planning"
    BY <1>1 DEF PlanCandidate, Typed, WorkersTyped, Sited
  <2>3. Grows
    BY <2>1, <2>2, SettlesGrows
  <2>4. settled'[a.turn] = settled[t] \cup s
    BY <2>1 DEF Settles
  <2> QED
    BY <2>1, <2>2, <2>3, <2>4 DEF Becomes, Indexed
<1>2. CASE WriteChange(w)
  <2> DEFINE t == worker[w].turn
  <2>1. PICK a, s : /\ worker' = [worker EXCEPT ![w] = a] /\ a.turn = t
                    /\ a.at \in {"writing", "done"}
                    /\ s \subseteq Facts(t) /\ Settles(t, s)
                    /\ Carries(a, settled[t] \cup s)
    BY <1>2, WriteStep
  <2>2. t \in Turns /\ worker[w].at = "writing"
    BY <1>2 DEF WriteChange, Typed, WorkersTyped, Sited
  <2>3. Grows
    BY <2>1, <2>2, SettlesGrows
  <2>4. settled'[a.turn] = settled[t] \cup s
    BY <2>1 DEF Settles
  <2> QED
    BY <2>1, <2>2, <2>3, <2>4 DEF Becomes, Indexed
<1>3. CASE IndexMessages(w)
  BY <1>3, Indexing, UnchangedGrows DEF IndexMessages
<1>4. CASE PlanDone(w)
  BY <1>4, Planned, UnchangedGrows DEF PlanDone
<1>5. CASE VectorizeMemories(w)
  BY <1>5, Vectorized, UnchangedGrows DEF VectorizeMemories
<1>6. CASE ClaimCaptureJob(w)
  BY <1>6, Claimed, UnchangedGrows DEF ClaimCaptureJob
<1>7. CASE WriteRefused(w) \/ AttemptFails(w)
  BY <1>7, Failing, UnchangedGrows DEF WriteRefused, AttemptFails
<1>8. CASE CompleteCaptureJob(w) \/ FailCaptureJob(w) \/ AttemptLost(w)
  BY <1>8, BecomesIdle, UnchangedGrows DEF CompleteCaptureJob, FailCaptureJob, AttemptLost
<1> QED
  BY <1>1, <1>2, <1>3, <1>4, <1>5, <1>6, <1>7, <1>8 DEF Work

------------------------------------------------------------------------------
(* What a step makes of the attempts, of the outbox and of the store.      *)

LEMMA StepWorkers ==
    ASSUME Typed, OnlyFacts, NothingDropped, [Next]_vars
    PROVE  /\ WorkersTyped' /\ OnlyFacts' /\ NothingDropped' /\ Grows
           /\ \A v \in Workers :
                 worker'[v].at \in Indexed =>
                    \/ IndexMessages(v) /\ worker'[v].turn = worker[v].turn
                    \/ worker[v].at \in Indexed /\ worker'[v].turn = worker[v].turn
<1>1. CASE UNCHANGED <<worker, settled>>
  <2>1. WorkersTyped'
    BY <1>1 DEF Typed, WorkersTyped
  <2>2. OnlyFacts'
    BY <1>1 DEF OnlyFacts
  <2>3. NothingDropped'
    BY <1>1 DEF NothingDropped
  <2>4. Grows
    BY <1>1, UnchangedGrows
  <2> QED
    BY <1>1, <2>1, <2>2, <2>3, <2>4
<1>2. CASE \E w \in Workers : Work(w) \/ AttemptFails(w) \/ AttemptLost(w)
  <2>1. PICK w \in Workers : Work(w) \/ AttemptFails(w) \/ AttemptLost(w)
    BY <1>2
  <2>2. Grows
    BY <2>1, WorkerStep
  <2>3. PICK a : Becomes(w, a)
    BY <2>1, WorkerStep
  <2>4. /\ worker \in [Workers -> Attempt]
        /\ \A v \in Workers : Sited(worker[v]) /\ Covers(worker[v], settled[worker[v].turn])
        /\ \A v \in Workers : worker[v].at # "idle" =>
              worker[v].turn \in Turns /\ Slots(worker[v].plan) \subseteq Facts(worker[v].turn)
    BY DEF Typed, WorkersTyped, Sited, OnlyFacts, NothingDropped
  <2>5. Carries(a, settled'[a.turn]) /\ a \in Attempt
    BY <2>3 DEF Becomes, Carries
  <2>6. /\ worker' \in [Workers -> Attempt] /\ worker'[w] = a
        /\ \A v \in Workers \ {w} : worker'[v] = worker[v]
    BY <2>3, <2>4, <2>5 DEF Becomes
  <2>7. \A v \in Workers : Carries(worker'[v], settled'[worker'[v].turn])
    <3> SUFFICES ASSUME NEW v \in Workers
                 PROVE  Carries(worker'[v], settled'[worker'[v].turn])
      OBVIOUS
    <3>1. CASE v = w
      BY <2>5, <2>6, <3>1
    <3>2. CASE v # w
      <4>1. worker'[v] = worker[v] /\ worker[v] \in Attempt /\ Sited(worker[v])
        BY <2>4, <2>6, <3>2
      <4>2. Covers(worker[v], settled'[worker[v].turn])
        <5>1. CASE worker[v].at = "idle"
          BY <5>1, NothingToCover
        <5>2. CASE worker[v].at # "idle"
          <6>1. settled[worker[v].turn] \subseteq settled'[worker[v].turn]
            BY <2>2, <2>4, <5>2 DEF Grows
          <6> QED
            BY <2>4, <4>1, <6>1, StillSettled
        <5> QED
          BY <5>1, <5>2
      <4> QED
        BY <2>4, <4>1, <4>2 DEF Carries
    <3> QED
      BY <3>1, <3>2
  <2>8. WorkersTyped'
    BY <2>6, <2>7 DEF WorkersTyped, Carries
  <2>9. OnlyFacts'
    BY <2>2, <2>7 DEF OnlyFacts, Carries, Grows
  <2>10. NothingDropped'
    BY <2>7 DEF NothingDropped, Carries
  <2>11. ASSUME NEW v \in Workers, worker'[v].at \in Indexed
         PROVE  \/ IndexMessages(v) /\ worker'[v].turn = worker[v].turn
                \/ worker[v].at \in Indexed /\ worker'[v].turn = worker[v].turn
    <3>1. CASE v # w
      BY <2>6, <2>11, <3>1
    <3>2. CASE v = w /\ worker[v].at \in Indexed /\ a.turn = worker[v].turn
      BY <2>6, <3>2
    <3>3. CASE v = w /\ IndexMessages(v)
      <4>1. worker[w] \in Attempt /\ \A s \in Stations :
               [worker[w] EXCEPT !.at = s].turn = worker[w].turn
        BY <2>4, Going
      <4>2. worker'[w] = [worker[w] EXCEPT !.at = "planning"]
            \/ worker'[w] = [worker[w] EXCEPT !.at = "failing"]
        BY <2>4, <3>3 DEF IndexMessages, Goto
      <4>3. "planning" \in Stations /\ "failing" \in Stations
        BY DEF Stations
      <4> QED
        BY <3>3, <4>1, <4>2, <4>3
    <3> QED
      BY <2>3, <2>6, <2>11, <3>1, <3>2, <3>3 DEF Becomes
  <2> QED
    BY <2>2, <2>8, <2>9, <2>10, <2>11
<1>3. CASE UNCHANGED vars
  BY <1>1, <1>3 DEF vars
<1> QED
  BY <1>1, <1>2, <1>3, Workings

LEMMA ReleasedJob ==
    ASSUME NEW t \in Turns, job[t] \in Job, NEW s \in JobStatus
    PROVE  /\ Released(t, s) \in Job /\ Released(t, s).status = s
           /\ Released(t, s).attempt = job[t].attempt
           /\ [Released(t, s) EXCEPT !.due = FALSE] \in Job
           /\ [Released(t, s) EXCEPT !.due = FALSE].status = s
           /\ [Released(t, s) EXCEPT !.due = FALSE].attempt = job[t].attempt
<1> DEFINE a == [job[t] EXCEPT !.status = s]
           b == [a EXCEPT !.owner = None]
           c == [b EXCEPT !.leased = FALSE]
           d == [c EXCEPT !.due = FALSE]
<1>1. a \in Job /\ a.status = s /\ a.attempt = job[t].attempt
  BY DEF Job
<1>2. Released(t, s) = c
  BY DEF Released
<1> HIDE DEF a
<1>3. b \in Job /\ b.status = s /\ b.attempt = job[t].attempt
  BY <1>1 DEF Job
<1> HIDE DEF b
<1>4. c \in Job /\ c.status = s /\ c.attempt = job[t].attempt
  BY <1>3 DEF Job
<1> HIDE DEF c
<1>5. d \in Job /\ d.status = s /\ d.attempt = job[t].attempt
  BY <1>4 DEF Job
<1> QED
  BY <1>2, <1>4, <1>5

LEMMA Sweeping ==
    ASSUME JobsTyped
    PROVE  /\ Swept \in [Turns -> Job]
           /\ \A t \in Turns : \/ Swept[t] = job[t]
                               \/ /\ job[t].status = "executing"
                                  /\ Swept[t].status = "failed"
<1> SUFFICES ASSUME NEW t \in Turns
             PROVE  /\ Swept[t] \in Job
                    /\ \/ Swept[t] = job[t]
                       \/ job[t].status = "executing" /\ Swept[t].status = "failed"
  BY DEF Swept
<1>1. job[t] \in Job
  BY DEF JobsTyped
<1>2. CASE ~Exhausted(t)
  BY <1>1, <1>2 DEF Swept
<1>3. CASE Exhausted(t)
  <2> DEFINE a == [job[t] EXCEPT !.status = "failed"]
             b == [a EXCEPT !.owner = None]
  <2>1. a \in Job /\ a.status = "failed"
    BY <1>1 DEF Job, JobStatus
  <2>2. Swept[t] = b
    BY <1>3 DEF Swept
  <2> HIDE DEF a
  <2>3. b \in Job /\ b.status = "failed"
    BY <2>1 DEF Job
  <2> QED
    BY <1>3, <2>2, <2>3 DEF Exhausted
<1> QED
  BY <1>2, <1>3

\* What a claim makes of a job that is within its attempts.
LEMMA Taking ==
    ASSUME NEW j \in Job, NEW w \in Workers, j.attempt < MaxAttempts,
           NEW k, k = [j EXCEPT !.status = "executing", !.attempt = @ + 1,
                                !.leased = TRUE, !.owner = w]
    PROVE  k \in Job /\ k.status = "executing"
<1> DEFINE a == [j EXCEPT !.status = "executing"]
           b == [a EXCEPT !.attempt = j.attempt + 1]
           c == [b EXCEPT !.leased = TRUE]
           d == [c EXCEPT !.owner = w]
<1>1. a \in Job /\ a.status = "executing" /\ a.attempt = j.attempt
  BY DEF Job, JobStatus
<1>2. j.attempt + 1 \in 0..MaxAttempts
  BY MemoryAssumption DEF MemoryAssumption, Job
<1>3. k = d
  BY <1>1
<1> HIDE DEF a
<1>4. b \in Job /\ b.status = "executing"
  BY <1>1, <1>2 DEF Job
<1> HIDE DEF b
<1>5. c \in Job /\ c.status = "executing"
  BY <1>4 DEF Job
<1> HIDE DEF c
<1>6. d \in Job /\ d.status = "executing"
  BY <1>5 DEF Job
<1> QED
  BY <1>3, <1>6

\* How a job may change: it completes by an attempt that is done, and a
\* deleted one stays deleted.
Courses(t) ==
    /\ job'[t].status = "completed" =>
          \/ job[t].status = "completed"
          \/ \E w \in Workers : /\ CompleteCaptureJob(w) /\ worker[w].turn = t
                                /\ worker[w].at = "done" /\ job[t].status = "executing"
    /\ job[t].status = "deleted" => job'[t].status = "deleted"

\* One job changes, to k.
LEMMA OneJob ==
    ASSUME JobsTyped, NEW t \in Turns, NEW k \in Job, job' = [job EXCEPT ![t] = k],
           k.status \in {"none", "pending"} => k.attempt < MaxAttempts,
           k.status = "completed" =>
              \/ job[t].status = "completed"
              \/ \E w \in Workers : /\ CompleteCaptureJob(w) /\ worker[w].turn = t
                                    /\ worker[w].at = "done" /\ job[t].status = "executing",
           job[t].status = "deleted" => k.status = "deleted"
    PROVE  JobsTyped' /\ \A u \in Turns : Courses(u)
<1>1. job' \in [Turns -> Job] /\ job'[t] = k /\ \A u \in Turns \ {t} : job'[u] = job[u]
  BY DEF JobsTyped
<1>2. JobsTyped'
  BY <1>1 DEF JobsTyped
<1>3. Courses(t)
  BY <1>1 DEF Courses
<1>4. \A u \in Turns \ {t} : Courses(u)
  BY <1>1 DEF Courses
<1> QED
  BY <1>2, <1>3, <1>4

LEMMA ClaimStep ==
    ASSUME Typed, NEW w \in Workers, ClaimCaptureJob(w)
    PROVE  JobsTyped' /\ \A t \in Turns : Courses(t)
<1>1. /\ job \in [Turns -> Job] /\ Swept \in [Turns -> Job]
      /\ \A t \in Turns : \/ Swept[t] = job[t]
                          \/ job[t].status = "executing" /\ Swept[t].status = "failed"
      /\ \A t \in Turns : job[t].status \in {"none", "pending"} =>
                              job[t].attempt < MaxAttempts
  BY Sweeping DEF Typed, JobsTyped
<1>2. CASE job' = Swept
  <2>1. JobsTyped'
    BY <1>1, <1>2 DEF JobsTyped
  <2>2. \A t \in Turns : Courses(t)
    BY <1>1, <1>2 DEF Courses
  <2> QED
    BY <2>1, <2>2
<1>3. CASE \E t \in Turns :
             /\ Claimable(t)
             /\ job' = [Swept EXCEPT ![t].status = "executing", ![t].attempt = @ + 1,
                           ![t].leased = TRUE, ![t].owner = w]
  <2>1. PICK t \in Turns :
             /\ Claimable(t)
             /\ job' = [Swept EXCEPT ![t].status = "executing", ![t].attempt = @ + 1,
                           ![t].leased = TRUE, ![t].owner = w]
    BY <1>3
  <2>2. /\ job[t].attempt < MaxAttempts /\ job[t].status \in {"pending", "executing"}
        /\ Swept[t] = job[t]
    <3>1. job[t].attempt \in 0..MaxAttempts
      BY <1>1 DEF Job
    <3>2. job[t].attempt < MaxAttempts /\ job[t].status \in {"pending", "executing"}
      BY <1>1, <2>1 DEF Claimable
    <3>3. ~Exhausted(t)
      BY <3>1, <3>2, MemoryAssumption DEF MemoryAssumption, Exhausted
    <3> QED
      BY <3>2, <3>3 DEF Swept
  <2> DEFINE k == [job[t] EXCEPT !.status = "executing", !.attempt = @ + 1,
                                 !.leased = TRUE, !.owner = w]
  <2>3. job' = [Swept EXCEPT ![t] = k]
    BY <1>1, <2>1, <2>2
  <2>4. k \in Job /\ k.status = "executing"
    BY <1>1, <2>2, Taking
  <2> HIDE DEF k
  <2>5. job' \in [Turns -> Job] /\ job'[t] = k /\ \A u \in Turns \ {t} : job'[u] = Swept[u]
    BY <1>1, <2>3, <2>4
  <2>6. JobsTyped'
    <3> SUFFICES ASSUME NEW u \in Turns, job'[u].status \in {"none", "pending"}
                 PROVE  job'[u].attempt < MaxAttempts
      BY <2>5 DEF JobsTyped
    <3> QED
      BY <1>1, <2>4, <2>5
  <2>7. \A u \in Turns : Courses(u)
    <3> SUFFICES ASSUME NEW u \in Turns PROVE Courses(u)
      OBVIOUS
    <3>1. CASE u = t
      BY <2>2, <2>4, <2>5, <3>1 DEF Courses
    <3>2. CASE u # t
      BY <1>1, <2>5, <3>2 DEF Courses
    <3> QED
      BY <3>1, <3>2
  <2> QED
    BY <2>6, <2>7
<1> QED
  BY <1>2, <1>3 DEF ClaimCaptureJob

LEMMA SameJobs ==
    ASSUME Typed, UNCHANGED job
    PROVE  JobsTyped' /\ \A t \in Turns : Courses(t)
BY DEF Typed, JobsTyped, Courses

LEMMA StepJobs ==
    ASSUME Typed, [Next]_vars
    PROVE  JobsTyped' /\ \A t \in Turns : Courses(t)
<1>1. /\ JobsTyped /\ job \in [Turns -> Job]
      /\ \A t \in Turns : /\ job[t] \in Job
                          /\ job[t].status \in JobStatus /\ job[t].attempt \in 0..MaxAttempts
      /\ \A t \in Turns : job[t].status \in {"none", "pending"} =>
                              job[t].attempt < MaxAttempts
  BY DEF Typed, JobsTyped, Job
<1>2. \A w \in Workers : worker[w].at # "idle" => worker[w].turn \in Turns
  BY DEF Typed, WorkersTyped, Sited
<1>3. CASE job' = job
  BY <1>3, SameJobs
<1>4. ASSUME NEW w \in Workers, ClaimCaptureJob(w)
      PROVE  JobsTyped' /\ \A t \in Turns : Courses(t)
  BY <1>4, ClaimStep
<1>5. ASSUME NEW w \in Workers, CompleteCaptureJob(w)
      PROVE  JobsTyped' /\ \A t \in Turns : Courses(t)
  <2> DEFINE t == worker[w].turn
             k == Released(t, "completed")
  <2>1. t \in Turns /\ worker[w].at = "done"
    BY <1>2, <1>5 DEF CompleteCaptureJob
  <2>2. k \in Job /\ k.status = "completed"
    BY <1>1, <2>1, ReleasedJob DEF JobStatus
  <2>3. CASE Holds(w)
    <3>1. job' = [job EXCEPT ![t] = k] /\ job[t].status = "executing"
      BY <1>5, <2>3 DEF CompleteCaptureJob, Holds
    <3> HIDE DEF k
    <3> QED
      BY <1>1, <1>5, <2>1, <2>2, <3>1, OneJob
  <2>4. CASE ~Holds(w)
    BY <1>5, <2>4, SameJobs DEF CompleteCaptureJob
  <2> QED
    BY <2>3, <2>4
<1>6. ASSUME NEW w \in Workers, FailCaptureJob(w)
      PROVE  JobsTyped' /\ \A t \in Turns : Courses(t)
  <2> DEFINE t == worker[w].turn
             s == IF job[t].attempt >= MaxAttempts THEN "failed" ELSE "pending"
             k == [Released(t, s) EXCEPT !.due = FALSE]
  <2>1. t \in Turns
    BY <1>2, <1>6 DEF FailCaptureJob
  <2>2. k \in Job /\ k.status = s /\ k.attempt = job[t].attempt
    <3>1. s \in JobStatus
      BY DEF JobStatus
    <3> HIDE DEF s
    <3> QED
      BY <1>1, <2>1, <3>1, ReleasedJob
  <2>3. s \in {"failed", "pending"} /\ (s = "pending" => job[t].attempt < MaxAttempts)
    BY <1>1, <2>1, MemoryAssumption DEF MemoryAssumption
  <2>4. CASE Holds(w)
    <3>1. job' = [job EXCEPT ![t] = k] /\ job[t].status = "executing"
      BY <1>6, <2>4 DEF FailCaptureJob, Holds
    <3> HIDE DEF k, s
    <3> QED
      BY <1>1, <2>1, <2>2, <2>3, <3>1, OneJob
  <2>5. CASE ~Holds(w)
    BY <1>6, <2>5, SameJobs DEF FailCaptureJob
  <2> QED
    BY <2>4, <2>5
<1>7. ASSUME NEW t \in Turns, EnqueueCaptureJob(t)
      PROVE  JobsTyped' /\ \A u \in Turns : Courses(u)
  <2> DEFINE a == [job[t] EXCEPT !.status = "pending"]
             k == [a EXCEPT !.due = TRUE]
  <2>1. job[t].status = "none" /\ job[t].attempt < MaxAttempts
    BY <1>1, <1>7 DEF EnqueueCaptureJob, Enqueued
  <2>2. job' = [job EXCEPT ![t] = k]
    BY <1>1, <1>7 DEF EnqueueCaptureJob
  <2>3. a \in Job /\ a.status = "pending" /\ a.attempt = job[t].attempt
    BY <1>1 DEF Job, JobStatus
  <2> HIDE DEF a
  <2>4. k \in Job /\ k.status = "pending" /\ k.attempt = job[t].attempt
    BY <2>3 DEF Job
  <2> HIDE DEF k
  <2> QED
    BY <1>1, <2>1, <2>2, <2>4, OneJob
<1>8. ASSUME NEW t \in Turns, DeleteConversation(t)
      PROVE  JobsTyped' /\ \A u \in Turns : Courses(u)
  <2> DEFINE k == [Released(t, "deleted") EXCEPT !.due = FALSE]
  <2>1. job' = [job EXCEPT ![t] = k]
    BY <1>8 DEF DeleteConversation
  <2>2. k \in Job /\ k.status = "deleted"
    BY <1>1, ReleasedJob DEF JobStatus
  <2> HIDE DEF k
  <2> QED
    BY <1>1, <2>1, <2>2, OneJob
<1>9. ASSUME NEW t \in Turns, BecomesDue(t)
      PROVE  JobsTyped' /\ \A u \in Turns : Courses(u)
  <2> DEFINE k == [job[t] EXCEPT !.due = TRUE]
  <2>1. job' = [job EXCEPT ![t] = k]
    BY <1>9 DEF BecomesDue
  <2>2. k \in Job /\ k.status = job[t].status /\ k.attempt = job[t].attempt
    BY <1>1 DEF Job
  <2> HIDE DEF k
  <2> QED
    BY <1>1, <2>1, <2>2, OneJob
<1>10. ASSUME NEW t \in Turns, LeaseExpires(t)
       PROVE  JobsTyped' /\ \A u \in Turns : Courses(u)
  <2> DEFINE k == [job[t] EXCEPT !.leased = FALSE]
  <2>1. job' = [job EXCEPT ![t] = k]
    BY <1>10 DEF LeaseExpires
  <2>2. k \in Job /\ k.status = job[t].status /\ k.attempt = job[t].attempt
    BY <1>1 DEF Job
  <2> HIDE DEF k
  <2> QED
    BY <1>1, <2>1, <2>2, OneJob
<1>11. CASE UNCHANGED vars
  BY <1>3, <1>11 DEF vars
<1> QED
  BY <1>3, <1>4, <1>5, <1>6, <1>7, <1>8, <1>9, <1>10, <1>11, JobWriters

LEMMA StepIndex ==
    ASSUME Typed, [Next]_vars
    PROVE  /\ indexed' \subseteq Turns
           /\ \A t \in indexed : t \in indexed' \/ job'[t].status = "deleted"
<1>1. indexed \subseteq Turns /\ job \in [Turns -> Job]
  BY DEF Typed, StoreTyped, JobsTyped
<1>2. CASE indexed' = indexed
  BY <1>1, <1>2
<1>3. ASSUME NEW t \in Turns, DeleteConversation(t)
      PROVE  /\ indexed' \subseteq Turns
             /\ \A u \in indexed : u \in indexed' \/ job'[u].status = "deleted"
  <2>1. indexed' = indexed \ {t}
        /\ job' = [job EXCEPT ![t] = [Released(t, "deleted") EXCEPT !.due = FALSE]]
    BY <1>3 DEF DeleteConversation
  <2>2. [Released(t, "deleted") EXCEPT !.due = FALSE].status = "deleted"
    BY <1>1, ReleasedJob DEF JobStatus
  <2>3. job'[t].status = "deleted"
    BY <1>1, <2>1, <2>2
  <2> QED
    BY <1>1, <2>1, <2>3
<1>4. CASE ReindexMessages
  BY <1>1, <1>4 DEF ReindexMessages, UpsertMessageEmbeddings
<1>5. ASSUME NEW w \in Workers, IndexMessages(w)
      PROVE  indexed' \subseteq Turns /\ indexed \subseteq indexed'
  <2>1. worker[w].turn \in Turns
    BY <1>5 DEF IndexMessages, Typed, WorkersTyped, Sited
  <2>2. indexed' = indexed \cup {worker[w].turn} \/ indexed' = indexed
    BY <1>5 DEF IndexMessages, UpsertMessageEmbeddings
  <2> QED
    BY <1>1, <2>1, <2>2
<1>6. CASE UNCHANGED vars
  BY <1>2, <1>6 DEF vars
<1> QED
  BY <1>2, <1>3, <1>4, <1>5, <1>6, IndexWriters

LEMMA StepStays ==
    ASSUME IInv, [Next]_vars
    PROVE  StaysIndexed'
<1>1. /\ \A v \in Workers :
            worker'[v].at \in Indexed =>
               \/ IndexMessages(v) /\ worker'[v].turn = worker[v].turn
               \/ worker[v].at \in Indexed /\ worker'[v].turn = worker[v].turn
      /\ \A t \in Turns : job[t].status = "deleted" => job'[t].status = "deleted"
      /\ \A t \in indexed : t \in indexed' \/ job'[t].status = "deleted"
  BY StepWorkers, StepJobs, StepIndex DEF IInv, Courses
<1> SUFFICES ASSUME NEW v \in Workers, worker'[v].at \in Indexed
             PROVE  worker'[v].turn \in indexed' \/ job'[worker'[v].turn].status = "deleted"
  BY DEF StaysIndexed
<1>2. CASE IndexMessages(v) /\ worker'[v].turn = worker[v].turn
  <2>1. CASE MessagesExist(worker[v].turn)
    BY <1>2, <2>1 DEF IndexMessages, UpsertMessageEmbeddings
  <2>2. CASE ~MessagesExist(worker[v].turn)
    <3>1. worker \in [Workers -> Attempt] /\ "failing" \in Stations
      BY DEF IInv, Typed, WorkersTyped, Stations
    <3>2. worker'[v] = [worker[v] EXCEPT !.at = "failing"]
      BY <1>2, <2>2, <3>1 DEF IndexMessages, Goto
    <3>3. worker'[v].at = "failing"
      BY <3>1, <3>2, Going
    <3> QED
      BY <3>3 DEF Indexed
  <2> QED
    BY <2>1, <2>2
<1>3. CASE worker[v].at \in Indexed /\ worker'[v].turn = worker[v].turn
  <2>1. worker[v].turn \in indexed \/ job[worker[v].turn].status = "deleted"
    BY <1>3 DEF IInv, StaysIndexed
  <2>2. worker[v].turn \in Turns
    BY <1>3 DEF IInv, Typed, WorkersTyped, Sited, Indexed
  <2> QED
    BY <1>1, <1>3, <2>1, <2>2
<1> QED
  BY <1>1, <1>2, <1>3

LEMMA StepCompletes ==
    ASSUME IInv, [Next]_vars
    PROVE  CompletedIsCaptured'
<1>1. /\ Grows
      /\ \A t \in Turns : Courses(t)
      /\ \A t \in indexed : t \in indexed' \/ job'[t].status = "deleted"
  BY StepWorkers, StepJobs, StepIndex DEF IInv
<1> SUFFICES ASSUME NEW t \in Turns, job'[t].status = "completed"
             PROVE  settled'[t] = Facts(t) /\ t \in indexed'
  BY DEF CompletedIsCaptured, Facts
<1>2. Facts(t) \subseteq settled[t] /\ t \in indexed
  <2>1. CASE job[t].status = "completed"
    BY <2>1 DEF IInv, CompletedIsCaptured, Facts
  <2>2. ASSUME NEW w \in Workers, worker[w].turn = t, worker[w].at = "done",
               job[t].status = "executing"
        PROVE  Facts(t) \subseteq settled[t] /\ t \in indexed
    <3>1. Facts(t) \subseteq settled[t]
      BY <2>2 DEF IInv, NothingDropped, Covers
    <3>2. t \in indexed
      BY <2>2 DEF IInv, StaysIndexed, Indexed
    <3> QED
      BY <3>1, <3>2
  <2> QED
    BY <1>1, <2>1, <2>2 DEF Courses
<1>3. settled'[t] = Facts(t)
  BY <1>1, <1>2 DEF Grows
<1>4. t \in indexed'
  BY <1>1, <1>2
<1> QED
  BY <1>3, <1>4

------------------------------------------------------------------------------
(* Greatest elements, for the pages of a reindex.                          *)

(* A set of numbers that is not empty and has a bound has a greatest.      *)
LEMMA Greatest ==
    ASSUME NEW S \in SUBSET Nat, S # {}, NEW b \in Nat, \A x \in S : x <= b
    PROVE  \E m \in S : \A x \in S : x <= m
<1> DEFINE T == {n \in Nat : \A x \in S : x <= n}
           less == OpToRel(<, Nat)
<1>1. b \in T /\ T \subseteq Nat
  OBVIOUS
<1>2. IsWellFoundedOn(less, Nat)
  BY NatLessThanWellFounded
<1>3. \A x, y \in Nat : x < y => <<x, y>> \in less
  BY DEF OpToRel
<1> HIDE DEF less, T
<1>4. PICK m \in T : \A y \in T : ~ (<<y, m>> \in less)
  BY <1>1, <1>2, WFMin
<1>5. m \in Nat /\ \A x \in S : x <= m
  BY <1>4 DEF T
<1>6. m \in S
  <2> SUFFICES ASSUME m \notin S PROVE FALSE
    OBVIOUS
  <2>1. \A x \in S : x < m
    BY <1>5
  <2>2. PICK y \in S : y \in Nat /\ y < m
    BY <2>1
  <2>3. m - 1 \in Nat /\ m - 1 < m
    BY <1>5, <2>2
  <2>4. \A x \in S : x <= m - 1
    BY <1>5, <2>1
  <2>5. m - 1 \in T
    BY <2>3, <2>4 DEF T
  <2>6. <<m - 1, m>> \in less
    BY <1>3, <1>5, <2>3
  <2> QED
    BY <1>4, <2>5, <2>6
<1> QED
  BY <1>5, <1>6

LEMMA MaxBounds ==
    ASSUME NEW S \in SUBSET Nat, S # {}, NEW b \in Nat, \A x \in S : x <= b
    PROVE  Max(S) \in S /\ \A x \in S : x <= Max(S)
<1>1. \E m \in S : \A x \in S : m >= x
  BY Greatest
<1>2. Max(S) \in S /\ \A x \in S : Max(S) >= x
  BY <1>1 DEF Max
<1> QED
  BY <1>2

\* The lookup of a page: ids of rows, the greatest of them, and their contents.
LEMMA Paging ==
    ASSUME StoreTyped, NEW after
    PROVE  /\ DOMAIN Page(after) \subseteq Ids
           /\ \A i \in DOMAIN Page(after) : Page(after)[i] \in Contents \cup {UserText}
           /\ DOMAIN Page(after) # {} => Max(DOMAIN Page(after)) \in Ids
<1>1. Live \subseteq Ids /\ \A i \in Live : memory[i].content \in Contents \cup {UserText}
  BY Memories DEF Row
<1>2. DOMAIN Page(after) \subseteq Live
      /\ \A i \in DOMAIN Page(after) : Page(after)[i] = memory[i].content
  BY DEF Page
<1>3. DOMAIN Page(after) # {} => Max(DOMAIN Page(after)) \in Ids
  <2> SUFFICES ASSUME DOMAIN Page(after) # {} PROVE Max(DOMAIN Page(after)) \in Ids
    OBVIOUS
  <2> DEFINE S == DOMAIN Page(after)
  <2>1. S \subseteq Ids /\ S # {}
    BY <1>1, <1>2
  <2> HIDE DEF S
  <2>2. S \in SUBSET Nat /\ \A x \in S : x <= MaxMemories
    BY <2>1 DEF Ids
  <2>3. MaxMemories \in Nat
    BY MemoryAssumption DEF MemoryAssumption
  <2>4. Max(S) \in S
    BY <2>1, <2>2, <2>3, MaxBounds
  <2> QED
    BY <2>1, <2>4 DEF S
<1> QED
  BY <1>1, <1>2, <1>3

\* A change an attempt is about to write.
LEMMA Writing ==
    ASSUME Typed, NEW w \in Workers, WriteChange(w)
    PROVE  LET change == worker[w].plan[worker[w].next]
           IN  /\ change.row \in Row
               /\ \/ CanCreate(change.row) /\ CreateMemory(change.row)
                  \/ change.id \in Live /\ UpdateMemory(change.id, change.row)
<1>1. /\ worker[w].at = "writing" /\ worker[w].plan \in Seq(Change)
      /\ worker[w].next \in Nat \ {0} /\ worker[w].next <= Len(worker[w].plan)
  BY DEF Typed, WorkersTyped, Sited, Attempt, WriteChange
<1>2. worker[w].plan[worker[w].next] \in Change
  <2> DEFINE plan == worker[w].plan
             n == worker[w].next
  <2>1. plan \in Seq(Change) /\ n \in Nat \ {0} /\ n <= Len(plan)
    BY <1>1
  <2> HIDE DEF plan, n
  <2>2. plan[n] \in Change
    BY <2>1
  <2> QED
    BY <2>2 DEF plan, n
<1>3. worker[w].plan[worker[w].next].row \in Row
  BY <1>2 DEF Change
<1> QED
  BY <1>3 DEF WriteChange, CanUpdate

\* The user's edit that is under way.
LEMMA Editing ==
    ASSUME Typed, ReplaceWrite
    PROVE  \/ UNCHANGED <<memory, vector>>
           \/ /\ edit[1].id \in Live /\ edit[1].row \in Row
              /\ UpdateMemory(edit[1].id, edit[1].row)
<1>1. edit \in Seq([id : Ids, row : Row]) /\ edit # <<>>
  BY DEF Typed, RequestsTyped, ReplaceWrite
<1>2. edit[1] \in [id : Ids, row : Row]
  <2> DEFINE E == [id : Ids, row : Row]
  <2>1. edit \in Seq(E) /\ edit # <<>>
    BY <1>1
  <2> HIDE DEF E
  <2>2. edit[1] \in E
    BY <2>1
  <2> QED
    BY <2>2 DEF E
<1>3. edit[1].row \in Row
  BY <1>2
<1> QED
  BY <1>3 DEF ReplaceWrite, CanUpdate

LEMMA StepStore ==
    ASSUME Typed, [Next]_vars
    PROVE  StoreTyped'
<1>1. StoreTyped /\ indexed' \subseteq Turns
  BY StepIndex DEF Typed
<1>2. /\ DOMAIN memory \subseteq Ids /\ \A i \in DOMAIN memory : memory[i] \in Row
      /\ Live \subseteq Ids /\ Live \subseteq DOMAIN memory
  BY <1>1, Memories
<1>3. CASE UNCHANGED <<memory, vector>>
  BY <1>1, <1>3 DEF StoreTyped
<1>4. ASSUME NEW row \in Row, CanCreate(row), CreateMemory(row) PROVE StoreTyped'
  BY <1>1, <1>4, Creating DEF StoreTyped
<1>5. ASSUME NEW id \in Live, NEW row \in Row, UpdateMemory(id, row) PROVE StoreTyped'
  <2>1. /\ memory' \in Seq(Row) /\ Len(memory') = Len(memory)
        /\ vector' \in [Ids -> Contents \cup {UserText, None}]
    BY <1>1, <1>5, Updating
  <2> QED
    BY <1>1, <2>1 DEF StoreTyped
<1>6. ASSUME NEW kind \in Kinds, Create(kind) PROVE StoreTyped'
  <2>1. UserRow(kind, NoKey) \in Row
    BY DEF UserRow, Row
  <2> QED
    BY <1>4, <1>6, <2>1 DEF Create
<1>7. CASE ReplaceWrite
  BY <1>3, <1>5, <1>7, Editing
<1>8. ASSUME NEW i \in DOMAIN memory, Delete(i) PROVE StoreTyped'
  <2>1. [memory[i] EXCEPT !.live = FALSE] \in Row
    BY <1>2 DEF Row
  <2>2. memory' = [memory EXCEPT ![i] = [memory[i] EXCEPT !.live = FALSE]]
        /\ vector' = [vector EXCEPT ![i] = None]
    BY <1>8 DEF Delete
  <2>3. memory \in [DOMAIN memory -> Row]
    BY <1>1, <1>2 DEF StoreTyped
  <2>4. memory' \in [DOMAIN memory -> Row]
    BY <2>1, <2>2, <2>3
  <2>5. memory' \in Seq(Row) /\ Len(memory') = Len(memory)
    BY <1>1, <2>4, SameRows
  <2>6. vector' \in [Ids -> Contents \cup {UserText, None}]
    BY <1>1, <1>2, <2>2 DEF StoreTyped
  <2> QED
    BY <1>1, <2>5, <2>6 DEF StoreTyped
<1>9. ASSUME NEW t \in Turns, DeleteConversation(t) PROVE StoreTyped'
  <2>1. memory' = [i \in DOMAIN memory |-> IF memory[i].source = t
                      THEN [memory[i] EXCEPT !.source = None] ELSE memory[i]]
        /\ UNCHANGED vector
    BY <1>9 DEF DeleteConversation
  <2>2. \A i \in DOMAIN memory : [memory[i] EXCEPT !.source = None] \in Row
    BY <1>2 DEF Row
  <2>3. memory' \in [DOMAIN memory -> Row]
    BY <1>2, <2>1, <2>2
  <2>4. memory' \in Seq(Row) /\ Len(memory') = Len(memory)
    BY <1>1, <2>3, SameRows
  <2> QED
    BY <1>1, <2>1, <2>4 DEF StoreTyped
<1>10. CASE UpsertMemoryEmbeddings
  <2>1. /\ vector' = [i \in Ids |-> IF i \in Live /\ i \in DOMAIN reindex.page
                                    THEN reindex.page[i] ELSE vector[i]]
        /\ UNCHANGED memory
    BY <1>10 DEF UpsertMemoryEmbeddings
  <2>2. \A i \in DOMAIN reindex.page : reindex.page[i] \in Contents \cup {UserText}
    BY DEF Typed, RequestsTyped
  <2>3. vector' \in [Ids -> Contents \cup {UserText, None}]
    BY <1>1, <2>1, <2>2 DEF StoreTyped
  <2> QED
    BY <1>1, <2>1, <2>3 DEF StoreTyped
<1>11. ASSUME NEW w \in Workers, WriteChange(w) PROVE StoreTyped'
  BY <1>4, <1>5, <1>11, Writing
<1>12. CASE UNCHANGED vars
  BY <1>3, <1>12 DEF vars
<1> QED
  BY <1>3, <1>6, <1>7, <1>8, <1>9, <1>10, <1>11, <1>12, StoreWriters

LEMMA Spending ==
    ASSUME spent \in [faults : 0..MaxFaults, requests : 0..MaxRequests], Fault \/ Request
    PROVE  spent' \in [faults : 0..MaxFaults, requests : 0..MaxRequests]
<1>1. spent.faults \in 0..MaxFaults /\ spent.requests \in 0..MaxRequests
      /\ spent = [faults |-> spent.faults, requests |-> spent.requests]
  OBVIOUS
<1>2. CASE Fault
  <2>1. spent.faults + 1 \in 0..MaxFaults
    BY <1>1, <1>2, MemoryAssumption DEF MemoryAssumption, Fault
  <2> QED
    BY <1>1, <1>2, <2>1 DEF Fault
<1>3. CASE Request
  <2>1. spent.requests + 1 \in 0..MaxRequests
    BY <1>1, <1>3, MemoryAssumption DEF MemoryAssumption, Request
  <2> QED
    BY <1>1, <1>3, <2>1 DEF Request
<1> QED
  BY <1>2, <1>3

LEMMA StepRequests ==
    ASSUME Typed, [Next]_vars
    PROVE  RequestsTyped'
<1>1. RequestsTyped /\ StoreTyped
      /\ spent \in [faults : 0..MaxFaults, requests : 0..MaxRequests]
  BY DEF Typed, RequestsTyped
<1>2. CASE UNCHANGED <<edit, reindex, spent>>
  BY <1>1, <1>2 DEF RequestsTyped
<1>3. CASE UNCHANGED <<edit, reindex>> /\ (Fault \/ Request)
  <2>1. spent' \in [faults : 0..MaxFaults, requests : 0..MaxRequests]
    BY <1>1, <1>3, Spending
  <2> QED
    BY <1>1, <1>3, <2>1 DEF RequestsTyped
<1>4. ASSUME NEW i \in DOMAIN memory, NEW kind \in Kinds, ReplaceRead(i, kind)
      PROVE  RequestsTyped'
  <2> DEFINE a == [memory[i] EXCEPT !.kind = kind]
             b == [a EXCEPT !.content = UserText]
             row == [b EXCEPT !.edited = TRUE]
  <2>1. memory[i] \in Row /\ i \in Ids
    BY <1>1, Memories
  <2>2. edit' = <<[id |-> i, row |-> row]>> /\ Request /\ UNCHANGED reindex
    BY <1>4 DEF ReplaceRead
  <2>3. a \in Row
    BY <2>1 DEF Row
  <2> HIDE DEF a
  <2>4. b \in Row
    BY <2>3 DEF Row
  <2> HIDE DEF b
  <2>5. row \in Row
    BY <2>4 DEF Row
  <2> HIDE DEF row
  <2>6. edit' \in Seq([id : Ids, row : Row]) /\ Len(edit') <= 1
    BY <2>1, <2>2, <2>5
  <2>7. spent' \in [faults : 0..MaxFaults, requests : 0..MaxRequests]
    BY <1>1, <2>2, Spending
  <2> QED
    BY <1>1, <2>2, <2>6, <2>7 DEF RequestsTyped
<1>5. CASE ReplaceWrite
  <2>1. edit' = <<>> /\ UNCHANGED <<reindex, spent>>
    BY <1>5 DEF ReplaceWrite
  <2>2. edit' \in Seq([id : Ids, row : Row]) /\ Len(edit') <= 1
    BY <2>1
  <2> QED
    BY <1>1, <2>1, <2>2 DEF RequestsTyped
<1>6. ASSUME NEW at \in {"none", "messages", "memories", "upserting"},
             NEW after \in Ids \cup {0}, NEW page, DOMAIN page \subseteq Ids,
             \A i \in DOMAIN page : page[i] \in Contents \cup {UserText},
             reindex' = [at |-> at, after |-> after, page |-> page],
             UNCHANGED edit, spent' \in [faults : 0..MaxFaults, requests : 0..MaxRequests]
      PROVE  RequestsTyped'
  BY <1>1, <1>6 DEF RequestsTyped
<1>7. DOMAIN <<>> = {}
  OBVIOUS
<1>8. CASE StartReindex
  <2>1. /\ reindex' = [at |-> "messages", after |-> 0, page |-> <<>>]
        /\ Request /\ UNCHANGED edit
    BY <1>8 DEF StartReindex
  <2>2. spent' \in [faults : 0..MaxFaults, requests : 0..MaxRequests]
    BY <1>1, <2>1, Spending
  <2> QED
    BY <1>6, <1>7, <2>1, <2>2
<1>9. CASE ReindexMessages
  <2>1. reindex' = [at |-> "memories", after |-> reindex.after, page |-> reindex.page]
    BY <1>1, <1>9 DEF ReindexMessages, RequestsTyped
  <2>2. UNCHANGED <<edit, spent>>
    BY <1>9 DEF ReindexMessages
  <2> QED
    BY <1>1, <1>6, <2>1, <2>2 DEF RequestsTyped
<1>10. CASE ListMemories
  <2> DEFINE page == Page(reindex.after)
  <2>1. /\ reindex' = IF DOMAIN page = {}
                      THEN [at |-> "none", after |-> 0, page |-> <<>>]
                      ELSE [at |-> "upserting", after |-> Max(DOMAIN page), page |-> page]
        /\ UNCHANGED <<edit, spent>>
    BY <1>10 DEF ListMemories
  <2>2. /\ DOMAIN page \subseteq Ids
        /\ \A i \in DOMAIN page : page[i] \in Contents \cup {UserText}
        /\ DOMAIN page # {} => Max(DOMAIN page) \in Ids
    BY <1>1, Paging
  <2> HIDE DEF page
  <2>3. CASE DOMAIN page = {}
    BY <1>1, <1>6, <1>7, <2>1, <2>3
  <2>4. CASE DOMAIN page # {}
    BY <1>1, <1>6, <2>1, <2>2, <2>4
  <2> QED
    BY <2>3, <2>4
<1>11. CASE UpsertMemoryEmbeddings
  <2> DEFINE a == [reindex EXCEPT !.at = "memories"]
  <2>1. reindex' = [a EXCEPT !.page = <<>>] /\ UNCHANGED <<edit, spent>>
    BY <1>11 DEF UpsertMemoryEmbeddings
  <2>2. a = [at |-> "memories", after |-> reindex.after, page |-> reindex.page]
    BY <1>1 DEF RequestsTyped
  <2> HIDE DEF a
  <2>3. reindex' = [at |-> "memories", after |-> reindex.after, page |-> <<>>]
    BY <2>1, <2>2
  <2>4. reindex.after \in Ids \cup {0}
    BY <1>1 DEF RequestsTyped
  <2> QED
    BY <1>1, <1>6, <1>7, <2>1, <2>3, <2>4
<1>12. CASE UNCHANGED vars
  BY <1>2, <1>12 DEF vars
<1> QED
  BY <1>2, <1>3, <1>4, <1>5, <1>8, <1>9, <1>10, <1>11, <1>12, RequestWriters DEF Reindex

------------------------------------------------------------------------------
(* The theorems.                                                           *)

LEMMA Initially == Init => IInv
<1> SUFFICES ASSUME Init PROVE IInv
  OBVIOUS
<1>1. JobsTyped
  BY MemoryAssumption DEF MemoryAssumption, Init, JobsTyped, Job, JobStatus
<1>2. StoreTyped
  BY MemoryAssumption DEF MemoryAssumption, Init, StoreTyped
<1>3. WorkersTyped /\ \A w \in Workers : worker[w] = Idle
  BY IdleAttempt DEF Init, WorkersTyped
<1>4. RequestsTyped
  <2>1. edit \in Seq([id : Ids, row : Row]) /\ Len(edit) <= 1
    BY DEF Init
  <2>2. DOMAIN <<>> = {}
    OBVIOUS
  <2>3. spent \in [faults : 0..MaxFaults, requests : 0..MaxRequests]
    BY MemoryAssumption DEF MemoryAssumption, Init
  <2> QED
    BY <2>1, <2>2, <2>3 DEF Init, RequestsTyped
<1>5. OnlyFacts
  BY <1>3, IdleAttempt DEF Init, OnlyFacts
<1>6. NothingDropped
  BY <1>3, IdleAttempt, NothingToCover DEF NothingDropped
<1>7. StaysIndexed
  BY <1>3, IdleAttempt DEF StaysIndexed, Indexed
<1>8. CompletedIsCaptured
  BY DEF Init, CompletedIsCaptured
<1> QED
  BY <1>1, <1>2, <1>3, <1>4, <1>5, <1>6, <1>7, <1>8 DEF IInv, Typed

(* The inductive invariant of long-term memory under every fault.          *)
THEOREM Invariance == Spec => []IInv
<1>1. IInv /\ [Next]_vars => IInv'
  <2> SUFFICES ASSUME IInv, [Next]_vars PROVE IInv'
    OBVIOUS
  <2>1. Typed /\ OnlyFacts /\ NothingDropped
    BY DEF IInv
  <2>2. Typed'
    BY <2>1, StepJobs, StepStore, StepWorkers, StepRequests DEF Typed
  <2>3. OnlyFacts' /\ NothingDropped'
    BY <2>1, StepWorkers
  <2>4. StaysIndexed' /\ CompletedIsCaptured'
    BY StepStays, StepCompletes
  <2> QED
    BY <2>2, <2>3, <2>4 DEF IInv
<1> QED
  BY Initially, <1>1, PTL DEF Spec

(* Every value has its type; in particular no job is attempted more often  *)
(* than max_attempts (memory_capture_jobs.go:118-162).                     *)
THEOREM Typing == Spec => []TypeOK
<1>1. IInv => TypeOK
  <2> SUFFICES ASSUME IInv PROVE TypeOK
    OBVIOUS
  <2>1. worker \in [Workers -> Attempt]
    BY DEF IInv, Typed, WorkersTyped
  <2>2. \A w \in Workers : /\ worker[w].at \in Stations
                           /\ worker[w].turn \in Turns \cup {None}
                           /\ worker[w].next \in Nat \ {0}
                           /\ worker[w].plan \in Seq([id : Ids \cup {0}, row : Row])
    BY <2>1 DEF Attempt, Change
  <2>3. job \in [Turns -> [status : JobStatus, attempt : 0..MaxAttempts,
                           due : BOOLEAN, leased : BOOLEAN, owner : Workers \cup {None}]]
    BY DEF IInv, Typed, JobsTyped, Job
  <2> QED
    BY <2>2, <2>3 DEF IInv, Typed, StoreTyped, RequestsTyped, OnlyFacts, TypeOK
<1> QED
  BY Invariance, <1>1, PTL

(* A completed capture lost none of the facts its turn gave, whatever      *)
(* attempts were cut short half-way through their writes or lost their     *)
(* lease (capture_worker.go:161-189).                                      *)
THEOREM Capture == Spec => []CompletedIsCaptured
<1>1. IInv => CompletedIsCaptured
  BY DEF IInv
<1> QED
  BY Invariance, <1>1, PTL

LEMMA VectorStep ==
    ASSUME Typed, [Next]_vars, NEW i \in Live'
    PROVE  \/ vector'[i] = memory'[i].content
           \/ i \in Live /\ vector[i] # memory[i].content
           \/ reindex.at = "upserting"
<1> DEFINE Goal == \/ vector'[i] = memory'[i].content
                   \/ i \in Live /\ vector[i] # memory[i].content
                   \/ reindex.at = "upserting"
<1>1. /\ StoreTyped /\ StoreTyped'
      /\ DOMAIN memory \subseteq Ids /\ \A j \in DOMAIN memory : memory[j] \in Row
      /\ Len(memory) \in Nat /\ DOMAIN memory = 1..Len(memory)
      /\ Live \subseteq DOMAIN memory /\ vector \in [Ids -> Contents \cup {UserText, None}]
  BY StepStore, Memories DEF Typed, StoreTyped
<1>2. i \in DOMAIN memory' /\ memory'[i].live
  BY DEF Live
<1>3. CASE /\ i \in DOMAIN memory /\ memory'[i].content = memory[i].content
           /\ memory'[i].live = memory[i].live /\ vector'[i] = vector[i]
  BY <1>2, <1>3 DEF Live
<1>4. CASE UNCHANGED <<memory, vector>>
  BY <1>2, <1>3, <1>4
<1>5. ASSUME NEW row \in Row, CanCreate(row), CreateMemory(row) PROVE Goal
  <2>1. CASE i \in DOMAIN memory
    BY <1>1, <1>3, <1>5, <2>1, Creating
  <2>2. CASE i \notin DOMAIN memory
    <3>1. /\ memory' \in Seq(Row) /\ Len(memory') = Len(memory) + 1
          /\ memory'[Len(memory) + 1] = row /\ vector'[Len(memory) + 1] = row.content
      BY <1>1, <1>5, Creating
    <3>2. i = Len(memory) + 1
      BY <1>1, <1>2, <2>2, <3>1
    <3> QED
      BY <3>1, <3>2
  <2> HIDE DEF Goal
  <2> QED
    BY <2>1, <2>2
<1>6. ASSUME NEW id \in Live, NEW row \in Row, UpdateMemory(id, row) PROVE Goal
  <2>1. /\ DOMAIN memory' = DOMAIN memory
        /\ \A j \in DOMAIN memory \ {id} : memory'[j] = memory[j] /\ vector'[j] = vector[j]
        /\ memory'[id] = row /\ vector'[id] = row.content
    BY <1>1, <1>6, Updating
  <2>2. CASE i = id
    BY <2>1, <2>2
  <2>3. CASE i # id
    BY <1>2, <1>3, <2>1, <2>3
  <2> HIDE DEF Goal
  <2> QED
    BY <2>2, <2>3
<1>7. ASSUME NEW kind \in Kinds, Create(kind) PROVE Goal
  <2>1. UserRow(kind, NoKey) \in Row
    BY DEF UserRow, Row
  <2> HIDE DEF Goal
  <2> QED
    BY <1>5, <1>7, <2>1 DEF Create
<1>8. CASE ReplaceWrite
  <2> HIDE DEF Goal
  <2> QED
    BY <1>4, <1>6, <1>8, Editing DEF Goal
<1>9. ASSUME NEW j \in DOMAIN memory, Delete(j) PROVE Goal
  <2>1. memory' = [memory EXCEPT ![j] = [memory[j] EXCEPT !.live = FALSE]]
        /\ vector' = [vector EXCEPT ![j] = None]
    BY <1>9 DEF Delete
  <2>2. i \in DOMAIN memory
    BY <1>2, <2>1
  <2>3. CASE i # j
    BY <1>1, <1>3, <2>1, <2>2, <2>3
  <2>4. CASE i = j
    <3>1. memory'[i] = [memory[j] EXCEPT !.live = FALSE] /\ memory[j] \in Row
      BY <1>1, <2>1, <2>4
    <3>2. [memory[j] EXCEPT !.live = FALSE].live = FALSE
      BY <3>1 DEF Row
    <3> QED
      BY <1>2, <3>1, <3>2
  <2> HIDE DEF Goal
  <2> QED
    BY <2>3, <2>4
<1>10. ASSUME NEW t \in Turns, DeleteConversation(t) PROVE Goal
  <2>1. memory' = [j \in DOMAIN memory |-> IF memory[j].source = t
                      THEN [memory[j] EXCEPT !.source = None] ELSE memory[j]]
        /\ UNCHANGED vector
    BY <1>10 DEF DeleteConversation
  <2>2. i \in DOMAIN memory /\ memory[i] \in Row
    BY <1>1, <1>2, <2>1
  <2>3. /\ [memory[i] EXCEPT !.source = None].content = memory[i].content
        /\ [memory[i] EXCEPT !.source = None].live = memory[i].live
    BY <2>2 DEF Row
  <2> QED
    BY <1>3, <2>1, <2>2, <2>3
<1>11. CASE UpsertMemoryEmbeddings
  BY <1>11 DEF UpsertMemoryEmbeddings
<1>12. ASSUME NEW w \in Workers, WriteChange(w) PROVE Goal
  <2> HIDE DEF Goal
  <2> QED
    BY <1>5, <1>6, <1>12, Writing
<1>13. CASE UNCHANGED vars
  BY <1>4, <1>13 DEF vars
<1> HIDE DEF Goal
<1>14. Goal
  BY <1>4, <1>7, <1>8, <1>9, <1>10, <1>11, <1>12, <1>13, StoreWriters DEF Goal
<1> QED
  BY <1>14 DEF Goal

(* Only a reindex can part a memory from its vector, whatever captures and *)
(* edits write beside each other (semantic/service.go:91, 190-213).        *)
THEOREM Vectors == Spec => OnlyReindexLeavesStaleVectors
<1>1. IInv /\ [Next]_vars =>
         [\A i \in Live' : \/ vector'[i] = memory'[i].content
                           \/ i \in Live /\ vector[i] # memory[i].content
                           \/ reindex.at = "upserting"]_vars
  BY VectorStep DEF IInv
<1> QED
  BY Invariance, <1>1, PTL DEF Spec, OnlyReindexLeavesStaleVectors
=============================================================================
