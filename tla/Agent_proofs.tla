---------------------------- MODULE Agent_proofs ----------------------------
(***************************************************************************)
(* Proofs about the work behind an answer: a run of the agent, for any     *)
(* number of calls (of which the model may think up as many as it likes),  *)
(* any limits and any failures; the summary of a conversation and what a   *)
(* turn is shown of it, for any length, any limits, any number of workers  *)
(* and any faults; and a search of the knowledge base, for any texts, any  *)
(* number of documents and any changes while it runs.                      *)
(***************************************************************************)
EXTENDS AgentRun, ConversationContext, Retrieval, FiniteSetTheorems, SequenceTheorems,
        WellFoundedInduction, TLAPS

------------------------------------------------------------------------------
(* AgentRun.                                                               *)

Texting == {"draft", "final"}

(* AgentTypeOK, and that an attempt is only started while one is left.          *)
AgentTyped ==
    /\ AgentTypeOK
    /\ \A c \in Calls : call[c] \in {"none", "asked", "queued"} => attempts[c] = 0
    /\ \A c \in Calls : call[c] = "held" => attempts[c] <= RetryCount

(* Calls that have a slot, and calls that were let through.                *)
Holding == {c \in Calls : call[c] \in {"held", "working"}}

Handed == {c \in Calls : call[c] \in {"queued", "held", "working"} \/ attempts[c] > 0}

Second == pass \notin {"only", "draft", "review"}

\* Nothing is under way when a pass goes to review: a revision that starts
\* from zero slots really has none.
ReviewIsQuiet == pass = "review" => Outstanding = {}

Slots == IsFiniteSet(Holding) /\ Cardinality(Holding) = parallel

(* The handoffs of the first pass are gone from executionState when the    *)
(* second one starts, but there were no more than its limit.               *)
Budgeted ==
    /\ IsFiniteSet(Handed)
    /\ Cardinality(Handed) <= handoffNum + (IF Second THEN maxHandoffs ELSE 0)

(* What the user was shown at each stage of the run.                       *)
ShownSoFar ==
    /\ pass \in {"only", "revision", "answered"} => shown = answer
    /\ pass \in {"draft", "review"} => shown = <<>>

(***************************************************************************)
(* The inductive invariant.  LimitsKept speaks of what was tried; what is  *)
(* counted is what was let through, of which it is a part, and a revision  *)
(* may only reset the counters because the review is quiet.                *)
(***************************************************************************)
AgentInv == AgentTyped /\ ReviewIsQuiet /\ Slots /\ Budgeted /\ ShownSoFar

USE AgentAssumption

------------------------------------------------------------------------------
(* Where a call goes.                                                      *)

LEMMA GotoMoves ==
    ASSUME call \in [Calls -> CallStations], NEW c \in Calls, NEW s \in CallStations, Goto(c, s)
    PROVE  /\ call' \in [Calls -> CallStations] /\ call'[c] = s
           /\ \A d \in Calls \ {c} : call'[d] = call[d]
BY DEF Goto

LEMMA HoldingMoves ==
    ASSUME call \in [Calls -> CallStations], NEW c \in Calls, NEW s \in CallStations, Goto(c, s)
    PROVE  Holding' = IF s \in {"held", "working"} THEN Holding \cup {c} ELSE Holding \ {c}
BY GotoMoves DEF Holding

(* A slot more or less is a call more or less that holds one.              *)
LEMMA TakesSlot ==
    ASSUME Slots, call \in [Calls -> CallStations], NEW c \in Calls,
           call[c] = "queued", Goto(c, "held"), parallel' = parallel + 1
    PROVE  Slots'
<1>1. c \notin Holding /\ Holding' = Holding \cup {c}
  BY HoldingMoves DEF Holding, CallStations
<1> QED
  BY <1>1, FS_AddElement DEF Slots

LEMMA ReturnsSlot ==
    ASSUME Slots, call \in [Calls -> CallStations], NEW c \in Calls,
           call[c] \in {"held", "working"}, NEW s \in {"ok", "error"}, Return(c, s)
    PROVE  Slots' /\ parallel > 0
<1>1. c \in Holding /\ Holding' = Holding \ {c} /\ parallel' = parallel - 1
  BY HoldingMoves DEF Return, Holding, CallStations
<1>2. IsFiniteSet(Holding') /\ Cardinality(Holding') = Cardinality(Holding) - 1
  BY <1>1, FS_RemoveElement DEF Slots
<1>3. Cardinality(Holding') \in Nat /\ Cardinality(Holding) \in Nat
  BY <1>2, FS_CardinalityType DEF Slots
<1> QED
  BY <1>1, <1>2, <1>3 DEF Slots

LEMMA KeepsSlot ==
    ASSUME Slots, call \in [Calls -> CallStations], NEW c \in Calls, NEW s \in CallStations,
           Goto(c, s), call[c] \in {"held", "working"} <=> s \in {"held", "working"},
           UNCHANGED parallel
    PROVE  Slots'
<1>1. Holding' = Holding
  BY HoldingMoves DEF Holding
<1> QED
  BY <1>1 DEF Slots

------------------------------------------------------------------------------
(* Types.                                                                  *)

LEMMA RunTypes ==
    ASSUME AgentTyped, Slots, NEW c \in Calls, Run(c)
    PROVE  AgentTyped'
<1> USE DEF AgentTyped, AgentTypeOK
<1>1. CASE ReserveHandoff(c)
  <2>1. handoffNum' \in 0..maxHandoffs'
    BY <1>1 DEF ReserveHandoff, Budget
  <2>2. call' \in [Calls -> CallStations] /\ call'[c] \in {"queued", "error"}
        /\ \A d \in Calls \ {c} : call'[d] = call[d]
    BY <1>1, GotoMoves DEF ReserveHandoff, CallStations
  <2>3. call[c] = "asked" /\ UNCHANGED <<maxHandoffs, pass, iterations, attempts, parallel, cancelled,
                      answer, shown>>
    BY <1>1 DEF ReserveHandoff, output
  <2> QED
    BY <2>1, <2>2, <2>3
<1>2. CASE Acquire(c)
  <2>1. parallel' \in 0..MaxParallel
    BY <1>2 DEF Acquire
  <2>2. call' \in [Calls -> CallStations] /\ call'[c] \in {"held", "error"}
        /\ \A d \in Calls \ {c} : call'[d] = call[d]
    BY <1>2, GotoMoves DEF Acquire, CallStations
  <2>3. call[c] = "queued" /\ UNCHANGED <<maxHandoffs, pass, iterations, attempts, handoffNum, cancelled,
                      answer, shown>>
    BY <1>2 DEF Acquire, output
  <2> QED
    BY <2>1, <2>2, <2>3
<1>3. CASE Attempt(c)
  <2>1. CASE Return(c, "error") /\ UNCHANGED attempts
    <3>1. parallel' \in 0..MaxParallel
      BY <1>3, <2>1, ReturnsSlot DEF Attempt, Return
    <3>2. call' \in [Calls -> CallStations] /\ call'[c] = "error"
          /\ \A d \in Calls \ {c} : call'[d] = call[d]
      BY <2>1, GotoMoves DEF Return, CallStations
    <3> QED
      BY <1>3, <2>1, <3>1, <3>2 DEF Attempt, output
  <2>2. CASE /\ Goto(c, "working") /\ UNCHANGED parallel
             /\ attempts' = [attempts EXCEPT ![c] = @ + 1]
    <3>1. call' \in [Calls -> CallStations] /\ call'[c] = "working"
          /\ \A d \in Calls \ {c} : call'[d] = call[d]
      BY <2>2, GotoMoves DEF CallStations
    <3>2. attempts' \in [Calls -> 0..RetryCount + 1]
          /\ \A d \in Calls \ {c} : attempts'[d] = attempts[d]
      BY <1>3, <2>2 DEF Attempt
    <3> QED
      BY <1>3, <2>2, <3>1, <3>2 DEF Attempt, output
  <2> QED
    BY <1>3, <2>1, <2>2 DEF Attempt
<1>4. CASE Deliver(c)
  <2>1. CASE Return(c, "ok") \/ Return(c, "error")
    <3>1. parallel' \in 0..MaxParallel
      BY <1>4, <2>1, ReturnsSlot DEF Deliver, Return
    <3>2. call' \in [Calls -> CallStations] /\ call'[c] \in {"ok", "error"}
          /\ \A d \in Calls \ {c} : call'[d] = call[d]
      BY <2>1, GotoMoves DEF Return, CallStations
    <3> QED
      BY <1>4, <3>1, <3>2 DEF Deliver, output
  <2>2. CASE attempts[c] <= RetryCount /\ Goto(c, "held") /\ UNCHANGED parallel
    <3>1. call' \in [Calls -> CallStations] /\ call'[c] = "held"
          /\ \A d \in Calls \ {c} : call'[d] = call[d]
      BY <2>2, GotoMoves DEF CallStations
    <3> QED
      BY <1>4, <2>2, <3>1 DEF Deliver, output
  <2> QED
    BY <1>4, <2>1, <2>2 DEF Deliver
<1> QED
  BY <1>1, <1>2, <1>3, <1>4 DEF Run

LEMMA TextsTyped == Texts \in Seq(Texting) /\ Emitted \in Seq(Texting)
<1>1. <<"draft">> \in Seq(Texting) /\ <<"final">> \in Seq(Texting) /\ <<>> \in Seq(Texting)
  BY DEF Texting
<1>2. Texts \in {<<"draft">>, <<"final">>} /\ Emitted \in {<<>>, Texts}
  BY DEF Texts, Emitted
<1> QED
  BY <1>1, <1>2

LEMMA SayTypes ==
    ASSUME answer \in Seq(Texting), shown \in Seq(Texting), Say
    PROVE  answer' \in Seq(Texting) /\ shown' \in Seq(Texting)
<1> DEFINE t == Texts
           e == Emitted
<1>1. t \in Seq(Texting) /\ e \in Seq(Texting)
  BY TextsTyped
<1>2. \/ answer' = answer \o t /\ shown' = shown \o e
      \/ answer' = answer /\ shown' = shown
  BY DEF Say, output
<1> HIDE DEF t, e
<1>3. answer \o t \in Seq(Texting) /\ shown \o e \in Seq(Texting)
  BY <1>1, ConcatProperties
<1> QED
  BY <1>2, <1>3

LEMMA ModelTypes ==
    ASSUME AgentTyped, ModelCall
    PROVE  /\ iterations' \in 0..MaxIterations
           /\ answer' \in Seq({"draft", "final"}) /\ shown' \in Seq({"draft", "final"})
<1>1. iterations' \in 0..MaxIterations
  BY DEF ModelCall, AgentTyped, AgentTypeOK
<1>2. answer' \in Seq(Texting) /\ shown' \in Seq(Texting)
  BY SayTypes DEF ModelCall, AgentTyped, AgentTypeOK, Texting
<1> QED
  BY <1>1, <1>2 DEF Texting

LEMMA StepTypes ==
    ASSUME AgentInv, [AgentNext]_agentvars
    PROVE  AgentTyped'
<1>1. CASE UNCHANGED agentvars
  BY <1>1 DEF agentvars, AgentInv, AgentTyped, AgentTypeOK
<1>2. ASSUME NEW c \in Calls, Run(c)
      PROVE  AgentTyped'
  BY <1>2, RunTypes DEF AgentInv
<1>3. CASE HandOff
  <2>1. PICK asked \in SUBSET {c \in Calls : call[c] = "none"} :
           call' = [c \in Calls |-> IF c \in asked THEN "asked" ELSE call[c]]
    BY <1>3 DEF HandOff
  <2>2. UNCHANGED <<maxHandoffs, pass, attempts, handoffNum, parallel, cancelled>>
    BY <1>3 DEF HandOff, control
  <2>3. /\ iterations' \in 0..MaxIterations
        /\ answer' \in Seq({"draft", "final"}) /\ shown' \in Seq({"draft", "final"})
    BY <1>3, ModelTypes DEF HandOff, AgentInv
  <2>4. call' \in [Calls -> CallStations]
    BY <2>1 DEF AgentInv, AgentTyped, AgentTypeOK, CallStations
  <2>5. \A c \in Calls : call[c] = "none" => attempts[c] = 0
    BY DEF AgentInv, AgentTyped
  <2>6. \A c \in Calls : call'[c] = call[c] \/ (call'[c] = "asked" /\ call[c] = "none")
    BY <2>1
  <2> QED
    BY <2>2, <2>3, <2>4, <2>5, <2>6 DEF AgentInv, AgentTyped, AgentTypeOK
<1>4. CASE Conclude
  <2>1. pass' \in {"failed", "review", "answered"}
    BY <1>4 DEF Conclude
  <2>2. UNCHANGED <<maxHandoffs, call, attempts, handoffNum, parallel, cancelled>>
    BY <1>4 DEF Conclude, control
  <2>3. /\ iterations' \in 0..MaxIterations
        /\ answer' \in Seq({"draft", "final"}) /\ shown' \in Seq({"draft", "final"})
    BY <1>4, ModelTypes DEF Conclude, AgentInv
  <2> QED
    BY <2>1, <2>2, <2>3 DEF AgentInv, AgentTyped, AgentTypeOK
<1>5. CASE PassFails \/ EmitFails
  BY <1>5 DEF PassFails, EmitFails, control, output, AgentInv, AgentTyped, AgentTypeOK
<1>6. CASE AcceptDraft
  <2>1. shown' \in Seq({"draft", "final"})
    BY <1>6, ConcatProperties DEF AcceptDraft, AgentInv, AgentTyped, AgentTypeOK
  <2> QED
    BY <1>6, <2>1 DEF AcceptDraft, control, AgentInv, AgentTyped, AgentTypeOK
<1>7. CASE Revise
  <2>1. handoffNum' \in 0..maxHandoffs' /\ parallel' \in 0..MaxParallel
    BY <1>7 DEF Revise, AgentInv, AgentTyped, AgentTypeOK
  <2>2. answer' \in Seq({"draft", "final"}) /\ iterations' \in 0..MaxIterations
    BY <1>7 DEF Revise
  <2> QED
    BY <1>7, <2>1, <2>2 DEF Revise, AgentInv, AgentTyped, AgentTypeOK
<1>8. CASE Cancel
  BY <1>8 DEF Cancel, control, output, AgentInv, AgentTyped, AgentTypeOK
<1> QED
  BY <1>1, <1>2, <1>3, <1>4, <1>5, <1>6, <1>7, <1>8 DEF AgentNext

------------------------------------------------------------------------------
(* Slots and the budget.                                                   *)

\* A call that runs is outstanding, so that none runs during a review.
LEMMA RunsOutside ==
    ASSUME ReviewIsQuiet, NEW c \in Calls, Run(c)
    PROVE  pass # "review" /\ pass' = pass
BY DEF ReviewIsQuiet, Outstanding, Run, ReserveHandoff, Acquire, Attempt, Deliver

\* Steps other than those of a call give nobody a slot and try nobody.
LEMMA OthersTryNone ==
    ASSUME AgentTyped, HandOff \/ Conclude \/ PassFails \/ EmitFails \/ AcceptDraft \/ Revise
                  \/ Cancel \/ UNCHANGED agentvars
    PROVE  /\ Holding' = Holding /\ Handed' = Handed /\ UNCHANGED attempts
           /\ UNCHANGED maxHandoffs
<1>1. UNCHANGED attempts /\ UNCHANGED maxHandoffs
  BY DEF HandOff, Conclude, PassFails, EmitFails, AcceptDraft, Revise, Cancel, agentvars
<1>2. CASE HandOff
  <2>1. PICK asked \in SUBSET {c \in Calls : call[c] = "none"} :
           call' = [c \in Calls |-> IF c \in asked THEN "asked" ELSE call[c]]
    BY <1>2 DEF HandOff
  <2>2. \A c \in Calls : call'[c] = call[c] \/ (call'[c] = "asked" /\ call[c] = "none")
    BY <2>1
  <2> QED
    BY <1>1, <2>2 DEF Holding, Handed
<1>3. CASE UNCHANGED call
  BY <1>1, <1>3 DEF Holding, Handed
<1> QED
  BY <1>2, <1>3 DEF HandOff, Conclude, PassFails, EmitFails, AcceptDraft, Revise, Cancel, agentvars

LEMMA StepSlots ==
    ASSUME AgentInv, [AgentNext]_agentvars
    PROVE  Slots'
<1>1. call \in [Calls -> CallStations] /\ Slots
  BY DEF AgentInv, AgentTyped, AgentTypeOK
<1>2. ASSUME NEW c \in Calls, Run(c)
      PROVE  Slots'
  <2>1. CASE ReserveHandoff(c)
    BY <1>1, <2>1, KeepsSlot DEF ReserveHandoff, CallStations
  <2>2. CASE Acquire(c)
    BY <1>1, <2>2, TakesSlot, KeepsSlot DEF Acquire, CallStations
  <2>3. CASE Attempt(c)
    BY <1>1, <2>3, ReturnsSlot, KeepsSlot DEF Attempt, CallStations
  <2>4. CASE Deliver(c)
    BY <1>1, <2>4, ReturnsSlot, KeepsSlot DEF Deliver, CallStations
  <2> QED
    BY <1>2, <2>1, <2>2, <2>3, <2>4 DEF Run
<1>3. CASE Revise
  <2>1. Holding = {}
    BY <1>3 DEF Revise, AgentInv, ReviewIsQuiet, Outstanding, Holding
  <2>2. Holding' = {} /\ parallel' = 0
    BY <1>3, <2>1, OthersTryNone DEF Revise, AgentInv
  <2> QED
    BY <2>2, FS_EmptySet DEF Slots
<1>4. CASE HandOff \/ Conclude \/ PassFails \/ EmitFails \/ AcceptDraft \/ Cancel
           \/ UNCHANGED agentvars
  <2>1. UNCHANGED parallel
    BY <1>4 DEF HandOff, Conclude, PassFails, EmitFails, AcceptDraft, Cancel, agentvars, control
  <2>2. Holding' = Holding
    BY <1>4, OthersTryNone DEF AgentInv
  <2> QED
    BY <1>1, <2>1, <2>2 DEF Slots
<1> QED
  BY <1>2, <1>3, <1>4 DEF AgentNext

(* A call is let through once: its attempts are of one handoff.            *)
LEMMA HandedMoves ==
    ASSUME AgentTyped, NEW c \in Calls, Run(c)
    PROVE  \/ Handed' \subseteq Handed /\ handoffNum' = handoffNum
           \/ Handed' \subseteq Handed \cup {c} /\ handoffNum' = handoffNum + 1
<1>1. call \in [Calls -> CallStations] /\ attempts \in [Calls -> Nat]
  BY DEF AgentTyped, AgentTypeOK
<1>2. CASE ReserveHandoff(c)
  <2>1. /\ call'[c] \in {"queued", "error"} /\ UNCHANGED attempts
        /\ \A d \in Calls \ {c} : call'[d] = call[d]
        /\ call'[c] = "queued" => handoffNum' = handoffNum + 1
        /\ call'[c] = "error" => handoffNum' = handoffNum
    BY <1>1, <1>2, GotoMoves DEF ReserveHandoff, CallStations
  <2> QED
    BY <2>1 DEF Handed
<1>3. CASE Acquire(c)
  <2>1. /\ UNCHANGED <<attempts, handoffNum>> /\ c \in Handed
        /\ \A d \in Calls \ {c} : call'[d] = call[d]
    BY <1>1, <1>3, GotoMoves DEF Acquire, CallStations, Handed
  <2> QED
    BY <2>1 DEF Handed
<1>4. CASE Attempt(c) \/ Deliver(c)
  <2>1. UNCHANGED handoffNum /\ c \in Handed
    BY <1>4 DEF Attempt, Deliver, Handed
  <2>2. \A d \in Calls \ {c} : call'[d] = call[d] /\ attempts'[d] = attempts[d]
    BY <1>1, <1>4 DEF Attempt, Deliver, Return, Goto
  <2> QED
    BY <2>1, <2>2 DEF Handed
<1> QED
  BY <1>2, <1>3, <1>4 DEF Run

LEMMA StepBudget ==
    ASSUME AgentInv, [AgentNext]_agentvars
    PROVE  Budgeted'
<1> DEFINE before == IF Second THEN maxHandoffs ELSE 0
           k == Cardinality(Handed)
<1>1. /\ IsFiniteSet(Handed) /\ k \in Nat /\ handoffNum \in Nat /\ maxHandoffs \in Nat
      /\ before \in Nat /\ handoffNum <= maxHandoffs /\ k <= handoffNum + before
  BY FS_CardinalityType DEF AgentInv, Budgeted, AgentTyped, AgentTypeOK
<1>2. ASSUME NEW c \in Calls, Run(c)
      PROVE  Budgeted'
  <2>1. before' = before
    <3>1. pass' = pass
      BY <1>2, RunsOutside DEF AgentInv
    <3>2. maxHandoffs' = maxHandoffs
      BY <1>2 DEF Run, ReserveHandoff, Acquire, Attempt, Deliver
    <3> QED
      BY <3>1, <3>2 DEF Second
  <2> HIDE DEF before
  <2>2. CASE Handed' \subseteq Handed /\ handoffNum' = handoffNum
    <3>1. IsFiniteSet(Handed') /\ Cardinality(Handed') <= k /\ Cardinality(Handed') \in Nat
      BY <1>1, <2>2, FS_Subset, FS_CardinalityType
    <3>2. Cardinality(Handed') <= handoffNum' + before'
      BY <1>1, <2>1, <2>2, <3>1
    <3> QED
      BY <3>1, <3>2 DEF Budgeted, before
  <2>3. CASE Handed' \subseteq Handed \cup {c} /\ handoffNum' = handoffNum + 1
    <3>1. IsFiniteSet(Handed \cup {c}) /\ Cardinality(Handed \cup {c}) <= k + 1
      BY <1>1, FS_AddElement
    <3>2. IsFiniteSet(Handed') /\ Cardinality(Handed') <= Cardinality(Handed \cup {c})
          /\ Cardinality(Handed') \in Nat /\ Cardinality(Handed \cup {c}) \in Nat
      BY <2>3, <3>1, FS_Subset, FS_CardinalityType
    <3>3. Cardinality(Handed') <= handoffNum' + before'
      BY <1>1, <2>1, <2>3, <3>1, <3>2
    <3> QED
      BY <3>2, <3>3 DEF Budgeted, before
  <2> QED
    BY <1>2, <2>2, <2>3, HandedMoves DEF AgentInv
<1>3. CASE \/ HandOff \/ Conclude \/ PassFails \/ EmitFails \/ AcceptDraft \/ Revise
           \/ Cancel \/ UNCHANGED agentvars
  <2>1. Handed' = Handed /\ maxHandoffs' = maxHandoffs
    BY <1>3, OthersTryNone DEF AgentInv
  <2>2. CASE Revise
    <3>1. ~Second /\ Second' /\ handoffNum' = 0
      BY <2>2 DEF Revise, Second
    <3> QED
      BY <1>1, <2>1, <3>1 DEF Budgeted
  <2>3. CASE ~Revise
    <3>1. handoffNum' = handoffNum
      BY <1>3, <2>3 DEF HandOff, Conclude, PassFails, EmitFails, AcceptDraft, Cancel, agentvars,
          control
    <3>2. Second => Second'
      BY <1>3, <2>3 DEF HandOff, Conclude, PassFails, EmitFails, AcceptDraft, Cancel, agentvars,
          Second, ModelCall, CallsReturned, Executing
    <3> QED
      BY <1>1, <2>1, <3>1, <3>2 DEF Budgeted
  <2> QED
    BY <2>2, <2>3
<1> QED
  BY <1>2, <1>3 DEF AgentNext

LEMMA StepReview ==
    ASSUME AgentInv, [AgentNext]_agentvars
    PROVE  ReviewIsQuiet'
<1>1. ASSUME NEW c \in Calls, Run(c)
      PROVE  ReviewIsQuiet'
  BY <1>1, RunsOutside DEF AgentInv, ReviewIsQuiet
<1>2. CASE Conclude
  BY <1>2 DEF Conclude, ModelCall, CallsReturned, Outstanding, ReviewIsQuiet
<1>3. CASE HandOff
  BY <1>3 DEF HandOff, ModelCall, CallsReturned, Executing, ReviewIsQuiet
<1>4. CASE PassFails \/ EmitFails \/ AcceptDraft \/ Revise
  BY <1>4 DEF PassFails, EmitFails, AcceptDraft, Revise, ReviewIsQuiet
<1>5. CASE Cancel \/ UNCHANGED agentvars
  BY <1>5 DEF Cancel, agentvars, AgentInv, ReviewIsQuiet, Outstanding
<1> QED
  BY <1>1, <1>2, <1>3, <1>4, <1>5 DEF AgentNext

------------------------------------------------------------------------------
(* What the user is shown.                                                 *)

LEMMA SayShows ==
    ASSUME AgentTyped, ShownSoFar, Executing, Say
    PROVE  /\ pass # "draft" => shown' = answer'
           /\ pass = "draft" => shown' = <<>>
<1>1. shown \in Seq({"draft", "final"})
  BY DEF AgentTyped, AgentTypeOK
<1>2. CASE pass = "draft"
  <2>1. shown = <<>> /\ shown' \in {shown \o <<>>, shown}
    BY <1>2 DEF Say, Emitted, output, ShownSoFar
  <2> QED
    BY <1>1, <1>2, <2>1, ConcatEmptySeq
<1>3. CASE pass # "draft"
  BY <1>3 DEF Say, Emitted, output, ShownSoFar, Executing
<1> QED
  BY <1>2, <1>3

LEMMA StepShows ==
    ASSUME AgentInv, [AgentNext]_agentvars
    PROVE  ShownSoFar'
<1>1. ASSUME NEW c \in Calls, Run(c)
      PROVE  ShownSoFar'
  <2>1. UNCHANGED <<pass, answer, shown>>
    BY <1>1 DEF Run, ReserveHandoff, Acquire, Attempt, Deliver, output
  <2> QED
    BY <2>1 DEF AgentInv, ShownSoFar
<1>2. CASE HandOff
  BY <1>2, SayShows DEF HandOff, ModelCall, CallsReturned, Executing, AgentInv, ShownSoFar
<1>3. CASE Conclude
  <2>1. pass \in {"only", "draft", "revision"} /\ Say
    BY <1>3 DEF Conclude, ModelCall, CallsReturned, Executing
  <2>2. pass' \in {"failed", "review", "answered"}
        /\ (pass' = "review" => pass = "draft") /\ (pass' = "answered" => pass # "draft")
    BY <1>3 DEF Conclude
  <2> QED
    BY <2>1, <2>2, SayShows DEF AgentInv, Executing, ShownSoFar
<1>4. CASE PassFails \/ EmitFails
  BY <1>4 DEF PassFails, EmitFails, ShownSoFar
<1>5. CASE AcceptDraft
  <2>1. shown = <<>> /\ shown' = shown \o answer /\ answer' = answer /\ pass' = "answered"
    BY <1>5 DEF AcceptDraft, AgentInv, ShownSoFar
  <2>2. answer \in Seq({"draft", "final"})
    BY DEF AgentInv, AgentTyped, AgentTypeOK
  <2> QED
    BY <2>1, <2>2, ConcatEmptySeq DEF ShownSoFar
<1>6. CASE Revise
  BY <1>6 DEF Revise, AgentInv, ShownSoFar
<1>7. CASE Cancel \/ UNCHANGED agentvars
  BY <1>7 DEF Cancel, agentvars, output, AgentInv, ShownSoFar
<1> QED
  BY <1>1, <1>2, <1>3, <1>4, <1>5, <1>6, <1>7 DEF AgentNext

------------------------------------------------------------------------------
LEMMA AgentInitially ==
    ASSUME AgentInit
    PROVE  AgentInv
<1> USE DEF AgentInit
<1>1. AgentTyped
  <2>1. maxHandoffs \in Nat /\ handoffNum \in 0..maxHandoffs /\ parallel \in 0..MaxParallel
        /\ iterations \in 0..MaxIterations
    OBVIOUS
  <2>2. 0 \in 0..RetryCount + 1 /\ 0 <= RetryCount
    OBVIOUS
  <2>3. attempts \in [Calls -> 0..RetryCount + 1] /\ call \in [Calls -> CallStations]
        /\ \A c \in Calls : attempts[c] = 0
    BY <2>2 DEF CallStations
  <2>4. answer \in Seq({"draft", "final"}) /\ shown \in Seq({"draft", "final"})
    OBVIOUS
  <2>5. maxHandoffs \in HandoffLimits /\ cancelled \in BOOLEAN
        /\ pass \in {"only", "draft", "review", "revision", "answered", "failed"}
    OBVIOUS
  <2> QED
    BY <2>1, <2>2, <2>3, <2>4, <2>5 DEF AgentTyped, AgentTypeOK
<1>2. Holding = {} /\ Handed = {} /\ Outstanding = {}
  BY DEF Holding, Handed, Outstanding
<1>3. Slots /\ ReviewIsQuiet
  BY <1>2, FS_EmptySet DEF Slots, ReviewIsQuiet
<1>4. Budgeted
  BY <1>2, FS_EmptySet DEF Budgeted, Second
<1>5. ShownSoFar
  BY DEF ShownSoFar
<1> QED
  BY <1>1, <1>3, <1>4, <1>5 DEF AgentInv

(* The inductive invariant of a run.                                       *)
THEOREM AgentInvariance == AgentSpec => []AgentInv
<1>1. AgentInv /\ [AgentNext]_agentvars => AgentInv'
  BY StepTypes, StepReview, StepSlots, StepBudget, StepShows DEF AgentInv
<1> QED
  BY AgentInitially, <1>1, PTL DEF AgentSpec

(* Every value has its type; in particular no call is attempted more often *)
(* than its retries allow (execution_control.go:96-128).                   *)
THEOREM AgentTyping == AgentSpec => []AgentTypeOK
<1>1. AgentInv => AgentTypeOK
  BY DEF AgentInv, AgentTyped
<1> QED
  BY AgentInvariance, <1>1, PTL

(* Rounds of parallel calls, retries, cancellation and the second pass     *)
(* together keep to the limits of the server, whatever they are            *)
(* (execution_control.go:62-81, runtime.go:162).                           *)
THEOREM Limiting == AgentSpec => []LimitsKept
<1>1. AgentInv => LimitsKept
  <2> SUFFICES ASSUME AgentInv PROVE LimitsKept
    OBVIOUS
  <2>1. /\ IsFiniteSet(Handed) /\ Cardinality(Handed) \in Nat
        /\ Cardinality(Handed) <= handoffNum + (IF Second THEN maxHandoffs ELSE 0)
        /\ handoffNum \in Nat /\ maxHandoffs \in Nat /\ handoffNum <= maxHandoffs
        /\ parallel <= MaxParallel
    BY FS_CardinalityType DEF AgentInv, Budgeted, AgentTyped, AgentTypeOK
  <2>2. Tried \subseteq Handed
    BY DEF Tried, Handed
  <2>3. Cardinality(Tried) \in Nat /\ Cardinality(Tried) <= Cardinality(Handed)
    BY <2>1, <2>2, FS_Subset, FS_CardinalityType
  <2>4. Cardinality(Tried) <= (IF pass \in {"only", "draft", "review"} THEN 1 ELSE 2) * maxHandoffs
    <3>1. CASE Second
      BY <2>1, <2>3, <3>1 DEF Second
    <3>2. CASE ~Second
      BY <2>1, <2>3, <3>2 DEF Second
    <3> QED
      BY <3>1, <3>2
  <2>5. Cardinality({c \in Calls : call[c] \in {"held", "working"}}) = parallel
    BY DEF AgentInv, Slots, Holding
  <2> QED
    BY <2>1, <2>4, <2>5 DEF LimitsKept
<1> QED
  BY AgentInvariance, <1>1, PTL

(* What the run returns is what the user was shown, whatever the reviewer  *)
(* decides and wherever texts were emitted (reflection.go:79-83, 109-134). *)
THEOREM Honesty == AgentSpec => []AnswerWasShown
<1>1. AgentInv => AnswerWasShown
  BY DEF AgentInv, ShownSoFar, AnswerWasShown
<1> QED
  BY AgentInvariance, <1>1, PTL

------------------------------------------------------------------------------
(* ConversationContext.                                                    *)

Stations == {"idle", "read", "summarizing"}

Statuses == {"none", "queued", "completed", "failed"}

UpdateRecord == [at : Stations, latest : 0..MaxSequence, current : Summary,
                 batch : SUBSET Sequences]

TurnRecord == [at : {"idle", "begun", "shown"}, window : SUBSET Sequences,
               summary : Summary]

Typed ==
    /\ TypeOK
    /\ job \in [Sequences -> [status : Statuses, attempts : 0..MaxAttempts]]
    /\ worker \in [Workers -> UpdateRecord]
    /\ turn \in TurnRecord
    /\ overlapped \in BOOLEAN
    /\ turn.at = "idle" => turn = NoTurn
    /\ deleted => messages = {} /\ summary = NoSummary

Within(set, end) == end \in Nat /\ set \in SUBSET (1..end)

(* A summary of the messages up to its border, and of no others.           *)
SummaryOf(s, history, end) ==
    /\ s.through <= end
    /\ s.content = {m \in history : m <= s.through}
    /\ s.count = Cardinality(s.content)

(* What went to the summarizer follows the summary it will be added to     *)
(* without a gap.                                                          *)
Adjoins(batch, border, history) ==
    /\ batch # {} /\ batch \subseteq history
    /\ \A m \in history : m \in batch <=> border < m /\ m <= Max(batch)

Busy(w) == worker[w].at # "idle"

(* Of an update that was begun, as long as there is a conversation.        *)
UpdatesAreFaithful ==
    ~deleted => \A w \in Workers : Busy(w) =>
        /\ SummaryOf(worker[w].current, messages, last)
        /\ worker[w].at = "summarizing" =>
              Adjoins(worker[w].batch, worker[w].current.through, messages)

(* Updates that keep apart know the summary they will replace.             *)
OneAtATime ==
    ~overlapped /\ ~deleted =>
        /\ \A v, w \in Workers : Busy(v) /\ Busy(w) => v = w
        /\ \A w \in Workers : Busy(w) => worker[w].current = summary

(* A turn under way: its window is the end of the history, and the summary *)
(* it was given, or none, is one of all messages up to its border.         *)
TurnIsFaithful ==
    turn.at # "idle" /\ ~deleted =>
        /\ last \in messages
        /\ turn.window = Newest(HistoryLimit, messages \ {last})
        /\ turn.summary.content = {m \in messages : m <= turn.summary.through}

(***************************************************************************)
(* The inductive invariant.  That a summary is faithful cannot be kept     *)
(* without what the updates under way have read: an update that was        *)
(* overtaken replaces the newer summary by an older one, which has to be   *)
(* faithful as well.                                                       *)
(***************************************************************************)
IInv ==
    /\ Typed
    /\ SummaryOf(summary, messages, last)
    /\ UpdatesAreFaithful
    /\ OneAtATime
    /\ TurnIsFaithful

USE ContextAssumption

------------------------------------------------------------------------------
(* Least and greatest numbers of a set.                                    *)

LEMMA Least ==
    ASSUME NEW S \in SUBSET Nat, S # {}
    PROVE  \E m \in S : \A x \in S : m <= x
<1> DEFINE less == OpToRel(<, Nat)
<1>1. IsWellFoundedOn(less, Nat)
  BY NatLessThanWellFounded
<1>2. \A x, y \in Nat : x < y => <<x, y>> \in less
  BY DEF OpToRel
<1> HIDE DEF less
<1>3. PICK m \in S : \A x \in S : ~ (<<x, m>> \in less)
  BY <1>1, WFMin
<1>4. \A x \in S : ~ (x < m)
  BY <1>2, <1>3
<1> QED
  BY <1>4

(* The least of the upper bounds of a set is its greatest element.         *)
LEMMA Greatest ==
    ASSUME NEW S \in SUBSET Nat, S # {}, NEW b \in Nat, \A x \in S : x <= b
    PROVE  Max(S) \in S /\ \A x \in S : x <= Max(S)
<1> DEFINE T == {n \in Nat : \A x \in S : x <= n}
<1>1. b \in T /\ T \in SUBSET Nat
  OBVIOUS
<1> HIDE DEF T
<1>2. PICK m \in T : \A y \in T : m <= y
  BY <1>1, Least
<1>3. m \in Nat /\ \A x \in S : x <= m
  BY <1>2 DEF T
<1>4. m \in S
  <2> SUFFICES ASSUME m \notin S PROVE FALSE
    OBVIOUS
  <2>1. \A x \in S : x < m
    BY <1>3
  <2>2. PICK y \in S : y \in Nat /\ y < m
    BY <2>1
  <2>3. m - 1 \in Nat /\ ~ (m <= m - 1)
    BY <1>3, <2>2
  <2>4. \A x \in S : x <= m - 1
    BY <1>3, <2>1
  <2>5. m - 1 \in T
    BY <2>3, <2>4 DEF T
  <2> QED
    BY <1>2, <2>3, <2>5
<1>5. \E x \in S : \A y \in S : x >= y
  BY <1>3, <1>4
<1>6. Max(S) \in S /\ \A y \in S : Max(S) >= y
  BY <1>5 DEF Max
<1> QED
  BY <1>6

LEMMA HistoryLimitIsNumber == HistoryLimit \in Nat
<1>1. \E x \in {Window, TriggerMessages} : \A y \in {Window, TriggerMessages} : x >= y
  BY ContextAssumption
<1> QED
  BY <1>1, ContextAssumption DEF HistoryLimit, Max

LEMMA Bounded ==
    ASSUME NEW end, NEW S, Within(S, end)
    PROVE  /\ S \in SUBSET Nat /\ IsFiniteSet(S)
           /\ \A x \in S : x \in Nat /\ 1 <= x /\ x <= end
           /\ Cardinality(S) \in Nat /\ Cardinality(S) <= end
           /\ S # {} => Max(S) \in S /\ \A x \in S : x <= Max(S)
<1>0. end \in Nat /\ S \in SUBSET (1..end)
  BY DEF Within
<1>1. \A x \in S : x \in Nat /\ 1 <= x /\ x <= end
  BY <1>0
<1>2. S \in SUBSET Nat /\ S \in SUBSET (1..end)
  BY <1>1
<1>3. IsFiniteSet(1..end) /\ Cardinality(1..end) = end
  <2>1. IsFiniteSet(1..end) /\ Cardinality(1..end) = IF 1 > end THEN 0 ELSE end - 1 + 1
    BY <1>0, FS_Interval
  <2> QED
    BY <1>0, <2>1
<1>4. IsFiniteSet(S) /\ Cardinality(S) <= Cardinality(1..end)
  BY <1>2, <1>3, FS_Subset
<1>5. Cardinality(S) \in Nat
  BY <1>4, FS_CardinalityType
<1>6. S # {} => Max(S) \in S /\ \A x \in S : x <= Max(S)
  BY <1>0, <1>1, <1>2, Greatest
<1> QED
  BY <1>1, <1>2, <1>3, <1>4, <1>5, <1>6

------------------------------------------------------------------------------
(* The oldest and the newest messages of a history.                        *)

LEMMA MessagesFinite ==
    ASSUME Typed
    PROVE  /\ IsFiniteSet(messages) /\ messages \subseteq Sequences
           /\ messages \subseteq 1..last /\ messages \in SUBSET Nat
           /\ last \in Nat /\ last <= MaxSequence
<1>1. last \in 0..MaxSequence /\ messages \subseteq 1..last
  BY DEF Typed, TypeOK
<1>2. last \in Nat /\ last <= MaxSequence
  BY <1>1, ContextAssumption
<1>3. IsFiniteSet(messages) /\ messages \in SUBSET Nat
  <2>1. Within(messages, last)
    BY <1>1, <1>2 DEF Within
  <2> QED
    BY <2>1, Bounded
<1>4. 1..last \subseteq Sequences
  BY <1>2, ContextAssumption DEF Sequences
<1> QED
  BY <1>1, <1>2, <1>3, <1>4

(* What is older than one of the oldest is one of the oldest.              *)
LEMMA OldestIsPrefix ==
    ASSUME NEW set \in SUBSET Nat, IsFiniteSet(set), NEW n \in Int
    PROVE  /\ Oldest(n, set) \subseteq set /\ IsFiniteSet(Oldest(n, set))
           /\ \A m \in Oldest(n, set) : \A k \in set : k <= m => k \in Oldest(n, set)
           /\ n > 0 /\ set # {} => Oldest(n, set) # {}
<1> DEFINE Below(m) == {k \in set : k < m}
<1>1. Oldest(n, set) = {m \in set : Cardinality(Below(m)) < n}
  BY DEF Oldest
<1>2. \A m \in set : Below(m) \in SUBSET set
  OBVIOUS
<1>3. \A m \in set : IsFiniteSet(Below(m)) /\ Cardinality(Below(m)) \in Nat
  <2> HIDE DEF Below
  <2> QED
    BY <1>2, FS_Subset, FS_CardinalityType
<1>4. Oldest(n, set) \subseteq set
  BY <1>1
<1> DEFINE oldest == Oldest(n, set)
<1>7. IsFiniteSet(oldest)
  <2>1. oldest \in SUBSET set
    BY <1>4
  <2> HIDE DEF oldest
  <2> QED
    BY <2>1, FS_Subset
<1>5. ASSUME NEW m \in Oldest(n, set), NEW k \in set, k <= m
      PROVE  k \in Oldest(n, set)
  <2>1. m \in set /\ Cardinality(Below(m)) < n
    BY <1>1
  <2>2. Below(k) \in SUBSET Below(m)
    <3> SUFFICES ASSUME NEW x \in Below(k) PROVE x \in Below(m)
      OBVIOUS
    <3>1. x \in Nat /\ k \in Nat /\ m \in Nat /\ x < k /\ x \in set
      BY <2>1
    <3> QED
      BY <1>5, <3>1
  <2>3. Cardinality(Below(k)) <= Cardinality(Below(m))
    <3> HIDE DEF Below
    <3> QED
      BY <1>3, <2>1, <2>2, FS_Subset
  <2>4. Cardinality(Below(k)) < n
    BY <1>3, <2>1, <2>3
  <2> QED
    BY <1>1, <2>4
<1>6. ASSUME n > 0, set # {}
      PROVE  Oldest(n, set) # {}
  <2>1. PICK m \in set : \A x \in set : m <= x
    BY <1>6, Least
  <2>2. Below(m) = {}
    <3> SUFFICES ASSUME NEW x \in Below(m) PROVE FALSE
      OBVIOUS
    <3>1. x \in Nat /\ m \in Nat /\ x < m /\ x \in set
      OBVIOUS
    <3> QED
      BY <2>1, <3>1
  <2>3. Cardinality(Below(m)) = 0
    BY <2>2, FS_EmptySet
  <2> QED
    BY <1>1, <1>6, <2>1, <2>3
<1> QED
  BY <1>4, <1>5, <1>6, <1>7

(* Of a history of which so many messages are beyond the border, all of    *)
(* these are among as many newest.                                         *)
LEMMA NewestReaches ==
    ASSUME NEW set \in SUBSET Nat, IsFiniteSet(set), NEW n \in Nat, NEW border \in Nat,
           Cardinality({m \in set : m > border}) <= n
    PROVE  \A m \in set : m > border => m \in Newest(n, set)
<1> SUFFICES ASSUME NEW m \in set, m > border PROVE m \in Newest(n, set)
  OBVIOUS
<1> DEFINE beyond == {k \in set : k > border}
           above == {k \in set : k > m}
<1>1. IsFiniteSet(beyond) /\ m \in beyond
  <2>1. beyond \in SUBSET set /\ m \in beyond
    OBVIOUS
  <2> HIDE DEF beyond
  <2> QED
    BY <2>1, FS_Subset
<1>2. above \in SUBSET (beyond \ {m})
  <2>1. ASSUME NEW k \in above
        PROVE  k \in beyond /\ k # m
    <3>1. k \in Nat /\ m \in Nat /\ k > m /\ k \in set
      OBVIOUS
    <3> QED
      BY <3>1
  <2> QED
    BY <2>1
<1>3. IsFiniteSet(beyond \ {m}) /\ Cardinality(beyond \ {m}) = Cardinality(beyond) - 1
  BY <1>1, FS_RemoveElement
<1>4. Cardinality(above) <= Cardinality(beyond \ {m}) /\ Cardinality(above) \in Nat
      /\ Cardinality(beyond) \in Nat
  <2> HIDE DEF beyond, above
  <2>1. IsFiniteSet(above) /\ Cardinality(above) <= Cardinality(beyond \ {m})
    BY <1>2, <1>3, FS_Subset
  <2> QED
    BY <1>1, <2>1, FS_CardinalityType
<1>5. Cardinality(beyond) <= n
  OBVIOUS
<1> HIDE DEF beyond
<1>6. Cardinality(above) < n
  BY <1>3, <1>4, <1>5
<1> QED
  BY <1>6 DEF Newest

------------------------------------------------------------------------------
(* Summaries and batches of a history.                                     *)

LEMMA SummaryOfNone ==
    ASSUME NEW history \in SUBSET (Nat \ {0}), NEW end \in Nat
    PROVE  SummaryOf(NoSummary, history, end) /\ NoSummary \in Summary
<1>1. {m \in history : m <= 0} = {}
  <2>1. ASSUME NEW m \in history
        PROVE  ~(m <= 0)
    <3>1. m \in Nat /\ m # 0
      OBVIOUS
    <3> QED
      BY <3>1
  <2> QED
    BY <2>1
<1> QED
  BY <1>1, FS_EmptySet, ContextAssumption DEF SummaryOf, NoSummary, Summary

LEMMA SummaryOfLonger ==
    ASSUME NEW end \in Nat, NEW history \in SUBSET (1..end), NEW s \in Summary,
           SummaryOf(s, history, end), NEW q \in Nat, q > end
    PROVE  SummaryOf(s, history \cup {q}, q)
<1>1. s.through \in Nat /\ s.through <= end
  BY DEF SummaryOf, Summary
<1>2. {m \in history \cup {q} : m <= s.through} = {m \in history : m <= s.through}
  BY <1>1
<1> QED
  BY <1>1, <1>2 DEF SummaryOf

LEMMA AdjoinsLonger ==
    ASSUME NEW end \in Nat, NEW history \in SUBSET (1..end), NEW batch, NEW border \in Nat,
           Adjoins(batch, border, history), NEW q \in Nat, q > end
    PROVE  Adjoins(batch, border, history \cup {q})
<1>1. batch \in SUBSET history /\ batch # {}
  BY DEF Adjoins
<1>2. /\ Max(batch) \in batch /\ Max(batch) <= end /\ Max(batch) \in Nat
      /\ \A x \in batch : x \in Nat /\ x <= end
  <2>1. Within(batch, end)
    BY <1>1 DEF Within
  <2> QED
    BY <1>1, <2>1, Bounded
<1>3. q \notin batch /\ ~(q <= Max(batch))
  BY <1>2
<1> QED
  BY <1>1, <1>3 DEF Adjoins

(* The oldest messages after a border, but for the most recent of them.    *)
LEMMA BatchAdjoins ==
    ASSUME NEW end \in Nat, NEW history \in SUBSET (1..end), IsFiniteSet(history),
           NEW border \in Nat, NEW latest \in Nat, NEW n \in Nat, NEW batch, NEW chosen,
           batch = Oldest(n, {m \in history : m > border /\ m <= latest}),
           ~(Cardinality(batch) < TriggerMessages),
           chosen = Oldest(Cardinality(batch) - KeepRecent, batch)
    PROVE  Adjoins(chosen, border, history)
<1> DEFINE open == {m \in history : m > border /\ m <= latest}
           k == Cardinality(batch) - KeepRecent
<1>1. open \in SUBSET Nat /\ open \subseteq history /\ IsFiniteSet(open)
  <2>1. open \in SUBSET history
    OBVIOUS
  <2>2. Within(open, end)
    BY <2>1 DEF Within
  <2> HIDE DEF open
  <2> QED
    BY <2>1, <2>2, Bounded
<1>2. /\ batch \subseteq open /\ IsFiniteSet(batch)
      /\ \A m \in batch : \A j \in open : j <= m => j \in batch
  <2>1. batch = Oldest(n, open)
    OBVIOUS
  <2> HIDE DEF open
  <2> DEFINE oldest == Oldest(n, open)
  <2>2. /\ oldest \subseteq open /\ IsFiniteSet(oldest)
        /\ \A m \in oldest : \A j \in open : j <= m => j \in oldest
    BY <1>1, OldestIsPrefix
  <2> HIDE DEF oldest
  <2>3. batch = oldest
    BY <2>1 DEF oldest
  <2> QED
    BY <2>2, <2>3
<1>3. k \in Int /\ k > 0 /\ batch # {}
  <2>1. Cardinality(batch) \in Nat
    BY <1>2, FS_CardinalityType
  <2>2. TriggerMessages \in Nat /\ KeepRecent \in Nat /\ KeepRecent < TriggerMessages
        /\ TriggerMessages > 0
    BY ContextAssumption DEF NewService
  <2>3. Cardinality(batch) # 0
    BY <2>1, <2>2
  <2> QED
    BY <2>1, <2>2, <2>3, FS_EmptySet
<1>4. chosen = Oldest(k, batch)
  OBVIOUS
<1> HIDE DEF k, open
<1>5. batch \in SUBSET Nat
  BY <1>1, <1>2
<1>6. /\ chosen \subseteq batch /\ chosen # {}
      /\ \A m \in chosen : \A j \in batch : j <= m => j \in chosen
  BY <1>2, <1>3, <1>4, <1>5, OldestIsPrefix
<1>7. chosen \in SUBSET history
  BY <1>1, <1>2, <1>6
<1>8. /\ Max(chosen) \in chosen /\ \A x \in chosen : x <= Max(chosen)
      /\ \A x \in chosen : x \in Nat
  <2>1. Within(chosen, end)
    BY <1>7 DEF Within
  <2>2. chosen # {}
    BY <1>6
  <2> QED
    BY <2>1, <2>2, Bounded
<1>9. ASSUME NEW m \in history, border < m, m <= Max(chosen)
      PROVE  m \in chosen
  <2>1. Max(chosen) \in batch /\ Max(chosen) \in open
    BY <1>2, <1>6, <1>8
  <2>2. m \in open
    <3>1. Max(chosen) <= latest /\ Max(chosen) \in Nat
      BY <1>8, <2>1 DEF open
    <3> QED
      BY <1>9, <3>1 DEF open
  <2>3. m \in batch
    BY <1>2, <1>9, <2>1, <2>2
  <2> QED
    BY <1>6, <1>8, <1>9, <2>3
<1>10. ASSUME NEW m \in chosen
       PROVE  border < m
  BY <1>2, <1>6 DEF open
<1> QED
  BY <1>1, <1>2, <1>6, <1>8, <1>9, <1>10 DEF Adjoins

(* A batch that adjoins a summary makes, with it, a summary of more.       *)
LEMMA UpdateOfSummary ==
    ASSUME NEW end \in 0..MaxSequence, NEW history \in SUBSET (1..end), IsFiniteSet(history),
           NEW s \in Summary, SummaryOf(s, history, end),
           NEW batch, Adjoins(batch, s.through, history),
           NEW new, new = [content |-> s.content \cup batch, through |-> Max(batch),
                           count |-> s.count + Cardinality(batch)]
    PROVE  SummaryOf(new, history, end) /\ new \in Summary /\ new.through > s.through
<1>0. end \in Nat /\ end <= MaxSequence
  BY ContextAssumption
<1>1. batch # {} /\ batch \in SUBSET history
  BY DEF Adjoins
<1>2. Max(batch) \in batch /\ Max(batch) \in Nat /\ Max(batch) <= end /\ Max(batch) >= 1
  <2>1. Within(batch, end)
    BY <1>0, <1>1 DEF Within
  <2> QED
    BY <1>0, <1>1, <2>1, Bounded
<1>3. s.through \in Nat /\ s.content = {m \in history : m <= s.through}
      /\ s.count = Cardinality(s.content)
  BY DEF SummaryOf, Summary
<1>4. s.through < Max(batch)
  BY <1>1, <1>2 DEF Adjoins
<1>5. \A m \in history : m \in batch <=> s.through < m /\ m <= Max(batch)
  BY DEF Adjoins
<1>6. s.content \cup batch = {m \in history : m <= Max(batch)}
  <2>1. ASSUME NEW m \in history
        PROVE  m \in s.content \cup batch <=> m <= Max(batch)
    BY <1>2, <1>3, <1>4, <1>5
  <2>2. s.content \subseteq history
    BY <1>3
  <2> QED
    BY <1>1, <2>1, <2>2
<1>7. s.content \cap batch = {}
  <2> SUFFICES ASSUME NEW m \in s.content, m \in batch PROVE FALSE
    OBVIOUS
  <2>1. m \in history /\ m \in Nat /\ m <= s.through /\ s.through < m
    BY <1>1, <1>3, <1>5
  <2> QED
    BY <1>3, <2>1
<1>8. IsFiniteSet(s.content) /\ IsFiniteSet(batch)
  <2>1. s.content \in SUBSET history
    BY <1>3
  <2> QED
    <3>1. Within(s.content, end) /\ Within(batch, end)
      BY <1>0, <1>1, <2>1 DEF Within
    <3> QED
      BY <3>1, Bounded
<1>9. Cardinality(s.content \cup batch) = Cardinality(s.content) + Cardinality(batch)
  <2>1. Cardinality(s.content \cap batch) = 0
    BY <1>7, FS_EmptySet
  <2>2. Cardinality(s.content) \in Nat /\ Cardinality(batch) \in Nat
    BY <1>8, FS_CardinalityType
  <2>3. Cardinality(s.content \cup batch) =
            Cardinality(s.content) + Cardinality(batch) - Cardinality(s.content \cap batch)
    BY <1>8, FS_Union
  <2> QED
    BY <2>1, <2>2, <2>3
<1>10. new.content = s.content \cup batch /\ new.through = Max(batch)
       /\ new.count = s.count + Cardinality(batch)
  OBVIOUS
<1>11. SummaryOf(new, history, end)
  BY <1>2, <1>3, <1>6, <1>9, <1>10 DEF SummaryOf
<1>12. new \in Summary
  <2>1. new.content \in SUBSET history
    BY <1>6, <1>10
  <2>2. /\ Cardinality(new.content) \in Nat /\ Cardinality(new.content) <= end
        /\ \A m \in new.content : m \in Nat /\ 1 <= m /\ m <= end
    <3>1. Within(new.content, end)
      BY <1>0, <2>1 DEF Within
    <3> QED
      BY <3>1, Bounded
  <2>3. new.count \in 0..MaxSequence
    BY <1>0, <1>3, <1>9, <1>10, <2>2, ContextAssumption
  <2>4. new.through \in 0..MaxSequence /\ new.content \subseteq Sequences
    BY <1>0, <1>2, <1>10, <2>2, ContextAssumption DEF Sequences
  <2> QED
    BY <2>3, <2>4 DEF Summary
<1> QED
  BY <1>4, <1>10, <1>11, <1>12

------------------------------------------------------------------------------
(* Steps of the conversation.                                              *)

LEMMA Initially == Init => IInv
<1> SUFFICES ASSUME Init PROVE IInv
  OBVIOUS
<1>1. SummaryOf(NoSummary, {}, 0) /\ NoSummary \in Summary
  BY SummaryOfNone
<1>2. messages = {} /\ last = 0 /\ deleted = FALSE /\ summary = NoSummary
      /\ job = [j \in Sequences |-> NoJob] /\ worker = [w \in Workers |-> NoUpdate]
      /\ turn = NoTurn /\ faults = 0 /\ overlapped = FALSE
  BY DEF Init
<1>3. NoUpdate \in UpdateRecord /\ NoTurn \in TurnRecord
      /\ NoJob \in [status : Statuses, attempts : 0..MaxAttempts]
  BY <1>1 DEF NoUpdate, NoTurn, NoJob, UpdateRecord, TurnRecord, Stations, Statuses
<1>4. /\ \A w \in Workers : worker[w] = NoUpdate
      /\ NoUpdate.at = "idle" /\ NoTurn.at = "idle" /\ NoTurn.window = {}
      /\ NoJob.attempts = 0
  BY <1>2 DEF NoUpdate, NoTurn, NoJob
<1>5. TypeOK
  <2>1. \A j \in Sequences : job[j].attempts <= MaxAttempts
    BY <1>2, <1>4, ContextAssumption
  <2>2. \A w \in Workers : worker[w].at = "idle" <=> worker[w] = NoUpdate
    BY <1>4
  <2>3. 0 \in 0..MaxSequence /\ 0 \in 0..MaxFaults /\ turn.window = {}
    BY <1>2, <1>4, ContextAssumption
  <2> QED
    BY <1>1, <1>2, <2>1, <2>2, <2>3 DEF TypeOK
<1>6. Typed
  BY <1>2, <1>3, <1>5 DEF Typed
<1>7. \A w \in Workers : ~Busy(w)
  BY <1>4 DEF Busy
<1>8. UpdatesAreFaithful /\ OneAtATime /\ TurnIsFaithful
  BY <1>2, <1>4, <1>7 DEF UpdatesAreFaithful, OneAtATime, TurnIsFaithful
<1> QED
  BY <1>1, <1>2, <1>6, <1>8 DEF IInv

(* What is known of the history stays true of a longer one.                *)
LEMMA MessageAdded ==
    ASSUME IInv, ~deleted, AddMessage, UNCHANGED <<deleted, summary, worker, overlapped>>
    PROVE  /\ SummaryOf(summary, messages, last)' /\ UpdatesAreFaithful' /\ OneAtATime'
           /\ last' \in Sequences /\ last' \notin messages /\ messages' = messages \cup {last'}
           /\ messages' \subseteq 1..last' /\ last' \in 0..MaxSequence
<1>1. /\ last \in Nat /\ messages \in SUBSET (1..last) /\ summary \in Summary
      /\ \A w \in Workers : worker[w] \in UpdateRecord
  BY MessagesFinite DEF IInv, Typed, TypeOK
<1>2. last' \in Nat /\ last < last' /\ last' <= MaxSequence /\ messages' = messages \cup {last'}
  BY <1>1 DEF AddMessage
<1>3. SummaryOf(summary, messages, last)'
  <2>1. SummaryOf(summary, messages \cup {last'}, last')
    BY <1>1, <1>2, SummaryOfLonger DEF IInv
  <2> QED
    BY <1>2, <2>1
<1>4. UpdatesAreFaithful'
  <2> SUFFICES ASSUME NEW w \in Workers, Busy(w)
      PROVE  /\ SummaryOf(worker[w].current, messages', last')
             /\ worker[w].at = "summarizing" =>
                  Adjoins(worker[w].batch, worker[w].current.through, messages')
    BY DEF UpdatesAreFaithful, Busy
  <2>1. worker[w].current \in Summary /\ worker[w].current.through \in Nat
    BY <1>1 DEF UpdateRecord, Summary
  <2>2. /\ SummaryOf(worker[w].current, messages, last)
        /\ worker[w].at = "summarizing" =>
              Adjoins(worker[w].batch, worker[w].current.through, messages)
    BY DEF IInv, UpdatesAreFaithful
  <2>3. SummaryOf(worker[w].current, messages \cup {last'}, last')
    BY <1>1, <1>2, <2>1, <2>2, SummaryOfLonger
  <2>4. ASSUME worker[w].at = "summarizing"
        PROVE  Adjoins(worker[w].batch, worker[w].current.through, messages \cup {last'})
    BY <1>1, <1>2, <2>1, <2>2, <2>4, AdjoinsLonger
  <2> QED
    BY <1>2, <2>3, <2>4
<1>5. OneAtATime'
  BY DEF IInv, OneAtATime, Busy
<1>6. last' \in Sequences /\ last' \notin messages
  BY <1>1, <1>2 DEF Sequences
<1>7. messages' \subseteq 1..last' /\ last' \in 0..MaxSequence
  BY <1>1, <1>2
<1> QED
  BY <1>2, <1>3, <1>4, <1>5, <1>6, <1>7

LEMMA BeginTurnStep ==
    ASSUME IInv, BeginTurn
    PROVE  IInv'
<1>1. /\ turn.at = "idle" /\ ~deleted /\ AddMessage
      /\ turn' = [turn EXCEPT !.at = "begun", !.window = ListMessages]
      /\ UNCHANGED <<deleted, summary, job, worker, faults, overlapped>>
  BY DEF BeginTurn
<1>2. /\ SummaryOf(summary, messages, last)' /\ UpdatesAreFaithful' /\ OneAtATime'
      /\ last' \in Sequences /\ last' \notin messages /\ messages' = messages \cup {last'}
      /\ messages' \subseteq 1..last' /\ last' \in 0..MaxSequence
  BY <1>1, MessageAdded
<1>3. turn = NoTurn /\ messages \in SUBSET Sequences /\ messages \in SUBSET Nat
  BY <1>1, MessagesFinite DEF IInv, Typed
<1>4. turn' = [at |-> "begun", window |-> ListMessages, summary |-> NoSummary]
  BY <1>1, <1>3 DEF NoTurn
<1>5. ListMessages = Newest(HistoryLimit, messages) /\ ListMessages \subseteq messages
  BY DEF ListMessages, Newest
<1>6. turn' \in TurnRecord /\ turn'.at = "begun"
  <2>1. NoSummary \in Summary
    BY SummaryOfNone
  <2>2. ListMessages \in SUBSET Sequences
    BY <1>3, <1>5
  <2> QED
    BY <1>4, <2>1, <2>2 DEF TurnRecord
<1>7. Typed'
  <2>1. TypeOK'
    BY <1>1, <1>2, <1>4, <1>5 DEF IInv, Typed, TypeOK
  <2> QED
    BY <1>1, <1>6, <2>1 DEF IInv, Typed
<1>8. TurnIsFaithful'
  <2>1. messages' \ {last'} = messages
    BY <1>2
  <2>2. turn'.window = Newest(HistoryLimit, messages' \ {last'}) /\ last' \in messages'
    BY <1>2, <1>4, <1>5, <2>1
  <2>3. {m \in messages' : m <= 0} = {}
    <3>1. ASSUME NEW m \in messages'
          PROVE  ~(m <= 0)
      BY <1>2 DEF Sequences
    <3> QED
      BY <3>1
  <2>4. turn'.summary.content = {} /\ turn'.summary.through = 0
    BY <1>4 DEF NoSummary
  <2>5. turn'.summary.content = {m \in messages' : m <= turn'.summary.through}
    BY <2>3, <2>4
  <2>6. TurnIsFaithful' <=>
          (turn'.at # "idle" /\ ~deleted' =>
             /\ last' \in messages'
             /\ turn'.window = Newest(HistoryLimit, messages' \ {last'})
             /\ turn'.summary.content = {m \in messages' : m <= turn'.summary.through})
    BY DEF TurnIsFaithful, Newest
  <2> QED
    BY <2>2, <2>5, <2>6
<1> QED
  BY <1>2, <1>7, <1>8 DEF IInv

LEMMA LoadSummaryStep ==
    ASSUME IInv, LoadSummary
    PROVE  IInv'
<1>1. /\ turn.at = "begun"
      /\ UNCHANGED <<messages, last, deleted, summary, job, worker, overlapped>>
      /\ turn' = [turn EXCEPT !.at = "shown"]
         \/ turn' = [turn EXCEPT !.at = "shown", !.summary = summary]
      /\ faults' \in 0..MaxFaults
  <2>1. CASE turn' = [turn EXCEPT !.at = "shown",
                       !.summary = IF GetConversationSummary THEN summary ELSE @]
             /\ UNCHANGED faults
    <3>1. faults' \in 0..MaxFaults
      BY <2>1 DEF IInv, Typed, TypeOK
    <3>2. CASE GetConversationSummary
      BY <2>1, <3>1, <3>2 DEF LoadSummary
    <3>3. CASE ~GetConversationSummary
      <4>1. turn \in TurnRecord
        BY DEF IInv, Typed
      <4>2. turn' = [turn EXCEPT !.at = "shown"]
        BY <2>1, <3>3, <4>1 DEF TurnRecord
      <4> QED
        BY <3>1, <4>2 DEF LoadSummary
    <3> QED
      BY <3>2, <3>3
  <2>2. CASE Fault /\ turn' = [turn EXCEPT !.at = "shown"]
    <3>1. faults' \in 0..MaxFaults
      BY <2>2, ContextAssumption DEF Fault, IInv, Typed, TypeOK
    <3> QED
      BY <2>2, <3>1 DEF LoadSummary
  <2> QED
    BY <2>1, <2>2 DEF LoadSummary
<1>2. turn \in TurnRecord /\ summary \in Summary /\ messages \subseteq 1..last
  BY DEF IInv, Typed, TypeOK
<1>3. /\ turn' \in TurnRecord /\ turn'.at = "shown" /\ turn'.window = turn.window
      /\ turn'.summary = turn.summary \/ turn'.summary = summary
  BY <1>1, <1>2 DEF TurnRecord
<1>4. TypeOK'
  BY <1>1, <1>3 DEF IInv, Typed, TypeOK
<1>5. Typed'
  BY <1>1, <1>3, <1>4 DEF IInv, Typed
<1>6. SummaryOf(summary, messages, last)' /\ UpdatesAreFaithful' /\ OneAtATime'
  BY <1>1 DEF IInv, UpdatesAreFaithful, OneAtATime, Busy, SummaryOf, Adjoins
<1>7. TurnIsFaithful'
  <2>1. summary.content = {m \in messages : m <= summary.through}
    BY DEF IInv, SummaryOf
  <2> QED
    BY <1>1, <1>3, <2>1 DEF IInv, TurnIsFaithful
<1> QED
  BY <1>5, <1>6, <1>7 DEF IInv

LEMMA AnswerStep ==
    ASSUME IInv, Answer
    PROVE  IInv'
<1>1. /\ turn.at = "shown" /\ ~deleted /\ AddMessage /\ turn' = NoTurn
      /\ UNCHANGED <<deleted, summary, worker, overlapped>>
  BY DEF Answer
<1>2. /\ SummaryOf(summary, messages, last)' /\ UpdatesAreFaithful' /\ OneAtATime'
      /\ last' \in Sequences /\ messages' \subseteq 1..last' /\ last' \in 0..MaxSequence
  BY <1>1, MessageAdded
<1>3. faults' \in 0..MaxFaults /\ (job' = [job EXCEPT ![last'].status = "queued"] \/ job' = job)
  BY DEF Answer, Fault, IInv, Typed, TypeOK
<1>4. job \in [Sequences -> [status : Statuses, attempts : 0..MaxAttempts]]
  BY DEF IInv, Typed
<1>5. job' \in [Sequences -> [status : Statuses, attempts : 0..MaxAttempts]]
  BY <1>2, <1>3, <1>4 DEF Statuses
<1>6. NoTurn \in TurnRecord /\ NoTurn.at = "idle" /\ NoTurn.window = {}
  BY ContextAssumption DEF NoTurn, TurnRecord, NoSummary, Summary
<1>7. \A j \in Sequences : job'[j].attempts <= MaxAttempts
  BY <1>5, ContextAssumption
<1>8. TypeOK'
  BY <1>1, <1>2, <1>3, <1>6, <1>7 DEF IInv, Typed, TypeOK
<1>9. Typed' /\ TurnIsFaithful'
  BY <1>1, <1>5, <1>6, <1>8 DEF IInv, Typed, TurnIsFaithful
<1> QED
  BY <1>2, <1>9 DEF IInv

LEMMA GiveUpStep ==
    ASSUME IInv, GiveUp
    PROVE  IInv'
<1>1. /\ turn' = NoTurn
      /\ UNCHANGED <<messages, last, deleted, summary, job, worker, faults, overlapped>>
  BY DEF GiveUp
<1>2. NoTurn \in TurnRecord /\ NoTurn.at = "idle" /\ NoTurn.window = {}
  BY ContextAssumption DEF NoTurn, TurnRecord, NoSummary, Summary
<1>3. TypeOK'
  BY <1>1, <1>2 DEF IInv, Typed, TypeOK
<1>4. Typed' /\ TurnIsFaithful'
  BY <1>1, <1>2, <1>3 DEF IInv, Typed, TurnIsFaithful
<1>5. SummaryOf(summary, messages, last)' /\ UpdatesAreFaithful' /\ OneAtATime'
  BY <1>1 DEF IInv, UpdatesAreFaithful, OneAtATime, Busy, SummaryOf, Adjoins
<1> QED
  BY <1>4, <1>5 DEF IInv

LEMMA DeleteConversationStep ==
    ASSUME IInv, DeleteConversation
    PROVE  IInv'
<1>1. /\ deleted' = TRUE /\ messages' = {} /\ summary' = NoSummary
      /\ job' = [j \in Sequences |-> NoJob]
      /\ UNCHANGED <<last, worker, turn, faults, overlapped>>
  BY DEF DeleteConversation
<1>2. last \in Nat
  BY MessagesFinite DEF IInv
<1>3. SummaryOf(NoSummary, {}, last) /\ NoSummary \in Summary
  BY <1>2, SummaryOfNone
<1>4. job' \in [Sequences -> [status : Statuses, attempts : 0..MaxAttempts]]
      /\ \A j \in Sequences : job'[j].attempts <= MaxAttempts
  BY <1>1, ContextAssumption DEF NoJob, Statuses
<1>5. TypeOK'
  BY <1>1, <1>3, <1>4 DEF IInv, Typed, TypeOK
<1>6. Typed'
  BY <1>1, <1>4, <1>5 DEF IInv, Typed
<1>7. UpdatesAreFaithful' /\ OneAtATime' /\ TurnIsFaithful'
  BY <1>1 DEF UpdatesAreFaithful, OneAtATime, TurnIsFaithful
<1> QED
  BY <1>1, <1>3, <1>6, <1>7 DEF IInv

------------------------------------------------------------------------------
(* Steps of an update.                                                     *)

LEMMA Settled ==
    ASSUME Typed, NEW w \in Workers, NEW status \in Statuses, Settles(w, status)
    PROVE  /\ job' \in [Sequences -> [status : Statuses, attempts : 0..MaxAttempts]]
           /\ \A j \in Sequences : job'[j].attempts <= MaxAttempts
           /\ worker' \in [Workers -> UpdateRecord]
           /\ worker'[w] = NoUpdate
           /\ \A v \in Workers : v # w => worker'[v] = worker[v]
           /\ \A v \in Workers : worker'[v].at = "idle" <=> worker'[v] = NoUpdate
<1>1. /\ job \in [Sequences -> [status : Statuses, attempts : 0..MaxAttempts]]
      /\ worker \in [Workers -> UpdateRecord]
      /\ \A v \in Workers : worker[v].at = "idle" <=> worker[v] = NoUpdate
  BY DEF Typed, TypeOK
<1>2. worker' = [worker EXCEPT ![w] = NoUpdate]
      /\ (job' = job \/ \E j : job' = [job EXCEPT ![j].status = status])
  BY DEF Settles
<1>3. job' \in [Sequences -> [status : Statuses, attempts : 0..MaxAttempts]]
  BY <1>1, <1>2
<1>4. \A j \in Sequences : job'[j].attempts <= MaxAttempts
  BY <1>3, ContextAssumption
<1>5. NoUpdate \in UpdateRecord /\ NoUpdate.at = "idle"
  BY ContextAssumption DEF NoUpdate, UpdateRecord, Stations, NoSummary, Summary
<1> QED
  BY <1>1, <1>2, <1>3, <1>4, <1>5

(* An update that ends leaves what holds of the others.                    *)
LEMMA UpdateEnds ==
    ASSUME IInv, NEW w \in Workers, NEW status \in Statuses, Settles(w, status),
           UNCHANGED <<messages, last, deleted, turn, overlapped>>,
           faults' \in 0..MaxFaults,
           summary' \in Summary, SummaryOf(summary, messages, last)',
           deleted => summary' = NoSummary,
           summary' = summary \/ Busy(w)
    PROVE  IInv'
<1>1. /\ job' \in [Sequences -> [status : Statuses, attempts : 0..MaxAttempts]]
      /\ \A j \in Sequences : job'[j].attempts <= MaxAttempts
      /\ worker' \in [Workers -> UpdateRecord]
      /\ worker'[w] = NoUpdate
      /\ \A v \in Workers : v # w => worker'[v] = worker[v]
      /\ \A v \in Workers : worker'[v].at = "idle" <=> worker'[v] = NoUpdate
  BY Settled DEF IInv
<1>2. TypeOK'
  BY <1>1 DEF IInv, Typed, TypeOK
<1>3. Typed'
  BY <1>1, <1>2 DEF IInv, Typed
<1>4. \A v \in Workers : Busy(v)' => v # w /\ Busy(v) /\ worker'[v] = worker[v]
  BY <1>1 DEF Busy, NoUpdate
<1>5. UpdatesAreFaithful'
  <2> SUFFICES ASSUME ~deleted, NEW v \in Workers, Busy(v)'
      PROVE  /\ SummaryOf(worker'[v].current, messages', last')
             /\ worker'[v].at = "summarizing" =>
                  Adjoins(worker'[v].batch, worker'[v].current.through, messages')
    BY DEF UpdatesAreFaithful
  <2> QED
    BY <1>4 DEF IInv, UpdatesAreFaithful
<1>6. OneAtATime'
  <2> SUFFICES ASSUME ~overlapped, ~deleted
      PROVE  /\ \A u, v \in Workers : Busy(u)' /\ Busy(v)' => u = v
             /\ \A v \in Workers : Busy(v)' => worker'[v].current = summary'
    BY DEF OneAtATime
  <2>1. /\ \A u, v \in Workers : Busy(u) /\ Busy(v) => u = v
        /\ \A v \in Workers : Busy(v) => worker[v].current = summary
    BY DEF IInv, OneAtATime
  <2> QED
    BY <1>4, <2>1
<1>7. TurnIsFaithful'
  BY DEF IInv, TurnIsFaithful, Newest
<1> QED
  BY <1>3, <1>5, <1>6, <1>7 DEF IInv

LEMMA BeginUpdateStep ==
    ASSUME IInv, NEW w \in Workers, NEW j \in Sequences, BeginUpdate(w, j)
    PROVE  IInv'
<1>1. /\ worker[w] = NoUpdate /\ job[j].attempts < MaxAttempts
      /\ UNCHANGED <<messages, last, deleted, summary, turn, faults>>
      /\ overlapped' = (overlapped \/ \E v \in Workers : worker[v] # NoUpdate)
  BY DEF BeginUpdate
<1> DEFINE begun == [at |-> "read", latest |-> j, current |-> summary, batch |-> {}]
<1>2. /\ job \in [Sequences -> [status : Statuses, attempts : 0..MaxAttempts]]
      /\ worker \in [Workers -> UpdateRecord] /\ summary \in Summary
      /\ \A v \in Workers : worker[v].at = "idle" <=> worker[v] = NoUpdate
  BY DEF IInv, Typed, TypeOK
<1>3. begun \in UpdateRecord /\ begun.at = "read" /\ begun.current = summary
  BY <1>2, ContextAssumption DEF UpdateRecord, Stations, Sequences
<1>4. job' \in [Sequences -> [status : Statuses, attempts : 0..MaxAttempts]]
  <2>1. job[j].attempts + 1 \in 0..MaxAttempts
    BY <1>1, <1>2, ContextAssumption
  <2>2. CASE job' = [job EXCEPT ![j].attempts = @ + 1]
    BY <1>2, <2>1, <2>2
  <2>3. CASE job' = [job EXCEPT ![j] =
                 [status |-> IF @.attempts + 1 < MaxAttempts THEN "queued" ELSE "failed",
                  attempts |-> @.attempts + 1]]
    BY <1>2, <2>1, <2>3 DEF Statuses
  <2> QED
    BY <2>2, <2>3 DEF BeginUpdate
<1>5. worker' = [worker EXCEPT ![w] = begun] \/ worker' = worker
  BY DEF BeginUpdate
<1> HIDE DEF begun
<1>6. /\ worker' \in [Workers -> UpdateRecord]
      /\ \A v \in Workers : worker'[v] = worker[v] \/ (v = w /\ worker'[v] = begun)
  <2>1. CASE worker' = worker
    BY <1>2, <2>1
  <2>2. CASE worker' = [worker EXCEPT ![w] = begun]
    <3>1. \A v \in Workers : worker'[v] = IF v = w THEN begun ELSE worker[v]
      BY <1>2, <2>2
    <3>2. worker' \in [Workers -> UpdateRecord]
      BY <1>2, <1>3, <2>2
    <3> QED
      BY <3>1, <3>2
  <2> QED
    BY <1>5, <2>1, <2>2
<1>7. \A v \in Workers : worker'[v].at = "idle" <=> worker'[v] = NoUpdate
  BY <1>2, <1>3, <1>6 DEF NoUpdate
<1>8. \A i \in Sequences : job'[i].attempts <= MaxAttempts
  BY <1>4, ContextAssumption
<1>9. overlapped' \in BOOLEAN
  BY <1>1
<1>10. TypeOK'
  BY <1>1, <1>7, <1>8 DEF IInv, Typed, TypeOK
<1>11. Typed'
  BY <1>1, <1>4, <1>6, <1>9, <1>10 DEF IInv, Typed
<1>12. UpdatesAreFaithful'
  <2> SUFFICES ASSUME ~deleted, NEW v \in Workers, Busy(v)'
      PROVE  /\ SummaryOf(worker'[v].current, messages, last)
             /\ worker'[v].at = "summarizing" =>
                  Adjoins(worker'[v].batch, worker'[v].current.through, messages)
    BY <1>1 DEF UpdatesAreFaithful
  <2>1. CASE worker'[v] = worker[v]
    BY <2>1 DEF IInv, UpdatesAreFaithful, Busy
  <2>2. CASE worker'[v] = begun
    BY <1>3, <2>2 DEF IInv
  <2> QED
    BY <1>6, <2>1, <2>2
<1>13. OneAtATime'
  <2> SUFFICES ASSUME ~overlapped', ~deleted
      PROVE  /\ \A u, v \in Workers : Busy(u)' /\ Busy(v)' => u = v
             /\ \A v \in Workers : Busy(v)' => worker'[v].current = summary
    BY <1>1 DEF OneAtATime
  <2>1. \A v \in Workers : worker[v] = NoUpdate
    BY <1>1
  <2>2. \A v \in Workers : Busy(v)' => v = w /\ worker'[v] = begun
    BY <1>6, <2>1 DEF Busy, NoUpdate
  <2> QED
    BY <1>3, <2>2
<1>14. TurnIsFaithful' /\ SummaryOf(summary, messages, last)'
  BY <1>1 DEF IInv, TurnIsFaithful, Newest
<1> QED
  BY <1>11, <1>12, <1>13, <1>14 DEF IInv

LEMMA SelectBatchStep ==
    ASSUME IInv, NEW w \in Workers, SelectBatch(w)
    PROVE  IInv'
<1> DEFINE batch == ListMessagesForSummary(worker[w].current.through, worker[w].latest)
           chosen == Oldest(Cardinality(batch) - KeepRecent, batch)
<1>1. /\ worker[w].at = "read"
      /\ UNCHANGED <<messages, last, deleted, summary, turn, faults, overlapped>>
  BY DEF SelectBatch
<1>2. \/ Settles(w, "completed")
      \/ /\ ~(Cardinality(batch) < TriggerMessages) /\ UNCHANGED job
         /\ worker' = [worker EXCEPT ![w].at = "summarizing", ![w].batch = chosen]
  BY DEF SelectBatch
<1>3. CASE Settles(w, "completed")
  <2>1. "completed" \in Statuses
    BY DEF Statuses
  <2>2. /\ faults' \in 0..MaxFaults /\ summary' \in Summary /\ (deleted => summary' = NoSummary)
        /\ SummaryOf(summary, messages, last)'
    BY <1>1 DEF IInv, Typed, TypeOK
  <2> QED
    BY <1>1, <1>3, <2>1, <2>2, UpdateEnds
<1>4. CASE /\ ~(Cardinality(batch) < TriggerMessages) /\ UNCHANGED job
           /\ worker' = [worker EXCEPT ![w].at = "summarizing", ![w].batch = chosen]
  <2>1. /\ worker \in [Workers -> UpdateRecord] /\ worker[w].current \in Summary
        /\ worker[w].current.through \in Nat /\ worker[w].latest \in Nat
        /\ \A v \in Workers : worker[v].at = "idle" <=> worker[v] = NoUpdate
    BY ContextAssumption DEF IInv, Typed, TypeOK, UpdateRecord, Summary
  <2>2. /\ last \in Nat /\ messages \in SUBSET (1..last) /\ IsFiniteSet(messages)
        /\ messages \subseteq Sequences
    BY MessagesFinite DEF IInv
  <2>3. chosen \subseteq Sequences
    BY <2>2 DEF ListMessagesForSummary, Oldest
  <2>4. Adjoins(chosen, worker[w].current.through, messages)
    <3>1. batch = Oldest(maxSummaryBatchMessages,
                    {m \in messages : m > worker[w].current.through /\ m <= worker[w].latest})
      BY DEF ListMessagesForSummary
    <3> HIDE DEF batch
    <3> QED
      BY <1>4, <2>1, <2>2, <3>1, BatchAdjoins, ContextAssumption
  <2> HIDE DEF batch, chosen
  <2>5. /\ worker' \in [Workers -> UpdateRecord]
        /\ worker'[w].at = "summarizing" /\ worker'[w].batch = chosen
        /\ worker'[w].current = worker[w].current
        /\ \A v \in Workers : v # w => worker'[v] = worker[v]
    BY <1>4, <2>1, <2>3 DEF UpdateRecord, Stations
  <2>6. \A v \in Workers : worker'[v].at = "idle" <=> worker'[v] = NoUpdate
    BY <2>1, <2>5 DEF NoUpdate
  <2>7. Typed'
    <3>1. TypeOK'
      BY <1>1, <1>4, <2>6 DEF IInv, Typed, TypeOK
    <3> QED
      BY <1>1, <1>4, <2>5, <3>1 DEF IInv, Typed
  <2>8. \A v \in Workers : (Busy(v)' <=> Busy(v)) /\ worker'[v].current = worker[v].current
    BY <1>1, <2>5 DEF Busy
  <2>9. UpdatesAreFaithful'
    <3> SUFFICES ASSUME ~deleted, NEW v \in Workers, Busy(v)'
        PROVE  /\ SummaryOf(worker'[v].current, messages, last)
               /\ worker'[v].at = "summarizing" =>
                    Adjoins(worker'[v].batch, worker'[v].current.through, messages)
      BY <1>1 DEF UpdatesAreFaithful
    <3>1. SummaryOf(worker'[v].current, messages, last)
      BY <2>8 DEF IInv, UpdatesAreFaithful
    <3>2. CASE v = w
      BY <2>4, <2>5, <3>1, <3>2
    <3>3. CASE v # w
      BY <2>5, <2>8, <3>1, <3>3 DEF IInv, UpdatesAreFaithful
    <3> QED
      BY <3>2, <3>3
  <2>10. OneAtATime'
    BY <1>1, <2>8 DEF IInv, OneAtATime
  <2>11. TurnIsFaithful' /\ SummaryOf(summary, messages, last)'
    BY <1>1 DEF IInv, TurnIsFaithful, Newest
  <2> QED
    BY <2>7, <2>9, <2>10, <2>11 DEF IInv
<1> QED
  BY <1>2, <1>3, <1>4

(* What is written of a conversation that is still there.                  *)
LEMMA UpdatedIsFaithful ==
    ASSUME IInv, ~deleted, NEW w \in Workers, worker[w].at = "summarizing"
    PROVE  /\ SummaryOf(Updated(w), messages, last) /\ Updated(w) \in Summary
           /\ Updated(w).through > worker[w].current.through
<1>1. /\ last \in 0..MaxSequence /\ messages \in SUBSET (1..last) /\ IsFiniteSet(messages)
      /\ worker[w].current \in Summary
  BY MessagesFinite DEF IInv, Typed, TypeOK, UpdateRecord
<1>2. /\ SummaryOf(worker[w].current, messages, last)
      /\ Adjoins(worker[w].batch, worker[w].current.through, messages)
  BY DEF IInv, UpdatesAreFaithful, Busy
<1>3. Updated(w) = [content |-> worker[w].current.content \cup worker[w].batch,
                    through |-> Max(worker[w].batch),
                    count   |-> worker[w].current.count + Cardinality(worker[w].batch)]
  BY DEF Updated
<1> QED
  BY <1>1, <1>2, <1>3, UpdateOfSummary

LEMMA UpsertConversationSummaryStep ==
    ASSUME IInv, NEW w \in Workers, UpsertConversationSummary(w)
    PROVE  IInv'
<1>1. /\ worker[w].at = "summarizing" /\ Busy(w)
      /\ UNCHANGED <<messages, last, deleted, turn, faults, overlapped>>
      /\ IF deleted THEN summary' = summary ELSE summary' = Updated(w)
  BY DEF UpsertConversationSummary, Busy
<1>2. PICK status \in Statuses : Settles(w, status)
  BY DEF UpsertConversationSummary, AttemptFails, Statuses
<1>3. summary' \in Summary /\ SummaryOf(summary', messages, last)
  <2>1. CASE deleted
    BY <1>1, <2>1 DEF IInv, Typed, TypeOK
  <2>2. CASE ~deleted
    BY <1>1, <2>2, UpdatedIsFaithful
  <2> QED
    BY <2>1, <2>2
<1>4. (deleted => summary' = NoSummary) /\ faults' \in 0..MaxFaults
      /\ SummaryOf(summary, messages, last)'
  BY <1>1, <1>3 DEF IInv, Typed, TypeOK
<1> QED
  BY <1>1, <1>2, <1>3, <1>4, UpdateEnds

LEMMA UpdateFailsStep ==
    ASSUME IInv, NEW w \in Workers, UpdateFails(w)
    PROVE  IInv'
<1>1. UNCHANGED <<messages, last, deleted, summary, turn, overlapped>>
  BY DEF UpdateFails
<1>2. PICK status \in Statuses : Settles(w, status)
  BY DEF UpdateFails, AttemptFails, Statuses
<1>3. faults' \in 0..MaxFaults
  BY ContextAssumption DEF UpdateFails, Fault, IInv, Typed, TypeOK
<1>4. /\ summary' \in Summary /\ (deleted => summary' = NoSummary)
      /\ SummaryOf(summary, messages, last)'
  BY <1>1 DEF IInv, Typed, TypeOK
<1> QED
  BY <1>1, <1>2, <1>3, <1>4, UpdateEnds

------------------------------------------------------------------------------
(* Theorems.                                                               *)

(* What has been read of the conversation stays true of it.                *)
THEOREM Invariance == Spec => []IInv
<1>1. Init => IInv
  BY Initially
<1>2. IInv /\ [Next]_vars => IInv'
  <2> SUFFICES ASSUME IInv, [Next]_vars PROVE IInv'
    OBVIOUS
  <2>1. CASE BeginTurn
    BY <2>1, BeginTurnStep
  <2>2. CASE LoadSummary
    BY <2>2, LoadSummaryStep
  <2>3. CASE Answer
    BY <2>3, AnswerStep
  <2>4. CASE GiveUp
    BY <2>4, GiveUpStep
  <2>5. CASE DeleteConversation
    BY <2>5, DeleteConversationStep
  <2>6. CASE \E w \in Workers : Update(w) \/ UpdateFails(w)
    <3>1. PICK w \in Workers : Update(w) \/ UpdateFails(w)
      BY <2>6
    <3>2. CASE \E j \in Sequences : BeginUpdate(w, j)
      BY <3>2, BeginUpdateStep
    <3>3. CASE SelectBatch(w)
      BY <3>3, SelectBatchStep
    <3>4. CASE UpsertConversationSummary(w)
      BY <3>4, UpsertConversationSummaryStep
    <3>5. CASE UpdateFails(w)
      BY <3>5, UpdateFailsStep
    <3> QED
      BY <3>1, <3>2, <3>3, <3>4, <3>5 DEF Update
  <2>7. CASE UNCHANGED vars
    <3>1. UNCHANGED <<messages, last, deleted, summary, job, worker, turn, faults, overlapped>>
      BY <2>7 DEF vars
    <3>2. Typed'
      BY <3>1 DEF IInv, Typed, TypeOK
    <3>3. SummaryOf(summary, messages, last)' /\ UpdatesAreFaithful' /\ OneAtATime'
      BY <3>1 DEF IInv, UpdatesAreFaithful, OneAtATime, Busy, SummaryOf, Adjoins
    <3>4. TurnIsFaithful'
      BY <3>1 DEF IInv, TurnIsFaithful, Newest
    <3> QED
      BY <3>2, <3>3, <3>4 DEF IInv
  <2> QED
    BY <2>1, <2>2, <2>3, <2>4, <2>5, <2>6, <2>7 DEF Next
<1> QED
  BY <1>1, <1>2, PTL DEF Spec

(* Sequence numbers, attempts and windows keep their bounds.               *)
THEOREM Typing == Spec => []TypeOK
<1>1. IInv => TypeOK
  BY DEF IInv, Typed
<1> QED
  BY <1>1, Invariance, PTL

(* Whatever updates overlap, are repeated, fail or are overtaken: the      *)
(* summary is made of exactly the messages up to its border, and counts    *)
(* each of them once (summary/types.go:14, service.go:63-97).              *)
THEOREM Faithfulness == Spec => []SummaryIsFaithful
<1>1. IInv => SummaryIsFaithful
  BY DEF IInv, SummaryOf, SummaryIsFaithful
<1> QED
  BY <1>1, Invariance, PTL

(* The model is shown every earlier message, summarized or as it is,       *)
(* unless more of them follow the border than a turn lists                 *)
(* (service.go:52, chat/service.go:391-396).                               *)
THEOREM Completeness == Spec => []NothingForgotten
<1>1. IInv => NothingForgotten
  <2> DEFINE earlier == messages \ {last}
             border == turn.summary.through
             beyond == {m \in earlier : m > border}
  <2> SUFFICES ASSUME IInv, turn.at = "shown", ~deleted, Cardinality(beyond) <= HistoryLimit,
                      NEW m \in earlier
      PROVE  m \in Shown
    BY DEF NothingForgotten
  <2>1. /\ turn.window = Newest(HistoryLimit, earlier)
        /\ turn.summary.content = {k \in messages : k <= border}
    BY DEF IInv, TurnIsFaithful
  <2>2. border \in Nat
    BY ContextAssumption DEF IInv, Typed, TurnRecord, Summary
  <2>3. IsFiniteSet(messages) /\ messages \in SUBSET Nat
    BY MessagesFinite DEF IInv
  <2>4. earlier \in SUBSET Nat /\ IsFiniteSet(earlier)
    <3>1. earlier \in SUBSET messages
      OBVIOUS
    <3> HIDE DEF earlier
    <3> QED
      BY <2>3, <3>1, FS_Subset
  <2>5. m \in messages /\ m \in Nat
    BY <2>3
  <2>6. CASE m <= border
    BY <2>1, <2>5, <2>6 DEF Shown
  <2>7. CASE m > border
    <3> HIDE DEF earlier, border
    <3>1. m \in Newest(HistoryLimit, earlier)
      BY <2>2, <2>4, <2>7, NewestReaches, HistoryLimitIsNumber
    <3>2. m \in turn.window
      BY <2>1, <3>1
    <3> QED
      BY <2>7, <3>2 DEF Shown, messagesAfterSequence, border
  <2> QED
    BY <2>2, <2>5, <2>6, <2>7
<1> QED
  BY <1>1, Invariance, PTL

(* Jobs may run in any order and more than once: as long as no two updates *)
(* were under way at once, the border never moves back                     *)
(* (summary/service.go:44-97).                                             *)
THEOREM Advance == Spec => BorderAdvances
<1> DEFINE Advances == ~overlapped /\ ~deleted' => summary'.through >= summary.through
<1>1. IInv /\ [Next]_vars => [Advances]_vars
  <2> SUFFICES ASSUME IInv, Next, ~overlapped, ~deleted'
      PROVE  summary'.through >= summary.through
    OBVIOUS
  <2>1. summary.through \in Nat
    BY ContextAssumption DEF IInv, Typed, TypeOK, Summary
  <2>2. CASE UNCHANGED summary
    BY <2>1, <2>2
  <2>3. CASE \E w \in Workers : UpsertConversationSummary(w)
    <3>1. PICK w \in Workers : UpsertConversationSummary(w)
      BY <2>3
    <3>2. /\ worker[w].at = "summarizing" /\ Busy(w) /\ ~deleted
          /\ summary' = Updated(w)
      BY <3>1 DEF UpsertConversationSummary, Busy
    <3>3. worker[w].current = summary
      BY <3>2 DEF IInv, OneAtATime
    <3>4. Updated(w) \in Summary /\ Updated(w).through > worker[w].current.through
      BY <3>2, UpdatedIsFaithful
    <3>5. Updated(w).through \in Nat
      BY <3>4, ContextAssumption DEF Summary
    <3> QED
      BY <2>1, <3>2, <3>3, <3>4, <3>5
  <2>4. CASE DeleteConversation
    BY <2>4 DEF DeleteConversation
  <2> QED
    BY <2>2, <2>3, <2>4
       DEF Next, Update, BeginTurn, LoadSummary, Answer, GiveUp, BeginUpdate, SelectBatch, UpdateFails
<1> QED
  BY <1>1, Invariance, PTL DEF Spec, BorderAdvances

------------------------------------------------------------------------------
(* Retrieval.                                                              *)

\* Any number of numbers has a least one.
LEMMA LeastNumber ==
  ASSUME NEW T \in SUBSET Nat, T # {}
  PROVE  \E n \in T : \A m \in T : n <= m
<1> DEFINE R == StrictSubsetOrdering(Nat)
           Below(n) == 0 .. n - 1
           W == {Below(n) : n \in T}
<1>1. IsWellFoundedOn(R, FiniteSubsetsOf(Nat))
  BY FS_StrictSubsetOrderingWellFounded, Zenon
<1>2. W \subseteq FiniteSubsetsOf(Nat) /\ W # {}
  <2>1. \A n \in Nat : IsFiniteSet(Below(n)) 
    <3>1. TAKE n \in Nat
    <3>2. n - 1 \in Int /\ 0 \in Int OBVIOUS
    <3> QED BY <3>2, FS_Interval
  <2>2. \A n \in Nat : Below(n) \in SUBSET Nat
    OBVIOUS
  <2> QED BY <2>1, <2>2 DEF FiniteSubsetsOf
<1>3. \A m, n \in Nat : m < n => <<Below(m), Below(n)>> \in R
  <2>1. TAKE m, n \in Nat
  <2>2. HAVE m < n
  <2>3. m \in Below(n) /\ m \notin Below(m) /\ Below(m) \subseteq Below(n)
    BY <2>2
  <2>4. Below(m) \in SUBSET Nat /\ Below(n) \in SUBSET Nat
    OBVIOUS
  <2> HIDE DEF Below
  <2> QED BY <2>3, <2>4 DEF StrictSubsetOrdering
<1> HIDE DEF R, W
<1>4. PICK b \in W : \A c \in W : ~ (<<c, b>> \in R)
  BY <1>1, <1>2, WFMin, Zenon
<1>5. PICK n \in T : b = Below(n)
  BY <1>4 DEF W
<1>6. \A m \in T : ~ (<<Below(m), Below(n)>> \in R)
  BY <1>4, <1>5 DEF W
<1> HIDE DEF Below
<1>7. \A m \in T : ~ (m < n)
  <2>1. TAKE m \in T
  <2>2. m < n => <<Below(m), Below(n)>> \in R
    BY <1>3, Zenon
  <2> QED BY <2>2, <1>6, Zenon
<1>8. QED
  BY <1>7

-----------------------------------------------------------------------------
(* Cutting a text                                                          *)

\* A number that is bounded has a greatest below it.
LEMMA GreatestNumber ==
  ASSUME NEW T \in SUBSET Nat, T # {}, NEW b \in Nat, \A n \in T : n <= b
  PROVE  \E n \in T : \A m \in T : n >= m
<1> DEFINE U == {b - n : n \in T}
<1>1. U \in SUBSET Nat /\ U # {}
  <2>1. \A n \in T : n \in Nat /\ n <= b
    OBVIOUS
  <2>2. \A n \in T : b - n \in Nat
    BY <2>1
  <2>3. U \in SUBSET Nat
    BY <2>2, Zenon
  <2>4. PICK n : n \in T
    OBVIOUS
  <2>5. b - n \in U
    BY <2>4, Zenon
  <2> QED BY <2>3, <2>5, Zenon
<1> HIDE DEF U
<1>2. PICK u \in U : \A v \in U : u <= v
  BY <1>1, LeastNumber
<1>3. PICK n \in T : u = b - n
  BY DEF U
<1>4. \A m \in T : b - m \in U
  BY DEF U
<1>5. \A m \in T : n >= m
  BY <1>2, <1>3, <1>4
<1> QED BY <1>5

LEMMA LeastIsIn ==
  ASSUME NEW T \in SUBSET Nat, T # {}
  PROVE  Min(T) \in T /\ \A m \in T : Min(T) <= m
BY LeastNumber DEF Min

LEMMA GreatestIsIn ==
  ASSUME NEW T \in SUBSET Nat, T # {}, NEW b \in Nat, \A n \in T : n <= b
  PROVE  Max(T) \in T /\ \A m \in T : Max(T) >= m
BY GreatestNumber DEF Max

\* A piece of a text: from the rune after position from up to position to.
Piece == [from: Nat, to: Nat]

Covers(text, piece, i) ==
  piece.from < i /\ i <= piece.to /\ piece.to - piece.from <= MaxRunes

\* A boundary lies where it was looked for.
LEMMA BoundaryWithin ==
  ASSUME NEW text, NEW low \in Nat, NEW high \in Nat, low <= high
  PROVE  FindBoundary(text, low, high) \in low .. high
<1> DEFINE Inside(level) == Boundaries(text)[level] \cap (low .. high)
           Levels == {level \in 1 .. 5 : Inside(level) # {}}
<1>1. FindBoundary(text, low, high) = IF Levels = {} THEN high ELSE Max(Inside(Min(Levels)))
  BY DEF FindBoundary
<1>2. CASE Levels = {}
  BY <1>1, <1>2
<1>3. CASE Levels # {}
  <2>1. Levels \in SUBSET Nat
    OBVIOUS
  <2>2. Min(Levels) \in Levels
    <3> HIDE DEF Levels
    <3> QED BY <2>1, <1>3, LeastIsIn
  <2>3. Inside(Min(Levels)) # {}
    BY <2>2
  <2> HIDE DEF Levels
  <2>4. \A S : S \cap (low .. high) \in SUBSET Nat /\ \A n \in S \cap (low .. high) : n <= high
    OBVIOUS
  <2> DEFINE T == Inside(Min(Levels))
  <2>5. T \in SUBSET Nat /\ T # {} /\ \A n \in T : n <= high
    BY <2>3, <2>4
  <2>6. T \subseteq low .. high
    OBVIOUS
  <2>7. FindBoundary(text, low, high) = Max(T)
    BY <1>1, <1>3
  <2> HIDE DEF T
  <2>8. Max(T) \in T
    BY <2>5, GreatestIsIn
  <2> QED BY <2>6, <2>7, <2>8
<1> QED BY <1>2, <1>3

\* Every cut goes on, by no more than a chunk may hold.
LEMMA CutGoesOn ==
  ASSUME NEW text \in Seq(STRING), NEW start \in 0 .. Len(text), start # Len(text)
  PROVE  /\ ChunkEnd(text, start) \in start + 1 .. Len(text)
         /\ ChunkEnd(text, start) <= start + MaxRunes
         /\ NextStart(text, start, ChunkEnd(text, start)) \in start + 1 .. ChunkEnd(text, start)
<1>1. Len(text) \in Nat /\ start \in Nat /\ start < Len(text)
  OBVIOUS
<1>2. MaxRunes \in Nat /\ MaxRunes \div 2 \in Nat /\ MaxRunes \div 2 >= 1 /\ MaxRunes \div 2 <= MaxRunes
      /\ OverlapRunes \in Nat
  BY ChunkOptions
<1> DEFINE end == ChunkEnd(text, start)
<1>3. end \in start + 1 .. Len(text) /\ end <= start + MaxRunes
  <2>1. CASE start + MaxRunes >= Len(text)
    BY <1>1, <2>1 DEF ChunkEnd
  <2>2. CASE ~ (start + MaxRunes >= Len(text))
    <3>1. start + MaxRunes \div 2 \in Nat /\ start + MaxRunes \in Nat
          /\ start + MaxRunes \div 2 <= start + MaxRunes
      BY <1>1, <1>2
    <3>2. FindBoundary(text, start + MaxRunes \div 2, start + MaxRunes)
            \in start + MaxRunes \div 2 .. start + MaxRunes
      BY <3>1, BoundaryWithin
    <3>3. end = FindBoundary(text, start + MaxRunes \div 2, start + MaxRunes)
      BY <2>2 DEF ChunkEnd
    <3> HIDE DEF end
    <3> QED BY <1>1, <1>2, <2>2, <3>1, <3>2, <3>3
  <2> QED BY <2>1, <2>2
<1> HIDE DEF end
<1>4. NextStart(text, start, end) \in start + 1 .. end
  BY <1>1, <1>2, <1>3 DEF NextStart
<1> QED BY <1>3, <1>4 DEF end

\* Trimming keeps what is not blank.
LEMMA TrimmedHolds ==
  ASSUME NEW text \in Seq(STRING), NEW start \in Nat, NEW end \in Nat, start <= end,
         end <= Len(text), end <= start + MaxRunes
  PROVE  /\ Trimmed(text, start, end) \in Seq(Piece)
         /\ \A i \in start + 1 .. end : text[i] \notin Blank =>
               \E c \in DOMAIN Trimmed(text, start, end) : Covers(text, Trimmed(text, start, end)[c], i)
<1> DEFINE Solid == {i \in start .. end - 1 : RuneAt(text, i) \notin Blank}
<1>0. Len(text) \in Nat /\ MaxRunes \in Nat
  BY ChunkOptions
<1>1. \A i \in start + 1 .. end : text[i] \notin Blank => i - 1 \in Solid
  BY <1>0 DEF RuneAt
<1>2. Solid \in SUBSET Nat /\ \A n \in Solid : n <= end /\ n \in start .. end - 1
  OBVIOUS
<1>3. Trimmed(text, start, end)
        = IF Solid = {} THEN <<>> ELSE <<[from |-> Min(Solid), to |-> Max(Solid) + 1]>>
  BY DEF Trimmed
<1> HIDE DEF Solid
<1>4. CASE Solid = {}
  BY <1>1, <1>3, <1>4
<1>5. CASE Solid # {}
  <2>1. Min(Solid) \in Solid /\ \A m \in Solid : Min(Solid) <= m
    BY <1>2, <1>5, LeastIsIn
  <2>2. Max(Solid) \in Solid /\ \A m \in Solid : Max(Solid) >= m
    BY <1>2, <1>5, GreatestIsIn
  <2> DEFINE p == [from |-> Min(Solid), to |-> Max(Solid) + 1]
  <2>3. p \in Piece
    <3>1. Min(Solid) \in Nat /\ Max(Solid) \in Nat
      BY <1>2, <2>1, <2>2
    <3>2. Max(Solid) + 1 \in Nat
      BY <3>1
    <3> QED BY <3>1, <3>2 DEF Piece
  <2>4. Trimmed(text, start, end) = <<p>>
    BY <1>3, <1>5
  <2>5. \A i \in start + 1 .. end : text[i] \notin Blank => Covers(text, p, i)
    <3>1. TAKE i \in start + 1 .. end
    <3>2. HAVE text[i] \notin Blank
    <3>3. i - 1 \in Solid
      BY <1>1, <3>2
    <3>4. Min(Solid) <= i - 1 /\ Max(Solid) >= i - 1
      BY <2>1, <2>2, <3>3
    <3>5. Min(Solid) \in start .. end - 1 /\ Max(Solid) \in start .. end - 1
      BY <1>2, <2>1, <2>2
    <3>6. p.from = Min(Solid) /\ p.to = Max(Solid) + 1
      OBVIOUS
    <3> HIDE DEF p
    <3> QED BY <1>0, <3>4, <3>5, <3>6 DEF Covers
  <2> HIDE DEF p
  <2> QED BY <2>3, <2>4, <2>5
<1> QED BY <1>4, <1>5

\* What the chunks from a place on are, given those from later places on.
Cutting(text, f, start) ==
  IF start = Len(text) THEN <<>>
  ELSE LET end == ChunkEnd(text, start)
       IN  Trimmed(text, start, end) \o f[NextStart(text, start, end)]

\* The recursion of ChunksFrom ends: there is such a function.
LEMMA CuttingEnds ==
  ASSUME NEW text \in Seq(STRING)
  PROVE  \E f : f = [start \in 0 .. Len(text) |-> Cutting(text, f, start)]
<1> DEFINE N == Len(text)
           Good(f, k) == f \in [k .. N -> Seq(Piece)] /\ \A s \in k .. N : f[s] = Cutting(text, f, s)
           Bad == {n \in 0 .. N : ~ \E f : Good(f, N - n)}
<1>1. N \in Nat
  OBVIOUS
<1> HIDE DEF N
<1>2. Bad = {}
  <2>1. SUFFICES ASSUME Bad # {} PROVE FALSE
    OBVIOUS
  <2>2. Bad \in SUBSET Nat
    BY <1>1
  <2> HIDE DEF Bad
  <2>3. PICK n \in Bad : \A m \in Bad : n <= m
    BY <2>1, <2>2, LeastNumber
  <2>4. n \in 0 .. N /\ ~ \E f : Good(f, N - n)
    BY DEF Bad
  <2>5. CASE n = 0
    <3> DEFINE f == [s \in N .. N |-> <<>>]
    <3>1. f \in [N .. N -> Seq(Piece)]
      OBVIOUS
    <3>2. \A s \in N .. N : f[s] = Cutting(text, f, s)
      BY <1>1 DEF Cutting, N
    <3>3. Good(f, N)
      BY <3>1, <3>2
    <3>4. N - n = N
      BY <1>1, <2>5
    <3> HIDE DEF f, Good
    <3> QED BY <2>4, <3>3, <3>4
  <2>6. CASE n # 0
    <3>1. n - 1 \in 0 .. N /\ n - 1 \notin Bad
      BY <1>1, <2>3, <2>4, <2>6
    <3>2. PICK g : Good(g, N - (n - 1))
      BY <3>1 DEF Bad
    <3> DEFINE k == N - n
               e == ChunkEnd(text, k)
               x == NextStart(text, k, e)
               head == Trimmed(text, k, e)
               f == [s \in k .. N |-> IF s = k THEN head \o g[x] ELSE g[s]]
    <3>3. k \in 0 .. N /\ k < N /\ N - (n - 1) = k + 1
      BY <1>1, <2>4, <2>6
    <3> HIDE DEF k
    <3>4. g \in [k + 1 .. N -> Seq(Piece)] /\ \A s \in k + 1 .. N : g[s] = Cutting(text, g, s)
      BY <3>2, <3>3
    <3>5. e \in k + 1 .. N /\ e <= k + MaxRunes /\ x \in k + 1 .. e
      BY <3>3, CutGoesOn DEF N
    <3> HIDE DEF e, x
    <3>6. head \in Seq(Piece)
      BY <1>1, <3>3, <3>5, TrimmedHolds DEF N
    <3> HIDE DEF head
    <3>7. f \in [k .. N -> Seq(Piece)]
      <4>1. x \in k + 1 .. N
        BY <1>1, <3>3, <3>5
      <4>2. head \o g[x] \in Seq(Piece)
        BY <3>4, <3>6, <4>1
      <4>3. \A s \in k .. N : s # k => s \in k + 1 .. N
        BY <1>1, <3>3
      <4> QED BY <3>4, <4>2, <4>3
    <3>8. f[k] = Cutting(text, f, k)
      <4>1. x \in k .. N /\ x # k /\ k \in k .. N
        BY <1>1, <3>3, <3>5
      <4>2. f[k] = head \o g[x] /\ f[x] = g[x]
        BY <4>1
      <4> HIDE DEF f
      <4>3. Cutting(text, f, k) = head \o f[x]
        BY <3>3 DEF Cutting, head, x, e, N
      <4> QED BY <4>2, <4>3
    <3>9. \A s \in k + 1 .. N : f[s] = Cutting(text, f, s)
      <4>1. TAKE s \in k + 1 .. N
      <4>2. s \in k .. N /\ s # k /\ f[s] = g[s]
        BY <1>1, <3>3
      <4>3. g[s] = Cutting(text, g, s)
        BY <3>4
      <4>4. CASE s = N
        BY <4>2, <4>3, <4>4 DEF Cutting, N
      <4>5. CASE s # N
        <5> DEFINE y == NextStart(text, s, ChunkEnd(text, s))
        <5>1. s \in 0 .. Len(text) /\ s # Len(text)
          BY <1>1, <3>3, <4>5 DEF N
        <5>2. y \in s + 1 .. ChunkEnd(text, s) /\ ChunkEnd(text, s) \in s + 1 .. N
          BY <5>1, CutGoesOn DEF N
        <5> HIDE DEF y
        <5>3. y \in k .. N /\ y # k
          BY <1>1, <3>3, <5>2
        <5>4. f[y] = g[y]
          BY <5>3
        <5> HIDE DEF f
        <5>5. Cutting(text, f, s) = Trimmed(text, s, ChunkEnd(text, s)) \o f[y]
          BY <5>1 DEF Cutting, y
        <5>6. Cutting(text, g, s) = Trimmed(text, s, ChunkEnd(text, s)) \o g[y]
          BY <5>1 DEF Cutting, y
        <5> QED BY <4>2, <4>3, <5>4, <5>5, <5>6
      <4> QED BY <4>4, <4>5
    <3> HIDE DEF f
    <3>10. Good(f, k)
      <4>1. \A s \in k .. N : s = k \/ s \in k + 1 .. N
        BY <1>1, <3>3
      <4> QED BY <3>7, <3>8, <3>9, <4>1
    <3> HIDE DEF Good
    <3> QED BY <2>4, <3>10 DEF k
  <2> QED BY <2>5, <2>6
<1>3. N \in 0 .. N /\ N - N = 0
  BY <1>1
<1>4. PICK f : Good(f, 0)
  BY <1>2, <1>3
<1>5. f = [start \in 0 .. N |-> Cutting(text, f, start)]
  BY <1>4
<1> QED BY <1>5 DEF N

LEMMA CutFrom ==
  ASSUME NEW text \in Seq(STRING), NEW start \in 0 .. Len(text)
  PROVE  ChunksFrom(text)[start] = Cutting(text, ChunksFrom(text), start)
<1>1. ChunksFrom(text) = CHOOSE f : f = [s \in 0 .. Len(text) |-> Cutting(text, f, s)]
  BY DEF ChunksFrom, Cutting
<1> DEFINE f == ChunksFrom(text)
<1>2. f = [s \in 0 .. Len(text) |-> Cutting(text, f, s)]
  BY <1>1, CuttingEnds
<1> HIDE DEF f
<1>3. f[start] = Cutting(text, f, start)
  BY <1>2
<1> QED BY <1>3 DEF f

\* What the rest of a text was cut into covers the rest.
Covered(text, start) ==
  /\ ChunksFrom(text)[start] \in Seq(Piece)
  /\ \A i \in start + 1 .. Len(text) : text[i] \notin Blank =>
       \E c \in DOMAIN ChunksFrom(text)[start] : Covers(text, ChunksFrom(text)[start][c], i)

\* One cut, and the rest.
LEMMA CutAndRest ==
  ASSUME NEW text \in Seq(STRING), NEW start \in 0 .. Len(text), start # Len(text),
         Covered(text, NextStart(text, start, ChunkEnd(text, start)))
  PROVE  Covered(text, start)
<1> DEFINE e == ChunkEnd(text, start)
           x == NextStart(text, start, e)
           head == Trimmed(text, start, e)
           rest == ChunksFrom(text)[x]
           whole == ChunksFrom(text)[start]
<1>1. Len(text) \in Nat /\ start \in Nat /\ MaxRunes \in Nat
  BY ChunkOptions
<1>2. e \in start + 1 .. Len(text) /\ e <= start + MaxRunes /\ x \in start + 1 .. e
  BY CutGoesOn
<1>3. whole = head \o rest
  BY CutFrom DEF Cutting
<1>4. rest \in Seq(Piece)
  BY DEF Covered
<1>5. \A i \in x + 1 .. Len(text) : text[i] \notin Blank =>
        \E c \in DOMAIN rest : Covers(text, rest[c], i)
  BY DEF Covered
<1> HIDE DEF e, x, rest, whole
<1>6. /\ head \in Seq(Piece)
      /\ \A i \in start + 1 .. e : text[i] \notin Blank =>
           \E c \in DOMAIN head : Covers(text, head[c], i)
  <2>1. e \in Nat /\ start <= e /\ e <= Len(text)
    BY <1>1, <1>2
  <2> QED BY <1>1, <1>2, <2>1, TrimmedHolds
<1> HIDE DEF head
<1>7. whole \in Seq(Piece)
  BY <1>3, <1>4, <1>6
<1>8. \A c \in DOMAIN head : c \in DOMAIN whole /\ whole[c] = head[c]
  BY <1>3, <1>4, <1>6
<1>9. \A c \in DOMAIN rest : Len(head) + c \in DOMAIN whole /\ whole[Len(head) + c] = rest[c]
  BY <1>3, <1>4, <1>6
<1>10. \A i \in start + 1 .. Len(text) : text[i] \notin Blank =>
         \E c \in DOMAIN whole : Covers(text, whole[c], i)
  <2>1. TAKE i \in start + 1 .. Len(text)
  <2>2. HAVE text[i] \notin Blank
  <2>3. i \in start + 1 .. e \/ i \in x + 1 .. Len(text)
    BY <1>1, <1>2
  <2>4. CASE i \in start + 1 .. e
    BY <1>6, <1>8, <2>2, <2>4, Zenon
  <2>5. CASE i \in x + 1 .. Len(text)
    BY <1>5, <1>9, <2>2, <2>5, Zenon
  <2> QED BY <2>3, <2>4, <2>5
<1> QED BY <1>7, <1>10 DEF Covered, whole

\* The whole of a text is covered by its chunks.
LEMMA NothingIsLost ==
  ASSUME NEW text \in Seq(STRING)
  PROVE  /\ ChunkText(text) \in Seq(Piece)
         /\ \A i \in DOMAIN text : text[i] \notin Blank =>
              \E c \in DOMAIN ChunkText(text) : Covers(text, ChunkText(text)[c], i)
<1> DEFINE N == Len(text)
           Bad == {n \in 0 .. N : ~ Covered(text, N - n)}
<1>1. N \in Nat
  OBVIOUS
<1> HIDE DEF N
<1>2. Bad = {}
  <2>1. SUFFICES ASSUME Bad # {} PROVE FALSE
    OBVIOUS
  <2>2. Bad \in SUBSET Nat
    BY <1>1
  <2> HIDE DEF Bad
  <2>3. PICK n \in Bad : \A m \in Bad : n <= m
    BY <2>1, <2>2, LeastNumber
  <2>4. n \in 0 .. N /\ ~ Covered(text, N - n)
    BY DEF Bad
  <2>5. CASE n = 0
    <3>1. N - n = N /\ N \in 0 .. Len(text)
      BY <1>1, <2>5 DEF N
    <3>2. ChunksFrom(text)[N] = <<>>
      BY <3>1, CutFrom DEF Cutting, N
    <3>3. Covered(text, N)
      BY <1>1, <3>2 DEF Covered, N
    <3> QED BY <2>4, <3>1, <3>3
  <2>6. CASE n # 0
    <3> DEFINE k == N - n
               x == NextStart(text, k, ChunkEnd(text, k))
    <3>1. k \in 0 .. N /\ k # N
      BY <1>1, <2>4, <2>6
    <3> HIDE DEF k
    <3>2. x \in k + 1 .. ChunkEnd(text, k) /\ ChunkEnd(text, k) \in k + 1 .. N
      BY <3>1, CutGoesOn DEF N
    <3> HIDE DEF x
    <3>3. N - x \in 0 .. N /\ N - x < n /\ N - (N - x) = x
      BY <1>1, <2>4, <3>1, <3>2 DEF k
    <3>4. N - x \notin Bad
      BY <1>1, <2>3, <2>4, <3>3
    <3>5. Covered(text, x)
      BY <3>3, <3>4 DEF Bad
    <3>6. Covered(text, k)
      BY <3>1, <3>5, CutAndRest DEF x, N
    <3> QED BY <2>4, <3>6 DEF k
  <2> QED BY <2>5, <2>6
<1>3. N \in 0 .. N /\ N - N = 0
  BY <1>1
<1>4. Covered(text, 0)
  BY <1>2, <1>3
<1>5. DOMAIN text = 0 + 1 .. Len(text)
  OBVIOUS
<1> QED BY <1>4, <1>5 DEF Covered, ChunkText

-----------------------------------------------------------------------------
(* A search                                                                *)

\* Versions as they are stored: cut up.
CutUp == {version \in Versions : version.chunks = ChunkText(version.text)}

Row == [doc: Doc, version: Nat, ordinal: Nat \ {0}, model: {"running", "former"}, matches: BOOLEAN]

LEMMA FiniteImage ==
  ASSUME NEW S, IsFiniteSet(S), NEW f
  PROVE  IsFiniteSet({f[x] : x \in S})
<1> DEFINE T == {f[x] : x \in S}
           g == [x \in S |-> f[x]]
<1>1. g \in Surjection(S, T)
  BY DEF Surjection
<1> HIDE DEF g, T
<1>2. IsFiniteSet(T)
  BY <1>1, FS_Surjection
<1> QED BY <1>2 DEF T

\* The rows of one version are as many as its chunks.
LEMMA RowsOfVersion ==
  ASSUME NEW d \in Doc, NEW version \in CutUp
  PROVE  /\ Rows(d, version) \subseteq Row
         /\ IsFiniteSet(Rows(d, version))
         /\ \A c \in Rows(d, version) : c.doc = d /\ c.version = version.id
<1> DEFINE Holds(n) == \E i \in version.chunks[n].from .. (version.chunks[n].to - 1) :
                          RuneAt(version.text, i) = Word
           row(n) == [doc |-> d, version |-> version.id, ordinal |-> n, model |-> version.model,
                      matches |-> Holds(n)]
           D == DOMAIN version.chunks
<1>1. Rows(d, version) = {row(n) : n \in D}
  BY DEF Rows
<1>2. version \in Versions /\ D = 1 .. Len(version.chunks) /\ Len(version.chunks) \in Nat
  BY DEF CutUp, Versions
<1>3. IsFiniteSet(D)
  <2>1. 1 \in Int /\ Len(version.chunks) \in Int
    BY <1>2
  <2> HIDE DEF D
  <2> QED BY <1>2, <2>1, FS_Interval
<1>4. \A n \in D : Holds(n) \in BOOLEAN
  OBVIOUS
<1> HIDE DEF D, Holds
<1>5. \A n \in D : row(n) \in Row
  <2>1. version.id \in Nat /\ version.model \in {"running", "former"}
    BY <1>2 DEF Versions
  <2>2. \A n \in D : n \in Nat \ {0}
    BY <1>2
  <2> QED BY <1>4, <2>1, <2>2, Zenon DEF Row
<1>6. \A n \in D : row(n).doc = d /\ row(n).version = version.id
  OBVIOUS
<1> DEFINE f == [n \in D |-> row(n)]
<1>7. \A n \in D : f[n] = row(n)
  OBVIOUS
<1>8. IsFiniteSet({f[n] : n \in D})
  <2> HIDE DEF f
  <2> QED BY <1>3, FiniteImage
<1> HIDE DEF f, row
<1>9. {f[n] : n \in D} = {row(n) : n \in D}
  BY <1>7, Zenon
<1>10. \A c \in Rows(d, version) : \E n \in D : c = row(n)
  BY <1>1, Zenon
<1>11. \A c \in Rows(d, version) : c \in Row /\ c.doc = d /\ c.version = version.id
  BY <1>5, <1>6, <1>10
<1>12. IsFiniteSet(Rows(d, version))
  BY <1>1, <1>8, <1>9
<1> QED BY <1>11, <1>12, Zenon

LEMMA LastIsIn ==
  ASSUME NEW S, NEW s \in Seq(S), s # <<>>
  PROVE  Last(s) \in S /\ Len(s) \in DOMAIN s
BY DEF Last

\* What a query reads is of the newest versions there are, and finite.
LEMMA ReadableNow ==
  ASSUME shelf \in [Doc -> Seq(CutUp)]
  PROVE  /\ Readable \subseteq Row
         /\ IsFiniteSet(Readable)
         /\ \A c \in Readable : NewestAt(shelf, c)
<1> DEFINE D == {e \in Doc : shelf[e] # <<>> /\ Last(shelf[e]).open}
           rows(d) == Rows(d, Last(shelf[d]))
           f == [d \in D |-> rows(d)]
<1>1. \A d \in D : Last(shelf[d]) \in CutUp /\ d \in Doc
  BY LastIsIn
<1>2. Readable = UNION {rows(d) : d \in D}
  BY DEF Readable
<1>3. \A d \in D : /\ rows(d) \subseteq Row
                   /\ IsFiniteSet(rows(d))
                   /\ \A c \in rows(d) : c.doc = d /\ c.version = Last(shelf[d]).id
  BY <1>1, RowsOfVersion
<1>4. IsFiniteSet(D)
  BY FS_Subset, FusionAssumption
<1>5. \A d \in D : shelf[d] # <<>> /\ Last(shelf[d]).open
  OBVIOUS
<1> HIDE DEF D, rows
<1>6. \A d \in D : f[d] = rows(d)
  OBVIOUS
<1>7. IsFiniteSet({f[d] : d \in D})
  <2> HIDE DEF f
  <2> QED BY <1>4, FiniteImage
<1> HIDE DEF f
<1>8. {f[d] : d \in D} = {rows(d) : d \in D}
  BY <1>6, Zenon
<1>9. IsFiniteSet(UNION {rows(d) : d \in D})
  <2> DEFINE U == {rows(d) : d \in D}
  <2>1. IsFiniteSet(U) /\ \A T \in U : IsFiniteSet(T)
    BY <1>3, <1>7, <1>8
  <2> HIDE DEF U
  <2>2. IsFiniteSet(UNION U)
    BY <2>1, FS_UNION
  <2> QED BY <2>2 DEF U
<1>10. \A c \in Readable : \E d \in D : c \in rows(d)
  BY <1>2, Zenon
<1>11. \A c \in Readable : c \in Row /\ NewestAt(shelf, c)
  <2>1. TAKE c \in Readable
  <2>2. PICK d \in D : c \in rows(d)
    BY <1>10
  <2>3. c.doc = d /\ c.version = Last(shelf[d]).id /\ c \in Row
    BY <1>3, <2>2
  <2> QED BY <1>5, <2>3, Zenon DEF NewestAt
<1> QED BY <1>2, <1>9, <1>11

\* A ranking of rows is a sequence of some of them.
LEMMA OrderOf ==
  ASSUME NEW S, IsFiniteSet(S), NEW T \in SUBSET S, NEW r \in Orders(T)
  PROVE  r \in Seq(S) /\ Range(r) \subseteq T
<1>1. IsFiniteSet(T)
  BY FS_Subset
<1>2. Cardinality(T) \in Nat
  BY <1>1, FS_CardinalityType
<1>3. r \in [1 .. Cardinality(T) -> T]
  BY DEF Orders, SetToSeqs
<1> QED BY <1>2, <1>3 DEF Range

LEMMA TakenOf ==
  ASSUME NEW S, IsFiniteSet(S), NEW r \in Taken(S)
  PROVE  r \in Seq(S) /\ Range(r) \subseteq S
<1>1. PICK T \in SUBSET S : r \in Orders(T)
  BY DEF Taken
<1> QED BY <1>1, OrderOf

\* A ranking has finitely many rows.
LEMMA FiniteRange ==
  ASSUME NEW S, NEW r \in Seq(S)
  PROVE  IsFiniteSet(Range(r)) /\ Range(r) \subseteq S
<1>1. DOMAIN r = 1 .. Len(r) /\ 1 \in Int /\ Len(r) \in Int
  OBVIOUS
<1>2. IsFiniteSet(DOMAIN r)
  BY <1>1, FS_Interval
<1>3. Range(r) = {r[x] : x \in DOMAIN r}
  BY DEF Range
<1>4. Range(r) \subseteq S
  BY <1>3
<1> QED BY <1>2, <1>3, <1>4, FiniteImage

\* Cutting a ranking off keeps its first places.
LEMMA CutKeeps ==
  ASSUME NEW S, NEW r \in Seq(S), NEW top \in Nat
  PROVE  /\ Cut(r, top) \in Seq(S)
         /\ Range(Cut(r, top)) \subseteq Range(r)
         /\ \A i \in DOMAIN Cut(r, top) : i \in DOMAIN r /\ Cut(r, top)[i] = r[i]
<1> DEFINE n == IF Len(r) < top THEN Len(r) ELSE top
<1>1. n \in Nat /\ n <= Len(r) /\ Len(r) \in Nat
  OBVIOUS
<1>2. Cut(r, top) = SubSeq(r, 1, n)
  BY DEF Cut
<1> HIDE DEF n
<1>3. \A i \in 1 .. n : i \in DOMAIN r /\ r[i] \in S
  BY <1>1
<1>4. Cut(r, top) = [i \in 1 .. n |-> r[i]]
  BY <1>1, <1>2
<1>5. Cut(r, top) \in Seq(S)
  BY <1>1, <1>3, <1>4
<1>6. \A i \in DOMAIN Cut(r, top) : i \in DOMAIN r /\ Cut(r, top)[i] = r[i]
  BY <1>3, <1>4
<1>7. Range(Cut(r, top)) \subseteq Range(r)
  BY <1>6, Zenon DEF Range
<1> QED BY <1>5, <1>6, <1>7

\* What the fusion sorts was found by one of the channels.
LEMMA SortedOf ==
  ASSUME NEW vector \in Seq(Row), NEW keyword \in Seq(Row), NEW order \in Sorted(vector, keyword)
  PROVE  /\ order \in Seq(Row)
         /\ Range(order) \subseteq Found(vector, keyword)
         /\ \A i, j \in DOMAIN order : i < j => ~ First(vector, keyword, order[j], order[i])
<1> DEFINE S == Range(vector) \cup Range(keyword)
           T == Found(vector, keyword)
<1>1. IsFiniteSet(S)
  <2>1. IsFiniteSet(Range(vector)) /\ IsFiniteSet(Range(keyword))
    BY FiniteRange
  <2> QED BY <2>1, FS_Union
<1>2. T \in SUBSET S /\ S \subseteq Row
  BY FiniteRange DEF Found
<1>3. order \in Orders(T) /\ \A i, j \in DOMAIN order : i < j => ~ First(vector, keyword, order[j], order[i])
  BY DEF Sorted
<1> HIDE DEF S, T
<1>4. order \in Seq(S) /\ Range(order) \subseteq T
  BY <1>1, <1>2, <1>3, OrderOf
<1>5. order \in Seq(Row)
  BY <1>2, <1>4
<1> QED BY <1>3, <1>4, <1>5 DEF T

\* Every result was found by one of the channels.
LEMMA RankingOf ==
  ASSUME NEW vector \in Seq(Row), NEW keyword \in Seq(Row), NEW top \in Nat,
         NEW mode \in {"hybrid", "vector", "keyword"},
         NEW results \in Rankings(mode, vector, keyword, top)
  PROVE  results \in Seq(Row) /\ Range(results) \subseteq Range(vector) \cup Range(keyword)
<1>1. CASE mode = "hybrid"
  <2>1. PICK order \in Sorted(vector, keyword) : results = Cut(order, top)
    BY <1>1 DEF Rankings
  <2>2. order \in Seq(Row) /\ Range(order) \subseteq Range(vector) \cup Range(keyword)
    BY SortedOf DEF Found
  <2> QED BY <2>1, <2>2, CutKeeps
<1>2. CASE mode = "vector"
  <2>1. results = Cut(vector, top)
    BY <1>2 DEF Rankings
  <2> QED BY <2>1, CutKeeps
<1>3. CASE mode = "keyword"
  <2>1. results = Cut(keyword, top)
    BY <1>3 DEF Rankings
  <2> QED BY <2>1, CutKeeps
<1> QED BY <1>1, <1>2, <1>3

Twice(vector, keyword, c) ==
  RankIn(vector, c) \in 1 .. Limit /\ RankIn(keyword, c) \in 1 .. Limit

\* A rank is a place in the ranking, or zero.
LEMMA RankIsPlace ==
  ASSUME NEW r \in Seq(Row), NEW c
  PROVE  RankIn(r, c) \in Nat /\ Counted(r, c) \in 0 .. Limit
         /\ (Counted(r, c) > 0 <=> RankIn(r, c) \in 1 .. Limit)
         /\ (Counted(r, c) > 0 => Counted(r, c) = RankIn(r, c))
<1>0. Limit \in Nat
  BY FusionAssumption
<1>1. RankIn(r, c) \in Nat
  <2>1. CASE Contains(r, c)
    <3>1. \E i \in DOMAIN r : r[i] = c
      BY <2>1 DEF Contains
    <3>2. (CHOOSE i \in DOMAIN r : r[i] = c) \in DOMAIN r
      BY <3>1
    <3>3. DOMAIN r \subseteq Nat
      OBVIOUS
    <3> QED BY <2>1, <3>2, <3>3 DEF RankIn
  <2>2. CASE ~ Contains(r, c)
    BY <2>2 DEF RankIn
  <2> QED BY <2>1, <2>2
<1> QED BY <1>0, <1>1 DEF Counted

\* The sum of two shares is more than a single one, as long as no rank
\* counts that is past the constant by more than one.
LEMMA TwoOutweighOne ==
  ASSUME NEW a \in Nat, NEW b \in Nat, NEW x \in Nat, a > 0, b > 0, x > 0,
         a <= 2 * x - 1, b <= 2 * x - 1
  PROVE  (a + b) * x > 1 * (a * b)
<1>1. a * b <= a * (2 * x - 1)
  OBVIOUS
<1>2. b * a <= b * (2 * x - 1)
  OBVIOUS
<1>3. a * (2 * x - 1) = 2 * (a * x) - a /\ b * (2 * x - 1) = 2 * (b * x) - b
  OBVIOUS
<1>4. (a + b) * x = a * x + b * x /\ b * a = a * b
  OBVIOUS
<1> DEFINE p == a * b
           q == a * x
           r == b * x
<1>5. p \in Nat /\ q \in Nat /\ r \in Nat
  OBVIOUS
<1>6. p <= 2 * q - a /\ p <= 2 * r - b /\ (a + b) * x = q + r
  BY <1>1, <1>2, <1>3, <1>4
<1> HIDE DEF p, q, r
<1>7. q + r > p
  BY <1>5, <1>6
<1> QED BY <1>5, <1>6, <1>7 DEF p

LEMMA TwiceIsAbove ==
  ASSUME NEW vector \in Seq(Row), NEW keyword \in Seq(Row), NEW c, NEW e,
         Twice(vector, keyword, c), ~ Twice(vector, keyword, e)
  PROVE  Above(Fused(vector, keyword, c), Fused(vector, keyword, e))
         \/ e \notin Found(vector, keyword)
<1> DEFINE p == Counted(vector, c)
           q == Counted(keyword, c)
           r == Counted(vector, e)
           s == Counted(keyword, e)
           a == rrfConstant + p
           b == rrfConstant + q
<1>0. Limit \in Nat /\ rrfConstant \in Nat /\ Limit < rrfConstant + 2
  BY FusionAssumption
<1>1. p \in 1 .. Limit /\ q \in 1 .. Limit
  BY <1>0, RankIsPlace DEF Twice
<1>2. r \in 0 .. Limit /\ s \in 0 .. Limit /\ (r = 0 \/ s = 0)
  BY <1>0, RankIsPlace DEF Twice
<1>3. Fused(vector, keyword, c) = <<a + b, a * b>>
  <2>1. p # 0 /\ q # 0
    BY <1>0, <1>1
  <2> QED BY <2>1 DEF Fused
<1>4. CASE r = 0 /\ s = 0
  <2>1. Fused(vector, keyword, e) = <<0, 1>>
    BY <1>4 DEF Fused
  <2>2. ~ Above(Fused(vector, keyword, e), <<0, 1>>)
    BY <2>1 DEF Above
  <2> QED BY <2>2 DEF Found
<1>5. CASE r > 0 \/ s > 0
  <2>1. PICK x \in Nat : x > rrfConstant /\ Fused(vector, keyword, e) = <<1, x>>
    <3>1. CASE r = 0
      <4>1. s > 0 /\ rrfConstant + s \in Nat /\ rrfConstant + s > rrfConstant
        BY <1>0, <1>2, <1>5, <3>1
      <4>2. Fused(vector, keyword, e) = <<1, rrfConstant + s>>
        BY <3>1, <4>1 DEF Fused
      <4> QED BY <4>1, <4>2
    <3>2. CASE s = 0
      <4>1. r > 0 /\ rrfConstant + r \in Nat /\ rrfConstant + r > rrfConstant
        BY <1>0, <1>2, <1>5, <3>2
      <4>2. Fused(vector, keyword, e) = <<1, rrfConstant + r>>
        BY <3>2, <4>1 DEF Fused
      <4> QED BY <4>1, <4>2
    <3> QED BY <1>2, <3>1, <3>2
  <2>2. a \in Nat /\ b \in Nat /\ a > 0 /\ b > 0 /\ a <= 2 * x - 1 /\ b <= 2 * x - 1 /\ x > 0
    BY <1>0, <1>1, <2>1
  <2> HIDE DEF a, b
  <2>3. (a + b) * x > 1 * (a * b)
    BY <2>2, TwoOutweighOne
  <2>4. Above(<<a + b, a * b>>, <<1, x>>)
    BY <2>3 DEF Above
  <2> QED BY <1>3, <2>1, <2>4
<1> QED BY <1>0, <1>2, <1>4, <1>5

\* On a page of results, the chunks of both channels come first.
LEMMA BothComeFirst ==
  ASSUME NEW vector \in Seq(Row), NEW keyword \in Seq(Row), NEW top \in Nat,
         NEW results \in Rankings("hybrid", vector, keyword, top),
         NEW i \in DOMAIN results, NEW j \in DOMAIN results,
         Twice(vector, keyword, results[j]), ~ Twice(vector, keyword, results[i])
  PROVE  j < i
<1>1. PICK order \in Sorted(vector, keyword) : results = Cut(order, top)
  BY DEF Rankings
<1>2. /\ order \in Seq(Row)
      /\ Range(order) \subseteq Found(vector, keyword)
      /\ \A m, n \in DOMAIN order : m < n => ~ First(vector, keyword, order[n], order[m])
  BY SortedOf
<1>3. /\ i \in DOMAIN order /\ results[i] = order[i]
      /\ j \in DOMAIN order /\ results[j] = order[j]
  BY <1>1, <1>2, CutKeeps
<1>4. order[i] \in Found(vector, keyword)
  BY <1>2, <1>3 DEF Range
<1>5. Above(Fused(vector, keyword, order[j]), Fused(vector, keyword, order[i]))
  BY <1>3, <1>4, TwiceIsAbove
<1>6. First(vector, keyword, order[j], order[i])
  BY <1>5 DEF First
<1>7. ~ (i < j)
  BY <1>2, <1>3, <1>6
<1>8. i # j
  OBVIOUS
<1>9. i \in Nat /\ j \in Nat
  BY <1>2, <1>3
<1> QED BY <1>7, <1>8, <1>9

Stages == {"idle", "list", "embed", "rank", "vectors", "terms", "done", "failed"}

Searches == [pc: Stages, mode: {"hybrid", "vector", "keyword"}, top: Nat, rows: SUBSET Row,
             vector: Seq(Row), keyword: Seq(Row), results: Seq(Row)]

SearchTyped ==
  /\ store \in {"sqlite", "postgres"}
  /\ shelf \in [Doc -> Seq(CutUp)]
  /\ uploads \in Nat
  /\ bounds.modes \subseteq {"hybrid", "vector", "keyword"}
  /\ search \in Searches /\ IsFiniteSet(search.rows)

\* Which steps belong to which store, and what a search has before it is done.
Underway ==
  /\ At("list") \/ At("rank") => store = "sqlite"
  /\ At("vectors") \/ At("terms") => store = "postgres"
  /\ At("idle") => search.rows = {} /\ search.vector = <<>> /\ search.keyword = <<>>
  /\ At("list") => search.vector = <<>> /\ search.keyword = <<>>
  /\ ~ At("done") => search.results = <<>>

\* What the searcher could read at one moment, or at a moment for each row.
AtOneMoment(rows) == \E moment \in past : \A c \in rows : NewestAt(moment, c)

AtSomeMoment(rows) == \A c \in rows : \E moment \in past : NewestAt(moment, c)

Candidates == Range(search.vector) \cup Range(search.keyword)

\* Whatever a search holds was read while it ran: in one query on SQLite.
ReadWhileRunning ==
  /\ ~ At("idle") => shelf \in past
  /\ store = "sqlite" /\ ~ At("idle") => AtOneMoment(search.rows \cup Candidates)
  /\ store = "postgres" => AtSomeMoment(Candidates)

Answered ==
  search.results # <<>> =>
    search.results \in Rankings(search.mode, search.vector, search.keyword, search.top)

\* The inductive invariant of a search.
SearchInv == SearchTyped /\ Underway /\ ReadWhileRunning /\ Answered

LEMMA SearchInitially ==
  ASSUME SearchInit PROVE SearchInv
<1>1. PICK scenario \in Scenarios :
        shelf = scenario.shelf /\ bounds = [modes |-> scenario.modes, changes |-> scenario.changes]
  BY DEF SearchInit
<1>2. shelf \in [Doc -> Seq(CutUp)]
  <2>1. shelf \in [Doc -> Seq(Versions)]
    BY <1>1, LibraryAssumption
  <2>2. \A d \in Doc : \A n \in DOMAIN shelf[d] : shelf[d][n].chunks = ChunkText(shelf[d][n].text)
    BY <1>1, LibraryAssumption
  <2>3. \A d \in Doc : shelf[d] \in Seq(CutUp)
    <3>1. TAKE d \in Doc
    <3>2. shelf[d] \in Seq(Versions)
      BY <2>1
    <3>3. \A n \in DOMAIN shelf[d] : shelf[d][n] \in CutUp
      BY <2>2, <3>2 DEF CutUp
    <3> QED BY <3>2, <3>3
  <2> QED BY <2>1, <2>3
<1>3. bounds.modes \subseteq {"hybrid", "vector", "keyword"}
  BY <1>1, LibraryAssumption
<1>4. search = Idle /\ uploads = 0 /\ store \in {"sqlite", "postgres"}
  BY DEF SearchInit
<1>5. Idle \in Searches /\ IsFiniteSet(Idle.rows)
  <2>1. Idle \in Searches /\ Idle.rows = {}
    BY DEF Idle, Searches, Stages
  <2> QED BY <2>1, FS_EmptySet
<1>6. SearchTyped
  BY <1>2, <1>3, <1>4, <1>5 DEF SearchTyped
<1>7. Underway /\ Answered
  BY <1>4 DEF Underway, Answered, At, Idle
<1>8. ReadWhileRunning
  <2>1. At("idle") /\ Candidates = {}
    BY <1>4 DEF Idle, At, Candidates, Range
  <2> QED BY <2>1 DEF ReadWhileRunning, AtSomeMoment
<1> QED BY <1>6, <1>7, <1>8 DEF SearchInv

\* A search that fails keeps what it has read and answers nothing.
LEMMA FailKeeps ==
  ASSUME SearchInv, Fail, ~ At("done"), ~ At("idle"), UNCHANGED <<store, shelf, uploads, bounds, past>>
  PROVE  SearchInv'
<1>1. search' = [search EXCEPT !.pc = "failed"] /\ search \in Searches
  BY DEF Fail, SearchInv, SearchTyped
<1>2. /\ search' \in Searches /\ search'.pc = "failed"
      /\ search'.rows = search.rows /\ search'.vector = search.vector
      /\ search'.keyword = search.keyword /\ search'.results = search.results
  BY <1>1 DEF Searches, Stages
<1>3. search.results = <<>>
  BY DEF SearchInv, Underway
<1>4. SearchTyped'
  BY <1>2 DEF SearchInv, SearchTyped
<1>5. Underway' /\ Answered'
  BY <1>2, <1>3 DEF Underway, Answered, At
<1>6. ReadWhileRunning'
  BY <1>2 DEF SearchInv, ReadWhileRunning, At, Candidates, AtOneMoment, AtSomeMoment
<1> QED BY <1>4, <1>5, <1>6 DEF SearchInv

LEMMA StartKeeps ==
  ASSUME SearchInv, Start PROVE SearchInv'
<1>1. PICK mode \in bounds.modes, top \in TopK :
        search' = [search EXCEPT !.pc = IF store = "sqlite" THEN "list"
                                        ELSE IF mode = "keyword" THEN "terms" ELSE "embed",
                                 !.mode = mode, !.top = top]
  BY DEF Start
<1>2. search \in Searches /\ At("idle") /\ past' = {shelf} /\ UNCHANGED <<store, shelf, uploads, bounds>>
      /\ mode \in {"hybrid", "vector", "keyword"} /\ store \in {"sqlite", "postgres"}
  BY DEF Start, SearchInv, SearchTyped
<1>3. top \in Nat
  BY FusionAssumption
<1>4. /\ search' \in Searches
      /\ search'.pc \in {"list", "terms", "embed"}
      /\ search'.pc = "list" => store = "sqlite"
      /\ search'.pc = "terms" => store = "postgres"
      /\ search'.rows = search.rows /\ search'.vector = search.vector
      /\ search'.keyword = search.keyword /\ search'.results = search.results
  BY <1>1, <1>2, <1>3 DEF Searches, Stages
<1>5. search.rows = {} /\ search.vector = <<>> /\ search.keyword = <<>> /\ search.results = <<>>
  BY <1>2 DEF SearchInv, Underway, At
<1>6. SearchTyped'
  BY <1>2, <1>4 DEF SearchInv, SearchTyped
<1>7. Underway' /\ Answered'
  BY <1>2, <1>4, <1>5 DEF Underway, Answered, At
<1>8. ReadWhileRunning'
  <2>1. (search.rows \cup Candidates)' = {}
    BY <1>4, <1>5 DEF Candidates, Range
  <2>2. shelf' \in past'
    BY <1>2
  <2> QED BY <2>1, <2>2 DEF ReadWhileRunning, AtOneMoment, AtSomeMoment
<1> QED BY <1>6, <1>7, <1>8 DEF SearchInv

LEMMA ListChunksKeeps ==
  ASSUME SearchInv, ListChunks PROVE SearchInv'
<1>1. /\ search \in Searches /\ At("list") /\ store = "sqlite" /\ shelf \in past
      /\ search.vector = <<>> /\ search.keyword = <<>> /\ search.results = <<>>
      /\ shelf \in [Doc -> Seq(CutUp)]
      /\ UNCHANGED <<store, shelf, uploads, bounds, past>>
  BY DEF ListChunks, SearchInv, SearchTyped, Underway, ReadWhileRunning, At
<1>2. Readable \subseteq Row /\ IsFiniteSet(Readable) /\ \A c \in Readable : NewestAt(shelf, c)
  BY <1>1, ReadableNow
<1>3. CASE Fail
  BY <1>1, <1>3, FailKeeps DEF At
<1>4. CASE /\ search' = [search EXCEPT !.pc = IF Readable = {} THEN "done" ELSE "embed", !.rows = Readable]
  <2>1. /\ search' \in Searches /\ search'.pc \in {"done", "embed"} /\ search'.rows = Readable
        /\ search'.vector = <<>> /\ search'.keyword = <<>> /\ search'.results = <<>>
    BY <1>1, <1>2, <1>4 DEF Searches, Stages
  <2>2. SearchTyped'
    BY <1>1, <1>2, <2>1 DEF SearchInv, SearchTyped
  <2>3. Underway' /\ Answered'
    BY <2>1 DEF Underway, Answered, At
  <2>4. (search.rows \cup Candidates)' = Readable
    BY <2>1 DEF Candidates, Range
  <2>5. ReadWhileRunning'
    BY <1>1, <1>2, <2>4 DEF ReadWhileRunning, AtOneMoment
  <2> QED BY <2>2, <2>3, <2>5 DEF SearchInv
<1>5. ASSUME NEW keyword \in Orders(Matching(Readable)), search.mode = "keyword",
             NEW results \in Rankings("keyword", <<>>, keyword, search.top),
             search' = [search EXCEPT !.pc = "done", !.rows = Readable, !.keyword = keyword,
                                      !.results = results]
      PROVE  SearchInv'
  <2>1. Matching(Readable) \in SUBSET Readable
    BY DEF Matching
  <2>2. keyword \in Seq(Readable) /\ Range(keyword) \subseteq Readable
    BY <1>2, <2>1, OrderOf
  <2>3. keyword \in Seq(Row)
    BY <1>2, <2>2
  <2>4. search.top \in Nat /\ search.mode \in {"hybrid", "vector", "keyword"}
    BY <1>1 DEF Searches
  <2>5. results \in Seq(Row)
    <3>1. <<>> \in Seq(Row) /\ "keyword" \in {"hybrid", "vector", "keyword"}
      OBVIOUS
    <3>2. results \in Rankings("keyword", <<>>, keyword, search.top)
      BY <1>5
    <3> QED BY <2>3, <2>4, <3>1, <3>2, RankingOf
  <2>6. /\ search' \in Searches /\ search'.pc = "done" /\ search'.rows = Readable
        /\ search'.mode = search.mode /\ search'.top = search.top
        /\ search'.vector = <<>> /\ search'.keyword = keyword /\ search'.results = results
    BY <1>1, <1>2, <1>5, <2>3, <2>5 DEF Searches, Stages
  <2>7. SearchTyped'
    BY <1>1, <1>2, <2>6 DEF SearchInv, SearchTyped
  <2>8. Underway' /\ Answered'
    BY <1>5, <2>6 DEF Underway, Answered, At
  <2>9. (search.rows \cup Candidates)' \subseteq Readable
    BY <2>2, <2>6 DEF Candidates, Range
  <2>10. ReadWhileRunning'
    BY <1>1, <1>2, <2>9 DEF ReadWhileRunning, AtOneMoment
  <2> QED BY <2>7, <2>8, <2>10 DEF SearchInv
<1> QED BY <1>3, <1>4, <1>5 DEF ListChunks

LEMMA EmbedQueryKeeps ==
  ASSUME SearchInv, EmbedQuery PROVE SearchInv'
<1>1. /\ search \in Searches /\ At("embed") /\ search.results = <<>> /\ store \in {"sqlite", "postgres"}
      /\ UNCHANGED <<store, shelf, uploads, bounds, past>>
  BY DEF EmbedQuery, SearchInv, SearchTyped, Underway, At
<1>2. CASE Fail
  BY <1>1, <1>2, FailKeeps DEF At
<1>3. CASE search' = [search EXCEPT !.pc = IF store = "sqlite" THEN "rank" ELSE "vectors"]
  <2>1. /\ search' \in Searches
        /\ search'.pc \in {"rank", "vectors"}
        /\ search'.pc = "rank" => store = "sqlite"
        /\ search'.pc = "vectors" => store = "postgres"
        /\ search'.rows = search.rows /\ search'.vector = search.vector
        /\ search'.keyword = search.keyword /\ search'.results = <<>>
    BY <1>1, <1>3 DEF Searches, Stages
  <2>2. SearchTyped'
    BY <1>1, <2>1 DEF SearchInv, SearchTyped
  <2>3. Underway' /\ Answered'
    BY <1>1, <2>1 DEF Underway, Answered, At
  <2>4. Candidates' = Candidates /\ ~ At("idle")
    BY <1>1, <2>1 DEF Candidates, At
  <2>5. ReadWhileRunning'
    BY <1>1, <2>1, <2>4 DEF SearchInv, ReadWhileRunning, AtOneMoment, AtSomeMoment
  <2> QED BY <2>2, <2>3, <2>5 DEF SearchInv
<1> QED BY <1>2, <1>3 DEF EmbedQuery

LEMMA RankSearchKeeps ==
  ASSUME SearchInv, RankSearch PROVE SearchInv'
<1>1. /\ search \in Searches /\ At("rank") /\ store = "sqlite" /\ shelf \in past
      /\ AtOneMoment(search.rows \cup Candidates)
      /\ UNCHANGED <<store, shelf, uploads, bounds, past>>
  BY DEF RankSearch, SearchInv, SearchTyped, Underway, ReadWhileRunning, At
<1> DEFINE rows == Compatible(search.rows)
<1>2. rows \in SUBSET search.rows /\ Matching(rows) \in SUBSET rows
  BY DEF Compatible, Matching
<1>3. CASE Fail
  BY <1>1, <1>3, FailKeeps DEF At
<1>4. ASSUME NEW S \in SUBSET rows, NEW vector \in Orders(S), NEW keyword \in Orders(Matching(rows)),
             NEW results \in Rankings(search.mode, vector, keyword, search.top),
             search' = [search EXCEPT !.pc = "done", !.vector = vector, !.keyword = keyword,
                                      !.results = results]
      PROVE  SearchInv'
  <2>1. PICK moment \in past : \A c \in search.rows \cup Candidates : NewestAt(moment, c)
    BY <1>1 DEF AtOneMoment
  <2> HIDE DEF rows
  <2>2. search.rows \in SUBSET Row /\ search.top \in Nat /\ search.mode \in {"hybrid", "vector", "keyword"}
    BY <1>1 DEF Searches
  <2>3. /\ vector \in Seq(Row) /\ Range(vector) \subseteq rows
        /\ keyword \in Seq(Row) /\ Range(keyword) \subseteq rows
    <3>1. IsFiniteSet(rows)
      BY <1>1, <1>2, FS_Subset DEF SearchInv, SearchTyped
    <3>2. S \in SUBSET rows /\ vector \in Orders(S) /\ keyword \in Orders(Matching(rows))
      BY <1>4
    <3>3. vector \in Seq(rows) /\ Range(vector) \subseteq rows
      BY <3>1, <3>2, OrderOf
    <3>4. keyword \in Seq(rows) /\ Range(keyword) \subseteq rows
      BY <1>2, <3>1, <3>2, OrderOf
    <3>5. rows \subseteq Row
      BY <1>2, <2>2
    <3> QED BY <3>3, <3>4, <3>5
  <2>4. results \in Seq(Row)
    BY <1>4, <2>2, <2>3, RankingOf
  <2>5. /\ search' \in Searches /\ search'.pc = "done" /\ search'.rows = search.rows
        /\ search'.mode = search.mode /\ search'.top = search.top
        /\ search'.vector = vector /\ search'.keyword = keyword /\ search'.results = results
    BY <1>1, <1>4, <2>3, <2>4 DEF Searches, Stages
  <2>6. SearchTyped'
    BY <1>1, <2>5 DEF SearchInv, SearchTyped
  <2>7. Underway' /\ Answered'
    BY <1>4, <2>5 DEF Underway, Answered, At
  <2>8. (search.rows \cup Candidates)' \subseteq search.rows
    BY <1>2, <2>3, <2>5 DEF Candidates
  <2>9. ReadWhileRunning'
    BY <1>1, <2>1, <2>8 DEF ReadWhileRunning, AtOneMoment
  <2> QED BY <2>6, <2>7, <2>9 DEF SearchInv
<1> QED BY <1>3, <1>4 DEF RankSearch

LEMMA VectorCandidatesKeep ==
  ASSUME SearchInv, SearchVectorCandidates PROVE SearchInv'
<1>1. /\ search \in Searches /\ At("vectors") /\ store = "postgres" /\ shelf \in past
      /\ search.results = <<>> /\ IsFiniteSet(search.rows) /\ AtSomeMoment(Candidates)
      /\ shelf \in [Doc -> Seq(CutUp)]
      /\ UNCHANGED <<store, shelf, uploads, bounds, past>>
  BY DEF SearchVectorCandidates, SearchInv, SearchTyped, Underway, ReadWhileRunning, At
<1>2. Readable \subseteq Row /\ IsFiniteSet(Readable) /\ \A c \in Readable : NewestAt(shelf, c)
  BY <1>1, ReadableNow
<1>3. CASE Fail
  BY <1>1, <1>3, FailKeeps DEF At
<1>4. ASSUME NEW vector \in Taken(Compatible(Readable))
      PROVE  vector \in Seq(Row) /\ Range(vector) \subseteq Readable
  <2>1. Compatible(Readable) \in SUBSET Readable
    BY DEF Compatible
  <2>2. IsFiniteSet(Compatible(Readable))
    BY <1>2, <2>1, FS_Subset
  <2>3. vector \in Seq(Compatible(Readable)) /\ Range(vector) \subseteq Compatible(Readable)
    BY <2>2, TakenOf
  <2>4. Compatible(Readable) \subseteq Row
    BY <1>2, <2>1
  <2> QED BY <2>1, <2>3, <2>4
<1>5. ASSUME NEW vector \in Taken(Compatible(Readable)), NEW results \in Seq(Row),
             NEW to \in {"done", "terms"},
             to # "done" => results = <<>>,
             results # <<>> => results \in Rankings(search.mode, vector, search.keyword, search.top),
             search' = [search EXCEPT !.pc = to, !.vector = vector, !.results = results]
      PROVE  SearchInv'
  <2>1. vector \in Seq(Row) /\ Range(vector) \subseteq Readable
    BY <1>4
  <2>2. /\ search' \in Searches /\ search'.pc = to /\ search'.rows = search.rows
        /\ search'.mode = search.mode /\ search'.top = search.top
        /\ search'.vector = vector /\ search'.keyword = search.keyword /\ search'.results = results
    BY <1>1, <1>5, <2>1 DEF Searches, Stages
  <2>3. SearchTyped'
    BY <1>1, <2>2 DEF SearchInv, SearchTyped
  <2>4. Underway' /\ Answered'
    BY <1>1, <1>5, <2>2 DEF Underway, Answered, At
  <2>5. \A c \in Candidates' : c \in Candidates \/ c \in Readable
    BY <2>1, <2>2 DEF Candidates
  <2>6. AtSomeMoment(Candidates)'
    BY <1>1, <1>2, <2>5 DEF AtSomeMoment
  <2>7. ReadWhileRunning'
    BY <1>1, <2>6 DEF ReadWhileRunning
  <2> QED BY <2>3, <2>4, <2>7 DEF SearchInv
<1>6. ASSUME NEW vector \in Taken(Compatible(Readable)), search.mode = "vector",
             NEW results \in Rankings("vector", vector, <<>>, search.top),
             search' = [search EXCEPT !.pc = "done", !.vector = vector, !.results = results]
      PROVE  SearchInv'
  <2>1. <<>> \in Seq(Row) /\ "vector" \in {"hybrid", "vector", "keyword"} /\ search.top \in Nat
    BY <1>1 DEF Searches
  <2>2. results \in Seq(Row)
    BY <1>4, <1>6, <2>1, RankingOf
  <2>3. Rankings("vector", vector, <<>>, search.top) = Rankings("vector", vector, search.keyword, search.top)
    BY DEF Rankings
  <2> QED BY <1>5, <1>6, <2>2, <2>3
<1>7. ASSUME NEW vector \in Taken(Compatible(Readable)),
             search' = [search EXCEPT !.pc = "terms", !.vector = vector]
      PROVE  SearchInv'
  <2>1. search' = [search EXCEPT !.pc = "terms", !.vector = vector, !.results = <<>>]
    BY <1>1, <1>7 DEF Searches
  <2>2. <<>> \in Seq(Row)
    OBVIOUS
  <2> QED BY <1>5, <2>1, <2>2
<1> QED BY <1>3, <1>6, <1>7 DEF SearchVectorCandidates

LEMMA KeywordCandidatesKeep ==
  ASSUME SearchInv, SearchKeywordCandidates PROVE SearchInv'
<1>1. /\ search \in Searches /\ At("terms") /\ store = "postgres" /\ shelf \in past
      /\ IsFiniteSet(search.rows) /\ AtSomeMoment(Candidates)
      /\ shelf \in [Doc -> Seq(CutUp)]
      /\ UNCHANGED <<store, shelf, uploads, bounds, past>>
  BY DEF SearchKeywordCandidates, SearchInv, SearchTyped, Underway, ReadWhileRunning, At
<1>2. Readable \subseteq Row /\ IsFiniteSet(Readable) /\ \A c \in Readable : NewestAt(shelf, c)
  BY <1>1, ReadableNow
<1>3. CASE Fail
  BY <1>1, <1>3, FailKeeps DEF At
<1>4. ASSUME NEW keyword \in Taken(Matching(Readable)),
             NEW results \in Rankings(search.mode, search.vector, keyword, search.top),
             search' = [search EXCEPT !.pc = "done", !.keyword = keyword, !.results = results]
      PROVE  SearchInv'
  <2>1. keyword \in Seq(Row) /\ Range(keyword) \subseteq Readable
    <3>1. Matching(Readable) \in SUBSET Readable
      BY DEF Matching
    <3>2. IsFiniteSet(Matching(Readable))
      BY <1>2, <3>1, FS_Subset
    <3>3. keyword \in Seq(Matching(Readable)) /\ Range(keyword) \subseteq Matching(Readable)
      BY <3>2, TakenOf
    <3>4. Matching(Readable) \subseteq Row
      BY <1>2, <3>1
    <3> QED BY <3>1, <3>3, <3>4
  <2>2. /\ search.vector \in Seq(Row) /\ search.top \in Nat
        /\ search.mode \in {"hybrid", "vector", "keyword"}
    BY <1>1 DEF Searches
  <2>3. results \in Seq(Row)
    BY <1>4, <2>1, <2>2, RankingOf
  <2>4. /\ search' \in Searches /\ search'.pc = "done" /\ search'.rows = search.rows
        /\ search'.mode = search.mode /\ search'.top = search.top
        /\ search'.vector = search.vector /\ search'.keyword = keyword /\ search'.results = results
    BY <1>1, <1>4, <2>1, <2>3 DEF Searches, Stages
  <2>5. SearchTyped'
    BY <1>1, <2>4 DEF SearchInv, SearchTyped
  <2>6. Underway' /\ Answered'
    BY <1>4, <2>4 DEF Underway, Answered, At
  <2>7. \A c \in Candidates' : c \in Candidates \/ c \in Readable
    BY <2>1, <2>4 DEF Candidates
  <2>8. AtSomeMoment(Candidates)'
    BY <1>1, <1>2, <2>7 DEF AtSomeMoment
  <2>9. ReadWhileRunning'
    BY <1>1, <2>8 DEF ReadWhileRunning
  <2> QED BY <2>5, <2>6, <2>9 DEF SearchInv
<1> QED BY <1>3, <1>4 DEF SearchKeywordCandidates

\* A change of the base adds a moment and leaves what was read.
LEMMA ChangeKeeps ==
  ASSUME SearchInv, NEW d \in Doc, NEW versions \in Seq(CutUp), Change(d, versions)
  PROVE  SearchInv'
<1>1. /\ ~ At("idle") /\ shelf' = [shelf EXCEPT ![d] = versions] /\ uploads' = uploads + 1
      /\ past' = past \cup {shelf'} /\ UNCHANGED <<store, bounds, search>>
  BY DEF Change, At
<1>2. shelf' \in [Doc -> Seq(CutUp)] /\ uploads' \in Nat
  BY <1>1 DEF SearchInv, SearchTyped
<1>3. SearchTyped'
  BY <1>1, <1>2 DEF SearchInv, SearchTyped
<1>4. Underway' /\ Answered'
  BY <1>1 DEF SearchInv, Underway, Answered, At
<1>5. Candidates' = Candidates /\ past \subseteq past' /\ shelf' \in past'
  BY <1>1 DEF Candidates
<1>6. ReadWhileRunning'
  BY <1>1, <1>5 DEF SearchInv, ReadWhileRunning, At, AtOneMoment, AtSomeMoment
<1> QED BY <1>3, <1>4, <1>6 DEF SearchInv

LEMMA UploadKeeps ==
  ASSUME SearchInv, NEW d \in Doc, Upload(d) PROVE SearchInv'
<1>1. PICK text \in Revisions, open \in BOOLEAN :
        Change(d, Append(shelf[d], Version(uploads + 3, text, "running", open)))
  BY DEF Upload
<1>2. text \in Seq(STRING)
  BY LibraryAssumption
<1>3. uploads + 3 \in Nat /\ shelf[d] \in Seq(CutUp)
  BY DEF SearchInv, SearchTyped
<1> DEFINE version == Version(uploads + 3, text, "running", open)
<1>4. version \in CutUp
  <2>1. ChunkText(text) \in Seq([from: Nat, to: Nat])
    BY <1>2, NothingIsLost DEF Piece
  <2>2. version \in Versions
    BY <1>2, <1>3, <2>1 DEF Version, Versions
  <2> QED BY <2>2 DEF CutUp, Version
<1> HIDE DEF version
<1>5. Append(shelf[d], version) \in Seq(CutUp)
  BY <1>3, <1>4
<1> QED BY <1>1, <1>5, ChangeKeeps DEF version

LEMMA DeleteKeeps ==
  ASSUME SearchInv, NEW d \in Doc, Delete(d) PROVE SearchInv'
<1>1. PICK i \in DOMAIN shelf[d] : Change(d, RemoveAt(shelf[d], i))
  BY DEF Delete
<1>2. shelf[d] \in Seq(CutUp)
  BY DEF SearchInv, SearchTyped
<1>3. RemoveAt(shelf[d], i) \in Seq(CutUp)
  BY <1>2 DEF RemoveAt
<1> QED BY <1>1, <1>3, ChangeKeeps

LEMMA SearchStep ==
  ASSUME SearchInv, [SearchNext]_searchvars PROVE SearchInv'
<1>1. CASE UNCHANGED searchvars
  BY <1>1 DEF searchvars, SearchInv, SearchTyped, Underway, ReadWhileRunning, Answered, At, Candidates,
              AtOneMoment, AtSomeMoment
<1>2. CASE \E d \in Doc : Upload(d) \/ Delete(d)
  BY <1>2, UploadKeeps, DeleteKeeps
<1> QED BY <1>1, <1>2, StartKeeps, ListChunksKeeps, EmbedQueryKeeps, RankSearchKeeps,
           VectorCandidatesKeep, KeywordCandidatesKeep DEF SearchNext

\* What a search holds was read while it ran, and its results are a ranking
\* of it, whatever is changed meanwhile (SearchWithMode, service.go:181-248).
THEOREM SearchInvariance == SearchSpec => []SearchInv
<1>1. SearchInit => SearchInv
  BY SearchInitially
<1>2. SearchInv /\ [SearchNext]_searchvars => SearchInv'
  BY SearchStep
<1> QED BY <1>1, <1>2, PTL DEF SearchSpec

(***************************************************************************)
(* Whatever is uploaded, deleted and searched for, however long the texts  *)
(* are and wherever boundaries are found in them: every rune that is not   *)
(* blank lies in a chunk of its version, no chunk longer than allowed.     *)
(* The recursion of ChunkText ends because every cut goes on by a rune at  *)
(* least (CutGoesOn), which rests on the bound the code puts on the        *)
(* overlap; the next cut starts no later than the last one ended.          *)
(***************************************************************************)
THEOREM NothingUploadedIsLost == SearchSpec => []EveryRuneIsIndexed
<1>1. SearchInv => EveryRuneIsIndexed
  <2>1. SUFFICES ASSUME SearchInv, NEW d \in Doc, NEW n \in DOMAIN shelf[d],
                        NEW i \in DOMAIN shelf[d][n].text, shelf[d][n].text[i] \notin Blank
                 PROVE  \E c \in DOMAIN shelf[d][n].chunks :
                          /\ shelf[d][n].chunks[c].from < i /\ i <= shelf[d][n].chunks[c].to
                          /\ shelf[d][n].chunks[c].to - shelf[d][n].chunks[c].from <= MaxRunes
    BY DEF EveryRuneIsIndexed
  <2>2. shelf[d][n] \in CutUp
    <3>1. shelf[d] \in Seq(CutUp)
      BY <2>1 DEF SearchInv, SearchTyped
    <3> QED BY <3>1
  <2>3. shelf[d][n].text \in Seq(STRING) /\ shelf[d][n].chunks = ChunkText(shelf[d][n].text)
    BY <2>2 DEF CutUp, Versions
  <2>4. PICK c \in DOMAIN ChunkText(shelf[d][n].text) :
          Covers(shelf[d][n].text, ChunkText(shelf[d][n].text)[c], i)
    BY <2>1, <2>3, NothingIsLost
  <2> QED BY <2>3, <2>4 DEF Covers
<1> QED BY <1>1, SearchInvariance, PTL

(***************************************************************************)
(* However many documents there are and however often they change during   *)
(* a search, it serves only what was the newest and open to the searcher   *)
(* at some moment of it: on SQLite all of it at one moment, the moment of  *)
(* its only query.                                                         *)
(***************************************************************************)
THEOREM ResultsWereCurrent == SearchSpec => []ServedWasCurrent
<1>1. SearchInv => ServedWasCurrent
  <2>1. SUFFICES ASSUME SearchInv PROVE ServedWasCurrent
    OBVIOUS
  <2>2. Range(search.results) \subseteq Candidates
    <3>1. CASE search.results = <<>>
      BY <3>1 DEF Range
    <3>2. CASE search.results # <<>>
      <4>1. /\ search.vector \in Seq(Row) /\ search.keyword \in Seq(Row) /\ search.top \in Nat
            /\ search.mode \in {"hybrid", "vector", "keyword"}
        BY <2>1 DEF SearchInv, SearchTyped, Searches
      <4>2. search.results \in Rankings(search.mode, search.vector, search.keyword, search.top)
        BY <2>1, <3>2 DEF SearchInv, Answered
      <4> QED BY <4>1, <4>2, RankingOf DEF Candidates
    <3> QED BY <3>1, <3>2
  <2>3. CASE store = "sqlite"
    <3>1. SUFFICES ASSUME Range(search.results) # {}
                   PROVE  \E moment \in past : \A c \in Range(search.results) : NewestAt(moment, c)
      BY <2>3 DEF ServedWasCurrent
    <3>2. ~ At("idle")
      <4>1. search.results # <<>>
        BY <3>1 DEF Range
      <4> QED BY <2>1, <4>1 DEF SearchInv, Underway, At
    <3>3. AtOneMoment(search.rows \cup Candidates)
      BY <2>1, <2>3, <3>2 DEF SearchInv, ReadWhileRunning
    <3> QED BY <2>2, <3>3 DEF AtOneMoment
  <2>4. CASE store # "sqlite"
    <3>1. store = "postgres"
      BY <2>1, <2>4 DEF SearchInv, SearchTyped
    <3>2. AtSomeMoment(Candidates)
      BY <2>1, <3>1 DEF SearchInv, ReadWhileRunning
    <3> QED BY <2>2, <2>4, <3>2 DEF AtSomeMoment, ServedWasCurrent
  <2> QED BY <2>3, <2>4
<1> QED BY <1>1, SearchInvariance, PTL

(***************************************************************************)
(* A chunk both channels found is ranked before all that one found, for    *)
(* any constant of the fusion that the number of candidates exceeds by at  *)
(* most one (60 and 50 in the code): two ranks that low still weigh more   *)
(* than the first rank alone (TwoOutweighOne).                             *)
(***************************************************************************)
THEOREM AgreementComesFirst == SearchSpec => []TwoChannelsFirst
<1>1. SearchInv => TwoChannelsFirst
  <2>1. SUFFICES ASSUME SearchInv, search.mode = "hybrid",
                        NEW i \in DOMAIN search.results, NEW j \in DOMAIN search.results,
                        InBoth(search.results[j]), ~ InBoth(search.results[i])
                 PROVE  j < i
    BY DEF TwoChannelsFirst
  <2>2. search.vector \in Seq(Row) /\ search.keyword \in Seq(Row) /\ search.top \in Nat
    BY <2>1 DEF SearchInv, SearchTyped, Searches
  <2>3. search.results # <<>>
    OBVIOUS
  <2>4. search.results \in Rankings("hybrid", search.vector, search.keyword, search.top)
    BY <2>1, <2>3 DEF SearchInv, Answered
  <2>5. /\ Twice(search.vector, search.keyword, search.results[j])
        /\ ~ Twice(search.vector, search.keyword, search.results[i])
    BY <2>1 DEF InBoth, Twice
  <2> QED BY <2>2, <2>4, <2>5, BothComeFirst
<1> QED BY <1>1, SearchInvariance, PTL

==============================================================================
