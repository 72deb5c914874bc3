------------------------------ MODULE AgentRun ------------------------------
(***************************************************************************)
(* One execution of the agent: a supervisor that hands tasks to            *)
(* specialists in rounds of parallel calls, the controlled tool around     *)
(* each specialist (budget of handoffs, slots, attempts with a timeout),   *)
(* and the reviewer that may ask once for a second pass.                   *)
(*                                                                         *)
(* Calls and the consumer of the events run concurrently.  What the model  *)
(* answers and how a specialist fares is up to chance.                     *)
(***************************************************************************)
EXTENDS Naturals, Sequences, FiniteSets

CONSTANTS
    Calls,              \* the calls of specialists there can be
    HandoffLimits,      \* calls that may be let through: values of MaxHandoffs,
    MaxParallel,        \* that run at a time,
    RetryCount,         \* and attempts after the first one of each
    MaxIterations       \* calls of the supervisor's model in a pass

ASSUME AgentAssumption ==
    /\ HandoffLimits \subseteq Nat \ {0} /\ MaxParallel \in Nat \ {0}
    /\ RetryCount \in Nat /\ MaxIterations \in Nat \ {0}

VARIABLES
    maxHandoffs,    \* ExecutionLimits.MaxHandoffs of this server
    pass,           \* "only": there is no reviewer; "draft", "review",
                    \* "revision"; "answered", "failed" when Execute returned
    iterations,     \* calls of the model in this pass
    call,           \* where each call of a specialist is
    attempts,       \* attempts that were started for it
    handoffNum,     \* executionState of this pass: handoffs reserved
    parallel,       \* and slots taken
    cancelled,      \* the context of the request has ended
    answer,         \* texts of the supervisor in this pass
    shown           \* texts that were sent to the user

agentvars == <<maxHandoffs, pass, iterations, call, attempts, handoffNum, parallel,
          cancelled, answer, shown>>

control == <<handoffNum, parallel>>
output  == <<answer, shown>>

CallStations == {"none", "asked", "queued", "held", "working", "ok", "error"}

AgentTypeOK ==
    /\ maxHandoffs \in HandoffLimits
    /\ pass \in {"only", "draft", "review", "revision", "answered", "failed"}
    /\ iterations \in 0..MaxIterations
    /\ call \in [Calls -> CallStations]
    /\ attempts \in [Calls -> 0..RetryCount + 1]
    /\ handoffNum \in 0..maxHandoffs
    /\ parallel \in 0..MaxParallel
    /\ cancelled \in BOOLEAN
    /\ answer \in Seq({"draft", "final"}) /\ shown \in Seq({"draft", "final"})

AgentInit ==
    /\ maxHandoffs \in HandoffLimits
    /\ pass \in {"only", "draft"}
    /\ iterations = 0
    /\ call = [c \in Calls |-> "none"] /\ attempts = [c \in Calls |-> 0]
    /\ handoffNum = 0 /\ parallel = 0
    /\ cancelled = FALSE
    /\ answer = <<>> /\ shown = <<>>

Executing == pass \in {"only", "draft", "revision"}

Outstanding == {c \in Calls : call[c] \in {"asked", "queued", "held", "working"}}

Goto(c, station) == call' = [call EXCEPT ![c] = station]

------------------------------------------------------------------------------
(* The controlled tool.                                                    *)

\* Mutant: the budget may be exceeded by one.
Budget_OffByOne == handoffNum <= maxHandoffs

Budget == handoffNum < maxHandoffs

ReserveHandoff(c) ==
    /\ call[c] = "asked"
    /\ IF Budget
       THEN handoffNum' = handoffNum + 1 /\ Goto(c, "queued")
       ELSE Goto(c, "error") /\ UNCHANGED handoffNum
    /\ UNCHANGED <<maxHandoffs, pass, iterations, attempts, parallel, cancelled, output>>

(* Of a free slot and an ended context, select takes either.               *)
Acquire(c) ==
    /\ call[c] = "queued"
    /\ \/ parallel < MaxParallel /\ parallel' = parallel + 1 /\ Goto(c, "held")
       \/ cancelled /\ Goto(c, "error") /\ UNCHANGED parallel
    /\ UNCHANGED <<maxHandoffs, pass, iterations, attempts, handoffNum, cancelled, output>>

\* Mutant: a call that fails keeps its slot.
Return_Leaking(c, result) ==
    Goto(c, result) /\ parallel' = IF result = "ok" THEN parallel - 1 ELSE parallel

Return(c, result) == Goto(c, result) /\ parallel' = parallel - 1

(* The head of the loop: an attempt starts, unless the request was given up.*)
Attempt(c) ==
    /\ call[c] = "held"
    /\ IF cancelled
       THEN Return(c, "error") /\ UNCHANGED attempts
       ELSE /\ Goto(c, "working") /\ UNCHANGED parallel
            /\ attempts' = [attempts EXCEPT ![c] = @ + 1]
    /\ UNCHANGED <<maxHandoffs, pass, iterations, handoffNum, cancelled, output>>

(* The specialist answers, fails, or runs into its timeout.                *)
Deliver(c) ==
    /\ call[c] = "working"
    /\ \/ Return(c, "ok")
       \/ IF attempts[c] <= RetryCount /\ ~cancelled
          THEN Goto(c, "held") /\ UNCHANGED parallel
          ELSE Return(c, "error")
    /\ UNCHANGED <<maxHandoffs, pass, iterations, attempts, handoffNum, cancelled, output>>

Run(c) == ReserveHandoff(c) \/ Acquire(c) \/ Attempt(c) \/ Deliver(c)

------------------------------------------------------------------------------
(* executeOnce: one pass of the supervisor.                                *)

(* Only the draft is kept from the user until it is reviewed.              *)
Texts == IF pass = "draft" THEN <<"draft">> ELSE <<"final">>

\* Mutant: the draft is shown while it is written.
Emitted_Always == Texts

Emitted == IF pass = "draft" THEN <<>> ELSE Texts

(* The model of the supervisor is asked; besides what it goes on with it   *)
(* may have said something, which is part of the answer.                   *)
Say ==
    \/ answer' = answer \o Texts /\ shown' = shown \o Emitted
    \/ UNCHANGED output

CallsReturned == Executing /\ Outstanding = {}

ModelCall ==
    /\ CallsReturned /\ ~cancelled
    /\ \A c \in Calls : call[c] # "error"
    /\ iterations < MaxIterations
    /\ iterations' = iterations + 1
    /\ Say

(* It asks for several specialists at a time.                              *)
HandOff ==
    /\ ModelCall
    /\ \E asked \in SUBSET {c \in Calls : call[c] = "none"} :
           /\ asked # {}
           /\ call' = [c \in Calls |-> IF c \in asked THEN "asked" ELSE call[c]]
    /\ UNCHANGED <<maxHandoffs, pass, attempts, control, cancelled>>

(* Or it is done: the pass returns its texts, if there are any.            *)
Conclude ==
    /\ ModelCall
    /\ pass' = CASE answer' = <<>> -> "failed"
                 [] pass = "draft" -> "review"
                 [] OTHER          -> "answered"
    /\ UNCHANGED <<maxHandoffs, call, attempts, control, cancelled>>

(* The pass ends with the error of a call, of the model, of its budget of  *)
(* iterations, or of the context.                                          *)
PassFails ==
    /\ CallsReturned
    /\ pass' = "failed"
    /\ UNCHANGED <<maxHandoffs, iterations, call, attempts, control, cancelled, output>>

(* An event cannot be stored or sent: Execute returns at once, and calls   *)
(* that are under way go on until the context ends with the request.       *)
EmitFails ==
    /\ Executing \/ pass = "review"
    /\ pass' = "failed"
    /\ UNCHANGED <<maxHandoffs, iterations, call, attempts, control, cancelled, output>>

(* The request ends, because the user leaves or Execute has returned.      *)
Cancel ==
    /\ ~cancelled
    /\ cancelled' = TRUE
    /\ UNCHANGED <<maxHandoffs, pass, iterations, call, attempts, control, output>>

------------------------------------------------------------------------------
(* executeWithReflection.                                                  *)

(* The draft is good enough, or the reviewer cannot say: it is the answer. *)
AcceptDraft ==
    /\ pass = "review"
    /\ pass' = "answered"
    /\ shown' = shown \o answer
    /\ UNCHANGED <<maxHandoffs, iterations, call, attempts, control, cancelled, answer>>

(* The question is answered once more from the start, with a budget of its *)
(* own and without another review.                                         *)
Revise ==
    /\ pass = "review"
    /\ pass' = "revision"
    /\ iterations' = 0 /\ handoffNum' = 0 /\ parallel' = 0
    /\ answer' = <<>>
    /\ UNCHANGED <<maxHandoffs, call, attempts, cancelled, shown>>

AgentNext ==
    \/ \E c \in Calls : Run(c)
    \/ HandOff \/ Conclude \/ PassFails \/ EmitFails
    \/ AcceptDraft \/ Revise
    \/ Cancel

(* Specialists return, at the latest at their timeout; slots are given in  *)
(* the order of arrival; the model answers; a request that has returned    *)
(* ends.  Nothing has to fail, and nobody has to leave.                    *)
Returned == pass \in {"answered", "failed"}

Fairness ==
    /\ \A c \in Calls : WF_agentvars(ReserveHandoff(c) \/ Attempt(c) \/ Deliver(c))
    /\ \A c \in Calls : SF_agentvars(Acquire(c))
    /\ WF_agentvars(HandOff \/ Conclude \/ PassFails)
    /\ WF_agentvars(AcceptDraft \/ Revise)
    /\ WF_agentvars(Returned /\ Cancel)

AgentSpec == AgentInit /\ [][AgentNext]_agentvars

FairAgentSpec == AgentSpec /\ Fairness

------------------------------------------------------------------------------
(* Properties.                                                             *)

Tried == {c \in Calls : attempts[c] > 0}

(* Rounds of parallel calls, retries and the second pass together keep to  *)
(* the limits: no pass tries more specialists than it may hand tasks to,   *)
(* the passes of a run at most twice as many, and at no time do more work  *)
(* than there are slots (execution_control.go:62-81, runtime.go:162).      *)
LimitsKept ==
    /\ LET passes == IF pass \in {"only", "draft", "review"} THEN 1 ELSE 2
       IN  Cardinality(Tried) <= passes * maxHandoffs
    /\ Cardinality({c \in Calls : call[c] \in {"held", "working"}}) = parallel
    /\ parallel <= MaxParallel

(* What the run returns, and chat stores as the reply, is what the user    *)
(* was shown, once: neither a draft that is then rewritten, nor texts of   *)
(* both passes (reflection.go:79-83, 109-134).                             *)
AnswerWasShown == pass = "answered" => shown = answer

(* Whatever fails or is given up, Execute returns, and every specialist    *)
(* that was asked comes back and gives up its slot, also those Execute did *)
(* not wait for (docs/technical-design.md:857).                            *)
EverythingReturns == <>[](Returned /\ Outstanding = {} /\ parallel = 0)

(* docs/technical-design.md:402: the limits hold for a run, as one         *)
(* executionState is injected into it.  A revision gets another one.       *)
OneBudgetPerRun == Cardinality(Tried) <= maxHandoffs
=============================================================================
