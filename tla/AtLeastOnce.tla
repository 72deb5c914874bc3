---------------------------- MODULE AtLeastOnce ----------------------------
(***************************************************************************)
(* What a durable job queue promises those who enqueue, with no leases and *)
(* no workers: an accepted job is tried at most MaxAttempts times, is      *)
(* reported completed only after its effect happened, is given up only     *)
(* when its tries are spent, and may then be revived with a fresh budget.  *)
(* Jobs may be withdrawn at any time, for good.                            *)
(***************************************************************************)
EXTENDS Naturals

CONSTANTS Job, MaxAttempts

VARIABLES answer,  \* what the queue says of each job
          tries,   \* tries begun since it was accepted or revived
          effect   \* jobs whose effect happened

vars == <<answer, tries, effect>>

Init ==
    /\ answer = [j \in Job |-> "none"]
    /\ tries = [j \in Job |-> 0]
    /\ effect = {}

Accept(j) ==
    /\ answer[j] = "none"
    /\ answer' = [answer EXCEPT ![j] = "open"]
    /\ UNCHANGED <<tries, effect>>

Open == {j \in Job : answer[j] = "open"}
Spent == {j \in Open : tries[j] = MaxAttempts}

(***************************************************************************)
(* Tries begin for some jobs; others, whose last try came to nothing, are  *)
(* given up.                                                               *)
(***************************************************************************)
Advance(begun, lost) ==
    /\ begun \subseteq Open \ Spent
    /\ lost \subseteq Spent
    /\ tries' = [j \in Job |-> IF j \in begun THEN tries[j] + 1 ELSE tries[j]]
    /\ answer' = [j \in Job |-> IF j \in lost THEN "failed" ELSE answer[j]]
    /\ UNCHANGED effect

\* A late try may still take effect after its job was given up.
TakeEffect(j) ==
    /\ answer[j] # "none"
    /\ effect' = effect \cup {j}
    /\ UNCHANGED <<answer, tries>>

Complete(j) ==
    /\ answer[j] = "open"
    /\ j \in effect
    /\ answer' = [answer EXCEPT ![j] = "completed"]
    /\ UNCHANGED <<tries, effect>>

Revive(j) ==
    /\ answer[j] = "failed"
    /\ answer' = [answer EXCEPT ![j] = "open"]
    /\ tries' = [tries EXCEPT ![j] = 0]
    /\ UNCHANGED effect

Withdraw(jobs) ==
    /\ jobs \subseteq Job
    /\ answer' = [j \in Job |-> IF j \in jobs THEN "withdrawn" ELSE answer[j]]
    /\ tries' = [j \in Job |-> IF j \in jobs THEN 0 ELSE tries[j]]
    /\ UNCHANGED effect

Next ==
    \/ \E j \in Job : Accept(j) \/ TakeEffect(j) \/ Complete(j) \/ Revive(j)
    \/ \E begun, lost \in SUBSET Job : Advance(begun, lost)
    \/ \E jobs \in SUBSET Job : Withdraw(jobs)

Spec == Init /\ [][Next]_vars
=============================================================================
