---------------------------- MODULE OfficeEffect ----------------------------
(***************************************************************************)
(* What confirmed office work promises its user, with no leases, requests  *)
(* or references: a draft takes effect in the outside world only after a   *)
(* person approved it, at most once however often it is executed, and is   *)
(* reported as completed only when it did take effect.                     *)
(***************************************************************************)
EXTENDS Naturals

CONSTANT Draft

VARIABLES authorised,  \* drafts a person approved
          effects,     \* how often each draft took effect
          reported     \* drafts shown as completed

vars == <<authorised, effects, reported>>

Init ==
    /\ authorised = {}
    /\ effects = [d \in Draft |-> 0]
    /\ reported = {}

Authorise(d) ==
    /\ authorised' = authorised \cup {d}
    /\ UNCHANGED <<effects, reported>>

TakeEffect(d) ==
    /\ d \in authorised
    /\ effects[d] = 0
    /\ effects' = [effects EXCEPT ![d] = 1]
    /\ UNCHANGED <<authorised, reported>>

Report(d) ==
    /\ effects[d] = 1
    /\ reported' = reported \cup {d}
    /\ UNCHANGED <<authorised, effects>>

Next == \E d \in Draft : Authorise(d) \/ TakeEffect(d) \/ Report(d)

Spec == Init /\ [][Next]_vars
=============================================================================
