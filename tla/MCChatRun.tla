------------------------------ MODULE MCChatRun ------------------------------
(***************************************************************************)
(* ChatRun for TLC: one or two requests, all sent to conversation c1.      *)
(***************************************************************************)
EXTENDS ChatRun, TLC

CONSTANTS r1, r2, c1, h1, h2

SameConversation == [r \in Requests |-> c1]
=============================================================================
