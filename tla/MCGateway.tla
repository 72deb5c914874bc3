------------------------------ MODULE MCGateway ------------------------------
(* A small instance of Gateway for TLC.                                    *)
EXTENDS Gateway, TLC

Symmetry == Permutations(Tabs)

Quotas == [r \in Resources |->
              CASE r = "requests" -> 3 [] r = "chat_runs" -> 1 [] OTHER -> 3]
=============================================================================
