-------------------------- MODULE MCMemoryCapture --------------------------
(* Two turns that state the same fact, one of them twice over.            *)
EXTENDS MemoryCapture, TLC

CONSTANTS t1, t2, key, old, new, secret

Said(kind, content, importance) ==
    [kind |-> kind, key |-> key, content |-> content, importance |-> importance]

MCCandidates ==
    t1 :> <<Said("semantic", old, 2), Said("episodic", secret, 1), Said("episodic", new, 1)>> @@
    t2 :> <<Said("semantic", new, 1)>>

=============================================================================
