---------------------------- MODULE MCRetrieval ----------------------------
(***************************************************************************)
(* Instances of Retrieval: every text of up to five runes (of up to eight  *)
(* with a word and a space alone), still, so that every way of cutting is  *)
(* met; and libraries of two documents of two chunks, changed once while   *)
(* they are searched.                                                      *)
(***************************************************************************)
EXTENDS Retrieval

Texts == UNION {[1..n -> {"a", "#", "\n", " ", "."}] : n \in 1..5}
         \cup UNION {[1..n -> {"a", " "}] : n \in 6..8}

Alone(text) ==
    [shelf |-> <<<<Version(1, text, "running", TRUE)>>, <<>>>>, modes |-> {"keyword"}, changes |-> 0]

Long == <<"a", "a", "a", ".", "a">>
Short == <<"a", "b">>
Plain == <<"b", "b", "b", "b", "b">>

MCRevisions == {Long}

Histories ==
    { <<>>,
      <<Version(1, Long, "running", TRUE)>>,
      <<Version(1, Long, "former", TRUE)>>,
      <<Version(1, Plain, "running", TRUE), Version(2, Long, "running", TRUE)>>,
      <<Version(1, Short, "running", TRUE), Version(2, Long, "running", FALSE)>> }

MCScenarios ==
    {Alone(text) : text \in {t \in Texts : ChunkText(t) # <<>>}}
    \cup {[shelf |-> <<h, k>>, modes |-> {"hybrid", "vector", "keyword"}, changes |-> 1]
             : h \in Histories, k \in Histories}
=============================================================================
