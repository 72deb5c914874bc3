------------------------------ MODULE Chunking ------------------------------
(***************************************************************************)
(* How a document is cut into the chunks that are indexed                  *)
(* (knowledge/chunker.go).  A text is a sequence of runes; positions are   *)
(* those of the code, so that position i lies before the rune text[i + 1]. *)
(* The runes a boundary depends on stand for themselves ("\n", "#", " ",   *)
(* "."); every other rune is an ordinary one.                              *)
(***************************************************************************)
EXTENDS Integers, Sequences, FiniteSetsExt

CONSTANTS MaxRunes,      \* ChunkOptions.MaxRunes, at least 100 in the code
          OverlapRunes   \* ChunkOptions.OverlapRunes

ASSUME ChunkOptions ==
    /\ MaxRunes \in Nat \ {0}
    /\ OverlapRunes \in Nat
    /\ OverlapRunes < MaxRunes \div 2

Blank == {" ", "\n"}

RuneAt(text, i) == IF i \in 0..(Len(text) - 1) THEN text[i + 1] ELSE "none"

(* A heading: up to six marks, then a space. *)
Heading(text, i) ==
    \E n \in 1..6 :
        /\ \A j \in i..(i + n - 1) : RuneAt(text, j) = "#"
        /\ RuneAt(text, i + n) = " "

(* Where a chunk may end, from the best kind of place to the worst. *)
Boundaries(text) ==
    LET At(P(_)) == {i \in 0..Len(text) : P(i)}
    IN  << At(LAMBDA i : RuneAt(text, i - 1) = "\n" /\ Heading(text, i)),
           At(LAMBDA i : RuneAt(text, i - 1) = "\n" /\ RuneAt(text, i) = "\n"),
           At(LAMBDA i : RuneAt(text, i) = "\n"),
           At(LAMBDA i : RuneAt(text, i - 1) = "."),
           At(LAMBDA i : RuneAt(text, i) \in Blank) >>

(* The last place of the best kind between two positions. *)
FindBoundary(text, minimum, maximum) ==
    LET within(level) == Boundaries(text)[level] \cap (minimum..maximum)
        found == {level \in 1..5 : within(level) # {}}
    IN  IF found = {} THEN maximum ELSE Max(within(Min(found)))

(* The part of a range between its blanks: no rune when all are blank. *)
Trimmed(text, start, end) ==
    LET solid == {i \in start..(end - 1) : RuneAt(text, i) \notin Blank}
    IN  IF solid = {} THEN <<>> ELSE << [from |-> Min(solid), to |-> Max(solid) + 1] >>

(* Mutant: the last cut is skipped when little more than the overlap is left. *)
NextStart_SkipsTail(text, start, end) ==
    IF end + OverlapRunes >= Len(text) THEN Len(text) ELSE end - OverlapRunes

NextStart(text, start, end) ==
    IF end = Len(text) THEN end
    ELSE IF end - OverlapRunes <= start THEN end ELSE end - OverlapRunes

ChunkEnd(text, start) ==
    IF start + MaxRunes >= Len(text) THEN Len(text)
    ELSE FindBoundary(text, start + MaxRunes \div 2, start + MaxRunes)

(* The chunks of what is left of a text, for every place to start from. *)
ChunksFrom(text) ==
    LET from[start \in 0..Len(text)] ==
            IF start = Len(text) THEN <<>>
            ELSE LET end == ChunkEnd(text, start)
                 IN  Trimmed(text, start, end) \o from[NextStart(text, start, end)]
    IN  from

ChunkText(text) == ChunksFrom(text)[0]
=============================================================================
