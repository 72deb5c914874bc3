------------------------------ MODULE Retrieval ------------------------------
(***************************************************************************)
(* A search of the knowledge base (knowledge.Service.SearchWithMode) while *)
(* documents are uploaded and deleted.                                     *)
(*                                                                         *)
(* SQLite reads every readable chunk in one query and ranks them in Go.    *)
(* PostgreSQL asks two queries, one per channel, and only fuses their      *)
(* candidates in Go.  Between the steps of a search the base may change.   *)
(*                                                                         *)
(* Scores are abstracted to the order they put chunks in: a ranking is the *)
(* sequence of the chunks a channel scores above zero, best first.  Any    *)
(* order may come out of the vectors; the keyword channel scores exactly   *)
(* the chunks that hold a word of the question, in any order.              *)
(***************************************************************************)
EXTENDS Chunking, SequencesExt

CONSTANTS Doc,          \* version groups, numbered in the order of their names
          Word,         \* the rune the question asks for
          rrfConstant,  \* 60 in the code
          Limit,        \* 50 in the code: the candidates taken of a ranking
          TopK,         \* results a caller may ask for
          Revisions,    \* texts a new version may have
          Scenarios     \* what the base holds, who changes it, how it is searched

ASSUME FusionAssumption ==
    /\ Doc \subseteq Nat /\ IsFiniteSet(Doc)
    /\ TopK \subseteq Nat
    /\ rrfConstant \in Nat /\ Limit \in Nat \ {0}
    /\ Limit < rrfConstant + 2

(* A version is stored with the chunks it was cut into. *)
Version(id, text, model, open) ==
    [id |-> id, text |-> text, chunks |-> ChunkText(text), model |-> model, open |-> open]

Versions == [id: Nat, text: Seq(STRING), chunks: Seq([from: Nat, to: Nat]),
             model: {"running", "former"}, open: BOOLEAN]

(* Texts are sequences of runes; what is stored when the search begins was *)
(* cut up when it was uploaded, with the options there are now.            *)
ASSUME LibraryAssumption ==
    /\ Revisions \subseteq Seq(STRING)
    /\ \A scenario \in Scenarios :
           /\ scenario.shelf \in [Doc -> Seq(Versions)]
           /\ \A d \in Doc : \A n \in DOMAIN scenario.shelf[d] :
                  LET version == scenario.shelf[d][n]
                  IN  version.chunks = ChunkText(version.text)
           /\ scenario.modes \subseteq {"hybrid", "vector", "keyword"}

VARIABLES
    store,    \* "sqlite" or "postgres"
    shelf,    \* shelf[d]: the stored versions of d, the newest last
    uploads,  \* changes made while the search runs
    bounds,   \* the scenario's bounds on modes and changes
    search,   \* the search: its step, mode, rows read and rankings
    past      \* the shelves there were since the search began (history)

searchvars == <<store, shelf, uploads, bounds, search, past>>

Idle == [pc |-> "idle", mode |-> "hybrid", top |-> 1, rows |-> {},
         vector |-> <<>>, keyword |-> <<>>, results |-> <<>>]

(* The rows of knowledge_chunks that belong to one stored version. *)
Rows(d, version) ==
    {[doc |-> d, version |-> version.id, ordinal |-> n, model |-> version.model,
      matches |-> \E i \in version.chunks[n].from..(version.chunks[n].to - 1) :
                      RuneAt(version.text, i) = Word] : n \in DOMAIN version.chunks}

(* Mutant: the filter on is_latest is missing from the query. *)
Readable_EveryVersion ==
    UNION {UNION {Rows(d, shelf[d][i]) : i \in {j \in DOMAIN shelf[d] : shelf[d][j].open}}
              : d \in Doc}

(* is_latest, and owned by the searcher or public. *)
Readable ==
    UNION {Rows(d, Last(shelf[d])) : d \in {e \in Doc : shelf[e] # <<>> /\ Last(shelf[e]).open}}

Compatible(rows) == {c \in rows : c.model = "running"}

Matching(rows) == {c \in rows : c.matches}

Orders(rows) == SetToSeqs(rows)

(* compareRank's last two keys. *)
Before(c, e) == c.doc < e.doc \/ (c.doc = e.doc /\ c.ordinal < e.ordinal)

-----------------------------------------------------------------------------
(* Reciprocal rank fusion *)

RankIn(ranking, c) == IF Contains(ranking, c) THEN CHOOSE i \in DOMAIN ranking : ranking[i] = c ELSE 0

(* Mutant: every rank counts, however low. *)
Counted_All(ranking, c) == RankIn(ranking, c)

Counted(ranking, c) == IF RankIn(ranking, c) <= Limit THEN RankIn(ranking, c) ELSE 0

(* 1 / (rrfConstant + rank) for each channel that found the chunk. *)
Fused(vector, keyword, c) ==
    LET a == rrfConstant + Counted(vector, c)
        b == rrfConstant + Counted(keyword, c)
    IN  CASE Counted(vector, c) = 0 /\ Counted(keyword, c) = 0 -> <<0, 1>>
          [] Counted(vector, c) = 0 /\ Counted(keyword, c) > 0 -> <<1, b>>
          [] Counted(vector, c) > 0 /\ Counted(keyword, c) = 0 -> <<1, a>>
          [] OTHER -> <<a + b, a * b>>

Above(x, y) == x[1] * y[2] > y[1] * x[2]

(* compareRank: the higher score first, then the order of the names. *)
First(vector, keyword, c, e) ==
    LET x == Fused(vector, keyword, c)
        y == Fused(vector, keyword, e)
    IN  Above(x, y) \/ (~Above(y, x) /\ Before(c, e))

(* The chunks with a score above zero. *)
Found(vector, keyword) ==
    {c \in Range(vector) \cup Range(keyword) : Above(Fused(vector, keyword, c), <<0, 1>>)}

(* slices.SortFunc: no order between chunks that compare as equal. *)
Sorted(vector, keyword) ==
    {order \in Orders(Found(vector, keyword)) :
        \A i, j \in DOMAIN order : i < j => ~First(vector, keyword, order[j], order[i])}

Cut(ranking, top) == SubSeq(ranking, 1, IF Len(ranking) < top THEN Len(ranking) ELSE top)

(* rankSearch and rankCandidates: sort, drop what no channel found, cut off. *)
Rankings(mode, vector, keyword, top) ==
    {Cut(all, top) : all \in CASE mode = "hybrid"  -> Sorted(vector, keyword)
                               [] mode = "vector"  -> {vector}
                               [] mode = "keyword" -> {keyword}}

-----------------------------------------------------------------------------
(* The search *)

At(pc) == search.pc = pc

Fail == search' = [search EXCEPT !.pc = "failed"]

Start ==
    /\ At("idle")
    /\ \E mode \in bounds.modes, top \in TopK :
           search' = [search EXCEPT !.pc = IF store = "sqlite" THEN "list"
                                           ELSE IF mode = "keyword" THEN "terms" ELSE "embed",
                                    !.mode = mode, !.top = top]
    /\ past' = {shelf}
    /\ UNCHANGED <<store, shelf, uploads, bounds>>

(* SQLite: one query reads all rows; a keyword search ranks them at once. *)
ListChunks ==
    /\ At("list")
    /\ \/ Fail
       \/ LET rows == Readable
          IN  IF rows # {} /\ search.mode = "keyword"
              THEN \E keyword \in Orders(Matching(rows)) :
                   \E results \in Rankings("keyword", <<>>, keyword, search.top) :
                       search' = [search EXCEPT !.pc = "done", !.rows = rows, !.keyword = keyword,
                                                !.results = results]
              ELSE search' = [search EXCEPT !.pc = IF rows = {} THEN "done" ELSE "embed",
                                            !.rows = rows]
    /\ UNCHANGED <<store, shelf, uploads, bounds, past>>

(* The question is embedded over the network. *)
EmbedQuery ==
    /\ At("embed")
    /\ \/ Fail
       \/ search' = [search EXCEPT !.pc = IF store = "sqlite" THEN "rank" ELSE "vectors"]
    /\ UNCHANGED <<store, shelf, uploads, bounds, past>>

(* SQLite: rows of another model are left out; with none left the search   *)
(* fails (ErrEmbeddingMismatch).                                           *)
RankSearch ==
    /\ At("rank")
    /\ LET rows == Compatible(search.rows)
       IN  IF rows = {} THEN Fail
           ELSE \E vector \in UNION {Orders(S) : S \in SUBSET rows},
                   keyword \in Orders(Matching(rows)) :
               \E results \in Rankings(search.mode, vector, keyword, search.top) :
                    search' = [search EXCEPT !.pc = "done", !.vector = vector, !.keyword = keyword,
                                             !.results = results]
    /\ UNCHANGED <<store, shelf, uploads, bounds, past>>

(* A query's first rows; the HNSW index may also overlook some. *)
Taken(rows) == {ranking \in UNION {Orders(S) : S \in SUBSET rows} : Len(ranking) <= Limit}

(* PostgreSQL: the vector candidates, of the running model only. *)
SearchVectorCandidates ==
    /\ At("vectors")
    /\ \/ Fail
       \/ \E vector \in Taken(Compatible(Readable)) :
             IF search.mode = "vector"
             THEN \E results \in Rankings("vector", vector, <<>>, search.top) :
                      search' = [search EXCEPT !.pc = "done", !.vector = vector, !.results = results]
             ELSE search' = [search EXCEPT !.pc = "terms", !.vector = vector]
    /\ UNCHANGED <<store, shelf, uploads, bounds, past>>

(* PostgreSQL: the keyword candidates, of any model, in a second query;    *)
(* then both are fused.                                                    *)
SearchKeywordCandidates ==
    /\ At("terms")
    /\ \/ Fail
       \/ LET rows == Matching(Readable)
              most == IF Cardinality(rows) < Limit THEN Cardinality(rows) ELSE Limit
          IN  \E keyword \in {r \in Taken(rows) : Len(r) = most} :
              \E results \in Rankings(search.mode, search.vector, keyword, search.top) :
                  search' = [search EXCEPT !.pc = "done", !.keyword = keyword, !.results = results]
    /\ UNCHANGED <<store, shelf, uploads, bounds, past>>

-----------------------------------------------------------------------------
(* Meanwhile *)

Change(d, versions) ==
    /\ search.pc \notin {"idle", "done", "failed"} /\ uploads < bounds.changes
    /\ shelf' = [shelf EXCEPT ![d] = versions]
    /\ uploads' = uploads + 1
    /\ past' = past \cup {shelf'}
    /\ UNCHANGED <<store, bounds, search>>

(* A blank text has no chunk and is refused. *)
Upload(d) ==
    \E text \in Revisions, open \in BOOLEAN :
        /\ ChunkText(text) # <<>>
        /\ Change(d, Append(shelf[d], Version(uploads + 3, text, "running", open)))

Delete(d) == \E i \in DOMAIN shelf[d] : Change(d, RemoveAt(shelf[d], i))

-----------------------------------------------------------------------------
SearchInit ==
    /\ store \in {"sqlite", "postgres"}
    /\ \E scenario \in Scenarios :
           /\ shelf = scenario.shelf
           /\ bounds = [modes |-> scenario.modes, changes |-> scenario.changes]
    /\ uploads = 0
    /\ search = Idle
    /\ past = {}

SearchNext ==
    \/ Start \/ ListChunks \/ EmbedQuery \/ RankSearch
    \/ SearchVectorCandidates \/ SearchKeywordCandidates
    \/ \E d \in Doc : Upload(d) \/ Delete(d)

SearchSpec == SearchInit /\ [][SearchNext]_searchvars

-----------------------------------------------------------------------------
(* Properties *)

(***************************************************************************)
(* Cutting a text loses nothing: every rune that is not blank lies in a    *)
(* chunk of its document, whatever boundaries the text offers, so what a   *)
(* user uploaded can be found.                                             *)
(***************************************************************************)
EveryRuneIsIndexed ==
    \A d \in Doc : \A n \in DOMAIN shelf[d] :
        LET text == shelf[d][n].text
            chunks == shelf[d][n].chunks
        IN  \A i \in DOMAIN text : text[i] \notin Blank =>
                \E c \in DOMAIN chunks :
                    /\ chunks[c].from < i /\ i <= chunks[c].to
                    /\ chunks[c].to - chunks[c].from <= MaxRunes

(***************************************************************************)
(* A finished search answers from what the searcher could read while it    *)
(* ran: every result belongs to a version that was then the newest of its  *)
(* document and open to the searcher.  On SQLite all results come from one *)
(* moment, so that an answer never quotes two versions of a document; the  *)
(* two queries of PostgreSQL promise this only of each result by itself.   *)
(***************************************************************************)
NewestAt(shelves, c) ==
    shelves[c.doc] # <<>> /\ Last(shelves[c.doc]).id = c.version /\ Last(shelves[c.doc]).open

ServedWasCurrent ==
    LET results == Range(search.results)
    IN  IF store = "sqlite"
        THEN results # {} => \E moment \in past : \A c \in results : NewestAt(moment, c)
        ELSE \A c \in results : \E moment \in past : NewestAt(moment, c)

(***************************************************************************)
(* A chunk that both channels found comes before every chunk that only one *)
(* of them found, on either store and however low its two ranks are: the   *)
(* constant of the fusion outweighs the number of candidates.              *)
(***************************************************************************)
InBoth(c) ==
    /\ RankIn(search.vector, c) \in 1..Limit
    /\ RankIn(search.keyword, c) \in 1..Limit

TwoChannelsFirst ==
    search.mode = "hybrid" =>
        \A i, j \in DOMAIN search.results :
            InBoth(search.results[j]) /\ ~InBoth(search.results[i]) => j < i
=============================================================================
