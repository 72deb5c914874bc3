----------------------- MODULE KnowledgeVersions_proofs -----------------------
(***************************************************************************)
(* Proofs about the versions of a document, for any number of contents,    *)
(* workers, deletions and faults, and any interleaving of their statements.*)
(***************************************************************************)
EXTENDS KnowledgeVersions, WellFoundedInduction, TLAPS

Numbered(w) == worker[w].at \in {"numbered", "demoting"}

Version(i) == documents[i].version

(* The rows: every one was stored, and the unique index over the versions. *)
Rows ==
    /\ \A i \in DOMAIN documents :
          Version(i) <= i /\ documents[i].content \in stored
    /\ \A i, j \in Live : Version(i) = Version(j) => i = j

Uploads ==
    \A w \in Workers :
        /\ worker[w].at # "idle" => worker[w].content \in Contents
        /\ worker[w].at = "stored" => worker[w].content \in stored
        /\ Numbered(w) => worker[w].version <= Len(documents) + 1

\* Nobody takes a row away that a deletion holds.
Deletions == \A i \in Ids : Locked(i) => i \in Live

(* While deletions and other transactions keep apart: one deletion at a    *)
(* time, or one numbered upload.                                           *)
Apart ==
    /\ \A i, j \in OpenDeletions : i = j
    /\ OpenDeletions # {} => mutex = None

\* What an upload has read is still so: its number is the next one, and the
\* rows it will demote are those that are served.
Foresight ==
    \A w \in Workers :
        /\ Numbered(w) => \A i \in Live : Version(i) < worker[w].version
        /\ worker[w].at = "demoting" => worker[w].demote = Latest

\* What a deletion has read is still so: whether its row is the latest, and
\* which is the newest of the others.
Succession ==
    \A i \in OpenDeletions :
        /\ deleting[i].latest = documents[i].latest
        /\ deleting[i].at = "promoting" =>
              /\ documents[i].latest
              /\ deleting[i].heir \in Live \ {i}
              /\ \A j \in Live \ {i} : Version(j) <= Version(deleting[i].heir)

(***************************************************************************)
(* The inductive invariant.  NewestIsServed needs that what a transaction  *)
(* has read at its start still holds when it writes.                       *)
(***************************************************************************)
Unraced == ~raced => NewestIsServed /\ Apart /\ Foresight /\ Succession

IInv ==
    /\ TypeOK /\ Rows /\ Uploads /\ Deletions
    /\ CompletedWasStored
    /\ Unraced
USE KnowledgeAssumption

WorkerRecord == [at : {"idle", "locking", "numbered", "demoting", "stored"},
                 content : Contents \cup {None}, version : Nat, demote : SUBSET Ids]

DeletionRecord == [at : {"none", "found", "promoting"}, latest : BOOLEAN,
                   heir : Ids \cup {0}]

------------------------------------------------------------------------------
(* Greatest elements.                                                      *)

(* A set of numbers that is not empty and has a bound has a greatest.      *)
LEMMA Greatest ==
    ASSUME NEW S \in SUBSET Nat, S # {}, NEW b \in Nat, \A x \in S : x <= b
    PROVE  \E m \in S : \A x \in S : x <= m
<1> DEFINE T == {n \in Nat : \A x \in S : x <= n}
           less == OpToRel(<, Nat)
<1>1. b \in T /\ T \subseteq Nat
  OBVIOUS
<1>2. IsWellFoundedOn(less, Nat)
  BY NatLessThanWellFounded
<1>3. \A x, y \in Nat : x < y => <<x, y>> \in less
  BY DEF OpToRel
<1> HIDE DEF less, T
<1>4. PICK m \in T : \A y \in T : ~ (<<y, m>> \in less)
  BY <1>1, <1>2, WFMin
<1>5. m \in Nat /\ \A x \in S : x <= m
  BY <1>4 DEF T
<1>6. m \in S
  <2> SUFFICES ASSUME m \notin S PROVE FALSE
    OBVIOUS
  <2>1. \A x \in S : x < m
    BY <1>5
  <2>2. PICK y \in S : y \in Nat /\ y < m
    BY <2>1
  <2>3. m - 1 \in Nat /\ m - 1 < m
    BY <1>5, <2>2
  <2>4. \A x \in S : x <= m - 1
    BY <1>5, <2>1
  <2>5. m - 1 \in T
    BY <2>3, <2>4 DEF T
  <2>6. <<m - 1, m>> \in less
    BY <1>3, <1>5, <2>3
  <2> QED
    BY <1>4, <2>5, <2>6
<1> QED
  BY <1>5, <1>6

LEMMA MaxBounds ==
    ASSUME NEW S \in SUBSET Nat, S # {}, NEW b \in Nat, \A x \in S : x <= b
    PROVE  Max(S) \in S /\ \A x \in S : x <= Max(S)
<1>1. \E m \in S : \A x \in S : m >= x
  BY Greatest
<1>2. Max(S) \in S /\ \A x \in S : Max(S) >= x
  BY <1>1 DEF Max
<1> QED
  BY <1>2

------------------------------------------------------------------------------
(* The rows.                                                               *)

LEMMA FunctionIsSequence ==
    ASSUME NEW S, NEW n \in Nat, NEW f \in [1..n -> S]
    PROVE  f \in Seq(S) /\ Len(f) = n /\ DOMAIN f = 1..n
OBVIOUS

LEMMA Documents ==
    ASSUME TypeOK
    PROVE  /\ Len(documents) \in Nat /\ DOMAIN documents = 1..Len(documents)
           /\ DOMAIN documents \subseteq Ids
           /\ \A i \in DOMAIN documents : documents[i] \in Document
           /\ Live \subseteq DOMAIN documents /\ Live \subseteq Ids
           /\ \A i \in Live : Version(i) \in Nat
<1>1. documents \in Seq(Document) /\ Len(documents) <= MaxDocuments
  BY DEF TypeOK
<1>2. Len(documents) \in Nat /\ DOMAIN documents = 1..Len(documents)
      /\ \A i \in DOMAIN documents : documents[i] \in Document
  BY <1>1
<1>3. DOMAIN documents \subseteq Ids
  BY <1>1, <1>2 DEF Ids
<1> QED
  BY <1>2, <1>3 DEF Live, Version, Document

LEMMA NextVersionTops ==
    ASSUME TypeOK, Rows
    PROVE  /\ NextVersion \in Nat /\ NextVersion <= Len(documents) + 1
           /\ \A i \in Live : Version(i) < NextVersion
<1> DEFINE versions == {documents[i].version : i \in Live}
           S == {0} \cup versions
           n == Len(documents)
<1>1. n \in Nat /\ \A i \in Live : Version(i) \in Nat /\ Version(i) <= n
  BY Documents DEF Rows
<1>2. \A x \in versions : x \in Nat /\ x <= n
  BY <1>1 DEF Version
<1>3. \A i \in Live : Version(i) \in S
  BY DEF Version
<1>4. NextVersion = Max(S) + 1
  BY DEF NextVersion
<1> HIDE DEF versions, n
<1>5. S \in SUBSET Nat /\ S # {} /\ \A x \in S : x <= n
  BY <1>1, <1>2
<1> HIDE DEF S
<1>6. Max(S) \in S /\ \A x \in S : x <= Max(S)
  BY <1>1, <1>5, MaxBounds
<1>7. Max(S) \in Nat /\ Max(S) <= n
  BY <1>5, <1>6
<1>8. \A i \in Live : Version(i) <= Max(S)
  BY <1>3, <1>6
<1> QED
  BY <1>1, <1>4, <1>7, <1>8 DEF n

LEMMA NewestTops ==
    ASSUME TypeOK, Rows, NEW ids \in SUBSET Live, ids # {}
    PROVE  Newest(ids) \in ids /\ \A j \in ids : Version(j) <= Version(Newest(ids))
<1> DEFINE S == {Version(i) : i \in ids}
<1>1. \A i \in ids : Version(i) \in Nat /\ Version(i) <= Len(documents)
  BY Documents DEF Rows
<1>2. S \in SUBSET Nat /\ S # {} /\ \A x \in S : x <= Len(documents)
  BY <1>1
<1>3. Len(documents) \in Nat
  BY Documents
<1>4. PICK m \in S : \A x \in S : x <= m
  BY <1>2, <1>3, Greatest
<1>5. \E i \in ids : \A j \in ids : documents[j].version <= documents[i].version
  BY <1>4 DEF Version
<1> QED
  BY <1>5 DEF Newest, Version

LEMMA SameRows ==
    ASSUME UNCHANGED documents
    PROVE  /\ Live' = Live /\ Latest' = Latest
           /\ \A i : Version(i)' = Version(i)
           /\ NewestIsServed /\ (raced => raced') => NewestIsServed'
BY DEF Live, Latest, Version, NewestIsServed

------------------------------------------------------------------------------
(* Steps of a worker.                                                      *)

(* A worker goes on, and no row, deletion or history with it.              *)
LEMMA WorkerMoves ==
    ASSUME IInv, NEW w \in Workers, NEW new \in WorkerRecord,
           worker' = [worker EXCEPT ![w] = new],
           UNCHANGED <<documents, deleting, asked, stored>>,
           faults' \in 0..MaxFaults, raced' \in BOOLEAN,
           job' \in [Contents -> {"none", "queued", "completed", "failed"}],
           \A c \in Contents : job'[c] = "completed" => c \in stored,
           mutex' \in Workers \cup {None},
           mutex' = w <=> new.at \in {"numbered", "demoting"},
           \A v \in Workers \ {w} : mutex' = v <=> mutex = v,
           new.at # "idle" => new.content \in Contents,
           new.at = "stored" => new.content \in stored,
           new.at \in {"numbered", "demoting"} => new.version <= Len(documents) + 1
    PROVE  /\ TypeOK' /\ Rows' /\ Uploads' /\ Deletions' /\ CompletedWasStored'
           /\ worker'[w] = new /\ \A v \in Workers \ {w} : worker'[v] = worker[v]
<1>1. worker \in [Workers -> WorkerRecord]
  BY DEF IInv, TypeOK, WorkerRecord
<1>2. /\ worker' \in [Workers -> WorkerRecord] /\ worker'[w] = new
      /\ \A v \in Workers \ {w} : worker'[v] = worker[v]
  BY <1>1
<1>3. TypeOK'
  <2>1. \A v \in Workers : mutex' = v <=> worker'[v].at \in {"numbered", "demoting"}
    BY <1>2 DEF IInv, TypeOK
  <2> QED
    BY <1>2, <2>1 DEF IInv, TypeOK, WorkerRecord, Ids, Document
<1>4. Rows'
  BY SameRows DEF IInv, Rows, Version
<1>5. Uploads'
  BY <1>2 DEF IInv, Uploads, Numbered
<1>6. Deletions'
  BY SameRows DEF IInv, Deletions, Locked
<1>7. CompletedWasStored'
  BY DEF CompletedWasStored
<1> QED
  BY <1>2, <1>3, <1>4, <1>5, <1>6, <1>7

LEMMA WorkerForesees ==
    ASSUME IInv, NEW w \in Workers, raced => raced',
           \A v \in Workers \ {w} : worker'[v] = worker[v],
           UNCHANGED <<documents, deleting>>,
           ~raced' => (OpenDeletions # {} => mutex' = None),
           ~raced' /\ Numbered(w)' => \A i \in Live : Version(i) < worker'[w].version,
           ~raced' /\ worker'[w].at = "demoting" => worker'[w].demote = Latest
    PROVE  Unraced'
<1> SUFFICES ASSUME ~raced'
             PROVE  NewestIsServed' /\ Apart' /\ Foresight' /\ Succession'
  BY DEF Unraced
<1>1. NewestIsServed /\ Apart /\ Foresight /\ Succession
  BY DEF IInv, Unraced
<1>2. OpenDeletions' = OpenDeletions /\ Live' = Live /\ Latest' = Latest
      /\ \A i : Version(i)' = Version(i)
  BY SameRows DEF OpenDeletions, Locked
<1>3. NewestIsServed'
  BY <1>1, SameRows
<1>4. Apart'
  BY <1>1, <1>2 DEF Apart
<1>5. Foresight'
  <2> SUFFICES ASSUME NEW v \in Workers
               PROVE  /\ Numbered(v)' => \A i \in Live : Version(i) < worker'[v].version
                      /\ worker'[v].at = "demoting" => worker'[v].demote = Latest
    BY <1>2 DEF Foresight
  <2>1. CASE v = w
    BY <2>1
  <2>2. CASE v # w
    BY <1>1, <2>2 DEF Foresight, Numbered
  <2> QED
    BY <2>1, <2>2
<1>6. Succession'
  BY <1>1, <1>2 DEF Succession, Version
<1> QED
  BY <1>3, <1>4, <1>5, <1>6

LEMMA IngestKeeps ==
    ASSUME IInv, NEW w \in Workers, NEW c \in Contents, Ingest(w, c)
    PROVE  IInv'
<1> DEFINE new == [Idle EXCEPT !.at = IF Holding(c) # {} THEN "stored" ELSE "locking",
                               !.content = c]
<1>1. new \in WorkerRecord /\ new.at \in {"stored", "locking"} /\ new.content = c
      /\ (new.at = "stored" => Holding(c) # {})
  BY DEF Idle, WorkerRecord
<1>2. worker' = [worker EXCEPT ![w] = new] /\ worker[w].at = "idle"
      /\ UNCHANGED <<documents, job, deleting, mutex, asked, faults, stored, raced>>
  BY DEF Ingest
<1> HIDE DEF new
<1>3. new.at = "stored" => c \in stored
  <2>1. \A i \in Live : documents[i].content \in stored
    BY DEF IInv, Rows, Live
  <2> QED
    BY <1>1, <2>1 DEF Holding
<1>4. /\ mutex' \in Workers \cup {None} /\ mutex' # w
      /\ faults' \in 0..MaxFaults /\ raced' \in BOOLEAN
      /\ job' \in [Contents -> {"none", "queued", "completed", "failed"}]
      /\ \A d \in Contents : job'[d] = "completed" => d \in stored
  BY <1>2 DEF IInv, TypeOK, CompletedWasStored
<1>5. /\ TypeOK' /\ Rows' /\ Uploads' /\ Deletions' /\ CompletedWasStored'
      /\ worker'[w] = new /\ \A v \in Workers \ {w} : worker'[v] = worker[v]
  BY <1>1, <1>2, <1>3, <1>4, WorkerMoves
<1>6. ~Numbered(w)'
  BY <1>1, <1>5 DEF Numbered
<1>7. ~raced' => (OpenDeletions # {} => mutex' = None)
  BY <1>2 DEF IInv, Unraced, Apart
<1>8. Unraced'
  BY <1>2, <1>5, <1>6, <1>7, WorkerForesees DEF Numbered
<1> QED
  BY <1>5, <1>8 DEF IInv

LEMMA LockKeeps ==
    ASSUME IInv, NEW w \in Workers, LockVersionGroup(w)
    PROVE  IInv'
<1> DEFINE n == NextVersion
           new == [worker[w] EXCEPT !.at = "numbered", !.version = n]
<1>1. n \in Nat /\ n <= Len(documents) + 1 /\ \A i \in Live : Version(i) < n
  BY NextVersionTops DEF IInv
<1>2. /\ worker[w].at = "locking" /\ mutex = None /\ mutex' = w
      /\ worker' = [worker EXCEPT ![w].at = "numbered", ![w].version = n]
      /\ raced' = (raced \/ OpenDeletions # {})
      /\ UNCHANGED <<documents, job, deleting, asked, faults, stored>>
  BY DEF LockVersionGroup
<1>3. worker \in [Workers -> WorkerRecord] /\ worker[w] \in WorkerRecord
  BY DEF IInv, TypeOK, WorkerRecord
<1> HIDE DEF n
<1>4. worker' = [worker EXCEPT ![w] = new]
  BY <1>2, <1>3 DEF WorkerRecord
<1>5. new \in WorkerRecord /\ new.at = "numbered" /\ new.version = n
      /\ new.content = worker[w].content
  BY <1>1, <1>3 DEF WorkerRecord
<1>6. new.content \in Contents
  BY <1>2, <1>5 DEF IInv, Uploads
<1> HIDE DEF new
<1>7. /\ mutex' \in Workers \cup {None} /\ \A v \in Workers \ {w} : mutex' = v <=> mutex = v
      /\ faults' \in 0..MaxFaults /\ raced' \in BOOLEAN
      /\ job' \in [Contents -> {"none", "queued", "completed", "failed"}]
      /\ \A d \in Contents : job'[d] = "completed" => d \in stored
  BY <1>2 DEF IInv, TypeOK, CompletedWasStored
<1>8. /\ TypeOK' /\ Rows' /\ Uploads' /\ Deletions' /\ CompletedWasStored'
      /\ worker'[w] = new /\ \A v \in Workers \ {w} : worker'[v] = worker[v]
  BY <1>1, <1>2, <1>4, <1>5, <1>6, <1>7, WorkerMoves
<1>9. \A i \in Live : Version(i) < worker'[w].version
  BY <1>1, <1>5, <1>8
<1>10. ~raced' => OpenDeletions = {}
  BY <1>2
<1>11. Unraced'
  BY <1>2, <1>5, <1>8, <1>9, <1>10, WorkerForesees
<1> QED
  BY <1>8, <1>11 DEF IInv

LEMMA DemoteKeeps ==
    ASSUME IInv, NEW w \in Workers, DemoteLatest(w)
    PROVE  IInv'
<1> DEFINE rows == Latest
           new == [worker[w] EXCEPT !.at = "demoting", !.demote = rows]
<1>1. rows \in SUBSET Ids
  BY Documents DEF IInv, Latest
<1>2. /\ worker[w].at = "numbered"
      /\ worker' = [worker EXCEPT ![w].at = "demoting", ![w].demote = rows]
      /\ UNCHANGED <<documents, job, deleting, mutex, asked, faults, stored, raced>>
  BY DEF DemoteLatest
<1>3. worker \in [Workers -> WorkerRecord] /\ worker[w] \in WorkerRecord
  BY DEF IInv, TypeOK, WorkerRecord
<1> HIDE DEF rows
<1>4. worker' = [worker EXCEPT ![w] = new]
  BY <1>2, <1>3 DEF WorkerRecord
<1>5. new \in WorkerRecord /\ new.at = "demoting" /\ new.version = worker[w].version
      /\ new.content = worker[w].content /\ new.demote = rows
  BY <1>1, <1>3 DEF WorkerRecord
<1>6. new.content \in Contents /\ new.version <= Len(documents) + 1
  BY <1>2, <1>5 DEF IInv, Uploads, Numbered
<1> HIDE DEF new
<1>7. /\ mutex' \in Workers \cup {None} /\ mutex' = w
      /\ \A v \in Workers \ {w} : mutex' = v <=> mutex = v
      /\ faults' \in 0..MaxFaults /\ raced' \in BOOLEAN
      /\ job' \in [Contents -> {"none", "queued", "completed", "failed"}]
      /\ \A d \in Contents : job'[d] = "completed" => d \in stored
  BY <1>2 DEF IInv, TypeOK, CompletedWasStored
<1>8. /\ TypeOK' /\ Rows' /\ Uploads' /\ Deletions' /\ CompletedWasStored'
      /\ worker'[w] = new /\ \A v \in Workers \ {w} : worker'[v] = worker[v]
  BY <1>2, <1>4, <1>5, <1>6, <1>7, WorkerMoves
<1>9. ~raced' => /\ \A i \in Live : Version(i) < worker'[w].version
                 /\ OpenDeletions # {} => mutex' = None
  BY <1>2, <1>5, <1>8 DEF IInv, Unraced, Foresight, Apart, Numbered
<1>10. worker'[w].demote = Latest
  BY <1>5, <1>8 DEF rows
<1>11. Unraced'
  BY <1>2, <1>8, <1>9, <1>10, WorkerForesees
<1> QED
  BY <1>8, <1>11 DEF IInv

\* An attempt that failed, and one whose job is done.
LEMMA LeavingKeeps ==
    ASSUME IInv, NEW w \in Workers, worker[w].at # "idle",
           worker' = [worker EXCEPT ![w] = Idle],
           UNCHANGED <<documents, deleting, asked, stored, raced>>,
           faults' \in 0..MaxFaults, Released(w),
           \/ UNCHANGED job
           \/ \E s \in {"failed", "completed"} :
                 /\ job' = [job EXCEPT ![worker[w].content] = s]
                 /\ s = "completed" => worker[w].at = "stored"
    PROVE  IInv'
<1> DEFINE c == worker[w].content
<1>1. c \in Contents /\ (worker[w].at = "stored" => c \in stored)
  BY DEF IInv, Uploads
<1>2. Idle \in WorkerRecord /\ Idle.at = "idle"
  BY DEF Idle, WorkerRecord
<1>3. /\ job' \in [Contents -> {"none", "queued", "completed", "failed"}]
      /\ \A d \in Contents : job'[d] = "completed" => d \in stored
  <2>1. job \in [Contents -> {"none", "queued", "completed", "failed"}]
        /\ \A d \in Contents : job[d] = "completed" => d \in stored
    BY DEF IInv, TypeOK, CompletedWasStored
  <2>2. CASE UNCHANGED job
    BY <2>1, <2>2
  <2>3. CASE \E s \in {"failed", "completed"} :
                /\ job' = [job EXCEPT ![c] = s]
                /\ s = "completed" => worker[w].at = "stored"
    BY <1>1, <2>1, <2>3
  <2> QED
    BY <2>2, <2>3
<1>4. /\ mutex' \in Workers \cup {None} /\ mutex' # w
      /\ \A v \in Workers \ {w} : mutex' = v <=> mutex = v
      /\ raced' \in BOOLEAN /\ (mutex = None => mutex' = None)
  BY DEF Released, IInv, TypeOK
<1>5. /\ TypeOK' /\ Rows' /\ Uploads' /\ Deletions' /\ CompletedWasStored'
      /\ worker'[w] = Idle /\ \A v \in Workers \ {w} : worker'[v] = worker[v]
  BY <1>2, <1>3, <1>4, WorkerMoves
<1>6. ~Numbered(w)' /\ worker'[w].at # "demoting"
  BY <1>2, <1>5 DEF Numbered
<1>7. ~raced' => (OpenDeletions # {} => mutex' = None)
  BY <1>4 DEF IInv, Unraced, Apart
<1>8. Unraced'
  BY <1>5, <1>6, <1>7, WorkerForesees
<1> QED
  BY <1>5, <1>8 DEF IInv

(* The new version is appended, and those that were served are served no   *)
(* more.                                                                   *)
LEMMA CommitRows ==
    ASSUME IInv, NEW w \in Workers, CommitDocument(w), NEW n, n = Len(documents)
    PROVE  /\ n \in Nat /\ n + 1 <= MaxDocuments
           /\ documents' \in Seq(Document) /\ Len(documents') = n + 1
           /\ documents'[n + 1] = [live |-> TRUE, content |-> worker[w].content,
                                   version |-> worker[w].version, latest |-> TRUE]
           /\ \A i \in 1..n :
                /\ documents'[i].live = documents[i].live
                /\ documents'[i].content = documents[i].content
                /\ documents'[i].version = documents[i].version
                /\ documents'[i].latest
                     <=> documents[i].latest /\ i \notin worker[w].demote \cap Latest
<1> DEFINE kept == Demoted(w)
           row == [live |-> TRUE, content |-> worker[w].content,
                   version |-> worker[w].version, latest |-> TRUE]
<1>1. n \in Nat /\ DOMAIN documents = 1..n /\ \A i \in 1..n : documents[i] \in Document
  BY Documents DEF IInv
<1>2. documents' = Append(kept, row) /\ n < MaxDocuments /\ worker[w].at = "demoting"
  BY DEF CommitDocument
<1>3. row \in Document
  <2>1. worker[w].content \in Contents /\ worker[w].version \in Nat
    BY <1>2 DEF IInv, Uploads, TypeOK
  <2> QED
    BY <2>1 DEF Document
<1>4. kept = [i \in 1..n |-> IF i \in worker[w].demote \cap Latest
                             THEN [documents[i] EXCEPT !.latest = FALSE] ELSE documents[i]]
  BY <1>1 DEF Demoted
<1>5. \A i \in 1..n :
        /\ kept[i] \in Document
        /\ kept[i].live = documents[i].live /\ kept[i].content = documents[i].content
        /\ kept[i].version = documents[i].version
        /\ kept[i].latest <=> documents[i].latest /\ i \notin worker[w].demote \cap Latest
  <2> SUFFICES ASSUME NEW i \in 1..n
               PROVE  /\ kept[i] \in Document
                      /\ kept[i].live = documents[i].live
                      /\ kept[i].content = documents[i].content
                      /\ kept[i].version = documents[i].version
                      /\ kept[i].latest
                           <=> documents[i].latest /\ i \notin worker[w].demote \cap Latest
    OBVIOUS
  <2>1. documents[i] \in Document
    BY <1>1
  <2>2. kept[i] = IF i \in worker[w].demote \cap Latest
                  THEN [documents[i] EXCEPT !.latest = FALSE] ELSE documents[i]
    BY <1>4
  <2> HIDE DEF kept
  <2> QED
    BY <2>1, <2>2 DEF Document
<1> HIDE DEF kept, row
<1>6. kept \in Seq(Document) /\ Len(kept) = n
  <2>1. kept \in [1..n -> Document]
    BY <1>4, <1>5
  <2> QED
    BY <1>1, <2>1, FunctionIsSequence
<1>7. /\ documents' \in Seq(Document) /\ Len(documents') = n + 1 /\ documents'[n + 1] = row
      /\ \A i \in 1..n : documents'[i] = kept[i]
  BY <1>1, <1>2, <1>3, <1>6
<1>8. \A i \in 1..n :
        /\ documents'[i].live = documents[i].live
        /\ documents'[i].content = documents[i].content
        /\ documents'[i].version = documents[i].version
        /\ documents'[i].latest
             <=> documents[i].latest /\ i \notin worker[w].demote \cap Latest
  BY <1>5, <1>7
<1>9. n + 1 <= MaxDocuments
  BY <1>1, <1>2
<1> QED
  BY <1>1, <1>7, <1>8, <1>9 DEF row

LEMMA CommitKeeps ==
    ASSUME IInv, NEW w \in Workers, CommitDocument(w)
    PROVE  IInv'
<1> USE DEF Version
<1> DEFINE n == Len(documents)
           c == worker[w].content
           v == worker[w].version
<1>1. /\ n \in Nat /\ n + 1 <= MaxDocuments
      /\ documents' \in Seq(Document) /\ Len(documents') = n + 1
      /\ documents'[n + 1].live /\ documents'[n + 1].latest
      /\ documents'[n + 1].content = c /\ documents'[n + 1].version = v
      /\ \A i \in 1..n :
           /\ documents'[i].live = documents[i].live
           /\ documents'[i].content = documents[i].content
           /\ documents'[i].version = documents[i].version
           /\ documents'[i].latest
                <=> documents[i].latest /\ i \notin worker[w].demote \cap Latest
  <2>1. documents'[n + 1] = [live |-> TRUE, content |-> worker[w].content,
                             version |-> worker[w].version, latest |-> TRUE]
    BY CommitRows
  <2>2. /\ n \in Nat /\ n + 1 <= MaxDocuments
        /\ documents' \in Seq(Document) /\ Len(documents') = n + 1
        /\ \A i \in 1..n :
             /\ documents'[i].live = documents[i].live
             /\ documents'[i].content = documents[i].content
             /\ documents'[i].version = documents[i].version
             /\ documents'[i].latest
                  <=> documents[i].latest /\ i \notin worker[w].demote \cap Latest
    BY CommitRows
  <2> QED
    BY <2>1, <2>2
<1>2. /\ worker[w].at = "demoting" /\ Conflicts(w) = {} /\ stored' = stored \cup {c}
      /\ mutex' = None /\ Goto(w, "stored")
      /\ UNCHANGED <<job, deleting, asked, faults, raced>>
  BY DEF CommitDocument
<1>3. worker \in [Workers -> WorkerRecord] /\ worker[w] \in WorkerRecord
  BY DEF IInv, TypeOK, WorkerRecord
<1>4. /\ c \in Contents /\ v \in Nat /\ v <= n + 1
  BY <1>2, <1>3 DEF IInv, Uploads, Numbered, WorkerRecord
<1> HIDE DEF n
<1>5. DOMAIN documents = 1..n /\ DOMAIN documents' = 1..n \cup {n + 1} /\ n + 1 \notin 1..n
  BY <1>1, Documents DEF IInv, n
<1> HIDE DEF c, v
<1>6. /\ Live' = Live \cup {n + 1} /\ n + 1 \notin Live
      /\ documents'[n + 1].version = v /\ \A i \in Live : Version(i)' = Version(i)
      /\ Latest' = (Latest \ worker[w].demote) \cup {n + 1}
  <2>1. Live' = Live \cup {n + 1} /\ n + 1 \notin Live
    BY <1>1, <1>5 DEF Live
  <2>2. documents'[n + 1].version = v /\ \A i \in 1..n : Version(i)' = Version(i)
    BY <1>1 DEF Version
  <2>3. Live \subseteq 1..n
    BY <1>5 DEF Live
  <2>4. ASSUME NEW i \in Live
        PROVE  i \in Latest' <=> i \in Latest \ worker[w].demote
    BY <1>1, <2>1, <2>3 DEF Latest
  <2>5. n + 1 \in Latest' /\ Latest' \subseteq Live' /\ Latest \subseteq Live
    BY <1>1, <2>1 DEF Latest
  <2>6. Latest' = (Latest \ worker[w].demote) \cup {n + 1}
    BY <2>1, <2>4, <2>5
  <2> QED
    BY <2>1, <2>2, <2>3, <2>6
<1>7. \A i \in Live : Version(i) # v /\ Version(i) \in Nat
  BY <1>2, Documents DEF Conflicts, IInv, Version, v
<1>8. /\ worker' \in [Workers -> WorkerRecord] /\ worker'[w].at = "stored"
      /\ worker'[w].content = c /\ \A u \in Workers \ {w} : worker'[u] = worker[u]
  BY <1>2, <1>3 DEF Goto, WorkerRecord, c
<1>9. /\ \A u \in Workers : ~Numbered(u)'
      /\ OpenDeletions' = OpenDeletions
      /\ ~raced => OpenDeletions = {}
  <2>1. mutex = w /\ mutex # None
    BY <1>2, KnowledgeAssumption DEF IInv, TypeOK
  <2>2. \A u \in Workers \ {w} : ~Numbered(u)
    BY <2>1 DEF IInv, TypeOK, Numbered
  <2> QED
    BY <1>2, <1>8, <2>1, <2>2 DEF Numbered, OpenDeletions, Locked, IInv, Unraced, Apart
<1>10. TypeOK'
  <2>1. documents' \in Seq(Document) /\ Len(documents') <= MaxDocuments
    BY <1>1
  <2>2. \A u \in Workers : mutex' = u <=> worker'[u].at \in {"numbered", "demoting"}
    BY <1>2, <1>9, KnowledgeAssumption DEF Numbered
  <2> QED
    BY <1>2, <1>4, <1>8, <2>1, <2>2 DEF IInv, TypeOK, WorkerRecord
<1>11. Rows'
  <2>1. \A i \in DOMAIN documents' : Version(i)' <= i /\ documents'[i].content \in stored'
    <3>1. \A i \in 1..n : Version(i)' <= i /\ documents'[i].content \in stored'
      BY <1>1, <1>2, <1>5 DEF IInv, Rows, Version
    <3>2. documents'[n + 1].version <= n + 1 /\ documents'[n + 1].content \in stored'
      BY <1>1, <1>2, <1>4, <1>6
    <3>3. \A i \in 1..n \cup {n + 1} : Version(i)' <= i /\ documents'[i].content \in stored'
      BY <3>1, <3>2
    <3> QED
      BY <1>5, <3>3
  <2>2. ASSUME NEW i \in Live', NEW j \in Live', Version(i)' = Version(j)'
        PROVE  i = j
    <3>1. CASE i \in Live /\ j \in Live
      BY <1>6, <2>2, <3>1 DEF IInv, Rows
    <3>2. CASE i = n + 1 \/ j = n + 1
      BY <1>6, <1>7, <2>2, <3>2
    <3> QED
      BY <1>6, <3>1, <3>2
  <2> QED
    BY <2>1, <2>2 DEF Rows
<1>12. Uploads'
  BY <1>2, <1>4, <1>8, <1>9 DEF IInv, Uploads
<1>13. Deletions'
  BY <1>2, <1>6 DEF IInv, Deletions, Locked
<1>14. CompletedWasStored'
  BY <1>2 DEF IInv, CompletedWasStored
<1>15. Unraced'
  <2> SUFFICES ASSUME ~raced'
               PROVE  NewestIsServed' /\ Apart' /\ Foresight' /\ Succession'
    BY DEF Unraced
  <2>1. NewestIsServed /\ Foresight /\ OpenDeletions = {}
    BY <1>2, <1>9 DEF IInv, Unraced
  <2>2. Latest' = {n + 1}
    BY <1>2, <1>6, <2>1 DEF Foresight
  <2>3. \A i \in Live : Version(i) < v
    BY <1>2, <2>1 DEF Foresight, Numbered, v
  <2>4. NewestIsServed'
    <3>2. \A j \in Live' : Version(j)' <= documents'[n + 1].version
      BY <1>4, <1>6, <1>7, <2>3
    <3>3. \A i \in Live : ~(documents'[n + 1].version <= Version(i)')
      BY <1>4, <1>6, <1>7, <2>3
    <3>1. {i \in Live' : \A j \in Live' : Version(j)' <= Version(i)'} = {n + 1}
      BY <1>6, <3>2, <3>3
    <3> QED
      BY <2>2, <3>1 DEF NewestIsServed, Version
  <2>5. Apart' /\ Succession'
    BY <1>2, <1>9, <2>1 DEF Apart, Succession
  <2>6. Foresight'
    BY <1>9 DEF Foresight, Numbered
  <2> QED
    BY <2>4, <2>5, <2>6
<1> QED
  BY <1>10, <1>11, <1>12, <1>13, <1>14, <1>15 DEF IInv

------------------------------------------------------------------------------
(* Steps of a deletion.                                                    *)

(* A deletion that only reads or gives up changes its own record.          *)
LEMMA DeletionMoves ==
    ASSUME IInv, NEW i \in Ids, NEW new \in DeletionRecord,
           deleting' = [deleting EXCEPT ![i] = new],
           new.at # "none" => i \in Live,
           UNCHANGED <<documents, job, worker, mutex, stored>>,
           asked' \in 0..MaxDeletions, faults' \in 0..MaxFaults, raced' \in BOOLEAN
    PROVE  /\ TypeOK' /\ Rows' /\ Uploads' /\ Deletions' /\ CompletedWasStored'
           /\ deleting'[i] = new /\ \A j \in Ids \ {i} : deleting'[j] = deleting[j]
           /\ OpenDeletions' = IF new.at = "none" THEN OpenDeletions \ {i}
                                                  ELSE OpenDeletions \cup {i}
<1>1. deleting \in [Ids -> DeletionRecord]
  BY DEF IInv, TypeOK, DeletionRecord
<1>2. /\ deleting' \in [Ids -> DeletionRecord] /\ deleting'[i] = new
      /\ \A j \in Ids \ {i} : deleting'[j] = deleting[j]
  BY <1>1
<1>3. TypeOK'
  BY <1>2 DEF IInv, TypeOK, DeletionRecord, Ids, Document
<1>4. Rows' /\ Uploads'
  BY SameRows DEF IInv, Rows, Version, Uploads, Numbered
<1>5. Deletions'
  BY <1>2, SameRows DEF IInv, Deletions, Locked
<1>6. CompletedWasStored'
  BY DEF IInv, CompletedWasStored
<1>7. OpenDeletions' = IF new.at = "none" THEN OpenDeletions \ {i} ELSE OpenDeletions \cup {i}
  BY <1>2 DEF OpenDeletions, Locked
<1> QED
  BY <1>2, <1>3, <1>4, <1>5, <1>6, <1>7

LEMMA DeletionUnraced ==
    ASSUME IInv, NEW i \in Ids, UNCHANGED <<documents, worker>>, raced => raced',
           \A j \in Ids \ {i} : deleting'[j] = deleting[j],
           ~raced' => (OpenDeletions' # {} => mutex' = None /\ OpenDeletions' \subseteq {i}),
           ~raced' /\ i \in OpenDeletions' =>
              /\ deleting'[i].latest = documents[i].latest
              /\ deleting'[i].at = "promoting" =>
                    /\ documents[i].latest
                    /\ deleting'[i].heir \in Live \ {i}
                    /\ \A j \in Live \ {i} : Version(j) <= Version(deleting'[i].heir)
    PROVE  Unraced'
<1> SUFFICES ASSUME ~raced'
             PROVE  NewestIsServed' /\ Apart' /\ Foresight' /\ Succession'
  BY DEF Unraced
<1>1. NewestIsServed /\ Apart /\ Foresight /\ Succession
  BY DEF IInv, Unraced
<1>2. Live' = Live /\ Latest' = Latest /\ \A j : Version(j)' = Version(j)
  BY SameRows
<1>3. NewestIsServed'
  BY <1>1, SameRows
<1>4. Apart'
  BY DEF Apart
<1>5. Foresight'
  BY <1>1, <1>2 DEF Foresight, Numbered
<1>6. Succession'
  BY <1>2 DEF Succession, Version
<1> QED
  BY <1>3, <1>4, <1>5, <1>6

LEMMA FindKeeps ==
    ASSUME IInv, NEW i \in Ids, FindForUpdate(i)
    PROVE  IInv'
<1> DEFINE new == [at |-> "found", latest |-> documents[i].latest, heir |-> 0]
<1>1. /\ i \in Live /\ asked' \in 0..MaxDeletions
      /\ deleting' = [deleting EXCEPT ![i] = new]
      /\ raced' = (raced \/ OpenDeletions # {} \/ mutex # None)
      /\ UNCHANGED <<documents, job, worker, mutex, faults, stored>>
  BY DEF FindForUpdate, IInv, TypeOK
<1>2. documents[i].latest \in BOOLEAN
  BY <1>1, Documents DEF IInv, Document
<1>3. new \in DeletionRecord /\ new.at = "found" /\ new.latest = documents[i].latest
  BY <1>2 DEF DeletionRecord
<1> HIDE DEF new
<1>4. faults' \in 0..MaxFaults /\ raced' \in BOOLEAN
  BY <1>1 DEF IInv, TypeOK
<1>5. /\ TypeOK' /\ Rows' /\ Uploads' /\ Deletions' /\ CompletedWasStored'
      /\ deleting'[i] = new /\ \A j \in Ids \ {i} : deleting'[j] = deleting[j]
      /\ OpenDeletions' = OpenDeletions \cup {i}
  BY <1>1, <1>3, <1>4, DeletionMoves
<1>6. Unraced'
  BY <1>1, <1>3, <1>5, DeletionUnraced
<1> QED
  BY <1>5, <1>6 DEF IInv

LEMMA RollbackKeeps ==
    ASSUME IInv, NEW i \in Ids, RollbackDelete(i), faults' \in 0..MaxFaults
    PROVE  IInv'
<1>1. /\ deleting' = [deleting EXCEPT ![i] = NotDeleting]
      /\ UNCHANGED <<documents, job, worker, mutex, asked, stored, raced>>
  BY DEF RollbackDelete
<1>2. NotDeleting \in DeletionRecord /\ NotDeleting.at = "none"
  BY DEF NotDeleting, DeletionRecord
<1>3. asked' \in 0..MaxDeletions /\ raced' \in BOOLEAN
  BY <1>1 DEF IInv, TypeOK
<1>4. /\ TypeOK' /\ Rows' /\ Uploads' /\ Deletions' /\ CompletedWasStored'
      /\ deleting'[i] = NotDeleting /\ \A j \in Ids \ {i} : deleting'[j] = deleting[j]
      /\ OpenDeletions' = OpenDeletions \ {i}
  BY <1>1, <1>2, <1>3, DeletionMoves
<1>5. ~raced' => /\ \A j, k \in OpenDeletions : j = k
                 /\ OpenDeletions # {} => mutex = None
  BY <1>1 DEF IInv, Unraced, Apart
<1>6. Unraced'
  <2> SUFFICES ASSUME ~raced'
               PROVE  NewestIsServed' /\ Apart' /\ Foresight' /\ Succession'
    BY DEF Unraced
  <2>1. NewestIsServed /\ Foresight /\ Succession
    BY <1>1 DEF IInv, Unraced
  <2>2. NewestIsServed' /\ Live' = Live /\ Latest' = Latest
        /\ \A j : Version(j)' = Version(j)
    BY <1>1, <2>1, SameRows
  <2>3. Apart'
    BY <1>1, <1>4, <1>5 DEF Apart
  <2>4. Foresight'
    BY <1>1, <2>1, <2>2 DEF Foresight, Numbered
  <2>5. Succession'
    <3>1. \A j \in OpenDeletions' : j \in OpenDeletions /\ deleting'[j] = deleting[j]
      BY <1>4 DEF OpenDeletions
    <3> QED
      BY <1>1, <2>1, <2>2, <3>1 DEF Succession, Version
  <2> QED
    BY <2>2, <2>3, <2>4, <2>5
<1> QED
  BY <1>4, <1>6 DEF IInv

\* The latest version looks for its heir.
LEMMA HeirKeeps ==
    ASSUME IInv, NEW i \in Ids, deleting[i].at = "found", deleting[i].latest,
           Live \ {i} # {},
           deleting' = [deleting EXCEPT ![i].at = "promoting",
                                        ![i].heir = Newest(Live \ {i})],
           UNCHANGED <<documents, job, worker, mutex, asked, faults, stored, raced>>
    PROVE  IInv'
<1> DEFINE h == Newest(Live \ {i})
           new == [deleting[i] EXCEPT !.at = "promoting", !.heir = h]
<1>1. h \in Live \ {i} /\ \A j \in Live \ {i} : Version(j) <= Version(h)
  BY NewestTops DEF IInv
<1>2. h \in Ids
  BY <1>1, Documents DEF IInv
<1>3. deleting \in [Ids -> DeletionRecord] /\ deleting[i] \in DeletionRecord
  BY DEF IInv, TypeOK, DeletionRecord
<1> HIDE DEF h
<1>4. deleting' = [deleting EXCEPT ![i] = new]
  BY <1>3 DEF DeletionRecord, h
<1>5. new \in DeletionRecord /\ new.at = "promoting" /\ new.latest = deleting[i].latest
      /\ new.heir = h
  BY <1>2, <1>3 DEF DeletionRecord
<1> HIDE DEF new
<1>6. i \in Live /\ i \in OpenDeletions
  BY DEF IInv, Deletions, Locked, OpenDeletions
<1>7. asked' \in 0..MaxDeletions /\ faults' \in 0..MaxFaults /\ raced' \in BOOLEAN
  BY DEF IInv, TypeOK
<1>8. /\ TypeOK' /\ Rows' /\ Uploads' /\ Deletions' /\ CompletedWasStored'
      /\ deleting'[i] = new /\ \A j \in Ids \ {i} : deleting'[j] = deleting[j]
      /\ OpenDeletions' = OpenDeletions \cup {i}
  BY <1>4, <1>5, <1>6, <1>7, DeletionMoves
<1>9. ~raced => /\ OpenDeletions' \subseteq {i} /\ mutex' = None
                /\ deleting[i].latest = documents[i].latest
  BY <1>6, <1>8 DEF IInv, Unraced, Apart, Succession
<1>10. Unraced'
  BY <1>1, <1>5, <1>8, <1>9, DeletionUnraced
<1> QED
  BY <1>8, <1>10 DEF IInv

(* A row goes, and its heir, if there is one to be promoted, is served.    *)
LEMMA GoneRows ==
    ASSUME IInv, NEW i \in Live, NEW promoted \in SUBSET {j \in Live : j # i},
           documents' = [j \in DOMAIN documents |->
               IF j = i THEN [documents[j] EXCEPT !.live = FALSE]
               ELSE IF j \in promoted THEN [documents[j] EXCEPT !.latest = TRUE]
               ELSE documents[j]]
    PROVE  /\ documents' \in Seq(Document) /\ Len(documents') = Len(documents)
           /\ DOMAIN documents' = DOMAIN documents
           /\ Live' = Live \ {i} /\ Latest' = (Latest \ {i}) \cup promoted
           /\ \A j \in DOMAIN documents : /\ Version(j)' = Version(j)
                                          /\ documents'[j].content = documents[j].content
<1> USE DEF Version
<1> DEFINE n == Len(documents)
<1>1. n \in Nat /\ DOMAIN documents = 1..n /\ Live \subseteq 1..n
      /\ \A j \in 1..n : documents[j] \in Document
  BY Documents DEF IInv
<1> HIDE DEF n
<1>2. ASSUME NEW j \in 1..n
      PROVE  /\ documents'[j] \in Document
             /\ documents'[j].version = documents[j].version
             /\ documents'[j].content = documents[j].content
             /\ documents'[j].live <=> documents[j].live /\ j # i
             /\ j # i => (documents'[j].latest <=> documents[j].latest \/ j \in promoted)
  <2>1. documents[j] \in Document /\ documents[j].latest \in BOOLEAN
        /\ documents[j].live \in BOOLEAN
    BY <1>1 DEF Document
  <2>2. documents'[j] = IF j = i THEN [documents[j] EXCEPT !.live = FALSE]
               ELSE IF j \in promoted THEN [documents[j] EXCEPT !.latest = TRUE]
               ELSE documents[j]
    BY <1>1
  <2>3. CASE j = i
    <3>1. documents'[j] = [documents[j] EXCEPT !.live = FALSE]
      BY <2>2, <2>3
    <3> QED
      BY <2>1, <2>3, <3>1 DEF Document
  <2>4. CASE j # i /\ j \in promoted
    <3>1. documents'[j] = [documents[j] EXCEPT !.latest = TRUE]
      BY <2>2, <2>4
    <3> QED
      BY <2>1, <2>4, <3>1 DEF Document
  <2>5. CASE j # i /\ j \notin promoted
    BY <2>1, <2>2, <2>5 DEF Document
  <2> QED
    BY <2>3, <2>4, <2>5
<1>3. documents' \in [1..n -> Document]
  <2>1. documents' = [j \in 1..n |-> documents'[j]]
    BY <1>1
  <2> QED
    BY <1>2, <2>1
<1>4. documents' \in Seq(Document) /\ Len(documents') = n /\ DOMAIN documents' = 1..n
  BY <1>1, <1>3, FunctionIsSequence
<1>5. Live' = Live \ {i} /\ Latest' = (Latest \ {i}) \cup promoted
  BY <1>1, <1>2, <1>4 DEF Live, Latest
<1> QED
  BY <1>1, <1>2, <1>4, <1>5 DEF n, Version

LEMMA GoneKeeps ==
    ASSUME IInv, NEW i \in Live, NEW promoted \in SUBSET {j \in Live : j # i},
           documents' = [j \in DOMAIN documents |->
               IF j = i THEN [documents[j] EXCEPT !.live = FALSE]
               ELSE IF j \in promoted THEN [documents[j] EXCEPT !.latest = TRUE]
               ELSE documents[j]],
           Locked(i), deleting' = [deleting EXCEPT ![i] = NotDeleting],
           ~raced => (Latest \ {i}) \cup promoted =
                {j \in Live \ {i} : \A k \in Live \ {i} : Version(k) <= Version(j)},
           UNCHANGED <<job, worker, mutex, asked, faults, stored, raced>>
    PROVE  IInv'
<1>1. /\ documents' \in Seq(Document) /\ Len(documents') = Len(documents)
      /\ DOMAIN documents' = DOMAIN documents
      /\ Live' = Live \ {i} /\ Latest' = (Latest \ {i}) \cup promoted
      /\ \A j \in DOMAIN documents : /\ Version(j)' = Version(j)
                                     /\ documents'[j].content = documents[j].content
  BY GoneRows
<1>2. i \in Ids /\ Live \subseteq DOMAIN documents
  BY Documents DEF IInv
<1>3. deleting \in [Ids -> DeletionRecord] /\ NotDeleting \in DeletionRecord
  BY DEF IInv, TypeOK, DeletionRecord, NotDeleting
<1>4. /\ deleting' \in [Ids -> DeletionRecord] /\ deleting'[i].at = "none"
      /\ \A j \in Ids \ {i} : deleting'[j] = deleting[j]
  BY <1>2, <1>3 DEF NotDeleting
<1>5. OpenDeletions' = OpenDeletions \ {i} /\ i \in OpenDeletions
  BY <1>2, <1>4 DEF OpenDeletions, Locked
<1>6. TypeOK'
  BY <1>1, <1>4 DEF IInv, TypeOK, DeletionRecord
<1>7. Rows'
  BY <1>1, <1>2 DEF IInv, Rows
<1>8. Uploads'
  BY <1>1 DEF IInv, Uploads, Numbered
<1>9. Deletions'
  <2> SUFFICES ASSUME NEW j \in Ids, Locked(j)' PROVE j \in Live \ {i}
    BY <1>1 DEF Deletions
  <2>1. j # i /\ Locked(j)
    BY <1>4 DEF Locked
  <2> QED
    BY <2>1 DEF IInv, Deletions
<1>10. CompletedWasStored'
  BY DEF IInv, CompletedWasStored
<1>11. Unraced'
  <2> SUFFICES ASSUME ~raced'
               PROVE  NewestIsServed' /\ Apart' /\ Foresight' /\ Succession'
    BY DEF Unraced
  <2>1. OpenDeletions' = {} /\ mutex' = None
    BY <1>5 DEF IInv, Unraced, Apart
  <2>2. \A w \in Workers : ~Numbered(w)' /\ worker'[w].at # "demoting"
    BY <2>1, <1>6, KnowledgeAssumption DEF TypeOK, Numbered
  <2>3. NewestIsServed'
    <3>1. \A j \in Live : Version(j)' = Version(j)
      BY <1>1, <1>2
    <3>2. Latest' = {j \in Live' : \A k \in Live' : Version(k)' <= Version(j)'}
      BY <1>1, <3>1
    <3> QED
      BY <3>2 DEF NewestIsServed, Version
  <2> QED
    BY <2>1, <2>2, <2>3 DEF Apart, Foresight, Succession
<1> QED
  BY <1>6, <1>7, <1>8, <1>9, <1>10, <1>11 DEF IInv

LEMMA DeleteRowKeeps ==
    ASSUME IInv, NEW i \in Ids, DeleteRow(i)
    PROVE  IInv'
<1>1. i \in Live /\ Locked(i)
  BY DEF DeleteRow, IInv, Deletions, Locked
<1>2. CASE deleting[i].latest /\ Live \ {i} # {}
  BY <1>2, HeirKeeps DEF DeleteRow
<1>3. CASE ~(deleting[i].latest /\ Live \ {i} # {})
  <2>1. /\ deleting' = [deleting EXCEPT ![i] = NotDeleting] /\ documents' = Gone(i)
        /\ UNCHANGED <<job, worker, mutex, asked, faults, stored, raced>>
    BY <1>3 DEF DeleteRow
  <2>2. documents' = [j \in DOMAIN documents |->
               IF j = i THEN [documents[j] EXCEPT !.live = FALSE]
               ELSE IF j \in {} THEN [documents[j] EXCEPT !.latest = TRUE]
               ELSE documents[j]]
    BY <2>1 DEF Gone
  <2>3. ASSUME ~raced
        PROVE  (Latest \ {i}) \cup {} =
                {j \in Live \ {i} : \A k \in Live \ {i} : Version(k) <= Version(j)}
    <3>1. /\ Latest = {j \in Live : \A k \in Live : Version(k) <= Version(j)}
          /\ deleting[i].latest = documents[i].latest
      BY <1>1, <2>3 DEF IInv, Unraced, NewestIsServed, Succession, Version, OpenDeletions
    <3>2. CASE Live \ {i} = {}
      BY <3>1, <3>2
    <3>3. CASE ~deleting[i].latest
      <4>1. PICK top \in Live : ~(Version(top) <= Version(i))
        BY <1>1, <3>1, <3>3 DEF Latest
      <4>2. \A j \in Live : Version(j) \in Nat
        BY Documents DEF IInv
      <4>3. top \in Live \ {i} /\ Version(i) < Version(top)
        BY <1>1, <4>1, <4>2
      <4>4. \A j \in Live \ {i} : (\A k \in Live \ {i} : Version(k) <= Version(j))
                                    => Version(i) <= Version(j)
        BY <1>1, <4>2, <4>3
      <4> QED
        BY <1>1, <3>1, <4>3, <4>4
    <3> QED
      BY <1>3, <3>2, <3>3
  <2>4. {} \in SUBSET {j \in Live : j # i}
    OBVIOUS
  <2> QED
    BY <1>1, <2>1, <2>2, <2>3, <2>4, GoneKeeps
<1> QED
  BY <1>2, <1>3

LEMMA PromoteKeeps ==
    ASSUME IInv, NEW i \in Ids, PromoteHeir(i)
    PROVE  IInv'
<1> DEFINE heir == deleting[i].heir
           promoted == {heir} \cap (Live \ {i})
<1>1. i \in Live /\ Locked(i) /\ deleting[i].at = "promoting" /\ i # heir
  BY DEF PromoteHeir, IInv, Deletions, Locked
<1>2. /\ documents' = IF heir \in Live THEN [Gone(i) EXCEPT ![heir].latest = TRUE] ELSE Gone(i)
      /\ deleting' = [deleting EXCEPT ![i] = NotDeleting]
      /\ UNCHANGED <<job, worker, mutex, asked, faults, stored, raced>>
  BY DEF PromoteHeir
<1> HIDE DEF heir
<1>3. documents' = [j \in DOMAIN documents |->
               IF j = i THEN [documents[j] EXCEPT !.live = FALSE]
               ELSE IF j \in promoted THEN [documents[j] EXCEPT !.latest = TRUE]
               ELSE documents[j]]
  <2>1. Gone(i) = [j \in DOMAIN documents |->
                IF j = i THEN [documents[j] EXCEPT !.live = FALSE] ELSE documents[j]]
    BY DEF Gone
  <2>2. CASE heir \in Live
    <3>1. promoted = {heir} /\ heir \in DOMAIN documents
      BY <1>1, <2>2 DEF Live
    <3>2. documents' = [Gone(i) EXCEPT ![heir] = [documents[heir] EXCEPT !.latest = TRUE]]
      BY <1>1, <1>2, <2>1, <2>2, <3>1
    <3> HIDE DEF promoted
    <3> QED
      BY <1>1, <2>1, <3>1, <3>2
  <2>3. CASE heir \notin Live
    <3>1. promoted = {} /\ documents' = Gone(i)
      BY <1>2, <2>3
    <3> HIDE DEF promoted
    <3> QED
      BY <2>1, <3>1
  <2> QED
    BY <2>2, <2>3
<1>4. ASSUME ~raced
      PROVE  (Latest \ {i}) \cup promoted =
                {j \in Live \ {i} : \A k \in Live \ {i} : Version(k) <= Version(j)}
  <2>1. /\ Latest = {j \in Live : \A k \in Live : Version(k) <= Version(j)}
        /\ documents[i].latest /\ heir \in Live \ {i}
        /\ \A j \in Live \ {i} : Version(j) <= Version(heir)
    BY <1>1, <1>4 DEF IInv, Unraced, NewestIsServed, Succession, Version, OpenDeletions, heir
  <2>2. \A j, k \in Live : Version(j) = Version(k) => j = k
    BY DEF IInv, Rows
  <2>3. \A j \in Live : Version(j) \in Nat
    BY Documents DEF IInv
  <2>4. i \in Latest
    BY <1>1, <2>1 DEF Latest
  <2>5. Latest = {i}
    BY <2>1, <2>2, <2>3, <2>4
  <2>6. {j \in Live \ {i} : \A k \in Live \ {i} : Version(k) <= Version(j)} = {heir}
    BY <2>1, <2>2, <2>3
  <2> QED
    BY <2>1, <2>5, <2>6
<1> HIDE DEF promoted
<1>5. promoted \in SUBSET {j \in Live : j # i}
  BY DEF promoted
<1> QED
  BY <1>1, <1>2, <1>3, <1>4, <1>5, GoneKeeps

------------------------------------------------------------------------------
LEMMA JobKeeps ==
    ASSUME IInv, NEW c \in Contents, NEW s \in {"queued", "failed"},
           job' = [job EXCEPT ![c] = s],
           UNCHANGED <<documents, worker, deleting, mutex, asked, faults, stored, raced>>
    PROVE  IInv'
<1>1. TypeOK' /\ CompletedWasStored'
  BY DEF IInv, TypeOK, CompletedWasStored, Ids, Document
<1>2. Rows' /\ Uploads' /\ Deletions'
  BY SameRows DEF IInv, Rows, Uploads, Deletions, Numbered, Locked
<1>3. Unraced'
  <2>1. NewestIsServed => NewestIsServed'
    BY SameRows
  <2>2. Apart => Apart'
    BY DEF Apart, OpenDeletions, Locked
  <2>3. Foresight => Foresight'
    BY SameRows DEF Foresight, Numbered
  <2>4. Succession => Succession'
    BY SameRows DEF Succession, OpenDeletions, Locked
  <2> QED
    BY <2>1, <2>2, <2>3, <2>4 DEF IInv, Unraced
<1> QED
  BY <1>1, <1>2, <1>3 DEF IInv

LEMMA StutterKeeps ==
    ASSUME IInv, UNCHANGED vars
    PROVE  IInv'
BY DEF vars, IInv, TypeOK, Ids, Document, Rows, Uploads, Deletions, CompletedWasStored,
    Unraced, NewestIsServed, Apart, Foresight, Succession, Live, Latest, Version, Numbered,
    Locked, OpenDeletions

LEMMA WorkerSteps ==
    ASSUME IInv, NEW w \in Workers, Upload(w) \/ Interrupted(w)
    PROVE  IInv'
<1> DEFINE c == worker[w].content
<1>1. CASE \E d \in Contents : Ingest(w, d)
  BY <1>1, IngestKeeps
<1>2. CASE LockVersionGroup(w)
  BY <1>2, LockKeeps
<1>3. CASE DemoteLatest(w)
  BY <1>3, DemoteKeeps
<1>4. CASE CommitDocument(w)
  BY <1>4, CommitKeeps
<1>5. CASE InsertRefused(w) \/ Interrupted(w)
  <2>1. faults' \in 0..MaxFaults /\ worker[w].at # "idle" /\ AttemptFails(w)
    BY <1>5 DEF InsertRefused, Interrupted, Fault, IInv, TypeOK
  <2>2. UNCHANGED job \/ job' = [job EXCEPT ![worker[w].content] = "failed"]
    BY <2>1 DEF AttemptFails
  <2>3. worker' = [worker EXCEPT ![w] = Idle] /\ Released(w)
        /\ UNCHANGED <<documents, deleting, asked, stored, raced>>
    BY <2>1 DEF AttemptFails
  <2> QED
    BY <2>1, <2>2, <2>3, LeavingKeeps
<1>6. CASE CompleteJob(w)
  <2>1. /\ worker[w].at = "stored" /\ worker' = [worker EXCEPT ![w] = Idle]
        /\ UNCHANGED <<documents, deleting, mutex, asked, faults, stored, raced>>
        /\ UNCHANGED job \/ job' = [job EXCEPT ![worker[w].content] = "completed"]
    BY <1>6 DEF CompleteJob
  <2>2. faults' \in 0..MaxFaults /\ Released(w)
    BY <2>1 DEF IInv, TypeOK, Released
  <2> QED
    BY <2>1, <2>2, LeavingKeeps
<1> QED
  BY <1>1, <1>2, <1>3, <1>4, <1>5, <1>6 DEF Upload

LEMMA Initially ==
    ASSUME Init
    PROVE  IInv
<1> USE DEF Init
<1>1. Live = {} /\ Latest = {} /\ DOMAIN documents = {}
  BY DEF Live, Latest
<1>2. Idle \in WorkerRecord /\ NotDeleting \in DeletionRecord
      /\ Idle.at = "idle" /\ NotDeleting.at = "none"
  BY DEF Idle, NotDeleting, WorkerRecord, DeletionRecord
<1>3. TypeOK
  <2>1. documents \in Seq(Document) /\ Len(documents) <= MaxDocuments
    OBVIOUS
  <2>2. worker \in [Workers -> WorkerRecord] /\ deleting \in [Ids -> DeletionRecord]
    BY <1>2
  <2>3. \A w \in Workers : mutex = w <=> worker[w].at \in {"numbered", "demoting"}
    BY <1>2, KnowledgeAssumption
  <2>4. job \in [Contents -> {"none", "queued", "completed", "failed"}]
    OBVIOUS
  <2>5. asked \in 0..MaxDeletions /\ faults \in 0..MaxFaults
    BY KnowledgeAssumption
  <2>6. mutex \in Workers \cup {None} /\ stored \subseteq Contents /\ raced \in BOOLEAN
    OBVIOUS
  <2> QED
    BY <2>1, <2>2, <2>3, <2>4, <2>5, <2>6 DEF TypeOK, WorkerRecord, DeletionRecord
<1>4. Rows /\ Uploads /\ Deletions /\ CompletedWasStored
  BY <1>1, <1>2 DEF Rows, Uploads, Deletions, CompletedWasStored, Numbered, Locked
<1>5. Unraced
  BY <1>1, <1>2 DEF Unraced, NewestIsServed, Apart, Foresight, Succession, OpenDeletions,
      Locked, Numbered
<1> QED
  BY <1>3, <1>4, <1>5 DEF IInv

(* The inductive invariant of a document's versions, under every fault.    *)
THEOREM Invariance == Init /\ [][Next]_vars => []IInv
<1>1. IInv /\ [Next]_vars => IInv'
  <2> SUFFICES ASSUME IInv, [Next]_vars PROVE IInv'
    OBVIOUS
  <2>1. CASE UNCHANGED vars
    BY <2>1, StutterKeeps
  <2>2. ASSUME NEW c \in Contents, EnqueueKnowledge(c) \/ Retry(c)
        PROVE  IInv'
    BY <2>2, JobKeeps DEF EnqueueKnowledge, Retry
  <2>3. ASSUME NEW w \in Workers, Upload(w) \/ Interrupted(w)
        PROVE  IInv'
    BY <2>3, WorkerSteps
  <2>4. ASSUME NEW i \in Ids, FindForUpdate(i) \/ Delete(i) \/ DeleteInterrupted(i)
        PROVE  IInv'
    <3>1. CASE FindForUpdate(i)
      BY <3>1, FindKeeps
    <3>2. CASE DeleteRow(i)
      BY <3>2, DeleteRowKeeps
    <3>3. CASE PromoteHeir(i)
      BY <3>3, PromoteKeeps
    <3>4. CASE DeadlockDetected(i) \/ DeleteInterrupted(i)
      <4>1. RollbackDelete(i) /\ faults' \in 0..MaxFaults
        BY <3>4 DEF DeadlockDetected, DeleteInterrupted, Fault, IInv, TypeOK
      <4> QED
        BY <4>1, RollbackKeeps
    <3> QED
      BY <2>4, <3>1, <3>2, <3>3, <3>4 DEF Delete
  <2> QED
    BY <2>1, <2>2, <2>3, <2>4 DEF Next
<1> QED
  BY Initially, <1>1, PTL

(* Every value has its type; in particular the advisory lock of a version  *)
(* group is that of the worker between its number and its commit           *)
(* (postgres/knowledge.go:29-62).                                          *)
THEOREM Typing == Spec => []TypeOK
<1>1. IInv => TypeOK
  BY DEF IInv
<1> QED
  BY Invariance, <1>1, PTL DEF Spec

(* For any number of uploads at a time, as long as no deletion overlaps    *)
(* another transaction: what is served is the newest version, although no  *)
(* statement sees more than was committed when it began                    *)
(* (postgres/knowledge.go:29, :189).                                       *)
THEOREM Currency == Spec => []NewestIsServed
<1>1. IInv => NewestIsServed
  BY DEF IInv, Unraced, NewestIsServed
<1> QED
  BY Invariance, <1>1, PTL DEF Spec

(* However often a job is run, by workers that believe each other dead, it *)
(* is completed only after its content was stored (knowledge/service.go:98).*)
THEOREM Completion == Spec => []CompletedWasStored
<1>1. IInv => CompletedWasStored
  BY DEF IInv
<1> QED
  BY Invariance, <1>1, PTL DEF Spec
=============================================================================
