-------------------------- MODULE KnowledgeVersions --------------------------
(***************************************************************************)
(* The versions of one knowledge document: uploads, ingested by background *)
(* workers, and deletions, on PostgreSQL.                                  *)
(*                                                                         *)
(* Both operations are transactions of several statements at the READ      *)
(* COMMITTED level, and a step is a statement: it sees what was committed  *)
(* when it began, waits for the rows it updates, and sees them again after *)
(* the wait.  Uploads of a document take an advisory lock; deletions do    *)
(* not.  Two uploads of the same bytes are one content; all contents here  *)
(* are versions of the same document of the same owner.                    *)
(*                                                                         *)
(* The job queue is taken at its word (AtLeastOnce): any worker may run a  *)
(* queued job, also while another still does, and the first to report      *)
(* settles it.                                                             *)
(***************************************************************************)
EXTENDS Naturals, Sequences, FiniteSets, FiniteSetsExt

CONSTANTS
    Contents,       \* what may be uploaded
    Workers,        \* knowledge ingestion workers
    None,
    MaxDocuments,   \* bound: documents ever stored
    MaxDeletions,   \* bound: deletions that users ask for
    MaxFaults       \* bound: failed calls and crashes

ASSUME KnowledgeAssumption == /\ MaxDocuments \in Nat
                              /\ MaxDeletions \in Nat
                              /\ MaxFaults \in Nat
                              /\ None \notin Contents \cup Workers

VARIABLES
    documents,      \* knowledge_documents: committed rows, in order of insertion
    job,            \* the ingestion job of a content; its dedupe key is the hash
    worker,         \* the upload each worker is ingesting
    deleting,       \* the deletion of each row that is under way
    mutex,          \* the advisory lock of the version group
    asked,          \* how often users asked for a deletion
    faults,
    stored,         \* history: contents that were ever stored
    raced           \* history: a deletion overlapped another transaction

vars == <<documents, job, worker, deleting, mutex, asked, faults, stored, raced>>

Ids == 1..MaxDocuments

Document == [live : BOOLEAN, content : Contents, version : Nat, latest : BOOLEAN]

Idle == [at |-> "idle", content |-> None, version |-> 0, demote |-> {}]

NotDeleting == [at |-> "none", latest |-> FALSE, heir |-> 0]

TypeOK ==
    /\ documents \in Seq(Document) /\ Len(documents) <= MaxDocuments
    /\ job \in [Contents -> {"none", "queued", "completed", "failed"}]
    /\ worker \in [Workers ->
          [at : {"idle", "locking", "numbered",
                 "demoting", "stored"},
           content : Contents \cup {None}, version : Nat, demote : SUBSET Ids]]
    /\ deleting \in [Ids -> [at : {"none", "found", "promoting"},
                             latest : BOOLEAN, heir : Ids \cup {0}]]
    /\ mutex \in Workers \cup {None}
    /\ \A w \in Workers : mutex = w <=> worker[w].at \in {"numbered", "demoting"}
    /\ asked \in 0..MaxDeletions
    /\ faults \in 0..MaxFaults
    /\ stored \subseteq Contents
    /\ raced \in BOOLEAN

Init ==
    /\ documents = <<>>
    /\ job = [c \in Contents |-> "none"]
    /\ worker = [w \in Workers |-> Idle]
    /\ deleting = [i \in Ids |-> NotDeleting]
    /\ mutex = None
    /\ asked = 0
    /\ faults = 0
    /\ stored = {}
    /\ raced = FALSE

------------------------------------------------------------------------------
Live == {i \in DOMAIN documents : documents[i].live}

Latest == {i \in Live : documents[i].latest}

(* GetDocumentByHash.                                                      *)
Holding(c) == {i \in Live : documents[i].content = c}

NextVersion == Max({0} \cup {documents[i].version : i \in Live}) + 1

(* A row that an open deletion has locked FOR UPDATE.                      *)
Locked(i) == deleting[i].at # "none"

OpenDeletions == {i \in Ids : Locked(i)}

Fault == faults < MaxFaults /\ faults' = faults + 1

Goto(w, station) == worker' = [worker EXCEPT ![w].at = station]

------------------------------------------------------------------------------
(* Ingest.                                                                 *)

(* An upload whose job exists already, whatever became of it, gets that    *)
(* job back and queues nothing.                                            *)
EnqueueKnowledge(c) ==
    /\ job[c] = "none"
    /\ job' = [job EXCEPT ![c] = "queued"]
    /\ UNCHANGED <<documents, worker, deleting, mutex, asked, faults, stored, raced>>

Retry(c) ==
    /\ job[c] = "failed"
    /\ Len(documents) < MaxDocuments
    /\ job' = [job EXCEPT ![c] = "queued"]
    /\ UNCHANGED <<documents, worker, deleting, mutex, asked, faults, stored, raced>>

\* Mutant: any version of the document counts as this one.
Ingest_AnyVersion(w, c) ==
    /\ worker[w].at = "idle"
    /\ job[c] = "queued"
    /\ worker' = [worker EXCEPT ![w] =
          [Idle EXCEPT !.at = IF Live # {} THEN "stored" ELSE "locking",
                       !.content = c]]
    /\ UNCHANGED <<documents, job, deleting, mutex, asked, faults, stored, raced>>

(* A worker claims the job.  The owner's document of this content, if      *)
(* there is one, is the result; if there is none, the text is cut into     *)
(* chunks and embedded before the transaction begins.                      *)
Ingest(w, c) ==
    /\ worker[w].at = "idle"
    /\ job[c] = "queued"
    /\ worker' = [worker EXCEPT ![w] =
          [Idle EXCEPT !.at = IF Holding(c) # {} THEN "stored" ELSE "locking",
                       !.content = c]]
    /\ UNCHANGED <<documents, job, deleting, mutex, asked, faults, stored, raced>>

(* pg_advisory_xact_lock, then MAX(version) + 1.                           *)
LockVersionGroup(w) ==
    /\ worker[w].at = "locking"
    /\ mutex = None
    /\ mutex' = w
    /\ worker' = [worker EXCEPT ![w].at = "numbered", ![w].version = NextVersion]
    /\ raced' = (raced \/ OpenDeletions # {})
    /\ UNCHANGED <<documents, job, deleting, asked, faults, stored>>

(* The statement that takes is_latest away sets out with the rows that     *)
(* have it now.                                                            *)
DemoteLatest(w) ==
    /\ worker[w].at = "numbered"
    /\ worker' = [worker EXCEPT ![w].at = "demoting", ![w].demote = Latest]
    /\ UNCHANGED <<documents, job, deleting, mutex, asked, faults, stored, raced>>

(* The unique indexes over content_hash and over version.                  *)
Conflicts(w) == {i \in Live : \/ documents[i].content = worker[w].content
                              \/ documents[i].version = worker[w].version}

\* Mutant: the old version keeps is_latest.
Demoted_None(w) == documents

(* Rows deleted while the statement waited for them are passed over.       *)
Demoted(w) ==
    [i \in DOMAIN documents |->
        IF i \in worker[w].demote \cap Latest
        THEN [documents[i] EXCEPT !.latest = FALSE] ELSE documents[i]]

(* Nothing of the transaction shows before its commit, so that its last    *)
(* wait, its inserts and its commit are one step.                          *)
CommitDocument(w) ==
    /\ worker[w].at = "demoting"
    /\ \A i \in worker[w].demote : ~Locked(i)
    /\ Conflicts(w) = {}
    /\ Len(documents) < MaxDocuments
    /\ documents' = Append(Demoted(w),
          [live |-> TRUE, content |-> worker[w].content,
           version |-> worker[w].version, latest |-> TRUE])
    /\ stored' = stored \cup {worker[w].content}
    /\ mutex' = None
    /\ Goto(w, "stored")
    /\ UNCHANGED <<job, deleting, asked, faults, raced>>

\* Mutant: the lock outlives the transaction.
Released_Kept(w) == mutex' = mutex

Released(w) == mutex' = IF mutex = w THEN None ELSE mutex

(* The attempt ends in an error: its transaction is rolled back, and its   *)
(* job is queued again or has failed for good.                             *)
AttemptFails(w) ==
    LET c == worker[w].content IN
    /\ Released(w)
    /\ worker' = [worker EXCEPT ![w] = Idle]
    /\ \/ UNCHANGED job
       \/ job[c] = "queued" /\ job' = [job EXCEPT ![c] = "failed"]
    /\ UNCHANGED <<documents, deleting, asked, stored, raced>>

(* A unique index refuses the insert.  (At the bound of MaxDocuments the   *)
(* job is given up.)                                                       *)
InsertRefused(w) ==
    /\ worker[w].at = "demoting"
    /\ \A i \in worker[w].demote \cup Conflicts(w) : ~Locked(i)
    /\ Conflicts(w) # {} \/ Len(documents) = MaxDocuments
    /\ AttemptFails(w)
    /\ Conflicts(w) = {} => job'[worker[w].content] # "queued"
    /\ UNCHANGED faults

(* A call fails, the attempt's time is up, or the process exits.           *)
Interrupted(w) ==
    /\ worker[w].at # "idle"
    /\ Fault
    /\ AttemptFails(w)

CompleteJob(w) ==
    LET c == worker[w].content IN
    /\ worker[w].at = "stored"
    /\ job' = IF job[c] = "queued" THEN [job EXCEPT ![c] = "completed"] ELSE job
    /\ worker' = [worker EXCEPT ![w] = Idle]
    /\ UNCHANGED <<documents, deleting, mutex, asked, faults, stored, raced>>

------------------------------------------------------------------------------
(* Deletion of a version.                                                  *)

FindForUpdate(i) ==
    /\ i \in Live /\ ~Locked(i)
    /\ asked < MaxDeletions
    /\ asked' = asked + 1
    /\ deleting' = [deleting EXCEPT ![i] =
                      [at |-> "found", latest |-> documents[i].latest, heir |-> 0]]
    /\ raced' = (raced \/ OpenDeletions # {} \/ mutex # None)
    /\ UNCHANGED <<documents, job, worker, mutex, faults, stored>>

Gone(i) == [documents EXCEPT ![i].live = FALSE]

Newest(ids) ==
    CHOOSE i \in ids : \A j \in ids : documents[j].version <= documents[i].version

(* An old version, or the only one, just goes; the latest looks for the    *)
(* newest of the others, among them rows whose deletion is uncommitted.    *)
DeleteRow(i) ==
    /\ deleting[i].at = "found"
    /\ IF deleting[i].latest /\ Live \ {i} # {}
       THEN /\ deleting' = [deleting EXCEPT ![i].at = "promoting",
                                            ![i].heir = Newest(Live \ {i})]
            /\ UNCHANGED documents
       ELSE /\ deleting' = [deleting EXCEPT ![i] = NotDeleting]
            /\ documents' = Gone(i)
    /\ UNCHANGED <<job, worker, mutex, asked, faults, stored, raced>>

(* The heir is made the latest version, unless it is gone when its lock is *)
(* free; then the update touches no row and the deletion commits as well.  *)
PromoteHeir(i) ==
    LET heir == deleting[i].heir IN
    /\ deleting[i].at = "promoting"
    /\ ~Locked(heir)
    /\ documents' = IF heir \in Live THEN [Gone(i) EXCEPT ![heir].latest = TRUE]
                                     ELSE Gone(i)
    /\ deleting' = [deleting EXCEPT ![i] = NotDeleting]
    /\ UNCHANGED <<job, worker, mutex, asked, faults, stored, raced>>

RollbackDelete(i) ==
    /\ deleting' = [deleting EXCEPT ![i] = NotDeleting]
    /\ UNCHANGED <<documents, job, worker, mutex, asked, stored, raced>>

(* Two deletions that wait for each other's row: PostgreSQL ends one.      *)
DeadlockDetected(i) ==
    /\ deleting[i].at = "promoting"
    /\ deleting[deleting[i].heir].at = "promoting"
    /\ deleting[deleting[i].heir].heir = i
    /\ RollbackDelete(i)
    /\ UNCHANGED faults

DeleteInterrupted(i) == Locked(i) /\ Fault /\ RollbackDelete(i)

------------------------------------------------------------------------------
Upload(w) ==
    \/ \E c \in Contents : Ingest(w, c)
    \/ LockVersionGroup(w) \/ DemoteLatest(w)
    \/ CommitDocument(w) \/ InsertRefused(w) \/ CompleteJob(w)

Delete(i) == DeleteRow(i) \/ PromoteHeir(i) \/ DeadlockDetected(i)

Next ==
    \/ \E c \in Contents : EnqueueKnowledge(c) \/ Retry(c)
    \/ \E w \in Workers : Upload(w) \/ Interrupted(w)
    \/ \E i \in Ids : FindForUpdate(i) \/ Delete(i) \/ DeleteInterrupted(i)

(* Workers poll and statements are executed; with bounded numbers of       *)
(* uploads, deletions and faults, no lock is taken infinitely often.       *)
Fairness == /\ \A w \in Workers : WF_vars(Upload(w))
            /\ \A i \in Ids : WF_vars(Delete(i))

Spec == Init /\ [][Next]_vars /\ Fairness

------------------------------------------------------------------------------
(* Properties.                                                             *)

(* As long as no deletion overlaps another transaction of the document,    *)
(* the version that is served is its newest one: uploads may overlap as    *)
(* they like (postgres/knowledge.go:29, :189).                             *)
NewestIsServed ==
    ~raced => Latest = {i \in Live : \A j \in Live :
                            documents[j].version <= documents[i].version}

(* A job is only completed when the content it was queued for was stored,  *)
(* by it or by an attempt that was believed dead (knowledge/service.go:98). *)
CompletedWasStored ==
    \A c \in Contents : job[c] = "completed" => c \in stored

(* No upload waits for ever, for its lock, for a deletion (which may wait  *)
(* for another) or for a lost worker (knowledge/service.go:74).  *)
UploadsSettle ==
    \A c \in Contents : job[c] = "queued" ~> job[c] # "queued"

(* technical-design.md:586 says that deleting the latest version falls     *)
(* back to the greatest of the history: a document with versions has one   *)
(* that is served.                                                         *)
SomeVersionIsServed ==
    OpenDeletions = {} /\ Live # {} => Latest # {}

=============================================================================
