-------------------------- MODULE SchemaMigration --------------------------
(***************************************************************************)
(* What opening a store does to an older database.  PostgreSQL runs its    *)
(* whole schema in one transaction under an advisory lock; SQLite commits  *)
(* statement by statement, and a process may die between any two.          *)
(*                                                                         *)
(* A database is a record: extension (pgvector is there), tables, columns  *)
(* (those that later versions added and that are there), indexes (the      *)
(* unique ones), dimensions of its vector columns, memories and documents. *)
(* Rows of a table without the column hold the column's default.           *)
(***************************************************************************)
EXTENDS Integers, Sequences, FiniteSets

MemoryColumns == {"memory_key", "user_edited"}
DocumentColumns ==
  {"version_group_id", "version", "is_latest", "owner_id", "visibility"}
Columns == MemoryColumns \cup DocumentColumns

\* What a statement cannot do: the column or the index is refused.
Refused == [tables |-> "refused"]

CreateTables(d, dimensions) ==
  IF d.tables = "present" THEN d
  ELSE [d EXCEPT !.tables = "present", !.columns = Columns,
                 !.dimensions = dimensions]

\* Rows of an older version that still have the default of the added column.
\* Mutant: the column is added without a look at the table.
AddColumn_Unconditional(d, column) ==
  IF column \in d.columns THEN Refused
  ELSE [d EXCEPT !.columns = @ \cup {column}]

AddColumn(d, column) == [d EXCEPT !.columns = @ \cup {column}]

\* UPDATE memories SET user_edited = TRUE WHERE source_type = 'manual'
ProtectManual(d) ==
  [d EXCEPT !.memories =
     [m \in DOMAIN d.memories |->
        [d.memories[m] EXCEPT !.edited = @ \/ d.memories[m].manual]]]

\* ORDER BY user_edited DESC, updated_at DESC, id DESC
\* Mutant: the newest memory of a slot keeps it, whoever wrote it.
Precedes_Newest(d, m, n) ==
  LET a == d.memories[m]  b == d.memories[n] IN
  \/ a.updated > b.updated
  \/ a.updated = b.updated /\ m > n

Precedes(d, m, n) ==
  LET a == d.memories[m]  b == d.memories[n] IN
  \/ a.edited /\ ~b.edited
  \/ a.edited = b.edited /\ a.updated > b.updated
  \/ a.edited = b.edited /\ a.updated = b.updated /\ m > n

\* The memories after the first of a slot lose the slot, not their content.
DemoteDuplicates(d) ==
  LET taken(m) == \E n \in DOMAIN d.memories :
                    /\ d.memories[n].slot = d.memories[m].slot
                    /\ d.memories[m].slot # "" /\ Precedes(d, n, m) IN
  [d EXCEPT !.memories =
     [m \in DOMAIN d.memories |->
        [d.memories[m] EXCEPT !.slot = IF taken(m) THEN "" ELSE @]]]

SlotsDistinct(d) ==
  \A m, n \in DOMAIN d.memories :
    m # n /\ d.memories[m].slot # "" => d.memories[m].slot # d.memories[n].slot

IndexSlots(d) ==
  IF SlotsDistinct(d) THEN [d EXCEPT !.indexes = @ \cup {"slot"}] ELSE Refused

\* UPDATE knowledge_documents SET version_group_id = id WHERE ... = ''
GroupDocuments(d) ==
  [d EXCEPT !.documents =
     [k \in DOMAIN d.documents |->
        [d.documents[k] EXCEPT !.group = IF @ = 0 THEN k ELSE @]]]

VersionsDistinct(d) ==
  \A k, l \in DOMAIN d.documents : k # l => d.documents[k] # d.documents[l]

IndexVersions(d) ==
  IF VersionsDistinct(d) THEN [d EXCEPT !.indexes = @ \cup {"version"}] ELSE Refused

\* A database as some version of the program left it: it keeps the versions
\* of the documents, all of them, or it does not know of any.
IsDatabase(d) ==
  /\ d \in [extension : BOOLEAN, tables : {"missing", "present"},
            columns : SUBSET Columns, indexes : SUBSET {"slot", "version"},
            dimensions : Nat,
            memories : Seq([slot : STRING, manual : BOOLEAN, edited : BOOLEAN,
                            updated : Int]),
            documents : Seq([group : Nat, version : Nat])]
  /\ \/ \A k \in DOMAIN d.documents : d.documents[k].group = 0
     \/ VersionsDistinct(d) /\ \A k \in DOMAIN d.documents : d.documents[k].group # 0

Apply(d, statement, dimensions) ==
  CASE statement = "tables"    -> CreateTables(d, dimensions)
    [] statement = "protect"   -> ProtectManual(d)
    [] statement = "demote"    -> DemoteDuplicates(d)
    [] statement = "slots"     -> IndexSlots(d)
    [] statement = "group"     -> GroupDocuments(d)
    [] statement = "versions"  -> IndexVersions(d)
    [] OTHER                   -> AddColumn(d, statement)

PostgresSchema ==
  <<"tables", "memory_key", "user_edited", "protect", "demote", "slots",
    "version_group_id", "version", "is_latest", "owner_id", "visibility",
    "group", "versions">>

\* Older SQLite databases have no unique slot: one process, one connection.
SQLiteSchema ==
  <<"tables", "memory_key", "user_edited", "protect",
    "version_group_id", "version", "is_latest", "owner_id", "visibility",
    "group", "versions">>
=============================================================================
