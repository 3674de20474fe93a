------------------------------ MODULE MemoryStore -------------------------------
(***************************************************************************)
(* The long-term memories: the table that is the source of truth, the      *)
(* sqlite-vec index derived from it, and the copy that every chat keeps in *)
(* chat_memory_state.                                                      *)
(*                                                                         *)
(* A batch of structured memory is a sequence of transactions that others  *)
(* interleave with: it reads, asks a model, commits a row, reads the row   *)
(* back, writes its vector and stores the copy of its chat.  The memory    *)
(* routes of the REST API update the table and nothing else.               *)
(***************************************************************************)
EXTENDS Naturals, FiniteSets

CONSTANTS
  Memories, \* memory ids, <category>:<key>
  Facts,    \* values of a memory
  MemChats, \* chats
  Batches,  \* batches in flight
  MaxRow,   \* bound: row ids issued (AUTOINCREMENT)
  CategoryOf,  \* the category of each memory, a namespace of the table
  RecallLimit, \* source_plan.limit or 10
  Absent    \* no row, no vector, no record

VARIABLES
  rows,     \* long_term_memories
  lastRow,  \* the last row id issued
  vectors,  \* vec_memories: the fact whose embedding each row id has
  copies,   \* chat_memory_state: per chat and memory
  batchOf,  \* the local variables of each batch
  useIndex, \* STRUCTURED_MEMORY_RETRIEVAL_MODE is vector or hybrid

  drifted   \* memories whose vector something kept from its row (history)

storeVars == <<rows, lastRow, vectors, copies, batchOf, useIndex, drifted>>

\* superseded and deleted rows are told apart by nothing here
RowStates == {"active", "inactive"}
Records == [fact : Facts, status : RowStates]
RowIds == 1 .. MaxRow
Tables == [id : RowIds, fact : Facts, status : RowStates]
Idle == [step |-> "idle"]

ASSUME StoreAssumption ==
  /\ MaxRow \in Nat /\ Absent \notin Facts \cup Records \cup Tables
  /\ IsFiniteSet(Memories) /\ RecallLimit \in Nat \ {0}

ContentOf(row) == [fact |-> row.fact, status |-> row.status]
RowOf(id, new) == [id |-> id, fact |-> new.fact, status |-> new.status]
StepOf(b) == batchOf[b].step
\* the batch has committed a row and not yet written its vector
Syncing(b, m) == StepOf(b) \in {"reread", "sync"} /\ batchOf[b].memory = m
Overlapped(b, m) == \E c \in Batches \ {b} : Syncing(c, m)
Put(b, new) == batchOf' = [batchOf EXCEPT ![b] = new]
\* the last step: what the batch will leave in its chat's copy
ToCopy(b, known) == Put(b, [step |-> "copy", chat |-> batchOf[b].chat, known |-> known])

StoreInit ==
  /\ rows = [m \in Memories |-> Absent] /\ lastRow = 0
  /\ vectors = [i \in RowIds |-> Absent]
  /\ copies = [c \in MemChats |-> [m \in Memories |-> Absent]]
  /\ batchOf = [b \in Batches |-> Idle] /\ useIndex \in BOOLEAN
  /\ drifted = {}

-----------------------------------------------------------------------------
(* A batch.                                                                *)

Live == {m \in Memories : rows[m] # Absent /\ rows[m].status = "active"}
Listed(m) == IF m \in Live THEN ContentOf(rows[m]) ELSE Absent
\* merge_memory_records: the record of the chat's copy replaces the row's
Merged(chat) ==
  [m \in Memories |-> IF copies[chat][m] # Absent THEN copies[chat][m] ELSE Listed(m)]

Begin(b, chat) ==
  /\ StepOf(b) = "idle"
  /\ Put(b, [step |-> "extract", chat |-> chat, known |-> Merged(chat)])
  /\ UNCHANGED <<rows, lastRow, vectors, copies, useIndex, drifted>>

\* the model is unreachable, fails, or finds nothing valid
Rejected(b) ==
  /\ StepOf(b) = "extract" /\ ToCopy(b, batchOf[b].known)
  /\ UNCHANGED <<rows, lastRow, vectors, copies, useIndex, drifted>>

\* the merge of the new record into what the chat knows
WithNew(b, m, new) == [batchOf[b].known EXCEPT ![m] = new]

\* the model names a memory.
\* INSERT ... ON CONFLICT DO UPDATE: an existing row keeps its id
Commit(b, m, new) ==
  LET fresh == rows[m] = Absent
      id == IF fresh THEN lastRow + 1 ELSE rows[m].id IN
  /\ StepOf(b) = "extract" /\ id \in RowIds
  /\ rows' = [rows EXCEPT ![m] = RowOf(id, new)]
  /\ lastRow' = IF fresh THEN id ELSE lastRow
  /\ drifted' = IF useIndex /\ ~Overlapped(b, m) THEN drifted ELSE drifted \cup {m}
  /\ Put(b, [step |-> "reread", chat |-> batchOf[b].chat, known |-> batchOf[b].known,
             memory |-> m, new |-> new])
  /\ UNCHANGED <<vectors, copies, useIndex>>

\* long_term_store_write_failed: the copy will not have the new record
StoreFails(b, m, new) ==
  /\ StepOf(b) = "extract" /\ ToCopy(b, batchOf[b].known)
  /\ UNCHANGED <<rows, lastRow, vectors, copies, useIndex, drifted>>

\* the row is read back; a route may have removed it, which raises
Reread(b) ==
  LET m == batchOf[b].memory known == WithNew(b, m, batchOf[b].new) IN
  /\ StepOf(b) = "reread"
  /\ \/ rows[m] = Absent /\ ToCopy(b, batchOf[b].known)
     \/ rows[m] # Absent /\ ~useIndex /\ ToCopy(b, known)
     \/ /\ rows[m] # Absent /\ useIndex
        /\ Put(b, [step |-> "sync", chat |-> batchOf[b].chat, known |-> known,
                   memory |-> m, row |-> rows[m]])
  /\ UNCHANGED <<rows, lastRow, vectors, copies, useIndex, drifted>>

\* delete_record: the row id is looked up in the table
Unindexed(m) ==
  IF rows[m] # Absent THEN [vectors EXCEPT ![rows[m].id] = Absent] ELSE vectors

\* Mutant: the vector of a memory that is no longer active is left in place
BugVectorOf(row, m) ==
  IF row.status = "active" THEN [vectors EXCEPT ![row.id] = row.fact] ELSE vectors

\* upsert_record, by the row id that was read
VectorOf(row, m) ==
  IF row.status = "active" THEN [vectors EXCEPT ![row.id] = row.fact] ELSE Unindexed(m)

Sync(b) ==
  LET m == batchOf[b].memory row == batchOf[b].row IN
  /\ StepOf(b) = "sync"
  /\ vectors' = VectorOf(row, m)
  /\ drifted' = IF row = rows[m] /\ ~Overlapped(b, m) THEN drifted \ {m} ELSE drifted
  /\ ToCopy(b, batchOf[b].known) /\ UNCHANGED <<rows, lastRow, copies, useIndex>>

\* no extension, no embedding model, a busy database: logged and swallowed
SyncFails(b) ==
  /\ StepOf(b) = "sync" /\ ToCopy(b, batchOf[b].known)
  /\ drifted' = drifted \cup {batchOf[b].memory}
  /\ UNCHANGED <<rows, lastRow, vectors, copies, useIndex>>

Remember(b) ==
  /\ StepOf(b) = "copy"
  /\ copies' = [copies EXCEPT ![batchOf[b].chat] = batchOf[b].known]
  /\ batchOf' = [batchOf EXCEPT ![b] = Idle]
  /\ UNCHANGED <<rows, lastRow, vectors, useIndex, drifted>>

-----------------------------------------------------------------------------
(* The memory routes, and a restart.                                       *)

SetStatus(m, status) ==
  /\ rows[m] # Absent
  /\ rows' = [rows EXCEPT ![m].status = status]
  /\ drifted' = drifted \cup {m}
  /\ UNCHANGED <<lastRow, vectors, copies, batchOf, useIndex>>

Deactivate(m) == SetStatus(m, "inactive")
Activate(m) == SetStatus(m, "active")

Remove(m) ==
  /\ rows[m] # Absent
  /\ rows' = [rows EXCEPT ![m] = Absent] /\ drifted' = drifted \cup {m}
  /\ UNCHANGED <<lastRow, vectors, copies, batchOf, useIndex>>

Restart ==
  /\ \E b \in Batches : StepOf(b) # "idle"
  /\ batchOf' = [b \in Batches |-> Idle]
  /\ drifted' = drifted \cup {m \in Memories : \E b \in Batches : Syncing(b, m)}
  /\ UNCHANGED <<rows, lastRow, vectors, copies, useIndex>>

StoreNext ==
  \/ \E b \in Batches :
       \/ \E chat \in MemChats : Begin(b, chat)
       \/ \E m \in Memories, new \in Records : Commit(b, m, new) \/ StoreFails(b, m, new)
       \/ Rejected(b) \/ Reread(b)
       \/ Sync(b) \/ SyncFails(b) \/ Remember(b)
  \/ \E m \in Memories : Deactivate(m) \/ Activate(m) \/ Remove(m)
  \/ Restart
StoreSpec == StoreInit /\ [][StoreNext]_storeVars

-----------------------------------------------------------------------------
(* Retrieval.                                                              *)

Believed(chat) == {m \in Memories : copies[chat][m] # Absent /\ copies[chat][m].status = "active"}

SameCategory(m, S) == {n \in S : CategoryOf[n] = CategoryOf[m]}
MatchingRows(matching) == Live \cap matching

\* the possible first RecallLimit of a ranked set
FirstOf(S) ==
  IF Cardinality(S) <= RecallLimit THEN {S} ELSE {T \in SUBSET S : Cardinality(T) = RecallLimit}

Hit(m, fact, from) == [memory |-> m, fact |-> fact, from |-> from]
TableHits(S) == {Hit(m, rows[m].fact, "table") : m \in S}
CopyHits(chat) == {Hit(m, copies[chat][m].fact, "copy") : m \in Believed(chat)}

\* search ranks the matching rows of each category and cuts them; list takes all rows
RowsFound(query, matching) ==
  IF ~query THEN {Live}
  ELSE LET found == MatchingRows(matching) IN
       {S \in SUBSET found : \A m \in found : SameCategory(m, S) \in FirstOf(SameCategory(m, found))}

\* _retrieve_sqlite: the rows found; without any, the copy and the rows it lacks.
\* This and the operators below give the set of the possible answers
FromTable(chat, query, matching) ==
  {IF S # {} THEN TableHits(S) ELSE CopyHits(chat) \cup TableHits(Live \ Believed(chat)) :
     S \in RowsFound(query, matching)}

\* the row ids with a vector, whether or not a row still has the id
VectorIds == {i \in RowIds : vectors[i] # Absent}
\* index.search: the nearest of all vectors; nothing is near no query
Nearest(query) == IF query THEN FirstOf(VectorIds) ELSE {{}}

\* Mutant: hits are answered from the index, without the table
BugFromIndex(query) ==
  {{Hit(m, vectors[rows[m].id], "table") :
      m \in {n \in Live : rows[n].id \in near}} : near \in Nearest(query)}

\* _vector_records: what is near is read again from the table, active rows count
FromIndex(query) == {TableHits({m \in Live : rows[m].id \in near}) : near \in Nearest(query)}

Recalled(chat, query, matching, retrievalMode, reachable) ==
  LET table == FromTable(chat, query, matching) IN
  IF retrievalMode = "sqlite" \/ ~reachable THEN table
  ELSE IF retrievalMode = "vector"
    THEN (FromIndex(query) \ {{}}) \cup (IF {} \in FromIndex(query) THEN table ELSE {})
    ELSE UNION {FirstOf(S \cup T) : S \in table, T \in FromIndex(query)}

-----------------------------------------------------------------------------
(* Properties.                                                             *)

StoreTypeOK ==
  /\ rows \in [Memories -> Tables \cup {Absent}] /\ lastRow \in 0 .. MaxRow
  /\ vectors \in [RowIds -> Facts \cup {Absent}]
  /\ copies \in [MemChats -> [Memories -> Records \cup {Absent}]]
  /\ \A b \in Batches :
       StepOf(b) \in {"idle", "extract", "reread", "sync", "copy"}

(* The derived index follows its table: an active memory has the vector of *)
(* its current fact and no other has one.  The exceptions, after which     *)
(* only a later write of the same memory repairs the index, are a failed   *)
(* vector write, a restart before it, a memory route, and two batches that *)
(* write one memory at the same time.                                      *)
IndexFollowsTable ==
  useIndex =>
    \A m \in Memories \ drifted :
      (rows[m] # Absent /\ \A b \in Batches : ~Syncing(b, m)) =>
        vectors[rows[m].id] = IF rows[m].status = "active" THEN rows[m].fact ELSE Absent

\* how many of the category of m an answer has
Peers(m, answer) == Cardinality(SameCategory(m, {hit.memory : hit \in answer}))
\* what an answer may lack: in the hybrid mode anything, if it is as long as it
\* may be; otherwise what is not near, if there are more vectors than are looked
\* at, and was not found in the table either
MayLack(answer, m, query, matching, retrievalMode, indexed) ==
  \/ indexed /\ retrievalMode = "hybrid" /\ Cardinality(answer) >= RecallLimit
  \/ /\ query /\ (indexed => Cardinality(VectorIds) > RecallLimit)
     /\ \/ indexed /\ retrievalMode = "vector"
        \/ m \in matching /\ Peers(m, answer) >= RecallLimit
        \/ m \notin matching /\ MatchingRows(matching) # {}

(* Whatever the retrieval mode, a drifted index never makes up what is     *)
(* recalled: every fact is the table's, or the chat's own copy of it; and  *)
(* an active memory whose vector, where the index is asked, has not        *)
(* drifted is recalled unless the limit cuts it off or the question        *)
(* matches others only: no failed write, no other batch and no unreachable *)
(* model hides it.                                                         *)
RecallIsAuthoritative ==
  \A c \in MemChats : Live \cup Believed(c) # {} =>
    \A retrievalMode \in {"sqlite", "vector", "hybrid"}, reachable, query \in BOOLEAN,
       matching \in SUBSET Live :
      \A answer \in Recalled(c, query, matching, retrievalMode, reachable) :
        LET indexed == reachable /\ retrievalMode # "sqlite" IN
        /\ \A hit \in answer :
             \/ hit.from = "table" /\ hit.memory \in Live /\ hit.fact = rows[hit.memory].fact
             \/ hit.from = "copy" /\ hit.memory \in Believed(c) /\ hit.fact = copies[c][hit.memory].fact
        /\ \A m \in Live :
             \/ \E hit \in answer : hit.memory = m
             \/ MayLack(answer, m, query, matching, retrievalMode, indexed)
             \/ indexed /\ (m \in drifted \/ \E b \in Batches : Syncing(b, m))

=============================================================================
