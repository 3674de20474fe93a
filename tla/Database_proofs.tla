---------------------------- MODULE Database_proofs ----------------------------
(***************************************************************************)
(* Theorems of what is stored: structured memory and its vector index, the *)
(* copies a fork makes of a chat, the messages an update of the memory     *)
(* consumes and the memories it keeps of what a model proposes.            *)
(***************************************************************************)
EXTENDS MemoryProposals, MemoryBatches, MemoryStore, ChatFork, FiniteSetTheorems,
        WellFoundedInduction, TLAPS

-----------------------------------------------------------------------------
(***************************************************************************)
(* Any number of memories, chats and concurrent batches.  That the vector  *)
(* index follows its table rests on who owns a row id (RowIdsAreOwn), also *)
(* after the row has gone, and on what a batch that is about to write a    *)
(* vector still knows of its row (SyncKnowsRow).                           *)
(***************************************************************************)

Contents == [Memories -> Records \cup {Absent}]

(* The local variables of a batch, by its step.                            *)
BatchesTyped ==
  /\ batchOf = [b \in Batches |-> batchOf[b]]
  /\ \A b \in Batches :
       /\ StepOf(b) \in {"idle", "extract", "reread", "sync", "copy"}
       /\ StepOf(b) # "idle" => batchOf[b].chat \in MemChats /\ batchOf[b].known \in Contents
       /\ StepOf(b) \in {"reread", "sync"} => batchOf[b].memory \in Memories
       /\ StepOf(b) = "reread" => batchOf[b].new \in Records
       /\ StepOf(b) = "sync" => batchOf[b].row \in Tables

(* AUTOINCREMENT: a row id is never issued twice, so neither the row of a  *)
(* memory nor the row a batch has read shares its id with another memory.  *)
RowIdsAreOwn ==
  \A m \in Memories :
    rows[m] # Absent =>
      /\ rows[m].id <= lastRow
      /\ \A k \in Memories \ {m} : rows[k] # Absent => rows[k].id # rows[m].id
      /\ \A b \in Batches : StepOf(b) = "sync" /\ batchOf[b].memory # m
                              => batchOf[b].row.id # rows[m].id
ReadRowsWereIssued == \A b \in Batches : StepOf(b) = "sync" => batchOf[b].row.id <= lastRow

(* A batch that is about to write a vector has read the row as it is, or   *)
(* something has kept the vector from the row.                             *)
SyncKnowsRow ==
  \A b \in Batches : StepOf(b) = "sync" =>
    batchOf[b].row = rows[batchOf[b].memory] \/ batchOf[b].memory \in drifted

\* what the vector of a row should be
Expected(row) == IF row.status = "active" THEN row.fact ELSE Absent
Indexed(m) == rows[m] # Absent => vectors[rows[m].id] = Expected(rows[m])

StoreInv == /\ StoreTypeOK /\ BatchesTyped
            /\ RowIdsAreOwn /\ ReadRowsWereIssued /\ SyncKnowsRow
            /\ IndexFollowsTable

-----------------------------------------------------------------------------
LEMMA StoreInitInv == StoreInit => StoreInv
  BY StoreAssumption
     DEF StoreInit, StoreInv, StoreTypeOK, BatchesTyped, RowIdsAreOwn, ReadRowsWereIssued,
         SyncKnowsRow, IndexFollowsTable, StepOf, Idle, Syncing, RowIds

(* What a batch starts from is typed: the copy of its chat over the table. *)
LEMMA MergedTypes ==
  ASSUME StoreTypeOK, NEW chat \in MemChats
  PROVE  Merged(chat) \in Contents
<1>1. \A m \in Memories : Listed(m) \in Records \cup {Absent}
  BY DEF StoreTypeOK, Listed, Live, ContentOf, Tables, Records
<1> QED
  BY <1>1 DEF StoreTypeOK, Merged, Contents

(* Every step keeps the types.                                             *)
LEMMA StoreTypeStep ==
  ASSUME StoreTypeOK, BatchesTyped, [StoreNext]_storeVars
  PROVE  StoreTypeOK' /\ BatchesTyped'
<1> USE StoreAssumption DEF StoreTypeOK, BatchesTyped, StepOf, Put, ToCopy
<1> DEFINE Kept == StoreTypeOK' /\ BatchesTyped'
<1>1. ASSUME NEW b \in Batches, NEW chat \in MemChats, Begin(b, chat) PROVE Kept
  BY <1>1, MergedTypes DEF Begin
<1>2. ASSUME NEW b \in Batches, Rejected(b) PROVE Kept
  BY <1>2 DEF Rejected
<1>3. ASSUME NEW b \in Batches, NEW m \in Memories, NEW new \in Records, Commit(b, m, new)
      PROVE  Kept
  <2>1. \A id \in RowIds : RowOf(id, new) \in Tables
    BY DEF RowOf, Tables, Records
  <2>2. lastRow' \in 0 .. MaxRow
    BY <1>3 DEF Commit, RowIds
  <2> QED
    BY <1>3, <2>1, <2>2 DEF Commit
<1>4. ASSUME NEW b \in Batches, NEW m \in Memories, NEW new \in Records, StoreFails(b, m, new)
      PROVE  Kept
  BY <1>4 DEF StoreFails
<1>5. ASSUME NEW b \in Batches, Reread(b) PROVE Kept
  <2>1. StepOf(b) = "reread" => WithNew(b, batchOf[b].memory, batchOf[b].new) \in Contents
    BY DEF WithNew, Contents
  <2> QED
    BY <1>5, <2>1 DEF Reread
<1>6. ASSUME NEW b \in Batches, Sync(b) PROVE Kept
  <2>1. vectors' \in [RowIds -> Facts \cup {Absent}]
    BY <1>6 DEF Sync, VectorOf, Unindexed, Tables
  <2> QED
    BY <1>6, <2>1 DEF Sync
<1>7. ASSUME NEW b \in Batches, SyncFails(b) PROVE Kept
  BY <1>7 DEF SyncFails
<1>8. ASSUME NEW b \in Batches, Remember(b) PROVE Kept
  BY <1>8 DEF Remember, Contents, Idle
<1>9. ASSUME NEW m \in Memories, NEW status \in RowStates, SetStatus(m, status) PROVE Kept
  <2>1. [rows[m] EXCEPT !.status = status] \in Tables
    BY <1>9 DEF SetStatus, Tables
  <2> QED
    BY <1>9, <2>1 DEF SetStatus
<1>10. ASSUME NEW m \in Memories, Remove(m) PROVE Kept
  BY <1>10 DEF Remove
<1>11. CASE Restart
  BY <1>11 DEF Restart, Idle
<1>12. CASE UNCHANGED storeVars
  BY <1>12 DEF storeVars
<1>13. ASSUME NEW m \in Memories, Deactivate(m) \/ Activate(m) PROVE Kept
  BY <1>13, <1>9 DEF Deactivate, Activate, RowStates
<1> QED
  BY <1>1, <1>2, <1>3, <1>4, <1>5, <1>6, <1>7, <1>8, <1>10, <1>11, <1>12, <1>13 DEF StoreNext

(* Row ids stay their memory's own: only the first commit of a memory      *)
(* issues one, and it is larger than any a batch has read.                 *)
LEMMA RowIdStep ==
  ASSUME StoreInv, [StoreNext]_storeVars
  PROVE  RowIdsAreOwn' /\ ReadRowsWereIssued'
<1> USE StoreAssumption DEF StoreInv, RowIdsAreOwn, ReadRowsWereIssued, StepOf, Put, ToCopy
<1> DEFINE Kept == RowIdsAreOwn' /\ ReadRowsWereIssued'
<1>t. StoreTypeOK /\ BatchesTyped /\ StoreTypeOK' /\ BatchesTyped'
  BY StoreTypeStep
<1>1. ASSUME NEW b \in Batches, NEW chat \in MemChats, Begin(b, chat) PROVE Kept
  BY <1>1, <1>t DEF Begin, BatchesTyped
<1>2. ASSUME NEW b \in Batches, Rejected(b) PROVE Kept
  BY <1>2, <1>t DEF Rejected, BatchesTyped
<1>3. ASSUME NEW b \in Batches, NEW m \in Memories, NEW new \in Records, Commit(b, m, new)
      PROVE  Kept
  <2> DEFINE id == IF rows[m] = Absent THEN lastRow + 1 ELSE rows[m].id
  <2>1. /\ rows' = [rows EXCEPT ![m] = RowOf(id, new)]
        /\ lastRow' = IF rows[m] = Absent THEN id ELSE lastRow
        /\ RowOf(id, new).id = id /\ RowOf(id, new) # Absent
    <3>1. RowOf(id, new) \in Tables
      BY <1>3 DEF Commit, RowOf, Tables, Records
    <3> QED
      BY <1>3, <3>1 DEF Commit, RowOf
  <2>2. /\ lastRow \in Nat /\ lastRow' \in Nat
        /\ \A k \in Memories : rows[k] # Absent => rows[k].id \in Nat
        /\ \A c \in Batches : StepOf(c) = "sync" => batchOf[c].row.id \in Nat
    BY <1>t DEF StoreTypeOK, BatchesTyped, Tables, RowIds
  <2>3. \A c \in Batches : StepOf(c)' = "sync" =>
          StepOf(c) = "sync" /\ batchOf'[c] = batchOf[c]
    BY <1>3, <1>t DEF Commit, BatchesTyped
  <2>4. id \in Nat /\ id <= lastRow' /\ lastRow <= lastRow'
    BY <2>1, <2>2
  <2>5. \A k \in Memories \ {m} :
          rows[k] # Absent => rows[k].id # id /\ rows[k].id <= lastRow'
    BY <2>1, <2>2
  <2>6. \A c \in Batches :
          StepOf(c) = "sync" /\ batchOf[c].memory # m => batchOf[c].row.id # id
    BY <2>1, <2>2
  <2>7. rows' \in [Memories -> Tables \cup {Absent}] /\ rows \in [Memories -> Tables \cup {Absent}]
    BY <1>t DEF StoreTypeOK
  <2>8. rows'[m].id = id /\ \A k \in Memories \ {m} : rows'[k] = rows[k]
    BY <2>1, <2>7
  <2>9. RowIdsAreOwn'
    <3>1. SUFFICES ASSUME NEW k \in Memories, rows'[k] # Absent
                   PROVE  /\ rows'[k].id <= lastRow'
                          /\ \A j \in Memories \ {k} : rows'[j] # Absent => rows'[j].id # rows'[k].id
                          /\ \A c \in Batches : StepOf(c)' = "sync" /\ batchOf'[c].memory # k
                               => batchOf'[c].row.id # rows'[k].id
      OBVIOUS
    <3>2. CASE k = m
      BY <3>1, <3>2, <2>3, <2>4, <2>5, <2>6, <2>8
    <3>3. CASE k # m
      BY <3>1, <3>3, <2>3, <2>4, <2>5, <2>6, <2>8
    <3> QED
      BY <3>2, <3>3
  <2> QED
    BY <2>2, <2>3, <2>4, <2>9
<1>4. ASSUME NEW b \in Batches, NEW m \in Memories, NEW new \in Records, StoreFails(b, m, new)
      PROVE  Kept
  BY <1>4, <1>t DEF StoreFails, BatchesTyped
<1>5. ASSUME NEW b \in Batches, Reread(b) PROVE Kept
  BY <1>5, <1>t DEF Reread, BatchesTyped
<1>6. ASSUME NEW b \in Batches, Sync(b) PROVE Kept
  BY <1>6, <1>t DEF Sync, BatchesTyped
<1>7. ASSUME NEW b \in Batches, SyncFails(b) PROVE Kept
  BY <1>7, <1>t DEF SyncFails, BatchesTyped
<1>8. ASSUME NEW b \in Batches, Remember(b) PROVE Kept
  BY <1>8, <1>t DEF Remember, BatchesTyped, Idle
<1>9. ASSUME NEW m \in Memories, NEW status \in RowStates, SetStatus(m, status) PROVE Kept
  <2>1. rows'[m].id = rows[m].id /\ rows[m] # Absent /\ \A k \in Memories \ {m} : rows'[k] = rows[k]
    BY <1>9, <1>t DEF SetStatus, StoreTypeOK, Tables
  <2> QED
    BY <1>9, <2>1 DEF SetStatus
<1>10. ASSUME NEW m \in Memories, Remove(m) PROVE Kept
  BY <1>10, <1>t DEF Remove, StoreTypeOK
<1>11. CASE Restart
  BY <1>11 DEF Restart, Idle
<1>12. CASE UNCHANGED storeVars
  BY <1>12 DEF storeVars
<1>13. ASSUME NEW m \in Memories, Deactivate(m) \/ Activate(m) PROVE Kept
  BY <1>13, <1>9 DEF Deactivate, Activate, RowStates
<1> QED
  BY <1>1, <1>2, <1>3, <1>4, <1>5, <1>6, <1>7, <1>8, <1>10, <1>11, <1>12, <1>13 DEF StoreNext

(* What a batch has read stays the row unless the memory has drifted.      *)
LEMMA SyncKnowsStep ==
  ASSUME StoreInv, [StoreNext]_storeVars
  PROVE  SyncKnowsRow'
<1> USE DEF StoreInv, SyncKnowsRow, StepOf, Put, ToCopy
<1>t. StoreTypeOK /\ BatchesTyped /\ StoreTypeOK' /\ BatchesTyped'
  BY StoreTypeStep
<1>1. ASSUME NEW b \in Batches, NEW chat \in MemChats, Begin(b, chat) PROVE SyncKnowsRow'
  BY <1>1, <1>t DEF Begin, BatchesTyped
<1>2. ASSUME NEW b \in Batches, Rejected(b) PROVE SyncKnowsRow'
  BY <1>2, <1>t DEF Rejected, BatchesTyped
<1>3. ASSUME NEW b \in Batches, NEW m \in Memories, NEW new \in Records, Commit(b, m, new)
      PROVE  SyncKnowsRow'
  <2>1. \A c \in Batches : StepOf(c)' = "sync" =>
          c # b /\ StepOf(c) = "sync" /\ batchOf'[c] = batchOf[c]
    BY <1>3, <1>t DEF Commit, BatchesTyped
  <2>2. \A k \in Memories \ {m} : rows'[k] = rows[k]
    BY <1>3, <1>t DEF Commit, StoreTypeOK
  <2>3. \A c \in Batches : StepOf(c)' = "sync" /\ batchOf'[c].memory = m => m \in drifted'
    BY <1>3, <2>1 DEF Commit, Overlapped, Syncing
  <2>4. drifted \subseteq drifted'
    BY <1>3 DEF Commit
  <2> QED
    BY <2>1, <2>2, <2>3, <2>4, <1>t DEF BatchesTyped
<1>4. ASSUME NEW b \in Batches, NEW m \in Memories, NEW new \in Records, StoreFails(b, m, new)
      PROVE  SyncKnowsRow'
  BY <1>4, <1>t DEF StoreFails, BatchesTyped
<1>5. ASSUME NEW b \in Batches, Reread(b) PROVE SyncKnowsRow'
  BY <1>5, <1>t DEF Reread, BatchesTyped
<1>6. ASSUME NEW b \in Batches, Sync(b) PROVE SyncKnowsRow'
  <2>1. \A c \in Batches : StepOf(c)' = "sync" =>
          c # b /\ StepOf(c) = "sync" /\ batchOf'[c] = batchOf[c]
    BY <1>6, <1>t DEF Sync, BatchesTyped
  <2>2. \A c \in Batches : StepOf(c)' = "sync" /\ batchOf[c].memory \in drifted
                             => batchOf[c].memory \in drifted'
    BY <1>6, <2>1 DEF Sync, Overlapped, Syncing
  <2> QED
    BY <1>6, <2>1, <2>2 DEF Sync
<1>7. ASSUME NEW b \in Batches, SyncFails(b) PROVE SyncKnowsRow'
  BY <1>7, <1>t DEF SyncFails, BatchesTyped
<1>8. ASSUME NEW b \in Batches, Remember(b) PROVE SyncKnowsRow'
  BY <1>8, <1>t DEF Remember, BatchesTyped, Idle
<1>9. ASSUME NEW m \in Memories, NEW status \in RowStates, SetStatus(m, status)
      PROVE  SyncKnowsRow'
  BY <1>9, <1>t DEF SetStatus, StoreTypeOK, BatchesTyped
<1>10. ASSUME NEW m \in Memories, Remove(m) PROVE SyncKnowsRow'
  BY <1>10, <1>t DEF Remove, StoreTypeOK, BatchesTyped
<1>11. CASE Restart
  BY <1>11 DEF Restart, Idle
<1>12. CASE UNCHANGED storeVars
  BY <1>12 DEF storeVars
<1>13. ASSUME NEW m \in Memories, Deactivate(m) \/ Activate(m) PROVE SyncKnowsRow'
  BY <1>13, <1>9 DEF Deactivate, Activate, RowStates
<1> QED
  BY <1>1, <1>2, <1>3, <1>4, <1>5, <1>6, <1>7, <1>8, <1>10, <1>11, <1>12, <1>13 DEF StoreNext

(* The index follows: the vector that a batch writes is its row's, and it  *)
(* is the vector of no other memory.                                       *)
LEMMA IndexStep ==
  ASSUME StoreInv, [StoreNext]_storeVars
  PROVE  IndexFollowsTable'
<1> USE DEF StoreInv, StepOf, Put, ToCopy
<1>t. StoreTypeOK /\ BatchesTyped /\ StoreTypeOK' /\ BatchesTyped'
  BY StoreTypeStep
<1> DEFINE Bound(m) == m \notin drifted /\ \A b \in Batches : ~Syncing(b, m)
<1>o. \A m \in Memories : useIndex /\ Bound(m) => Indexed(m)
  BY DEF IndexFollowsTable, Indexed, Expected
<1>s. SUFFICES ASSUME NEW m \in Memories, useIndex', Bound(m)' PROVE Indexed(m)'
  BY DEF IndexFollowsTable, Indexed, Expected
<1>0. ASSUME UNCHANGED <<rows, vectors, useIndex>>, Bound(m) PROVE Indexed(m)'
  BY <1>0, <1>o, <1>s DEF Indexed, Expected
<1>1. ASSUME NEW b \in Batches, NEW chat \in MemChats, Begin(b, chat) PROVE Indexed(m)'
  BY <1>1, <1>t, <1>s, <1>0 DEF Begin, BatchesTyped, Syncing
<1>2. ASSUME NEW b \in Batches, Rejected(b) PROVE Indexed(m)'
  BY <1>2, <1>t, <1>s, <1>0 DEF Rejected, BatchesTyped, Syncing
<1>3. ASSUME NEW b \in Batches, NEW k \in Memories, NEW new \in Records, Commit(b, k, new)
      PROVE  Indexed(m)'
  <2>1. m # k
    BY <1>3, <1>t, <1>s DEF Commit, BatchesTyped, Syncing
  <2>2. Bound(m)
    BY <1>3, <1>t, <1>s DEF Commit, BatchesTyped, Syncing
  <2>3. rows'[m] = rows[m] /\ vectors' = vectors /\ useIndex
    BY <1>3, <2>1, <1>t, <1>s DEF Commit, StoreTypeOK
  <2> QED
    BY <2>2, <2>3, <1>o DEF Indexed, Expected
<1>4. ASSUME NEW b \in Batches, NEW k \in Memories, NEW new \in Records, StoreFails(b, k, new)
      PROVE  Indexed(m)'
  BY <1>4, <1>t, <1>s, <1>0 DEF StoreFails, BatchesTyped, Syncing
<1>5. ASSUME NEW b \in Batches, Reread(b) PROVE Indexed(m)'
  <2>1. CASE m = batchOf[b].memory
    <3>1. rows[m] = Absent /\ rows' = rows
      BY <1>5, <2>1, <1>t, <1>s DEF Reread, BatchesTyped, Syncing
    <3> QED
      BY <3>1 DEF Indexed
  <2>2. CASE m # batchOf[b].memory
    BY <1>5, <2>2, <1>t, <1>s, <1>0 DEF Reread, BatchesTyped, Syncing
  <2> QED
    BY <2>1, <2>2
<1>6. ASSUME NEW b \in Batches, Sync(b) PROVE Indexed(m)'
  <2> DEFINE k == batchOf[b].memory
             row == batchOf[b].row
  <2>1. /\ StepOf(b) = "sync" /\ rows' = rows /\ useIndex /\ vectors' = VectorOf(row, k)
        /\ \A c \in Batches \ {b} : batchOf'[c] = batchOf[c]
        /\ k \in Memories /\ row \in Tables
    BY <1>6, <1>t, <1>s DEF Sync, BatchesTyped
  <2>2. CASE m = k
    <3>1. ~Overlapped(b, k)
      BY <2>1, <2>2, <1>s DEF Overlapped, Syncing
    <3>2. row = rows[k]
      BY <1>6, <2>1, <2>2, <3>1, <1>s DEF Sync, SyncKnowsRow
    <3>3. rows[k] \in Tables /\ rows[k].id \in RowIds
      BY <2>1, <3>2 DEF Tables
    <3> QED
      BY <2>1, <2>2, <3>2, <3>3, <1>t, StoreAssumption
         DEF VectorOf, Unindexed, Indexed, Expected, StoreTypeOK
  <2>3. CASE m # k
    <3>1. Bound(m)
      BY <1>6, <2>1, <2>3, <1>s DEF Sync, Syncing
    <3>2. rows[m] # Absent => rows[m].id # row.id /\ (rows[k] # Absent => rows[m].id # rows[k].id)
      BY <2>1, <2>3 DEF RowIdsAreOwn
    <3>3. rows[m] # Absent => rows[m].id \in RowIds
      BY <1>t DEF StoreTypeOK, Tables
    <3>4. rows[m] # Absent => vectors'[rows[m].id] = vectors[rows[m].id]
      BY <2>1, <3>2, <3>3, <1>t DEF VectorOf, Unindexed, StoreTypeOK
    <3> QED
      BY <2>1, <3>1, <3>4, <1>o DEF Indexed, Expected
  <2> QED
    BY <2>2, <2>3
<1>7. ASSUME NEW b \in Batches, SyncFails(b) PROVE Indexed(m)'
  <2>1. m # batchOf[b].memory
    BY <1>7, <1>s DEF SyncFails
  <2> QED
    BY <1>7, <2>1, <1>t, <1>s, <1>0 DEF SyncFails, BatchesTyped, Syncing
<1>8. ASSUME NEW b \in Batches, Remember(b) PROVE Indexed(m)'
  BY <1>8, <1>t, <1>s, <1>0 DEF Remember, BatchesTyped, Idle, Syncing
<1>9. ASSUME NEW k \in Memories, NEW status \in RowStates, SetStatus(k, status)
      PROVE  Indexed(m)'
  <2>1. m # k /\ Bound(m)
    BY <1>9, <1>s DEF SetStatus, Syncing
  <2>2. rows'[m] = rows[m] /\ vectors' = vectors /\ useIndex
    BY <1>9, <2>1, <1>t, <1>s DEF SetStatus, StoreTypeOK
  <2> QED
    BY <2>1, <2>2, <1>o DEF Indexed, Expected
<1>10. ASSUME NEW k \in Memories, Remove(k) PROVE Indexed(m)'
  <2>1. m # k /\ Bound(m)
    BY <1>10, <1>s DEF Remove, Syncing
  <2>2. rows'[m] = rows[m] /\ vectors' = vectors /\ useIndex
    BY <1>10, <2>1, <1>t, <1>s DEF Remove, StoreTypeOK
  <2> QED
    BY <2>1, <2>2, <1>o DEF Indexed, Expected
<1>11. CASE Restart
  BY <1>11, <1>s, <1>0 DEF Restart
<1>12. CASE UNCHANGED storeVars
  BY <1>12, <1>s, <1>0 DEF storeVars, Syncing
<1>13. ASSUME NEW k \in Memories, Deactivate(k) \/ Activate(k) PROVE Indexed(m)'
  BY <1>13, <1>9 DEF Deactivate, Activate, RowStates
<1> QED
  BY <1>1, <1>2, <1>3, <1>4, <1>5, <1>6, <1>7, <1>8, <1>10, <1>11, <1>12, <1>13 DEF StoreNext

(* The store's inductive invariant.                                        *)
THEOREM StoreInvariant == StoreSpec => []StoreInv
<1>1. StoreInv /\ [StoreNext]_storeVars => StoreInv'
  BY StoreTypeStep, RowIdStep, SyncKnowsStep, IndexStep DEF StoreInv
<1> QED
  BY <1>1, StoreInitInv, PTL DEF StoreSpec

(* Table, index, copies and batches keep their types.                      *)
THEOREM StoreTyped == StoreSpec => []StoreTypeOK
<1>1. StoreInv => StoreTypeOK
  BY DEF StoreInv
<1> QED
  BY <1>1, StoreInvariant, PTL

(* Unless something kept it from doing so, the vector of every memory is   *)
(* that of its current row (structured_memory_vector_sync).                *)
THEOREM IndexFollows == StoreSpec => []IndexFollowsTable
<1>1. StoreInv => IndexFollowsTable
  BY DEF StoreInv
<1> QED
  BY <1>1, StoreInvariant, PTL

(* Without the index nothing writes a vector: every memory that has a row  *)
(* counts as drifted.                                                      *)
UnindexedDrift ==
  ~useIndex => /\ \A m \in Memories : rows[m] # Absent => m \in drifted
               /\ \A b \in Batches : StepOf(b) # "sync"

LEMMA DriftStep ==
  ASSUME StoreInv, UnindexedDrift, [StoreNext]_storeVars
  PROVE  UnindexedDrift'
<1>. USE DEF UnindexedDrift, StepOf
<1>1. rows \in [Memories -> Tables \cup {Absent}]
  BY DEF StoreInv, StoreTypeOK
<1>2. batchOf = [b \in Batches |-> batchOf[b]]
  BY DEF StoreInv, BatchesTyped
<1>3. ASSUME NEW b \in Batches, NEW m \in Memories, NEW new \in Records, Commit(b, m, new)
      PROVE  UnindexedDrift'
  BY <1>1, <1>2, <1>3 DEF Commit, Put
<1>4. ASSUME NEW b \in Batches, Sync(b) \/ SyncFails(b)
      PROVE  UnindexedDrift'
  BY <1>4 DEF Sync, SyncFails
<1>5. ASSUME NEW k \in Memories, Deactivate(k) \/ Activate(k) \/ Remove(k)
      PROVE  UnindexedDrift'
  BY <1>1, <1>5 DEF Deactivate, Activate, SetStatus, Remove
<1>6. ASSUME NEW b \in Batches, NEW chat \in MemChats, Begin(b, chat)
      PROVE  UnindexedDrift'
  BY <1>2, <1>6 DEF Begin, Put
<1>7. ASSUME NEW b \in Batches, NEW m \in Memories, NEW new \in Records, StoreFails(b, m, new)
      PROVE  UnindexedDrift'
  BY <1>2, <1>7 DEF StoreFails, Put, ToCopy
<1>8. ASSUME NEW b \in Batches, Rejected(b) \/ Reread(b)
      PROVE  UnindexedDrift'
  BY <1>2, <1>8 DEF Rejected, Reread, Put, ToCopy
<1>9. ASSUME NEW b \in Batches, Remember(b)
      PROVE  UnindexedDrift'
  BY <1>2, <1>9 DEF Remember, Idle
<1>10. CASE Restart
  BY <1>10 DEF Restart, Idle
<1>11. CASE UNCHANGED storeVars
  BY <1>11 DEF storeVars
<1>. QED  BY <1>3, <1>4, <1>5, <1>6, <1>7, <1>8, <1>9, <1>10, <1>11 DEF StoreNext

(* What the cut of a ranked set keeps: some of it, as much as may be.       *)
LEMMA CutKeeps ==
  ASSUME NEW S, NEW T \in FirstOf(S)
  PROVE  T \subseteq S /\ (T = S \/ Cardinality(T) = RecallLimit)
BY DEF FirstOf

(* A longer answer has as many memories of a category.                     *)
LEMMA PeersGrow ==
  ASSUME StoreInv, NEW S, NEW T, S \subseteq T, NEW m, \A hit \in T : hit.memory \in Memories
  PROVE  Peers(m, S) <= Peers(m, T) /\ Peers(m, S) \in Nat /\ Peers(m, T) \in Nat
<1>1. SameCategory(m, {hit.memory : hit \in S}) \subseteq SameCategory(m, {hit.memory : hit \in T})
  BY DEF SameCategory
<1>2. SameCategory(m, {hit.memory : hit \in T}) \subseteq Memories
  BY DEF SameCategory
<1>3. IsFiniteSet(SameCategory(m, {hit.memory : hit \in T}))
  BY <1>2, FS_Subset, StoreAssumption
<1>. QED  BY <1>1, <1>3, FS_Subset, FS_CardinalityType DEF Peers

(* What is recalled is the table's or the chat's own, and what the table   *)
(* and an intact index hold is recalled, as far as the limit goes.         *)
LEMMA RecallFollows ==
  ASSUME StoreInv, UnindexedDrift
  PROVE  RecallIsAuthoritative
<1>1. /\ \A m \in Live : rows[m] # Absent /\ rows[m] \in Tables /\ rows[m].status = "active"
      /\ Live \subseteq Memories
  BY DEF StoreInv, StoreTypeOK, Live
<1>. DEFINE True(c, hit) ==
       \/ hit.from = "table" /\ hit.memory \in Live /\ hit.fact = rows[hit.memory].fact
       \/ hit.from = "copy" /\ hit.memory \in Believed(c) /\ hit.fact = copies[c][hit.memory].fact
     Has(answer, m) == \E hit \in answer : hit.memory = m
<1>2. ASSUME NEW c \in MemChats, NEW query \in BOOLEAN, NEW matching \in SUBSET Live,
             NEW answer \in FromTable(c, query, matching)
      PROVE  /\ \A hit \in answer : True(c, hit) /\ hit.memory \in Memories
             /\ \A m \in Live :
                  \/ Has(answer, m)
                  \/ query /\ m \in matching /\ Peers(m, answer) >= RecallLimit
                  \/ query /\ m \notin matching /\ MatchingRows(matching) # {}
  <2>1. PICK S \in RowsFound(query, matching) :
          answer = IF S # {} THEN TableHits(S) ELSE CopyHits(c) \cup TableHits(Live \ Believed(c))
    BY DEF FromTable
  <2>2. S \subseteq Live /\ (query => S \subseteq MatchingRows(matching))
    BY <2>1 DEF RowsFound, MatchingRows
  <2>3. \A hit \in answer : True(c, hit) /\ hit.memory \in Memories
    BY <1>1, <2>1, <2>2 DEF TableHits, CopyHits, Hit, Believed
  <2>4. ASSUME NEW m \in S
        PROVE  Has(answer, m)
    <3>1. Hit(m, rows[m].fact, "table") \in answer
      BY <2>1 DEF TableHits
    <3>. QED  BY <3>1 DEF Hit
  <2>5. ASSUME NEW m \in Live, S = {}
        PROVE  Has(answer, m)
    <3>1. CASE m \in Believed(c)
      <4>1. Hit(m, copies[c][m].fact, "copy") \in answer
        BY <2>1, <2>5, <3>1 DEF CopyHits
      <4>. QED  BY <4>1 DEF Hit
    <3>2. CASE m \notin Believed(c)
      <4>1. Hit(m, rows[m].fact, "table") \in answer
        BY <2>1, <2>5, <3>2 DEF TableHits
      <4>. QED  BY <4>1 DEF Hit
    <3>. QED  BY <3>1, <3>2
  <2>6. ASSUME NEW m \in Live, query, m \in matching, m \notin S, S # {}
        PROVE  Peers(m, answer) >= RecallLimit
    <3>1. m \in MatchingRows(matching)
      BY <2>6 DEF MatchingRows
    <3>2. SameCategory(m, S) \in FirstOf(SameCategory(m, MatchingRows(matching)))
      BY <2>1, <2>6, <3>1 DEF RowsFound
    <3>3. SameCategory(m, S) # SameCategory(m, MatchingRows(matching))
      BY <2>6, <3>1 DEF SameCategory
    <3>4. Cardinality(SameCategory(m, S)) = RecallLimit
      BY <3>2, <3>3, CutKeeps
    <3>5. /\ \A hit \in answer : hit.memory \in S
          /\ \A n \in S : \E hit \in answer : hit.memory = n
      BY <2>1, <2>4, <2>6 DEF TableHits, Hit
    <3>6. {hit.memory : hit \in answer} = S
      BY <3>5
    <3>7. Peers(m, answer) = RecallLimit
      BY <3>4, <3>6, Zenon DEF Peers
    <3>. QED  BY <3>7, StoreAssumption
  <2>7. ASSUME NEW m \in Live, query, m \notin matching, S # {}
        PROVE  MatchingRows(matching) # {}
    BY <2>2, <2>7
  <2>8. ASSUME NEW m \in Live, ~query
        PROVE  Has(answer, m)
    BY <2>1, <2>4, <2>5, <2>8 DEF RowsFound
  <2>. QED  BY <2>3, <2>4, <2>5, <2>6, <2>7, <2>8
<1>3. Cardinality(VectorIds) \in Nat
  <2>1. VectorIds \subseteq 1 .. MaxRow
    BY DEF VectorIds, RowIds
  <2>2. IsFiniteSet(1 .. MaxRow)
    BY FS_Interval, StoreAssumption
  <2>3. IsFiniteSet(VectorIds)
    BY <2>1, <2>2, FS_Subset
  <2>. QED  BY <2>3, FS_CardinalityType
<1>4. ASSUME NEW query \in BOOLEAN, NEW hits \in FromIndex(query), NEW c \in MemChats
      PROVE  /\ \A hit \in hits : True(c, hit) /\ hit.memory \in Memories
             /\ \A m \in Live : (m \notin drifted /\ \A b \in Batches : ~Syncing(b, m)) =>
                  Has(hits, m) \/ ~query \/ Cardinality(VectorIds) > RecallLimit
             /\ ~query => hits = {}
  <2>1. PICK near \in Nearest(query) : hits = TableHits({m \in Live : rows[m].id \in near})
    BY DEF FromIndex
  <2>2. \A hit \in hits : True(c, hit) /\ hit.memory \in Memories
    BY <1>1, <2>1 DEF TableHits, Hit
  <2>3. ASSUME NEW m \in Live, m \notin drifted, \A b \in Batches : ~Syncing(b, m)
        PROVE  rows[m].id \in VectorIds
    <3>1. useIndex
      BY <1>1, <2>3 DEF UnindexedDrift
    <3>2. vectors[rows[m].id] = rows[m].fact
      BY <1>1, <2>3, <3>1 DEF StoreInv, IndexFollowsTable
    <3>3. rows[m].fact # Absent /\ rows[m].id \in RowIds
      BY <1>1, StoreAssumption DEF Tables
    <3>. QED  BY <3>2, <3>3 DEF VectorIds
  <2>4. ASSUME NEW m \in Live, rows[m].id \in VectorIds, query, ~Has(hits, m)
        PROVE  Cardinality(VectorIds) > RecallLimit
    <3>1. rows[m].id \notin near
      <4>1. rows[m].id \in near => Hit(m, rows[m].fact, "table") \in hits
        BY <2>1 DEF TableHits
      <4>. QED  BY <2>4, <4>1 DEF Hit
    <3>2. near # VectorIds /\ near \in FirstOf(VectorIds)
      BY <2>4, <3>1 DEF Nearest
    <3>. QED  BY <1>3, <3>2, StoreAssumption DEF FirstOf
  <2>5. ASSUME ~query
        PROVE  hits = {}
    BY <2>1, <2>5 DEF Nearest, TableHits
  <2>. QED  BY <2>2, <2>3, <2>4, <2>5
<1>5. SUFFICES ASSUME NEW c \in MemChats, NEW mode \in {"sqlite", "vector", "hybrid"},
                      NEW reachable \in BOOLEAN, NEW query \in BOOLEAN, NEW matching \in SUBSET Live,
                      NEW answer \in Recalled(c, query, matching, mode, reachable)
               PROVE  /\ \A hit \in answer : True(c, hit)
                      /\ \A m \in Live :
                           \/ Has(answer, m)
                           \/ MayLack(answer, m, query, matching, mode, reachable /\ mode # "sqlite")
                           \/ /\ reachable /\ mode # "sqlite"
                              /\ m \in drifted \/ \E b \in Batches : Syncing(b, m)
  BY DEF RecallIsAuthoritative
<1>6. CASE mode = "sqlite" \/ ~reachable
  <2>1. answer \in FromTable(c, query, matching)
    BY <1>6 DEF Recalled
  <2>2. query => (reachable /\ mode # "sqlite" => Cardinality(VectorIds) > RecallLimit)
    BY <1>6
  <2>. QED  BY <1>2, <1>6, <2>1, <2>2 DEF MayLack
<1>7. CASE mode = "vector" /\ reachable
  <2>1. \/ answer \in FromIndex(query) /\ answer # {}
        \/ {} \in FromIndex(query) /\ answer \in FromTable(c, query, matching)
    BY <1>7 DEF Recalled
  <2>2. CASE answer \in FromIndex(query) /\ answer # {}
    BY <1>4, <1>7, <2>2 DEF MayLack
  <2>3. CASE {} \in FromIndex(query) /\ answer \in FromTable(c, query, matching)
    <3>1. ASSUME NEW m \in Live, m \notin drifted, \A b \in Batches : ~Syncing(b, m)
          PROVE  ~query \/ Cardinality(VectorIds) > RecallLimit
      BY <1>4, <2>3, <3>1
    <3>. QED  BY <1>2, <1>7, <2>3, <3>1 DEF MayLack
  <2>. QED  BY <2>1, <2>2, <2>3
<1>8. CASE mode = "hybrid" /\ reachable
  <2>1. PICK table \in FromTable(c, query, matching), hits \in FromIndex(query) :
          answer \in FirstOf(table \cup hits)
    BY <1>8 DEF Recalled
  <2>2. answer \subseteq table \cup hits
    BY <2>1, CutKeeps
  <2>3. \A hit \in answer : True(c, hit)
    BY <1>2, <1>4, <2>2
  <2>4. CASE Cardinality(answer) = RecallLimit
    BY <1>8, <2>3, <2>4, StoreAssumption DEF MayLack
  <2>5. CASE answer = table \cup hits
    <3>1. ASSUME NEW m \in Live, ~Has(answer, m), m \notin drifted, \A b \in Batches : ~Syncing(b, m)
          PROVE  MayLack(answer, m, query, matching, mode, TRUE)
      <4>1. ~Has(table, m) /\ ~Has(hits, m)
        BY <2>5, <3>1
      <4>2. query => Cardinality(VectorIds) > RecallLimit
        BY <1>4, <3>1, <4>1
      <4>3. \/ query /\ m \in matching /\ Peers(m, table) >= RecallLimit
            \/ query /\ m \notin matching /\ MatchingRows(matching) # {}
        BY <1>2, <4>1
      <4>4. /\ Peers(m, table) <= Peers(m, answer)
            /\ Peers(m, table) \in Nat /\ Peers(m, answer) \in Nat
        BY <1>2, <1>4, <2>5, PeersGrow
      <4>. QED  BY <4>2, <4>3, <4>4, StoreAssumption DEF MayLack
    <3>. QED  BY <1>8, <2>3, <3>1
  <2>. QED  BY <2>1, <2>4, <2>5, CutKeeps
<1>. QED  BY <1>6, <1>7, <1>8

(* StructuredMemoryRetriever, in every mode and with the model reachable   *)
(* or not: no fact is made up, and no other memory, failed write or        *)
(* unreachable model hides one that is stored and indexed.                 *)
THEOREM RecallIsTrue == StoreSpec => []RecallIsAuthoritative
<1>1. StoreInit => UnindexedDrift
  BY DEF StoreInit, UnindexedDrift, StepOf, Idle
<1>2. StoreInv /\ UnindexedDrift /\ [StoreNext]_storeVars => UnindexedDrift'
  BY DriftStep
<1>3. StoreInv /\ UnindexedDrift => RecallIsAuthoritative
  BY RecallFollows
<1>. QED  BY <1>1, <1>2, <1>3, StoreInvariant, PTL DEF StoreSpec

-----------------------------------------------------------------------------
(***************************************************************************)
(* Any number of chats, messages and forks.  That a copy speaks of its own *)
(* messages rests on how it numbers them (CopiesAreNew, CopiesKeepOrder):  *)
(* above every id in use, each once, and in the order of the source.       *)
(***************************************************************************)

SavedMessages == [id : Nat, chat : ChatIds, role : {"user", "assistant"},
                  summarized : BOOLEAN, gisted : BOOLEAN]

RowShapes ==
  /\ existing \subseteq ChatIds /\ issued \in Nat /\ issued <= MaxMessage
  /\ saved \subseteq SavedMessages
  /\ gistRows \subseteq [chat : ChatIds, first : Nat, last : Nat]
  /\ inspected \subseteq
       [chat : ChatIds, answer : Nat, source : (1 .. MaxMessage) \cup {NoRange}]
  /\ refused \in BOOLEAN

\* AUTOINCREMENT and the foreign key of messages
IdsAreIssued ==
  /\ \A m \in saved : m.id \in 1 .. issued /\ m.chat \in existing
  /\ \A m, n \in saved : m.id = n.id => m = n

\* the chat a fork will create does not exist yet, so it is empty
ForkIsNew ==
  /\ forking.state \in {"none", "found"}
  /\ forking.state = "found" => forking.chat \in ChatIds /\ forking.new \in ChatIds \ existing

ForkInv == RowShapes /\ IdsAreIssued /\ ForkIsNew /\ ProvenanceIsOwn

-----------------------------------------------------------------------------
(* Numbers.                                                                *)

\* A non-empty set of naturals has a least element, and a greatest one if it
\* is bounded.
LEMMA LeastIndex ==
  ASSUME NEW S \in SUBSET Nat, S # {}
  PROVE  \E i \in S : \A j \in S : i <= j
<1>1. PICK i \in S : \A j \in S : ~(<<j, i>> \in OpToRel(<, Nat))
  BY NatLessThanWellFounded, WFMin
<1>2. \A j \in S : ~(j < i)
  BY <1>1 DEF OpToRel
<1>. QED  BY <1>2

LEMMA GreatestExists ==
  ASSUME NEW S \in SUBSET Nat, S # {}, NEW n \in Nat, \A i \in S : i <= n
  PROVE  \E i \in S : \A j \in S : i >= j
<1>. DEFINE T == {n - i : i \in S}
<1>1. T \in SUBSET Nat /\ T # {}
  <2>1. \A i \in S : n - i \in Nat
    OBVIOUS
  <2>. QED  BY <2>1
<1>2. PICK k \in T : \A j \in T : k <= j
  BY <1>1, LeastIndex
<1>3. PICK i \in S : k = n - i
  BY <1>2
<1>4. \A j \in S : n - i <= n - j
  BY <1>2, <1>3
<1>. QED  BY <1>4

-----------------------------------------------------------------------------
(* The numbering of the copies.                                            *)

\* The ids of a chat are finitely many, one for each of its messages.
LEMMA IdsAreCounted ==
  ASSUME RowShapes, IdsAreIssued, NEW chat
  PROVE  /\ IdsOf(chat) \subseteq 1 .. issued
         /\ IsFiniteSet(IdsOf(chat))
         /\ Cardinality(MessagesOf(chat)) = Cardinality(IdsOf(chat))
<1>. DEFINE f == [m \in MessagesOf(chat) |-> m.id]
<1>1. IdsOf(chat) \subseteq 1 .. issued
  BY DEF IdsOf, MessagesOf, IdsAreIssued
<1>2. IsFiniteSet(IdsOf(chat))
  <2>1. IsFiniteSet(1 .. issued)
    BY FS_Interval DEF RowShapes
  <2>. QED  BY <1>1, <2>1, FS_Subset
<1>3. f \in Injection(MessagesOf(chat), IdsOf(chat))
  BY DEF IdsOf, MessagesOf, IdsAreIssued, Injection, IsInjective
<1>4. f \in Surjection(MessagesOf(chat), IdsOf(chat))
  BY DEF IdsOf, Surjection
<1>5. Cardinality(MessagesOf(chat)) = Cardinality(IdsOf(chat))
  BY <1>2, <1>3, <1>4, FS_Injection
<1>. QED  BY <1>1, <1>2, <1>5

\* A copy has an id above all that were issued, and not above what the
\* transaction issues.
LEMMA CopiesAreNew ==
  ASSUME RowShapes, IdsAreIssued, NEW chat, NEW id \in IdsOf(chat)
  PROVE  /\ CopyOf(id, chat) \in Nat
         /\ issued < CopyOf(id, chat)
         /\ CopyOf(id, chat) <= issued + Cardinality(MessagesOf(chat))
<1>. DEFINE below == {i \in IdsOf(chat) : i <= id}
<1>1. /\ IsFiniteSet(below) /\ Cardinality(below) <= Cardinality(IdsOf(chat))
      /\ Cardinality(below) \in Nat /\ Cardinality(IdsOf(chat)) \in Nat
  <2>1. below \in SUBSET IdsOf(chat)
    OBVIOUS
  <2>. QED  BY <2>1, IdsAreCounted, FS_Subset, FS_CardinalityType
<1>2. id \in below
  BY IdsAreCounted DEF RowShapes
<1>3. Cardinality(below) # 0
  BY <1>1, <1>2, FS_EmptySet
<1>. QED  BY <1>1, <1>3, IdsAreCounted DEF CopyOf, RowShapes

\* The copies keep the order of the messages, so no two share an id.
LEMMA CopiesKeepOrder ==
  ASSUME RowShapes, IdsAreIssued, NEW chat,
         NEW id \in IdsOf(chat), NEW other \in IdsOf(chat), id < other
  PROVE  CopyOf(id, chat) < CopyOf(other, chat)
<1>. DEFINE below == {i \in IdsOf(chat) : i <= id}
            upto == {i \in IdsOf(chat) : i <= other}
<1>1. id \in Nat /\ other \in Nat /\ IdsOf(chat) \subseteq Nat
  BY IdsAreCounted DEF RowShapes
<1>2. below \in SUBSET upto /\ below # upto
  BY <1>1
<1>3. IsFiniteSet(upto) /\ IsFiniteSet(below)
  BY IdsAreCounted, FS_Subset
<1>4. /\ Cardinality(below) <= Cardinality(upto) /\ Cardinality(below) # Cardinality(upto)
      /\ Cardinality(below) \in Nat /\ Cardinality(upto) \in Nat
  BY <1>2, <1>3, FS_Subset, FS_CardinalityType
<1>. QED  BY <1>4 DEF CopyOf, RowShapes

LEMMA CopiesTellApart ==
  ASSUME RowShapes, IdsAreIssued, NEW chat,
         NEW id \in IdsOf(chat), NEW other \in IdsOf(chat)
  PROVE  /\ CopyOf(id, chat) = CopyOf(other, chat) => id = other
         /\ CopyOf(id, chat) <= CopyOf(other, chat) => id <= other
<1>1. id \in Nat /\ other \in Nat
  BY IdsAreCounted DEF RowShapes
<1>2. CopyOf(id, chat) \in Nat /\ CopyOf(other, chat) \in Nat
  BY CopiesAreNew
<1>. QED  BY <1>1, <1>2, CopiesKeepOrder

-----------------------------------------------------------------------------
(* The steps.                                                              *)

LEMMA ForkInitInv == ForkInit => ForkInv
<1>. SUFFICES ASSUME ForkInit  PROVE ForkInv
  OBVIOUS
<1>1. RowShapes
  <2>1. issued \in Nat /\ issued <= MaxMessage
    BY MessagesAssumption DEF ForkInit
  <2>2. existing \subseteq ChatIds /\ saved = {} /\ gistRows = {} /\ inspected = {} /\ refused = FALSE
    BY DEF ForkInit
  <2>. QED  BY <2>1, <2>2 DEF RowShapes
<1>3. IdsAreIssued /\ ProvenanceIsOwn
  BY DEF ForkInit, IdsAreIssued, ProvenanceIsOwn
<1>2. ForkIsNew
  BY DEF ForkInit, ForkIsNew, NoFork
<1>. QED  BY <1>1, <1>2, <1>3 DEF ForkInv

\* A turn adds two messages after all others.
LEMMA TurnStep ==
  ASSUME ForkInv, NEW chat \in ChatIds,
         NEW sources \in SUBSET ((1 .. MaxMessage) \cup {NoRange}), Turn(chat, sources)
  PROVE  ForkInv'
<1>. USE DEF Turn
<1>. DEFINE question == Message(issued + 1, chat, "user")
            answer == Message(issued + 2, chat, "assistant")
<1>0. /\ question \in SavedMessages /\ question.id = issued + 1 /\ question.chat = chat
      /\ answer \in SavedMessages /\ answer.id = issued + 2 /\ answer.chat = chat
      /\ answer.role = "assistant" /\ saved' = saved \cup {question, answer}
      /\ issued \in Nat /\ issued' = issued + 2
  BY DEF ForkInv, RowShapes, SavedMessages, Message
<1>. HIDE DEF question, answer
<1>1. RowShapes'
  <2>1. \A source \in sources :
          [chat |-> chat, answer |-> issued + 2, source |-> source] \in
            [chat : ChatIds, answer : Nat, source : (1 .. MaxMessage) \cup {NoRange}]
    BY <1>0
  <2>. QED  BY <1>0, <2>1, MessagesAssumption DEF ForkInv, RowShapes
<1>2. IdsAreIssued'
  BY <1>0 DEF ForkInv, RowShapes, IdsAreIssued
<1>3. ForkIsNew'
  BY DEF ForkInv, ForkIsNew
<1>4. ProvenanceIsOwn'
  <2>1. ASSUME NEW gist \in gistRows'
        PROVE  /\ {gist.first, gist.last} \subseteq IdsOf(gist.chat)'
               /\ \A m \in MessagesOf(gist.chat)' : m.id \in gist.first .. gist.last => m.gisted
    <3>1. {gist.first, gist.last} \subseteq IdsOf(gist.chat)
      BY DEF ForkInv, ProvenanceIsOwn
    <3>2. gist.first \in Nat /\ gist.last \in Nat /\ gist.last <= issued
      BY <3>1 DEF ForkInv, RowShapes, IdsAreIssued, IdsOf, MessagesOf
    <3>3. {gist.first, gist.last} \subseteq IdsOf(gist.chat)'
      BY <3>1 DEF IdsOf, MessagesOf
    <3>4. ASSUME NEW m \in MessagesOf(gist.chat)', m.id \in gist.first .. gist.last
          PROVE  m.gisted
      <4>1. m \in MessagesOf(gist.chat)
        BY <1>0, <3>2, <3>4 DEF MessagesOf
      <4>. QED  BY <3>4, <4>1 DEF ForkInv, ProvenanceIsOwn
    <3>. QED  BY <3>3, <3>4
  <2>2. ASSUME NEW row \in inspected'
        PROVE  \E m \in MessagesOf(row.chat)' : m.id = row.answer /\ m.role = "assistant"
    <3>1. CASE row \in inspected
      BY <1>0, <3>1 DEF ForkInv, ProvenanceIsOwn, MessagesOf
    <3>2. CASE row \notin inspected
      <4>1. row.chat = chat /\ row.answer = issued + 2
        BY <3>2
      <4>. QED  BY <1>0, <4>1 DEF MessagesOf
    <3>. QED  BY <3>1, <3>2
  <2>. QED  BY <2>1, <2>2 DEF ProvenanceIsOwn
<1>. QED  BY <1>1, <1>2, <1>3, <1>4 DEF ForkInv

\* A gist is laid over all messages of the chat that have none.
LEMMA CompactStep ==
  ASSUME ForkInv, NEW chat \in ChatIds, Compact(chat)
  PROVE  ForkInv'
<1>. DEFINE batch == {message \in MessagesOf(chat) : ~message.gisted}
            ids == {message.id : message \in batch}
            first == CHOOSE i \in ids : \A j \in ids : i <= j
            last == CHOOSE i \in ids : \A j \in ids : i >= j
            flagged == {[message EXCEPT !.gisted = TRUE] : message \in batch}
<1>1. /\ batch # {} /\ saved' = (saved \ batch) \cup flagged
      /\ gistRows' = gistRows \cup {[chat |-> chat, first |-> first, last |-> last]}
      /\ UNCHANGED <<existing, issued, inspected, forking, refused>>
  BY DEF Compact
<1>2. ids \in SUBSET Nat /\ ids # {} /\ (\A i \in ids : i <= issued) /\ ids \subseteq IdsOf(chat)
  BY <1>1 DEF ForkInv, RowShapes, IdsAreIssued, MessagesOf, IdsOf
<1>3. first \in ids /\ last \in ids
  BY <1>2, LeastIndex, GreatestExists DEF ForkInv, RowShapes
<1>. HIDE DEF first, last
\* the flag is all that changes of a message
<1>4. /\ \A m \in batch : m \in saved /\ m.chat = chat
      /\ \A m \in flagged : /\ m.gisted /\ m.chat = chat /\ m \in SavedMessages
                          /\ \E n \in batch : n.id = m.id /\ n.role = m.role
      /\ \A m \in batch : \E n \in flagged : n.id = m.id /\ n.role = m.role /\ n.chat = m.chat
  <2>1. \A m \in batch : m \in saved /\ m.chat = chat /\ m \in SavedMessages
    BY DEF MessagesOf, ForkInv, RowShapes
  <2>2. \A m \in SavedMessages : LET n == [m EXCEPT !.gisted = TRUE] IN
          n \in SavedMessages /\ n.gisted /\ n.id = m.id /\ n.role = m.role /\ n.chat = m.chat
    BY DEF SavedMessages
  <2>. QED  BY <2>1, <2>2
<1>5. \A m, n \in flagged : m.id = n.id => m = n
  <2>1. SUFFICES ASSUME NEW m \in batch, NEW n \in batch, m.id = n.id  PROVE m = n
    BY <1>4 DEF ForkInv, RowShapes, SavedMessages
  <2>. QED  BY <1>4, <2>1 DEF ForkInv, IdsAreIssued
<1>6. RowShapes'
  BY <1>1, <1>2, <1>3, <1>4 DEF ForkInv, RowShapes
<1>7. IdsAreIssued'
  BY <1>1, <1>4, <1>5 DEF ForkInv, IdsAreIssued
<1>8. ForkIsNew'
  BY <1>1 DEF ForkInv, ForkIsNew
<1>9. ProvenanceIsOwn'
  <2>0. \A m \in saved : \E n \in saved' : n.id = m.id /\ n.role = m.role /\ n.chat = m.chat
    BY <1>1, <1>4
  <2>1. \A c : IdsOf(c) \subseteq IdsOf(c)'
    BY <2>0 DEF IdsOf, MessagesOf
  <2>2. \A m \in MessagesOf(chat)' : m.gisted
    BY <1>1, <1>4 DEF MessagesOf
  <2>3. \A c : c # chat => MessagesOf(c)' = MessagesOf(c)
    BY <1>1, <1>4 DEF MessagesOf
  <2>4. \A gist \in gistRows' :
          /\ {gist.first, gist.last} \subseteq IdsOf(gist.chat)'
          /\ \A m \in MessagesOf(gist.chat)' : m.id \in gist.first .. gist.last => m.gisted
    BY <1>1, <1>2, <1>3, <2>1, <2>2, <2>3 DEF ForkInv, ProvenanceIsOwn
  <2>5. \A row \in inspected' :
          \E m \in MessagesOf(row.chat)' : m.id = row.answer /\ m.role = "assistant"
    <3>1. \A c : \A m \in MessagesOf(c) :
            \E n \in MessagesOf(c)' : n.id = m.id /\ n.role = m.role
      BY <2>0 DEF MessagesOf
    <3>. QED  BY <1>1, <3>1 DEF ForkInv, ProvenanceIsOwn
  <2>. QED  BY <2>4, <2>5 DEF ProvenanceIsOwn
<1>. QED  BY <1>6, <1>7, <1>8, <1>9 DEF ForkInv

\* The cascade takes the gists and inspections with the messages.
LEMMA DeleteStep ==
  ASSUME ForkInv, NEW chat \in ChatIds, DeleteChat(chat)
  PROVE  ForkInv'
<1>. USE DEF DeleteChat
<1>1. \A c : c # chat => MessagesOf(c)' = MessagesOf(c) /\ IdsOf(c)' = IdsOf(c)
  BY DEF MessagesOf, IdsOf
<1>2. RowShapes' /\ IdsAreIssued' /\ ForkIsNew'
  BY DEF ForkInv, RowShapes, IdsAreIssued, ForkIsNew, MessagesOf
<1>3. ProvenanceIsOwn'
  BY <1>1 DEF ForkInv, ProvenanceIsOwn
<1>. QED  BY <1>2, <1>3 DEF ForkInv

LEMMA LookUpStep ==
  ASSUME ForkInv, NEW chat \in ChatIds, LookUp(chat)
  PROVE  ForkInv'
<1>1. RowShapes' /\ IdsAreIssued' /\ ProvenanceIsOwn'
  BY DEF LookUp, ForkInv, RowShapes, IdsAreIssued, ProvenanceIsOwn, MessagesOf, IdsOf
<1>2. \E new \in ChatIds : new \notin existing
  BY DEF LookUp, ForkInv, RowShapes
<1>3. ForkIsNew'
  BY <1>2 DEF LookUp, ForkIsNew
<1>. QED  BY <1>1, <1>3 DEF ForkInv

\* The copies are new messages of a new chat, numbered in the order of the
\* source, so what spoke of the source speaks of the copies.
LEMMA CopyStep ==
  ASSUME ForkInv, Copy
  PROVE  ForkInv'
<1>0. PICK chat, new : chat = forking.chat /\ new = forking.new
  OBVIOUS
<1>. DEFINE Twin(m) == [m EXCEPT !.id = CopyOf(m.id, chat), !.chat = new, !.summarized = TRUE]
            total == issued + Cardinality(MessagesOf(chat))
            twins == {Twin(m) : m \in MessagesOf(chat)}
            gists == {[gist EXCEPT !.chat = new, !.first = CopyOf(gist.first, chat),
                                   !.last = CopyOf(gist.last, chat)]
                        : gist \in {g \in gistRows : g.chat = chat}}
            sources == {[chat |-> new, answer |-> CopyOf(row.answer, chat),
                         source |-> CopyOf(row.source, chat)]
                          : row \in {r \in inspected : r.chat = chat /\ r.answer \in IdsOf(chat)}}
<1>1. /\ chat \in ChatIds /\ new \in ChatIds \ existing /\ Remappable(chat)
      /\ total <= MaxMessage /\ existing' = existing \cup {new} /\ issued' = total
      /\ saved' = saved \cup twins /\ gistRows' = gistRows \cup gists
      /\ inspected' = inspected \cup sources /\ forking' = NoFork /\ refused' = refused
  BY <1>0 DEF Copy, Remapped, ForkInv, ForkIsNew
<1>2. RowShapes /\ IdsAreIssued /\ ForkIsNew /\ ProvenanceIsOwn
  BY DEF ForkInv
<1>. HIDE DEF twins, gists, sources
<1>3. total \in Nat /\ issued \in Nat /\ issued <= total
  BY <1>2, IdsAreCounted, FS_CardinalityType DEF RowShapes
<1>4. \A i \in IdsOf(chat) :
        CopyOf(i, chat) \in Nat /\ issued < CopyOf(i, chat) /\ CopyOf(i, chat) <= total
  BY <1>2, CopiesAreNew
<1>. IdsOf(chat) \subseteq Nat
  BY <1>2, <1>3, IdsAreCounted
<1>. HIDE DEF total
<1>5. \A i, j \in IdsOf(chat) :
        /\ CopyOf(i, chat) = CopyOf(j, chat) => i = j
        /\ CopyOf(i, chat) <= CopyOf(j, chat) => i <= j
  BY <1>2, CopiesTellApart
<1>6. \A m \in MessagesOf(chat) :
        /\ m.id \in IdsOf(chat) /\ Twin(m) \in SavedMessages
        /\ Twin(m).id = CopyOf(m.id, chat) /\ Twin(m).chat = new
        /\ Twin(m).role = m.role /\ Twin(m).gisted = m.gisted
  <2>1. \A m \in MessagesOf(chat) : m \in SavedMessages /\ m.id \in IdsOf(chat)
    BY <1>2 DEF MessagesOf, IdsOf, RowShapes
  <2>. QED  BY <1>1, <1>4, <2>1 DEF SavedMessages
<1>. HIDE DEF Twin
<1>7. \A i \in IdsOf(chat) : \E m \in twins : m.id = CopyOf(i, chat)
  BY <1>6 DEF IdsOf, twins
<1>8. IdsOf(new)' = {CopyOf(i, chat) : i \in IdsOf(chat)} /\ MessagesOf(new)' = twins
  <2>1. MessagesOf(new) = {}
    BY <1>1, <1>2 DEF MessagesOf, IdsAreIssued
  <2>2. MessagesOf(new)' = twins
    BY <1>1, <1>6, <2>1 DEF MessagesOf, twins
  <2>. QED  BY <1>6, <1>7, <2>2 DEF IdsOf, twins
<1>9. \A c : c # new => MessagesOf(c)' = MessagesOf(c) /\ IdsOf(c)' = IdsOf(c)
  BY <1>1, <1>6 DEF MessagesOf, IdsOf, twins
<1>10. gists \subseteq [chat : {new}, first : IdsOf(new)', last : IdsOf(new)']
  <2>1. ASSUME NEW g \in gistRows, g.chat = chat
        PROVE  /\ g \in [chat : ChatIds, first : Nat, last : Nat]
               /\ g.first \in IdsOf(chat) /\ g.last \in IdsOf(chat)
    BY <1>2, <2>1 DEF ProvenanceIsOwn, RowShapes
  <2>. QED  BY <1>8, <2>1 DEF gists
<1>11. sources \subseteq [chat : {new}, answer : IdsOf(new)', source : IdsOf(new)']
  <2>1. ASSUME NEW row \in inspected, row.chat = chat, row.answer \in IdsOf(chat)
        PROVE  row.source \in IdsOf(chat)
    BY <1>1, <2>1 DEF Remappable
  <2>2. \A i \in IdsOf(chat) : CopyOf(i, chat) \in IdsOf(new)'
    BY <1>8
  <2>. QED  BY <2>1, <2>2 DEF sources
<1>12. RowShapes'
  <2>1. twins \subseteq SavedMessages
    BY <1>6 DEF twins
  <2>2. IdsOf(new)' \subseteq Nat /\ IdsOf(new)' \subseteq 1 .. MaxMessage
    <3>1. \A i \in IdsOf(chat) : CopyOf(i, chat) \in 1 .. MaxMessage
      BY <1>1, <1>3, <1>4, MessagesAssumption
    <3>. QED  BY <1>8, <3>1
  <2>3. gists \subseteq [chat : ChatIds, first : Nat, last : Nat]
    BY <1>1, <1>10, <2>2
  <2>4. sources \subseteq [chat : ChatIds, answer : Nat, source : (1 .. MaxMessage) \cup {NoRange}]
    BY <1>1, <1>11, <2>2
  <2>. QED  BY <1>1, <1>2, <1>3, <2>1, <2>3, <2>4 DEF RowShapes
<1>13. IdsAreIssued'
  <2>1. \A m \in twins : m.id \in (issued + 1) .. total /\ m.chat = new
    BY <1>3, <1>4, <1>6 DEF twins
  <2>2. \A m, n \in twins : m.id = n.id => m = n
    <3>1. ASSUME NEW m \in MessagesOf(chat), NEW n \in MessagesOf(chat), Twin(m).id = Twin(n).id
          PROVE  m = n
      BY <1>2, <1>5, <1>6, <3>1 DEF IdsAreIssued, MessagesOf
    <3>. QED  BY <3>1 DEF twins
  <2>3. \A m \in saved : m.id \in 1 .. issued /\ m.chat \in existing
    BY <1>2 DEF IdsAreIssued
  <2>4. \A m \in saved' : m.id \in 1 .. issued' /\ m.chat \in existing'
    BY <1>1, <1>3, <2>1, <2>3
  <2>5. \A m \in saved, n \in twins : m.id # n.id
    BY <1>3, <2>1, <2>3
  <2>6. \A m, n \in saved' : m.id = n.id => m = n
    BY <1>1, <1>2, <2>2, <2>5 DEF IdsAreIssued
  <2>. QED  BY <2>4, <2>6 DEF IdsAreIssued
<1>14. ForkIsNew'
  BY <1>1 DEF ForkIsNew, NoFork
<1>15. ProvenanceIsOwn'
  <2>1. ASSUME NEW gist \in gists, NEW m \in twins, m.id \in gist.first .. gist.last
        PROVE  m.gisted
    <3>1. PICK g \in gistRows : /\ g.chat = chat /\ gist.first = CopyOf(g.first, chat)
                               /\ gist.last = CopyOf(g.last, chat)
      BY <1>2 DEF RowShapes, gists
    <3>2. PICK n \in MessagesOf(chat) : m = Twin(n)
      BY DEF twins
    <3>3. g.first \in IdsOf(chat) /\ g.last \in IdsOf(chat) /\ n.id \in IdsOf(chat)
      BY <1>2, <1>6, <3>1 DEF ProvenanceIsOwn
    <3>7. /\ g.first \in Nat /\ g.last \in Nat /\ n.id \in Nat
          /\ gist.first \in Nat /\ gist.last \in Nat /\ m.id \in Nat /\ m.id = CopyOf(n.id, chat)
      BY <1>4, <1>6, <3>1, <3>2, <3>3
    <3>4. CopyOf(g.first, chat) <= CopyOf(n.id, chat) /\ CopyOf(n.id, chat) <= CopyOf(g.last, chat)
      BY <2>1, <3>1, <3>7
    <3>5. g.first <= n.id /\ n.id <= g.last
      BY <1>5, <3>3, <3>4
    <3>6. n.id \in g.first .. g.last
      BY <3>5, <3>7
    <3>. QED  BY <1>2, <1>6, <3>1, <3>2, <3>6 DEF ProvenanceIsOwn
  <2>2. ASSUME NEW row \in sources
        PROVE  \E m \in twins : m.id = row.answer /\ m.role = "assistant"
    <3>1. PICK r \in inspected : r.chat = chat /\ row.answer = CopyOf(r.answer, chat)
      BY DEF sources
    <3>2. PICK m \in MessagesOf(chat) : m.id = r.answer /\ m.role = "assistant"
      BY <1>2, <3>1 DEF ProvenanceIsOwn
    <3>. QED  BY <1>6, <3>1, <3>2 DEF twins
  <2>3. ASSUME NEW gist \in gistRows  PROVE gist.chat # new
    <3>1. gist.first \in IdsOf(gist.chat)
      BY <1>2 DEF ProvenanceIsOwn
    <3>2. PICK m \in saved : m.chat = gist.chat
      BY <3>1 DEF IdsOf, MessagesOf
    <3>. QED  BY <1>1, <1>2, <3>2 DEF IdsAreIssued
  <2>4. ASSUME NEW row \in inspected  PROVE row.chat # new
    <3>1. PICK m \in saved : m.chat = row.chat
      BY <1>2 DEF ProvenanceIsOwn, MessagesOf
    <3>. QED  BY <1>1, <1>2, <3>1 DEF IdsAreIssued
  <2>5. \A gist \in gistRows' :
          /\ {gist.first, gist.last} \subseteq IdsOf(gist.chat)'
          /\ \A m \in MessagesOf(gist.chat)' : m.id \in gist.first .. gist.last => m.gisted
    BY <1>1, <1>2, <1>8, <1>9, <1>10, <2>1, <2>3 DEF ProvenanceIsOwn
  <2>6. \A row \in inspected' :
          \E m \in MessagesOf(row.chat)' : m.id = row.answer /\ m.role = "assistant"
    BY <1>1, <1>2, <1>8, <1>9, <1>11, <2>2, <2>4 DEF ProvenanceIsOwn
  <2>. QED  BY <2>5, <2>6 DEF ProvenanceIsOwn
<1>. QED  BY <1>12, <1>13, <1>14, <1>15 DEF ForkInv

-----------------------------------------------------------------------------
(* The theorems.                                                           *)

THEOREM ForkInvariant == ForkSpec => []ForkInv
<1>1. ForkInv /\ [ForkNext]_forkVars => ForkInv'
  <2>. SUFFICES ASSUME ForkInv, [ForkNext]_forkVars  PROVE ForkInv'
    OBVIOUS
  <2>1. ASSUME NEW chat \in ChatIds, Turn(chat, {})  PROVE ForkInv'
    BY <2>1, TurnStep
  <2>2. ASSUME NEW chat \in ChatIds, NEW source \in (1 .. MaxMessage) \cup {NoRange},
               Turn(chat, {source})
        PROVE  ForkInv'
    BY <2>2, TurnStep
  <2>3. ASSUME NEW chat \in ChatIds, Compact(chat)  PROVE ForkInv'
    BY <2>3, CompactStep
  <2>4. ASSUME NEW chat \in ChatIds, DeleteChat(chat)  PROVE ForkInv'
    BY <2>4, DeleteStep
  <2>5. ASSUME NEW chat \in ChatIds, LookUp(chat)  PROVE ForkInv'
    BY <2>5, LookUpStep
  <2>6. CASE Copy
    BY <2>6, CopyStep
  <2>7. CASE RollBack \/ Interrupt
    <3>1. RowShapes' /\ IdsAreIssued' /\ ProvenanceIsOwn'
      BY <2>7 DEF RollBack, Interrupt, ForkInv, RowShapes, IdsAreIssued, ProvenanceIsOwn,
                  MessagesOf, IdsOf
    <3>2. ForkIsNew'
      BY <2>7 DEF RollBack, Interrupt, ForkIsNew, NoFork
    <3>. QED  BY <3>1, <3>2 DEF ForkInv
  <2>8. CASE UNCHANGED forkVars
    BY <2>8 DEF forkVars, ForkInv, RowShapes, IdsAreIssued, ForkIsNew, ProvenanceIsOwn,
                MessagesOf, IdsOf
  <2>. QED  BY <2>1, <2>2, <2>3, <2>4, <2>5, <2>6, <2>7, <2>8 DEF ForkNext
<1>. QED  BY ForkInitInv, <1>1, PTL DEF ForkSpec

(* The rows of chats, messages, gists and inspections keep their types and *)
(* message ids stay unique.                                                *)
THEOREM ForkTyped == ForkSpec => []ForkTypeOK
<1>1. ForkInv => ForkTypeOK
  BY MessagesAssumption
     DEF ForkInv, RowShapes, IdsAreIssued, ForkIsNew, ForkTypeOK, SavedMessages
<1>. QED  BY <1>1, ForkInvariant, PTL

(* Database.fork_chat: the gists and inspections of every chat, copies of  *)
(* copies included, are about its own messages.                            *)
THEOREM ProvenanceStaysOwn == ForkSpec => []ProvenanceIsOwn
<1>1. ForkInv => ProvenanceIsOwn
  BY DEF ForkInv
<1>. QED  BY <1>1, ForkInvariant, PTL

\* The copy of a chat under the numbering of the copies.
LEMMA CopyMirrors ==
  ASSUME NEW chat, NEW new, chat = forking.chat, new = forking.new, ForkInv, Copy
  PROVE  /\ new \notin existing /\ existing' = existing \cup {new}
         /\ \E copy \in [IdsOf(chat) -> IdsOf(new)'] : Mirrors(copy, chat, new)
         /\ \A c \in existing : /\ MessagesOf(c)' = MessagesOf(c)
                               /\ GistsOf(c)' = GistsOf(c)
                               /\ InspectionsOf(c)' = InspectionsOf(c)
<1>. DEFINE Twin(m) == [m EXCEPT !.id = CopyOf(m.id, chat), !.chat = new, !.summarized = TRUE]
            twins == {Twin(m) : m \in MessagesOf(chat)}
            GistTwin(gist) == [gist EXCEPT !.chat = new, !.first = CopyOf(gist.first, chat),
                                           !.last = CopyOf(gist.last, chat)]
            gists == {GistTwin(gist) : gist \in {g \in gistRows : g.chat = chat}}
            sources == {[chat |-> new, answer |-> CopyOf(row.answer, chat),
                         source |-> CopyOf(row.source, chat)]
                          : row \in {r \in inspected : r.chat = chat /\ r.answer \in IdsOf(chat)}}
            copy == [i \in IdsOf(chat) |-> CopyOf(i, chat)]
<1>1. /\ new \in ChatIds \ existing /\ Remappable(chat) /\ existing' = existing \cup {new}
      /\ saved' = saved \cup twins /\ gistRows' = gistRows \cup gists
      /\ inspected' = inspected \cup sources
  BY DEF Copy, Remapped, ForkInv, ForkIsNew
<1>2. RowShapes /\ IdsAreIssued /\ ProvenanceIsOwn
  BY DEF ForkInv
<1>3. \A i \in IdsOf(chat) : copy[i] = CopyOf(i, chat)
  OBVIOUS
<1>4. \A i, j \in IdsOf(chat) : i < j => copy[i] < copy[j]
  BY <1>2, <1>3, CopiesKeepOrder
<1>. HIDE DEF twins, gists, sources, copy
<1>5. \A m \in MessagesOf(chat) :
        /\ m.id \in IdsOf(chat) /\ Twin(m).id = copy[m.id] /\ Twin(m).chat = new
        /\ Twin(m).role = m.role /\ Twin(m).gisted = m.gisted
  <2>1. \A m \in MessagesOf(chat) : m \in SavedMessages /\ m.id \in IdsOf(chat)
    BY <1>2 DEF MessagesOf, IdsOf, RowShapes
  <2>. QED  BY <1>3, <2>1 DEF SavedMessages
<1>. HIDE DEF Twin
<1>6. \A m \in twins : m.chat = new
  BY <1>5 DEF twins
<1>7. gists = {[chat |-> new, first |-> copy[gist.first], last |-> copy[gist.last]]
                 : gist \in GistsOf(chat)}
  <2>1. \A g \in GistsOf(chat) : /\ g \in [chat : ChatIds, first : Nat, last : Nat]
                                /\ copy[g.first] = CopyOf(g.first, chat)
                                /\ copy[g.last] = CopyOf(g.last, chat)
    BY <1>2, <1>3 DEF GistsOf, RowShapes, ProvenanceIsOwn
  <2>2. ASSUME NEW g \in GistsOf(chat)
        PROVE  GistTwin(g) = [chat |-> new, first |-> copy[g.first], last |-> copy[g.last]]
    <3>1. PICK i, j : i = copy[g.first] /\ j = copy[g.last]
      OBVIOUS
    <3>2. GistTwin(g) = [g EXCEPT !.chat = new, !.first = i, !.last = j]
      BY <2>1, <3>1
    <3>3. g \in [chat : ChatIds, first : Nat, last : Nat]
      BY <2>1
    <3>. HIDE DEF GistTwin
    <3>. QED  BY <3>1, <3>2, <3>3
  <2>. HIDE DEF GistTwin
  <2>3. gists = {GistTwin(g) : g \in GistsOf(chat)}
    BY DEF gists, GistsOf
  <2>. QED  BY <2>2, <2>3
<1>8. sources = {[chat |-> new, answer |-> copy[row.answer], source |-> copy[row.source]]
                   : row \in InspectionsOf(chat)}
  <2>1. \A r \in InspectionsOf(chat) : r.answer \in IdsOf(chat)
    BY <1>2 DEF ProvenanceIsOwn, InspectionsOf, IdsOf
  <2>2. InspectionsOf(chat) = {r \in inspected : r.chat = chat /\ r.answer \in IdsOf(chat)}
    BY <2>1 DEF InspectionsOf
  <2>3. \A r \in InspectionsOf(chat) : r.source \in IdsOf(chat)
    BY <1>1, <2>2 DEF Remappable
  <2>. QED  BY <1>3, <2>1, <2>2, <2>3 DEF sources
<1>9. /\ \A m \in saved : m.chat \in existing
      /\ \A g \in gistRows : g.chat \in existing
      /\ \A r \in inspected : r.chat \in existing
  <2>1. \A m \in saved : m.chat \in existing
    BY <1>2 DEF IdsAreIssued
  <2>2. \A g \in gistRows : \E m \in saved : m.chat = g.chat
    BY <1>2 DEF ProvenanceIsOwn, IdsOf, MessagesOf
  <2>3. \A r \in inspected : \E m \in saved : m.chat = r.chat
    BY <1>2 DEF ProvenanceIsOwn, MessagesOf
  <2>. QED  BY <2>1, <2>2, <2>3
<1>10. MessagesOf(new)' = twins /\ \A c \in existing : MessagesOf(c)' = MessagesOf(c)
  BY <1>1, <1>6, <1>9 DEF MessagesOf
<1>11. GistsOf(new)' = gists /\ \A c \in existing : GistsOf(c)' = GistsOf(c)
  <2>1. \A g \in gists : g.chat = new
    BY <1>7
  <2>. QED  BY <1>1, <1>9, <2>1 DEF GistsOf
<1>12. InspectionsOf(new)' = sources /\ \A c \in existing : InspectionsOf(c)' = InspectionsOf(c)
  <2>1. \A r \in sources : r.chat = new
    BY <1>8
  <2>. QED  BY <1>1, <1>9, <2>1 DEF InspectionsOf
<1>13. IdsOf(new)' = {copy[i] : i \in IdsOf(chat)}
  <2>1. IdsOf(new)' = {m.id : m \in twins}
    BY <1>10 DEF IdsOf
  <2>2. \A i \in IdsOf(chat) : \E m \in MessagesOf(chat) : m.id = i
    BY DEF IdsOf
  <2>. QED  BY <1>5, <2>1, <2>2 DEF twins
<1>14. \A m \in MessagesOf(chat) : \E n \in MessagesOf(new)' :
         n.id = copy[m.id] /\ n.role = m.role /\ n.gisted = m.gisted
  BY <1>5, <1>10 DEF twins
<1>15. Mirrors(copy, chat, new)
  BY <1>4, <1>7, <1>8, <1>11, <1>12, <1>13, <1>14 DEF Mirrors
<1>16. copy \in [IdsOf(chat) -> IdsOf(new)']
  BY <1>13 DEF copy
<1>. QED  BY <1>1, <1>10, <1>11, <1>12, <1>15, <1>16

(* Database.fork_chat: the new chat is the source, message by message, as  *)
(* it is when the transaction copies it, and no other chat is touched; no  *)
(* other step creates a chat.                                              *)
THEOREM ForksAreFaithful == ForkSpec => ForkIsFaithful
<1>. DEFINE Faithful(new) ==
       /\ \E copy \in [IdsOf(forking.chat) -> IdsOf(new)'] : Mirrors(copy, forking.chat, new)
       /\ \A chat \in existing : /\ MessagesOf(chat)' = MessagesOf(chat)
                                 /\ GistsOf(chat)' = GistsOf(chat)
                                 /\ InspectionsOf(chat)' = InspectionsOf(chat)
<1>1. ForkInv /\ [ForkNext]_forkVars => [\A new \in existing' \ existing : Faithful(new)]_forkVars
  <2>. SUFFICES ASSUME ForkInv, [ForkNext]_forkVars, NEW new \in existing' \ existing
                PROVE  Faithful(new)
    OBVIOUS
  <2>1. Copy
    BY DEF ForkNext, Turn, Compact, DeleteChat, LookUp, RollBack, Interrupt, forkVars
  <2>2. PICK chat, made : chat = forking.chat /\ made = forking.new
    OBVIOUS
  <2>3. /\ existing' = existing \cup {made}
        /\ \E copy \in [IdsOf(chat) -> IdsOf(made)'] : Mirrors(copy, chat, made)
        /\ \A c \in existing : /\ MessagesOf(c)' = MessagesOf(c)
                              /\ GistsOf(c)' = GistsOf(c)
                              /\ InspectionsOf(c)' = InspectionsOf(c)
    BY <2>1, <2>2, CopyMirrors
  <2>4. new = made
    BY <2>3
  <2>. QED  BY <2>2, <2>3, <2>4
<1>. QED  BY <1>1, ForkInvariant, PTL DEF ForkSpec, ForkIsFaithful

(* A source that is no message of the chat.  What it speaks of has been    *)
(* issued before, so that no later message can take its place.             *)
ForeignIn(chat) == \E row \in InspectionsOf(chat) : row.source \notin IdsOf(chat)
SourcesAreIssued == \A row \in inspected : row.source \in (1 .. issued) \cup {NoRange}

LEMMA SourcesStep ==
  ASSUME ForkInv, ForkInv', SourcesAreIssued, [ForkNext]_forkVars
  PROVE  SourcesAreIssued'
<1>0. issued \in Nat /\ \A m \in saved : m.id \in 1 .. issued
  BY DEF ForkInv, RowShapes, IdsAreIssued
<1>1. ASSUME NEW chat \in ChatIds, NEW sources, Turn(chat, sources) PROVE SourcesAreIssued'
  <2>1. \A source \in sources : source \in (1 .. issued') \cup {NoRange}
    BY <1>0, <1>1 DEF Turn, TakenFrom
  <2>2. \A row \in inspected' : row \in inspected \/ row.source \in sources
    BY <1>1 DEF Turn
  <2>3. \A row \in inspected : row.source \in (1 .. issued') \cup {NoRange}
    BY <1>0, <1>1 DEF Turn, SourcesAreIssued
  <2>. QED  BY <2>1, <2>2, <2>3 DEF SourcesAreIssued
<1>2. CASE Copy
  <2>1. PICK chat, new : chat = forking.chat /\ new = forking.new
    OBVIOUS
  <2>2. PICK copy \in [IdsOf(chat) -> IdsOf(new)'] : Mirrors(copy, chat, new)
    BY <1>2, <2>1, CopyMirrors
  <2>3. \A row \in InspectionsOf(chat) : row.source \in IdsOf(chat)
    <3>1. \A row \in InspectionsOf(chat) : row.answer \in IdsOf(chat)
      BY DEF ForkInv, ProvenanceIsOwn, InspectionsOf, IdsOf
    <3>2. Remappable(chat)
      BY <1>2, <2>1 DEF Copy
    <3>. QED  BY <3>1, <3>2 DEF Remappable, InspectionsOf
  <2>4. \A row \in InspectionsOf(new)' : row.source \in IdsOf(new)'
    BY <2>2, <2>3 DEF Mirrors
  <2>5. \A i \in IdsOf(new)' : i \in 1 .. issued'
    BY DEF ForkInv, IdsAreIssued, IdsOf, MessagesOf
  <2>6. \A row \in inspected' : row \in inspected \/ row \in InspectionsOf(new)'
    <3>. DEFINE Twin(row) == [chat |-> new, answer |-> CopyOf(row.answer, chat),
                              source |-> Remapped(row.source, chat)]
    <3>1. inspected' = inspected \cup
            {Twin(row) : row \in {r \in inspected : r.chat = chat /\ r.answer \in IdsOf(chat)}}
      BY <1>2, <2>1 DEF Copy
    <3>2. \A row : Twin(row).chat = new
      OBVIOUS
    <3>3. InspectionsOf(new)' = {row \in inspected' : row.chat = new}
      BY DEF InspectionsOf
    <3>. HIDE DEF Twin
    <3>. QED  BY <3>1, <3>2, <3>3
  <2>7. \A row \in inspected : row.source \in (1 .. issued') \cup {NoRange}
    <3>1. issued' \in Nat /\ issued' >= issued
      <4>1. Cardinality(MessagesOf(chat)) \in Nat
        BY IdsAreCounted, FS_CardinalityType DEF ForkInv
      <4>2. issued' = issued + Cardinality(MessagesOf(chat))
        BY <1>2, <2>1, Zenon DEF Copy
      <4>. QED  BY <1>0, <4>1, <4>2
    <3>. QED  BY <1>0, <3>1 DEF SourcesAreIssued
  <2>. QED  BY <2>4, <2>5, <2>6, <2>7 DEF SourcesAreIssued
<1>3. ASSUME NEW chat \in ChatIds, Compact(chat) \/ DeleteChat(chat) \/ LookUp(chat)
      PROVE  SourcesAreIssued'
  BY <1>3 DEF Compact, DeleteChat, LookUp, SourcesAreIssued
<1>4. CASE RollBack \/ Interrupt \/ UNCHANGED forkVars
  BY <1>4 DEF RollBack, Interrupt, forkVars, SourcesAreIssued
<1>. QED  BY <1>1, <1>2, <1>3, <1>4 DEF ForkNext

\* what a chat has taken from elsewhere it keeps while it exists
LEMMA ForeignStays ==
  ASSUME ForkInv, SourcesAreIssued, [ForkNext]_forkVars,
         NEW chat \in existing \cap existing', ForeignIn(chat)
  PROVE  ForeignIn(chat)'
<1>0. issued \in Nat
  BY DEF ForkInv, RowShapes
<1>1. PICK row \in InspectionsOf(chat) : row.source \notin IdsOf(chat)
  BY DEF ForeignIn
<1>2. ASSUME row \in inspected', IdsOf(chat)' \subseteq IdsOf(chat) PROVE ForeignIn(chat)'
  BY <1>1, <1>2 DEF ForeignIn, InspectionsOf
<1>3. ASSUME NEW c \in ChatIds, NEW sources, Turn(c, sources) PROVE ForeignIn(chat)'
  <2>1. row \in inspected'
    BY <1>1, <1>3 DEF Turn, InspectionsOf
  <2>2. \A i \in IdsOf(chat)' : i \in IdsOf(chat) \/ i \in {issued + 1, issued + 2}
    BY <1>3 DEF Turn, IdsOf, MessagesOf, Message
  <2>3. row.source \notin {issued + 1, issued + 2}
    <3>1. row.source \in (1 .. issued) \cup {NoRange}
      BY <1>1 DEF SourcesAreIssued, InspectionsOf
    <3>2. NoRange \notin Nat
      BY MessagesAssumption
    <3>. QED  BY <1>0, <3>1, <3>2
  <2>. QED  BY <1>1, <2>1, <2>2, <2>3 DEF ForeignIn, InspectionsOf
<1>4. ASSUME NEW c \in ChatIds, Compact(c) PROVE ForeignIn(chat)'
  <2>1. IdsOf(chat)' \subseteq IdsOf(chat)
    <3>1. \A m \in MessagesOf(c) : [m EXCEPT !.gisted = TRUE].id = m.id
                                   /\ [m EXCEPT !.gisted = TRUE].chat = m.chat
      BY DEF MessagesOf, ForkInv, RowShapes, SavedMessages
    <3>2. \A m \in saved' : m \in saved \/ \E n \in MessagesOf(c) : m = [n EXCEPT !.gisted = TRUE]
      BY <1>4, Zenon DEF Compact
    <3>3. \A m \in saved' : \E n \in saved : m.id = n.id /\ m.chat = n.chat
      BY <3>1, <3>2 DEF MessagesOf
    <3>. QED  BY <3>3 DEF IdsOf, MessagesOf
  <2>2. inspected' = inspected
    BY <1>4, Zenon DEF Compact
  <2>. QED  BY <1>1, <1>2, <2>1, <2>2 DEF InspectionsOf
<1>5. ASSUME NEW c \in ChatIds, DeleteChat(c) PROVE ForeignIn(chat)'
  <2>1. chat # c
    BY <1>5 DEF DeleteChat
  <2>. QED  BY <1>1, <1>2, <1>5, <2>1 DEF DeleteChat, InspectionsOf, IdsOf, MessagesOf
<1>6. CASE Copy
  <2>1. MessagesOf(chat)' = MessagesOf(chat) /\ InspectionsOf(chat)' = InspectionsOf(chat)
    BY <1>6, CopyMirrors
  <2>. QED  BY <1>1, <2>1 DEF ForeignIn, IdsOf
<1>7. CASE \/ \E c \in ChatIds : LookUp(c)
           \/ RollBack \/ Interrupt \/ UNCHANGED forkVars
  BY <1>1, <1>2, <1>7 DEF LookUp, RollBack, Interrupt, forkVars, InspectionsOf, IdsOf, MessagesOf
<1>. QED  BY <1>3, <1>4, <1>5, <1>6, <1>7 DEF ForkNext

(* Why ChatsCanBeForked does not hold, and that nothing else is to blame:  *)
(* a fork is rolled back just when an answer of its chat was taken from    *)
(* elsewhere (a document, a memory, another chat), never because of a      *)
(* gist, and as such a chat stays what it is, so does every later fork     *)
(* (remap_chat_local_json, remap_message_id).                              *)
ForksFailForGood ==
  [][/\ Copy => ~ForeignIn(forking.chat)
     /\ RollBack => ForeignIn(forking.chat)
     /\ \A chat \in existing \cap existing' : ForeignIn(chat) => ForeignIn(chat)']_forkVars

THEOREM ForeignSourcesAreToBlame == ForkSpec => ForksFailForGood
<1>1. ForkInit => SourcesAreIssued
  BY DEF ForkInit, SourcesAreIssued
<1>2. ForkInv /\ ForkInv' /\ SourcesAreIssued /\ [ForkNext]_forkVars => SourcesAreIssued'
  BY SourcesStep
<1>3. ForkInv /\ SourcesAreIssued /\ [ForkNext]_forkVars
        => [/\ Copy => ~ForeignIn(forking.chat)
            /\ RollBack => ForeignIn(forking.chat)
            /\ \A chat \in existing \cap existing' : ForeignIn(chat) => ForeignIn(chat)']_forkVars
  <2>. SUFFICES ASSUME ForkInv, SourcesAreIssued, [ForkNext]_forkVars
                PROVE  /\ Copy => ~ForeignIn(forking.chat)
                       /\ RollBack => ForeignIn(forking.chat)
                       /\ \A chat \in existing \cap existing' :
                            ForeignIn(chat) => ForeignIn(chat)'
    OBVIOUS
  <2>1. ASSUME NEW chat PROVE Remappable(chat) <=> ~ForeignIn(chat)
    BY DEF Remappable, ForeignIn, ForkInv, ProvenanceIsOwn, InspectionsOf, IdsOf
  <2>2. Copy => ~ForeignIn(forking.chat)
    BY <2>1 DEF Copy
  <2>3. RollBack => ForeignIn(forking.chat)
    BY <2>1 DEF RollBack
  <2>. QED  BY <2>2, <2>3, ForeignStays
<1>. QED  BY <1>1, <1>2, <1>3, ForkInvariant, PTL DEF ForkSpec, ForksFailForGood

-----------------------------------------------------------------------------
(***************************************************************************)
(* Any proposals, however often the table refuses a row.  The kept records *)
(* have different ids and stand for the last valid proposal of theirs      *)
(* (Kept); and a memory that no failed update has left behind is in the    *)
(* copy, and in what an update knows, as it is in the table, or not at     *)
(* all, up to the rows the update has just written (CopyAgrees).           *)
(***************************************************************************)

MemoryTables == [MemoryIds -> MemoryRecords \cup {Nothing}]
OwnRecord(record, id) == record = Nothing \/ (record.id = id /\ record.text # "transcript")

ProposalShapes ==
  /\ updating \in {"idle", "extract", "normalize", "write"} /\ updates \in 0 .. MaxUpdates
  /\ memoryTable \in MemoryTables /\ chatCopy \in MemoryTables /\ known \in MemoryTables
  /\ \A id \in MemoryIds : /\ OwnRecord(memoryTable[id], id) /\ OwnRecord(chatCopy[id], id)
                           /\ OwnRecord(known[id], id)
  /\ proposals = <<>> \/ proposals \in ProposalsOf
  /\ position \in 0 .. Len(proposals) /\ written \in 0 .. Len(keptRecords)
  /\ keptRecords \in Seq(MemoryRecords)
  /\ \A i \in DOMAIN keptRecords : keptRecords[i].text # "transcript"
  /\ updating # "write" => written = 0
  /\ updating \in {"idle", "extract"} => position = 0 /\ keptRecords = <<>>
  /\ outdated \subseteq MemoryIds

Reasons == {"none", "empty_content", "invalid_category", "missing_key_or_value",
            "transcript_text", "vague_memory"}
IsValid(n) == DropReason(proposals[n]) = "none"
ValidId(n) == RecordFrom(proposals[n]).id

Kept ==
  /\ Len(dropReasons) = position /\ dropReasons \in Seq(Reasons)
  /\ \A n \in 1 .. position : dropReasons[n] = DropReason(proposals[n])
  /\ \A i, j \in DOMAIN keptRecords : keptRecords[i].id = keptRecords[j].id => i = j
  /\ \A n \in 1 .. position :
       (IsValid(n) /\ \A m \in n + 1 .. position : ~(IsValid(m) /\ ValidId(m) = ValidId(n))) =>
         \E i \in DOMAIN keptRecords : keptRecords[i] = RecordFrom(proposals[n])

JustWritten == {keptRecords[i].id : i \in 1 .. written}

CopyAgrees ==
  /\ \A id \in MemoryIds \ (outdated \cup JustWritten) :
       /\ chatCopy[id] = Nothing \/ chatCopy[id] = memoryTable[id]
       /\ known[id] = Nothing \/ known[id] = memoryTable[id]
  /\ \A i \in 1 .. written : memoryTable[keptRecords[i].id] = keptRecords[i]

ProposalInv == ProposalShapes /\ Kept /\ CopyAgrees

-----------------------------------------------------------------------------
(* The operators.                                                          *)

(* An empty list has the shape of one that is proposed.                    *)
LEMMA ProposalsAreLists ==
  ASSUME ProposalShapes
  PROVE  /\ Len(proposals) \in Nat /\ DOMAIN proposals = 1 .. Len(proposals)
         /\ \A n \in DOMAIN proposals : proposals[n].spelling \in DOMAIN KeyOf
  BY ProposalsAssumption DEF ProposalShapes

(* What is not dropped becomes a record with sources of its own.           *)
LEMMA RecordsAreTyped ==
  ASSUME ProposalShapes, NEW n \in DOMAIN proposals, IsValid(n)
  PROVE  /\ RecordFrom(proposals[n]) \in MemoryRecords
         /\ RecordFrom(proposals[n]).text # "transcript"
<1> DEFINE p == proposals[n]
           texts == UNION {{CleanedText(items[i].text) : i \in DOMAIN items} : items \in ProposalsOf}
<1>1. p.spelling \in DOMAIN KeyOf /\ proposals \in ProposalsOf
  BY ProposalsAreLists DEF ProposalShapes
<1>2. p.category \in MemoryCategories /\ KeyOf[p.spelling] # NoKeyLeft
      /\ CleanedText(p.text) # "transcript"
  BY DEF IsValid, DropReason
<1>3. MemoryId(p.category, KeyOf[p.spelling]) \in MemoryIds
  BY <1>1, <1>2 DEF MemoryId, MemoryIds
<1>4. CleanedText(p.text) \in texts
  BY <1>1
<1>5. CitedBy(p) \in (SUBSET AskedIds) \ {{}}
  <2>1. CitedBy(p) = IF p.cites \cap AskedIds = {} THEN AskedIds ELSE p.cites \cap AskedIds
    BY DEF CitedBy
  <2>2. AskedIds # {}
    BY ProposalsAssumption
  <2> QED BY <2>1, <2>2
<1>6. StatusOf(p.status) \in {"active", "superseded", "deleted"}
  BY DEF StatusOf
<1>7. RecordFrom(p) = [id |-> MemoryId(p.category, KeyOf[p.spelling]), text |-> CleanedText(p.text),
                       sources |-> CitedBy(p), status |-> StatusOf(p.status)]
  BY DEF RecordFrom
<1> HIDE DEF p, texts
<1>8. RecordFrom(p) \in [id : MemoryIds, sources : (SUBSET AskedIds) \ {{}},
                         status : {"active", "superseded", "deleted"}, text : texts]
  BY <1>3, <1>4, <1>5, <1>6, <1>7
<1>9. RecordFrom(p).text # "transcript"
  BY <1>2, <1>7
<1> QED BY <1>8, <1>9 DEF p, texts, MemoryRecords

LEMMA AppendAdds ==
  ASSUME NEW S, NEW list \in Seq(S), NEW elt \in S
  PROVE  /\ Append(list, elt) \in Seq(S) /\ Len(Append(list, elt)) = Len(list) + 1
         /\ Append(list, elt)[Len(list) + 1] = elt
         /\ \A n \in 1 .. Len(list) : Append(list, elt)[n] = list[n]
OBVIOUS

DistinctIds(records) ==
  \A i, j \in DOMAIN records : records[i].id = records[j].id => i = j
UpsertOf(after, records, record) ==
  /\ after \in Seq(MemoryRecords) /\ DistinctIds(after)
  /\ \E i \in DOMAIN after : after[i] = record
  /\ \A i \in DOMAIN records : records[i].id # record.id =>
       \E j \in DOMAIN after : after[j] = records[i]
  /\ \A i \in DOMAIN after : after[i] = record \/ \E j \in DOMAIN records : after[i] = records[j]

(* upsert_normalized_record: ids stay different, the new record is there,  *)
(* and so are those of other ids.                                          *)
LEMMA UpsertKeeps ==
  ASSUME NEW records \in Seq(MemoryRecords), NEW record \in MemoryRecords,
         DistinctIds(records)
  PROVE  UpsertOf(Upserted(records, record), records, record)
<1> USE DEF DistinctIds, UpsertOf
<1>1. CASE \E i \in DOMAIN records : records[i].id = record.id
  <2> DEFINE after == [i \in DOMAIN records |->
                         IF records[i].id = record.id THEN record ELSE records[i]]
  <2>1. Upserted(records, record) = after
    BY <1>1 DEF Upserted
  <2>2. /\ Len(records) \in Nat /\ DOMAIN records = 1 .. Len(records)
        /\ \A i \in DOMAIN records : records[i] \in MemoryRecords
    OBVIOUS
  <2>3. after \in [1 .. Len(records) -> MemoryRecords]
    BY <2>2
  <2>4. after \in Seq(MemoryRecords)
    BY <2>2, <2>3
  <2>5. /\ DOMAIN after = DOMAIN records
        /\ \A i \in DOMAIN records :
             after[i] = IF records[i].id = record.id THEN record ELSE records[i]
    OBVIOUS
  <2> HIDE DEF after
  <2>6. \A i \in DOMAIN records : after[i].id = records[i].id
    BY <2>5
  <2> QED BY <1>1, <2>1, <2>4, <2>5, <2>6
<1>2. CASE ~\E i \in DOMAIN records : records[i].id = record.id
  <2> DEFINE after == Append(records, record)
  <2>1. Upserted(records, record) = after
    BY <1>2 DEF Upserted
  <2>2. after \in Seq(MemoryRecords)
    OBVIOUS
  <2>3. /\ Len(records) \in Nat /\ DOMAIN records = 1 .. Len(records)
        /\ DOMAIN after = 1 .. Len(records) + 1 /\ after[Len(records) + 1] = record
        /\ \A i \in DOMAIN records : after[i] = records[i]
    OBVIOUS
  <2> HIDE DEF after
  <2>4. \A i \in DOMAIN after : i = Len(records) + 1 \/ i \in DOMAIN records
    BY <2>3
  <2>5. DOMAIN records \subseteq DOMAIN after /\ Len(records) + 1 \in DOMAIN after
    BY <2>3
  <2>6. ASSUME NEW i \in DOMAIN after, NEW j \in DOMAIN after, after[i].id = after[j].id
        PROVE  i = j
    BY <1>2, <2>3, <2>4, <2>6
  <2> QED BY <2>1, <2>2, <2>3, <2>4, <2>5, <2>6
<1> QED BY <1>1, <1>2

(* The tables an update makes of others are tables, with their own records.*)
LEMMA TablesAreTyped ==
  ASSUME NEW a \in MemoryTables, NEW b \in MemoryTables,
         \A id \in MemoryIds : OwnRecord(a[id], id) /\ OwnRecord(b[id], id)
  PROVE  /\ Active(a) \in MemoryTables /\ Stored(a) \in MemoryTables
         /\ MergedWith(a, b) \in MemoryTables
         /\ \A id \in MemoryIds : /\ OwnRecord(Active(a)[id], id) /\ OwnRecord(Stored(a)[id], id)
                                  /\ OwnRecord(MergedWith(a, b)[id], id)
  BY DEF MemoryTables, OwnRecord, Active, Stored, MergedWith

LEMMA RecordsMakeTables ==
  ASSUME NEW a \in MemoryTables, NEW records \in Seq(MemoryRecords),
         \A id \in MemoryIds : OwnRecord(a[id], id),
         \A i \in DOMAIN records : records[i].text # "transcript"
  PROVE  /\ WithRecords(a, records) \in MemoryTables
         /\ \A id \in MemoryIds : OwnRecord(WithRecords(a, records)[id], id)
<1>1. \A i \in DOMAIN records : records[i] \in MemoryRecords
  OBVIOUS
<1>2. ASSUME NEW id \in MemoryIds
      PROVE  LET r == WithRecords(a, records)[id] IN r \in MemoryRecords \cup {Nothing} /\ OwnRecord(r, id)
  <2>1. CASE \E i \in DOMAIN records : records[i].id = id
    <3> DEFINE k == CHOOSE i \in DOMAIN records : records[i].id = id
    <3>1. k \in DOMAIN records /\ records[k].id = id
      BY <2>1
    <3>2. WithRecords(a, records)[id] = records[k]
      BY <2>1 DEF WithRecords
    <3> HIDE DEF k
    <3> QED BY <1>1, <3>1, <3>2 DEF OwnRecord
  <2>2. CASE ~\E i \in DOMAIN records : records[i].id = id
    <3>1. WithRecords(a, records)[id] = a[id]
      BY <2>2 DEF WithRecords
    <3> QED BY <3>1 DEF MemoryTables
  <2> QED BY <2>1, <2>2
<1>3. WithRecords(a, records) = [id \in MemoryIds |-> WithRecords(a, records)[id]]
  BY DEF WithRecords
<1> QED BY <1>2, <1>3 DEF MemoryTables

-----------------------------------------------------------------------------
(* The steps of an update.                                                 *)

LEMMA ProposalInitInv == ProposalInit => ProposalInv
<1> SUFFICES ASSUME ProposalInit PROVE ProposalInv
  OBVIOUS
<1> DEFINE empty == [id \in MemoryIds |-> Nothing]
<1>1. /\ updating = "idle" /\ updates = 0 /\ proposals = <<>> /\ position = 0
      /\ keptRecords = <<>> /\ dropReasons = <<>> /\ written = 0
      /\ memoryTable = empty /\ chatCopy = empty /\ known = empty /\ outdated = {}
  BY DEF ProposalInit
<1>2. empty \in MemoryTables /\ \A id \in MemoryIds : empty[id] = Nothing
  BY DEF MemoryTables
<1> HIDE DEF empty
<1>3. 0 \in 0 .. MaxUpdates
  BY ProposalsAssumption
<1>4. ProposalShapes
  BY <1>1, <1>2, <1>3 DEF ProposalShapes, OwnRecord
<1>5. Kept
  BY <1>1 DEF Kept
<1>6. CopyAgrees
  BY <1>1, <1>2 DEF CopyAgrees
<1> QED BY <1>4, <1>5, <1>6 DEF ProposalInv

(* Whatever ended it, an update leaves its variables as it found them; the *)
(* copy it leaves decides.                                                 *)
LEMMA FinishedStep ==
  ASSUME ProposalInv, Finished, UNCHANGED <<updates, memoryTable>>,
         outdated' \subseteq MemoryIds, chatCopy' \in MemoryTables,
         \A id \in MemoryIds : OwnRecord(chatCopy'[id], id),
         \A id \in MemoryIds \ outdated' : chatCopy'[id] \in {Nothing, memoryTable[id]}
  PROVE  ProposalInv'
<1> DEFINE empty == [id \in MemoryIds |-> Nothing]
<1>1. /\ updating' = "idle" /\ proposals' = <<>> /\ position' = 0
      /\ keptRecords' = <<>> /\ dropReasons' = <<>> /\ written' = 0 /\ known' = empty
  BY DEF Finished
<1>2. empty \in MemoryTables /\ \A id \in MemoryIds : empty[id] = Nothing
  BY DEF MemoryTables
<1> HIDE DEF empty
<1>3. /\ memoryTable \in MemoryTables /\ updates \in 0 .. MaxUpdates
      /\ \A id \in MemoryIds : OwnRecord(memoryTable[id], id)
  BY DEF ProposalInv, ProposalShapes
<1>4. ProposalShapes'
  BY <1>1, <1>2, <1>3 DEF ProposalShapes, OwnRecord
<1>5. Kept'
  BY <1>1 DEF Kept
<1>6. CopyAgrees'
  BY <1>1, <1>2 DEF CopyAgrees
<1> QED BY <1>4, <1>5, <1>6 DEF ProposalInv

(* The copy gets what a failed update knew; the rows it wrote over a known *)
(* version are left behind.                                                *)
LEMMA KeepKnownStep ==
  ASSUME ProposalInv, KeepKnown, UNCHANGED <<updates, memoryTable>>,
         outdated \subseteq outdated', outdated' \subseteq MemoryIds,
         \A id \in MemoryIds \cap JustWritten : known[id] # Nothing => id \in outdated'
  PROVE  ProposalInv'
<1>1. /\ known \in MemoryTables /\ \A id \in MemoryIds : OwnRecord(known[id], id)
  BY DEF ProposalInv, ProposalShapes
<1>2. Stored(known) \in MemoryTables /\ \A id \in MemoryIds : OwnRecord(Stored(known)[id], id)
  BY <1>1, TablesAreTyped
<1>3. \A id \in MemoryIds : Stored(known)[id] \in {Nothing, known[id]}
  BY DEF Stored
<1>4. \A id \in MemoryIds \ outdated' : known[id] \in {Nothing, memoryTable[id]}
  BY DEF ProposalInv, CopyAgrees
<1>5. chatCopy' = Stored(known) /\ Finished
  BY DEF KeepKnown
<1>6. \A id \in MemoryIds \ outdated' : chatCopy'[id] \in {Nothing, memoryTable[id]}
  BY <1>3, <1>4, <1>5
<1> QED BY <1>2, <1>5, <1>6, FinishedStep

LEMMA LoadExistingStep ==
  ASSUME ProposalInv, LoadExisting
  PROVE  ProposalInv'
<1>1. /\ updating = "idle" /\ updates < MaxUpdates /\ updating' = "extract" /\ updates' = updates + 1
      /\ known' = MergedWith(Active(memoryTable), chatCopy)
      /\ UNCHANGED <<proposals, position, keptRecords, dropReasons, written, memoryTable,
                     chatCopy, outdated>>
  BY DEF LoadExisting
<1>2. ProposalShapes /\ Kept /\ CopyAgrees
  BY DEF ProposalInv
<1>3. /\ Active(memoryTable) \in MemoryTables
      /\ \A id \in MemoryIds : OwnRecord(Active(memoryTable)[id], id)
  BY <1>2, TablesAreTyped DEF ProposalShapes
<1>4. known' \in MemoryTables /\ \A id \in MemoryIds : OwnRecord(known'[id], id)
  BY <1>1, <1>2, <1>3, TablesAreTyped DEF ProposalShapes
<1>5. \A id \in MemoryIds :
        known'[id] = chatCopy[id] \/ known'[id] = memoryTable[id] \/ known'[id] = Nothing
  BY <1>1 DEF MergedWith, Active
<1>6. updates' \in 0 .. MaxUpdates
  BY <1>1, <1>2, ProposalsAssumption DEF ProposalShapes
<1>7. ProposalShapes'
  BY <1>1, <1>2, <1>4, <1>6 DEF ProposalShapes
<1>8. Kept'
  BY <1>1, <1>2 DEF Kept, IsValid, ValidId
<1>9. CopyAgrees'
  BY <1>1, <1>2, <1>5 DEF CopyAgrees, JustWritten
<1> QED BY <1>7, <1>8, <1>9 DEF ProposalInv

LEMMA ExtractStep ==
  ASSUME ProposalInv, NEW items \in ProposalsOf, Extract(items)
  PROVE  ProposalInv'
<1>1. /\ updating = "extract" /\ updating' = "normalize" /\ proposals' = items
      /\ UNCHANGED <<updates, known, position, keptRecords, dropReasons, written, memoryTable,
                     chatCopy, outdated>>
  BY DEF Extract
<1>2. ProposalShapes /\ Kept /\ CopyAgrees
  BY DEF ProposalInv
<1>3. position' = 0 /\ Len(items) \in Nat
  BY <1>1, <1>2, ProposalsAssumption DEF ProposalShapes
<1>4. ProposalShapes'
  BY <1>1, <1>2, <1>3 DEF ProposalShapes
<1>5. Kept'
  BY <1>1, <1>2, <1>3 DEF Kept
<1>6. CopyAgrees'
  BY <1>1, <1>2 DEF CopyAgrees, JustWritten
<1> QED BY <1>4, <1>5, <1>6 DEF ProposalInv

(* One more proposal: dropped for its reason, or kept in place of what was *)
(* kept of the same memory.                                                *)
LEMMA NormalizeStep ==
  ASSUME ProposalInv, NormalizeNext
  PROVE  ProposalInv'
<1> DEFINE next == position + 1
<1>1. /\ updating = "normalize" /\ position < Len(proposals) /\ position' = next
      /\ dropReasons' = Append(dropReasons, DropReason(proposals[next]))
      /\ keptRecords' = IF IsValid(next) THEN Upserted(keptRecords, RecordFrom(proposals[next]))
                        ELSE keptRecords
      /\ UNCHANGED <<updating, updates, known, proposals, written, memoryTable, chatCopy, outdated>>
  BY DEF NormalizeNext, IsValid
<1>2. ProposalShapes /\ Kept /\ CopyAgrees
  BY DEF ProposalInv
<1>3. Len(proposals) \in Nat /\ DOMAIN proposals = 1 .. Len(proposals)
  BY <1>2, ProposalsAreLists
<1>4. position \in Nat /\ next \in 1 .. Len(proposals) /\ next \in DOMAIN proposals
      /\ 1 .. next = (1 .. position) \cup {next} /\ written = 0
  BY <1>1, <1>2, <1>3 DEF ProposalShapes
<1>5. /\ keptRecords \in Seq(MemoryRecords)
      /\ \A i, j \in DOMAIN keptRecords : keptRecords[i].id = keptRecords[j].id => i = j
      /\ \A i \in DOMAIN keptRecords : keptRecords[i].text # "transcript"
  BY <1>2 DEF ProposalShapes, Kept
<1> DEFINE record == RecordFrom(proposals[next])
<1>6. IsValid(next) => record \in MemoryRecords /\ record.text # "transcript"
  BY <1>2, <1>4, RecordsAreTyped
<1> HIDE DEF next, record
<1>7. IsValid(next) => UpsertOf(keptRecords', keptRecords, record)
  <2>1. IsValid(next) => keptRecords' = Upserted(keptRecords, record)
    BY <1>1 DEF record
  <2>2. keptRecords \in Seq(MemoryRecords) /\ DistinctIds(keptRecords)
    BY <1>5 DEF DistinctIds
  <2> QED BY <1>6, <2>1, <2>2, UpsertKeeps
<1>8. ~IsValid(next) => keptRecords' = keptRecords
  BY <1>1
<1>9. /\ keptRecords' \in Seq(MemoryRecords)
      /\ \A i, j \in DOMAIN keptRecords' : keptRecords'[i].id = keptRecords'[j].id => i = j
      /\ \A i \in DOMAIN keptRecords' : keptRecords'[i].text # "transcript"
  BY <1>5, <1>6, <1>7, <1>8 DEF UpsertOf, DistinctIds
<1>10. ProposalShapes'
  <2>1. written' = 0 /\ 0 \in 0 .. Len(keptRecords')
    BY <1>1, <1>4, <1>9
  <2>2. position' \in 0 .. Len(proposals')
    BY <1>1, <1>3, <1>4
  <2> QED BY <1>1, <1>2, <1>9, <2>1, <2>2 DEF ProposalShapes
<1>11. Kept'
  <2>1. DropReason(proposals[next]) \in Reasons
    BY DEF DropReason, Reasons
  <2>2. /\ Len(dropReasons) = position /\ dropReasons \in Seq(Reasons)
        /\ \A n \in 1 .. position : dropReasons[n] = DropReason(proposals[n])
    BY <1>2 DEF Kept
  <2>3. /\ dropReasons' \in Seq(Reasons) /\ Len(dropReasons') = position + 1
        /\ dropReasons'[position + 1] = DropReason(proposals[next])
        /\ \A n \in 1 .. position : dropReasons'[n] = dropReasons[n]
    BY <1>1, <2>1, <2>2, AppendAdds
  <2>4. \A n \in 1 .. position' : dropReasons'[n] = DropReason(proposals'[n])
    BY <1>1, <1>4, <2>2, <2>3 DEF next
  <2>5. ASSUME NEW n \in 1 .. position', IsValid(n)',
               \A m \in n + 1 .. position' : ~(IsValid(m) /\ ValidId(m) = ValidId(n))'
        PROVE  \E i \in DOMAIN keptRecords' : keptRecords'[i] = RecordFrom(proposals[n])
    <3>1. IsValid(n) /\ \A m \in n + 1 .. position' : ~(IsValid(m) /\ ValidId(m) = ValidId(n))
      BY <1>1, <2>5 DEF IsValid, ValidId
    <3>2. CASE n = next
      BY <1>7, <3>1, <3>2 DEF record, UpsertOf
    <3>3. CASE n # next
      <4>1. n \in 1 .. position /\ next \in n + 1 .. position'
            /\ \A m \in n + 1 .. position : m \in n + 1 .. position'
        BY <1>1, <1>4, <3>3 DEF next
      <4>2. PICK i \in DOMAIN keptRecords : keptRecords[i] = RecordFrom(proposals[n])
        BY <1>2, <3>1, <4>1 DEF Kept
      <4>3. IsValid(next) => keptRecords[i].id # record.id
        BY <3>1, <4>1, <4>2 DEF ValidId, record
      <4> QED BY <1>7, <1>8, <4>2, <4>3 DEF UpsertOf
    <3> QED BY <3>2, <3>3
  <2>6. Len(dropReasons') = position'
    BY <1>1, <2>3 DEF next
  <2> QED BY <1>1, <1>9, <2>3, <2>4, <2>5, <2>6 DEF Kept
<1>12. CopyAgrees'
  BY <1>1, <1>2, <1>4 DEF CopyAgrees, JustWritten
<1> QED BY <1>10, <1>11, <1>12 DEF ProposalInv

(* A row: it is new, and no row that was written before is touched.        *)
LEMMA WriteStep ==
  ASSUME ProposalInv, WriteNext
  PROVE  ProposalInv'
<1> DEFINE record == keptRecords[written + 1]
<1>1. /\ updating = "write" /\ written < Len(keptRecords)
      /\ memoryTable' = [memoryTable EXCEPT ![record.id] = record] /\ written' = written + 1
      /\ UNCHANGED <<updating, updates, known, proposals, position, keptRecords, dropReasons,
                     chatCopy, outdated>>
  BY DEF WriteNext
<1>2. ProposalShapes /\ Kept /\ CopyAgrees
  BY DEF ProposalInv
<1>3. /\ Len(keptRecords) \in Nat /\ DOMAIN keptRecords = 1 .. Len(keptRecords)
      /\ \A i \in DOMAIN keptRecords : keptRecords[i] \in MemoryRecords
      /\ written \in 0 .. Len(keptRecords)
  BY <1>2 DEF ProposalShapes
<1>4. /\ written + 1 \in DOMAIN keptRecords /\ written' \in 0 .. Len(keptRecords)
      /\ \A i \in 1 .. written' : i \in 1 .. written \/ i = written + 1
      /\ \A i \in 1 .. written : i \in DOMAIN keptRecords /\ i # written + 1 /\ i \in 1 .. written'
      /\ written + 1 \in 1 .. written'
  BY <1>1, <1>3
<1>5. record \in MemoryRecords /\ record.text # "transcript"
  BY <1>2, <1>3, <1>4 DEF ProposalShapes
<1>6. record.id \in MemoryIds
  BY <1>5 DEF MemoryRecords
<1> HIDE DEF record
<1>7. /\ memoryTable' \in MemoryTables /\ memoryTable'[record.id] = record
      /\ \A id \in MemoryIds : id # record.id => memoryTable'[id] = memoryTable[id]
  BY <1>1, <1>2, <1>5, <1>6 DEF ProposalShapes, MemoryTables
<1>8. \A id \in MemoryIds : OwnRecord(memoryTable'[id], id)
  BY <1>2, <1>5, <1>7 DEF OwnRecord, ProposalShapes
<1>9. ProposalShapes'
  BY <1>1, <1>2, <1>4, <1>7, <1>8 DEF ProposalShapes
<1>10. Kept'
  BY <1>1, <1>2 DEF Kept, IsValid, ValidId
<1>11. CopyAgrees'
  <2>1. JustWritten' = JustWritten \cup {record.id}
    BY <1>1, <1>4 DEF JustWritten, record
  <2>2. \A id \in MemoryIds \ (outdated' \cup JustWritten') : memoryTable'[id] = memoryTable[id]
                                                             /\ id \notin outdated \cup JustWritten
    BY <1>1, <1>7, <2>1
  <2>3. \A i \in 1 .. written : memoryTable[keptRecords[i].id] = keptRecords[i]
                                /\ keptRecords[i].id # record.id /\ keptRecords[i].id \in MemoryIds
    BY <1>2, <1>3, <1>4 DEF CopyAgrees, Kept, record, MemoryRecords
  <2>4. \A i \in 1 .. written' : memoryTable'[keptRecords'[i].id] = keptRecords'[i]
    BY <1>1, <1>4, <1>7, <2>3 DEF record
  <2>5. \A id \in MemoryIds \ (outdated' \cup JustWritten') :
          /\ chatCopy'[id] = Nothing \/ chatCopy'[id] = memoryTable'[id]
          /\ known'[id] = Nothing \/ known'[id] = memoryTable'[id]
    BY <1>1, <1>2, <2>2 DEF CopyAgrees
  <2> QED BY <2>4, <2>5 DEF CopyAgrees
<1> QED BY <1>9, <1>10, <1>11 DEF ProposalInv

LEMMA AcceptStep ==
  ASSUME ProposalInv, Accept
  PROVE  ProposalInv'
<1> DEFINE merged == WithRecords(known, keptRecords)
           ids == {keptRecords[i].id : i \in DOMAIN keptRecords}
<1>1. /\ written = Len(keptRecords) /\ chatCopy' = Stored(merged)
      /\ outdated' = outdated \ ids /\ Finished /\ UNCHANGED <<updates, memoryTable>>
  BY DEF Accept
<1>2. ProposalShapes /\ CopyAgrees
  BY DEF ProposalInv
<1>3. merged \in MemoryTables /\ \A id \in MemoryIds : OwnRecord(merged[id], id)
  BY <1>2, RecordsMakeTables DEF ProposalShapes
<1>4. 1 .. written = DOMAIN keptRecords
  BY <1>1, <1>2 DEF ProposalShapes
<1>5. ASSUME NEW id \in MemoryIds \ outdated'
      PROVE  merged[id] \in {Nothing, memoryTable[id]}
  <2>1. CASE id \in ids
    <3> DEFINE k == CHOOSE i \in DOMAIN keptRecords : keptRecords[i].id = id
    <3>1. k \in DOMAIN keptRecords /\ keptRecords[k].id = id /\ merged[id] = keptRecords[k]
      BY <2>1 DEF WithRecords
    <3> HIDE DEF k, merged, ids
    <3> QED BY <1>2, <1>4, <3>1 DEF CopyAgrees
  <2>2. CASE id \notin ids
    <3>1. merged[id] = known[id]
      BY <2>2 DEF WithRecords
    <3>2. id \notin outdated \cup JustWritten
      BY <1>1, <1>4, <2>2 DEF JustWritten
    <3> QED BY <1>2, <3>1, <3>2 DEF CopyAgrees
  <2> QED BY <2>1, <2>2
<1>6. outdated' \subseteq MemoryIds
  BY <1>1, <1>2 DEF ProposalShapes
<1> HIDE DEF merged, ids
<1>7. Stored(merged) \in MemoryTables /\ \A id \in MemoryIds : OwnRecord(Stored(merged)[id], id)
  BY <1>3, TablesAreTyped
<1>8. \A id \in MemoryIds : Stored(merged)[id] \in {Nothing, merged[id]}
  BY DEF Stored
<1>9. \A id \in MemoryIds \ outdated' : chatCopy'[id] \in {Nothing, memoryTable[id]}
  BY <1>1, <1>5, <1>8
<1> QED BY <1>1, <1>6, <1>7, <1>9, FinishedStep

-----------------------------------------------------------------------------
(* The theorems.                                                           *)

THEOREM ProposalInvariant == ProposalSpec => []ProposalInv
<1>1. ProposalInv /\ [ProposalNext]_proposalVars => ProposalInv'
  <2> SUFFICES ASSUME ProposalInv, [ProposalNext]_proposalVars PROVE ProposalInv'
    OBVIOUS
  <2>0. ProposalShapes
    BY DEF ProposalInv
  <2>1. CASE LoadExisting
    BY <2>1, LoadExistingStep
  <2>2. CASE ExtractionFails \/ NoneValid
    <3>1. KeepKnown /\ UNCHANGED <<updates, memoryTable, outdated>>
      BY <2>2 DEF ExtractionFails, NoneValid
    <3>2. JustWritten = {} /\ outdated \subseteq MemoryIds
      BY <2>0, <2>2 DEF ExtractionFails, NoneValid, AllNormalized, ProposalShapes, JustWritten
    <3> QED BY <3>1, <3>2, KeepKnownStep
  <2>3. ASSUME NEW items \in ProposalsOf, Extract(items) PROVE ProposalInv'
    BY <2>3, ExtractStep
  <2>4. CASE NormalizeNext
    BY <2>4, NormalizeStep
  <2>5. CASE BeginWrites
    <3>1. updating' = "write" /\ updating = "normalize"
          /\ UNCHANGED <<updates, known, proposals, position, keptRecords, dropReasons, written,
                         memoryTable, chatCopy, outdated>>
      BY <2>5 DEF BeginWrites, AllNormalized
    <3>2. ProposalShapes'
      BY <2>0, <3>1 DEF ProposalShapes
    <3>3. Kept' /\ CopyAgrees'
      BY <3>1 DEF ProposalInv, Kept, CopyAgrees, JustWritten, IsValid, ValidId
    <3> QED BY <3>2, <3>3 DEF ProposalInv
  <2>6. CASE WriteNext
    BY <2>6, WriteStep
  <2>7. CASE WriteFails
    <3>1. /\ KeepKnown /\ UNCHANGED <<updates, memoryTable>>
          /\ outdated' = outdated \cup {id \in MemoryIds : known[id] # Nothing /\
                                         \E i \in 1 .. written : keptRecords[i].id = id}
      BY <2>7 DEF WriteFails
    <3>2. \A id \in MemoryIds \cap JustWritten : known[id] # Nothing => id \in outdated'
      BY <3>1 DEF JustWritten
    <3>3. outdated \subseteq outdated' /\ outdated' \subseteq MemoryIds
      BY <2>0, <3>1 DEF ProposalShapes
    <3> QED BY <3>1, <3>2, <3>3, KeepKnownStep
  <2>8. CASE Accept
    BY <2>8, AcceptStep
  <2>9. CASE UNCHANGED proposalVars
    BY <2>9 DEF proposalVars, ProposalInv, ProposalShapes, Kept, CopyAgrees, JustWritten, IsValid, ValidId
  <2> QED BY <2>1, <2>2, <2>3, <2>4, <2>5, <2>6, <2>7, <2>8, <2>9 DEF ProposalNext
<1> QED BY ProposalInitInv, <1>1, PTL DEF ProposalSpec

(* The table, the copy and what an update knows hold records under their   *)
(* own ids.                                                                *)
THEOREM ProposalsTyped == ProposalSpec => []ProposalTypeOK
<1>1. ProposalInv => ProposalTypeOK
  BY DEF ProposalInv, ProposalShapes, ProposalTypeOK, MemoryTables, OwnRecord
<1> QED BY <1>1, ProposalInvariant, PTL

(* LangMemStructuredMemoryState.update: no valid proposal is lost but to a *)
(* later one of the same memory, and between updates the chat's copy hides *)
(* nothing of the table, except where a failed update had written over it. *)
THEOREM ProposalsStayKept == ProposalSpec => []ProposalsAreKept
<1>1. ProposalInv => LastProposalCounts
  <2> SUFFICES ASSUME ProposalInv, NEW n \in 1 .. position, dropReasons[n] = "none"
               PROVE  LET same == {m \in n .. position : dropReasons[m] = "none" /\ dropReasons[n] = "none"
                                     /\ RecordFrom(proposals[m]).id = RecordFrom(proposals[n]).id}
                          kept == {i \in DOMAIN keptRecords :
                                     keptRecords[i].id = RecordFrom(proposals[n]).id}
                      IN /\ \A i, j \in kept : i = j
                         /\ same = {n} => \E i \in kept : keptRecords[i] = RecordFrom(proposals[n])
    BY DEF LastProposalCounts
  <2>1. position \in Nat /\ Kept
    BY ProposalsAreLists DEF ProposalInv, ProposalShapes
  <2>2. \A i, j \in DOMAIN keptRecords : keptRecords[i].id = keptRecords[j].id => i = j
    BY <2>1 DEF Kept
  <2>3. ASSUME \A m \in n + 1 .. position :
                 ~(dropReasons[m] = "none" /\ RecordFrom(proposals[m]).id = RecordFrom(proposals[n]).id)
        PROVE  \E i \in DOMAIN keptRecords : keptRecords[i] = RecordFrom(proposals[n])
    <3>1. \A m \in n + 1 .. position : m \in 1 .. position
      BY <2>1
    <3> QED BY <2>1, <2>3, <3>1 DEF Kept, IsValid, ValidId
  <2>4. \A m \in n + 1 .. position : m \in n .. position /\ m # n
    BY <2>1
  <2> QED BY <2>2, <2>3, <2>4
<1>2. ProposalInv => KnownIsRecorded
  <2> SUFFICES ASSUME ProposalInv, updating = "idle"
               PROVE  LET shown == ShownExisting(MergedWith(Active(memoryTable), chatCopy)) IN
                      /\ \A id \in MemoryIds \ outdated : shown[id] = ShownExisting(memoryTable)[id]
                      /\ \A id \in ToldMemories \ outdated : chatCopy[id] = memoryTable[id]
                      /\ \A id \in MemoryIds : shown[id] # Nothing =>
                           shown[id].sources # {} /\ shown[id].sources \subseteq AskedIds
    BY DEF KnownIsRecorded
  <2> DEFINE merged == MergedWith(Active(memoryTable), chatCopy)
             shown == ShownExisting(merged)
  <2>1. ProposalShapes /\ JustWritten = {}
    BY DEF ProposalInv, ProposalShapes, JustWritten
  <2>2. \A id \in MemoryIds \ outdated : chatCopy[id] = Nothing \/ chatCopy[id] = memoryTable[id]
    BY <2>1 DEF ProposalInv, CopyAgrees
  <2>3. \A id \in MemoryIds : merged[id] = IF chatCopy[id] # Nothing THEN chatCopy[id]
                                           ELSE Active(memoryTable)[id]
    BY DEF MergedWith
  <2>4. \A id \in MemoryIds : Active(memoryTable)[id] =
          IF memoryTable[id] # Nothing /\ memoryTable[id].status = "active" THEN memoryTable[id] ELSE Nothing
    BY DEF Active
  <2>5. \A id \in MemoryIds : shown[id] =
          IF merged[id] # Nothing /\ merged[id].status = "active" /\ merged[id].text # "blank"
            THEN merged[id] ELSE Nothing
    BY DEF ShownExisting, Stored, Active
  <2>6. \A id \in MemoryIds : ShownExisting(memoryTable)[id] =
          IF memoryTable[id] # Nothing /\ memoryTable[id].status = "active"
             /\ memoryTable[id].text # "blank"
            THEN memoryTable[id] ELSE Nothing
    BY DEF ShownExisting, Stored, Active
  <2>7. \A id \in ToldMemories : id \in MemoryIds /\ chatCopy[id] # Nothing
    BY DEF ToldMemories, Active
  <2>8. /\ Active(memoryTable) \in MemoryTables
        /\ \A id \in MemoryIds : OwnRecord(Active(memoryTable)[id], id)
    BY <2>1, TablesAreTyped DEF ProposalShapes
  <2>9. merged \in MemoryTables
    BY <2>1, <2>8, TablesAreTyped DEF ProposalShapes
  <2> HIDE DEF merged, shown
  <2>10. ASSUME NEW id \in MemoryIds \ outdated
         PROVE  shown[id] = ShownExisting(memoryTable)[id]
    BY <2>2, <2>3, <2>4, <2>5, <2>6
  <2>11. ASSUME NEW id \in MemoryIds, shown[id] # Nothing
         PROVE  shown[id].sources # {} /\ shown[id].sources \subseteq AskedIds
    <3>1. shown[id] = merged[id] /\ merged[id] # Nothing
      BY <2>5, <2>11
    <3>2. shown[id] \in MemoryRecords
      BY <2>9, <3>1 DEF MemoryTables
    <3> QED BY <3>2 DEF MemoryRecords
  <2> QED BY <2>2, <2>7, <2>10, <2>11 DEF shown, merged
<1> QED BY <1>1, <1>2, ProposalInvariant, PTL DEF ProposalsAreKept

-----------------------------------------------------------------------------
(***************************************************************************)
(* Which messages an update consumes, for any sizes, limits, schedules and *)
(* length of the chat.  A cut never separates a question from the answer   *)
(* next to it (AnswersAreNoCuts), and whatever is selected by cuts is a    *)
(* prefix of what is pending; so consumed batches are in the order of the  *)
(* transcript.  The sums of tokens only decide which cut is taken.         *)
(***************************************************************************)

Pair(i) == /\ i \in Pending /\ i + 1 \in Pending
           /\ log[i].role = "user" /\ log[i + 1].role = "assistant"
Together(ids) == \A i \in Nat : Pair(i) => (i \in ids <=> i + 1 \in ids)
OldestPart(ids) == /\ ids \subseteq Pending /\ Together(ids)
               /\ \A i \in ids, j \in Pending : j < i => j \in ids

StopsBehindAnswers ==
  \A i \in DOMAIN log : log[i].by = 0 => \E j \in 1 .. i :
    log[j].by = 0 /\ log[j].role = "assistant" /\ (j = 1 \/ log[j - 1].by # 0)

BatchInv ==
  /\ BatchesTypeOK /\ BatchesKeepPairs
  /\ drained => consumer = "none" /\ StopsBehindAnswers

LEMMA PlacesAreNumbers ==
  ASSUME BatchesTypeOK
  PROVE  /\ Len(log) \in Nat /\ DOMAIN log = 1 .. Len(log)
         /\ Pending \subseteq 1 .. Len(log) /\ UnitStarts \subseteq Pending
         /\ \A c \in Cuts : c \in Nat
<1>1. Len(log) \in Nat /\ DOMAIN log = 1 .. Len(log)
  BY DEF BatchesTypeOK
<1> QED BY <1>1 DEF Pending, UnitStarts, Cuts

(* _conversation_units: the answer next to a pending question begins no    *)
(* unit.                                                                   *)
LEMMA AnswersAreNoCuts ==
  ASSUME BatchesTypeOK, NEW i \in Nat, Pair(i)
  PROVE  i + 1 \notin Cuts
<1>1. /\ i \in 1 .. Len(log) /\ i + 1 \in 1 .. Len(log) /\ Len(log) \in Nat
      /\ Pending \subseteq Nat
  BY PlacesAreNumbers DEF Pair
<1>2. i < i + 1 /\ \A k \in Pending : k <= i \/ i + 1 <= k
  BY <1>1
<1>3. Completes(i + 1)
  BY <1>2 DEF Completes, Pair
<1> QED BY <1>1, <1>3 DEF Cuts, UnitStarts

LEMMA BeforeIsOldest ==
  ASSUME BatchesTypeOK, NEW c \in Cuts
  PROVE  OldestPart(Preceding(c))
<1>1. c \in Nat /\ Pending \subseteq Nat
  BY PlacesAreNumbers
<1>2. ASSUME NEW i \in Nat, Pair(i)
      PROVE  i \in Preceding(c) <=> i + 1 \in Preceding(c)
  <2>1. i + 1 # c
    BY <1>2, AnswersAreNoCuts
  <2>2. i < c <=> i + 1 < c
    BY <1>1, <2>1
  <2> QED BY <1>2, <2>2 DEF Preceding, Pair
<1> QED BY <1>1, <1>2 DEF OldestPart, Together, Preceding

LEMMA UnprotectedIsOldest ==
  ASSUME BatchesTypeOK, NEW protected
  PROVE  OldestPart(Unprotected(protected))
<1>0. \A s \in UnitStarts : OldestPart(Preceding(s))
  BY BeforeIsOldest DEF Cuts
<1>1. CASE protected = 0
  BY <1>1 DEF Unprotected, OldestPart, Together, Pair
<1>2. CASE protected # 0
  <2> DEFINE starts == {t \in UnitStarts : TokensOf(From(t)) >= protected}
  <2>1. Unprotected(protected) = UNION {Preceding(s) : s \in starts}
    BY <1>2 DEF Unprotected
  <2>2. \A s \in starts : OldestPart(Preceding(s))
    BY <1>0
  <2> HIDE DEF starts
  <2> QED BY <2>1, <2>2 DEF OldestPart, Together
<1> QED BY <1>1, <1>2

(* The first unit and the prefixes that fit are prefixes.                  *)
LEMMA FittingIsOldest ==
  ASSUME BatchesTypeOK, NEW eligible, OldestPart(eligible), NEW limits
  PROVE  OldestPart(OldestFitting(eligible, limits))
<1> DEFINE fits == {d \in Cuts : /\ Preceding(d) \subseteq eligible
                                 /\ TokensOf(Preceding(d)) <= limits.tokens
                                 /\ Cardinality(Preceding(d)) <= limits.messages}
           firstUnit == {i \in eligible : \A c \in Cuts : Preceding(c) # {} => i < c}
           batch == firstUnit \cup (UNION {Preceding(c) : c \in fits})
<1>1. OldestFitting(eligible, limits) = IF HasUser(batch) THEN batch ELSE {}
  BY DEF OldestFitting
<1>2. \A c \in fits : OldestPart(Preceding(c))
  BY BeforeIsOldest
<1>3. OldestPart(firstUnit)
  <2>0. Pending \subseteq Nat /\ Cuts \subseteq Nat /\ eligible \subseteq Pending
    BY PlacesAreNumbers DEF OldestPart
  <2>1. ASSUME NEW i \in Nat, Pair(i)
        PROVE  i \in firstUnit <=> i + 1 \in firstUnit
    <3>1. i \in eligible <=> i + 1 \in eligible
      BY <2>1 DEF OldestPart, Together
    <3>2. \A c \in Cuts : c \in Nat /\ c # i + 1
      BY <2>0, <2>1, AnswersAreNoCuts
    <3>3. \A c \in Cuts : i < c <=> i + 1 < c
      BY <3>2
    <3> QED BY <3>1, <3>3
  <2>2. ASSUME NEW i \in firstUnit, NEW j \in Pending, j < i
        PROVE  j \in firstUnit
    <3>1. j \in eligible
      BY <2>2 DEF OldestPart
    <3>2. \A c \in Cuts : i < c => j < c
      BY <2>0, <2>2
    <3> QED BY <2>2, <3>1, <3>2
  <2>3. firstUnit \subseteq Pending
    BY <2>0
  <2> HIDE DEF firstUnit
  <2> QED BY <2>1, <2>2, <2>3 DEF OldestPart, Together
<1> HIDE DEF fits, firstUnit
<1>4. OldestPart(batch)
  BY <1>2, <1>3 DEF OldestPart, Together
<1>5. OldestPart({})
  BY DEF OldestPart, Together
<1> QED BY <1>1, <1>4, <1>5

LEMMA SelectionIsOldest ==
  ASSUME BatchesTypeOK, NEW limits, NEW flush \in BOOLEAN
  PROVE  OldestPart(Select(limits, flush))
<1> DEFINE eligible == Unprotected(IF flush THEN 0 ELSE limits.protected)
<1>1. OldestPart(eligible)
  BY UnprotectedIsOldest
<1>2. Select(limits, flush) \in {{}, eligible, OldestFitting(eligible, limits)}
  BY DEF Select
<1> HIDE DEF eligible
<1>3. OldestPart(OldestFitting(eligible, limits))
  BY <1>1, FittingIsOldest
<1>4. OldestPart({})
  BY DEF OldestPart, Together
<1> QED BY <1>1, <1>2, <1>3, <1>4

LEMMA LatestIsTogether ==
  ASSUME BatchesTypeOK
  PROVE  LatestTurn \subseteq Pending /\ Together(LatestTurn)
<1> DEFINE asked == {s \in UnitStarts : log[s].role = "user"}
<1>1. LatestTurn = {i \in Pending : \E s \in asked :
                      /\ s <= i /\ \A t \in asked : t <= s
                      /\ \A t \in UnitStarts : t <= s \/ i < t}
  BY DEF LatestTurn
<1>2. ASSUME NEW i \in Nat, Pair(i)
      PROVE  i \in LatestTurn <=> i + 1 \in LatestTurn
  <2>1. i \in Pending /\ i + 1 \in Pending
    BY <1>2 DEF Pair
  <2>2. \A s \in UnitStarts : s \in Nat /\ s # i + 1
    BY <1>2, PlacesAreNumbers, AnswersAreNoCuts DEF Cuts
  <2>3. \A s \in UnitStarts : (s <= i <=> s <= i + 1) /\ (i < s <=> i + 1 < s)
    BY <2>2
  <2>4. asked \subseteq UnitStarts
    OBVIOUS
  <2> HIDE DEF asked
  <2> QED BY <1>1, <2>1, <2>3, <2>4
<1> QED BY <1>1, <1>2 DEF Together

(* A batch is consumed as a whole or not at all.                           *)
LEMMA ApplyKeeps ==
  ASSUME BatchInv, NEW batch, NEW outcome, NEW allowNoop, ApplyBatch(batch, outcome, allowNoop),
         batch \subseteq Pending, Together(batch),
         schedule.policy # "agentic_each_turn" => OldestPart(batch),
         UNCHANGED <<waiting, schedule>>,
         consumer' \in {"none", "replay", "end"}, drained' \in BOOLEAN
  PROVE  BatchesTypeOK' /\ BatchesKeepPairs'
<1>0. /\ log \in Seq(LogMessages) /\ Len(log) \in Nat /\ DOMAIN log = 1 .. Len(log)
      /\ Len(log) + waiting <= MaxLog /\ waiting \in Nat /\ batches \in Nat
      /\ \A i \in DOMAIN log : log[i] \in LogMessages /\ log[i].by <= batches
      /\ BatchesKeepPairs
  BY PlacesAreNumbers DEF BatchInv, BatchesTypeOK
<1>1. CASE UNCHANGED <<log, batches>>
  BY <1>0, <1>1 DEF BatchInv, BatchesTypeOK, BatchesKeepPairs
<1>2. CASE /\ batches' = batches + 1
           /\ log' = [i \in DOMAIN log |->
                IF i \in batch THEN [log[i] EXCEPT !.by = batches + 1] ELSE log[i]]
  <2>1. /\ DOMAIN log' = DOMAIN log
        /\ \A i \in DOMAIN log : /\ i \in batch => log'[i] = [log[i] EXCEPT !.by = batches + 1]
                                 /\ i \notin batch => log'[i] = log[i]
    BY <1>2
  <2>2. \A i \in DOMAIN log : /\ log'[i] \in LogMessages
                              /\ log'[i].role = log[i].role /\ log'[i].late = log[i].late
                              /\ log'[i].by = IF i \in batch THEN batches + 1 ELSE log[i].by
    BY <1>0, <2>1 DEF LogMessages
  <2>3. log' \in Seq(LogMessages) /\ Len(log') = Len(log)
    BY <1>0, <1>2, <2>1, <2>2
  <2>4. \A i \in DOMAIN log' : log'[i].by <= batches'
    <3>1. \A i \in DOMAIN log : log[i].by \in Nat /\ log[i].by <= batches
      BY <1>0 DEF LogMessages
    <3>2. \A i \in DOMAIN log : (IF i \in batch THEN batches + 1 ELSE log[i].by) <= batches + 1
      BY <1>0, <3>1
    <3> QED BY <1>2, <2>1, <2>2, <3>2
  <2>5. BatchesTypeOK'
    BY <1>0, <1>2, <2>3, <2>4 DEF BatchesTypeOK
  <2>6. \A i \in batch : i \in DOMAIN log /\ log[i].by = 0
    BY DEF Pending
  <2>7. ASSUME NEW i \in DOMAIN log, i + 1 \in DOMAIN log, log[i].role = "user",
               log[i + 1].role = "assistant", ~log[i + 1].late
        PROVE  log'[i].by = log'[i + 1].by
    <3>1. log[i].by = log[i + 1].by /\ i \in Nat
      BY <1>0, <2>7 DEF BatchesKeepPairs
    <3>2. CASE log[i].by = 0
      <4>1. Pair(i)
        BY <2>7, <3>1, <3>2 DEF Pair, Pending
      <4> QED BY <2>2, <2>7, <3>1, <4>1 DEF Together
    <3>3. CASE log[i].by # 0
      BY <2>2, <2>6, <2>7, <3>1, <3>3
    <3> QED BY <3>2, <3>3
  <2>8. ASSUME schedule.policy # "agentic_each_turn",
               NEW i \in DOMAIN log, NEW j \in DOMAIN log, i < j, log'[j].by # 0
        PROVE  log'[i].by \in 1 .. log'[j].by
    <3>0. /\ log[i].by \in Nat /\ log[j].by \in Nat
          /\ log[i].by <= batches /\ log[j].by <= batches
      BY <1>0 DEF LogMessages
    <3>1. CASE j \in batch
      <4>1. log[i].by = 0 => i \in batch
        BY <2>8, <3>1 DEF OldestPart, Pending
      <4> QED BY <1>0, <2>2, <3>0, <3>1, <4>1
    <3>2. CASE j \notin batch
      <4>1. log[i].by \in 1 .. log[j].by
        BY <1>0, <2>2, <2>8, <3>2 DEF BatchesKeepPairs
      <4>2. i \notin batch
        BY <2>6, <3>0, <4>1
      <4> QED BY <2>2, <3>2, <4>1, <4>2
    <3> QED BY <3>1, <3>2
  <2>9. BatchesKeepPairs'
    BY <2>1, <2>2, <2>7, <2>8 DEF BatchesKeepPairs
  <2> QED BY <2>5, <2>9
<1> QED BY <1>1, <1>2 DEF ApplyBatch

LEMMA SaveKeeps ==
  ASSUME BatchInv, NEW role \in {"user", "assistant"}, NEW tokens \in TokenCounts,
         Save(role, tokens), UNCHANGED <<schedule, batches, consumer>>, drained' = FALSE,
         waiting' \in Nat, Len(log) + 1 + waiting' <= MaxLog
  PROVE  BatchInv'
<1>0. /\ log \in Seq(LogMessages) /\ Len(log) \in Nat /\ DOMAIN log = 1 .. Len(log)
      /\ batches \in Nat /\ \A i \in DOMAIN log : log[i].by <= batches
      /\ BatchesKeepPairs /\ BatchesTypeOK
  BY PlacesAreNumbers DEF BatchInv, BatchesTypeOK
<1> DEFINE n == Len(log)
           message == [role |-> role, tokens |-> tokens, by |-> 0,
                       late |-> (n > 0 /\ log[n].role = "user") /\ log[n].by # 0]
<1>1. log' = Append(log, message) /\ message \in LogMessages
  BY DEF Save, LogMessages
<1>2. /\ message.by = 0 /\ message.role = role
      /\ n > 0 /\ log[n].role = "user" /\ ~message.late => log[n].by = 0
  OBVIOUS
<1> HIDE DEF message
<1>3. /\ log' \in Seq(LogMessages) /\ Len(log') = n + 1 /\ DOMAIN log' = 1 .. n + 1
      /\ log'[n + 1] = message /\ \A i \in 1 .. n : log'[i] = log[i]
  BY <1>0, <1>1
<1>4. BatchesTypeOK'
  <2>1. \A i \in DOMAIN log' : log'[i].by <= batches'
    BY <1>0, <1>2, <1>3
  <2> QED BY <1>0, <1>3, <2>1 DEF BatchesTypeOK
<1>5. ASSUME NEW i \in 1 .. n + 1, i + 1 \in 1 .. n + 1, log'[i].role = "user",
             log'[i + 1].role = "assistant", ~log'[i + 1].late
      PROVE  log'[i].by = log'[i + 1].by
  <2>1. i \in 1 .. n /\ i \in DOMAIN log /\ log'[i] = log[i]
    BY <1>0, <1>3, <1>5
  <2>2. CASE i = n
    BY <1>0, <1>2, <1>3, <1>5, <2>1, <2>2
  <2>3. CASE i # n
    <3>1. i + 1 \in 1 .. n /\ i + 1 \in DOMAIN log
      BY <1>0, <2>1, <2>3
    <3>2. log'[i + 1] = log[i + 1]
      BY <1>3, <3>1
    <3> QED BY <1>0, <1>5, <2>1, <3>1, <3>2 DEF BatchesKeepPairs
  <2> QED BY <2>2, <2>3
<1>6. ASSUME schedule.policy # "agentic_each_turn",
             NEW i \in 1 .. n + 1, NEW j \in 1 .. n + 1, i < j, log'[j].by # 0
      PROVE  log'[i].by \in 1 .. log'[j].by
  <2>1. j # n + 1
    BY <1>2, <1>3, <1>6
  <2>2. j \in 1 .. n /\ i \in 1 .. n /\ i \in DOMAIN log /\ j \in DOMAIN log
    BY <1>0, <1>6, <2>1
  <2>3. log'[i] = log[i] /\ log'[j] = log[j]
    BY <1>3, <2>2
  <2> QED BY <1>0, <1>6, <2>2, <2>3 DEF BatchesKeepPairs
<1>7. BatchesKeepPairs'
  BY <1>3, <1>5, <1>6 DEF BatchesKeepPairs
<1> QED BY <1>4, <1>7 DEF BatchInv

(* process_all_for_chat_end stops when nothing is selected: nothing is     *)
(* pending, or the oldest pending message is an answer.                    *)
LEMMA EndStops ==
  ASSUME BatchesTypeOK, NEW limits, Select(limits, TRUE) = {}
  PROVE  StopsBehindAnswers
<1> SUFFICES ASSUME NEW i \in Pending
             PROVE  \E j \in 1 .. i : log[j].by = 0 /\ log[j].role = "assistant"
                                      /\ (j = 1 \/ log[j - 1].by # 0)
  BY DEF StopsBehindAnswers, Pending
<1>0. /\ Len(log) \in Nat /\ DOMAIN log = 1 .. Len(log) /\ Pending \subseteq 1 .. Len(log)
      /\ \A c \in Cuts : c \in Nat
  BY PlacesAreNumbers
<1> DEFINE fits == {d \in Cuts : /\ Preceding(d) \subseteq Pending
                                 /\ TokensOf(Preceding(d)) <= limits.tokens
                                 /\ Cardinality(Preceding(d)) <= limits.messages}
           firstUnit == {k \in Pending : \A c \in Cuts : Preceding(c) # {} => k < c}
           batch == firstUnit \cup (UNION {Preceding(c) : c \in fits})
<1>1. Unprotected(0) = Pending
  BY DEF Unprotected
<1>2. OldestFitting(Pending, limits) = IF HasUser(batch) THEN batch ELSE {}
  BY DEF OldestFitting
<1>3. ~HasUser(batch)
  <2>1. OldestFitting(Pending, limits) = {}
    BY <1>1 DEF Select
  <2>2. HasUser(batch) => batch # {}
    BY DEF HasUser
  <2> HIDE DEF batch
  <2> QED BY <1>2, <2>1, <2>2
<1>4. PICK j \in Pending : \A k \in Pending : j <= k
  BY <1>0, LeastIndex
<1>5. j \in firstUnit
  <2> SUFFICES ASSUME NEW c \in Cuts, Preceding(c) # {}
               PROVE  j < c
    OBVIOUS
  <2>1. PICK k \in Pending : k < c
    BY DEF Preceding
  <2>2. j <= k /\ j \in Nat /\ k \in Nat /\ c \in Nat
    BY <1>0, <1>4
  <2> QED BY <2>1, <2>2
<1>6. log[j].role # "user"
  BY <1>3, <1>5 DEF HasUser
<1>7. log[j].role = "assistant" /\ log[j].by = 0
  <2>1. j \in DOMAIN log /\ log[j].by = 0
    BY DEF Pending
  <2>2. log[j] \in LogMessages
    BY <2>1 DEF BatchesTypeOK
  <2> QED BY <1>6, <2>1, <2>2 DEF LogMessages
<1>8. j \in 1 .. i
  BY <1>0, <1>4
<1>9. j = 1 \/ log[j - 1].by # 0
  <2> SUFFICES ASSUME j # 1, log[j - 1].by = 0 PROVE FALSE
    OBVIOUS
  <2>1. j - 1 \in DOMAIN log /\ j - 1 < j
    BY <1>0
  <2>2. j - 1 \in Pending
    BY <2>1 DEF Pending
  <2> QED BY <1>0, <1>4, <2>1, <2>2
<1> QED BY <1>7, <1>8, <1>9

THEOREM BatchInvariant == BatchesSpec => []BatchInv
<1>1. BatchesInit => BatchInv
  <2> SUFFICES ASSUME BatchesInit PROVE BatchInv
    OBVIOUS
  <2>1. /\ log = <<>> /\ waiting = 0 /\ batches = 0 /\ consumer = "none" /\ drained = FALSE
    BY DEF BatchesInit
  <2>0. log \in Seq(LogMessages) /\ Len(log) = 0 /\ DOMAIN log = {}
    BY <2>1
  <2>2. BatchesTypeOK
    <3>1. \A i \in DOMAIN log : log[i].by <= batches
      BY <2>0
    <3>2. Len(log) + waiting <= MaxLog
      BY <2>0, <2>1, LogAssumption DEF LogAssumption
    <3>3. /\ waiting \in Nat /\ batches \in Nat /\ drained \in BOOLEAN
          /\ consumer \in {"none", "replay", "end"}
      BY <2>1
    <3> QED BY <2>0, <3>1, <3>2, <3>3 DEF BatchesTypeOK
  <2>3. BatchesKeepPairs
    BY <2>0 DEF BatchesKeepPairs
  <2> QED BY <2>1, <2>2, <2>3 DEF BatchInv
<1>2. BatchInv /\ [BatchesNext]_batchVars => BatchInv'
  <2> SUFFICES ASSUME BatchInv, [BatchesNext]_batchVars PROVE BatchInv'
    OBVIOUS
  <2>0. BatchesTypeOK
    BY DEF BatchInv
  <2>1. ASSUME NEW tokens \in TokenCounts, SaveQuestion(tokens) PROVE BatchInv'
    <3>1. waiting' \in Nat /\ Len(log) + 1 + waiting' <= MaxLog
      BY <2>0, <2>1, LogAssumption DEF SaveQuestion, BatchesTypeOK
    <3> QED BY <2>1, <3>1, SaveKeeps DEF SaveQuestion
  <2>2. ASSUME NEW tokens \in TokenCounts, SaveAnswer(tokens) PROVE BatchInv'
    <3>1. waiting' \in Nat /\ Len(log) + 1 + waiting' <= MaxLog
      BY <2>0, <2>2, LogAssumption DEF SaveAnswer, BatchesTypeOK
    <3> QED BY <2>2, <3>1, SaveKeeps DEF SaveAnswer
  <2>3. CASE LoseAnswer
    <3>1. BatchesTypeOK'
      BY <2>0, <2>3, LogAssumption DEF LoseAnswer, BatchesTypeOK
    <3>2. StopsBehindAnswers => StopsBehindAnswers'
      BY <2>3 DEF LoseAnswer, StopsBehindAnswers
    <3>3. BatchesKeepPairs'
      BY <2>3 DEF LoseAnswer, BatchInv, BatchesKeepPairs
    <3> QED BY <2>3, <3>1, <3>2, <3>3 DEF LoseAnswer, BatchInv
  <2>4. CASE LoopEnds
    <3>1. BatchesTypeOK'
      BY <2>0, <2>4 DEF LoopEnds, BatchesTypeOK
    <3>2. consumer = "end" => StopsBehindAnswers
      BY <2>0, <2>4, EndStops DEF LoopEnds, SelectInLoop
    <3>3. StopsBehindAnswers => StopsBehindAnswers'
      BY <2>4 DEF LoopEnds, StopsBehindAnswers
    <3>4. BatchesKeepPairs'
      BY <2>4 DEF LoopEnds, BatchInv, BatchesKeepPairs
    <3> QED BY <2>4, <3>1, <3>2, <3>3, <3>4 DEF LoopEnds, BatchInv
  <2>5. ASSUME NEW who \in {"replay", "end"}, StartLoop(who) PROVE BatchInv'
    BY <2>5 DEF StartLoop, BatchInv, BatchesTypeOK, BatchesKeepPairs
  <2>6. ASSUME NEW outcome \in Outcomes, UpdateOnline(outcome) PROVE BatchInv'
    <3> DEFINE batch == Select(schedule.online, FALSE)
    <3>1. OldestPart(batch)
      BY <2>0, SelectionIsOldest
    <3>2. /\ ApplyBatch(batch, outcome, FALSE) /\ drained' = FALSE
          /\ UNCHANGED <<waiting, schedule, consumer>>
      BY <2>6 DEF UpdateOnline
    <3>3. consumer' \in {"none", "replay", "end"}
      BY <2>0, <3>2 DEF BatchesTypeOK
    <3> HIDE DEF batch
    <3>4. batch \subseteq Pending /\ Together(batch)
      BY <3>1 DEF OldestPart
    <3>5. BatchesTypeOK' /\ BatchesKeepPairs'
      BY <3>1, <3>2, <3>3, <3>4, ApplyKeeps
    <3> QED BY <3>2, <3>5 DEF BatchInv
  <2>7. ASSUME NEW outcome \in Outcomes, UpdateLatestTurn(outcome) PROVE BatchInv'
    <3>1. /\ ApplyBatch(LatestTurn, outcome, TRUE) /\ drained' = FALSE
          /\ UNCHANGED <<waiting, schedule, consumer>> /\ schedule.policy = "agentic_each_turn"
      BY <2>7 DEF UpdateLatestTurn
    <3>2. consumer' \in {"none", "replay", "end"}
      BY <2>0, <3>1 DEF BatchesTypeOK
    <3>3. BatchesTypeOK' /\ BatchesKeepPairs'
      BY <2>0, <3>1, <3>2, LatestIsTogether, ApplyKeeps
    <3> QED BY <3>1, <3>3 DEF BatchInv
  <2>8. ASSUME NEW outcome \in Outcomes, LoopBatch(outcome) PROVE BatchInv'
    <3> DEFINE batch == SelectInLoop
               allowNoop == consumer = "end"
    <3>1. OldestPart(batch)
      BY <2>0, SelectionIsOldest DEF SelectInLoop
    <3>2. /\ ApplyBatch(batch, outcome, allowNoop) /\ consumer # "none"
          /\ consumer' \in {consumer, "none"} /\ UNCHANGED <<waiting, schedule, drained>>
      BY <2>8 DEF LoopBatch
    <3>3. consumer' \in {"none", "replay", "end"} /\ ~drained /\ drained' \in BOOLEAN
      BY <2>0, <3>2 DEF BatchesTypeOK, BatchInv
    <3> HIDE DEF batch, allowNoop
    <3>4. batch \subseteq Pending /\ Together(batch)
      BY <3>1 DEF OldestPart
    <3>5. BatchesTypeOK' /\ BatchesKeepPairs'
      BY <3>1, <3>2, <3>3, <3>4, ApplyKeeps
    <3> QED BY <3>2, <3>3, <3>5 DEF BatchInv
  <2>9. CASE UNCHANGED batchVars
    BY <2>9 DEF batchVars, BatchInv, BatchesTypeOK, BatchesKeepPairs, StopsBehindAnswers
  <2> QED BY <2>1, <2>2, <2>3, <2>4, <2>5, <2>6, <2>7, <2>8, <2>9 DEF BatchesNext
<1> QED BY <1>1, <1>2, PTL DEF BatchesSpec

(* The log holds messages of the two roles, and their batches are          *)
(* numbered.                                                               *)
THEOREM LogTyped == BatchesSpec => []BatchesTypeOK
<1>1. BatchInv => BatchesTypeOK
  BY DEF BatchInv
<1> QED BY <1>1, BatchInvariant, PTL

(* ShortTermMemory: whatever sizes, limits and outcomes, no batch tears a  *)
(* question from its answer, scheduled batches skip nothing, and a chat    *)
(* end leaves messages only behind an answer without its question.         *)
THEOREM BatchesStayWhole == BatchesSpec => []BatchesAreWhole
<1>1. BatchInv => BatchesAreWhole
  BY DEF BatchInv, BatchesAreWhole, EndStopsOnlyBehindAnswers, StopsBehindAnswers
<1> QED BY <1>1, BatchInvariant, PTL

=============================================================================
