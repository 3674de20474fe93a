---------------------------- MODULE MemoryProposals ----------------------------
(***************************************************************************)
(* What becomes of the memories a model proposes                           *)
(* (LangMemStructuredMemoryState.update): each proposal is dropped for a   *)
(* reason or turned into a record, a later record of the same memory       *)
(* replaces an earlier one, the records are written to the table one by    *)
(* one, and the chat's copy follows when all of them are written.          *)
(*                                                                         *)
(* MemoryStore follows one record between the table, its index and the     *)
(* copies of several chats; here the chat is alone, and the proposals, the *)
(* checks and a write that fails half way are kept.                        *)
(***************************************************************************)
EXTENDS Naturals, Sequences

CONSTANTS
  ProposalsOf, \* what one call of the model may return
  KeyOf,       \* normalize_key: the key of a spelling, NoKeyLeft if nothing is left
  NoKeyLeft,
  AskedIds,    \* user messages of the batch: without one nothing is updated
  Nothing,
  MaxUpdates   \* bound: updates

VARIABLES
  updating,     \* "idle", "extract", "normalize", "write"
  updates,      \* how many updates have begun
  known,        \* combined_existing_records, of this update
  proposals,    \* extracted
  position,     \* the proposals normalized so far
  keptRecords,  \* records
  dropReasons,  \* drops: the reason at the place of the proposal
  written,      \* records written so far
  memoryTable,  \* long_term_memories
  chatCopy,     \* chat_memory_state
  outdated      \* memories a failed update wrote while the copy held another version

proposalVars == <<updating, updates, known, proposals, position, keptRecords, dropReasons,
                  written, memoryTable, chatCopy, outdated>>

-----------------------------------------------------------------------------
(* A proposal: [content, category, spelling, text, cites, status].         *)

MemoryCategories == {"user_facts", "corrections"}
\* make_memory_id
MemoryId(category, key) == <<category, key>>
MemoryIds == MemoryCategories \X ({KeyOf[s] : s \in DOMAIN KeyOf} \ {NoKeyLeft})

\* a text that consists of message ids ("[message_id=7]") is not blank until
\* they are removed
CleanedText(text) == IF text = "ids" THEN "blank" ELSE text
StatusOf(status) == IF status \in {"active", "superseded", "deleted"} THEN status ELSE "active"

\* Mutant: a copied piece of the transcript is not looked for
BugDropReason(p) ==
  IF ~p.content THEN "empty_content"
  ELSE IF p.category \notin MemoryCategories THEN "invalid_category"
  ELSE IF KeyOf[p.spelling] = NoKeyLeft \/ p.text = "blank" THEN "missing_key_or_value"
  ELSE IF CleanedText(p.text) = "vague" THEN "vague_memory"
  ELSE "none"

\* normalize_langmem_memory: the first check that fails
DropReason(p) ==
  IF ~p.content THEN "empty_content"
  ELSE IF p.category \notin MemoryCategories THEN "invalid_category"
  ELSE IF KeyOf[p.spelling] = NoKeyLeft \/ p.text = "blank" THEN "missing_key_or_value"
  ELSE IF CleanedText(p.text) = "transcript" THEN "transcript_text"
  ELSE IF CleanedText(p.text) = "vague" THEN "vague_memory"
  ELSE "none"

\* the model sees the ids of all messages; only the user's count, and without
\* one of them the memory is about all of them
CitedBy(p) == IF p.cites \cap AskedIds = {} THEN AskedIds ELSE p.cites \cap AskedIds

RecordFrom(p) == [id |-> MemoryId(p.category, KeyOf[p.spelling]), text |-> CleanedText(p.text),
                  sources |-> CitedBy(p), status |-> StatusOf(p.status)]

MemoryRecords ==
  [id : MemoryIds, sources : (SUBSET AskedIds) \ {{}},
   status : {"active", "superseded", "deleted"},
   text : UNION {{CleanedText(items[i].text) : i \in DOMAIN items} : items \in ProposalsOf}]

ASSUME ProposalsAssumption ==
  /\ MaxUpdates \in Nat /\ AskedIds # {} /\ Nothing \notin MemoryRecords
  /\ \A items \in ProposalsOf :
       /\ Len(items) \in Nat /\ DOMAIN items = 1 .. Len(items)
       /\ \A i \in DOMAIN items : items[i].spelling \in DOMAIN KeyOf

\* Mutant: a memory proposed twice keeps its first version
BugUpserted(records, record) ==
  IF \E i \in DOMAIN records : records[i].id = record.id THEN records
  ELSE Append(records, record)

\* upsert_normalized_record
Upserted(records, record) ==
  IF \E i \in DOMAIN records : records[i].id = record.id
    THEN [i \in DOMAIN records |-> IF records[i].id = record.id THEN record ELSE records[i]]
    ELSE Append(records, record)

-----------------------------------------------------------------------------
(* The table and the copy.                                                 *)

\* the active rows
Active(memories) == [id \in MemoryIds |->
  IF memories[id] # Nothing /\ memories[id].status = "active" THEN memories[id] ELSE Nothing]
\* normalize_memory_state: a record without a text does not survive the copy
Stored(memories) == [id \in MemoryIds |->
  IF memories[id] # Nothing /\ memories[id].text = "blank" THEN Nothing ELSE memories[id]]
\* merge_memory_records
MergedWith(memories, newer) == [id \in MemoryIds |->
  IF newer[id] # Nothing THEN newer[id] ELSE memories[id]]
WithRecords(memories, records) == [id \in MemoryIds |->
  IF \E i \in DOMAIN records : records[i].id = id
    THEN records[CHOOSE i \in DOMAIN records : records[i].id = id] ELSE memories[id]]

\* existing_memories_for_langmem, of what an update knows
ShownExisting(memories) == Stored(Active(memories))

\* format_memory_for_prompt: the lines a prompt gets from the copy
ToldMemories == {id \in MemoryIds : Active(chatCopy)[id] # Nothing}

-----------------------------------------------------------------------------
(* An update.                                                              *)

ProposalInit ==
  /\ updating = "idle" /\ updates = 0 /\ proposals = <<>> /\ position = 0
  /\ keptRecords = <<>> /\ dropReasons = <<>> /\ written = 0
  /\ memoryTable = [id \in MemoryIds |-> Nothing]
  /\ chatCopy = [id \in MemoryIds |-> Nothing] /\ known = [id \in MemoryIds |-> Nothing]
  /\ outdated = {}

Finished == /\ updating' = "idle" /\ proposals' = <<>> /\ position' = 0
            /\ keptRecords' = <<>> /\ dropReasons' = <<>> /\ written' = 0
            /\ known' = [id \in MemoryIds |-> Nothing]

LoadExisting ==
  /\ updating = "idle" /\ updates < MaxUpdates
  /\ updating' = "extract" /\ updates' = updates + 1
  /\ known' = MergedWith(Active(memoryTable), chatCopy)
  /\ UNCHANGED <<proposals, position, keptRecords, dropReasons, written, memoryTable,
                 chatCopy, outdated>>

\* the copy gets what the update knew, although it failed
KeepKnown == chatCopy' = Stored(known) /\ Finished

\* langmem_update_failed: unreachable, or the call raised
ExtractionFails ==
  /\ updating = "extract" /\ KeepKnown /\ UNCHANGED <<updates, memoryTable, outdated>>

Extract(items) ==
  /\ updating = "extract" /\ updating' = "normalize" /\ proposals' = items
  /\ UNCHANGED <<updates, known, position, keptRecords, dropReasons, written, memoryTable,
                 chatCopy, outdated>>

NormalizeNext ==
  LET p == proposals[position + 1] IN
  /\ updating = "normalize" /\ position < Len(proposals)
  /\ position' = position + 1 /\ dropReasons' = Append(dropReasons, DropReason(p))
  /\ keptRecords' = IF DropReason(p) = "none" THEN Upserted(keptRecords, RecordFrom(p))
                    ELSE keptRecords
  /\ UNCHANGED <<updating, updates, known, proposals, written, memoryTable, chatCopy, outdated>>

AllNormalized == updating = "normalize" /\ position = Len(proposals)

\* langmem_no_valid_memories
NoneValid ==
  /\ AllNormalized /\ keptRecords = <<>> /\ KeepKnown
  /\ UNCHANGED <<updates, memoryTable, outdated>>

BeginWrites ==
  /\ AllNormalized /\ keptRecords # <<>> /\ updating' = "write"
  /\ UNCHANGED <<updates, known, proposals, position, keptRecords, dropReasons, written,
                 memoryTable, chatCopy, outdated>>

WriteNext ==
  LET record == keptRecords[written + 1] IN
  /\ updating = "write" /\ written < Len(keptRecords)
  /\ memoryTable' = [memoryTable EXCEPT ![record.id] = record] /\ written' = written + 1
  /\ UNCHANGED <<updating, updates, known, proposals, position, keptRecords, dropReasons,
                 chatCopy, outdated>>

\* long_term_store_write_failed: the rows written before stay, also one that
\* could not be read back
WriteFails ==
  /\ updating = "write" /\ KeepKnown
  /\ outdated' = outdated \cup {id \in MemoryIds : known[id] # Nothing /\
                                  \E i \in 1 .. written : keptRecords[i].id = id}
  /\ UNCHANGED <<updates, memoryTable>>

Accept ==
  /\ updating = "write" /\ written = Len(keptRecords)
  /\ chatCopy' = Stored(WithRecords(known, keptRecords))
  /\ outdated' = outdated \ {keptRecords[i].id : i \in DOMAIN keptRecords}
  /\ Finished /\ UNCHANGED <<updates, memoryTable>>

ProposalNext ==
  \/ LoadExisting \/ ExtractionFails \/ \E items \in ProposalsOf : Extract(items)
  \/ NormalizeNext \/ NoneValid \/ BeginWrites \/ WriteNext \/ WriteFails \/ Accept
ProposalSpec == ProposalInit /\ [][ProposalNext]_proposalVars

-----------------------------------------------------------------------------
(* Properties.                                                             *)

ProposalTypeOK ==
  /\ updating \in {"idle", "extract", "normalize", "write"} /\ updates \in 0 .. MaxUpdates
  /\ position \in 0 .. Len(proposals) /\ written \in 0 .. Len(keptRecords)
  /\ {memoryTable, chatCopy, known} \subseteq [MemoryIds -> MemoryRecords \cup {Nothing}]
  /\ \A memories \in {memoryTable, chatCopy, known} : \A id \in MemoryIds :
       memories[id] = Nothing \/ (memories[id].id = id /\ memories[id].text # "transcript")
  /\ outdated \subseteq MemoryIds

(* A proposal is never lost silently: it is dropped for a reason, replaced *)
(* by a later valid proposal of the same memory, or written as it is; so a *)
(* correction proposed before the version it supersedes does not survive.  *)
LastProposalCounts ==
  \A n \in 1 .. position :
    LET p == proposals[n]
        same == {m \in n .. position : dropReasons[m] = "none" /\ dropReasons[n] = "none"
                   /\ RecordFrom(proposals[m]).id = RecordFrom(p).id}
        kept == {i \in DOMAIN keptRecords : keptRecords[i].id = RecordFrom(p).id} IN
    dropReasons[n] = "none" =>
      /\ \A i, j \in kept : i = j
      /\ same = {n} => \E i \in kept : keptRecords[i] = RecordFrom(p)

(* Between updates the model is shown and the prompt is told what the table *)
(* has, and only about what users wrote, however updates fail. The          *)
(* exception is a memory of which an update that failed later had already   *)
(* written a new version: the copy keeps the old one, and the old one       *)
(* hides the new one, until the memory is proposed again.                   *)
KnownIsRecorded ==
  updating = "idle" =>
    LET shown == ShownExisting(MergedWith(Active(memoryTable), chatCopy)) IN
    /\ \A id \in MemoryIds \ outdated : shown[id] = ShownExisting(memoryTable)[id]
    /\ \A id \in ToldMemories \ outdated : chatCopy[id] = memoryTable[id]
    /\ \A id \in MemoryIds : shown[id] # Nothing =>
         shown[id].sources # {} /\ shown[id].sources \subseteq AskedIds

ProposalsAreKept == LastProposalCounts /\ KnownIsRecorded

=============================================================================
