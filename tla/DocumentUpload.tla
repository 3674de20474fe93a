---------------------------- MODULE DocumentUpload ----------------------------
(***************************************************************************)
(* Uploaded documents: the idempotent upload of a file into a chat         *)
(* (ChatService.index_document_file), the document routes of the API, and  *)
(* the turns that resolve which documents they may search.                 *)
(*                                                                         *)
(* Uploads and API handlers run on the event loop one after the other, so  *)
(* one program counter (step) is enough for them.  Turns run on worker     *)
(* threads, interleaved with every step of the loop; an upload and a turn  *)
(* of the same chat exclude each other through the chat's guard.  A step   *)
(* is one SQLite transaction or one call of the vector store: a crash can  *)
(* separate any two of them.                                               *)
(***************************************************************************)
CONSTANTS
  Chats,      \* chat ids
  Files,      \* uploaded files; with its chat, a file names an operation id
  Blank,      \* files whose text is split into no chunk: an empty .txt, a PDF
              \* whose every line is a repeated header
  Docs,       \* document ids (uuid4: never issued twice)
  Turns,      \* turns that can be in flight
  None        \* NULL

ASSUME NoneAssumption == /\ None \notin Docs /\ None \notin Files
                         /\ None \notin Chats
                         /\ \A S \in SUBSET Docs : S # None
ASSUME ChatsAreNotDocs == Chats \cap Docs = {}
ASSUME BlankAssumption == Blank \subseteq Files

VARIABLES
  chats,      \* rows of table chats
  operations, \* operation_results.result_ref of each operation id
  records,    \* document_records.status: "none" before the row, "gone" after
  names,      \* document_records.file_name
  links,      \* rows of table chat_documents
  chunks,     \* documents whose chunks are in the vector store
  step,       \* where the event loop is in an upload or a document deletion
  job,        \* the upload in progress: its chat, its file, has it an id?
  doc,        \* the document the loop is working on
  turns,      \* the turns in flight
  answered,   \* uploads whose client was told "Indexed"
  managed     \* documents and chats an API route has changed by hand

store == <<chats, operations, records, names, links, chunks>>
loop == <<step, job, doc>>
ghosts == <<answered, managed>>
vars == <<store, loop, turns, ghosts>>

Rows == {"Uploading", "Indexing", "Ready", "Failed", "deleted"}
Pending == {"Uploading", "Indexing"}
Jobs == [chat : Chats, file : Files, keyed : BOOLEAN]
Uploads == [chat : Chats, file : Files, keyed : BOOLEAN, doc : Docs]

(* What a message says about documents: nothing, an implicit reference     *)
(* ("this document"), or the name of a file.                               *)
Queries == {"plain", "implicit"} \cup Files

NoTurn == [stage |-> "idle"]
TurnStages == {"lookup", "scope", "fallback", "search"}
TurnStates == [stage : TurnStages, chat : Chats,
               allowed : (SUBSET Docs) \cup {None}]

Exists(d) == records[d] \in Rows

\* a uuid4 that no table and no chunk has seen
Fresh(d) == /\ records[d] = "none"
            /\ d \notin chunks
            /\ \A c \in Chats, f \in Files : operations[<<c, f>>] # d

Init == /\ chats = Chats
        /\ operations = [k \in Chats \X Files |-> None]
        /\ records = [d \in Docs |-> "none"]
        /\ names = [d \in Docs |-> None]
        /\ links = {}
        /\ chunks = {}
        /\ step = "idle" /\ job = None /\ doc = None
        /\ turns = [t \in Turns |-> NoTurn]
        /\ answered = {}
        /\ managed = {}

-----------------------------------------------------------------------------
(* The guard of a chat: held by the upload from its lock on, and by a turn *)
(* as long as it runs.                                                     *)

Uploading(c) == /\ step \notin {"idle", "lock", "purged"}
                /\ job.chat = c
InTurn(c) == \E t \in Turns : turns[t] # NoTurn /\ turns[t].chat = c

At(s) == step = s
Goto(s) == /\ step' = s
           /\ UNCHANGED <<job, doc>>
\* the handler returns or raises, and leaves the guard
Done == step' = "idle" /\ job' = None /\ doc' = None
SetStatus(s) == records' = [records EXCEPT ![doc] = s]

-----------------------------------------------------------------------------
(* ChatService.index_document_file with a chat.                            *)

(* A file of a message.  The app gives every upload an operation id, other *)
(* callers need not.  The chat may be gone: start_chat and the upload are  *)
(* separated by an await.                                                  *)
Arrive(c, f, k) ==
  /\ At("idle")
  /\ step' = "lock"
  /\ job' = [chat |-> c, file |-> f, keyed |-> k]
  /\ UNCHANGED <<store, doc, turns, ghosts>>

\* with guarded_chat_operation(...): the event loop waits for the turn
Lock == /\ At("lock")
        /\ ~InTurn(job.chat)
        /\ Goto("begin")
        /\ UNCHANGED <<store, turns, ghosts>>

\* Mutant: every upload is taken for a new one
BugKnown == None

\* get_operation_result
Known == IF job.keyed THEN operations[<<job.chat, job.file>>] ELSE None

\* "upload retry references a missing document record"
BeginMissing == /\ At("begin")
                /\ Known # None /\ ~Exists(Known)
                /\ Done
                /\ UNCHANGED <<store, turns, ghosts>>

\* the retry of an upload that succeeded only associates
BeginReady == /\ At("begin")
              /\ Known # None /\ records[Known] = "Ready"
              /\ step' = "link"
              /\ doc' = Known
              /\ UNCHANGED <<store, job, turns, ghosts>>

\* Mutant: the retry of any upload indexes again
BugBeginRetry == /\ At("begin")
                 /\ Known # None /\ Exists(Known)
                 /\ step' = "claimed"
                 /\ doc' = Known
                 /\ UNCHANGED <<store, job, turns, ghosts>>

\* the retry of one that did not goes through indexing again
BeginRetry == /\ At("begin")
              /\ Known # None /\ Exists(Known) /\ records[Known] # "Ready"
              /\ step' = "claimed"
              /\ doc' = Known
              /\ UNCHANGED <<store, job, turns, ghosts>>

\* Mutant: the key and the record are two transactions
BugClaim(d) ==
  /\ At("begin") /\ job.keyed /\ Known = None /\ Fresh(d)
  /\ operations' = [operations EXCEPT ![<<job.chat, job.file>>] = d]
  /\ step' = "claimed" /\ doc' = d
  /\ UNCHANGED <<chats, records, names, links, chunks, job, turns, ghosts>>

\* claim_document_upload: the key and the record in one transaction
Claim(d) ==
  /\ At("begin") /\ job.keyed /\ Known = None /\ Fresh(d)
  /\ operations' = [operations EXCEPT ![<<job.chat, job.file>>] = d]
  /\ records' = [records EXCEPT ![d] = "Uploading"]
  /\ names' = [names EXCEPT ![d] = job.file]
  /\ step' = "claimed" /\ doc' = d
  /\ UNCHANGED <<chats, links, chunks, job, turns, ghosts>>

\* create_document_record, for an upload without an operation id
Create(d) ==
  /\ At("begin") /\ ~job.keyed /\ Fresh(d)
  /\ records' = [records EXCEPT ![d] = "Uploading"]
  /\ names' = [names EXCEPT ![d] = job.file]
  /\ step' = "claimed" /\ doc' = d
  /\ UNCHANGED <<chats, operations, links, chunks, job, turns, ghosts>>

SetIndexing == /\ At("claimed")
               /\ SetStatus("Indexing")
               /\ Goto("indexing")
               /\ UNCHANGED <<chats, operations, names, links, chunks, turns,
                              ghosts>>

\* index_text_document: one upsert of all chunks, keyed by document and index
StoreChunks(d) == chunks' = chunks \cup {d}

\* load, chunk, embed, store, unless nothing is left to store: a blank file
\* is no error; the summary made after it is best effort
Index == /\ At("indexing")
         /\ IF job.file \in Blank THEN UNCHANGED chunks ELSE StoreChunks(doc)
         /\ Goto("indexed")
         /\ UNCHANGED <<chats, operations, records, names, links, turns,
                        ghosts>>

\* Mutant: a loader or embedding error is taken for an empty result
BugIndexFails == /\ At("indexing")
                 /\ Goto("indexed")
                 /\ UNCHANGED <<store, turns, ghosts>>

\* the loader, the embedding model or the vector store raises
IndexFails == /\ At("indexing")
              /\ Goto("failed")
              /\ UNCHANGED <<store, turns, ghosts>>

MarkReady == /\ At("indexed")
             /\ SetStatus("Ready")
             /\ Goto("link")
             /\ UNCHANGED <<chats, operations, names, links, chunks, turns,
                            ghosts>>

\* Mutant: the exception of the last update is swallowed
BugMarkReadyRaises == /\ At("indexed")
                      /\ Goto("link")
                      /\ UNCHANGED <<store, turns, ghosts>>

\* the update raises: the record stays Indexing and is associated
MarkReadyRaises == /\ At("indexed")
                   /\ Goto("linkFailed")
                   /\ UNCHANGED <<store, turns, ghosts>>

MarkFailed == /\ At("failed")
              /\ SetStatus("Failed")
              /\ Goto("linkFailed")
              /\ UNCHANGED <<chats, operations, names, links, chunks, turns,
                             ghosts>>

\* associate_document_with_chat: both foreign keys must hold
Associable == job.chat \in chats /\ Exists(doc)

\* the association of a Ready document, and the answer to the client
Link == /\ At("link") /\ Associable
        /\ links' = links \cup {<<job.chat, doc>>}
        /\ answered' = answered \cup {[chat |-> job.chat, file |-> job.file,
                                       keyed |-> job.keyed, doc |-> doc]}
        /\ Done
        /\ UNCHANGED <<chats, operations, records, names, chunks, turns,
                       managed>>

\* the association of a document that did not become Ready, then raise
LinkFailed == /\ At("linkFailed") /\ Associable
              /\ links' = links \cup {<<job.chat, doc>>}
              /\ Done
              /\ UNCHANGED <<chats, operations, records, names, chunks, turns,
                             ghosts>>

\* Mutant: the upload goes on to the association after a failed transaction
BugStoreRaises == /\ step \in {"begin", "claimed", "failed", "link",
                               "linkFailed", "purged"}
                  /\ Goto("link")
                  /\ UNCHANGED <<store, turns, ghosts>>

\* any other transaction raises: IntegrityError, disk full, busy timeout
StoreRaises == /\ step \in {"begin", "claimed", "failed", "link", "linkFailed",
                            "purged"}
               /\ Done
               /\ UNCHANGED <<store, turns, ghosts>>

\* index_document_file without a chat: chunks and no record (of a blank file,
\* nothing)
IndexUnscoped(d) == /\ At("idle") /\ Fresh(d)
                    /\ StoreChunks(d)
                    /\ UNCHANGED <<chats, operations, records, names, links,
                                   loop, turns, ghosts>>

-----------------------------------------------------------------------------
(* The document and chat routes, each one step of the event loop except    *)
(* the deletion of a document, which uses both stores.                     *)

Touch(x) == managed' = managed \cup {x} /\ UNCHANGED answered

Deactivate(d) == /\ At("idle") /\ Exists(d)
                 /\ records' = [records EXCEPT ![d] = "deleted"]
                 /\ Touch(d)
                 /\ UNCHANGED <<chats, operations, names, links, chunks, loop,
                                turns>>

\* restores any record, whatever its status was
Activate(d) == /\ At("idle") /\ Exists(d)
               /\ records' = [records EXCEPT ![d] = "Ready"]
               /\ Touch(d)
               /\ UNCHANGED <<chats, operations, names, links, chunks, loop,
                              turns>>

\* delete_document_chunks
RemoveChunks(d) == chunks' = chunks \ {d}

\* the first step of the route: a failure to remove is only a warning
PurgeChunks(d) == /\ At("idle") /\ Exists(d)
                  /\ RemoveChunks(d) \/ UNCHANGED chunks
                  /\ step' = "purged" /\ doc' = d
                  /\ Touch(d)
                  /\ UNCHANGED <<chats, operations, records, names, links, job,
                                 turns>>

\* hard_delete_document: the links cascade, the operation row stays
HardDelete == /\ At("purged")
              /\ SetStatus("gone")
              /\ links' = {l \in links : l[2] # doc}
              /\ Done
              /\ UNCHANGED <<chats, operations, names, chunks, turns, ghosts>>

DeleteChat(c) == /\ At("idle") /\ c \in chats
                 /\ chats' = chats \ {c}
                 /\ links' = {l \in links : l[1] # c}
                 /\ Touch(c)
                 /\ UNCHANGED <<operations, records, names, chunks, loop,
                                turns>>

StartChat(c) == /\ At("idle") /\ c \notin chats
                /\ chats' = chats \cup {c}
                /\ UNCHANGED <<operations, records, names, links, chunks, loop,
                               turns, ghosts>>

-----------------------------------------------------------------------------
(* A turn: RetrieverDispatcher.scoped_source_plan and the search it plans. *)
(* Its query q is an input of the step that resolves it.                   *)

SetTurn(t, s) == turns' = [turns EXCEPT ![t] = s]
Advance(t, s, a) == SetTurn(t, [stage |-> s, chat |-> turns[t].chat,
                                allowed |-> a])
InStage(t, s) == turns[t] # NoTurn /\ turns[t].stage = s

TurnStart(t, c) ==
  /\ turns[t] = NoTurn
  /\ c \in chats /\ ~Uploading(c) /\ ~InTurn(c)
  /\ SetTurn(t, [stage |-> "lookup", chat |-> c, allowed |-> {}])
  /\ UNCHANGED <<store, loop, ghosts>>

\* without a chat row the plan keeps no document filter
Lookup(t) ==
  /\ InStage(t, "lookup")
  /\ IF turns[t].chat \in chats THEN Advance(t, "scope", {})
                                 ELSE Advance(t, "search", None)
  /\ UNCHANGED <<store, loop, ghosts>>

ChatDocuments(c) == {d \in Docs : <<c, d>> \in links
                                  /\ Exists(d) /\ records[d] # "deleted"}
Ready(D) == {d \in D : records[d] = "Ready"}

\* Mutant: an explicit file name is resolved whatever the document's status
BugRefused(q, D) ==
  IF q \in Files /\ \E d \in D : names[d] = q
  THEN FALSE
  ELSE \/ q = "implicit" /\ \E d \in D : records[d] \in Pending
       \/ q = "implicit" /\ \E d, e \in Ready(D) : d # e
       \/ Ready(D) = {} /\ \E d \in D : records[d] = "Failed"

(* DocumentScopeError: not ready, ambiguous or failed.  A query that names *)
(* a file of D is answered from the documents with that name.              *)
Refused(q, D) ==
  IF q \in Files /\ \E d \in D : names[d] = q
  THEN \E d \in D : names[d] = q /\ records[d] # "Ready"
  ELSE \/ q = "implicit" /\ \E d \in D : records[d] \in Pending
       \/ q = "implicit" /\ \E d, e \in Ready(D) : d # e
       \/ Ready(D) = {} /\ \E d \in D : records[d] = "Failed"

Resolved(q, D) ==
  IF q \in Files /\ \E d \in D : names[d] = q
  THEN {d \in D : names[d] = q}
  ELSE Ready(D)

\* a refused scope leaves the turn without document evidence
Resolve(t, q, D) ==
  IF Refused(q, D) THEN SetTurn(t, NoTurn)
                   ELSE Advance(t, "search", Resolved(q, D))

Scope(t, q) ==
  /\ InStage(t, "scope")
  /\ LET D == ChatDocuments(turns[t].chat) IN
       IF D = {} THEN Advance(t, "fallback", {}) ELSE Resolve(t, q, D)
  /\ UNCHANGED <<store, loop, ghosts>>

\* list_all_documents(status="Ready"): a second transaction
Fallback(t, q) ==
  /\ InStage(t, "fallback")
  /\ Resolve(t, q, Ready(Docs))
  /\ UNCHANGED <<store, loop, ghosts>>

\* what the vector store returns; without a filter, any document's chunks
Found(t) == IF turns[t].allowed = None THEN chunks
            ELSE turns[t].allowed \cap chunks

Search(t) == /\ InStage(t, "search")
             /\ SetTurn(t, NoTurn)
             /\ UNCHANGED <<store, loop, ghosts>>

-----------------------------------------------------------------------------
\* the process dies and starts again; nothing repairs the stores
Crash == /\ Done
         /\ turns' = [t \in Turns |-> NoTurn]
         /\ UNCHANGED <<store, ghosts>>

Upload == \/ \E c \in Chats, f \in Files, k \in BOOLEAN : Arrive(c, f, k)
          \/ Lock \/ BeginMissing \/ BeginReady \/ BeginRetry
          \/ \E d \in Docs : Claim(d) \/ Create(d) \/ IndexUnscoped(d)
          \/ SetIndexing \/ Index \/ IndexFails
          \/ MarkReady \/ MarkReadyRaises \/ MarkFailed
          \/ Link \/ LinkFailed \/ StoreRaises

Manage == \/ \E d \in Docs : Deactivate(d) \/ Activate(d) \/ PurgeChunks(d)
          \/ HardDelete
          \/ \E c \in Chats : DeleteChat(c) \/ StartChat(c)

Turn == \E t \in Turns :
          \/ \E c \in Chats : TurnStart(t, c)
          \/ \E q \in Queries : Scope(t, q) \/ Fallback(t, q)
          \/ Lookup(t) \/ Search(t)

Next == Upload \/ Manage \/ Turn \/ Crash

Spec == Init /\ [][Next]_vars

-----------------------------------------------------------------------------
(* Every variable has its type; outside an upload or a deletion the loop   *)
(* has no document in hand.                                                *)
TypeOK ==
  /\ chats \subseteq Chats
  /\ operations \in [Chats \X Files -> Docs \cup {None}]
  /\ records \in [Docs -> Rows \cup {"none", "gone"}]
  /\ names \in [Docs -> Files \cup {None}]
  /\ links \subseteq Chats \X Docs
  /\ chunks \subseteq Docs
  /\ \/ step = "idle" /\ job = None /\ doc = None
     \/ step \in {"lock", "begin"} /\ job \in Jobs /\ doc = None
     \/ /\ step \in {"claimed", "indexing", "indexed", "failed", "link",
                     "linkFailed"}
        /\ job \in Jobs /\ doc \in Docs
     \/ step = "purged" /\ job = None /\ doc \in Docs
  /\ turns \in [Turns -> TurnStates \cup {NoTurn}]
  /\ answered \subseteq Uploads
  /\ managed \subseteq Chats \cup Docs

(* A Ready document can be found, unless its file is blank: its chunks     *)
(* were stored before the status said so, whatever failed, was retried or  *)
(* crashed since, and no route has touched it (index_document_file,        *)
(* update order).                                                          *)
ReadyIsIndexed ==
  \A d \in Docs \ managed :
    records[d] = "Ready" /\ names[d] \notin Blank => d \in chunks

(* What a client was told "Indexed" stays usable: the document remains     *)
(* Ready under the name of the client's file, indexed if that file had     *)
(* anything to index, and associated with its chat through later retries,  *)
(* failures and crashes, until a route removes the document or the chat.   *)
AnsweredStaysUsable ==
  \A a \in answered :
    /\ a.doc \notin managed =>
         /\ records[a.doc] = "Ready" /\ names[a.doc] = a.file
         /\ a.file \notin Blank => a.doc \in chunks
    /\ a.doc \notin managed /\ a.chat \notin managed =>
         <<a.chat, a.doc>> \in links

(* All answers to one operation id name the same document, also across     *)
(* crashes, deletions of the chat and re-created chats                     *)
(* (claim_document_upload, get_operation_result).                          *)
RetriesAgree ==
  \A a, b \in answered :
    (a.keyed /\ b.keyed /\ a.chat = b.chat /\ a.file = b.file) => a.doc = b.doc

(* A claimed key always has a document record, unless a route removed it:  *)
(* a crash cannot leave a key whose retries all fail.                      *)
ClaimsAreRecorded ==
  \A c \in Chats, f \in Files :
    operations[<<c, f>>] # None =>
      records[operations[<<c, f>>]] \in Rows \/ operations[<<c, f>>] \in managed

(* Documents a turn was scoped to are searchable when it searches: no turn *)
(* sees a document between its record and its chunks, and only what comes  *)
(* from a blank file finds nothing.                                        *)
ResolvedIsSearchable ==
  \A t \in Turns : InStage(t, "search") /\ turns[t].allowed # None =>
    \A d \in turns[t].allowed \ managed : names[d] \notin Blank => d \in Found(t)

(* Only a route takes a document out of Ready: no retry, failed retry or   *)
(* crash makes an indexed document unusable again.                         *)
ReadyStaysReady ==
  [][\A d \in Docs : records[d] = "Ready" /\ records'[d] # "Ready"
                       => d \in managed']_vars

(* The registry keeps the contract stated in DocumentContract: claimed     *)
(* keys, statuses, searchable documents, associations and answers change   *)
(* as promised there, each in one step, although the code needs several    *)
(* transactions and two stores (index_document_file and its routes).       *)
ShownAs(status) == CASE status \in Pending \cup {"Failed"} -> "pending"
                     [] status = "Ready" -> "ready"
                     [] status = "deleted" -> "withdrawn"
                     [] status = "gone" -> "removed"
                     [] OTHER -> "unknown"

Contract == INSTANCE DocumentContract
  WITH claims <- operations, shown <- [d \in Docs |-> ShownAs(records[d])],
       file <- names, searchable <- {d \in chunks : records[d] = "Ready"},
       linked <- links, told <- answered
KeepsDocumentContract == Contract!DSpec

-----------------------------------------------------------------------------
(* "The resulting DocumentResolution feeds document IDs to the Chroma      *)
(* retriever as a metadata filter, enforcing chat-scoped retrieval."       *)
(* (documents/.doc.md): no turn searches without a document filter.        *)
SearchIsScoped ==
  \A t \in Turns : InStage(t, "search") => turns[t].allowed # None

(* "Transition persisted document lifecycle state truthfully."             *)
(* (Database.update_document_status): a document that is Ready is indexed, *)
(* if there was anything in it.                                            *)
ReadyIsTruthful ==
  \A d \in Docs : records[d] = "Ready" /\ names[d] \notin Blank => d \in chunks

=============================================================================
