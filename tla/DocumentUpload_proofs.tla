----------------------- MODULE DocumentUpload_proofs -----------------------
(***************************************************************************)
(* The invariants of the document model hold for any number of chats,      *)
(* files, documents and turns.  ReadyIsIndexed and the others are not      *)
(* inductive alone: they rest on what the upload in progress knows about   *)
(* its document at each step (WorkInv), and on the key that an answered    *)
(* upload leaves behind (KeyInv).                                          *)
(***************************************************************************)
EXTENDS DocumentUpload, FiniteSetTheorems, TLAPS

(* What each step of the loop may rely on: a document on its way to        *)
(* indexing is not Ready, and a new one if its upload has no id; one about *)
(* to be marked Ready has its chunks or comes from a blank file, one about *)
(* to be associated is Ready, and one about to be removed is there and     *)
(* managed by a route.                                                     *)
WorkInv ==
  /\ step = "claimed" => records[doc] \in Rows \ {"Ready"}
  /\ step = "claimed" /\ ~job.keyed => records[doc] = "Uploading"
  /\ step \in {"indexing", "indexed", "failed"} => records[doc] = "Indexing"
  /\ step = "indexed" => names[doc] \in Blank \/ doc \in chunks
  /\ step = "link" => records[doc] = "Ready"
  /\ step = "purged" => doc \in managed /\ Exists(doc)

Working == {"claimed", "indexing", "indexed", "failed", "link", "linkFailed"}

(* A keyed upload works on the document its operation id names, and an     *)
(* answered one named it; an upload works on a document of its own file,   *)
(* and a document of a blank file has no chunk.                            *)
KeyInv ==
  /\ step \in Working /\ job.keyed => operations[<<job.chat, job.file>>] = doc
  /\ \A a \in answered : a.keyed => operations[<<a.chat, a.file>>] = a.doc
  /\ step \in Working => names[doc] = job.file
  /\ \A c \in Chats, f \in Files :
       operations[<<c, f>>] # None => names[operations[<<c, f>>]] = f
  /\ \A d \in Docs : /\ records[d] = "none" => names[d] = None
                     /\ names[d] \in Blank => d \notin chunks

(* A turn is scoped to documents that have a record, so no later upload    *)
(* gives one of them another file.                                         *)
ScopeInv ==
  \A t \in Turns : InStage(t, "search") /\ turns[t].allowed # None =>
    \A d \in turns[t].allowed : records[d] # "none"

Inv == /\ TypeOK /\ WorkInv /\ KeyInv
       /\ ReadyIsIndexed /\ ScopeInv /\ ResolvedIsSearchable
       /\ AnsweredStaysUsable /\ ClaimsAreRecorded

-----------------------------------------------------------------------------
(* The empty stores satisfy the invariant.                                 *)
LEMMA InitInv == Init => Inv
  BY NoneAssumption, BlankAssumption
     DEF Init, Inv, TypeOK, WorkInv, Working, KeyInv, ScopeInv, ReadyIsIndexed,
         ResolvedIsSearchable, AnsweredStaysUsable, ClaimsAreRecorded, NoTurn,
         InStage

(* The documents a resolution returns are all Ready.                       *)
LEMMA ResolvedAreReady ==
  ASSUME NEW q, NEW D \in SUBSET Docs, ~Refused(q, D)
  PROVE  /\ Resolved(q, D) \in SUBSET Docs
         /\ \A d \in Resolved(q, D) : records[d] = "Ready"
  BY DEF Refused, Resolved, Ready

(* Every step of the upload, the routes and the turns keeps the types.     *)
LEMMA TypeStep ==
  ASSUME TypeOK, [Next]_vars
  PROVE  TypeOK'
<1> USE NoneAssumption
   DEF TypeOK, store, loop, ghosts, vars, At, Goto, Done, SetStatus, Exists,
       Rows, Touch, Known, Associable, Jobs, Uploads
<1>1. ASSUME NEW c \in Chats, NEW f \in Files, NEW k \in BOOLEAN,
             Arrive(c, f, k)
      PROVE  TypeOK'
  BY <1>1 DEF Arrive
<1>2. ASSUME Lock PROVE TypeOK'
  BY <1>2 DEF Lock
<1>3. ASSUME BeginMissing PROVE TypeOK'
  BY <1>3 DEF BeginMissing
<1>4. ASSUME BeginReady PROVE TypeOK'
  BY <1>4 DEF BeginReady
<1>5. ASSUME BeginRetry PROVE TypeOK'
  BY <1>5 DEF BeginRetry
<1>6. ASSUME NEW d \in Docs, Claim(d) PROVE TypeOK'
  BY <1>6 DEF Claim
<1>7. ASSUME NEW d \in Docs, Create(d) PROVE TypeOK'
  BY <1>7 DEF Create
<1>8. ASSUME NEW d \in Docs, IndexUnscoped(d) PROVE TypeOK'
  BY <1>8 DEF IndexUnscoped, StoreChunks
<1>9. ASSUME SetIndexing PROVE TypeOK'
  BY <1>9 DEF SetIndexing
<1>10. ASSUME Index PROVE TypeOK'
  BY <1>10 DEF Index, StoreChunks
<1>11. ASSUME IndexFails PROVE TypeOK'
  BY <1>11 DEF IndexFails
<1>12. ASSUME MarkReady PROVE TypeOK'
  BY <1>12 DEF MarkReady
<1>13. ASSUME MarkReadyRaises PROVE TypeOK'
  BY <1>13 DEF MarkReadyRaises
<1>14. ASSUME MarkFailed PROVE TypeOK'
  BY <1>14 DEF MarkFailed
<1>15. ASSUME Link PROVE TypeOK'
  BY <1>15 DEF Link
<1>16. ASSUME LinkFailed PROVE TypeOK'
  BY <1>16 DEF LinkFailed
<1>17. ASSUME StoreRaises PROVE TypeOK'
  BY <1>17 DEF StoreRaises
<1>18. ASSUME NEW d \in Docs, Deactivate(d) PROVE TypeOK'
  BY <1>18 DEF Deactivate
<1>19. ASSUME NEW d \in Docs, Activate(d) PROVE TypeOK'
  BY <1>19 DEF Activate
<1>20. ASSUME NEW d \in Docs, PurgeChunks(d) PROVE TypeOK'
  BY <1>20 DEF PurgeChunks, RemoveChunks
<1>21. ASSUME HardDelete PROVE TypeOK'
  BY <1>21 DEF HardDelete
<1>22. ASSUME NEW c \in Chats, DeleteChat(c) PROVE TypeOK'
  BY <1>22 DEF DeleteChat
<1>23. ASSUME NEW c \in Chats, StartChat(c) PROVE TypeOK'
  BY <1>23 DEF StartChat
<1>24. ASSUME NEW t \in Turns, NEW c \in Chats, TurnStart(t, c) PROVE TypeOK'
  BY <1>24
     DEF TurnStart, SetTurn, Advance, InStage, NoTurn, TurnStates,
         TurnStages, Resolve
<1>25. ASSUME NEW t \in Turns, NEW q \in Queries, Scope(t, q) PROVE TypeOK'
  <2>. DEFINE D == ChatDocuments(turns[t].chat)
  <2>1. D \in SUBSET Docs
    BY DEF ChatDocuments
  <2>2. /\ InStage(t, "scope") /\ UNCHANGED <<store, loop, ghosts>>
        /\ IF D = {} THEN Advance(t, "fallback", {}) ELSE Resolve(t, q, D)
    BY <1>25 DEF Scope
  <2>. HIDE DEF D
  <2>3. CASE D = {}
    BY <2>2, <2>3
       DEF SetTurn, Advance, InStage, NoTurn, TurnStates, TurnStages, Resolve
  <2>4. CASE D # {} /\ Refused(q, D)
    BY <2>2, <2>4
       DEF SetTurn, Advance, InStage, NoTurn, TurnStates, TurnStages, Resolve
  <2>5. CASE D # {} /\ ~Refused(q, D)
    BY <2>1, <2>2, <2>5, ResolvedAreReady
       DEF SetTurn, Advance, InStage, NoTurn, TurnStates, TurnStages, Resolve
  <2>. QED
    BY <2>3, <2>4, <2>5
<1>26. ASSUME NEW t \in Turns, NEW q \in Queries, Fallback(t, q) PROVE TypeOK'
  BY <1>26, ResolvedAreReady
     DEF Fallback, SetTurn, Advance, InStage, NoTurn, TurnStates, TurnStages,
         Resolve, ChatDocuments, Ready
<1>27. ASSUME NEW t \in Turns, Lookup(t) PROVE TypeOK'
  BY <1>27
     DEF Lookup, SetTurn, Advance, InStage, NoTurn, TurnStates, TurnStages,
         Resolve
<1>28. ASSUME NEW t \in Turns, Search(t) PROVE TypeOK'
  BY <1>28
     DEF Search, SetTurn, Advance, InStage, NoTurn, TurnStates, TurnStages,
         Resolve
<1>29. ASSUME Crash PROVE TypeOK'
  BY <1>29
     DEF Crash, SetTurn, Advance, InStage, NoTurn, TurnStates, TurnStages,
         Resolve
<1>30. ASSUME UNCHANGED vars PROVE TypeOK'
  BY <1>30
<1> QED
  BY ONLY [Next]_vars, <1>1, <1>2, <1>3, <1>4, <1>5, <1>6, <1>7, <1>8, <1>9,
     <1>10, <1>11, <1>12, <1>13, <1>14, <1>15, <1>16, <1>17, <1>18, <1>19,
     <1>20, <1>21, <1>22, <1>23, <1>24, <1>25, <1>26, <1>27, <1>28, <1>29,
     <1>30
     DEF Next, Upload, Manage, Turn

(* Every step leaves the next one what it relies on: the loop runs one     *)
(* handler at a time, so no route touches the document between two steps.   *)
LEMMA WorkStep ==
  ASSUME TypeOK, WorkInv, KeyInv, [Next]_vars
  PROVE  WorkInv'
<1> USE NoneAssumption
   DEF TypeOK, WorkInv, store, loop, ghosts, vars, At, Goto, Done, SetStatus,
       Exists, Rows, Touch, Known, Associable, Jobs
<1>1. ASSUME NEW c \in Chats, NEW f \in Files, NEW k \in BOOLEAN,
             Arrive(c, f, k)
      PROVE  WorkInv'
  BY <1>1 DEF Arrive
<1>2. ASSUME Lock PROVE WorkInv'
  BY <1>2 DEF Lock
<1>3. ASSUME BeginMissing PROVE WorkInv'
  BY <1>3 DEF BeginMissing
<1>4. ASSUME BeginReady PROVE WorkInv'
  BY <1>4 DEF BeginReady
<1>5. ASSUME BeginRetry PROVE WorkInv'
  BY <1>5 DEF BeginRetry
<1>6. ASSUME NEW d \in Docs, Claim(d) PROVE WorkInv'
  BY <1>6 DEF Claim
<1>7. ASSUME NEW d \in Docs, Create(d) PROVE WorkInv'
  BY <1>7 DEF Create
<1>8. ASSUME NEW d \in Docs, IndexUnscoped(d) PROVE WorkInv'
  BY <1>8 DEF IndexUnscoped, StoreChunks
<1>9. ASSUME SetIndexing PROVE WorkInv'
  BY <1>9 DEF SetIndexing
<1>10. ASSUME Index PROVE WorkInv'
  BY <1>10 DEF Index, StoreChunks, KeyInv, Working
<1>11. ASSUME IndexFails PROVE WorkInv'
  BY <1>11 DEF IndexFails
<1>12. ASSUME MarkReady PROVE WorkInv'
  BY <1>12 DEF MarkReady
<1>13. ASSUME MarkReadyRaises PROVE WorkInv'
  BY <1>13 DEF MarkReadyRaises
<1>14. ASSUME MarkFailed PROVE WorkInv'
  BY <1>14 DEF MarkFailed
<1>15. ASSUME Link PROVE WorkInv'
  BY <1>15 DEF Link
<1>16. ASSUME LinkFailed PROVE WorkInv'
  BY <1>16 DEF LinkFailed
<1>17. ASSUME StoreRaises PROVE WorkInv'
  BY <1>17 DEF StoreRaises
<1>18. ASSUME NEW d \in Docs, Deactivate(d) PROVE WorkInv'
  BY <1>18 DEF Deactivate
<1>19. ASSUME NEW d \in Docs, Activate(d) PROVE WorkInv'
  BY <1>19 DEF Activate
<1>20. ASSUME NEW d \in Docs, PurgeChunks(d) PROVE WorkInv'
  BY <1>20 DEF PurgeChunks, RemoveChunks
<1>21. ASSUME HardDelete PROVE WorkInv'
  BY <1>21 DEF HardDelete
<1>22. ASSUME NEW c \in Chats, DeleteChat(c) PROVE WorkInv'
  BY <1>22 DEF DeleteChat
<1>23. ASSUME NEW c \in Chats, StartChat(c) PROVE WorkInv'
  BY <1>23 DEF StartChat
<1>24. ASSUME NEW t \in Turns, NEW c \in Chats, TurnStart(t, c) PROVE WorkInv'
  BY <1>24 DEF TurnStart
<1>25. ASSUME NEW t \in Turns, NEW q \in Queries, Scope(t, q) PROVE WorkInv'
  BY <1>25 DEF Scope
<1>26. ASSUME NEW t \in Turns, NEW q \in Queries, Fallback(t, q) PROVE WorkInv'
  BY <1>26 DEF Fallback
<1>27. ASSUME NEW t \in Turns, Lookup(t) PROVE WorkInv'
  BY <1>27 DEF Lookup
<1>28. ASSUME NEW t \in Turns, Search(t) PROVE WorkInv'
  BY <1>28 DEF Search
<1>29. ASSUME Crash PROVE WorkInv'
  BY <1>29 DEF Crash
<1>30. ASSUME UNCHANGED vars PROVE WorkInv'
  BY <1>30
<1> QED
  BY ONLY [Next]_vars, <1>1, <1>2, <1>3, <1>4, <1>5, <1>6, <1>7, <1>8, <1>9,
     <1>10, <1>11, <1>12, <1>13, <1>14, <1>15, <1>16, <1>17, <1>18, <1>19,
     <1>20, <1>21, <1>22, <1>23, <1>24, <1>25, <1>26, <1>27, <1>28, <1>29,
     <1>30
     DEF Next, Upload, Manage, Turn

(* A key is claimed once and never changed, so the upload that works on a  *)
(* document and the answers given for it agree with the key.               *)
LEMMA KeyStep ==
  ASSUME TypeOK, KeyInv, [Next]_vars
  PROVE  KeyInv'
<1> USE NoneAssumption, BlankAssumption
   DEF TypeOK, KeyInv, Working, store, loop, ghosts, vars, At, Goto, Done,
       SetStatus, Exists, Rows, Touch, Known, Associable, Jobs, Uploads
<1>1. ASSUME NEW c \in Chats, NEW f \in Files, NEW k \in BOOLEAN,
             Arrive(c, f, k)
      PROVE  KeyInv'
  BY <1>1 DEF Arrive
<1>2. ASSUME Lock PROVE KeyInv'
  BY <1>2 DEF Lock
<1>3. ASSUME BeginMissing PROVE KeyInv'
  BY <1>3 DEF BeginMissing
<1>4. ASSUME BeginReady PROVE KeyInv'
  BY <1>4 DEF BeginReady
<1>5. ASSUME BeginRetry PROVE KeyInv'
  BY <1>5 DEF BeginRetry
<1>6. ASSUME NEW d \in Docs, Claim(d) PROVE KeyInv'
  <2>1. job \in Jobs /\ job.chat \in Chats /\ job.file \in Files
    BY <1>6 DEF Claim
  <2>2. \A c \in Chats, f \in Files :
          operations'[<<c, f>>] = IF c = job.chat /\ f = job.file THEN d ELSE operations[<<c, f>>]
    BY <1>6, <2>1 DEF Claim
  <2>3. /\ \A e \in Docs : names'[e] = IF e = d THEN job.file ELSE names[e]
        /\ \A c \in Chats, f \in Files : operations[<<c, f>>] # d
        /\ operations[<<job.chat, job.file>>] = None /\ d # None /\ d \notin chunks
        /\ \A e \in Docs : records'[e] = IF e = d THEN "Uploading" ELSE records[e]
    BY <1>6, <2>1 DEF Claim, Fresh
  <2>4. /\ answered' = answered /\ job' = job /\ doc' = d /\ step' = "claimed"
        /\ chunks' = chunks
    BY <1>6 DEF Claim
  <2>5. \A a \in answered : a.chat \in Chats /\ a.file \in Files /\ a.doc # None
    OBVIOUS
  <2>6. \A a \in answered : a.keyed => operations'[<<a.chat, a.file>>] = a.doc
    BY <2>2, <2>3, <2>5
  <2>7. \A c \in Chats, f \in Files :
          operations'[<<c, f>>] # None => names'[operations'[<<c, f>>]] = f
    BY <2>2, <2>3
  <2>. QED
    BY <2>1, <2>2, <2>3, <2>4, <2>6, <2>7
<1>7. ASSUME NEW d \in Docs, Create(d) PROVE KeyInv'
  BY <1>7 DEF Create, Fresh
<1>8. ASSUME NEW d \in Docs, IndexUnscoped(d) PROVE KeyInv'
  BY <1>8 DEF IndexUnscoped, StoreChunks, Fresh
<1>9. ASSUME SetIndexing PROVE KeyInv'
  BY <1>9 DEF SetIndexing
<1>10. ASSUME Index PROVE KeyInv'
  BY <1>10 DEF Index, StoreChunks
<1>11. ASSUME IndexFails PROVE KeyInv'
  BY <1>11 DEF IndexFails
<1>12. ASSUME MarkReady PROVE KeyInv'
  BY <1>12 DEF MarkReady
<1>13. ASSUME MarkReadyRaises PROVE KeyInv'
  BY <1>13 DEF MarkReadyRaises
<1>14. ASSUME MarkFailed PROVE KeyInv'
  BY <1>14 DEF MarkFailed
<1>15. ASSUME Link PROVE KeyInv'
  BY <1>15 DEF Link
<1>16. ASSUME LinkFailed PROVE KeyInv'
  BY <1>16 DEF LinkFailed
<1>17. ASSUME StoreRaises PROVE KeyInv'
  BY <1>17 DEF StoreRaises
<1>18. ASSUME NEW d \in Docs, Deactivate(d) PROVE KeyInv'
  BY <1>18 DEF Deactivate
<1>19. ASSUME NEW d \in Docs, Activate(d) PROVE KeyInv'
  BY <1>19 DEF Activate
<1>20. ASSUME NEW d \in Docs, PurgeChunks(d) PROVE KeyInv'
  BY <1>20 DEF PurgeChunks, RemoveChunks
<1>21. ASSUME HardDelete PROVE KeyInv'
  BY <1>21 DEF HardDelete
<1>22. ASSUME NEW c \in Chats, DeleteChat(c) PROVE KeyInv'
  BY <1>22 DEF DeleteChat
<1>23. ASSUME NEW c \in Chats, StartChat(c) PROVE KeyInv'
  BY <1>23 DEF StartChat
<1>24. ASSUME NEW t \in Turns, NEW c \in Chats, TurnStart(t, c) PROVE KeyInv'
  BY <1>24 DEF TurnStart
<1>25. ASSUME NEW t \in Turns, NEW q \in Queries, Scope(t, q) PROVE KeyInv'
  BY <1>25 DEF Scope
<1>26. ASSUME NEW t \in Turns, NEW q \in Queries, Fallback(t, q) PROVE KeyInv'
  BY <1>26 DEF Fallback
<1>27. ASSUME NEW t \in Turns, Lookup(t) PROVE KeyInv'
  BY <1>27 DEF Lookup
<1>28. ASSUME NEW t \in Turns, Search(t) PROVE KeyInv'
  BY <1>28 DEF Search
<1>29. ASSUME Crash PROVE KeyInv'
  BY <1>29 DEF Crash
<1>30. ASSUME UNCHANGED vars PROVE KeyInv'
  BY <1>30
<1> QED
  BY ONLY [Next]_vars, <1>1, <1>2, <1>3, <1>4, <1>5, <1>6, <1>7, <1>8, <1>9,
     <1>10, <1>11, <1>12, <1>13, <1>14, <1>15, <1>16, <1>17, <1>18, <1>19,
     <1>20, <1>21, <1>22, <1>23, <1>24, <1>25, <1>26, <1>27, <1>28, <1>29,
     <1>30
     DEF Next, Upload, Manage, Turn

(* Chunks come before Ready, and only a route removes chunks.              *)
LEMMA ReadyStep ==
  ASSUME TypeOK, WorkInv, ReadyIsIndexed, [Next]_vars
  PROVE  ReadyIsIndexed'
<1> USE NoneAssumption
   DEF TypeOK, WorkInv, ReadyIsIndexed, store, loop, ghosts, vars, At, Goto,
       Done, SetStatus, Exists, Rows, Touch, Known, Associable
<1>1. ASSUME NEW c \in Chats, NEW f \in Files, NEW k \in BOOLEAN,
             Arrive(c, f, k)
      PROVE  ReadyIsIndexed'
  BY <1>1 DEF Arrive
<1>2. ASSUME Lock PROVE ReadyIsIndexed'
  BY <1>2 DEF Lock
<1>3. ASSUME BeginMissing PROVE ReadyIsIndexed'
  BY <1>3 DEF BeginMissing
<1>4. ASSUME BeginReady PROVE ReadyIsIndexed'
  BY <1>4 DEF BeginReady
<1>5. ASSUME BeginRetry PROVE ReadyIsIndexed'
  BY <1>5 DEF BeginRetry
<1>6. ASSUME NEW d \in Docs, Claim(d) PROVE ReadyIsIndexed'
  BY <1>6 DEF Claim
<1>7. ASSUME NEW d \in Docs, Create(d) PROVE ReadyIsIndexed'
  BY <1>7 DEF Create
<1>8. ASSUME NEW d \in Docs, IndexUnscoped(d) PROVE ReadyIsIndexed'
  BY <1>8 DEF IndexUnscoped, StoreChunks
<1>9. ASSUME SetIndexing PROVE ReadyIsIndexed'
  BY <1>9 DEF SetIndexing
<1>10. ASSUME Index PROVE ReadyIsIndexed'
  BY <1>10 DEF Index, StoreChunks
<1>11. ASSUME IndexFails PROVE ReadyIsIndexed'
  BY <1>11 DEF IndexFails
<1>12. ASSUME MarkReady PROVE ReadyIsIndexed'
  BY <1>12 DEF MarkReady
<1>13. ASSUME MarkReadyRaises PROVE ReadyIsIndexed'
  BY <1>13 DEF MarkReadyRaises
<1>14. ASSUME MarkFailed PROVE ReadyIsIndexed'
  BY <1>14 DEF MarkFailed
<1>15. ASSUME Link PROVE ReadyIsIndexed'
  BY <1>15 DEF Link
<1>16. ASSUME LinkFailed PROVE ReadyIsIndexed'
  BY <1>16 DEF LinkFailed
<1>17. ASSUME StoreRaises PROVE ReadyIsIndexed'
  BY <1>17 DEF StoreRaises
<1>18. ASSUME NEW d \in Docs, Deactivate(d) PROVE ReadyIsIndexed'
  BY <1>18 DEF Deactivate
<1>19. ASSUME NEW d \in Docs, Activate(d) PROVE ReadyIsIndexed'
  BY <1>19 DEF Activate
<1>20. ASSUME NEW d \in Docs, PurgeChunks(d) PROVE ReadyIsIndexed'
  BY <1>20 DEF PurgeChunks, RemoveChunks
<1>21. ASSUME HardDelete PROVE ReadyIsIndexed'
  BY <1>21 DEF HardDelete
<1>22. ASSUME NEW c \in Chats, DeleteChat(c) PROVE ReadyIsIndexed'
  BY <1>22 DEF DeleteChat
<1>23. ASSUME NEW c \in Chats, StartChat(c) PROVE ReadyIsIndexed'
  BY <1>23 DEF StartChat
<1>24. ASSUME NEW t \in Turns, NEW c \in Chats, TurnStart(t, c)
       PROVE  ReadyIsIndexed'
  BY <1>24 DEF TurnStart
<1>25. ASSUME NEW t \in Turns, NEW q \in Queries, Scope(t, q)
       PROVE  ReadyIsIndexed'
  BY <1>25 DEF Scope
<1>26. ASSUME NEW t \in Turns, NEW q \in Queries, Fallback(t, q)
       PROVE  ReadyIsIndexed'
  BY <1>26 DEF Fallback
<1>27. ASSUME NEW t \in Turns, Lookup(t) PROVE ReadyIsIndexed'
  BY <1>27 DEF Lookup
<1>28. ASSUME NEW t \in Turns, Search(t) PROVE ReadyIsIndexed'
  BY <1>28 DEF Search
<1>29. ASSUME Crash PROVE ReadyIsIndexed'
  BY <1>29 DEF Crash
<1>30. ASSUME UNCHANGED vars PROVE ReadyIsIndexed'
  BY <1>30
<1> QED
  BY ONLY [Next]_vars, <1>1, <1>2, <1>3, <1>4, <1>5, <1>6, <1>7, <1>8, <1>9,
     <1>10, <1>11, <1>12, <1>13, <1>14, <1>15, <1>16, <1>17, <1>18, <1>19,
     <1>20, <1>21, <1>22, <1>23, <1>24, <1>25, <1>26, <1>27, <1>28, <1>29,
     <1>30
     DEF Next, Upload, Manage, Turn

(* A step takes a document out of Ready only as a route: an upload that    *)
(* changes a status works on a document that is not Ready (WorkInv).       *)
LEMMA KeepsReady ==
  ASSUME TypeOK, WorkInv, [Next]_vars,
         NEW d \in Docs, records[d] = "Ready", records'[d] # "Ready"
  PROVE  d \in managed'
<1> USE NoneAssumption
   DEF TypeOK, WorkInv, store, loop, ghosts, vars, At, Goto, Done, SetStatus,
       Exists, Rows, Touch, Known, Associable
<1>1. ASSUME NEW c \in Chats, NEW f \in Files, NEW k \in BOOLEAN,
             Arrive(c, f, k)
      PROVE  d \in managed'
  BY <1>1 DEF Arrive
<1>2. ASSUME Lock PROVE d \in managed'
  BY <1>2 DEF Lock
<1>3. ASSUME BeginMissing PROVE d \in managed'
  BY <1>3 DEF BeginMissing
<1>4. ASSUME BeginReady PROVE d \in managed'
  BY <1>4 DEF BeginReady
<1>5. ASSUME BeginRetry PROVE d \in managed'
  BY <1>5 DEF BeginRetry
<1>6. ASSUME NEW e \in Docs, Claim(e) PROVE d \in managed'
  BY <1>6 DEF Claim, Fresh
<1>7. ASSUME NEW e \in Docs, Create(e) PROVE d \in managed'
  BY <1>7 DEF Create, Fresh
<1>8. ASSUME NEW e \in Docs, IndexUnscoped(e) PROVE d \in managed'
  BY <1>8 DEF IndexUnscoped, StoreChunks
<1>9. ASSUME SetIndexing PROVE d \in managed'
  BY <1>9 DEF SetIndexing
<1>10. ASSUME Index PROVE d \in managed'
  BY <1>10 DEF Index, StoreChunks
<1>11. ASSUME IndexFails PROVE d \in managed'
  BY <1>11 DEF IndexFails
<1>12. ASSUME MarkReady PROVE d \in managed'
  BY <1>12 DEF MarkReady
<1>13. ASSUME MarkReadyRaises PROVE d \in managed'
  BY <1>13 DEF MarkReadyRaises
<1>14. ASSUME MarkFailed PROVE d \in managed'
  BY <1>14 DEF MarkFailed
<1>15. ASSUME Link PROVE d \in managed'
  BY <1>15 DEF Link
<1>16. ASSUME LinkFailed PROVE d \in managed'
  BY <1>16 DEF LinkFailed
<1>17. ASSUME StoreRaises PROVE d \in managed'
  BY <1>17 DEF StoreRaises
<1>18. ASSUME NEW e \in Docs, Deactivate(e) PROVE d \in managed'
  BY <1>18 DEF Deactivate
<1>19. ASSUME NEW e \in Docs, Activate(e) PROVE d \in managed'
  BY <1>19 DEF Activate
<1>20. ASSUME NEW e \in Docs, PurgeChunks(e) PROVE d \in managed'
  BY <1>20 DEF PurgeChunks, RemoveChunks
<1>21. ASSUME HardDelete PROVE d \in managed'
  BY <1>21 DEF HardDelete
<1>22. ASSUME NEW c \in Chats, DeleteChat(c) PROVE d \in managed'
  BY <1>22 DEF DeleteChat
<1>23. ASSUME NEW c \in Chats, StartChat(c) PROVE d \in managed'
  BY <1>23 DEF StartChat
<1>24. ASSUME NEW t \in Turns, NEW c \in Chats, TurnStart(t, c)
       PROVE  d \in managed'
  BY <1>24 DEF TurnStart
<1>25. ASSUME NEW t \in Turns, NEW q \in Queries, Scope(t, q)
       PROVE  d \in managed'
  BY <1>25 DEF Scope
<1>26. ASSUME NEW t \in Turns, NEW q \in Queries, Fallback(t, q)
       PROVE  d \in managed'
  BY <1>26 DEF Fallback
<1>27. ASSUME NEW t \in Turns, Lookup(t) PROVE d \in managed'
  BY <1>27 DEF Lookup
<1>28. ASSUME NEW t \in Turns, Search(t) PROVE d \in managed'
  BY <1>28 DEF Search
<1>29. ASSUME Crash PROVE d \in managed'
  BY <1>29 DEF Crash
<1>30. ASSUME UNCHANGED vars PROVE d \in managed'
  BY <1>30
<1> QED
  BY ONLY [Next]_vars, <1>1, <1>2, <1>3, <1>4, <1>5, <1>6, <1>7, <1>8, <1>9,
     <1>10, <1>11, <1>12, <1>13, <1>14, <1>15, <1>16, <1>17, <1>18, <1>19,
     <1>20, <1>21, <1>22, <1>23, <1>24, <1>25, <1>26, <1>27, <1>28, <1>29,
     <1>30
     DEF Next, Upload, Manage, Turn

(* Key and record are written together, and only a route removes a record. *)
LEMMA ClaimStep ==
  ASSUME TypeOK, WorkInv, ClaimsAreRecorded, [Next]_vars
  PROVE  ClaimsAreRecorded'
<1> USE NoneAssumption
   DEF TypeOK, WorkInv, ClaimsAreRecorded, store, loop, ghosts, vars, At,
       Goto, Done, SetStatus, Exists, Rows, Touch, Known, Associable, Jobs
<1>1. ASSUME NEW c \in Chats, NEW f \in Files, NEW k \in BOOLEAN,
             Arrive(c, f, k)
      PROVE  ClaimsAreRecorded'
  BY <1>1 DEF Arrive
<1>2. ASSUME Lock PROVE ClaimsAreRecorded'
  BY <1>2 DEF Lock
<1>3. ASSUME BeginMissing PROVE ClaimsAreRecorded'
  BY <1>3 DEF BeginMissing
<1>4. ASSUME BeginReady PROVE ClaimsAreRecorded'
  BY <1>4 DEF BeginReady
<1>5. ASSUME BeginRetry PROVE ClaimsAreRecorded'
  BY <1>5 DEF BeginRetry
<1>6. ASSUME NEW d \in Docs, Claim(d) PROVE ClaimsAreRecorded'
  BY <1>6 DEF Claim
<1>7. ASSUME NEW d \in Docs, Create(d) PROVE ClaimsAreRecorded'
  BY <1>7 DEF Create
<1>8. ASSUME NEW d \in Docs, IndexUnscoped(d) PROVE ClaimsAreRecorded'
  BY <1>8 DEF IndexUnscoped, StoreChunks
<1>9. ASSUME SetIndexing PROVE ClaimsAreRecorded'
  BY <1>9 DEF SetIndexing
<1>10. ASSUME Index PROVE ClaimsAreRecorded'
  BY <1>10 DEF Index, StoreChunks
<1>11. ASSUME IndexFails PROVE ClaimsAreRecorded'
  BY <1>11 DEF IndexFails
<1>12. ASSUME MarkReady PROVE ClaimsAreRecorded'
  BY <1>12 DEF MarkReady
<1>13. ASSUME MarkReadyRaises PROVE ClaimsAreRecorded'
  BY <1>13 DEF MarkReadyRaises
<1>14. ASSUME MarkFailed PROVE ClaimsAreRecorded'
  BY <1>14 DEF MarkFailed
<1>15. ASSUME Link PROVE ClaimsAreRecorded'
  BY <1>15 DEF Link
<1>16. ASSUME LinkFailed PROVE ClaimsAreRecorded'
  BY <1>16 DEF LinkFailed
<1>17. ASSUME StoreRaises PROVE ClaimsAreRecorded'
  BY <1>17 DEF StoreRaises
<1>18. ASSUME NEW d \in Docs, Deactivate(d) PROVE ClaimsAreRecorded'
  BY <1>18 DEF Deactivate
<1>19. ASSUME NEW d \in Docs, Activate(d) PROVE ClaimsAreRecorded'
  BY <1>19 DEF Activate
<1>20. ASSUME NEW d \in Docs, PurgeChunks(d) PROVE ClaimsAreRecorded'
  BY <1>20 DEF PurgeChunks, RemoveChunks
<1>21. ASSUME HardDelete PROVE ClaimsAreRecorded'
  BY <1>21 DEF HardDelete
<1>22. ASSUME NEW c \in Chats, DeleteChat(c) PROVE ClaimsAreRecorded'
  BY <1>22 DEF DeleteChat
<1>23. ASSUME NEW c \in Chats, StartChat(c) PROVE ClaimsAreRecorded'
  BY <1>23 DEF StartChat
<1>24. ASSUME NEW t \in Turns, NEW c \in Chats, TurnStart(t, c)
       PROVE  ClaimsAreRecorded'
  BY <1>24 DEF TurnStart
<1>25. ASSUME NEW t \in Turns, NEW q \in Queries, Scope(t, q)
       PROVE  ClaimsAreRecorded'
  BY <1>25 DEF Scope
<1>26. ASSUME NEW t \in Turns, NEW q \in Queries, Fallback(t, q)
       PROVE  ClaimsAreRecorded'
  BY <1>26 DEF Fallback
<1>27. ASSUME NEW t \in Turns, Lookup(t) PROVE ClaimsAreRecorded'
  BY <1>27 DEF Lookup
<1>28. ASSUME NEW t \in Turns, Search(t) PROVE ClaimsAreRecorded'
  BY <1>28 DEF Search
<1>29. ASSUME Crash PROVE ClaimsAreRecorded'
  BY <1>29 DEF Crash
<1>30. ASSUME UNCHANGED vars PROVE ClaimsAreRecorded'
  BY <1>30
<1> QED
  BY ONLY [Next]_vars, <1>1, <1>2, <1>3, <1>4, <1>5, <1>6, <1>7, <1>8, <1>9,
     <1>10, <1>11, <1>12, <1>13, <1>14, <1>15, <1>16, <1>17, <1>18, <1>19,
     <1>20, <1>21, <1>22, <1>23, <1>24, <1>25, <1>26, <1>27, <1>28, <1>29,
     <1>30
     DEF Next, Upload, Manage, Turn

(* A scope is computed from Ready documents, whose chunks stay; a document  *)
(* with a record keeps its file.                                           *)
LEMMA SearchStep ==
  ASSUME TypeOK, ReadyIsIndexed, ResolvedIsSearchable, ScopeInv, [Next]_vars
  PROVE  (ResolvedIsSearchable /\ ScopeInv)'
<1> USE NoneAssumption
   DEF TypeOK, ReadyIsIndexed, ResolvedIsSearchable, ScopeInv, Found, store, loop,
       ghosts, vars, At, Goto, Done, SetStatus, Exists, Rows, Touch, Known,
       Associable, SetTurn, Advance, InStage, NoTurn, TurnStates, TurnStages,
       Resolve
<1>1. ASSUME NEW c \in Chats, NEW f \in Files, NEW k \in BOOLEAN,
             Arrive(c, f, k)
      PROVE  (ResolvedIsSearchable /\ ScopeInv)'
  BY <1>1 DEF Arrive
<1>2. ASSUME Lock PROVE (ResolvedIsSearchable /\ ScopeInv)'
  BY <1>2 DEF Lock
<1>3. ASSUME BeginMissing PROVE (ResolvedIsSearchable /\ ScopeInv)'
  BY <1>3 DEF BeginMissing
<1>4. ASSUME BeginReady PROVE (ResolvedIsSearchable /\ ScopeInv)'
  BY <1>4 DEF BeginReady
<1>5. ASSUME BeginRetry PROVE (ResolvedIsSearchable /\ ScopeInv)'
  BY <1>5 DEF BeginRetry
<1>6. ASSUME NEW d \in Docs, Claim(d) PROVE (ResolvedIsSearchable /\ ScopeInv)'
  BY <1>6 DEF Claim, Fresh
<1>7. ASSUME NEW d \in Docs, Create(d) PROVE (ResolvedIsSearchable /\ ScopeInv)'
  BY <1>7 DEF Create, Fresh
<1>8. ASSUME NEW d \in Docs, IndexUnscoped(d) PROVE (ResolvedIsSearchable /\ ScopeInv)'
  BY <1>8 DEF IndexUnscoped, StoreChunks
<1>9. ASSUME SetIndexing PROVE (ResolvedIsSearchable /\ ScopeInv)'
  BY <1>9 DEF SetIndexing
<1>10. ASSUME Index PROVE (ResolvedIsSearchable /\ ScopeInv)'
  BY <1>10 DEF Index, StoreChunks
<1>11. ASSUME IndexFails PROVE (ResolvedIsSearchable /\ ScopeInv)'
  BY <1>11 DEF IndexFails
<1>12. ASSUME MarkReady PROVE (ResolvedIsSearchable /\ ScopeInv)'
  BY <1>12 DEF MarkReady
<1>13. ASSUME MarkReadyRaises PROVE (ResolvedIsSearchable /\ ScopeInv)'
  BY <1>13 DEF MarkReadyRaises
<1>14. ASSUME MarkFailed PROVE (ResolvedIsSearchable /\ ScopeInv)'
  BY <1>14 DEF MarkFailed
<1>15. ASSUME Link PROVE (ResolvedIsSearchable /\ ScopeInv)'
  BY <1>15 DEF Link
<1>16. ASSUME LinkFailed PROVE (ResolvedIsSearchable /\ ScopeInv)'
  BY <1>16 DEF LinkFailed
<1>17. ASSUME StoreRaises PROVE (ResolvedIsSearchable /\ ScopeInv)'
  BY <1>17 DEF StoreRaises
<1>18. ASSUME NEW d \in Docs, Deactivate(d) PROVE (ResolvedIsSearchable /\ ScopeInv)'
  BY <1>18 DEF Deactivate
<1>19. ASSUME NEW d \in Docs, Activate(d) PROVE (ResolvedIsSearchable /\ ScopeInv)'
  BY <1>19 DEF Activate
<1>20. ASSUME NEW d \in Docs, PurgeChunks(d) PROVE (ResolvedIsSearchable /\ ScopeInv)'
  BY <1>20 DEF PurgeChunks, RemoveChunks
<1>21. ASSUME HardDelete PROVE (ResolvedIsSearchable /\ ScopeInv)'
  BY <1>21 DEF HardDelete
<1>22. ASSUME NEW c \in Chats, DeleteChat(c) PROVE (ResolvedIsSearchable /\ ScopeInv)'
  BY <1>22 DEF DeleteChat
<1>23. ASSUME NEW c \in Chats, StartChat(c) PROVE (ResolvedIsSearchable /\ ScopeInv)'
  BY <1>23 DEF StartChat
<1>24. ASSUME NEW t \in Turns, NEW c \in Chats, TurnStart(t, c)
       PROVE  (ResolvedIsSearchable /\ ScopeInv)'
  BY <1>24 DEF TurnStart
<1>25. ASSUME NEW t \in Turns, NEW q \in Queries, Scope(t, q)
       PROVE  (ResolvedIsSearchable /\ ScopeInv)'
  <2>. DEFINE D == ChatDocuments(turns[t].chat)
  <2>1. D \in SUBSET Docs
    BY DEF ChatDocuments
  <2>2. /\ InStage(t, "scope") /\ UNCHANGED <<store, loop, ghosts>>
        /\ IF D = {} THEN Advance(t, "fallback", {}) ELSE Resolve(t, q, D)
    BY <1>25 DEF Scope
  <2>. HIDE DEF D
  <2>3. CASE D = {}
    BY <2>2, <2>3
       DEF SetTurn, Advance, InStage, NoTurn, TurnStates, TurnStages, Resolve
  <2>4. CASE D # {} /\ Refused(q, D)
    BY <2>2, <2>4
       DEF SetTurn, Advance, InStage, NoTurn, TurnStates, TurnStages, Resolve
  <2>5. CASE D # {} /\ ~Refused(q, D)
    BY <2>1, <2>2, <2>5, ResolvedAreReady
       DEF SetTurn, Advance, InStage, NoTurn, TurnStates, TurnStages, Resolve
  <2>. QED
    BY <2>3, <2>4, <2>5
<1>26. ASSUME NEW t \in Turns, NEW q \in Queries, Fallback(t, q)
       PROVE  (ResolvedIsSearchable /\ ScopeInv)'
  BY <1>26, ResolvedAreReady DEF Fallback, ChatDocuments, Ready
<1>27. ASSUME NEW t \in Turns, Lookup(t) PROVE (ResolvedIsSearchable /\ ScopeInv)'
  BY <1>27 DEF Lookup
<1>28. ASSUME NEW t \in Turns, Search(t) PROVE (ResolvedIsSearchable /\ ScopeInv)'
  BY <1>28 DEF Search
<1>29. ASSUME Crash PROVE (ResolvedIsSearchable /\ ScopeInv)'
  BY <1>29 DEF Crash
<1>30. ASSUME UNCHANGED vars PROVE (ResolvedIsSearchable /\ ScopeInv)'
  BY <1>30
<1> QED
  BY ONLY [Next]_vars, <1>1, <1>2, <1>3, <1>4, <1>5, <1>6, <1>7, <1>8, <1>9,
     <1>10, <1>11, <1>12, <1>13, <1>14, <1>15, <1>16, <1>17, <1>18, <1>19,
     <1>20, <1>21, <1>22, <1>23, <1>24, <1>25, <1>26, <1>27, <1>28, <1>29,
     <1>30
     DEF Next, Upload, Manage, Turn

(* An answer is given when the document is Ready and just associated;      *)
(* afterwards only routes change the document or drop the link.            *)
LEMMA AnswerStep ==
  ASSUME TypeOK, WorkInv, KeyInv, ReadyIsIndexed, ReadyIsIndexed', AnsweredStaysUsable,
         [Next]_vars
  PROVE  AnsweredStaysUsable'
<1> USE NoneAssumption, ChatsAreNotDocs
       DEF TypeOK, WorkInv, ReadyIsIndexed, AnsweredStaysUsable, store, loop,
           ghosts, vars, At, Goto, Done, SetStatus, Exists, Rows, Touch,
           Known, Associable, Jobs, Uploads
<1>1. ASSUME NEW c \in Chats, NEW f \in Files, NEW k \in BOOLEAN,
             Arrive(c, f, k)
      PROVE  AnsweredStaysUsable'
  BY <1>1 DEF Arrive
<1>2. ASSUME Lock PROVE AnsweredStaysUsable'
  BY <1>2 DEF Lock
<1>3. ASSUME BeginMissing PROVE AnsweredStaysUsable'
  BY <1>3 DEF BeginMissing
<1>4. ASSUME BeginReady PROVE AnsweredStaysUsable'
  BY <1>4 DEF BeginReady
<1>5. ASSUME BeginRetry PROVE AnsweredStaysUsable'
  BY <1>5 DEF BeginRetry
<1>6. ASSUME NEW d \in Docs, Claim(d) PROVE AnsweredStaysUsable'
  BY <1>6 DEF Claim, Fresh
<1>7. ASSUME NEW d \in Docs, Create(d) PROVE AnsweredStaysUsable'
  BY <1>7 DEF Create, Fresh
<1>8. ASSUME NEW d \in Docs, IndexUnscoped(d) PROVE AnsweredStaysUsable'
  BY <1>8 DEF IndexUnscoped, StoreChunks
<1>9. ASSUME SetIndexing PROVE AnsweredStaysUsable'
  BY <1>9 DEF SetIndexing
<1>10. ASSUME Index PROVE AnsweredStaysUsable'
  BY <1>10 DEF Index, StoreChunks
<1>11. ASSUME IndexFails PROVE AnsweredStaysUsable'
  BY <1>11 DEF IndexFails
<1>12. ASSUME MarkReady PROVE AnsweredStaysUsable'
  BY <1>12 DEF MarkReady
<1>13. ASSUME MarkReadyRaises PROVE AnsweredStaysUsable'
  BY <1>13 DEF MarkReadyRaises
<1>14. ASSUME MarkFailed PROVE AnsweredStaysUsable'
  BY <1>14 DEF MarkFailed
<1>15. ASSUME Link PROVE AnsweredStaysUsable'
  <2>. DEFINE new == [chat |-> job.chat, file |-> job.file, keyed |-> job.keyed,
                      doc |-> doc]
  <2>1. /\ step = "link" /\ records[doc] = "Ready" /\ doc \in Docs
        /\ <<job.chat, doc>> \in links' /\ links \subseteq links'
        /\ names[doc] = job.file /\ UNCHANGED <<records, names, chunks, managed>>
    BY <1>15 DEF Link, KeyInv, Working
  <2>2. answered' = answered \cup {new}
    BY <1>15 DEF Link
  <2>3. /\ new.doc = doc /\ new.chat = job.chat /\ new.file = job.file
    OBVIOUS
  <2>4. doc \notin managed /\ job.file \notin Blank => doc \in chunks
    BY <2>1
  <2>. HIDE DEF new
  <2>. QED
    BY <2>1, <2>2, <2>3, <2>4
<1>16. ASSUME LinkFailed PROVE AnsweredStaysUsable'
  BY <1>16 DEF LinkFailed
<1>17. ASSUME StoreRaises PROVE AnsweredStaysUsable'
  BY <1>17 DEF StoreRaises
<1>18. ASSUME NEW d \in Docs, Deactivate(d) PROVE AnsweredStaysUsable'
  BY <1>18 DEF Deactivate
<1>19. ASSUME NEW d \in Docs, Activate(d) PROVE AnsweredStaysUsable'
  BY <1>19 DEF Activate
<1>20. ASSUME NEW d \in Docs, PurgeChunks(d) PROVE AnsweredStaysUsable'
  BY <1>20 DEF PurgeChunks, RemoveChunks
<1>21. ASSUME HardDelete PROVE AnsweredStaysUsable'
  BY <1>21 DEF HardDelete
<1>22. ASSUME NEW c \in Chats, DeleteChat(c) PROVE AnsweredStaysUsable'
  BY <1>22 DEF DeleteChat
<1>23. ASSUME NEW c \in Chats, StartChat(c) PROVE AnsweredStaysUsable'
  BY <1>23 DEF StartChat
<1>24. ASSUME NEW t \in Turns, NEW c \in Chats, TurnStart(t, c)
       PROVE  AnsweredStaysUsable'
  BY <1>24 DEF TurnStart
<1>25. ASSUME NEW t \in Turns, NEW q \in Queries, Scope(t, q)
       PROVE  AnsweredStaysUsable'
  BY <1>25 DEF Scope
<1>26. ASSUME NEW t \in Turns, NEW q \in Queries, Fallback(t, q)
       PROVE  AnsweredStaysUsable'
  BY <1>26 DEF Fallback
<1>27. ASSUME NEW t \in Turns, Lookup(t) PROVE AnsweredStaysUsable'
  BY <1>27 DEF Lookup
<1>28. ASSUME NEW t \in Turns, Search(t) PROVE AnsweredStaysUsable'
  BY <1>28 DEF Search
<1>29. ASSUME Crash PROVE AnsweredStaysUsable'
  BY <1>29 DEF Crash
<1>30. ASSUME UNCHANGED vars PROVE AnsweredStaysUsable'
  BY <1>30
<1> QED
  BY ONLY [Next]_vars, <1>1, <1>2, <1>3, <1>4, <1>5, <1>6, <1>7, <1>8, <1>9,
     <1>10, <1>11, <1>12, <1>13, <1>14, <1>15, <1>16, <1>17, <1>18, <1>19,
     <1>20, <1>21, <1>22, <1>23, <1>24, <1>25, <1>26, <1>27, <1>28, <1>29,
     <1>30
     DEF Next, Upload, Manage, Turn

-----------------------------------------------------------------------------
(* The inductive invariant holds in every reachable state.                 *)
THEOREM Invariance == Spec => []Inv
<1>1. Inv /\ [Next]_vars => Inv'
  BY TypeStep, WorkStep, KeyStep, ReadyStep, ClaimStep, SearchStep, AnswerStep
     DEF Inv
<1> QED
  BY InitInv, <1>1, PTL DEF Spec

(* For any number of chats, files, documents and turns, every variable of  *)
(* the document model keeps its type.                                      *)
THEOREM DocumentTypes == Spec => []TypeOK
  BY Invariance, PTL DEF Inv

(* A document an upload made Ready has its chunks in the vector store,     *)
(* unless its file is blank, whatever failed, was retried or crashed.      *)
THEOREM ReadyDocumentsAreIndexed == Spec => []ReadyIsIndexed
  BY Invariance, PTL DEF Inv

(* What a client was told "Indexed" stays Ready, the document of the       *)
(* client's file, indexed unless that is blank, and associated, until a    *)
(* route removes the document or the chat.                                 *)
THEOREM AnswersStayUsable == Spec => []AnsweredStaysUsable
  BY Invariance, PTL DEF Inv

(* All answers to one operation id name the same document.                 *)
THEOREM RetriesNameOneDocument == Spec => []RetriesAgree
<1>1. Inv => RetriesAgree
  BY DEF Inv, KeyInv, RetriesAgree
<1> QED
  BY Invariance, <1>1, PTL

(* No crash leaves a claimed key without its document record.              *)
THEOREM ClaimedKeysHaveRecords == Spec => []ClaimsAreRecorded
  BY Invariance, PTL DEF Inv

(* No turn is scoped to a document whose chunks are not stored yet; only   *)
(* that of a blank file has none.                                          *)
THEOREM ResolvedDocumentsAreSearchable == Spec => []ResolvedIsSearchable
  BY Invariance, PTL DEF Inv

(* The chat of a turn was there when the turn started, so its row can only *)
(* be missing because a route deleted it.                                  *)
TurnsHaveChats == \A t \in Turns : turns[t] # NoTurn => turns[t].chat \in chats \cup managed

(* A turn searches without a document filter only if its chat was deleted  *)
(* under it.                                                               *)
UnscopedIsDeleted ==
  \A t \in Turns : InStage(t, "search") /\ turns[t].allowed = None => turns[t].chat \in managed

\* a turn that goes on in the same chat
LEMMA TurnGoesOn ==
  ASSUME TypeOK, TurnsHaveChats, UnscopedIsDeleted, UNCHANGED <<chats, managed>>,
         NEW t \in Turns, NEW s \in TurnStates \cup {NoTurn}, SetTurn(t, s),
         s # NoTurn => s.chat \in chats \cup managed,
         s # NoTurn /\ s.stage = "search" /\ s.allowed = None => s.chat \in managed
  PROVE  TurnsHaveChats' /\ UnscopedIsDeleted'
<1>1. \A u \in Turns : turns'[u] = IF u = t THEN s ELSE turns[u]
  BY DEF TypeOK, SetTurn
<1>. QED  BY <1>1 DEF TurnsHaveChats, UnscopedIsDeleted, InStage

LEMMA TurnChatStep ==
  ASSUME TypeOK, TurnsHaveChats, UnscopedIsDeleted, [Next]_vars
  PROVE  TurnsHaveChats' /\ UnscopedIsDeleted'
<1>0. \A t \in Turns : turns[t] # NoTurn =>
        turns[t].chat \in Chats /\ turns[t].chat \in chats \cup managed
  BY DEF TypeOK, TurnStates, TurnsHaveChats
<1>1. CASE UNCHANGED turns /\ chats \subseteq chats' /\ managed \subseteq managed'
  BY <1>1 DEF TurnsHaveChats, UnscopedIsDeleted, InStage
<1>2. CASE Upload
  <2>1. UNCHANGED <<turns, chats, managed>>
    BY <1>2 DEF Upload, Arrive, Lock, BeginMissing, BeginReady, BeginRetry, Claim, Create,
                IndexUnscoped, SetIndexing, Index, IndexFails, MarkReady, MarkReadyRaises,
                MarkFailed, Link, LinkFailed, StoreRaises, store, ghosts
  <2>. QED  BY <1>1, <2>1
<1>3. CASE Manage
  <2>1. ASSUME NEW c \in Chats, DeleteChat(c)  PROVE TurnsHaveChats' /\ UnscopedIsDeleted'
    BY <2>1 DEF DeleteChat, Touch, TurnsHaveChats, UnscopedIsDeleted, InStage
  <2>2. ASSUME NEW c \in Chats, StartChat(c)  PROVE TurnsHaveChats' /\ UnscopedIsDeleted'
    BY <2>2, <1>1 DEF StartChat, ghosts
  <2>3. ASSUME NEW d \in Docs, Deactivate(d) \/ Activate(d) \/ PurgeChunks(d) \/ HardDelete
        PROVE  TurnsHaveChats' /\ UnscopedIsDeleted'
    BY <2>3, <1>1 DEF Deactivate, Activate, PurgeChunks, HardDelete, Touch, ghosts
  <2>4. CASE HardDelete
    BY <2>4, <1>1 DEF HardDelete, ghosts
  <2>. QED  BY <1>3, <2>1, <2>2, <2>3, <2>4 DEF Manage
<1>4. ASSUME NEW t \in Turns, NEW c \in Chats, TurnStart(t, c)
      PROVE  TurnsHaveChats' /\ UnscopedIsDeleted'
  <2>1. [stage |-> "lookup", chat |-> c, allowed |-> {}] \in TurnStates
    BY DEF TurnStates, TurnStages
  <2>. QED  BY <1>4, <2>1, TurnGoesOn DEF TurnStart, store, ghosts
<1>5. ASSUME NEW t \in Turns, turns[t] # NoTurn, UNCHANGED <<chats, managed>>,
             NEW s \in TurnStages, NEW a \in (SUBSET Docs) \cup {None}, Advance(t, s, a),
             s = "search" /\ a = None => turns[t].chat \in managed
      PROVE  TurnsHaveChats' /\ UnscopedIsDeleted'
  <2>1. [stage |-> s, chat |-> turns[t].chat, allowed |-> a] \in TurnStates
    BY <1>0, <1>5 DEF TurnStates
  <2>. QED  BY <1>0, <1>5, <2>1, TurnGoesOn DEF Advance
<1>6. ASSUME NEW t \in Turns, Lookup(t)  PROVE TurnsHaveChats' /\ UnscopedIsDeleted'
  <2>1. turns[t] # NoTurn /\ UNCHANGED <<chats, managed>>
        /\ {"scope", "search"} \subseteq TurnStages
    BY <1>6 DEF Lookup, InStage, store, ghosts, TurnStages
  <2>2. CASE turns[t].chat \in chats
    <3>1. Advance(t, "scope", {})
      BY <1>6, <2>2 DEF Lookup
    <3>. QED  BY <1>5, <2>1, <3>1
  <2>3. CASE turns[t].chat \notin chats
    <3>1. Advance(t, "search", None) /\ turns[t].chat \in managed
      BY <1>0, <1>6, <2>1, <2>3 DEF Lookup
    <3>. QED  BY <1>5, <2>1, <3>1
  <2>. QED  BY <2>2, <2>3
<1>7. ASSUME NEW t \in Turns, turns[t] # NoTurn, UNCHANGED <<chats, managed>>, SetTurn(t, NoTurn)
      PROVE  TurnsHaveChats' /\ UnscopedIsDeleted'
  BY <1>7, TurnGoesOn
<1>8. ASSUME NEW t \in Turns, NEW q \in Queries, NEW D \in SUBSET Docs, turns[t] # NoTurn,
             UNCHANGED <<chats, managed>>, Resolve(t, q, D)
      PROVE  TurnsHaveChats' /\ UnscopedIsDeleted'
  <2>1. Resolved(q, D) \in SUBSET Docs /\ Resolved(q, D) # None /\ "search" \in TurnStages
    BY NoneAssumption DEF Resolved, Ready, TurnStages
  <2>2. SetTurn(t, NoTurn) \/ Advance(t, "search", Resolved(q, D))
    BY <1>8 DEF Resolve
  <2>. QED  BY <1>5, <1>7, <1>8, <2>1, <2>2
<1>9. ASSUME NEW t \in Turns, NEW q \in Queries, Scope(t, q) \/ Fallback(t, q)
      PROVE  TurnsHaveChats' /\ UnscopedIsDeleted'
  <2>1. turns[t] # NoTurn /\ UNCHANGED <<chats, managed>> /\ "fallback" \in TurnStages
    BY <1>9 DEF Scope, Fallback, InStage, store, ghosts, TurnStages
  <2>2. \/ Advance(t, "fallback", {})
        \/ \E D \in SUBSET Docs : Resolve(t, q, D)
    BY <1>9 DEF Scope, Fallback, ChatDocuments, Ready
  <2>. QED  BY <1>5, <1>8, <2>1, <2>2
<1>10. ASSUME NEW t \in Turns, Search(t)  PROVE TurnsHaveChats' /\ UnscopedIsDeleted'
  BY <1>7, <1>10 DEF Search, InStage, store, ghosts
<1>11. CASE Crash
  BY <1>11 DEF Crash, TurnsHaveChats, UnscopedIsDeleted, InStage
<1>12. CASE UNCHANGED vars
  BY <1>1, <1>12 DEF vars, store, ghosts
<1>. QED  BY <1>2, <1>3, <1>4, <1>6, <1>9, <1>10, <1>11, <1>12 DEF Next, Turn

(* Where SearchIsScoped fails: only a chat deleted during its turn makes   *)
(* the turn search every document; every other way to a search has a       *)
(* document filter, an empty one included (scoped_source_plan,             *)
(* DocumentRegistry.resolve), through crashes and failed uploads.          *)
THEOREM UnscopedOnlyAfterDeletion == Spec => []UnscopedIsDeleted
<1>1. Init => TurnsHaveChats /\ UnscopedIsDeleted
  BY DEF Init, TurnsHaveChats, UnscopedIsDeleted, InStage
<1>2. TypeOK /\ TurnsHaveChats /\ UnscopedIsDeleted /\ [Next]_vars
        => TurnsHaveChats' /\ UnscopedIsDeleted'
  BY TurnChatStep
<1>. QED  BY <1>1, <1>2, DocumentTypes, PTL DEF Spec

(* Only a document route takes a document out of Ready.                    *)
THEOREM UploadsKeepReady == Spec => ReadyStaysReady
<1>1. Inv /\ [Next]_vars =>
        [\A d \in Docs : records[d] = "Ready" /\ records'[d] # "Ready"
                            => d \in managed']_vars
  BY KeepsReady DEF Inv
<1> QED
  BY Invariance, <1>1, PTL DEF Spec, ReadyStaysReady

-----------------------------------------------------------------------------
(***************************************************************************)
(* The refinement.  What DocumentContract shows of a document is a         *)
(* function of its record and of its chunks; most steps change neither,    *)
(* and the others are one promised action each.                            *)
(***************************************************************************)

Shown == [d \in Docs |-> ShownAs(records[d])]
Findable == {d \in chunks : records[d] = "Ready"}

(* A step that leaves records, chunks, keys, links and answers alone is    *)
(* not seen in the contract.                                               *)
LEMMA UnseenStep ==
  ASSUME UNCHANGED <<operations, records, names, chunks, links, answered>>
  PROVE  UNCHANGED Contract!dvars
BY DEF Contract!dvars

(* What is shown of each status (table document_records).                  *)
LEMMA StatusesShown ==
  /\ ShownAs("none") = "unknown" /\ ShownAs("Uploading") = "pending"
  /\ ShownAs("Indexing") = "pending" /\ ShownAs("Failed") = "pending"
  /\ ShownAs("Ready") = "ready" /\ ShownAs("deleted") = "withdrawn"
  /\ ShownAs("gone") = "removed"
BY DEF ShownAs, Pending

(* update_document_status changes one record.                              *)
LEMMA StatusStep ==
  ASSUME TypeOK, NEW d \in Docs, NEW s, records' = [records EXCEPT ![d] = s]
  PROVE  /\ \A e \in Docs \ {d} : records'[e] = records[e]
         /\ records'[d] = s
BY DEF TypeOK

LEMMA ContractStep ==
  ASSUME Inv, [Next]_vars
  PROVE  [Contract!DNext]_(Contract!dvars)
<1> USE DEF store, loop, ghosts, vars
<1>0. TypeOK /\ WorkInv /\ KeyInv
  BY DEF Inv
<1>1. ASSUME NEW c \in Chats, NEW f \in Files, NEW k \in BOOLEAN, Arrive(c, f, k)
      PROVE  UNCHANGED Contract!dvars
  BY <1>1, UnseenStep DEF Arrive
<1>2. ASSUME \/ Lock \/ BeginMissing \/ BeginReady \/ BeginRetry
             \/ IndexFails \/ MarkReadyRaises \/ StoreRaises
      PROVE  UNCHANGED Contract!dvars
  BY <1>2, UnseenStep
     DEF Lock, BeginMissing, BeginReady, BeginRetry, IndexFails, MarkReadyRaises, StoreRaises
<1>3. ASSUME NEW d \in Docs, Claim(d)
      PROVE  job \in Jobs /\ Contract!Accept(job.chat, job.file, d)
  <2>1. /\ records[d] = "none" /\ d \notin chunks /\ chunks \subseteq Docs
        /\ records' = [records EXCEPT ![d] = "Uploading"]
        /\ names' = [names EXCEPT ![d] = job.file] /\ UNCHANGED <<chunks, links, answered>>
    BY <1>0, <1>3 DEF Claim, Fresh, TypeOK
  <2>2. Shown[d] = "unknown" /\ Shown' = [Shown EXCEPT ![d] = "pending"]
    <3>1. Shown[d] = "unknown"
      BY <2>1, StatusesShown DEF Shown
    <3>2. Shown' = [Shown EXCEPT ![d] = "pending"]
      BY <1>0, <2>1, StatusesShown DEF Shown, TypeOK
    <3> QED BY <3>1, <3>2
  <2>3. Findable' = Findable
    BY <1>0, <2>1, StatusStep DEF Findable
  <2>4. /\ job \in Jobs /\ operations[<<job.chat, job.file>>] = None
        /\ operations' = [operations EXCEPT ![<<job.chat, job.file>>] = d]
    BY <1>0, <1>3 DEF Claim, Known, At, TypeOK
  <2> QED BY <2>1, <2>2, <2>3, <2>4 DEF Contract!Accept, Contract!Show, Shown, Findable
<1>4. ASSUME NEW d \in Docs, Create(d)
      PROVE  job \in Jobs /\ Contract!Accept(job.chat, job.file, d)
  <2>1. /\ records[d] = "none" /\ d \notin chunks /\ chunks \subseteq Docs
        /\ records' = [records EXCEPT ![d] = "Uploading"]
        /\ names' = [names EXCEPT ![d] = job.file] /\ job \in Jobs
        /\ UNCHANGED <<operations, chunks, links, answered>>
    BY <1>0, <1>4 DEF Create, Fresh, At, TypeOK
  <2>2. Shown[d] = "unknown" /\ Shown' = [Shown EXCEPT ![d] = "pending"]
    <3>1. Shown[d] = "unknown"
      BY <2>1, StatusesShown DEF Shown
    <3>2. Shown' = [Shown EXCEPT ![d] = "pending"]
      BY <1>0, <2>1, StatusesShown DEF Shown, TypeOK
    <3> QED BY <3>1, <3>2
  <2>3. Findable' = Findable
    BY <1>0, <2>1, StatusStep DEF Findable
  <2> QED BY <2>1, <2>2, <2>3 DEF Contract!Accept, Contract!Show, Shown, Findable
<1>5. ASSUME NEW d \in Docs, IndexUnscoped(d) PROVE UNCHANGED Contract!dvars
  <2>1. Findable' = Findable
    BY <1>5 DEF IndexUnscoped, StoreChunks, Fresh, Findable
  <2> QED BY <1>5, <2>1 DEF IndexUnscoped, Contract!dvars, Findable
<1>6. ASSUME SetIndexing PROVE UNCHANGED Contract!dvars \/ Contract!Resume(doc)
  <2>1. /\ doc \in Docs /\ job \in Jobs /\ records[doc] \in Rows \ {"Ready"}
        /\ ~job.keyed => records[doc] = "Uploading"
        /\ job.keyed => operations[<<job.chat, job.file>>] = doc
    BY <1>0, <1>6 DEF SetIndexing, At, TypeOK, WorkInv, KeyInv, Working
  <2>2. /\ records' = [records EXCEPT ![doc] = "Indexing"] /\ chunks \subseteq Docs
        /\ UNCHANGED <<operations, names, chunks, links, answered>>
    BY <1>0, <1>6 DEF SetIndexing, SetStatus, TypeOK
  <2>3. Shown' = [Shown EXCEPT ![doc] = "pending"] /\ Shown[doc] = ShownAs(records[doc])
    BY <1>0, <2>1, <2>2, StatusesShown DEF Shown, TypeOK
  <2>4. Findable' = Findable
    BY <1>0, <2>1, <2>2, StatusStep DEF Findable
  <2>5. CASE records[doc] = "deleted"
    <3>1. \E k \in Chats \X Files : operations[k] = doc
      BY <2>1, <2>5 DEF Jobs
    <3>2. Shown[doc] = "withdrawn"
      BY <2>3, <2>5, StatusesShown
    <3> QED BY <2>2, <2>3, <2>4, <3>1, <3>2 DEF Contract!Resume, Contract!Show, Shown, Findable
  <2>6. CASE records[doc] # "deleted"
    <3>1. Shown[doc] = "pending"
      BY <2>1, <2>3, <2>6, StatusesShown DEF Rows
    <3>2. Shown' = Shown
      BY <2>1, <2>3, <3>1 DEF Shown
    <3> QED BY <2>2, <2>4, <3>2 DEF Contract!dvars, Shown, Findable
  <2> QED BY <2>5, <2>6
<1>7. ASSUME Index PROVE UNCHANGED Contract!dvars
  <2>1. records[doc] = "Indexing" /\ UNCHANGED records
    BY <1>0, <1>7 DEF Index, At, WorkInv
  <2>2. Findable' = Findable
    BY <1>7, <2>1 DEF Index, StoreChunks, Findable
  <2> QED BY <1>7, <2>2 DEF Index, Contract!dvars, Findable
<1>8. ASSUME MarkReady PROVE Contract!Publish(doc)
  <2>1. /\ doc \in Docs /\ records[doc] = "Indexing" /\ chunks \subseteq Docs
        /\ (names[doc] \in Blank <=> doc \notin chunks)
    BY <1>0, <1>8 DEF MarkReady, At, TypeOK, WorkInv, KeyInv
  <2>2. /\ records' = [records EXCEPT ![doc] = "Ready"]
        /\ UNCHANGED <<operations, names, chunks, links, answered>>
    BY <1>8 DEF MarkReady, SetStatus
  <2>3. Shown' = [Shown EXCEPT ![doc] = "ready"] /\ Shown[doc] = "pending"
    BY <1>0, <2>1, <2>2, StatusesShown DEF Shown, TypeOK
  <2>4. Findable' = Findable \cup (chunks \cap {doc})
    BY <1>0, <2>1, <2>2, StatusStep DEF Findable
  <2>5. Findable' = IF names[doc] \in Blank THEN Findable ELSE Findable \cup {doc}
    BY <2>1, <2>4
  <2> QED BY <2>2, <2>3, <2>5 DEF Contract!Publish, Contract!Show, Shown, Findable
<1>9. ASSUME MarkFailed PROVE UNCHANGED Contract!dvars
  <2>1. doc \in Docs /\ records[doc] = "Indexing" /\ chunks \subseteq Docs
    BY <1>0, <1>9 DEF MarkFailed, At, TypeOK, WorkInv
  <2>2. /\ records' = [records EXCEPT ![doc] = "Failed"]
        /\ UNCHANGED <<operations, names, chunks, links, answered>>
    BY <1>9 DEF MarkFailed, SetStatus
  <2>3. Shown' = [Shown EXCEPT ![doc] = "pending"] /\ Shown[doc] = "pending"
    BY <1>0, <2>1, <2>2, StatusesShown DEF Shown, TypeOK
  <2>4. Shown' = Shown
    BY <2>1, <2>3 DEF Shown
  <2>5. Findable' = Findable
    BY <1>0, <2>1, <2>2, StatusStep DEF Findable
  <2> QED BY <2>2, <2>4, <2>5 DEF Contract!dvars, Shown, Findable
<1>10. ASSUME Link PROVE Contract!Tell(job.chat, job.file, job.keyed, doc)
  <2>1. /\ doc \in Docs /\ records[doc] = "Ready"
        /\ names[doc] = job.file
        /\ job.keyed => operations[<<job.chat, job.file>>] = doc
    BY <1>0, <1>10 DEF Link, At, TypeOK, WorkInv, KeyInv, Working
  <2>2. Shown[doc] = "ready"
    BY <2>1, StatusesShown DEF Shown
  <2> QED BY <1>10, <2>1, <2>2 DEF Link, Contract!Tell, Shown
<1>11. ASSUME LinkFailed PROVE Contract!Associate(job.chat, doc)
  <2>1. doc \in Docs /\ records[doc] \in Rows
    BY <1>0, <1>11 DEF LinkFailed, At, TypeOK, Associable, Exists
  <2>2. Shown[doc] \in {"pending", "ready", "withdrawn"}
    BY <2>1, StatusesShown DEF Shown, Rows
  <2> QED BY <1>11, <2>2 DEF LinkFailed, Contract!Associate, Contract!Known, Shown
<1>12. ASSUME NEW d \in Docs, records[d] \in Rows
       PROVE  Shown[d] \in {"pending", "ready", "withdrawn"}
  BY <1>12, StatusesShown DEF Shown, Rows
<1>13. ASSUME NEW d \in Docs, Deactivate(d) PROVE Contract!Withdraw(d)
  <2>1. /\ records[d] \in Rows /\ records' = [records EXCEPT ![d] = "deleted"]
        /\ chunks \subseteq Docs /\ UNCHANGED <<operations, names, chunks, links, answered>>
    BY <1>0, <1>13 DEF Deactivate, Exists, Touch, TypeOK
  <2>2. Shown' = [Shown EXCEPT ![d] = "withdrawn"]
    BY <1>0, <2>1, StatusesShown DEF Shown, TypeOK
  <2>3. Findable' = Findable \ {d}
    BY <1>0, <2>1, StatusStep DEF Findable
  <2> QED BY <1>12, <2>1, <2>2, <2>3 DEF Contract!Withdraw, Contract!Known, Contract!Show, Shown, Findable
<1>14. ASSUME NEW d \in Docs, Activate(d) PROVE Contract!Restore(d)
  <2>1. /\ records[d] \in Rows /\ records' = [records EXCEPT ![d] = "Ready"]
        /\ chunks \subseteq Docs /\ UNCHANGED <<operations, names, chunks, links, answered>>
    BY <1>0, <1>14 DEF Activate, Exists, Touch, TypeOK
  <2>2. Shown' = [Shown EXCEPT ![d] = "ready"]
    BY <1>0, <2>1, StatusesShown DEF Shown, TypeOK
  <2>3. Findable' \in {Findable, Findable \cup {d}}
    <3>1. Findable' = Findable \cup (chunks \cap {d})
      BY <1>0, <2>1, StatusStep DEF Findable
    <3> QED BY <3>1
  <2> QED BY <1>12, <2>1, <2>2, <2>3 DEF Contract!Restore, Contract!Known, Contract!Show, Shown, Findable
<1>15. ASSUME NEW d \in Docs, PurgeChunks(d)
       PROVE  UNCHANGED Contract!dvars \/ Contract!Purge(d)
  <2>1. records[d] \in Rows /\ UNCHANGED <<operations, records, names, links, answered>>
    BY <1>15 DEF PurgeChunks, Exists, Touch
  <2>2. CASE UNCHANGED chunks
    BY <2>1, <2>2, UnseenStep
  <2>3. CASE RemoveChunks(d)
    <3>1. Findable' = Findable \ {d}
      BY <2>1, <2>3 DEF RemoveChunks, Findable
    <3> QED BY <1>12, <2>1, <3>1 DEF Contract!Purge, Contract!Known, Shown, Findable
  <2> QED BY <1>15, <2>2, <2>3 DEF PurgeChunks
<1>16. ASSUME HardDelete PROVE Contract!Remove(doc)
  <2>1. doc \in Docs /\ records[doc] \in Rows /\ chunks \subseteq Docs
    BY <1>0, <1>16 DEF HardDelete, At, TypeOK, WorkInv, Exists
  <2>2. /\ records' = [records EXCEPT ![doc] = "gone"]
        /\ links' = {l \in links : l[2] # doc}
        /\ UNCHANGED <<operations, names, chunks, answered>>
    BY <1>16 DEF HardDelete, SetStatus
  <2>3. Shown' = [Shown EXCEPT ![doc] = "removed"]
    BY <1>0, <2>1, <2>2, StatusesShown DEF Shown, TypeOK
  <2>4. Findable' = Findable \ {doc}
    <3>1. \A e \in Docs : records'[e] = "Ready" <=> records[e] = "Ready" /\ e # doc
      BY <1>0, <2>1, <2>2, StatusStep
    <3> QED BY <2>1, <2>2, <3>1 DEF Findable
  <2> QED BY <1>12, <2>1, <2>2, <2>3, <2>4 DEF Contract!Remove, Contract!Known, Contract!Show, Shown, Findable
<1>17. ASSUME NEW c \in Chats, DeleteChat(c) PROVE Contract!Forget(c)
  BY <1>17 DEF DeleteChat, Touch, Contract!Forget
<1>18. ASSUME NEW c \in Chats, StartChat(c) PROVE UNCHANGED Contract!dvars
  BY <1>18, UnseenStep DEF StartChat
<1>19. ASSUME Turn PROVE UNCHANGED Contract!dvars
  BY <1>19, UnseenStep DEF Turn, TurnStart, Scope, Fallback, Lookup, Search
<1>20. ASSUME Crash \/ UNCHANGED vars PROVE UNCHANGED Contract!dvars
  BY <1>20, UnseenStep DEF Crash
<1>21. ASSUME Link \/ LinkFailed PROVE job \in Jobs /\ doc \in Docs
  BY <1>0, <1>21 DEF Link, LinkFailed, At, TypeOK
<1>22. ASSUME SetIndexing \/ MarkReady \/ HardDelete PROVE doc \in Docs
  BY <1>0, <1>22 DEF SetIndexing, MarkReady, HardDelete, At, TypeOK
<1>23. ASSUME Upload PROVE Contract!DNext \/ UNCHANGED Contract!dvars
  <2>1. CASE Link
    <3>1. job.chat \in Chats /\ job.file \in Files /\ job.keyed \in BOOLEAN /\ doc \in Docs
      BY <1>21, <2>1 DEF Jobs
    <3> QED BY <1>10, <2>1, <3>1 DEF Contract!DNext
  <2>2. CASE LinkFailed
    <3>1. job.chat \in Chats /\ doc \in Docs
      BY <1>21, <2>2 DEF Jobs
    <3> QED BY <1>11, <2>2, <3>1 DEF Contract!DNext
  <2>3. CASE SetIndexing
    BY <1>6, <1>22, <2>3 DEF Contract!DNext
  <2>4. CASE MarkReady
    <3>1. doc \in Docs /\ Contract!Publish(doc)
      BY <1>8, <1>22, <2>4
    <3>2. \E d \in Docs : Contract!Publish(d)
      BY <3>1 DEF Contract!Publish, Contract!Show
    <3> QED BY <3>2 DEF Contract!DNext
  <2>5. CASE \E d \in Docs : Claim(d) \/ Create(d) \/ IndexUnscoped(d)
    <3>1. job \in Jobs => job.chat \in Chats /\ job.file \in Files
      BY DEF Jobs
    <3> QED BY <1>3, <1>4, <1>5, <2>5, <3>1 DEF Contract!DNext
  <2>6. CASE Index \/ MarkFailed
    BY <1>7, <1>9, <2>6
  <2>7. CASE \E c \in Chats, f \in Files, k \in BOOLEAN : Arrive(c, f, k)
    BY <1>1, <2>7
  <2>8. CASE \/ Lock \/ BeginMissing \/ BeginReady \/ BeginRetry
             \/ IndexFails \/ MarkReadyRaises \/ StoreRaises
    BY <1>2, <2>8
  <2> QED BY <1>23, <2>1, <2>2, <2>3, <2>4, <2>5, <2>6, <2>7, <2>8 DEF Upload
<1>24. ASSUME Manage PROVE Contract!DNext \/ UNCHANGED Contract!dvars
  <2>1. CASE \E d \in Docs : Deactivate(d) \/ Activate(d) \/ PurgeChunks(d)
    BY <1>13, <1>14, <1>15, <2>1 DEF Contract!DNext
  <2>2. CASE HardDelete
    <3>1. doc \in Docs /\ Contract!Remove(doc)
      BY <1>16, <1>22, <2>2
    <3>2. \E d \in Docs : Contract!Remove(d)
      BY <3>1 DEF Contract!Remove, Contract!Show, Contract!Known
    <3> QED BY <3>2 DEF Contract!DNext
  <2>3. CASE \E c \in Chats : DeleteChat(c) \/ StartChat(c)
    BY <1>17, <1>18, <2>3 DEF Contract!DNext
  <2> QED BY <1>24, <2>1, <2>2, <2>3 DEF Manage
<1> QED BY <1>19, <1>20, <1>23, <1>24 DEF Next

(* Uploads, routes and crashes keep the contract of the registry: an       *)
(* upload takes effect at most once, and Ready and, unless the file is     *)
(* blank, searchable are one step although they are two stores             *)
(* (index_document_file).                                                  *)
THEOREM UploadsKeepContract == Spec => KeepsDocumentContract
<1>1. Init => Contract!DInit
  BY DEF Init, Contract!DInit, ShownAs, Pending
<1>2. Inv /\ [Next]_vars => [Contract!DNext]_(Contract!dvars)
  BY ContractStep
<1> QED BY <1>1, <1>2, Invariance, PTL DEF Spec, KeepsDocumentContract, Contract!DSpec

(* Whatever keeps the contract answers a retry with the document of the    *)
(* first answer: a claim is never given away, and clients are told of the  *)
(* claimed document only (claim_document_upload).                          *)
KeyedAnswers ==
  /\ operations \in [Chats \X Files -> Docs \cup {None}] /\ answered \subseteq Uploads
  /\ \A a \in answered : a.keyed => operations[<<a.chat, a.file>>] = a.doc

THEOREM ContractNamesOneDocument == KeepsDocumentContract => []RetriesAgree
<1>1. Contract!DInit => KeyedAnswers
  BY DEF Contract!DInit, KeyedAnswers
<1>2. KeyedAnswers /\ [Contract!DNext]_(Contract!dvars) => KeyedAnswers'
  <2> SUFFICES ASSUME KeyedAnswers, [Contract!DNext]_(Contract!dvars)
               PROVE  KeyedAnswers'
    OBVIOUS
  <2>1. ASSUME NEW c \in Chats, NEW f \in Files, NEW d \in Docs, Contract!Accept(c, f, d)
        PROVE  KeyedAnswers'
    <3>1. /\ answered' = answered /\ operations' \in [Chats \X Files -> Docs \cup {None}]
          /\ \A k \in Chats \X Files : operations[k] # None => operations'[k] = operations[k]
      BY <2>1 DEF Contract!Accept, KeyedAnswers
    <3>2. \A a \in answered : a.doc # None /\ <<a.chat, a.file>> \in Chats \X Files
      BY NoneAssumption DEF KeyedAnswers, Uploads
    <3> QED BY <3>1, <3>2 DEF KeyedAnswers
  <2>2. ASSUME NEW c \in Chats, NEW f \in Files, NEW k \in BOOLEAN, NEW d \in Docs,
               Contract!Tell(c, f, k, d)
        PROVE  KeyedAnswers'
    <3> DEFINE new == [chat |-> c, file |-> f, keyed |-> k, doc |-> d]
    <3>1. new \in Uploads
      BY Zenon DEF Uploads
    <3>3. new.keyed => operations[<<new.chat, new.file>>] = new.doc
      BY <2>2 DEF Contract!Tell
    <3>2. operations' = operations /\ answered' = answered \cup {new}
      BY <2>2 DEF Contract!Tell
    <3> HIDE DEF new
    <3> QED BY <3>1, <3>2, <3>3 DEF KeyedAnswers
  <2>3. CASE UNCHANGED <<operations, answered>>
    BY <2>3 DEF KeyedAnswers
  <2>4. ASSUME NEW d \in Docs, \/ Contract!Resume(d) \/ Contract!Publish(d)
                               \/ Contract!Withdraw(d) \/ Contract!Restore(d)
                               \/ Contract!Purge(d) \/ Contract!Remove(d)
        PROVE  UNCHANGED <<operations, answered>>
    BY <2>4 DEF Contract!Resume, Contract!Publish, Contract!Withdraw,
                Contract!Restore, Contract!Purge, Contract!Remove
  <2>5. ASSUME NEW c \in Chats, Contract!Forget(c) \/ \E d \in Docs : Contract!Associate(c, d)
        PROVE  UNCHANGED <<operations, answered>>
    BY <2>5 DEF Contract!Forget, Contract!Associate
  <2>6. CASE UNCHANGED Contract!dvars
    BY <2>3, <2>6 DEF Contract!dvars
  <2>7. CASE Contract!DNext
    BY <2>1, <2>2, <2>3, <2>4, <2>5, <2>7 DEF Contract!DNext
  <2> QED BY <2>6, <2>7
<1>3. KeyedAnswers => RetriesAgree
  BY DEF KeyedAnswers, RetriesAgree
<1> QED BY <1>1, <1>2, <1>3, PTL DEF KeepsDocumentContract, Contract!DSpec

=============================================================================
