------------------------ MODULE ChatLifecycle_proofs ------------------------
(***************************************************************************)
(* Theorems about ChatLifecycle, for every set of requests, every pool     *)
(* size, every gist batch size and every set of enabled operations.        *)
(*                                                                         *)
(* The inductive invariant Inv has four parts beside the types: which      *)
(* operation a program location belongs to (OpInv), what the RLock and the *)
(* single event-loop thread exclude (LockInv), what the guarded checks     *)
(* made earlier still guarantee (CheckInv), and what is on disk before a   *)
(* batch is consumed (DurableInv).  The last section says which operations *)
(* must be left out for the properties that do not hold of all of them.    *)
(***************************************************************************)
EXTENDS ChatLifecycle, FiniteSetTheorems, TLAPS

(* The operation that runs at each program location.                       *)
OpInv ==
  \A p \in Procs :
    /\ pc[p] \in {"persistLock", "persistCheck", "persistSave", "turnQueue",
                  "turnLock", "turnCheck", "turnModel", "finalizeWait"}
         => op[p] = "send"
    /\ pc[p] = "endQueue" => op[p] = "endApi"
    /\ pc[p] \in {"endLock"} \cup GistPC => op[p] \in EndOps
    /\ pc[p] \in {"conLock", "conQueue", "conDone"} => op[p] = "consolidate"
    /\ pc[p] \in {"genRead", "genStore"} => op[p] = "generate"
    /\ pc[p] \in MemoryPC => op[p] \in EndOps \cup {"send", "consolidate"}

(* The guard is held by exactly the requests inside a with-block, all of   *)
(* them on behalf of the owning thread, and the event loop runs at most    *)
(* one coroutine at a time.                                                *)
LockInv ==
  /\ \A p \in Procs : p \in holders <=> Guarded(p)
  /\ \A p \in holders : owner = GuardThread(p)
  /\ owner = None <=> holders = {}
  /\ \A p, q \in Procs : OnLoop(p) /\ OnLoop(q) => p = q

(* What a request has checked stays true until it acts on it.              *)
CheckInv ==
  /\ chat = "inactive" => msgs \subseteq gisted
  /\ \A p \in Procs :
       /\ pc[p] = "endMark" => msgs \subseteq gisted
       /\ pc[p] = "persistSave" => chat = "active"
       /\ pc[p] = "turnModel" => chat # "inactive"

(* The long-term writes of a batch precede the flags of its messages.      *)
DurableInv ==
  /\ summarized \subseteq longTerm
  /\ \A p \in Procs : pc[p] \in {"memStore", "memMark"} => batch[p] \subseteq longTerm

Inv == TypeOK /\ OpInv /\ LockInv /\ CheckInv /\ DurableInv

-----------------------------------------------------------------------------
(* Types.                                                                  *)

LEMMA Locations ==
  /\ LoopPC \subseteq PC /\ TurnPC \subseteq PC /\ BodyPC \subseteq PC
  /\ MemoryPC \subseteq PC /\ GistPC \subseteq PC
  /\ {"idle", "turnQueue", "finalizeWait", "endQueue", "conQueue", "conDone",
      "persistLock", "persistCheck", "persistSave", "conLock", "genRead",
      "genStore", "turnLock", "turnCheck", "turnModel", "endLock", "memSelect",
      "memRead", "memExtract", "memStore", "memReject", "memMark", "gistStart",
      "gistRead", "gistStore", "endMark"} \subseteq PC
BY DEF PC, LoopPC, TurnPC, BodyPC, MemoryPC, GistPC

(* The control helpers keep the types of what they change.                 *)
LEMMA ControlTypes ==
  ASSUME TypeOK, NEW p \in Procs
  PROVE  /\ Acquire(p) => owner' \in Procs \cup {Loop, None} /\ holders' \subseteq Procs
         /\ Release(p) => owner' \in Procs \cup {Loop, None} /\ holders' \subseteq Procs
         /\ \A l \in PC : Goto(p, l) => pc' \in [Procs -> PC]
         /\ Finish(p) => /\ pc' \in [Procs -> PC]
                         /\ op' \in [Procs -> Ops \cup {"none"}]
                         /\ mine' \in [Procs -> Nat]
                         /\ batch' \in [Procs -> SUBSET Nat]
                         /\ seen' \in [Procs -> SUBSET Nat]
         /\ \A o \in Ops, l \in PC :
              Arrive(p, o, l) => /\ pc' \in [Procs -> PC]
                                 /\ op' \in [Procs -> Ops \cup {"none"}]
                                 /\ requests' \in 0 .. MaxRequests
<1>1. Acquire(p) => owner' \in Procs \cup {Loop, None} /\ holders' \subseteq Procs
  BY DEF Acquire, GuardThread, TypeOK
<1>2. Release(p) => owner' \in Procs \cup {Loop, None} /\ holders' \subseteq Procs
  BY DEF Release, TypeOK
<1>3. \A l \in PC : Goto(p, l) => pc' \in [Procs -> PC]
  BY DEF Goto, TypeOK
<1>4. Finish(p) => /\ pc' \in [Procs -> PC]
                   /\ op' \in [Procs -> Ops \cup {"none"}]
                   /\ mine' \in [Procs -> Nat]
                   /\ batch' \in [Procs -> SUBSET Nat]
                   /\ seen' \in [Procs -> SUBSET Nat]
  BY <1>3, Locations DEF Finish, TypeOK
<1>5. \A o \in Ops, l \in PC :
        Arrive(p, o, l) => /\ pc' \in [Procs -> PC]
                           /\ op' \in [Procs -> Ops \cup {"none"}]
                           /\ requests' \in 0 .. MaxRequests
  BY <1>3, BoundsAssumption DEF Arrive, TypeOK
<1> QED
  BY <1>1, <1>2, <1>3, <1>4, <1>5

\* a fresh id is above every id of the chat
LEMMA FreshId ==
  ASSUME TypeOK, nextId' = nextId + 1
  PROVE  /\ nextId' \in Nat \ {0}
         /\ nextId \in Nat
         /\ msgs \cup {nextId} \subseteq 1 .. (nextId' - 1)
         /\ users \cup {nextId} \subseteq 1 .. (nextId' - 1)
         /\ nextId \notin msgs
BY DEF TypeOK

LEMMA TypeInit == Init => TypeOK
BY ProcsAssumption, BoundsAssumption, Locations DEF Init, TypeOK

LEMMA TypeTurn ==
  ASSUME TypeOK, NEW p \in Procs, Turn(p)
  PROVE  TypeOK'
<1> USE Locations, ControlTypes DEF rows, guard, locals
<1>1. CASE PersistLock(p)
  BY <1>1 DEF PersistLock, TypeOK
<1>2. CASE PersistCheck(p)
  BY <1>2 DEF PersistCheck, TypeOK
<1>3. CASE PersistSave(p)
  <2>1. mine' \in [Procs -> Nat]
    BY <1>3, FreshId DEF PersistSave, TypeOK
  <2>2. /\ nextId' \in Nat \ {0}
        /\ msgs' \subseteq 1 .. (nextId' - 1)
        /\ users' \subseteq 1 .. (nextId' - 1)
    BY <1>3, FreshId DEF PersistSave
  <2> QED
    BY <1>3, <2>1, <2>2 DEF PersistSave, TypeOK
<1>4. CASE TurnStart(p)
  BY <1>4 DEF TurnStart, TypeOK
<1>5. CASE TurnLock(p)
  BY <1>5 DEF TurnLock, TypeOK
<1>6. CASE TurnCheck(p)
  BY <1>6 DEF TurnCheck, TypeOK
<1>7. CASE TurnSave(p)
  <2>1. /\ nextId' \in Nat \ {0}
        /\ msgs' \subseteq 1 .. (nextId' - 1)
        /\ users' \subseteq 1 .. (nextId' - 1)
        /\ msgs \subseteq msgs'
    BY <1>7, FreshId DEF TurnSave
  <2>2. replies' \subseteq Nat \X Nat
    <3>1. mine[p] \in Nat /\ nextId \in Nat /\ replies \subseteq Nat \X Nat
      BY DEF TypeOK
    <3>2. replies' = replies \cup {<<mine[p], nextId>>}
      BY <1>7 DEF TurnSave
    <3> QED
      BY ONLY <3>1, <3>2, SMT
  <2> QED
    BY <1>7, <2>1, <2>2 DEF TurnSave, TypeOK
<1>8. CASE TurnRaise(p)
  BY <1>8 DEF TurnRaise, TypeOK
<1>9. CASE FinalizeStart(p)
  BY <1>9 DEF FinalizeStart, TypeOK
<1> QED
  BY <1>1, <1>2, <1>3, <1>4, <1>5, <1>6, <1>7, <1>8, <1>9 DEF Turn

\* every batch selected is a set of existing messages
LEMMA BatchTypes ==
  ASSUME TypeOK
  PROVE  /\ SUBSET msgs \subseteq SUBSET Nat
         /\ UnitBatches(msgs \ summarized) \subseteq SUBSET msgs
         /\ FlushBatches(msgs \ summarized) \subseteq SUBSET msgs
         /\ Oldest(msgs \ gisted, GistBatch) \subseteq SUBSET msgs
<1>1. SUBSET msgs \subseteq SUBSET Nat
  BY DEF TypeOK
<1>2. UnitBatches(msgs \ summarized) \subseteq SUBSET msgs
  BY DEF UnitBatches
<1>3. FlushBatches(msgs \ summarized) \subseteq SUBSET msgs
  BY <1>2 DEF FlushBatches
<1>4. Oldest(msgs \ gisted, GistBatch) \subseteq SUBSET msgs
  BY DEF Oldest
<1> QED
  BY <1>1, <1>2, <1>3, <1>4

\* selecting a batch
LEMMA SelectTypes ==
  ASSUME TypeOK, NEW p \in Procs, NEW T \in SUBSET msgs,
         batch' = [batch EXCEPT ![p] = T]
  PROVE  batch' \in [Procs -> SUBSET Nat]
<1>1. T \in SUBSET Nat /\ batch \in [Procs -> SUBSET Nat]
  BY BatchTypes DEF TypeOK
<1> QED
  BY ONLY <1>1, batch' = [batch EXCEPT ![p] = T], SMT

\* returning from memory processing, normally or with an exception
LEMMA ReturnTypes ==
  ASSUME TypeOK, NEW p \in Procs, MemoryReturns(p) \/ Raises(p)
  PROVE  /\ owner' \in Procs \cup {Loop, None} /\ holders' \subseteq Procs
         /\ pc' \in [Procs -> PC] /\ op' \in [Procs -> Ops \cup {"none"}]
         /\ mine' \in [Procs -> Nat]
         /\ batch' \in [Procs -> SUBSET Nat] /\ seen' \in [Procs -> SUBSET Nat]
<1> USE Locations, ControlTypes DEF guard, locals
<1>1. CASE MemoryReturns(p)
  BY <1>1 DEF MemoryReturns, TypeOK
<1>2. CASE Raises(p)
  BY <1>2 DEF Raises, TypeOK
<1> QED
  BY <1>1, <1>2

LEMMA TypeMemory ==
  ASSUME TypeOK, NEW p \in Procs, Memory(p)
  PROVE  TypeOK'
<1> USE Locations, ControlTypes, ReturnTypes DEF rows, guard, locals
<1>1. CASE MemSelect(p)
  <2>1. CASE \E T \in UnitBatches(msgs \ summarized) \cup FlushBatches(msgs \ summarized) :
               /\ batch' = [batch EXCEPT ![p] = T]
               /\ Goto(p, "memRead")
               /\ UNCHANGED <<guard, op, mine, seen>>
    <3>1. batch' \in [Procs -> SUBSET Nat]
      BY <2>1, BatchTypes, SelectTypes
    <3> QED
      BY <1>1, <2>1, <3>1 DEF MemSelect, TypeOK
  <2>2. CASE MemoryReturns(p)
    BY <1>1, <2>2 DEF MemSelect, TypeOK
  <2> QED
    BY <1>1, <2>1, <2>2 DEF MemSelect
<1>2. CASE MemRead(p)
  BY <1>2 DEF MemRead, TypeOK
<1>3. CASE MemExtract(p)
  <2>1. longTerm' \subseteq Nat
    BY <1>3 DEF MemExtract, TypeOK
  <2>2. /\ owner' \in Procs \cup {Loop, None} /\ holders' \subseteq Procs
        /\ pc' \in [Procs -> PC] /\ op' \in [Procs -> Ops \cup {"none"}]
        /\ mine' \in [Procs -> Nat]
        /\ batch' \in [Procs -> SUBSET Nat] /\ seen' \in [Procs -> SUBSET Nat]
    BY <1>3 DEF MemExtract, TypeOK
  <2> QED
    BY <1>3, <2>1, <2>2 DEF MemExtract, TypeOK
<1>4. CASE MemStore(p)
  BY <1>4 DEF MemStore, UpsertMemory, TypeOK
<1>5. CASE MemReject(p)
  BY <1>5 DEF MemReject, UpsertMemory, TypeOK
<1>6. CASE MemMark(p)
  BY <1>6 DEF MemMark, TypeOK
<1> QED
  BY <1>1, <1>2, <1>3, <1>4, <1>5, <1>6 DEF Memory

LEMMA InsertGistTypes ==
  ASSUME TypeOK, NEW p \in Procs, InsertGist(p)
  PROVE  /\ gists' \in Seq(SUBSET Nat)
         /\ gisted' \subseteq msgs
<1>1. batch[p] \in SUBSET Nat /\ gists \in Seq(SUBSET Nat)
  BY DEF TypeOK
<1>2. Append(gists, batch[p]) \in Seq(SUBSET Nat)
  BY ONLY <1>1, SMT
<1>3. gisted' \subseteq msgs
  BY DEF InsertGist, TypeOK
<1> QED
  BY <1>2, <1>3 DEF InsertGist

LEMMA TypeEnd ==
  ASSUME TypeOK, NEW p \in Procs, End(p)
  PROVE  TypeOK'
<1> USE Locations, ControlTypes, ReturnTypes DEF rows, guard, locals
<1>1. CASE EndStart(p)
  BY <1>1 DEF EndStart, TypeOK
<1>2. CASE EndLock(p)
  BY <1>2 DEF EndLock, TypeOK
<1>3. CASE GistStart(p)
  BY <1>3 DEF GistStart, TypeOK
<1>4. CASE GistRead(p)
  <2>1. batch' \in [Procs -> SUBSET Nat]
    BY <1>4, BatchTypes, SelectTypes DEF GistRead, TypeOK
  <2> QED
    BY <1>4, <2>1 DEF GistRead, TypeOK
<1>5. CASE GistStore(p)
  <2>1. CASE InsertGist(p)
    BY <1>5, <2>1, InsertGistTypes DEF GistStore, InsertGist, TypeOK
  <2>2. CASE ~InsertGist(p)
    BY <1>5, <2>2 DEF GistStore, TypeOK
  <2> QED
    BY <2>1, <2>2
<1>6. CASE EndMark(p)
  BY <1>6 DEF EndMark, TypeOK
<1> QED
  BY <1>1, <1>2, <1>3, <1>4, <1>5, <1>6 DEF End

LEMMA TypeOther ==
  ASSUME TypeOK, NEW p \in Procs, Other(p)
  PROVE  TypeOK'
<1> USE Locations, ControlTypes DEF rows, guard, locals
<1>1. CASE ConLock(p)
  BY <1>1 DEF ConLock, TypeOK
<1>2. CASE ConStart(p)
  BY <1>2 DEF ConStart, TypeOK
<1>3. CASE ConRelease(p)
  BY <1>3 DEF ConRelease, TypeOK
<1>4. CASE GenRead(p)
  <2>1. batch' \in [Procs -> SUBSET Nat]
    BY <1>4, BatchTypes, SelectTypes DEF GenRead, TypeOK
  <2> QED
    BY <1>4, <2>1 DEF GenRead, TypeOK
<1>5. CASE GenStore(p)
  <2>1. CASE InsertGist(p)
    BY <1>5, <2>1, InsertGistTypes DEF GenStore, InsertGist, TypeOK
  <2>2. CASE ~InsertGist(p)
    BY <1>5, <2>2 DEF GenStore, TypeOK
  <2> QED
    BY <2>1, <2>2
<1> QED
  BY <1>1, <1>2, <1>3, <1>4, <1>5 DEF Other

LEMMA TypeArrivals ==
  ASSUME TypeOK, NEW p \in Procs, Arrivals(p)
  PROVE  TypeOK'
<1> USE Locations, ControlTypes DEF rows, guard, locals, Ops, EndOps
<1>1. CASE Send(p)
  BY <1>1 DEF Send, TypeOK
<1>2. CASE EndUi(p)
  BY <1>2 DEF EndUi, TypeOK
<1>3. CASE EndApi(p)
  BY <1>3 DEF EndApi, TypeOK
<1>4. CASE Consolidate(p)
  BY <1>4 DEF Consolidate, TypeOK
<1>5. CASE Generate(p)
  BY <1>5 DEF Generate, TypeOK
<1> QED
  BY <1>1, <1>2, <1>3, <1>4, <1>5 DEF Arrivals

LEMMA TypeInstant ==
  ASSUME TypeOK, Reactivate \/ Delete \/ StartChat \/ Crash \/ UNCHANGED vars
  PROVE  TypeOK'
<1> USE Locations DEF rows, guard, locals
<1>1. CASE Reactivate
  BY <1>1 DEF Reactivate, TypeOK
<1>2. CASE Delete
  BY <1>2 DEF Delete, TypeOK
<1>3. CASE StartChat
  BY <1>3 DEF StartChat, TypeOK
<1>4. CASE Crash
  BY <1>4 DEF Crash, TypeOK
<1>5. CASE UNCHANGED vars
  BY <1>5 DEF vars, TypeOK
<1> QED
  BY <1>1, <1>2, <1>3, <1>4, <1>5

LEMMA TypeNext == TypeOK /\ [Next]_vars => TypeOK'
BY TypeTurn, TypeMemory, TypeEnd, TypeOther, TypeArrivals, TypeInstant
   DEF Next, Proceed

(* Types, and the schema's constraints: flags belong to existing rows and  *)
(* every id of the chat was issued before, in every reachable state.       *)
THEOREM TypeCorrect == Spec => []TypeOK
<1>1. Init => TypeOK
  BY TypeInit
<1>2. TypeOK /\ [Next]_vars => TypeOK'
  BY TypeNext
<1> QED
  BY <1>1, <1>2, PTL DEF Spec

-----------------------------------------------------------------------------
(* The operation at each location.                                         *)

LEMMA OpInit == Init => OpInv
BY DEF Init, OpInv, GistPC, MemoryPC

LEMMA OpTurn ==
  ASSUME TypeOK, OpInv, NEW p \in Procs, Turn(p)
  PROVE  OpInv'
<1> USE DEF TypeOK, OpInv, GistPC, MemoryPC, EndOps, Goto, Finish, Arrive, locals
<1>1. CASE PersistLock(p)
  BY <1>1 DEF PersistLock
<1>2. CASE PersistCheck(p)
  BY <1>2 DEF PersistCheck
<1>3. CASE PersistSave(p)
  BY <1>3 DEF PersistSave
<1>4. CASE TurnStart(p)
  BY <1>4 DEF TurnStart
<1>5. CASE TurnLock(p)
  BY <1>5 DEF TurnLock
<1>6. CASE TurnCheck(p)
  BY <1>6 DEF TurnCheck
<1>7. CASE TurnSave(p)
  BY <1>7 DEF TurnSave
<1>8. CASE TurnRaise(p)
  BY <1>8 DEF TurnRaise
<1>9. CASE FinalizeStart(p)
  BY <1>9 DEF FinalizeStart
<1> QED
  BY <1>1, <1>2, <1>3, <1>4, <1>5, <1>6, <1>7, <1>8, <1>9 DEF Turn

LEMMA OpMemory ==
  ASSUME TypeOK, OpInv, NEW p \in Procs, Memory(p)
  PROVE  OpInv'
<1> USE DEF TypeOK, OpInv, GistPC, MemoryPC, EndOps, Goto, Finish, Arrive, locals
<1>1. CASE MemSelect(p)
  BY <1>1 DEF MemSelect, MemoryReturns
<1>2. CASE MemRead(p)
  BY <1>2 DEF MemRead
<1>3. CASE MemExtract(p)
  BY <1>3 DEF MemExtract, Raises
<1>4. CASE MemStore(p)
  BY <1>4 DEF MemStore, Raises
<1>5. CASE MemReject(p)
  BY <1>5 DEF MemReject, MemoryReturns, Raises
<1>6. CASE MemMark(p)
  BY <1>6 DEF MemMark
<1> QED
  BY <1>1, <1>2, <1>3, <1>4, <1>5, <1>6 DEF Memory

LEMMA OpEnd ==
  ASSUME TypeOK, OpInv, NEW p \in Procs, End(p)
  PROVE  OpInv'
<1> USE DEF TypeOK, OpInv, GistPC, MemoryPC, EndOps, Goto, Finish, Arrive, locals
<1>1. CASE EndStart(p)
  BY <1>1 DEF EndStart
<1>2. CASE EndLock(p)
  BY <1>2 DEF EndLock
<1>3. CASE GistStart(p)
  BY <1>3 DEF GistStart, Raises
<1>4. CASE GistRead(p)
  BY <1>4 DEF GistRead
<1>5. CASE GistStore(p)
  BY <1>5 DEF GistStore, Raises
<1>6. CASE EndMark(p)
  BY <1>6 DEF EndMark
<1> QED
  BY <1>1, <1>2, <1>3, <1>4, <1>5, <1>6 DEF End

LEMMA OpOther ==
  ASSUME TypeOK, OpInv, NEW p \in Procs, Other(p)
  PROVE  OpInv'
<1> USE DEF TypeOK, OpInv, GistPC, MemoryPC, EndOps, Goto, Finish, Arrive, locals
<1>1. CASE ConLock(p)
  BY <1>1 DEF ConLock
<1>2. CASE ConStart(p)
  BY <1>2 DEF ConStart
<1>3. CASE ConRelease(p)
  BY <1>3 DEF ConRelease
<1>4. CASE GenRead(p)
  BY <1>4 DEF GenRead
<1>5. CASE GenStore(p)
  BY <1>5 DEF GenStore
<1> QED
  BY <1>1, <1>2, <1>3, <1>4, <1>5 DEF Other

LEMMA OpArrivals ==
  ASSUME TypeOK, OpInv, NEW p \in Procs, Arrivals(p)
  PROVE  OpInv'
<1> USE DEF TypeOK, OpInv, GistPC, MemoryPC, EndOps, Goto, Finish, Arrive, locals
<1>1. CASE Send(p)
  BY <1>1 DEF Send
<1>2. CASE EndUi(p)
  BY <1>2 DEF EndUi
<1>3. CASE EndApi(p)
  BY <1>3 DEF EndApi
<1>4. CASE Consolidate(p)
  BY <1>4 DEF Consolidate
<1>5. CASE Generate(p)
  BY <1>5 DEF Generate
<1> QED
  BY <1>1, <1>2, <1>3, <1>4, <1>5 DEF Arrivals

LEMMA OpInstant ==
  ASSUME TypeOK, OpInv, Reactivate \/ Delete \/ StartChat \/ Crash \/ UNCHANGED vars
  PROVE  OpInv'
BY DEF OpInv, Reactivate, Delete, StartChat, Crash, vars, GistPC, MemoryPC

LEMMA OpNext == TypeOK /\ OpInv /\ [Next]_vars => OpInv'
BY OpTurn, OpMemory, OpEnd, OpOther, OpArrivals, OpInstant DEF Next, Proceed

-----------------------------------------------------------------------------
(* The guard and the event loop.                                           *)

LEMMA LockInit == Init => LockInv
BY ProcsAssumption DEF Init, LockInv, Guarded, OnLoop, LoopPC, TurnPC, BodyPC,
   MemoryPC, GistPC

(* What a step of p does to the guard and to the threads, as far as the    *)
(* lock invariant can tell.                                                *)
StepOf(p) ==
  /\ \A q \in Procs \ {p} : pc'[q] = pc[q] /\ op'[q] = op[q]
  /\ OnLoop(p)' => OnLoop(p) \/ LoopFree
  /\ \/ Acquire(p) /\ Guarded(p)' /\ GuardThread(p)' = GuardThread(p)
     \/ Release(p) /\ ~Guarded(p)'
     \/ /\ UNCHANGED guard
        /\ Guarded(p)' <=> Guarded(p)
        /\ Guarded(p) => GuardThread(p)' = GuardThread(p)

LEMMA LockStep ==
  ASSUME TypeOK, LockInv, NEW p \in Procs, StepOf(p)
  PROVE  LockInv'
<1>1. ASSUME NEW q \in Procs, q # p
      PROVE  /\ Guarded(q)' <=> Guarded(q)
             /\ GuardThread(q)' = GuardThread(q)
             /\ OnLoop(q)' <=> OnLoop(q)
  BY <1>1 DEF StepOf, Guarded, GuardThread, OnLoop
<1>2. GuardThread(p) # None /\ None \notin Procs
  BY ProcsAssumption DEF GuardThread
<1>3. \A q, r \in Procs : OnLoop(q)' /\ OnLoop(r)' => q = r
  BY <1>1 DEF StepOf, LockInv, LoopFree
<1>4. CASE Acquire(p) /\ Guarded(p)' /\ GuardThread(p)' = GuardThread(p)
  BY <1>1, <1>2, <1>3, <1>4 DEF LockInv, Acquire, TypeOK
<1>5. CASE Release(p) /\ ~Guarded(p)'
  BY <1>1, <1>3, <1>5 DEF LockInv, Release, TypeOK
<1>6. CASE /\ UNCHANGED guard
           /\ Guarded(p)' <=> Guarded(p)
           /\ Guarded(p) => GuardThread(p)' = GuardThread(p)
  BY <1>1, <1>3, <1>6 DEF LockInv, guard, TypeOK
<1> QED
  BY <1>4, <1>5, <1>6 DEF StepOf

LEMMA LockTurn ==
  ASSUME TypeOK, OpInv, NEW p \in Procs, Turn(p)
  PROVE  StepOf(p)
<1> USE DEF TypeOK, OpInv, StepOf, Guarded, GuardThread, OnLoop, LoopPC, TurnPC, BodyPC,
            MemoryPC, GistPC, EndOps, Goto, Finish, Arrive, guard, locals
<1>1. CASE PersistLock(p)
  BY <1>1 DEF PersistLock
<1>2. CASE PersistCheck(p)
  BY <1>2 DEF PersistCheck
<1>3. CASE PersistSave(p)
  BY <1>3 DEF PersistSave
<1>4. CASE TurnStart(p)
  BY <1>4 DEF TurnStart
<1>5. CASE TurnLock(p)
  BY <1>5 DEF TurnLock
<1>6. CASE TurnCheck(p)
  BY <1>6 DEF TurnCheck
<1>7. CASE TurnSave(p)
  BY <1>7 DEF TurnSave
<1>8. CASE TurnRaise(p)
  BY <1>8 DEF TurnRaise
<1>9. CASE FinalizeStart(p)
  BY <1>9 DEF FinalizeStart
<1> QED
  BY <1>1, <1>2, <1>3, <1>4, <1>5, <1>6, <1>7, <1>8, <1>9 DEF Turn

LEMMA LockMemory ==
  ASSUME TypeOK, OpInv, NEW p \in Procs, Memory(p)
  PROVE  StepOf(p)
<1> USE DEF TypeOK, OpInv, StepOf, Guarded, GuardThread, OnLoop, LoopPC, TurnPC, BodyPC,
            MemoryPC, GistPC, EndOps, Goto, Finish, Arrive, guard, locals
<1>1. CASE MemSelect(p)
  BY <1>1 DEF MemSelect, MemoryReturns
<1>2. CASE MemRead(p)
  BY <1>2 DEF MemRead
<1>3. CASE MemExtract(p)
  BY <1>3 DEF MemExtract, Raises
<1>4. CASE MemStore(p)
  BY <1>4 DEF MemStore, Raises
<1>5. CASE MemReject(p)
  BY <1>5 DEF MemReject, MemoryReturns, Raises
<1>6. CASE MemMark(p)
  BY <1>6 DEF MemMark
<1> QED
  BY <1>1, <1>2, <1>3, <1>4, <1>5, <1>6 DEF Memory

LEMMA LockEnd ==
  ASSUME TypeOK, OpInv, NEW p \in Procs, End(p)
  PROVE  StepOf(p)
<1> USE DEF TypeOK, OpInv, StepOf, Guarded, GuardThread, OnLoop, LoopPC, TurnPC, BodyPC,
            MemoryPC, GistPC, EndOps, Goto, Finish, Arrive, guard, locals
<1>1. CASE EndStart(p)
  BY <1>1 DEF EndStart
<1>2. CASE EndLock(p)
  BY <1>2 DEF EndLock
<1>3. CASE GistStart(p)
  BY <1>3 DEF GistStart, Raises
<1>4. CASE GistRead(p)
  BY <1>4 DEF GistRead
<1>5. CASE GistStore(p)
  BY <1>5 DEF GistStore, Raises
<1>6. CASE EndMark(p)
  BY <1>6 DEF EndMark
<1> QED
  BY <1>1, <1>2, <1>3, <1>4, <1>5, <1>6 DEF End

LEMMA LockOther ==
  ASSUME TypeOK, OpInv, NEW p \in Procs, Other(p)
  PROVE  StepOf(p)
<1> USE DEF TypeOK, OpInv, StepOf, Guarded, GuardThread, OnLoop, LoopPC, TurnPC, BodyPC,
            MemoryPC, GistPC, EndOps, Goto, Finish, Arrive, guard, locals
<1>1. CASE ConLock(p)
  BY <1>1 DEF ConLock
<1>2. CASE ConStart(p)
  BY <1>2 DEF ConStart
<1>3. CASE ConRelease(p)
  BY <1>3 DEF ConRelease
<1>4. CASE GenRead(p)
  BY <1>4 DEF GenRead
<1>5. CASE GenStore(p)
  BY <1>5 DEF GenStore
<1> QED
  BY <1>1, <1>2, <1>3, <1>4, <1>5 DEF Other

LEMMA LockArrivals ==
  ASSUME TypeOK, OpInv, NEW p \in Procs, Arrivals(p)
  PROVE  StepOf(p)
<1> USE DEF TypeOK, OpInv, StepOf, Guarded, GuardThread, OnLoop, LoopPC, TurnPC, BodyPC,
            MemoryPC, GistPC, EndOps, Goto, Finish, Arrive, guard, locals
<1>1. CASE Send(p)
  BY <1>1 DEF Send
<1>2. CASE EndUi(p)
  BY <1>2 DEF EndUi
<1>3. CASE EndApi(p)
  BY <1>3 DEF EndApi
<1>4. CASE Consolidate(p)
  BY <1>4 DEF Consolidate
<1>5. CASE Generate(p)
  BY <1>5 DEF Generate
<1> QED
  BY <1>1, <1>2, <1>3, <1>4, <1>5 DEF Arrivals

LEMMA LockInstant ==
  ASSUME LockInv, Reactivate \/ Delete \/ StartChat \/ Crash \/ UNCHANGED vars
  PROVE  LockInv'
BY ProcsAssumption
   DEF LockInv, Guarded, GuardThread, OnLoop, LoopPC, TurnPC, BodyPC, MemoryPC, GistPC,
       Reactivate, Delete, StartChat, Crash, vars, guard

LEMMA LockNext == TypeOK /\ OpInv /\ LockInv /\ [Next]_vars => LockInv'
BY LockStep, LockTurn, LockMemory, LockEnd, LockOther, LockArrivals, LockInstant
   DEF Next, Proceed

\* a worker of the chat inside the guard excludes everybody else
LEMMA Exclusion ==
  ASSUME LockInv, NEW p \in Procs, NEW q \in Procs, p # q,
         Guarded(p), Guarded(q)
  PROVE  pc[p] \notin TurnPC /\ op[p] # "endApi"
<1>1. owner = GuardThread(p) /\ owner = GuardThread(q)
  BY DEF LockInv
<1>2. GuardThread(q) \in {q, Loop}
  BY DEF GuardThread
<1>3. GuardThread(p) # p
  BY <1>1, <1>2, ProcsAssumption
<1> QED
  BY <1>3 DEF GuardThread

LEMMA LockInvariant == Spec => [](TypeOK /\ OpInv /\ LockInv)
<1>1. Init => TypeOK /\ OpInv /\ LockInv
  BY TypeInit, OpInit, LockInit
<1>2. (TypeOK /\ OpInv /\ LockInv) /\ [Next]_vars => (TypeOK /\ OpInv /\ LockInv)'
  BY TypeNext, OpNext, LockNext
<1> QED
  BY <1>1, <1>2, PTL DEF Spec

(* The types, and the guard is held by exactly the requests inside a       *)
(* with-block, however they leave it.                                      *)
THEOREM StateIsWellFormed == Spec => []WellFormed
<1>1. TypeOK /\ LockInv => WellFormed
  BY DEF WellFormed, LockInv
<1> QED
  BY <1>1, LockInvariant, PTL

(* While a turn or a REST Chat End is in its with-block on a worker, no    *)
(* other operation of the chat is in one.                                  *)
THEOREM WorkersExclude == Spec => []WorkerExclusion
<1>1. LockInv => WorkerExclusion
  BY Exclusion DEF WorkerExclusion
<1> QED
  BY <1>1, LockInvariant, PTL

-----------------------------------------------------------------------------
(* What was checked under the guard stays true until it is used.           *)

\* nothing enters the chat while a Chat End is about to mark it inactive
LEMMA EndExcludesWrites ==
  ASSUME OpInv, LockInv, NEW p \in Procs, NEW q \in Procs,
         pc[p] = "endMark", pc[q] \in {"persistSave", "turnModel"}
  PROVE  FALSE
<1>1. p # q /\ Guarded(p) /\ Guarded(q)
  BY DEF Guarded, OpInv, GistPC, EndOps
<1>2. op[p] = "endUi" /\ pc[q] = "persistSave"
  BY <1>1, Exclusion DEF OpInv, GistPC, EndOps, TurnPC
<1>3. OnLoop(p) /\ OnLoop(q)
  BY <1>2 DEF OnLoop, BodyPC, GistPC, LoopPC
<1> QED
  BY <1>1, <1>3 DEF LockInv

LEMMA CheckInit == Init => CheckInv
BY DEF Init, CheckInv

LEMMA CheckTurn ==
  ASSUME TypeOK, OpInv, LockInv, CheckInv, NEW p \in Procs, Turn(p)
  PROVE  CheckInv'
<1> USE DEF CheckInv, Goto, Finish, rows, locals
<1>0. pc \in [Procs -> PC]
  BY DEF TypeOK
<1>1. CASE PersistLock(p)
  BY <1>0, <1>1 DEF PersistLock
<1>2. CASE PersistCheck(p)
  BY <1>0, <1>2 DEF PersistCheck
<1>3. CASE PersistSave(p)
  <2>1. chat = "active"
    BY <1>3 DEF PersistSave
  <2>2. \A q \in Procs : pc[q] # "endMark"
    BY <1>3, EndExcludesWrites DEF PersistSave
  <2> QED
    BY <1>0, <1>3, <2>1, <2>2 DEF PersistSave
<1>4. CASE TurnStart(p)
  BY <1>0, <1>4 DEF TurnStart
<1>5. CASE TurnLock(p)
  BY <1>0, <1>5 DEF TurnLock
<1>6. CASE TurnCheck(p)
  BY <1>0, <1>6 DEF TurnCheck
<1>7. CASE TurnSave(p)
  <2>1. chat # "inactive"
    BY <1>7 DEF TurnSave
  <2>2. \A q \in Procs : pc[q] # "endMark"
    BY <1>7, EndExcludesWrites DEF TurnSave
  <2> QED
    BY <1>0, <1>7, <2>1, <2>2 DEF TurnSave
<1>8. CASE TurnRaise(p)
  BY <1>0, <1>8 DEF TurnRaise
<1>9. CASE FinalizeStart(p)
  BY <1>0, <1>9 DEF FinalizeStart
<1> QED
  BY <1>1, <1>2, <1>3, <1>4, <1>5, <1>6, <1>7, <1>8, <1>9 DEF Turn

LEMMA CheckMemory ==
  ASSUME TypeOK, CheckInv, NEW p \in Procs, Memory(p)
  PROVE  CheckInv'
<1> USE DEF CheckInv, Goto, Finish, rows, locals
<1>0. pc \in [Procs -> PC]
  BY DEF TypeOK
<1>1. UNCHANGED <<chat, msgs, gisted>>
  BY DEF Memory, MemSelect, MemRead, MemExtract, MemStore, MemReject, MemMark,
         UpsertMemory
<1>2. \A q \in Procs : pc'[q] \in {"endMark", "persistSave", "turnModel"} => pc'[q] = pc[q]
  BY <1>0 DEF Memory, MemSelect, MemRead, MemExtract, MemStore, MemReject, MemMark,
         MemoryReturns, Raises
<1> QED
  BY <1>1, <1>2

LEMMA CheckEnd ==
  ASSUME TypeOK, OpInv, LockInv, CheckInv, NEW p \in Procs, End(p)
  PROVE  CheckInv'
<1> USE DEF CheckInv, Goto, Finish, Raises, rows, locals
<1>0. pc \in [Procs -> PC]
  BY DEF TypeOK
<1>1. CASE EndStart(p)
  BY <1>0, <1>1 DEF EndStart
<1>2. CASE EndLock(p)
  BY <1>0, <1>2 DEF EndLock
<1>3. CASE GistStart(p)
  BY <1>0, <1>3 DEF GistStart
<1>4. CASE GistRead(p)
  BY <1>0, <1>4 DEF GistRead
<1>5. CASE GistStore(p)
  <2>1. UNCHANGED <<chat, msgs>> /\ gisted \subseteq gisted'
    BY <1>5 DEF GistStore, InsertGist
  <2>2. \A q \in Procs :
          pc'[q] \in {"endMark", "persistSave", "turnModel"} => pc'[q] = pc[q]
    BY <1>0, <1>5 DEF GistStore
  <2> QED
    BY <2>1, <2>2
<1>6. CASE EndMark(p)
  <2>1. \A q \in Procs : pc[q] \notin {"persistSave", "turnModel"}
    BY <1>6, EndExcludesWrites DEF EndMark
  <2>2. msgs \subseteq gisted
    BY <1>6 DEF EndMark
  <2> QED
    BY <1>0, <1>6, <2>1, <2>2 DEF EndMark
<1> QED
  BY <1>1, <1>2, <1>3, <1>4, <1>5, <1>6 DEF End

LEMMA CheckOther ==
  ASSUME TypeOK, CheckInv, NEW p \in Procs, Other(p) \/ Arrivals(p)
  PROVE  CheckInv'
<1> USE DEF CheckInv, Goto, Finish, Arrive, rows, locals
<1>0. pc \in [Procs -> PC]
  BY DEF TypeOK
<1>1. UNCHANGED <<chat, msgs>> /\ gisted \subseteq gisted'
  BY DEF Other, ConLock, ConStart, ConRelease, GenRead, GenStore, InsertGist,
         Arrivals, Send, EndUi, EndApi, Consolidate, Generate
<1>2. \A q \in Procs : pc'[q] \in {"endMark", "persistSave", "turnModel"} => pc'[q] = pc[q]
  BY <1>0 DEF Other, ConLock, ConStart, ConRelease, GenRead, GenStore,
         Arrivals, Send, EndUi, EndApi, Consolidate, Generate
<1> QED
  BY <1>1, <1>2

LEMMA CheckInstant ==
  ASSUME CheckInv, Reactivate \/ Delete \/ StartChat \/ Crash \/ UNCHANGED vars
  PROVE  CheckInv'
<1> USE DEF CheckInv
<1>1. CASE Reactivate
  BY <1>1 DEF Reactivate
<1>2. CASE Delete
  BY <1>2 DEF Delete, LoopFree, OnLoop, LoopPC
<1>3. CASE StartChat
  BY <1>3 DEF StartChat
<1>4. CASE Crash
  BY <1>4 DEF Crash, rows
<1>5. CASE UNCHANGED vars
  BY <1>5 DEF vars, rows
<1> QED
  BY <1>1, <1>2, <1>3, <1>4, <1>5

LEMMA CheckNext == TypeOK /\ OpInv /\ LockInv /\ CheckInv /\ [Next]_vars => CheckInv'
BY CheckTurn, CheckMemory, CheckEnd, CheckOther, CheckInstant DEF Next, Proceed

-----------------------------------------------------------------------------
(* What is on disk when a batch is consumed.                               *)

LEMMA DurableInit == Init => DurableInv /\ FlaggedMessagesHaveGist
BY DEF Init, DurableInv, FlaggedMessagesHaveGist

LEMMA DurableMemory ==
  ASSUME TypeOK, DurableInv, NEW p \in Procs, Memory(p)
  PROVE  DurableInv'
<1> USE DEF DurableInv, Goto, Finish, rows, locals
<1>0. pc \in [Procs -> PC] /\ batch \in [Procs -> SUBSET Nat]
  BY DEF TypeOK
<1>1. CASE MemSelect(p)
  <2>1. \A q \in Procs : /\ pc'[q] \in {"memStore", "memMark"} => pc'[q] = pc[q]
                         /\ pc'[q] \in {"memStore", "memMark"} => batch'[q] = batch[q]
    BY <1>0, <1>1 DEF MemSelect, MemoryReturns
  <2> QED
    BY <1>1, <2>1 DEF MemSelect
<1>2. CASE MemRead(p)
  BY <1>0, <1>2 DEF MemRead
<1>3. CASE MemExtract(p)
  <2>1. longTerm \subseteq longTerm' /\ UNCHANGED summarized
    BY <1>3 DEF MemExtract
  <2>2. \A q \in Procs : pc'[q] \in {"memStore", "memMark"} =>
          /\ batch'[q] = batch[q]
          /\ pc'[q] = pc[q] \/ batch[q] \subseteq longTerm'
    BY <1>0, <1>3 DEF MemExtract, Raises
  <2> QED
    BY <2>1, <2>2
<1>4. CASE MemStore(p)
  BY <1>0, <1>4 DEF MemStore, UpsertMemory, Raises
<1>5. CASE MemReject(p)
  BY <1>0, <1>5 DEF MemReject, UpsertMemory, MemoryReturns, Raises
<1>6. CASE MemMark(p)
  BY <1>0, <1>6 DEF MemMark
<1> QED
  BY <1>1, <1>2, <1>3, <1>4, <1>5, <1>6 DEF Memory

\* no other step moves a request to a store or changes what it stores
LEMMA DurableOther ==
  ASSUME TypeOK, DurableInv, NEW p \in Procs,
         Turn(p) \/ End(p) \/ Other(p) \/ Arrivals(p)
  PROVE  DurableInv'
<1> USE DEF DurableInv, Goto, Finish, Arrive, rows, locals
<1>0. pc \in [Procs -> PC] /\ batch \in [Procs -> SUBSET Nat]
  BY DEF TypeOK
<1>1. UNCHANGED <<summarized, longTerm>>
  BY DEF Turn, PersistLock, PersistCheck, PersistSave, TurnStart, TurnLock, TurnCheck,
         TurnSave, TurnRaise, FinalizeStart, End, EndStart, EndLock, GistStart, GistRead,
         GistStore, EndMark, InsertGist, Other, ConLock, ConStart, ConRelease, GenRead,
         GenStore, Arrivals, Send, EndUi, EndApi, Consolidate, Generate
<1>2. \A q \in Procs : pc'[q] \in {"memStore", "memMark"} =>
        pc'[q] = pc[q] /\ batch'[q] = batch[q]
  <2>1. CASE Turn(p)
    BY <1>0, <2>1 DEF Turn, PersistLock, PersistCheck, PersistSave, TurnStart, TurnLock,
       TurnCheck, TurnSave, TurnRaise, FinalizeStart
  <2>2. CASE End(p)
    BY <1>0, <2>2 DEF End, EndStart, EndLock, GistStart, GistRead, GistStore, EndMark,
       Raises
  <2>3. CASE Other(p) \/ Arrivals(p)
    BY <1>0, <2>3 DEF Other, ConLock, ConStart, ConRelease, GenRead, GenStore,
       Arrivals, Send, EndUi, EndApi, Consolidate, Generate
  <2> QED
    BY <2>1, <2>2, <2>3
<1> QED
  BY <1>1, <1>2

LEMMA DurableInstant ==
  ASSUME DurableInv, Reactivate \/ Delete \/ StartChat \/ Crash \/ UNCHANGED vars
  PROVE  DurableInv'
BY DEF DurableInv, Reactivate, Delete, StartChat, Crash, vars, rows, locals

LEMMA DurableNext == TypeOK /\ DurableInv /\ [Next]_vars => DurableInv'
BY DurableMemory, DurableOther, DurableInstant DEF Next, Proceed

\* insert_chat_gist flags exactly what the new row covers
LEMMA InsertGistCovers ==
  ASSUME TypeOK, FlaggedMessagesHaveGist, NEW p \in Procs, InsertGist(p)
  PROVE  FlaggedMessagesHaveGist'
<1>1. gists \in Seq(SUBSET Nat) /\ batch[p] \in SUBSET Nat
  BY DEF TypeOK
<1>2. /\ DOMAIN gists' = 1 .. (Len(gists) + 1)
      /\ DOMAIN gists = 1 .. Len(gists)
      /\ Len(gists) \in Nat
      /\ \A i \in 1 .. Len(gists) : gists'[i] = gists[i]
      /\ gists'[Len(gists) + 1] = batch[p]
  BY <1>1 DEF InsertGist
<1>3. ASSUME NEW m \in gisted' \cap users'
      PROVE  \E i \in DOMAIN gists' : m \in gists'[i]
  <2>1. CASE m \in batch[p]
    BY <1>2, <2>1
  <2>2. CASE m \in gisted \cap users
    BY <1>2, <2>2 DEF FlaggedMessagesHaveGist
  <2> QED
    BY <1>3, <2>1, <2>2 DEF InsertGist
<1> QED
  BY <1>3 DEF FlaggedMessagesHaveGist

LEMMA FlaggedNext ==
  ASSUME TypeOK, FlaggedMessagesHaveGist, [Next]_vars
  PROVE  FlaggedMessagesHaveGist'
<1> USE DEF FlaggedMessagesHaveGist
<1>1. CASE \E p \in Procs : PersistSave(p)
  <2>1. nextId \notin gisted
    BY FreshId DEF TypeOK
  <2> QED
    BY <1>1, <2>1 DEF PersistSave
<1>2. CASE \E p \in Procs : GistStore(p)
  BY <1>2, InsertGistCovers DEF GistStore, rows
<1>3. CASE \E p \in Procs : GenStore(p)
  BY <1>3, InsertGistCovers DEF GenStore, rows
<1>4. CASE Delete
  BY <1>4 DEF Delete
<1>5. CASE UNCHANGED <<gisted, gists, users>>
  BY <1>5
<1>6. \/ UNCHANGED <<gisted, gists, users>>
      \/ \E p \in Procs : PersistSave(p) \/ GistStore(p) \/ GenStore(p)
      \/ Delete
  BY DEF Next, Proceed, vars, rows, Turn, PersistLock, PersistCheck, TurnStart, TurnLock,
     TurnCheck, TurnSave, TurnRaise, FinalizeStart, Memory, MemSelect, MemRead, MemExtract,
     MemStore, MemReject, MemMark, UpsertMemory, End, EndStart, EndLock, GistStart,
     GistRead, EndMark, Other, ConLock, ConStart, ConRelease, GenRead, Arrivals, Send,
     EndUi, EndApi, Consolidate, Generate, Reactivate, StartChat, Crash
<1> QED
  BY <1>1, <1>2, <1>3, <1>4, <1>5, <1>6

-----------------------------------------------------------------------------
(* The theorems.                                                           *)

LEMMA Invariance == Spec => []Inv
<1>1. Init => Inv
  BY TypeInit, OpInit, LockInit, CheckInit, DurableInit DEF Inv
<1>2. Inv /\ [Next]_vars => Inv'
  BY TypeNext, OpNext, LockNext, CheckNext, DurableNext DEF Inv
<1> QED
  BY <1>1, <1>2, PTL DEF Spec

(* An ended chat has every message in its episodic memory, whatever turn   *)
(* or other operation was in flight when it ended.                         *)
THEOREM EndedChatsAreFinalized == Spec => []EndedChatIsFinalized
<1>1. Inv => EndedChatIsFinalized
  BY DEF Inv, CheckInv, EndedChatIsFinalized
<1> QED
  BY <1>1, Invariance, PTL

(* A message marked summarized has its facts in long_term_memories.        *)
THEOREM SummarizedAreDurable == Spec => []SummarizedIsDurable
<1>1. Inv => SummarizedIsDurable
  BY DEF Inv, DurableInv, SummarizedIsDurable
<1> QED
  BY <1>1, Invariance, PTL

(* A user message marked gist_processed is covered by a gist row.          *)
THEOREM FlaggedAreCovered == Spec => []FlaggedMessagesHaveGist
<1>1. Init => FlaggedMessagesHaveGist
  BY DurableInit
<1>2. TypeOK /\ FlaggedMessagesHaveGist /\ [Next]_vars => FlaggedMessagesHaveGist'
  BY FlaggedNext
<1> QED
  BY <1>1, <1>2, TypeCorrect, PTL DEF Spec

\* every step that adds a message finds the chat active
LEMMA PostStep ==
  ASSUME Inv, NEW p \in Procs, PersistSave(p) \/ TurnSave(p)
  PROVE  /\ chat = "active"
         /\ msgs' = msgs \cup {nextId} /\ nextId \notin msgs
         /\ UNCHANGED <<chat, gisted>>
<1>1. chat = "active"
  BY DEF Inv, CheckInv, TypeOK, PersistSave, TurnSave
<1>2. nextId \notin msgs
  BY DEF Inv, TypeOK
<1> QED
  BY <1>1, <1>2 DEF PersistSave, TurnSave

\* the steps that change what ChatContract sees
LEMMA VisibleSteps ==
  ASSUME [Next]_vars
  PROVE  \/ UNCHANGED <<chat, msgs, gisted>>
         \/ \E p \in Procs : \/ PersistSave(p) \/ TurnSave(p) \/ GistStore(p)
                             \/ EndMark(p) \/ GenStore(p)
         \/ Reactivate \/ Delete \/ StartChat
BY DEF Next, Proceed, vars, rows, Turn, PersistLock, PersistCheck, TurnStart, TurnLock,
   TurnCheck, TurnRaise, FinalizeStart, Memory, MemSelect, MemRead, MemExtract,
   MemStore, MemReject, MemMark, UpsertMemory, End, EndStart, EndLock, GistStart,
   GistRead, Other, ConLock, ConStart, ConRelease, GenRead, Arrivals, Send,
   EndUi, EndApi, Consolidate, Generate, Crash

(* A message row appears only in an active chat.                           *)
THEOREM MessagesNeedActiveChat == Spec => MessagesOnlyWhileActive
<1>1. Inv /\ [Next]_vars => [~(msgs' \subseteq msgs) => chat = "active"]_vars
  BY VisibleSteps, PostStep
     DEF GistStore, InsertGist, EndMark, GenStore, Reactivate, Delete, StartChat, rows
<1> QED
  BY <1>1, Invariance, PTL DEF Spec, MessagesOnlyWhileActive

\* gists only add messages of the chat to its episodic memory
LEMMA FinalizeStep ==
  ASSUME Inv, NEW p \in Procs, GistStore(p) \/ GenStore(p)
  PROVE  /\ gisted \subseteq gisted' /\ gisted' \subseteq msgs
         /\ UNCHANGED <<chat, msgs>>
BY DEF Inv, TypeOK, GistStore, GenStore, InsertGist, rows

LEMMA ContractStep ==
  ASSUME Inv, [Next]_vars
  PROVE  [Contract!CNext]_(Contract!cvars)
<1> USE DEF Contract!CNext, Contract!cvars
<1>1. ASSUME NEW p \in Procs, PersistSave(p) \/ TurnSave(p)
      PROVE  Contract!Post
  BY <1>1, PostStep DEF Contract!Post
<1>2. ASSUME NEW p \in Procs, GistStore(p) \/ GenStore(p)
      PROVE  Contract!Finalize
  BY <1>2, FinalizeStep DEF Contract!Finalize
<1>3. ASSUME NEW p \in Procs, EndMark(p)
      PROVE  Contract!EndChat \/ UNCHANGED <<chat, msgs, gisted>>
  BY <1>3 DEF EndMark, Inv, CheckInv, TypeOK, Contract!EndChat
<1>4. CASE Reactivate
  BY <1>4 DEF Reactivate, Contract!Reopen
<1>5. CASE Delete
  BY <1>5 DEF Delete, Contract!Remove
<1>6. CASE StartChat
  BY <1>6 DEF StartChat, Contract!Create
<1> QED
  BY <1>1, <1>2, <1>3, <1>4, <1>5, <1>6, VisibleSteps

(* The application implements ChatContract, with the messages flagged      *)
(* gist_processed as the finalized ones.                                   *)
THEOREM ImplementsContract == Spec => KeepsContract
<1>1. Init => Contract!CInit
  BY DEF Init, Contract!CInit
<1>2. Inv /\ [Next]_vars => [Contract!CNext]_(Contract!cvars)
  BY ContractStep
<1> QED
  BY <1>1, <1>2, Invariance, PTL DEF Spec, KeepsContract, Contract!CSpec

(* The contract is what it takes: whatever keeps it adds messages to an    *)
(* active chat only.                                                       *)
THEOREM ContractAdmitsActiveOnly == KeepsContract => MessagesOnlyWhileActive
<1>1. [Contract!CNext]_(Contract!cvars) => [~(msgs' \subseteq msgs) => chat = "active"]_vars
  BY DEF Contract!CNext, Contract!cvars, Contract!Post, Contract!Finalize, Contract!EndChat,
     Contract!Reopen, Contract!Remove, Contract!Create
<1> QED
  BY <1>1, PTL DEF KeepsContract, Contract!CSpec, MessagesOnlyWhileActive

(* Whatever keeps the contract has every message of an ended chat in its   *)
(* episodic memory; what has no chat has no messages, so that a chat that  *)
(* is created again starts with none.                                      *)
THEOREM ContractFinalizesEndedChats == KeepsContract => []EndedChatIsFinalized
<1> DEFINE Promised == EndedChatIsFinalized /\ (chat = "absent" => msgs = {})
<1>1. Contract!CInit => Promised
  BY DEF Contract!CInit, EndedChatIsFinalized
<1>2. Promised /\ [Contract!CNext]_(Contract!cvars) => Promised'
  BY DEF Contract!CNext, Contract!cvars, Contract!Post, Contract!Finalize, Contract!EndChat,
     Contract!Reopen, Contract!Remove, Contract!Create, EndedChatIsFinalized
<1>3. Promised => EndedChatIsFinalized
  OBVIOUS
<1> QED
  BY <1>1, <1>2, <1>3, PTL DEF KeepsContract, Contract!CSpec

-----------------------------------------------------------------------------
(* What the operations that are not enabled would break.                   *)

(* A request in flight is one of the enabled operations.                   *)
OpsEnabled == \A p \in Procs : op[p] # "none" => op[p] \in Enabled

LEMMA OpsEnabledNext == TypeOK /\ OpsEnabled /\ [Next]_vars => OpsEnabled'
<1> SUFFICES ASSUME TypeOK, OpsEnabled, [Next]_vars
             PROVE  OpsEnabled'
  OBVIOUS
<1> USE DEF OpsEnabled, Goto, Finish, Arrive, Raises, MemoryReturns, locals
<1>0. op \in [Procs -> Ops \cup {"none"}]
  BY DEF TypeOK
<1>1. ASSUME NEW p \in Procs, Arrivals(p)
      PROVE  OpsEnabled'
  BY <1>0, <1>1 DEF Arrivals, Send, EndUi, EndApi, Consolidate, Generate
<1>2. ASSUME NEW p \in Procs, Turn(p) \/ Other(p)
      PROVE  OpsEnabled'
  BY <1>0, <1>2 DEF Turn, PersistLock, PersistCheck, PersistSave, TurnStart, TurnLock,
     TurnCheck, TurnSave, TurnRaise, FinalizeStart, Other, ConLock, ConStart, ConRelease,
     GenRead, GenStore
<1>3. ASSUME NEW p \in Procs, Memory(p) \/ End(p)
      PROVE  OpsEnabled'
  BY <1>0, <1>3 DEF Memory, MemSelect, MemRead, MemExtract, MemStore, MemReject, MemMark,
     End, EndStart, EndLock, GistStart, GistRead, GistStore, EndMark
<1>4. CASE Reactivate \/ Delete \/ StartChat \/ Crash \/ UNCHANGED vars
  BY <1>4 DEF Reactivate, Delete, StartChat, Crash, vars
<1> QED
  BY <1>1, <1>2, <1>3, <1>4 DEF Next, Proceed

LEMMA Scope == Spec => [](Inv /\ OpsEnabled)
<1>1. Init => OpsEnabled
  BY DEF Init, OpsEnabled
<1>2. Inv => TypeOK
  BY DEF Inv
<1> QED
  BY <1>1, <1>2, OpsEnabledNext, Invariance, PTL DEF Spec

(* Requests that run on the event loop while they are in the guard exclude *)
(* each other, so only a Consolidate, which keeps the guard over an await, *)
(* lets a second operation in.                                             *)
LEMMA LoopExclusion ==
  ASSUME Inv, OpsEnabled, "consolidate" \notin Enabled,
         NEW p \in Procs, NEW q \in Procs, Guarded(p), Guarded(q)
  PROVE  p = q
<1> SUFFICES ASSUME p # q
             PROVE  FALSE
  OBVIOUS
<1>1. /\ pc[p] \notin TurnPC /\ op[p] # "endApi"
      /\ pc[q] \notin TurnPC /\ op[q] # "endApi"
  BY Exclusion DEF Inv
<1>2. /\ op[p] # "consolidate" /\ pc[p] \notin {"conQueue", "conDone"}
      /\ op[q] # "consolidate" /\ pc[q] \notin {"conQueue", "conDone"}
  BY DEF Inv, OpInv, OpsEnabled
<1>3. OnLoop(p) /\ OnLoop(q)
  BY <1>1, <1>2 DEF Guarded, OnLoop, LoopPC, BodyPC, TurnPC, EndOps
<1> QED
  BY <1>3 DEF Inv, LockInv

(* Without Consolidate, only one operation of the chat is in the guard.    *)
THEOREM OneAtATimeWithoutConsolidate ==
  ASSUME "consolidate" \notin Enabled
  PROVE  Spec => []OneOperationAtATime
<1>1. Inv /\ OpsEnabled => OneOperationAtATime
  BY LoopExclusion DEF OneOperationAtATime
<1> QED
  BY <1>1, Scope, PTL

-----------------------------------------------------------------------------
(* Who waits for whom.                                                     *)

(* A request that runs on a thread waits for the guard or for nothing.     *)
LEMMA RunningAwaitsGuard ==
  ASSUME NEW p \in Procs, OnLoop(p) \/ OnWorker(p)
  PROVE  pc[p] # "idle" /\ (Waits(p) => AwaitsGuard(p))
BY DEF OnLoop, OnWorker, Waits, AwaitsWorker, AwaitsLoop, LoopPC, TurnPC, BodyPC, MemoryPC,
   GistPC

(* A request in a with-block waits for a worker or for the event loop, and *)
(* only if it is a Consolidate.                                            *)
LEMMA HolderAwaits ==
  ASSUME NEW p \in Procs, Guarded(p)
  PROVE  /\ pc[p] # "idle"
         /\ Waits(p) => \/ pc[p] = "conQueue" /\ ~FreeWorker
                        \/ pc[p] = "conDone" /\ ~LoopFree
BY DEF Guarded, Waits, AwaitsGuard, AwaitsWorker, AwaitsLoop, MemoryPC, GistPC

(* A coroutine asks for the guard on behalf of the event loop.             *)
LEMMA LoopAsksAsLoop ==
  ASSUME OpInv, NEW p \in Procs, OnLoop(p), AwaitsGuard(p)
  PROVE  owner # Loop
BY DEF OpInv, OnLoop, AwaitsGuard, GuardThread, LoopPC, TurnPC, BodyPC, MemoryPC, GistPC

(* With a thread of the executor for every request, a request that has     *)
(* none finds one.                                                         *)
LEMMA EnoughWorkers ==
  ASSUME Cardinality(Procs) <= PoolSize, NEW p \in Procs, ~OnWorker(p)
  PROVE  FreeWorker
<1> DEFINE busy == {q \in Procs : OnWorker(q)}
<1>1. IsFiniteSet(Procs) /\ busy \subseteq Procs \ {p}
  BY ProcsAssumption
<1>2. IsFiniteSet(Procs \ {p}) /\ Cardinality(Procs \ {p}) = Cardinality(Procs) - 1
  BY <1>1, FS_RemoveElement
<1>3. IsFiniteSet(busy) /\ Cardinality(busy) <= Cardinality(Procs \ {p})
  BY <1>1, <1>2, FS_Subset
<1>4. Cardinality(busy) \in Nat /\ Cardinality(Procs) \in Nat /\ PoolSize \in Nat
  BY <1>1, <1>3, FS_CardinalityType, BoundsAssumption
<1> QED
  BY <1>2, <1>3, <1>4 DEF FreeWorker

LEMMA IdleWorkers ==
  ASSUME \A p \in Procs : ~OnWorker(p)
  PROVE  FreeWorker
<1>1. {p \in Procs : OnWorker(p)} = {}
  OBVIOUS
<1> QED
  BY <1>1, FS_EmptySet, BoundsAssumption DEF FreeWorker

(* The requests of a chat never all wait for one another, if there is a    *)
(* thread of the executor for each of them, or if none is a Consolidate:   *)
(* then one thread is enough. The owner of the guard is at work, or a      *)
(* Consolidate that waits for a thread, of which there is one, or for the  *)
(* event loop, on which the guard can be entered again; without an owner,  *)
(* whoever has a thread goes on, and without one all threads are free.     *)
THEOREM RequestsDoNotDeadlock ==
  ASSUME "consolidate" \notin Enabled \/ Cardinality(Procs) <= PoolSize
  PROVE  Spec => []NoDeadlock
<1>1. ASSUME Inv, OpsEnabled
      PROVE  NoDeadlock
  <2> SUFFICES ASSUME NEW p \in Procs, pc[p] # "idle",
                      \A q \in Procs : pc[q] # "idle" => Waits(q)
               PROVE  FALSE
    BY DEF NoDeadlock
  <2>1. OpInv /\ LockInv
    BY <1>1 DEF Inv
  <2>2. \A q \in Procs : OnLoop(q) \/ OnWorker(q) => AwaitsGuard(q)
    BY RunningAwaitsGuard
  <2>3. \A q \in Procs : AwaitsWorker(q) => ~OnWorker(q)
    BY DEF AwaitsWorker, OnWorker, TurnPC, BodyPC, MemoryPC, GistPC
  <2>4. CASE holders = {}
    <3>1. \A q \in Procs : ~AwaitsGuard(q)
      BY <2>1, <2>4 DEF LockInv, AwaitsGuard
    <3>2. LoopFree
      BY <2>2, <3>1 DEF LoopFree
    <3>3. FreeWorker
      BY <2>2, <3>1, IdleWorkers
    <3> QED
      BY <3>1, <3>2, <3>3 DEF Waits, AwaitsWorker, AwaitsLoop
  <2>5. ASSUME NEW h \in holders
        PROVE  FALSE
    <3>1. h \in Procs /\ Guarded(h) /\ owner = GuardThread(h)
      BY <1>1, <2>1, <2>5 DEF LockInv, Inv, TypeOK
    <3>2. \/ pc[h] = "conQueue" /\ ~FreeWorker
          \/ pc[h] = "conDone" /\ ~LoopFree
      BY <3>1, HolderAwaits
    <3>3. op[h] = "consolidate" /\ owner = Loop
      BY <2>1, <3>1, <3>2 DEF OpInv, GuardThread, TurnPC
    <3>4. Cardinality(Procs) <= PoolSize
      BY <1>1, <3>1, <3>3 DEF OpsEnabled
    <3>5. LoopFree
      BY <2>1, <2>2, <3>3, LoopAsksAsLoop DEF LoopFree
    <3>6. AwaitsWorker(h)
      BY <3>2, <3>5 DEF AwaitsWorker
    <3> QED
      BY <2>3, <3>1, <3>4, <3>6, EnoughWorkers DEF AwaitsWorker
  <2> QED
    BY <2>4, <2>5
<1> QED
  BY <1>1, Scope, PTL

-----------------------------------------------------------------------------
(* Answers and questions.                                                  *)

(* A turn that calls the model has its question in the chat, unless the    *)
(* chat was deleted; ids of answers were issued.                           *)
AnswerInv ==
  /\ AnswersHaveQuestions
  /\ \A r \in replies : r[2] < nextId
  /\ \A p \in Procs : pc[p] = "turnModel" /\ chat # "absent" => mine[p] \in msgs

\* a message that is added gets an id no answer has
LEMMA AnswerPost ==
  ASSUME TypeOK, AnswerInv, NEW p \in Procs, PersistSave(p) \/ TurnSave(p)
  PROVE  AnswerInv'
<1> USE DEF AnswerInv, AnswersHaveQuestions, Goto, Finish, locals
<1>0. /\ pc \in [Procs -> PC] /\ mine \in [Procs -> Nat]
      /\ nextId \in Nat /\ replies \subseteq Nat \X Nat
      /\ nextId' = nextId + 1 /\ msgs' = msgs \cup {nextId}
  BY DEF TypeOK, PersistSave, TurnSave
<1>1. \A r \in replies : r[2] \in Nat /\ r[2] < nextId /\ r[2] # nextId
  BY <1>0
<1>2. CASE PersistSave(p)
  <2>1. \A q \in Procs : pc'[q] = "turnModel" => pc[q] = "turnModel" /\ mine'[q] = mine[q]
    BY <1>0, <1>2 DEF PersistSave
  <2> QED
    BY <1>0, <1>1, <1>2, <2>1 DEF PersistSave
<1>3. CASE TurnSave(p)
  <2>1. \A q \in Procs : pc'[q] = "turnModel" => pc[q] = "turnModel" /\ mine'[q] = mine[q]
    BY <1>0, <1>3 DEF TurnSave
  <2>2. mine[p] \in msgs /\ replies' = replies \cup {<<mine[p], nextId>>}
    BY <1>3 DEF TurnSave
  <2>3. \A r \in replies' : r \in replies \/ (r[1] = mine[p] /\ r[2] = nextId)
    BY <2>2
  <2>4. AnswersHaveQuestions'
    BY <1>0, <1>1, <2>2, <2>3
  <2>5. \A r \in replies' : r[2] < nextId'
    BY <1>0, <1>1, <2>3
  <2> QED
    BY <1>0, <1>3, <2>1, <2>4, <2>5 DEF TurnSave
<1> QED
  BY <1>2, <1>3

LEMMA AnswerNext ==
  ASSUME TypeOK, AnswerInv, "start" \notin Enabled, [Next]_vars
  PROVE  AnswerInv'
<1> USE DEF AnswerInv, AnswersHaveQuestions
<1>0. pc \in [Procs -> PC] /\ mine \in [Procs -> Nat]
  BY DEF TypeOK
<1>1. CASE \E p \in Procs : PersistSave(p) \/ TurnSave(p)
  BY <1>1, AnswerPost
<1>2. CASE Delete
  BY <1>2 DEF Delete
<1>3. CASE ~Delete /\ ~\E p \in Procs : PersistSave(p) \/ TurnSave(p)
  <2>1. UNCHANGED <<msgs, nextId, replies>> /\ (chat = "absent" => chat' = "absent")
    BY <1>3 DEF Next, Proceed, vars, rows, Turn, PersistLock, PersistCheck, TurnStart,
       TurnLock, TurnCheck, TurnRaise, FinalizeStart, Memory, MemSelect, MemRead,
       MemExtract, MemStore, MemReject, MemMark, UpsertMemory, End, EndStart, EndLock,
       GistStart, GistRead, GistStore, InsertGist, EndMark, Other, ConLock, ConStart,
       ConRelease, GenRead, GenStore, Arrivals, Send, EndUi, EndApi, Consolidate,
       Generate, Reactivate, StartChat, Crash
  <2>2. \A q \in Procs : pc'[q] = "turnModel" /\ chat' # "absent" =>
          \/ pc[q] = "turnModel" /\ mine'[q] = mine[q]
          \/ mine'[q] \in msgs
    <3> SUFFICES ASSUME NEW q \in Procs, pc'[q] = "turnModel", chat' # "absent"
                 PROVE  \/ pc[q] = "turnModel" /\ mine'[q] = mine[q]
                        \/ mine'[q] \in msgs
      OBVIOUS
    <3> USE DEF Goto, Finish, Arrive, Raises, MemoryReturns, locals
    <3>1. CASE \E p \in Procs : Turn(p)
      BY <1>0, <1>3, <3>1 DEF Turn, PersistLock, PersistCheck, TurnStart, TurnLock,
         TurnCheck, TurnRaise, FinalizeStart
    <3>2. CASE \E p \in Procs : Memory(p) \/ End(p)
      BY <1>0, <3>2 DEF Memory, MemSelect, MemRead, MemExtract, MemStore, MemReject,
         MemMark, End, EndStart, EndLock, GistStart, GistRead, GistStore, EndMark
    <3>3. CASE \E p \in Procs : Other(p) \/ Arrivals(p)
      BY <1>0, <3>3 DEF Other, ConLock, ConStart, ConRelease, GenRead, GenStore,
         Arrivals, Send, EndUi, EndApi, Consolidate, Generate
    <3>4. CASE Reactivate \/ StartChat \/ Crash \/ UNCHANGED vars
      BY <1>0, <3>4 DEF Reactivate, StartChat, Crash, vars
    <3> QED
      BY <1>3, <3>1, <3>2, <3>3, <3>4 DEF Next, Proceed
  <2> QED
    BY <2>1, <2>2
<1> QED
  BY <1>1, <1>2, <1>3

(* As long as the id of a deleted chat is not used again, an answer never  *)
(* stands in the chat without the message it answers.                      *)
THEOREM AnswersKeepQuestions ==
  ASSUME "start" \notin Enabled
  PROVE  Spec => []AnswersHaveQuestions
<1>1. Init => AnswerInv
  BY DEF Init, AnswerInv, AnswersHaveQuestions
<1>2. TypeOK /\ AnswerInv /\ [Next]_vars => AnswerInv'
  BY AnswerNext
<1>3. AnswerInv => AnswersHaveQuestions
  BY DEF AnswerInv
<1> QED
  BY <1>1, <1>2, <1>3, TypeCorrect, PTL DEF Spec

-----------------------------------------------------------------------------
(* Gists that cover a message once.                                        *)

(* What a gist covers is flagged as long as it is in the chat, and a batch *)
(* that is being summarized shares nothing with an earlier gist.           *)
GistInv ==
  /\ \A i \in DOMAIN gists : /\ gists[i] \subseteq 1 .. (nextId - 1)
                             /\ gists[i] \cap msgs \subseteq gisted
  /\ GistedOnce
  /\ \A p \in Procs : pc[p] = "gistStore" =>
       /\ batch[p] \subseteq 1 .. (nextId - 1)
       /\ \A i \in DOMAIN gists : gists[i] \cap batch[p] = {}

\* finalize_chat never runs twice at the same time, whoever called it
LEMMA OneFinalizer ==
  ASSUME Inv, NEW p \in Procs, NEW q \in Procs,
         pc[p] \in GistPC, pc[q] \in GistPC
  PROVE  p = q
<1> SUFFICES ASSUME p # q
             PROVE  FALSE
  OBVIOUS
<1>1. Guarded(p) /\ Guarded(q) /\ op[p] \in EndOps /\ op[q] \in EndOps
  BY DEF Inv, OpInv, Guarded
<1>2. op[p] = "endUi" /\ op[q] = "endUi"
  BY <1>1, Exclusion DEF Inv, EndOps
<1>3. OnLoop(p) /\ OnLoop(q)
  BY <1>2 DEF OnLoop, BodyPC
<1> QED
  BY <1>3 DEF Inv, LockInv

LEMMA GistInsert ==
  ASSUME Inv, GistInv, NEW p \in Procs, pc[p] = "gistStore", InsertGist(p),
         \A q \in Procs : pc'[q] = "gistStore" => q # p /\ pc[q] = "gistStore"
  PROVE  GistInv'
<1>1. gists \in Seq(SUBSET Nat) /\ batch[p] \in SUBSET Nat
  BY DEF Inv, TypeOK
<1>2. /\ DOMAIN gists' = 1 .. (Len(gists) + 1)
      /\ DOMAIN gists = 1 .. Len(gists)
      /\ Len(gists) \in Nat
      /\ \A i \in 1 .. Len(gists) : gists'[i] = gists[i]
      /\ gists'[Len(gists) + 1] = batch[p]
  BY <1>1 DEF InsertGist
<1>3. \A i \in DOMAIN gists' : \/ i \in DOMAIN gists /\ gists'[i] = gists[i]
                               \/ i = Len(gists) + 1 /\ gists'[i] = batch[p]
  BY <1>2
<1>4. UNCHANGED <<msgs, nextId>> /\ gisted' = gisted \cup (batch[p] \cap msgs)
  BY DEF InsertGist
<1>5. \A q \in Procs : pc'[q] # "gistStore"
  BY OneFinalizer DEF GistPC
<1>6. GistedOnce'
  <2> SUFFICES ASSUME NEW i \in DOMAIN gists', NEW j \in DOMAIN gists', i # j
               PROVE  gists'[i] \cap gists'[j] = {}
    BY DEF GistedOnce
  <2>1. CASE i \in DOMAIN gists /\ j \in DOMAIN gists
    BY <1>2, <2>1 DEF GistInv, GistedOnce
  <2>2. CASE i = Len(gists) + 1
    BY <1>2, <1>3, <2>2 DEF GistInv
  <2>3. CASE j = Len(gists) + 1
    BY <1>2, <1>3, <2>3 DEF GistInv
  <2> QED
    BY <1>3, <2>1, <2>2, <2>3
<1>7. \A i \in DOMAIN gists' : /\ gists'[i] \subseteq 1 .. (nextId' - 1)
                               /\ gists'[i] \cap msgs' \subseteq gisted'
  BY <1>3, <1>4 DEF GistInv
<1> QED
  BY <1>5, <1>6, <1>7 DEF GistInv

\* the steps that change what the invariant is about
LEMMA GistSteps ==
  ASSUME TypeOK, [Next]_vars,
         ~ \E p \in Procs : \/ PersistSave(p) \/ TurnSave(p) \/ GistRead(p)
                            \/ GistStore(p) \/ GenStore(p),
         ~Delete
  PROVE  /\ UNCHANGED <<msgs, nextId, gisted, gists>>
         /\ \A q \in Procs : pc'[q] = "gistStore" =>
              pc[q] = "gistStore" /\ batch'[q] = batch[q]
<1>0. pc \in [Procs -> PC] /\ batch \in [Procs -> SUBSET Nat]
  BY DEF TypeOK
<1>1. UNCHANGED <<msgs, nextId, gisted, gists>>
  BY DEF Next, Proceed, vars, rows, Turn, PersistLock, PersistCheck, TurnStart,
     TurnLock, TurnCheck, TurnRaise, FinalizeStart, Memory, MemSelect, MemRead,
     MemExtract, MemStore, MemReject, MemMark, UpsertMemory, End, EndStart, EndLock,
     GistStart, EndMark, Other, ConLock, ConStart,
     ConRelease, GenRead, Arrivals, Send, EndUi, EndApi, Consolidate,
     Generate, Reactivate, StartChat, Crash
<1>2. ASSUME NEW q \in Procs, pc'[q] = "gistStore"
      PROVE  pc[q] = "gistStore" /\ batch'[q] = batch[q]
  <2> USE <1>0, <1>2 DEF Goto, Finish, Arrive, Raises, MemoryReturns, locals
  <2>1. CASE \E p \in Procs : Turn(p)
    BY <2>1 DEF Turn, PersistLock, PersistCheck, TurnStart, TurnLock,
       TurnCheck, TurnRaise, FinalizeStart
  <2>2. CASE \E p \in Procs : Memory(p)
    BY <2>2 DEF Memory, MemSelect, MemRead, MemExtract, MemStore, MemReject, MemMark
  <2>3. CASE \E p \in Procs : End(p)
    BY <2>3 DEF End, EndStart, EndLock, GistStart, EndMark
  <2>4. CASE \E p \in Procs : Other(p) \/ Arrivals(p)
    BY <2>4 DEF Other, ConLock, ConStart, ConRelease, GenRead,
       Arrivals, Send, EndUi, EndApi, Consolidate, Generate
  <2>5. CASE Reactivate \/ StartChat \/ Crash \/ UNCHANGED vars
    BY <2>5 DEF Reactivate, StartChat, Crash, vars
  <2> QED
    BY <2>1, <2>2, <2>3, <2>4, <2>5 DEF Next, Proceed
<1> QED
  BY <1>1, <1>2

LEMMA GistNext ==
  ASSUME Inv, OpsEnabled, GistInv, "generate" \notin Enabled, [Next]_vars
  PROVE  GistInv'
<1>0. /\ pc \in [Procs -> PC] /\ batch \in [Procs -> SUBSET Nat] /\ nextId \in Nat
      /\ msgs \subseteq 1 .. (nextId - 1) /\ gists \in Seq(SUBSET Nat)
  BY DEF Inv, TypeOK
<1>1. CASE \E p \in Procs : PersistSave(p) \/ TurnSave(p)
  <2>1. PICK p \in Procs : PersistSave(p) \/ TurnSave(p)
    BY <1>1
  <2>2. /\ nextId' = nextId + 1 /\ msgs' = msgs \cup {nextId}
        /\ UNCHANGED <<gisted, gists>>
    BY <2>1 DEF PersistSave, TurnSave
  <2>3. \A q \in Procs : pc'[q] = "gistStore" => pc[q] = "gistStore" /\ batch'[q] = batch[q]
    BY <1>0, <2>1 DEF PersistSave, TurnSave, Goto, Finish, locals
  <2>4. 1 .. (nextId - 1) \subseteq 1 .. (nextId' - 1) /\ nextId \notin 1 .. (nextId - 1)
    BY <1>0, <2>2
  <2>5. GistedOnce'
    BY <2>2 DEF GistInv, GistedOnce
  <2> QED
    BY <2>2, <2>3, <2>4, <2>5 DEF GistInv
<1>2. CASE \E p \in Procs : GistRead(p)
  <2>1. PICK p \in Procs : GistRead(p)
    BY <1>2
  <2>2. UNCHANGED <<msgs, nextId, gisted, gists>>
    BY <2>1 DEF GistRead, rows
  <2>3. ASSUME NEW q \in Procs, pc'[q] = "gistStore"
        PROVE  \/ pc[q] = "gistStore" /\ batch'[q] = batch[q]
               \/ batch'[q] \subseteq msgs \ gisted
    <3>1. \A T \in Oldest(msgs \ gisted, GistBatch) : T \subseteq msgs \ gisted
      BY DEF Oldest
    <3> QED
      BY <1>0, <2>1, <2>3, <3>1 DEF GistRead, Goto
  <2> QED
    BY <1>0, <2>2, <2>3 DEF GistInv, GistedOnce
<1>3. CASE \E p \in Procs : GistStore(p)
  <2>1. PICK p \in Procs : GistStore(p)
    BY <1>3
  <2>2. /\ pc[p] = "gistStore"
        /\ \A q \in Procs : pc'[q] = "gistStore" => q # p /\ pc[q] = "gistStore"
    BY <1>0, <2>1 DEF GistStore, Goto, Raises, Finish
  <2>3. CASE InsertGist(p)
    BY <2>2, <2>3, GistInsert
  <2>4. CASE ~InsertGist(p)
    <3>1. UNCHANGED <<msgs, nextId, gists>> /\ gisted \subseteq gisted'
      BY <2>1, <2>4 DEF GistStore, rows
    <3>2. \A q \in Procs : pc'[q] # "gistStore"
      BY <2>2, OneFinalizer DEF GistPC
    <3> QED
      BY <3>1, <3>2 DEF GistInv, GistedOnce
  <2> QED
    BY <2>3, <2>4
<1>4. CASE \E p \in Procs : GenStore(p)
  BY <1>4 DEF GenStore, Inv, OpInv, OpsEnabled
<1>5. CASE Delete
  <2>1. \A q \in Procs : pc'[q] = pc[q] /\ batch'[q] = batch[q]
    BY <1>5 DEF Delete, locals
  <2> QED
    BY <1>5, <2>1 DEF Delete, GistInv, GistedOnce
<1>6. CASE /\ ~Delete
           /\ ~ \E p \in Procs : \/ PersistSave(p) \/ TurnSave(p) \/ GistRead(p)
                                 \/ GistStore(p) \/ GenStore(p)
  BY <1>6, GistSteps DEF Inv, GistInv, GistedOnce
<1> QED
  BY <1>1, <1>2, <1>3, <1>4, <1>5, <1>6

(* Chat Ends from any side, turns, consolidations, deletions and restarts  *)
(* never cover a message by two gists: only the gist generation that the   *)
(* start of another chat runs without the guard can.                       *)
THEOREM GistsCoverOnce ==
  ASSUME "generate" \notin Enabled
  PROVE  Spec => []GistedOnce
<1>1. Init => GistInv
  BY DEF Init, GistInv, GistedOnce
<1>2. Inv /\ OpsEnabled /\ GistInv /\ [Next]_vars => GistInv'
  BY GistNext
<1>3. GistInv => GistedOnce
  BY DEF GistInv
<1> QED
  BY <1>1, <1>2, <1>3, Scope, PTL DEF Spec

-----------------------------------------------------------------------------
(* Memory updates of the browser.                                          *)

(* A state read for an update still contains everything stored when it is  *)
(* written back, and a batch is stored before it is marked.                *)
MemoryInv ==
  /\ summarized \subseteq memory
  /\ \A p \in Procs :
       /\ pc[p] \in {"memExtract", "memStore", "memReject"} => memory \subseteq seen[p]
       /\ pc[p] = "memStore" => batch[p] \subseteq seen[p]
       /\ pc[p] = "memMark" => batch[p] \subseteq memory

\* updates that start on the event loop do not interleave
LEMMA OneUpdater ==
  ASSUME Inv, OpsEnabled, Enabled \cap {"endApi", "consolidate"} = {},
         NEW p \in Procs, NEW q \in Procs, pc[p] \in MemoryPC, pc[q] \in MemoryPC
  PROVE  p = q
<1>1. op[p] \in {"send", "endUi"} /\ op[q] \in {"send", "endUi"}
  BY DEF Inv, OpInv, OpsEnabled, EndOps
<1>2. OnLoop(p) /\ OnLoop(q)
  BY <1>1 DEF OnLoop, BodyPC
<1> QED
  BY <1>2 DEF Inv, LockInv

LEMMA MemoryUpdate ==
  ASSUME Inv, OpsEnabled, MemoryInv, Enabled \cap {"endApi", "consolidate"} = {},
         NEW p \in Procs, Memory(p)
  PROVE  MemoryInv'
<1>0. /\ pc \in [Procs -> PC] /\ batch \in [Procs -> SUBSET Nat]
      /\ seen \in [Procs -> SUBSET Nat]
  BY DEF Inv, TypeOK
<1>1. pc[p] \in MemoryPC
  BY DEF Memory, MemSelect, MemRead, MemExtract, MemStore, MemReject, MemMark, MemoryPC
<1>2. \A q \in Procs \ {p} : pc[q] \notin MemoryPC /\ pc'[q] = pc[q]
  BY <1>0, <1>1, OneUpdater
     DEF Memory, MemSelect, MemRead, MemExtract, MemStore, MemReject, MemMark,
         MemoryReturns, Raises, Goto, Finish
<1>3. \A q \in Procs \ {p} :
        pc'[q] \notin {"memExtract", "memStore", "memReject", "memMark"}
  BY <1>2 DEF MemoryPC
<1>4. SUFFICES /\ summarized' \subseteq memory'
               /\ pc'[p] \in {"memExtract", "memStore", "memReject"} => memory' \subseteq seen'[p]
               /\ pc'[p] = "memStore" => batch'[p] \subseteq seen'[p]
               /\ pc'[p] = "memMark" => batch'[p] \subseteq memory'
  BY <1>3 DEF MemoryInv
<1> USE <1>0 DEF MemoryInv, Goto, Finish, rows, locals
<1>5. CASE MemSelect(p)
  BY <1>5 DEF MemSelect, MemoryReturns
<1>6. CASE MemRead(p)
  BY <1>6 DEF MemRead
<1>7. CASE MemExtract(p)
  BY <1>7 DEF MemExtract, Raises
<1>8. CASE MemStore(p)
  BY <1>8 DEF MemStore, UpsertMemory, Raises
<1>9. CASE MemReject(p)
  BY <1>9 DEF MemReject, UpsertMemory, MemoryReturns, Raises
<1>10. CASE MemMark(p)
  BY <1>10 DEF MemMark
<1> QED
  BY <1>5, <1>6, <1>7, <1>8, <1>9, <1>10 DEF Memory

\* no other step touches the state or a request that is updating it
LEMMA MemoryOther ==
  ASSUME Inv, MemoryInv, NEW p \in Procs,
         Turn(p) \/ End(p) \/ Other(p) \/ Arrivals(p)
  PROVE  MemoryInv'
<1>0. /\ pc \in [Procs -> PC] /\ batch \in [Procs -> SUBSET Nat]
      /\ seen \in [Procs -> SUBSET Nat]
  BY DEF Inv, TypeOK
<1>1. UNCHANGED <<summarized, memory>>
  BY DEF rows, Turn, PersistLock, PersistCheck, PersistSave, TurnStart, TurnLock,
         TurnCheck, TurnSave, TurnRaise, FinalizeStart, End, EndStart, EndLock, GistStart,
         GistRead, GistStore, EndMark, InsertGist, Other, ConLock, ConStart, ConRelease,
         GenRead, GenStore, Arrivals, Send, EndUi, EndApi, Consolidate, Generate
<1>2. \A q \in Procs : pc'[q] \in {"memExtract", "memStore", "memReject", "memMark"} =>
        pc'[q] = pc[q] /\ batch'[q] = batch[q] /\ seen'[q] = seen[q]
  <2> USE DEF Goto, Finish, Arrive, locals
  <2>1. CASE Turn(p)
    BY <1>0, <2>1 DEF Turn, PersistLock, PersistCheck, PersistSave, TurnStart, TurnLock,
       TurnCheck, TurnSave, TurnRaise, FinalizeStart
  <2>2. CASE End(p)
    BY <1>0, <2>2 DEF End, EndStart, EndLock, GistStart, GistRead, GistStore, EndMark,
       Raises
  <2>3. CASE Other(p) \/ Arrivals(p)
    BY <1>0, <2>3 DEF Other, ConLock, ConStart, ConRelease, GenRead, GenStore,
       Arrivals, Send, EndUi, EndApi, Consolidate, Generate
  <2> QED
    BY <2>1, <2>2, <2>3
<1> QED
  BY <1>1, <1>2 DEF MemoryInv

LEMMA MemoryInstant ==
  ASSUME Inv, OpsEnabled, MemoryInv, Enabled \cap {"endApi", "consolidate"} = {},
         Reactivate \/ Delete \/ StartChat \/ Crash \/ UNCHANGED vars
  PROVE  MemoryInv'
<1>1. CASE Delete
  <2>1. \A p \in Procs : pc[p] \notin MemoryPC
    BY <1>1 DEF Delete, LoopFree, OnLoop, BodyPC, Inv, OpInv, OpsEnabled, EndOps
  <2> QED
    BY <1>1, <2>1 DEF Delete, MemoryInv, MemoryPC
<1>2. CASE Crash
  BY <1>2 DEF Crash, rows, MemoryInv
<1>3. CASE Reactivate \/ StartChat \/ UNCHANGED vars
  BY <1>3 DEF Reactivate, StartChat, vars, rows, locals, MemoryInv
<1> QED
  BY <1>1, <1>2, <1>3

(* While every memory update starts in the browser, so that it runs on the *)
(* event loop without an await, chat_memory_state holds the facts of every *)
(* message marked summarized, across deletion, re-creation and restarts.   *)
THEOREM BrowserLosesNoMemory ==
  ASSUME Enabled \cap {"endApi", "consolidate"} = {}
  PROVE  Spec => []NoLostMemory
<1>1. Init => MemoryInv
  BY DEF Init, MemoryInv
<1>2. Inv /\ OpsEnabled /\ MemoryInv /\ [Next]_vars => MemoryInv'
  BY MemoryUpdate, MemoryOther, MemoryInstant DEF Next, Proceed
<1>3. MemoryInv => NoLostMemory
  BY DEF MemoryInv, NoLostMemory
<1> QED
  BY <1>1, <1>2, <1>3, Scope, PTL DEF Spec
=============================================================================
