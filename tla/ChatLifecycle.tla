---------------------------- MODULE ChatLifecycle ----------------------------
(***************************************************************************)
(* The life of ONE chat inside one application process: the message turn   *)
(* (app.py on_message, ChatService), Chat End from the browser callback    *)
(* and from the REST route, Consolidate, gist generation triggered by the  *)
(* start of another chat, reactivation, deletion, re-creation and process  *)
(* restarts.  Locks and rows are keyed by chat, so one chat is enough; the *)
(* long-term store is kept as far as it concerns this chat's messages.     *)
(*                                                                         *)
(* Each p \in Procs is one in-flight request.  Its code runs on one of two *)
(* kinds of thread: the event loop (Loop), where a coroutine runs without  *)
(* interruption until it awaits, or a thread of the default executor (the  *)
(* worker of p).  A step is one database transaction, one lock operation   *)
(* or one model call.                                                      *)
(***************************************************************************)
EXTENDS Naturals, Sequences, FiniteSets

CONSTANTS
  Procs,        \* requests that can be in flight at the same time
  Loop,         \* the event-loop thread, as an owner of the guard
  None,         \* no owner
  PoolSize,     \* threads of the default executor
  GistBatch,    \* max_messages_per_gist
  Enabled,      \* the operations the environment may request
  MaxRequests   \* bound on the requests of one behaviour

EndOps == {"endUi", "endApi"}
Ops == EndOps \cup {"send", "consolidate", "generate"}
Instant == {"reactivate", "delete", "start", "crash"}

ASSUME ProcsAssumption == /\ IsFiniteSet(Procs)
                          /\ Loop \notin Procs /\ None \notin Procs /\ Loop # None
ASSUME BoundsAssumption == /\ PoolSize \in Nat \ {0}
                           /\ GistBatch \in Nat \ {0}
                           /\ MaxRequests \in Nat
                           /\ Enabled \subseteq Ops \cup Instant

VARIABLES
  chat,         \* the row of table chats: "absent", "active" or "inactive"
  msgs,         \* ids of the chat's rows in table messages
  users,        \* ids that were issued to user messages
  nextId,       \* AUTOINCREMENT: ids are never reused
  summarized,   \* messages.summarized = 1
  gisted,       \* messages.gist_processed = 1
  gists,        \* rows of chat_gists, as the sets of messages they cover
  memory,       \* chat_memory_state: messages whose facts it holds
  longTerm,     \* long_term_memories: messages whose facts it holds
  replies,      \* <<user message, assistant message that answers it>>
  owner,        \* thread that owns the chat's RLock
  holders,      \* requests inside a with-block of that RLock (its count)
  op,           \* operation of each request
  pc,           \* where each request is
  mine,         \* persisted_user_message_id of a turn
  batch,        \* messages a request has selected
  seen,         \* memory state a request has read or computed
  requests      \* requests received so far (bound of the model)

rows == <<chat, msgs, users, nextId, summarized, gisted, gists, memory,
          longTerm, replies>>
guard == <<owner, holders>>
locals == <<mine, batch, seen>>
vars == <<rows, guard, op, pc, locals, requests>>

-----------------------------------------------------------------------------
(* Program locations.                                                      *)

\* between two awaits of a coroutine
LoopPC == {"persistLock", "persistCheck", "persistSave", "conLock",
           "genRead", "genStore"}
\* handle_user_turn, submitted with run_in_executor
TurnPC == {"turnLock", "turnCheck", "turnModel"}
MemoryPC == {"memSelect", "memRead", "memExtract", "memStore", "memReject",
             "memMark"}
GistPC == {"gistStart", "gistRead", "gistStore", "endMark"}
\* shared by several operations: the thread depends on the caller
BodyPC == {"endLock"} \cup MemoryPC \cup GistPC
PC == {"idle", "turnQueue", "finalizeWait", "endQueue", "conQueue", "conDone"}
        \cup LoopPC \cup TurnPC \cup BodyPC

OnLoop(p) == \/ pc[p] \in LoopPC
             \/ pc[p] \in BodyPC /\ op[p] \in {"send", "endUi"}
OnWorker(p) == \/ pc[p] \in TurnPC
               \/ pc[p] \in BodyPC /\ op[p] \in {"endApi", "consolidate"}

LoopFree == \A p \in Procs : ~OnLoop(p)
FreeWorker == Cardinality({p \in Procs : OnWorker(p)}) < PoolSize

\* the request is inside a with guarded_chat_operation(...) block
Guarded(p) == \/ pc[p] \in {"persistCheck", "persistSave", "turnCheck",
                            "turnModel", "conQueue", "conDone"}
              \/ pc[p] \in MemoryPC \cup GistPC /\ op[p] \in EndOps \cup {"consolidate"}

(* The thread that entered the block.  Consolidate enters it on the event  *)
(* loop and keeps it over its await, while the job runs on a worker.       *)
GuardThread(p) == IF \/ pc[p] \in TurnPC
                     \/ op[p] = "endApi"
                  THEN p ELSE Loop

-----------------------------------------------------------------------------
(* operation_guard.py: a reentrant lock owned by a thread.                 *)

\* Mutant: a lock object per caller instead of one per chat
BugAcquire(p) == /\ owner' = GuardThread(p)
                 /\ holders' = holders \cup {p}

Acquire(p) == /\ owner \in {None, GuardThread(p)}
              /\ owner' = GuardThread(p)
              /\ holders' = holders \cup {p}

Release(p) == /\ holders' = holders \ {p}
              /\ owner' = IF holders = {p} THEN None ELSE owner

Goto(p, l) == pc' = [pc EXCEPT ![p] = l]

Finish(p) == /\ Goto(p, "idle")
             /\ op' = [op EXCEPT ![p] = "none"]
             /\ mine' = [mine EXCEPT ![p] = 0]
             /\ batch' = [batch EXCEPT ![p] = {}]
             /\ seen' = [seen EXCEPT ![p] = {}]

\* a request arrives and starts at l
Arrive(p, o, l) == /\ o \in Enabled
                   /\ pc[p] = "idle"
                   /\ requests < MaxRequests
                   /\ requests' = requests + 1
                   /\ op' = [op EXCEPT ![p] = o]
                   /\ Goto(p, l)

-----------------------------------------------------------------------------
(* Batches.  Message order is id order.                                    *)

OldestFirst(T, S) == \A i \in T, j \in S : j < i => j \in T

(* _conversation_units: a user message and the assistant message right     *)
(* after it among the pending ones belong to one unit.                     *)
SplitsUnit(T, S) == \E u \in T \cap users, a \in S \ T :
                      /\ a \notin users
                      /\ u < a
                      /\ \A m \in S : ~(u < m /\ m < a)

(* _take_oldest_fitting_batch over any token sizes and limits: whole units, *)
(* oldest first, at least one user message.                                *)
UnitBatches(S) == {T \in SUBSET S : /\ T \cap users # {}
                                    /\ OldestFirst(T, S)
                                    /\ ~SplitsUnit(T, S)}

(* Leading units without a user message that fill the batch by themselves  *)
(* leave nothing to select although user messages are pending.             *)
Stalls(S) == /\ S \cap users # {}
             /\ \E m \in S \ users : \A j \in S : m <= j

FlushBatches(S) == IF S \cap users = {} THEN {S} \ {{}} ELSE UnitBatches(S)

\* the n oldest members of S, or all of them
Oldest(S, n) == {T \in SUBSET S : /\ OldestFirst(T, S)
                                  /\ \/ Cardinality(T) = n
                                     \/ T = S /\ Cardinality(S) <= n}

-----------------------------------------------------------------------------
Init ==
  /\ chat = "active" /\ msgs = {} /\ users = {} /\ nextId = 1
  /\ summarized = {} /\ gisted = {} /\ gists = <<>>
  /\ memory = {} /\ longTerm = {} /\ replies = {}
  /\ owner = None /\ holders = {}
  /\ op = [p \in Procs |-> "none"]
  /\ pc = [p \in Procs |-> "idle"]
  /\ mine = [p \in Procs |-> 0]
  /\ batch = [p \in Procs |-> {}]
  /\ seen = [p \in Procs |-> {}]
  /\ requests = 0

-----------------------------------------------------------------------------
(* The message turn: on_message on the loop, handle_user_turn on a worker, *)
(* then the post-answer memory update back on the loop.                    *)

\* on_message, up to the call that persists the user message
Send(p) ==
  /\ LoopFree
  /\ chat = "active"
  /\ Arrive(p, "send", "persistLock")
  /\ UNCHANGED <<rows, guard, locals>>

\* persist_user_message_for_turn; a held guard blocks the event loop
PersistLock(p) ==
  /\ pc[p] = "persistLock"
  /\ Acquire(p)
  /\ Goto(p, "persistCheck")
  /\ UNCHANGED <<rows, op, locals, requests>>

\* Mutant: the activity of the chat is not read again under the guard
BugPersistCheck(p) ==
  /\ pc[p] = "persistCheck"
  /\ Goto(p, "persistSave")
  /\ UNCHANGED <<rows, guard, op, locals, requests>>

PersistCheck(p) ==
  /\ pc[p] = "persistCheck"
  /\ \/ /\ chat = "active"
        /\ Goto(p, "persistSave")
        /\ UNCHANGED <<guard, op, locals>>
     \/ /\ chat # "active"
        /\ Release(p)
        /\ Finish(p)
  /\ UNCHANGED <<rows, requests>>

PersistSave(p) ==
  /\ pc[p] = "persistSave"
  /\ msgs' = msgs \cup {nextId}
  /\ users' = users \cup {nextId}
  /\ nextId' = nextId + 1
  /\ mine' = [mine EXCEPT ![p] = nextId]
  /\ Release(p)
  /\ Goto(p, "turnQueue")
  /\ UNCHANGED <<chat, summarized, gisted, gists, memory, longTerm, replies,
                 op, batch, seen, requests>>

\* run_in_executor(None, handle_user_turn)
TurnStart(p) ==
  /\ pc[p] = "turnQueue"
  /\ FreeWorker
  /\ Goto(p, "turnLock")
  /\ UNCHANGED <<rows, guard, op, locals, requests>>

TurnLock(p) ==
  /\ pc[p] = "turnLock"
  /\ Acquire(p)
  /\ Goto(p, "turnCheck")
  /\ UNCHANGED <<rows, op, locals, requests>>

\* Mutant: the turn trusts the check made when the message was persisted
BugTurnCheck(p) ==
  /\ pc[p] = "turnCheck"
  /\ mine[p] \in msgs
  /\ Goto(p, "turnModel")
  /\ UNCHANGED <<rows, guard, op, locals, requests>>

\* is_chat_active, then _validate_persisted_user_message
TurnCheck(p) ==
  /\ pc[p] = "turnCheck"
  /\ \/ /\ chat = "active"
        /\ mine[p] \in msgs
        /\ Goto(p, "turnModel")
        /\ UNCHANGED <<guard, op, locals>>
     \/ /\ chat # "active" \/ mine[p] \notin msgs
        /\ Release(p)
        /\ Finish(p)
  /\ UNCHANGED <<rows, requests>>

\* Mutant: foreign keys are not enforced on the connection
BugTurnSave(p) ==
  /\ pc[p] = "turnModel"
  /\ msgs' = msgs \cup {nextId}
  /\ replies' = replies \cup {<<mine[p], nextId>>}
  /\ nextId' = nextId + 1
  /\ Release(p)
  /\ Goto(p, "finalizeWait")
  /\ UNCHANGED <<chat, users, summarized, gisted, gists, memory, longTerm,
                 op, locals, requests>>

(* run_turn: routing, retrieval and the model call, then save_message of   *)
(* the assistant row, whether the answer is complete or a failure notice.  *)
TurnSave(p) ==
  /\ pc[p] = "turnModel"
  /\ chat # "absent"                    \* FOREIGN KEY (chat_id)
  /\ msgs' = msgs \cup {nextId}
  /\ replies' = replies \cup {<<mine[p], nextId>>}
  /\ nextId' = nextId + 1
  /\ Release(p)
  /\ \/ /\ Goto(p, "finalizeWait")      \* answer_status "completed"
        /\ UNCHANGED <<op, locals>>
     \/ Finish(p)                       \* answer_status "failed"
  /\ UNCHANGED <<chat, users, summarized, gisted, gists, memory, longTerm,
                 requests>>

\* an exception run_turn does not handle, the foreign key's included
TurnRaise(p) ==
  /\ pc[p] = "turnModel"
  /\ Release(p)
  /\ Finish(p)
  /\ UNCHANGED <<rows, requests>>

\* finalize_post_answer_memory_update: on the loop, without the guard
FinalizeStart(p) ==
  /\ pc[p] = "finalizeWait"
  /\ LoopFree
  /\ Goto(p, "memSelect")
  /\ UNCHANGED <<rows, guard, op, locals, requests>>

-----------------------------------------------------------------------------
(* short_term.py: update_memory_if_needed (op "send": one batch) and       *)
(* process_all_for_chat_end (Chat End and Consolidate: until nothing is    *)
(* left or a batch fails).                                                 *)

MemoryReturns(p) ==
  /\ UNCHANGED guard
  /\ \/ /\ op[p] \in EndOps
        /\ Goto(p, "gistStart")
        /\ UNCHANGED <<op, locals>>
     \/ /\ op[p] = "consolidate"
        /\ Goto(p, "conDone")
        /\ UNCHANGED <<op, locals>>
     \/ /\ op[p] = "send"
        /\ Finish(p)

\* Mutant: acquire() and release() without try/finally
BugRaises(p) ==
  /\ UNCHANGED guard
  /\ IF op[p] = "consolidate" THEN Goto(p, "conDone") /\ UNCHANGED <<op, locals>>
                              ELSE Finish(p)

\* an exception leaves the operation; with-blocks are left, nothing is undone
Raises(p) ==
  \/ /\ op[p] \in EndOps
     /\ Release(p)
     /\ Finish(p)
  \/ /\ op[p] = "consolidate"
     /\ Goto(p, "conDone")
     /\ UNCHANGED <<guard, op, locals>>
  \/ /\ op[p] = "send"
     /\ Finish(p)
     /\ UNCHANGED guard

\* _select_pending_batch
MemSelect(p) ==
  LET pending == msgs \ summarized
      candidates == IF op[p] = "send" THEN UnitBatches(pending)
                                      ELSE FlushBatches(pending)
  IN /\ pc[p] = "memSelect"
     /\ \/ \E T \in candidates :
             /\ batch' = [batch EXCEPT ![p] = T]
             /\ Goto(p, "memRead")
             /\ UNCHANGED <<guard, op, mine, seen>>
        \/ /\ \/ op[p] = "send"         \* below the trigger or protected
              \/ pending = {}
              \/ Stalls(pending)
           /\ MemoryReturns(p)
     /\ UNCHANGED <<rows, requests>>

\* Mutant: the batch starts from the long-term records alone
BugMemRead(p) ==
  /\ pc[p] = "memRead"
  /\ seen' = [seen EXCEPT ![p] = IF batch[p] \cap users = {} THEN {} ELSE longTerm]
  /\ Goto(p, "memExtract")
  /\ UNCHANGED <<rows, guard, op, mine, batch, requests>>

(* chat_memory_state, merged with the long-term records (which are loaded  *)
(* right after it) when the batch has a user message.                      *)
MemRead(p) ==
  /\ pc[p] = "memRead"
  /\ seen' = [seen EXCEPT ![p] =
                memory \cup (IF batch[p] \cap users = {} THEN {} ELSE longTerm)]
  /\ Goto(p, "memExtract")
  /\ UNCHANGED <<rows, guard, op, mine, batch, requests>>

(* structured_memory.update: the model call and the writes to the          *)
(* long-term store, one record at a time.  A batch without facts (a no-op) *)
(* is accepted with nothing to store; online it counts as rejected.        *)
MemExtract(p) ==
  /\ pc[p] = "memExtract"
  /\ \/ /\ longTerm' = longTerm \cup batch[p]
        /\ seen' = [seen EXCEPT ![p] = @ \cup batch[p]]
        /\ Goto(p, "memStore")
        /\ UNCHANGED <<guard, op, mine, batch>>
     \/ \E T \in SUBSET batch[p] :
          /\ batch[p] \cap users # {}
          /\ longTerm' = longTerm \cup T
          /\ Goto(p, "memReject")
          /\ UNCHANGED <<guard, op, locals>>
     \/ /\ Raises(p)
        /\ UNCHANGED longTerm
  /\ UNCHANGED <<chat, msgs, users, nextId, summarized, gisted, gists, memory,
                 replies, requests>>

\* upsert_chat_memory_state of the whole state computed from what was read
UpsertMemory(p) ==
  /\ memory' = seen[p]
  /\ UNCHANGED <<chat, msgs, users, nextId, summarized, gisted, gists,
                 longTerm, replies>>

MemStore(p) ==
  /\ pc[p] = "memStore"
  /\ \/ /\ chat # "absent"
        /\ UpsertMemory(p)
        /\ Goto(p, "memMark")
        /\ UNCHANGED <<guard, op, locals>>
     \/ /\ chat = "absent"              \* FOREIGN KEY (chat_id)
        /\ Raises(p)
        /\ UNCHANGED rows
  /\ UNCHANGED requests

\* Mutant: a rejected batch is consumed like a no-op
BugMemReject(p) ==
  /\ pc[p] = "memReject"
  /\ chat # "absent"
  /\ memory' = seen[p]
  /\ summarized' = summarized \cup (batch[p] \cap msgs)
  /\ MemoryReturns(p)
  /\ UNCHANGED <<chat, msgs, users, nextId, gisted, gists, longTerm, replies,
                 requests>>

\* outcome 1 of _apply_batch: the state is written, the messages stay pending
MemReject(p) ==
  /\ pc[p] = "memReject"
  /\ \/ /\ chat # "absent"
        /\ UpsertMemory(p)
        /\ MemoryReturns(p)
     \/ /\ chat = "absent"
        /\ Raises(p)
        /\ UNCHANGED rows
  /\ UNCHANGED requests

\* mark_messages_summarized: a transaction of its own
MemMark(p) ==
  /\ pc[p] = "memMark"
  /\ summarized' = summarized \cup (batch[p] \cap msgs)
  /\ \/ /\ op[p] = "send"
        /\ Finish(p)
     \/ /\ op[p] # "send"
        /\ Goto(p, "memSelect")
        /\ UNCHANGED <<op, locals>>
  /\ UNCHANGED <<chat, msgs, users, nextId, gisted, gists, memory, longTerm,
                 replies, guard, requests>>

-----------------------------------------------------------------------------
(* Chat End: end_chat_handler runs it on the loop, POST .../end in a       *)
(* worker.                                                                 *)

EndUi(p) ==
  /\ LoopFree
  /\ chat = "active"
  /\ Arrive(p, "endUi", "endLock")
  /\ UNCHANGED <<rows, guard, locals>>

EndApi(p) ==
  /\ LoopFree
  /\ chat # "absent"
  /\ Arrive(p, "endApi", "endQueue")
  /\ UNCHANGED <<rows, guard, locals>>

EndStart(p) ==
  /\ pc[p] = "endQueue"
  /\ FreeWorker
  /\ Goto(p, "endLock")
  /\ UNCHANGED <<rows, guard, op, locals, requests>>

EndLock(p) ==
  /\ pc[p] = "endLock"
  /\ Acquire(p)
  /\ Goto(p, "memSelect")
  /\ UNCHANGED <<rows, op, locals, requests>>

\* finalize_chat, the get_chat at its top
GistStart(p) ==
  /\ pc[p] = "gistStart"
  /\ \/ /\ chat # "absent"
        /\ Goto(p, "gistRead")
        /\ UNCHANGED <<guard, op, locals>>
     \/ /\ chat = "absent"
        /\ Raises(p)
  /\ UNCHANGED <<rows, requests>>

GistRead(p) ==
  LET pending == msgs \ gisted
  IN /\ pc[p] = "gistRead"
     /\ \/ /\ pending = {}
           /\ Goto(p, "endMark")
           /\ UNCHANGED batch
        \/ \E T \in Oldest(pending, GistBatch) :
             /\ pending # {}
             /\ batch' = [batch EXCEPT ![p] = T]
             /\ Goto(p, "gistStore")
     /\ UNCHANGED <<rows, guard, op, mine, seen, requests>>

\* Mutant: the flags are committed without the gist row
BugInsertGist(p) ==
  /\ gisted' = gisted \cup (batch[p] \cap msgs)
  /\ UNCHANGED <<chat, msgs, users, nextId, summarized, gists, memory,
                 longTerm, replies>>

\* insert_chat_gist: the gist row and the flags in one transaction
InsertGist(p) ==
  /\ gists' = Append(gists, batch[p])
  /\ gisted' = gisted \cup (batch[p] \cap msgs)
  /\ UNCHANGED <<chat, msgs, users, nextId, summarized, memory, longTerm,
                 replies>>

\* Mutant: finalize_chat returns after its first batch
BugGistStore(p) ==
  /\ pc[p] = "gistStore"
  /\ chat # "absent"
  /\ InsertGist(p)
  /\ Goto(p, "endMark")
  /\ UNCHANGED <<guard, op, locals, requests>>

GistStore(p) ==
  /\ pc[p] = "gistStore"
  /\ \/ /\ batch[p] \cap users = {}
        /\ gisted' = gisted \cup (batch[p] \cap msgs)
        /\ Goto(p, "gistRead")
        /\ UNCHANGED <<chat, msgs, users, nextId, summarized, gists, memory,
                       longTerm, replies, guard, op, locals>>
     \/ /\ batch[p] \cap users # {}
        /\ chat # "absent"
        /\ InsertGist(p)
        /\ Goto(p, "gistRead")
        /\ UNCHANGED <<guard, op, locals>>
     \/ /\ batch[p] \cap users # {}     \* empty summary, exception, foreign key
        /\ Raises(p)
        /\ UNCHANGED rows
  /\ UNCHANGED requests

EndMark(p) ==
  /\ pc[p] = "endMark"
  /\ chat' = IF chat = "absent" THEN "absent" ELSE "inactive"
  /\ Release(p)
  /\ Finish(p)
  /\ UNCHANGED <<msgs, users, nextId, summarized, gisted, gists, memory,
                 longTerm, replies, requests>>

-----------------------------------------------------------------------------
(* POST .../consolidate: with guarded_chat_operation around an await.      *)

Consolidate(p) ==
  /\ LoopFree
  /\ chat # "absent"
  /\ Arrive(p, "consolidate", "conLock")
  /\ UNCHANGED <<rows, guard, locals>>

ConLock(p) ==
  /\ pc[p] = "conLock"
  /\ Acquire(p)
  /\ Goto(p, "conQueue")
  /\ UNCHANGED <<rows, op, locals, requests>>

ConStart(p) ==
  /\ pc[p] = "conQueue"
  /\ FreeWorker
  /\ Goto(p, "memSelect")
  /\ UNCHANGED <<rows, guard, op, locals, requests>>

ConRelease(p) ==
  /\ pc[p] = "conDone"
  /\ LoopFree
  /\ Release(p)
  /\ Finish(p)
  /\ UNCHANGED <<rows, requests>>

-----------------------------------------------------------------------------
(* generate_for_existing_chats, run by start_chat of another chat on the   *)
(* loop, without the guard.                                                *)

Generate(p) ==
  /\ LoopFree
  /\ msgs # {}
  /\ gists = <<>>
  /\ Arrive(p, "generate", "genRead")
  /\ UNCHANGED <<rows, guard, locals>>

\* generate_for_chat wants at least min_messages = 2
GenRead(p) ==
  /\ pc[p] = "genRead"
  /\ \E T \in Oldest(msgs \ gisted, GistBatch) :
       \/ /\ Cardinality(T) >= 2
          /\ batch' = [batch EXCEPT ![p] = T]
          /\ Goto(p, "genStore")
          /\ UNCHANGED <<op, mine, seen>>
       \/ /\ Cardinality(T) < 2
          /\ Finish(p)
  /\ UNCHANGED <<rows, guard, requests>>

GenStore(p) ==
  /\ pc[p] = "genStore"
  /\ \/ chat # "absent" /\ InsertGist(p)
     \/ UNCHANGED rows                  \* no usable summary
  /\ Finish(p)
  /\ UNCHANGED <<guard, requests>>

-----------------------------------------------------------------------------
(* Operations of one transaction, all of them on the loop and unguarded.   *)

Reactivate ==
  /\ "reactivate" \in Enabled
  /\ LoopFree
  /\ chat = "inactive"
  /\ chat' = "active"
  /\ UNCHANGED <<msgs, users, nextId, summarized, gisted, gists, memory,
                 longTerm, replies, guard, op, pc, locals, requests>>

(* delete_chat removes the rows and, with them, the flags and the derived  *)
(* memory of the chat; long_term_memories keeps what it has.               *)
Delete ==
  /\ "delete" \in Enabled
  /\ LoopFree
  /\ chat # "absent"
  /\ chat' = "absent"
  /\ msgs' = {} /\ summarized' = {} /\ gisted' = {} /\ gists' = <<>>
  /\ memory' = {}
  /\ UNCHANGED <<users, nextId, longTerm, replies, guard, op, pc, locals,
                 requests>>

\* create_chat for a known id: start_chat(thread id), update_thread
StartChat ==
  /\ "start" \in Enabled
  /\ LoopFree
  /\ chat = "absent"
  /\ chat' = "active"
  /\ UNCHANGED <<msgs, users, nextId, summarized, gisted, gists, memory,
                 longTerm, replies, guard, op, pc, locals, requests>>

\* the process dies and is started again: only the database remains
Crash ==
  /\ "crash" \in Enabled
  /\ owner' = None
  /\ holders' = {}
  /\ op' = [p \in Procs |-> "none"]
  /\ pc' = [p \in Procs |-> "idle"]
  /\ mine' = [p \in Procs |-> 0]
  /\ batch' = [p \in Procs |-> {}]
  /\ seen' = [p \in Procs |-> {}]
  /\ UNCHANGED <<rows, requests>>

-----------------------------------------------------------------------------
Arrivals(p) == Send(p) \/ EndUi(p) \/ EndApi(p) \/ Consolidate(p) \/ Generate(p)

Turn(p) == \/ PersistLock(p) \/ PersistCheck(p) \/ PersistSave(p)
           \/ TurnStart(p) \/ TurnLock(p) \/ TurnCheck(p) \/ TurnSave(p)
           \/ TurnRaise(p) \/ FinalizeStart(p)

Memory(p) == \/ MemSelect(p) \/ MemRead(p) \/ MemExtract(p) \/ MemStore(p)
             \/ MemReject(p) \/ MemMark(p)

End(p) == \/ EndStart(p) \/ EndLock(p) \/ GistStart(p) \/ GistRead(p)
          \/ GistStore(p) \/ EndMark(p)

Other(p) == ConLock(p) \/ ConStart(p) \/ ConRelease(p) \/ GenRead(p) \/ GenStore(p)

Proceed(p) == Turn(p) \/ Memory(p) \/ End(p) \/ Other(p)

Next == \/ \E p \in Procs : Arrivals(p) \/ Proceed(p)
        \/ Reactivate \/ Delete \/ StartChat \/ Crash

Spec == Init /\ [][Next]_vars

(* Threads run, the executor starts what fits, the loop resumes coroutines *)
(* and model calls time out: an accepted request keeps moving while it can. *)
FairSpec == Spec /\ \A p \in Procs : WF_vars(Proceed(p))
-----------------------------------------------------------------------------
(* Properties.                                                             *)

(* Types, and the constraints the schema keeps: ids grow and are never     *)
(* reused, flags belong to existing rows (database.py, init_schema).       *)
TypeOK ==
  /\ chat \in {"absent", "active", "inactive"}
  /\ nextId \in Nat \ {0}
  /\ msgs \subseteq 1 .. (nextId - 1)
  /\ users \subseteq 1 .. (nextId - 1)
  /\ summarized \subseteq msgs
  /\ gisted \subseteq msgs
  /\ gists \in Seq(SUBSET Nat)
  /\ memory \subseteq Nat /\ longTerm \subseteq Nat
  /\ replies \subseteq Nat \X Nat
  /\ owner \in Procs \cup {Loop, None}
  /\ holders \subseteq Procs
  /\ op \in [Procs -> Ops \cup {"none"}]
  /\ pc \in [Procs -> PC]
  /\ mine \in [Procs -> Nat]
  /\ batch \in [Procs -> SUBSET Nat]
  /\ seen \in [Procs -> SUBSET Nat]
  /\ requests \in 0 .. MaxRequests

(* Types, and the guard is held by exactly the requests that are inside a  *)
(* with-block: none returns, raises or is cut off by a restart and leaves  *)
(* the lock behind, and none works without it (guarded_chat_operation in   *)
(* operation_guard.py and its callers).                                    *)
WellFormed == TypeOK /\ \A p \in Procs : p \in holders <=> Guarded(p)

(* What the per-chat RLock does give: while a turn or a REST Chat End is   *)
(* in its with-block on a worker thread, no other operation of the chat is *)
(* in one, although a Consolidate can keep the lock over an await and      *)
(* other coroutines of the loop can then re-enter it.                      *)
WorkerExclusion ==
  \A p, q \in Procs :
    /\ p # q
    /\ Guarded(p)
    /\ \/ pc[p] \in TurnPC
       \/ op[p] = "endApi"
    => ~Guarded(q)

(* An ended chat has no message outside its episodic memory: nothing slips *)
(* in between the last look of finalize_chat and mark_chat_inactive, or    *)
(* after it, whatever turn was in flight, and deletion, re-creation and a  *)
(* restart do not change that.                                             *)
EndedChatIsFinalized == chat = "inactive" => msgs \subseteq gisted

(* gist_processed never runs ahead of the gists: a flagged user message is *)
(* covered by a gist row, also after a crash between two batches.          *)
FlaggedMessagesHaveGist ==
  \A m \in gisted \cap users : \E i \in DOMAIN gists : m \in gists[i]

(* summarized never runs ahead of the durable memory: the facts of a       *)
(* message that will not be looked at again are in long_term_memories, for *)
(* every outcome of the extraction and every crash between its writes.     *)
SummarizedIsDurable == summarized \subseteq longTerm

(* A message row appears only while the chat is active ("New messages are  *)
(* rejected for ended chats"), although the check and the insert are two   *)
(* transactions with a model call between them.                            *)
MessagesOnlyWhileActive == [][ ~(msgs' \subseteq msgs) => chat = "active" ]_vars

(* The chat keeps the contract stated in ChatContract: its messages, its   *)
(* activity and its finalized messages change as promised there.           *)
Contract == INSTANCE ChatContract WITH final <- gisted
KeepsContract == Contract!CSpec

(* chat_memory_state holds the facts of every summarized message: no write *)
(* of a state read earlier drops what another operation stored meanwhile   *)
(* (Database.mark_messages_summarized: "Mark messages as processed into    *)
(* the derived memory cache").                                             *)
NoLostMemory == chat # "absent" => summarized \subseteq memory

(* No message is told twice in the episodic memory.                        *)
GistedOnce == \A i, j \in DOMAIN gists : i # j => gists[i] \cap gists[j] = {}

(* An assistant row is never left without the user row it answers.         *)
AnswersHaveQuestions == \A r \in replies : r[2] \in msgs => r[1] \in msgs

(* Only one operation per chat executes at a time within the process       *)
(* (actions/.doc.md): at most one request is in a guarded block.           *)
OneOperationAtATime ==
  \A p, q \in Procs : Guarded(p) /\ Guarded(q) => p = q

(* A chat is inactive only after its memory processing succeeded           *)
(* (actions/.doc.md, "Chat end is all-or-nothing"): nothing is pending.    *)
EndedChatIsSummarized == chat = "inactive" => msgs \subseteq summarized

\* what a request may have to wait for: the guard another thread owns, a
\* thread of the executor, the event loop
AwaitsGuard(p) == /\ pc[p] \in {"persistLock", "turnLock", "endLock", "conLock"}
                  /\ owner \notin {None, GuardThread(p)}
AwaitsWorker(p) == pc[p] \in {"turnQueue", "endQueue", "conQueue"} /\ ~FreeWorker
AwaitsLoop(p) == pc[p] \in {"finalizeWait", "conDone"} /\ ~LoopFree
Waits(p) == AwaitsGuard(p) \/ AwaitsWorker(p) \/ AwaitsLoop(p)

(* Never does every request in flight wait for another one: although a     *)
(* coroutine blocks the event loop while it waits for the guard, turns     *)
(* block the threads of the executor while they wait for it, and           *)
(* Consolidate keeps it while its job waits for one of these threads.      *)
NoDeadlock ==
  (\E p \in Procs : pc[p] # "idle") => \E p \in Procs : pc[p] # "idle" /\ ~Waits(p)

(* Every accepted request finishes: no lock is leaked by an exception, no  *)
(* coroutine waits for a job that waits for the coroutine's lock.          *)
RequestsFinish == \A p \in Procs : op[p] # "none" ~> op[p] = "none"
=============================================================================
