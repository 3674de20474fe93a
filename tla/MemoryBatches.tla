----------------------------- MODULE MemoryBatches -----------------------------
(***************************************************************************)
(* Which messages one update of the structured memory consumes             *)
(* (ShortTermMemory): the pending messages of a chat form units, a         *)
(* question with the answer that follows it or a single message, and a     *)
(* batch is as many of the oldest units as fit.  A batch is consumed as a  *)
(* whole, or stays pending and is tried again.  ChatLifecycle interleaves  *)
(* the selection, the extraction and the mark of a batch and leaves the    *)
(* sizes out; here an update is one step and the sizes decide.             *)
(*                                                                         *)
(* Two sends of one chat may overlap: their questions are then saved next  *)
(* to one another, and the answers after them.                             *)
(***************************************************************************)
EXTENDS Naturals, Sequences, FiniteSets
LOCAL INSTANCE FiniteSetsExt

CONSTANTS
  MaxLog,       \* bound: messages of the chat
  TokenCounts,  \* tokens of a message, at least one
  Schedules     \* [trigger, tokens, messages, protected] of online and replay

ASSUME LogAssumption == MaxLog \in Nat

VARIABLES
  log,      \* the messages: [role, tokens, by, late], by: the batch or 0
  waiting,  \* questions that have no answer yet
  schedule, \* the two MemoryBatchProfiles and the policy
  batches,  \* how many batches were consumed
  consumer, \* who consumes batches in a loop: "none", "replay", "end"
  drained   \* the last chat end consumed whatever it selected

batchVars == <<log, waiting, schedule, batches, consumer, drained>>

Policies == {"scheduled", "agentic_each_turn", "chat_end_only"}
Outcomes == {"accepted", "noop", "failed"}

BatchesInit ==
  /\ log = <<>> /\ waiting = 0 /\ batches = 0 /\ consumer = "none" /\ drained = FALSE
  /\ schedule \in [policy : Policies, online : Schedules, replay : Schedules]
  /\ schedule.replay.protected = 0

-----------------------------------------------------------------------------
(* Selection.                                                              *)

Pending == {i \in DOMAIN log : log[i].by = 0}

\* Mutant: an answer is never joined to its question
BugCompletes(i) == FALSE

\* the pending message i completes the unit of the pending one before it
Completes(i) ==
  /\ log[i].role = "assistant"
  /\ \E j \in Pending : /\ log[j].role = "user" /\ j < i
                        /\ \A k \in Pending : k <= j \/ i <= k

\* _conversation_units: where they begin. Units are consumed from the oldest
\* on, so that a batch is what is pending before some unit, or all of it
UnitStarts == {i \in Pending : ~Completes(i)}
Cuts == UnitStarts \cup {Len(log) + 1}
Preceding(cut) == {i \in Pending : i < cut}
From(cut) == Pending \ Preceding(cut)

TokensOf(ids) == MapThenSumSet(LAMBDA i : log[i].tokens, ids)
HasUser(ids) == \E i \in ids : log[i].role = "user"

\* _protected_recent_suffix_ids: what is left before the protected units
Unprotected(protected) ==
  IF protected = 0 THEN Pending
  ELSE UNION {Preceding(s) : s \in {t \in UnitStarts : TokensOf(From(t)) >= protected}}

\* _take_oldest_fitting_batch: an oversized first unit is taken alone, and a
\* batch without a question is not taken
OldestFitting(eligible, limits) ==
  LET fitting == {Preceding(c) : c \in {d \in Cuts :
                    /\ Preceding(d) \subseteq eligible
                    /\ TokensOf(Preceding(d)) <= limits.tokens
                    /\ Cardinality(Preceding(d)) <= limits.messages}}
      firstUnit == {i \in eligible : \A c \in Cuts : Preceding(c) # {} => i < c}
      batch == firstUnit \cup UNION fitting IN
  IF HasUser(batch) THEN batch ELSE {}

\* Mutant: the end of a chat waits for the trigger as well
BugSelect(limits, flush) ==
  IF TokensOf(Pending) < limits.trigger THEN {} ELSE OldestFitting(Pending, limits)

\* _select_pending_batch
Select(limits, flush) ==
  LET eligible == Unprotected(IF flush THEN 0 ELSE limits.protected)
      batch == OldestFitting(eligible, limits) IN
  IF ~flush /\ TokensOf(eligible) < limits.trigger THEN {}
  ELSE IF batch = {} /\ flush /\ ~HasUser(eligible) THEN eligible
  ELSE batch

\* _select_latest_turn_batch: the newest unit with a question begins with it
LatestTurn ==
  LET asked == {s \in UnitStarts : log[s].role = "user"} IN
  {i \in Pending : \E s \in asked : /\ s <= i /\ \A t \in asked : t <= s
                                    /\ \A t \in UnitStarts : t <= s \/ i < t}

-----------------------------------------------------------------------------
(* The chat and its updates.                                               *)

Save(role, tokens) ==
  LET asked == Len(log) > 0 /\ log[Len(log)].role = "user" IN
  log' = Append(log, [role |-> role, tokens |-> tokens, by |-> 0,
                      late |-> asked /\ log[Len(log)].by # 0])

\* room is kept for the answers that are still to come
SaveQuestion(tokens) ==
  /\ consumer = "none" /\ Len(log) + waiting + 2 <= MaxLog
  /\ Save("user", tokens) /\ waiting' = waiting + 1
  /\ drained' = FALSE /\ UNCHANGED <<schedule, batches, consumer>>

SaveAnswer(tokens) ==
  /\ consumer = "none" /\ waiting > 0 /\ Save("assistant", tokens)
  /\ waiting' = waiting - 1 /\ drained' = FALSE /\ UNCHANGED <<schedule, batches, consumer>>

\* the turn failed: its question stays without an answer
LoseAnswer == /\ waiting > 0 /\ waiting' = waiting - 1
              /\ UNCHANGED <<log, schedule, batches, consumer, drained>>

\* a batch without a question is a noop before the model is asked
MayEnd(batch, outcome) == ~HasUser(batch) => outcome = "noop"
Consumed(outcome, allowNoop) == outcome = "accepted" \/ (outcome = "noop" /\ allowNoop)

\* _apply_batch
ApplyBatch(batch, outcome, allowNoop) ==
  /\ MayEnd(batch, outcome)
  /\ IF Consumed(outcome, allowNoop)
       THEN /\ batches' = batches + 1
            /\ log' = [i \in DOMAIN log |->
                 IF i \in batch THEN [log[i] EXCEPT !.by = batches + 1] ELSE log[i]]
       ELSE UNCHANGED <<log, batches>>

\* update_memory_if_needed after an answer, under the scheduled policy
UpdateOnline(outcome) ==
  LET batch == Select(schedule.online, FALSE) IN
  /\ consumer = "none" /\ schedule.policy = "scheduled" /\ batch # {}
  /\ ApplyBatch(batch, outcome, FALSE)
  /\ drained' = FALSE /\ UNCHANGED <<waiting, schedule, consumer>>

\* update_memory_for_latest_turn
UpdateLatestTurn(outcome) ==
  /\ consumer = "none" /\ schedule.policy = "agentic_each_turn" /\ LatestTurn # {}
  /\ ApplyBatch(LatestTurn, outcome, TRUE)
  /\ drained' = FALSE /\ UNCHANGED <<waiting, schedule, consumer>>

\* process_replay_batches and process_all_for_chat_end: a loop
StartLoop(who) == /\ consumer = "none" /\ consumer' = who /\ drained' = FALSE
                  /\ UNCHANGED <<log, waiting, schedule, batches>>

SelectInLoop == Select(schedule.replay, consumer = "end")

LoopBatch(outcome) ==
  LET allowNoop == consumer = "end" IN
  /\ consumer # "none" /\ SelectInLoop # {}
  /\ ApplyBatch(SelectInLoop, outcome, allowNoop)
  /\ consumer' = IF Consumed(outcome, allowNoop) THEN consumer ELSE "none"
  /\ UNCHANGED <<waiting, schedule, drained>>

LoopEnds == /\ consumer # "none" /\ SelectInLoop = {}
            /\ consumer' = "none" /\ drained' = (consumer = "end")
            /\ UNCHANGED <<log, waiting, schedule, batches>>

BatchesNext ==
  \/ \E tokens \in TokenCounts : SaveQuestion(tokens) \/ SaveAnswer(tokens)
  \/ LoseAnswer \/ LoopEnds
  \/ \E who \in {"replay", "end"} : StartLoop(who)
  \/ \E outcome \in Outcomes :
       UpdateOnline(outcome) \/ UpdateLatestTurn(outcome) \/ LoopBatch(outcome)
BatchesSpec == BatchesInit /\ [][BatchesNext]_batchVars

-----------------------------------------------------------------------------
(* Properties.                                                             *)

LogMessages == [role : {"user", "assistant"}, tokens : TokenCounts, by : Nat, late : BOOLEAN]

BatchesTypeOK ==
  /\ log \in Seq(LogMessages) /\ Len(log) + waiting <= MaxLog /\ waiting \in Nat
  /\ \A i \in DOMAIN log : log[i].by <= batches
  /\ batches \in Nat /\ consumer \in {"none", "replay", "end"} /\ drained \in BOOLEAN

(* However batches, sends and failures interleave, a question and the      *)
(* answer next to it are consumed by one batch, unless the question was    *)
(* consumed before it was answered; and the batches of the scheduled       *)
(* policy skip nothing: they consume the transcript from its start.        *)
BatchesKeepPairs ==
  /\ \A i \in DOMAIN log : (i + 1 \in DOMAIN log /\ log[i].role = "user"
       /\ log[i + 1].role = "assistant" /\ ~log[i + 1].late) => log[i].by = log[i + 1].by
  /\ schedule.policy # "agentic_each_turn" =>
       \A i, j \in DOMAIN log : (i < j /\ log[j].by # 0) => log[i].by \in 1 .. log[j].by

(* A chat end in which no extraction failed leaves messages pending only   *)
(* behind an answer that has lost its question: nothing else stops it, not *)
(* the trigger, a protected suffix, a noop or an oversized unit.           *)
EndStopsOnlyBehindAnswers ==
  (drained /\ consumer = "none") =>
    \A i \in DOMAIN log : log[i].by = 0 => \E j \in 1 .. i :
      log[j].by = 0 /\ log[j].role = "assistant" /\ (j = 1 \/ log[j - 1].by # 0)

(* Batches neither tear a question from its answer nor leave work behind.  *)
BatchesAreWhole == BatchesKeepPairs /\ EndStopsOnlyBehindAnswers

=============================================================================
