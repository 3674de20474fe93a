----------------------------- MODULE WorkingBudget ------------------------------
(***************************************************************************)
(* How many tokens the memory of a turn may take: what the model's window  *)
(* leaves (ContextBudgetAllocator, ContextManagerAgent) and what the       *)
(* planner grants of it (DynamicWorkingMemoryBudgetPlanner).  Pure         *)
(* arithmetic on integers; the caps of the policy are constants.           *)
(***************************************************************************)
EXTENDS Integers

CONSTANTS
  Cap,             \* the cap of every kind of plan
  BaseRequest,     \* what a plan asks for without a profile of its own
  RecallRequest,   \* what the profile memory_recall asks for
  SummaryRequest,  \* what the profile global_summary asks for
  SummaryReserve   \* what a global summary leaves unused

CapKinds == {"summary", "long_document", "multi_scope", "document", "chat",
             "durable", "recall", "base"}

ASSUME PolicyAssumption ==
  /\ Cap \in [CapKinds -> Int]
  /\ BaseRequest \in Int /\ RecallRequest \in Int
  /\ SummaryRequest \in Int /\ SummaryReserve \in Int

AtLeast0(n) == IF n > 0 THEN n ELSE 0
Lesser(m, n) == IF m < n THEN m ELSE n
Greater(m, n) == IF m > n THEN m ELSE n

\* the output reserve: never more than the window
OutputReserve(window, wanted) == AtLeast0(Lesser(wanted, window))
HardInputBudget(window, wanted, safety) ==
  AtLeast0(window - OutputReserve(window, wanted) - safety)
\* fixed: the tokens of the system prompt, the query and their formatting
AvailableMemory(hard, fixed) == AtLeast0(hard - fixed)

(* A plan: profile, long (a long document task), scopes, and the group of  *)
(* its intent.  The first rule that applies gives the cap.                 *)
IsPlan(plan) ==
  /\ plan.profile \in {"global_summary", "memory_recall", "other"}
  /\ plan.long \in BOOLEAN
  /\ plan.scopes \subseteq {"document", "current_chat", "previous_chat", "durable"}
  /\ plan.intent \in {"document", "chat", "durable", "other"}
CapKind(plan) ==
  CASE plan.profile = "global_summary" -> "summary"
    [] plan.profile # "global_summary" /\ plan.long -> "long_document"
    [] OTHER ->
       IF \E s, t \in plan.scopes : s # t THEN "multi_scope"
       ELSE IF plan.scopes = {"document"} \/ plan.intent = "document" THEN "document"
       ELSE IF plan.scopes \cap {"current_chat", "previous_chat"} # {}
               \/ plan.intent = "chat" THEN "chat"
       ELSE IF plan.scopes = {"durable"} \/ plan.intent = "durable" THEN "durable"
       ELSE IF plan.profile = "memory_recall" THEN "recall" ELSE "base"

RouteCap(plan) == IF plan.profile = "global_summary"
                    THEN AtLeast0(Cap["summary"]) ELSE Cap[CapKind(plan)]
Requested(plan) ==
  AtLeast0(CASE plan.profile = "global_summary" -> SummaryRequest
             [] plan.profile = "memory_recall" -> RecallRequest
             [] OTHER -> BaseRequest)
Reserve(plan) ==
  IF plan.profile = "global_summary" THEN AtLeast0(SummaryReserve) ELSE 0

\* a quarter of the floor, rounded up
Headroom(floor) == (floor + 3) \div 4
Target(floor) == floor + Headroom(floor)
SafeAvailable(plan, available) == AtLeast0(available - Reserve(plan))

\* Mutant: a floor above the cap of its plan does not raise the budget
BugWorking(plan, available, floor) ==
  AtLeast0(Lesser(SafeAvailable(plan, available),
                  Lesser(AtLeast0(RouteCap(plan)),
                         AtLeast0(Greater(Requested(plan), Target(floor))))))

\* working_memory_budget: required evidence that fits may exceed the cap
Working(plan, available, floor) ==
  AtLeast0(IF floor > RouteCap(plan) /\ floor <= SafeAvailable(plan, available)
             THEN Lesser(SafeAvailable(plan, available), Greater(floor, Target(floor)))
             ELSE Lesser(SafeAvailable(plan, available),
                         Lesser(AtLeast0(RouteCap(plan)),
                                AtLeast0(Greater(Requested(plan), Target(floor))))))

=============================================================================
