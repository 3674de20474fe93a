------------------------------ MODULE TurnPipeline ------------------------------
(***************************************************************************)
(* The stages of one turn (CoordinatorAgent.run_turn): route, retrieve,    *)
(* rank, build the context, optionally run the graph orchestration next to *)
(* it, choose the authoritative context, call the model, save the answer.  *)
(*                                                                         *)
(* One ChatService, and with it one RetrieverDispatcher, serves every chat *)
(* of a model; the turns of different chats run on worker threads.  The    *)
(* dispatcher collects the errors of a retrieval in an attribute, so the   *)
(* turns share it: an action is a part of run_turn between two accesses to *)
(* what turns share.  The plans come from the routers of module Routing;   *)
(* what is retrieved is the set of sources that returned something.        *)
(***************************************************************************)
EXTENDS Routing, Naturals

CONSTANTS
  Turns,   \* chats in which a turn may be in flight
  Tracked  \* sources whose retrieval is followed; the others do not fail

ASSUME TrackedAssumption == Tracked \subseteq Sources

VARIABLES
  turn,      \* where each turn is and what it has found
  lastErrors \* RetrieverDispatcher.last_errors, the failed sources in it

pipelineVars == <<turn, lastErrors>>

Modes == {"native", "shadow", "demo"}
Stages == {"start", "retrieve", "expand", "read", "context", "graph",
           "validate", "assemble", "answer", "memory", "done", "raised"}
Replies == {"none", "model", "retrieval_failed", "insufficient", "error"}
Contracts == SUBSET {"raw_span", "not_gist_only", "document_citation",
                     "structured_memory"}

(* plan: sources left to retrieve; errors: last_errors as read; graphPlan, *)
(* contract, packet: of the graph; demo: its context is authoritative.     *)
(* Only for properties, and forgotten with the next stage: searched (the   *)
(* native plan), failed (the turn's own failed sources), disturbed         *)
(* (another turn wrote last_errors while this one collected).              *)
TurnStates == [stage : Stages, mode : Modes, attached : BOOLEAN,
               sticky : BOOLEAN, plan : SUBSET Tracked,
               searched : SUBSET Tracked, failed : SUBSET Tracked,
               disturbed : BOOLEAN, errors : SUBSET Tracked,
               graphPlan : SUBSET Tracked, contract : Contracts,
               packet : SUBSET Tracked, demo : BOOLEAN,
               prompt : {"none", "packet", "legacy"}, called : BOOLEAN,
               answerFailed : BOOLEAN, reply : Replies]

\* a turn whose message may come with a file and whose chat may have documents
NewTurn(mode, attached, sticky) ==
  [stage |-> "start", mode |-> mode, attached |-> attached, sticky |-> sticky,
   plan |-> {}, searched |-> {}, failed |-> {}, disturbed |-> FALSE,
   errors |-> {}, graphPlan |-> {}, contract |-> {}, packet |-> {},
   demo |-> FALSE, prompt |-> "none", called |-> FALSE,
   answerFailed |-> FALSE, reply |-> "none"]

\* a chat in which nothing is sent
NoTurn == [NewTurn("native", FALSE, FALSE) EXCEPT !.stage = "done"]

PipelineInit ==
  /\ turn \in [Turns -> {NewTurn(m, a, s) : m \in Modes, a \in BOOLEAN,
                                            s \in BOOLEAN} \cup {NoTurn}]
  /\ lastErrors = {}

At(t, stage) == turn[t].stage = stage
Collecting == {"retrieve", "expand", "read"}

\* turn t becomes r, and the turns that are collecting errors are disturbed
Disturb(t, r) ==
  turn' = [u \in Turns |->
             IF u = t THEN r
             ELSE IF turn[u].stage \in Collecting
                  THEN [turn[u] EXCEPT !.disturbed = TRUE] ELSE turn[u]]
Become(t, r) == turn' = [turn EXCEPT ![t] = r]

-----------------------------------------------------------------------------
(* Routing and retrieval.                                                  *)

\* what the routers can answer, restricted to the tracked sources
NativePlans == {RouteNative(m, terms, gists, a).sources \cap Tracked :
                  m \in RoutingModes, terms \in SUBSET Terms,
                  gists \in BOOLEAN, a \in ModelAnswers}
SemanticPlans(context) ==
  {[sources  |-> RouteSemantic(g, context).sources \cap Tracked,
    contract |-> RouteSemantic(g, context).contract] : g \in Messages}
PlainPlans == SemanticPlans("none")
DocumentPlans == SemanticPlans("document_qa")

(* require_document_memory for a file of this message, and                 *)
(* require_chat_document_memory for the documents of the chat.             *)
Documents(t) == IF turn[t].attached \/ turn[t].sticky
                  THEN {"document_memory"} \cap Tracked ELSE {}

\* Mutant: the errors of the last retrieval stay
BugRoute(t, plan) ==
  /\ At(t, "start")
  /\ Become(t, [turn[t] EXCEPT !.stage = "retrieve",
                               !.plan = plan \cup Documents(t),
                               !.searched = plan \cup Documents(t)])
  /\ UNCHANGED lastErrors

\* up to the reset of last_errors at the head of RetrieverDispatcher.retrieve
Route(t, plan) ==
  /\ At(t, "start")
  /\ Disturb(t, [turn[t] EXCEPT !.stage = "retrieve",
                                !.plan = plan \cup Documents(t),
                                !.searched = plan \cup Documents(t)])
  /\ lastErrors' = {}

\* the sources of a plan are retrieved in the order of the planner's policy
Order == [recent_messages |-> 1, structured_memory |-> 2, current_chat_gist |-> 3,
          current_chat_span |-> 4, previous_chat_gist |-> 5,
          raw_message_span |-> 6, document_memory |-> 7]
IsNext(t, s) == s \in turn[t].plan
                /\ \A u \in turn[t].plan : Order[s] <= Order[u]

(* One source: its retriever returns; or the scope of the documents or the *)
(* retriever (for documents also the second, widened search) raises.       *)
RetrieveSource(t, s) ==
  /\ At(t, "retrieve") /\ IsNext(t, s)
  /\ Become(t, [turn[t] EXCEPT !.plan = @ \ {s}])
  /\ UNCHANGED lastErrors

SourceFails(t, s) ==
  /\ At(t, "retrieve") /\ IsNext(t, s)
  /\ Disturb(t, [turn[t] EXCEPT !.plan = @ \ {s}, !.failed = @ \cup {s}])
  /\ lastErrors' = lastErrors \cup {s}

\* GistRawSpanExpander.expand reads the database outside of any try
Expand(t) ==
  /\ At(t, "retrieve") /\ turn[t].plan = {}
  /\ \E s \in {"read", "raised"} : Become(t, [turn[t] EXCEPT !.stage = s])
  /\ UNCHANGED lastErrors

ReadErrors(t) ==
  /\ At(t, "read")
  /\ Become(t, [turn[t] EXCEPT !.stage = "context", !.errors = lastErrors])
  /\ UNCHANGED lastErrors

\* rank_with_trace, expand_document_neighbors and build_context_packet
BuildContext(t) ==
  /\ At(t, "context")
  /\ \E s \in {IF turn[t].mode = "native" THEN "assemble" ELSE "graph",
               "raised"} :
       Become(t, [turn[t] EXCEPT !.stage = s, !.searched = {}, !.failed = {},
                                 !.disturbed = FALSE])
  /\ UNCHANGED lastErrors

-----------------------------------------------------------------------------
(* The graph orchestration.  It calls the retrievers itself and keeps its  *)
(* errors in its own state: the nodes of one turn touch nothing shared.    *)

(* A node raises, or errors were collected: run_turn keeps the native      *)
(* context (and reports a fallback when the graph was to be authoritative).*)
GraphFails(t) ==
  /\ turn[t].stage \in {"graph", "validate"}
  /\ Become(t, [turn[t] EXCEPT !.stage = "assemble", !.contract = {},
                               !.packet = {}, !.graphPlan = {}])
  /\ UNCHANGED lastErrors

\* _merge_force_enabled_sources
WithForced(t, sources) ==
  IF turn[t].sticky THEN sources \cup ({"document_memory"} \cap Tracked)
                    ELSE sources

\* the raw spans behind the gists that were found
Expanded(found) == IF "previous_chat_gist" \in found
                     THEN found \cup ({"raw_message_span"} \cap Tracked)
                     ELSE found

(* route, retrieve, expand_gists, rerank, expand_doc_neighbors and         *)
(* build_context: some of what was found reaches the packet.               *)
GraphBuild(t, plan, packet) ==
  /\ At(t, "graph")
  /\ plan \in IF turn[t].attached THEN DocumentPlans ELSE PlainPlans
  /\ packet \subseteq Expanded(WithForced(t, plan.sources))
  /\ Become(t, [turn[t] EXCEPT !.stage = "validate",
                               !.graphPlan = WithForced(t, plan.sources),
                               !.contract = plan.contract, !.packet = packet])
  /\ UNCHANGED lastErrors

\* the graph ends without error: in demo mode its context is authoritative
GraphEnds(t) ==
  /\ At(t, "validate")
  /\ Become(t, [turn[t] EXCEPT !.stage = "assemble",
                               !.demo = turn[t].mode = "demo"])
  /\ UNCHANGED lastErrors

-----------------------------------------------------------------------------
(* The answer.                                                             *)

Insufficient(t) == turn[t].demo
                   /\ FailsContract(turn[t].contract, turn[t].packet)
FailedRetrieval(t) == turn[t].demo /\ turn[t].errors # {}

(* The legacy context is built and compared, the packet is validated; an   *)
(* invalid packet is replaced by the legacy messages.                      *)
Assemble(t) ==
  /\ At(t, "assemble")
  /\ \/ \E p \in {"packet", "legacy"} :
          Become(t, [turn[t] EXCEPT !.stage = "answer", !.prompt = p])
     \/ Become(t, [turn[t] EXCEPT !.stage = "raised"])
  /\ UNCHANGED lastErrors

(* "I do not have sufficient grounded evidence": only reached when no      *)
(* retrieval error was reported.                                           *)
Refuse(t) ==
  /\ At(t, "answer") /\ ~FailedRetrieval(t) /\ Insufficient(t)
  /\ Become(t, [turn[t] EXCEPT !.stage = "memory", !.reply = "insufficient"])
  /\ UNCHANGED lastErrors

(* The else branch also takes the turns whose reply is already "Retrieval  *)
(* failed": the reply of the model replaces it, answer_failed stays.       *)
MayCall(t) == FailedRetrieval(t) \/ ~Insufficient(t)

\* Mutant: the flag of the failed retrieval is forgotten
BugCallModel(t, outcome) ==
  /\ At(t, "answer") /\ MayCall(t)
  /\ Become(t, [turn[t] EXCEPT !.stage = "memory", !.called = TRUE,
                               !.reply = outcome,
                               !.answerFailed = (outcome = "error")])
  /\ UNCHANGED lastErrors

\* chat_agent.generate, and save_message of whatever became the response
CallModel(t, outcome) ==
  /\ At(t, "answer") /\ MayCall(t)
  /\ Become(t, [turn[t] EXCEPT !.stage = "memory", !.called = TRUE,
                               !.reply = outcome,
                               !.answerFailed = FailedRetrieval(t)
                                                \/ outcome = "error"])
  /\ UNCHANGED lastErrors

\* an exception that no clause names (or a failed save) ends the turn
CallRaises(t) ==
  /\ At(t, "answer")
  /\ Become(t, [turn[t] EXCEPT !.stage = "raised", !.called = MayCall(t)])
  /\ UNCHANGED lastErrors

\* update_memory_if_needed, and the trace; the answer is already saved
Finish(t) ==
  /\ At(t, "memory")
  /\ Become(t, [turn[t] EXCEPT !.stage = "done"])
  /\ UNCHANGED lastErrors

TurnNext(t) ==
  \/ \E plan \in NativePlans : Route(t, plan)
  \/ \E s \in Tracked : RetrieveSource(t, s) \/ SourceFails(t, s)
  \/ Expand(t) \/ ReadErrors(t) \/ BuildContext(t)
  \/ GraphFails(t) \/ GraphEnds(t)
  \/ \E plan \in PlainPlans \cup DocumentPlans, packet \in SUBSET Tracked :
       GraphBuild(t, plan, packet)
  \/ Assemble(t) \/ Refuse(t) \/ CallRaises(t) \/ Finish(t)
  \/ \E outcome \in {"model", "error"} : CallModel(t, outcome)

PipelineNext == \E t \in Turns : TurnNext(t)
PipelineSpec == PipelineInit /\ [][PipelineNext]_pipelineVars

-----------------------------------------------------------------------------
(* Properties.                                                             *)

PipelineTypeOK == /\ turn \in [Turns -> TurnStates]
                  /\ lastErrors \subseteq Tracked

Answered(t) == turn[t].stage \in {"memory", "done"}

(* A turn reports exactly the errors of its own retrieval, unless another  *)
(* turn used the shared dispatcher meanwhile: nothing is left over from an *)
(* earlier retrieval, nothing is lost before it is read.                   *)
ErrorsAreTheTurnsOwn ==
  \A t \in Turns : (At(t, "context") /\ ~turn[t].disturbed)
                   => turn[t].errors = turn[t].failed

(* In demo mode an answer shown as completed and prompted with the graph's *)
(* packet rests on the evidence its contract demands; a graph that failed  *)
(* cannot have left its packet behind.                                     *)
CompletedDemoAnswersAreGrounded ==
  \A t \in Turns : (Answered(t) /\ turn[t].demo /\ turn[t].prompt = "packet"
                    /\ turn[t].reply = "model" /\ ~turn[t].answerFailed)
                   => ~FailsContract(turn[t].contract, turn[t].packet)

=============================================================================
