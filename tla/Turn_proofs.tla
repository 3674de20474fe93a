------------------------------ MODULE Turn_proofs ------------------------------
(***************************************************************************)
(* Theorems of a turn: the pipeline of its sources and their errors, the   *)
(* contract of its answer, the messages its model call is made of, the     *)
(* connection that the calls share, and the count of the tokens they cost. *)
(***************************************************************************)
EXTENDS TurnPipeline, RoutingMessages, PromptMessages, ConnectionGuard, TokenCounting, TLAPS

-----------------------------------------------------------------------------
(***************************************************************************)
(* Any number of turns at once, whatever sources are tracked and whatever  *)
(* the routers answer.  That a turn reads its own errors rests on          *)
(* Collected: as long as no other turn wrote the shared list, it holds     *)
(* what the turn's own sources reported so far.                            *)
(***************************************************************************)

(* What the shared list holds while an undisturbed turn collects, and what *)
(* the turn has copied of it once it has read it.                          *)
Collected ==
  \A t \in Turns :
    /\ At(t, "start") => turn[t].failed = {}
    /\ (turn[t].stage \in Collecting /\ ~turn[t].disturbed) => lastErrors = turn[t].failed

PipelineInv == PipelineTypeOK /\ Collected /\ ErrorsAreTheTurnsOwn

-----------------------------------------------------------------------------
LEMMA NewTurnTypes ==
  ASSUME NEW m \in Modes, NEW a \in BOOLEAN, NEW s \in BOOLEAN
  PROVE  NewTurn(m, a, s) \in TurnStates /\ NoTurn \in TurnStates
  BY DEF NewTurn, NoTurn, TurnStates, Modes, Stages, Contracts, Replies

LEMMA PipelineInitInv == PipelineInit => PipelineInv /\ CompletedDemoAnswersAreGrounded
<1> SUFFICES ASSUME PipelineInit PROVE PipelineInv /\ CompletedDemoAnswersAreGrounded
  OBVIOUS
<1>1. PipelineTypeOK
  <2>1. {NewTurn(m, a, s) : m \in Modes, a \in BOOLEAN, s \in BOOLEAN} \cup {NoTurn}
          \subseteq TurnStates
    <3>1. ASSUME NEW m \in Modes, NEW a \in BOOLEAN, NEW s \in BOOLEAN
          PROVE  NewTurn(m, a, s) \in TurnStates
      BY NewTurnTypes
    <3>2. NoTurn \in TurnStates
      BY NewTurnTypes, "native" \in Modes DEF Modes
    <3> QED
      BY <3>1, <3>2
  <2> QED
    BY <2>1 DEF PipelineInit, PipelineTypeOK
<1>2. \A t \in Turns : /\ turn[t].failed = {} /\ turn[t].demo = FALSE
                       /\ turn[t].stage \in {"start", "done"}
  BY DEF PipelineInit, NewTurn, NoTurn
<1> QED
  BY <1>1, <1>2 DEF PipelineInv, Collected, ErrorsAreTheTurnsOwn, At, Collecting,
                    CompletedDemoAnswersAreGrounded, Answered

(* The semantic router demands only evidence the contract knows.           *)
LEMMA PlanTypes ==
  ASSUME NEW plan \in PlainPlans \cup DocumentPlans
  PROVE  plan.sources \in SUBSET Tracked /\ plan.contract \in Contracts
<1>1. ASSUME NEW g, NEW context PROVE RouteSemantic(g, context).contract \in Contracts
  <2>1. RouteSemantic(g, context).contract = EvidenceContract(SemanticIntent(g, context))
    BY DEF RouteSemantic
  <2> HIDE DEF RouteSemantic
  <2>2. ASSUME NEW intent PROVE EvidenceContract(intent) \in Contracts
    BY DEF EvidenceContract, Contracts
  <2> QED
    BY <2>1, <2>2
<1>2. PICK g \in Messages, context \in {"none", "document_qa"} :
        plan = [sources  |-> RouteSemantic(g, context).sources \cap Tracked,
                contract |-> RouteSemantic(g, context).contract]
  BY DEF PlainPlans, DocumentPlans, SemanticPlans
<1> QED
  BY <1>1, <1>2

(* A turn that becomes another turn, with or without disturbing the rest.  *)
LEMMA BecomeTypes ==
  ASSUME PipelineTypeOK, NEW t \in Turns, NEW r \in TurnStates,
         Become(t, r) \/ Disturb(t, r), lastErrors' \in SUBSET Tracked
  PROVE  PipelineTypeOK'
<1>1. \A u \in Turns : [turn[u] EXCEPT !.disturbed = TRUE] \in TurnStates
  BY DEF PipelineTypeOK, TurnStates
<1> QED
  BY <1>1 DEF PipelineTypeOK, Become, Disturb

(* Every step of a turn keeps the types.                                   *)
LEMMA PipelineTypeStep ==
  ASSUME PipelineTypeOK, NEW t \in Turns, TurnNext(t)
  PROVE  PipelineTypeOK'
<1>t. turn[t] \in TurnStates /\ lastErrors \in SUBSET Tracked
  BY DEF PipelineTypeOK
<1>1. ASSUME NEW plan \in NativePlans, Route(t, plan) PROVE PipelineTypeOK'
  <2>1. plan \in SUBSET Tracked
    BY DEF NativePlans
  <2>2. Documents(t) \in SUBSET Tracked
    BY DEF Documents
  <2>3. [turn[t] EXCEPT !.stage = "retrieve", !.plan = plan \cup Documents(t),
                        !.searched = plan \cup Documents(t)] \in TurnStates
    BY <1>t, <2>1, <2>2 DEF TurnStates, Stages
  <2> QED
    BY <1>1, <2>3, BecomeTypes DEF Route
<1>2. ASSUME NEW s \in Tracked, RetrieveSource(t, s) PROVE PipelineTypeOK'
  <2>1. [turn[t] EXCEPT !.plan = @ \ {s}] \in TurnStates
    BY <1>t DEF TurnStates
  <2> QED
    BY <1>2, <1>t, <2>1, BecomeTypes DEF RetrieveSource
<1>3. ASSUME NEW s \in Tracked, SourceFails(t, s) PROVE PipelineTypeOK'
  <2>1. [turn[t] EXCEPT !.plan = @ \ {s}, !.failed = @ \cup {s}] \in TurnStates
    BY <1>t DEF TurnStates
  <2> QED
    BY <1>3, <1>t, <2>1, BecomeTypes DEF SourceFails
<1>4. CASE Expand(t)
  <2>1. \A s \in {"read", "raised"} : [turn[t] EXCEPT !.stage = s] \in TurnStates
    BY <1>t DEF TurnStates, Stages
  <2> QED
    BY <1>4, <1>t, <2>1, BecomeTypes DEF Expand
<1>5. CASE ReadErrors(t)
  <2>1. [turn[t] EXCEPT !.stage = "context", !.errors = lastErrors] \in TurnStates
    BY <1>t DEF TurnStates, Stages
  <2> QED
    BY <1>5, <1>t, <2>1, BecomeTypes DEF ReadErrors
<1>6. CASE BuildContext(t)
  <2>1. \A s \in Stages :
          [turn[t] EXCEPT !.stage = s, !.searched = {}, !.failed = {}, !.disturbed = FALSE]
            \in TurnStates
    BY <1>t DEF TurnStates
  <2>2. \A s \in {IF turn[t].mode = "native" THEN "assemble" ELSE "graph", "raised"} :
          s \in Stages
    BY DEF Stages
  <2> QED
    BY <1>6, <1>t, <2>1, <2>2, BecomeTypes DEF BuildContext
<1>7. CASE GraphFails(t)
  <2>1. {} \in Contracts
    BY DEF Contracts
  <2>2. [turn[t] EXCEPT !.stage = "assemble", !.contract = {}, !.packet = {}, !.graphPlan = {}]
          \in TurnStates
    BY <1>t, <2>1 DEF TurnStates, Stages
  <2> QED
    BY <1>7, <1>t, <2>2, BecomeTypes DEF GraphFails
<1>8. CASE GraphEnds(t)
  <2>1. [turn[t] EXCEPT !.stage = "assemble", !.demo = turn[t].mode = "demo"] \in TurnStates
    BY <1>t DEF TurnStates, Stages
  <2> QED
    BY <1>8, <1>t, <2>1, BecomeTypes DEF GraphEnds
<1>9. ASSUME NEW plan \in PlainPlans \cup DocumentPlans, NEW packet \in SUBSET Tracked,
             GraphBuild(t, plan, packet)
      PROVE  PipelineTypeOK'
  <2>1. WithForced(t, plan.sources) \in SUBSET Tracked /\ plan.contract \in Contracts
    BY PlanTypes DEF WithForced
  <2>2. [turn[t] EXCEPT !.stage = "validate", !.graphPlan = WithForced(t, plan.sources),
                        !.contract = plan.contract, !.packet = packet] \in TurnStates
    BY <1>t, <2>1 DEF TurnStates, Stages
  <2> QED
    BY <1>9, <1>t, <2>2, BecomeTypes DEF GraphBuild
<1>10. CASE Assemble(t)
  <2>1. /\ \A p \in {"packet", "legacy"} :
             [turn[t] EXCEPT !.stage = "answer", !.prompt = p] \in TurnStates
        /\ [turn[t] EXCEPT !.stage = "raised"] \in TurnStates
    BY <1>t DEF TurnStates, Stages
  <2> QED
    BY <1>10, <1>t, <2>1, BecomeTypes DEF Assemble
<1>11. CASE Refuse(t)
  <2>1. [turn[t] EXCEPT !.stage = "memory", !.reply = "insufficient"] \in TurnStates
    BY <1>t DEF TurnStates, Stages, Replies
  <2> QED
    BY <1>11, <1>t, <2>1, BecomeTypes DEF Refuse
<1>12. CASE Finish(t)
  <2>1. [turn[t] EXCEPT !.stage = "done"] \in TurnStates
    BY <1>t DEF TurnStates, Stages
  <2> QED
    BY <1>12, <1>t, <2>1, BecomeTypes DEF Finish
<1>13. CASE CallRaises(t)
  <2>1. MayCall(t) \in BOOLEAN
    BY DEF MayCall, FailedRetrieval, Insufficient, FailsContract
  <2>2. [turn[t] EXCEPT !.stage = "raised", !.called = MayCall(t)] \in TurnStates
    BY <1>t, <2>1 DEF TurnStates, Stages
  <2> QED
    BY <1>13, <1>t, <2>2, BecomeTypes DEF CallRaises
<1>14. ASSUME NEW outcome \in {"model", "error"}, CallModel(t, outcome) PROVE PipelineTypeOK'
  <2>1. (FailedRetrieval(t) \/ outcome = "error") \in BOOLEAN
    OBVIOUS
  <2>2. [turn[t] EXCEPT !.stage = "memory", !.called = TRUE, !.reply = outcome,
                        !.answerFailed = FailedRetrieval(t) \/ outcome = "error"] \in TurnStates
    BY <1>t, <2>1 DEF TurnStates, Stages, Replies
  <2> QED
    BY <1>14, <1>t, <2>2, BecomeTypes DEF CallModel
<1> QED
  BY <1>1, <1>2, <1>3, <1>4, <1>5, <1>6, <1>7, <1>8, <1>9, <1>10, <1>11, <1>12, <1>13, <1>14
     DEF TurnNext

(* After the context is built a turn has nothing to do with the list.      *)
LEMMA LaterStages ==
  ASSUME PipelineInv, NEW t \in Turns, NEW r, Become(t, r), lastErrors' = lastErrors,
         r.stage \notin {"start", "retrieve", "expand", "read", "context"}
  PROVE  Collected' /\ ErrorsAreTheTurnsOwn'
  BY DEF PipelineInv, PipelineTypeOK, Collected, ErrorsAreTheTurnsOwn, Become, At, Collecting

(* Every step of a turn keeps what an undisturbed turn may expect of the   *)
(* shared list.                                                            *)
LEMMA CollectedStep ==
  ASSUME PipelineInv, NEW t \in Turns, TurnNext(t)
  PROVE  Collected' /\ ErrorsAreTheTurnsOwn'
<1> USE DEF PipelineInv, PipelineTypeOK, Collected, ErrorsAreTheTurnsOwn, Become, Disturb, At,
            Collecting
<1>t. turn[t] \in TurnStates
  OBVIOUS
<1> DEFINE Kept == Collected' /\ ErrorsAreTheTurnsOwn'
<1>1. ASSUME NEW plan \in NativePlans, Route(t, plan) PROVE Kept
  BY <1>1, <1>t DEF Route, TurnStates
<1>2. ASSUME NEW s \in Tracked, RetrieveSource(t, s) PROVE Kept
  BY <1>2, <1>t DEF RetrieveSource, TurnStates
<1>3. ASSUME NEW s \in Tracked, SourceFails(t, s) PROVE Kept
  BY <1>3, <1>t DEF SourceFails, TurnStates
<1>4. CASE Expand(t)
  BY <1>4, <1>t DEF Expand, TurnStates
<1>5. CASE ReadErrors(t)
  <2>1. turn' = [turn EXCEPT ![t] = [turn[t] EXCEPT !.stage = "context", !.errors = lastErrors]]
    BY <1>5 DEF ReadErrors
  <2>2. /\ turn'[t].stage = "context" /\ turn'[t].errors = lastErrors
        /\ turn'[t].failed = turn[t].failed /\ turn'[t].disturbed = turn[t].disturbed
        /\ \A u \in Turns \ {t} : turn'[u] = turn[u]
    BY <1>t, <2>1 DEF TurnStates
  <2> QED
    BY <1>5, <2>2 DEF ReadErrors
<1>6. CASE BuildContext(t)
  <2>1. PICK s \in {"assemble", "graph", "raised"} :
          turn' = [turn EXCEPT ![t] = [turn[t] EXCEPT !.stage = s, !.searched = {},
                                                      !.failed = {}, !.disturbed = FALSE]]
    BY <1>6 DEF BuildContext
  <2>2. /\ turn'[t].stage \in {"assemble", "graph", "raised"}
        /\ \A u \in Turns \ {t} : turn'[u] = turn[u]
    BY <1>t, <2>1 DEF TurnStates
  <2> QED
    BY <1>6, <2>2 DEF BuildContext
<1>7. CASE GraphFails(t)
  BY <1>7, <1>t DEF GraphFails, TurnStates
<1>8. CASE GraphEnds(t)
  BY <1>8, <1>t DEF GraphEnds, TurnStates
<1>9. ASSUME NEW plan \in PlainPlans \cup DocumentPlans, NEW packet \in SUBSET Tracked,
             GraphBuild(t, plan, packet)
      PROVE  Kept
  BY <1>9, <1>t DEF GraphBuild, TurnStates
<1>10. CASE Assemble(t)
  <2> HIDE DEF Become
  <2>1. /\ \A p \in {"packet", "legacy"} :
             [turn[t] EXCEPT !.stage = "answer", !.prompt = p].stage = "answer"
        /\ [turn[t] EXCEPT !.stage = "raised"].stage = "raised"
    BY <1>t DEF TurnStates
  <2> QED
    BY <1>10, <2>1, LaterStages DEF Assemble
<1>11. CASE Refuse(t) \/ Finish(t) \/ CallRaises(t)
  <2> HIDE DEF Become
  <2>1. /\ [turn[t] EXCEPT !.stage = "memory", !.reply = "insufficient"].stage = "memory"
        /\ [turn[t] EXCEPT !.stage = "done"].stage = "done"
        /\ [turn[t] EXCEPT !.stage = "raised", !.called = MayCall(t)].stage = "raised"
    BY <1>t DEF TurnStates
  <2> QED
    BY <1>11, <2>1, LaterStages DEF Refuse, Finish, CallRaises
<1>12. ASSUME NEW outcome \in {"model", "error"}, CallModel(t, outcome) PROVE Kept
  <2> HIDE DEF Become
  <2> DEFINE r == [turn[t] EXCEPT !.stage = "memory", !.called = TRUE, !.reply = outcome,
                     !.answerFailed = FailedRetrieval(t) \/ outcome = "error"]
  <2>1. r.stage = "memory"
    BY <1>t DEF TurnStates
  <2> QED
    BY <1>12, <2>1, LaterStages DEF CallModel
<1> QED
  BY <1>1, <1>2, <1>3, <1>4, <1>5, <1>6, <1>7, <1>8, <1>9, <1>10, <1>11, <1>12 DEF TurnNext

LEMMA PipelineInvariant == PipelineSpec => []PipelineInv
<1>1. PipelineInv /\ [PipelineNext]_pipelineVars => PipelineInv'
  <2>1. ASSUME PipelineInv, UNCHANGED pipelineVars PROVE PipelineInv'
    BY <2>1 DEF pipelineVars, PipelineInv, PipelineTypeOK, Collected, ErrorsAreTheTurnsOwn, At,
                Collecting
  <2> QED
    BY <2>1, PipelineTypeStep, CollectedStep DEF PipelineNext, PipelineInv
<1> QED
  BY <1>1, PipelineInitInv, PTL DEF PipelineSpec

-----------------------------------------------------------------------------
(* The states of the turns and the shared list are typed, for every set of *)
(* tracked sources.                                                        *)
THEOREM TurnsTyped == PipelineSpec => []PipelineTypeOK
<1>1. PipelineInv => PipelineTypeOK
  BY DEF PipelineInv
<1> QED
  BY <1>1, PipelineInvariant, PTL

(* CoordinatorAgent.run_turn reads RetrieverDispatcher.last_errors after   *)
(* the retrieval: what it reads is what its own sources reported, unless   *)
(* another turn used the dispatcher meanwhile.                             *)
THEOREM ErrorsAreOwn == PipelineSpec => []ErrorsAreTheTurnsOwn
<1>1. PipelineInv => ErrorsAreTheTurnsOwn
  BY DEF PipelineInv
<1> QED
  BY <1>1, PipelineInvariant, PTL

(* What a completed answer of the graph must be.                           *)
Grounded(r) ==
  (/\ r.stage \in {"memory", "done"} /\ r.demo /\ r.prompt = "packet"
   /\ r.reply = "model" /\ ~r.answerFailed)
    => ~FailsContract(r.contract, r.packet)

(* The answer is the only stage that may complete a turn of the graph: a   *)
(* reply of the model that is not flagged was called with the evidence     *)
(* the contract demands, and nothing after it changes the packet.          *)
LEMMA GroundedStep ==
  ASSUME PipelineTypeOK, \A u \in Turns : Grounded(turn[u]), NEW t \in Turns, TurnNext(t)
  PROVE  \A u \in Turns : Grounded(turn'[u])
<1>t. turn[t] \in TurnStates /\ Grounded(turn[t])
  BY DEF PipelineTypeOK
<1>1. ASSUME NEW u \in Turns PROVE Grounded([turn[u] EXCEPT !.disturbed = TRUE])
  BY DEF PipelineTypeOK, TurnStates, Grounded
<1>2. ASSUME NEW r, Become(t, r) \/ Disturb(t, r), Grounded(r)
      PROVE  \A u \in Turns : Grounded(turn'[u])
  BY <1>1, <1>2 DEF PipelineTypeOK, Become, Disturb
<1>3. ASSUME NEW r, r.stage \notin {"memory", "done"}, Become(t, r) \/ Disturb(t, r)
      PROVE  \A u \in Turns : Grounded(turn'[u])
  BY <1>2, <1>3 DEF Grounded
<1>4. ASSUME NEW plan \in NativePlans, Route(t, plan) PROVE \A u \in Turns : Grounded(turn'[u])
  BY <1>4, <1>3, <1>t DEF Route, TurnStates
<1>5. ASSUME NEW s \in Tracked, RetrieveSource(t, s) \/ SourceFails(t, s)
      PROVE  \A u \in Turns : Grounded(turn'[u])
  BY <1>5, <1>3, <1>t DEF RetrieveSource, SourceFails, At, TurnStates
<1>6. CASE Expand(t) \/ ReadErrors(t) \/ BuildContext(t)
  BY <1>6, <1>3, <1>t DEF Expand, ReadErrors, BuildContext, TurnStates
<1>7. CASE GraphFails(t) \/ GraphEnds(t) \/ Assemble(t)
  BY <1>7, <1>3, <1>t DEF GraphFails, GraphEnds, Assemble, TurnStates
<1>8. ASSUME NEW plan \in PlainPlans \cup DocumentPlans, NEW packet \in SUBSET Tracked,
             GraphBuild(t, plan, packet)
      PROVE  \A u \in Turns : Grounded(turn'[u])
  BY <1>8, <1>3, <1>t DEF GraphBuild, TurnStates
<1>9. CASE CallRaises(t)
  <2>1. [turn[t] EXCEPT !.stage = "raised", !.called = MayCall(t)].stage = "raised"
    BY <1>t DEF TurnStates
  <2> QED
    BY <1>9, <1>3, <2>1 DEF CallRaises
<1>10. CASE Refuse(t)
  <2>1. Grounded([turn[t] EXCEPT !.stage = "memory", !.reply = "insufficient"])
    BY <1>t DEF TurnStates, Grounded
  <2> QED
    BY <1>10, <1>2, <2>1 DEF Refuse
<1>11. CASE Finish(t)
  <2>1. Grounded([turn[t] EXCEPT !.stage = "done"])
    BY <1>11, <1>t DEF TurnStates, Grounded, Finish, At
  <2> QED
    BY <1>11, <1>2, <2>1 DEF Finish
<1>12. ASSUME NEW outcome \in {"model", "error"}, CallModel(t, outcome)
       PROVE  \A u \in Turns : Grounded(turn'[u])
  <2> DEFINE flag == FailedRetrieval(t) \/ outcome = "error"
             r == [turn[t] EXCEPT !.stage = "memory", !.called = TRUE, !.reply = outcome,
                                  !.answerFailed = flag]
  <2>1. r.demo = turn[t].demo /\ r.contract = turn[t].contract /\ r.packet = turn[t].packet
    BY <1>t DEF TurnStates
  <2>2. r.answerFailed = flag
    BY <1>t DEF TurnStates
  <2>3. flag \/ ~Insufficient(t)
    BY <1>12 DEF CallModel, MayCall
  <2>4. Grounded(r)
    BY <2>1, <2>2, <2>3 DEF Grounded, Insufficient
  <2> QED
    BY <1>12, <1>2, <2>4 DEF CallModel
<1> QED
  BY <1>4, <1>5, <1>6, <1>7, <1>8, <1>9, <1>10, <1>11, <1>12 DEF TurnNext

(* In demo mode an answer that is shown as completed and was prompted with *)
(* the graph's packet rests on the evidence its contract demands, whatever *)
(* failed before.                                                          *)
THEOREM DemoAnswersAreGrounded == PipelineSpec => []CompletedDemoAnswersAreGrounded
<1> DEFINE AllGrounded == \A t \in Turns : Grounded(turn[t])
<1>1. AllGrounded <=> CompletedDemoAnswersAreGrounded
  BY DEF CompletedDemoAnswersAreGrounded, Answered, Grounded
<1>2. PipelineInit => AllGrounded
  BY <1>1, PipelineInitInv
<1>3. PipelineTypeOK /\ AllGrounded /\ [PipelineNext]_pipelineVars => AllGrounded'
  BY GroundedStep DEF PipelineNext, pipelineVars
<1> HIDE DEF AllGrounded
<1> QED
  BY <1>1, <1>2, <1>3, TurnsTyped, PTL DEF PipelineSpec

-----------------------------------------------------------------------------
(* RoutingMessages: whatever a message names, the contract it asks for can *)
(* be met by the sources that are searched.                                *)

(* The sources of a scope are searched whenever the scope is required.     *)
LEMMA ScopesAreSearched ==
  ASSUME NEW scopes, NEW s \in scopes
  PROVE  SourcesOfScope(s) \subseteq SourcesFor(scopes)
BY DEF SourcesFor

(* A quote is looked for in a chat, in which its raw spans are: in the     *)
(* ones the message names or, when it names nothing at all, in all.        *)
LEMMA QuotesSearchRawSpans ==
  ASSUME NEW g \in Messages, "quote" \in g,
         "document" \notin g \/ "current" \in g \/ "previous" \in g
  PROVE  SourcesFor(RequiredScopes(g, "EXACT_QUOTE")) \cap RawEvidence # {}
<1> DEFINE scopes == RequiredScopes(g, "EXACT_QUOTE")
           found == SourcesFor(scopes)
<1>1. "current_chat" \in scopes \/ "previous_chat" \in scopes
  BY DEF RequiredScopes, NamedScopes
<1>2. CASE "current_chat" \in scopes
  <2>1. SourcesOfScope("current_chat") \subseteq found
    <3> HIDE DEF scopes
    <3> QED
      BY <1>2, ScopesAreSearched
  <2>2. "current_chat_span" \in SourcesOfScope("current_chat")
    BY DEF SourcesOfScope
  <2> QED
    BY <2>1, <2>2 DEF RawEvidence
<1>3. CASE "previous_chat" \in scopes
  <2>1. SourcesOfScope("previous_chat") \subseteq found
    <3> HIDE DEF scopes
    <3> QED
      BY <1>3, ScopesAreSearched
  <2>2. "raw_message_span" \in SourcesOfScope("previous_chat")
    BY DEF SourcesOfScope
  <2> QED
    BY <2>1, <2>2 DEF RawEvidence
<1> QED
  BY <1>1, <1>2, <1>3

\* the route of a message, by its intent
LEMMA RoutesAreContracts ==
  ASSUME NEW g, NEW context
  PROVE  LET intent == SemanticIntent(g, context) IN
         /\ RouteSemantic(g, context).contract = EvidenceContract(intent)
         /\ RouteSemantic(g, context).sources = SourcesFor(RequiredScopes(g, intent))
<1> DEFINE intent == SemanticIntent(g, context)
<1> HIDE DEF intent
<1>1. /\ RouteSemantic(g, context).contract = EvidenceContract(intent)
      /\ RouteSemantic(g, context).sources = SourcesFor(RequiredScopes(g, intent))
  BY DEF RouteSemantic, intent
<1> QED
  BY <1>1 DEF intent

(* SemanticRouter: sources_for and evidence_contract_for look at different *)
(* things (the scopes, the intent), and still every contract can be met by *)
(* the sources that are searched, for every message and task context but   *)
(* the quotes of a document.                                               *)
THEOREM EveryContractCanBeMet ==
  ASSUME NEW g \in Messages, NEW context \in TaskContexts,
         \/ "quote" \notin g \/ "document" \notin g
         \/ "current" \in g \/ "previous" \in g \/ context = "document_qa"
  PROVE  ~FailsContract(RouteSemantic(g, context).contract,
                        RouteSemantic(g, context).sources)
<1> DEFINE intent == SemanticIntent(g, context)
           scopes == RequiredScopes(g, intent)
           found == SourcesFor(scopes)
<1>1. SUFFICES ~FailsContract(EvidenceContract(intent), found)
  BY RoutesAreContracts
<1>2. CASE intent = "EXACT_QUOTE"
  <2>1. "quote" \in g /\ context # "document_qa"
    BY <1>2 DEF SemanticIntent, ClassifyIntent, TaskContexts
  <2>2. found \cap RawEvidence # {}
    BY <1>2, <2>1, QuotesSearchRawSpans
  <2>3. EvidenceContract(intent) = {"raw_span", "not_gist_only"}
    BY <1>2 DEF EvidenceContract
  <2> HIDE DEF found, intent
  <2> QED
    BY <2>2, <2>3 DEF FailsContract
<1>3. CASE intent = "DOCUMENT_QA"
  <2>1. "document" \in scopes
    <3> HIDE DEF intent
    <3> QED
      BY <1>3 DEF RequiredScopes, NamedScopes
  <2>2. "document_memory" \in found
    <3> HIDE DEF scopes
    <3>1. SourcesOfScope("document") \subseteq found
      BY <2>1, ScopesAreSearched
    <3> QED
      BY <3>1 DEF SourcesOfScope
  <2>3. EvidenceContract(intent) = {"document_citation"}
    BY <1>3 DEF EvidenceContract
  <2> HIDE DEF found, intent
  <2> QED
    BY <2>2, <2>3 DEF FailsContract
<1>4. CASE intent = "STRUCTURED_PREFERENCE_RECALL"
  <2>1. "durable" \in scopes
    <3> HIDE DEF intent
    <3> QED
      BY <1>4 DEF RequiredScopes, NamedScopes
  <2>2. "structured_memory" \in found
    <3> HIDE DEF scopes
    <3>1. SourcesOfScope("durable") \subseteq found
      BY <2>1, ScopesAreSearched
    <3> QED
      BY <3>1 DEF SourcesOfScope
  <2>3. EvidenceContract(intent) = {"structured_memory"}
    BY <1>4 DEF EvidenceContract
  <2> HIDE DEF found, intent
  <2> QED
    BY <2>2, <2>3 DEF FailsContract
<1>5. CASE intent \notin {"EXACT_QUOTE", "DOCUMENT_QA", "STRUCTURED_PREFERENCE_RECALL"}
  <2>1. EvidenceContract(intent) = {}
    <3> HIDE DEF intent
    <3> QED
      BY <1>5 DEF EvidenceContract
  <2> QED
    BY <2>1 DEF FailsContract
<1> QED
  BY <1>2, <1>3, <1>4, <1>5

(* Whatever message is routed, its evidence contract can be met.           *)
THEOREM ContractsCanBeMet == RoutingSpec => []ContractCanBeMet
<1> DEFINE Inv == /\ words = {} => message \in Messages /\ setting \in TaskContexts
                  /\ ContractCanBeMet
<1>1. RoutingInit => Inv
  BY DEF RoutingInit, ContractCanBeMet, Messages, TaskContexts
<1>2. Inv /\ [RoutingNext]_routingVars => Inv'
  <2> SUFFICES ASSUME Inv, [RoutingNext]_routingVars
               PROVE  Inv'
    OBVIOUS
  <2>1. CASE Semantic
    <3>1. /\ message \in Messages /\ setting \in TaskContexts
          /\ route' = RouteSemantic(message, setting)
          /\ UNCHANGED <<message, setting, words, native>>
      BY <2>1 DEF Semantic
    <3>2. ~QuotesADocument => ~FailsContract(route'.contract, route'.sources)
      <4> SUFFICES ASSUME ~QuotesADocument
                   PROVE  ~FailsContract(RouteSemantic(message, setting).contract,
                                         RouteSemantic(message, setting).sources)
        BY <3>1, Zenon
      <4> QED
        BY <3>1, EveryContractCanBeMet DEF QuotesADocument
    <3> QED
      BY <3>1, <3>2, Zenon DEF ContractCanBeMet, QuotesADocument
  <2>2. CASE (\E mode \in RoutingModes, gists \in BOOLEAN, answer \in ModelAnswers :
                Native(mode, gists, answer)) \/ UNCHANGED routingVars
    <3>1. UNCHANGED <<message, setting, route, words>>
      BY <2>2 DEF Native, routingVars
    <3> QED
      BY <3>1, Zenon DEF ContractCanBeMet, QuotesADocument
  <2> QED
    BY <2>1, <2>2 DEF RoutingNext
<1> QED
  BY <1>1, <1>2, PTL DEF RoutingSpec

-----------------------------------------------------------------------------
(* PromptMessages: any number of turns and questions, and whatever the      *)
(* selection keeps of the recent messages.                                 *)

Vocabulary == (UNION Questions) \cup System \cup {Context, TraceComment, "memory", "answer"}
Lines == PromptLines(Vocabulary)
Prompts == [system : SUBSET SUBSET Vocabulary, said : UNION {[places -> Lines] : places \in SUBSET Nat},
            user : SUBSET Vocabulary]
Asking == [step : {"none", "retrieve", "pack", "check", "answer", "trace", "done"},
           question : Questions \cup {{}}, at : Nat,
           recent : UNION {[places -> Lines] : places \in SUBSET Nat},
           held : SUBSET Kinds, prompt : Prompts, answerAt : Nat]

PromptShapes ==
  /\ dialogue \in Seq(Lines) /\ ask \in [PromptTurns -> Asking]
  /\ \A t \in PromptTurns : {ask[t].at, ask[t].answerAt} \subseteq 0 .. Len(dialogue)

(* A turn that has asked has a question, and a prompt that is being built   *)
(* for it; a turn that has saved its answer knows where.                    *)
IsAsked(t) ==
  /\ ask[t].step \in {"retrieve", "pack", "check", "answer"} =>
       ask[t].question \in Questions /\ ask[t].at > 0
  /\ ask[t].step = "trace" => ask[t].answerAt > 0

(* The evidence that was selected is in the packet, and what the packet     *)
(* says before the question is a part of the recent messages, without those *)
(* that say the same as the question.                                       *)
Packed(t) ==
  ask[t].step = "check" =>
    \E kept \in SUBSET Older(t) : ask[t].prompt = PacketMessages(t, kept, ask[t].held)

Reached(t) ==
  ask[t].step = "answer" =>
    /\ ask[t].question \subseteq ask[t].prompt.user
    /\ (\A i \in DOMAIN ask[t].recent : ~Misleading(ask[t].recent[i], ask[t].question)) =>
         /\ "retrieved" \in ask[t].held => Context \in ask[t].prompt.user
         /\ "memory" \in ask[t].held => \E text \in ask[t].prompt.system :
                                          System \cup {"memory"} \subseteq text

PromptInv == PromptShapes /\ \A t \in PromptTurns : IsAsked(t) /\ Packed(t) /\ Reached(t)

-----------------------------------------------------------------------------

LEMMA TextsAreWords ==
  /\ System \subseteq Vocabulary /\ "memory" \in Vocabulary /\ Context \in Vocabulary
  /\ TraceComment \in Vocabulary /\ "answer" \in Vocabulary
  /\ \A q \in Questions : q \subseteq Vocabulary
<1>1. System \subseteq Vocabulary /\ Context \in Vocabulary /\ TraceComment \in Vocabulary
  BY DEF Vocabulary
<1>2. "memory" \in Vocabulary /\ "answer" \in Vocabulary
  BY DEF Vocabulary
<1>3. \A q \in Questions : q \subseteq Vocabulary
  BY DEF Vocabulary
<1> QED
  BY <1>1, <1>2, <1>3

\* the newest messages of the chat
LEMMA NewestAreLines ==
  ASSUME PromptShapes, NEW n \in 0 .. Len(dialogue)
  PROVE  Newest(n) \in UNION {[places -> Lines] : places \in SUBSET Nat}
<1> DEFINE first == IF n > RecentLimit THEN n - RecentLimit + 1 ELSE 1
<1>1. first \in Nat /\ first >= 1
  BY QuestionsAssumption
<1>2. first .. n \in SUBSET Nat /\ first .. n \subseteq 1 .. Len(dialogue)
  <2>1. dialogue \in Seq(Lines) /\ Len(dialogue) \in Nat
    BY DEF PromptShapes
  <2> HIDE DEF first
  <2> QED
    BY <1>1, <2>1
<1>3. \A i \in first .. n : dialogue[i] \in Lines
  BY <1>2 DEF PromptShapes
<1>4. Newest(n) = [i \in first .. n |-> dialogue[i]]
  BY DEF Newest
<1> HIDE DEF first
<1>5. Newest(n) \in [first .. n -> Lines]
  BY <1>3, <1>4
<1> QED
  BY <1>2, <1>5

\* a packet is a prompt
LEMMA PacketIsAPrompt ==
  ASSUME PromptShapes, NEW t \in PromptTurns, ask[t].question \in Questions,
         NEW kept \in SUBSET Older(t), NEW carried \in SUBSET Kinds
  PROVE  PacketMessages(t, kept, carried) \in Prompts
<1>1. ask[t] \in Asking
  BY DEF PromptShapes
<1>2. PICK places \in SUBSET Nat : ask[t].recent \in [places -> Lines]
  BY <1>1 DEF Asking
<1>3. kept \subseteq places
  BY <1>2 DEF Older
<1> DEFINE said == [i \in kept |-> ask[t].recent[i]]
           system == {System \cup (carried \cap {"memory"})}
           user == ask[t].question \cup (IF "retrieved" \in carried THEN {Context} ELSE {})
<1>4. said \in [kept -> Lines] /\ kept \in SUBSET Nat
  BY <1>2, <1>3
<1>5. system \in SUBSET SUBSET Vocabulary /\ user \in SUBSET Vocabulary
  <2>1. System \cup (carried \cap {"memory"}) \subseteq Vocabulary /\ user \subseteq Vocabulary
    BY TextsAreWords, Zenon
  <2> HIDE DEF user
  <2> QED
    BY <2>1, Zenon
<1>6. PacketMessages(t, kept, carried) = [system |-> system, said |-> said, user |-> user]
  BY DEF PacketMessages
<1> HIDE DEF said, system, user
<1> QED
  BY <1>4, <1>5, <1>6 DEF Prompts

LEMMA LegacyIsAPrompt ==
  ASSUME PromptShapes, NEW t \in PromptTurns, ask[t].question \in Questions, ask[t].at > 0,
         NEW hasState \in BOOLEAN
  PROVE  LegacyMessages(t, hasState) \in Prompts
<1>1. ask[t].at \in 0 .. Len(dialogue) /\ Len(dialogue) \in Nat
  BY DEF PromptShapes
<1>2. ask[t].at - 1 \in 0 .. Len(dialogue)
  BY <1>1
<1>3. Newest(ask[t].at - 1) \in UNION {[places -> Lines] : places \in SUBSET Nat}
  BY <1>2, NewestAreLines
<1>4. {System, {"memory"}} \in SUBSET SUBSET Vocabulary /\ {System} \in SUBSET SUBSET Vocabulary
      /\ ask[t].question \in SUBSET Vocabulary
  BY TextsAreWords, Zenon
<1> QED
  BY <1>3, <1>4 DEF LegacyMessages, Prompts

(* A packet whose recent messages mislead in no way passes the check.      *)
LEMMA UnmisledIsValid ==
  ASSUME PromptShapes, NEW t \in PromptTurns, ask[t].question \in Questions,
         NEW kept \in SUBSET Older(t), NEW carried \in SUBSET Kinds,
         \A i \in DOMAIN ask[t].recent : ~Misleading(ask[t].recent[i], ask[t].question)
  PROVE  ValidMessages(PacketMessages(t, kept, carried), ask[t].question)
<1> DEFINE packet == PacketMessages(t, kept, carried)
           q == ask[t].question
<1>1. /\ packet.system = {System \cup (carried \cap {"memory"})} /\ q \subseteq packet.user
      /\ packet.said = [i \in kept |-> ask[t].recent[i]]
  BY DEF PacketMessages
<1>2. q # {}
  BY QuestionsAssumption
<1>3. {} \notin packet.system \cup {packet.user}
  BY <1>1, <1>2 DEF System
<1>4. ASSUME NEW i \in kept
      PROVE  ask[t].recent[i].text # {} /\ ~Asks(ask[t].recent[i], q)
  <2>1. i \in DOMAIN ask[t].recent /\ ~IsLatest(ask[t].recent[i], t)
    BY <1>4 DEF Older
  <2> QED
    BY <2>1 DEF Misleading, IsLatest, Asks
<1> QED
  BY <1>1, <1>3, <1>4 DEF ValidMessages

LEMMA NoPromptIsAPrompt == NoPrompt \in Prompts /\ NotAsked \in Asking
<1>1. <<>> \in [{} -> Lines]
  OBVIOUS
<1>2. <<>> \in UNION {[places -> Lines] : places \in SUBSET Nat}
  BY <1>1
<1>3. NoPrompt \in Prompts
  BY <1>2 DEF NoPrompt, Prompts
<1> QED
  BY <1>2, <1>3 DEF NotAsked, Asking

(* A step is one turn's: what holds of the others stays.                   *)
LEMMA OneTurn ==
  ASSUME PromptInv, NEW t \in PromptTurns, NEW record \in Asking, Turned(t, record),
         dialogue' \in Seq(Lines), Len(dialogue') >= Len(dialogue),
         {record.at, record.answerAt} \subseteq 0 .. Len(dialogue'),
         (ask'[t] = record) => IsAsked(t)' /\ Packed(t)' /\ Reached(t)'
  PROVE  PromptInv'
<1>1. /\ ask \in [PromptTurns -> Asking] /\ ask' = [ask EXCEPT ![t] = record]
      /\ \A u \in PromptTurns : {ask[u].at, ask[u].answerAt} \subseteq 0 .. Len(dialogue)
      /\ dialogue \in Seq(Lines)
  BY DEF PromptInv, PromptShapes, Turned
<1>2. ask' \in [PromptTurns -> Asking] /\ ask'[t] = record
      /\ \A u \in PromptTurns : u # t => ask'[u] = ask[u]
  BY <1>1
<1>3. Len(dialogue) \in Nat /\ Len(dialogue') \in Nat
  BY <1>1
<1>4. PromptShapes'
  <2> SUFFICES ASSUME NEW u \in PromptTurns
               PROVE  {ask'[u].at, ask'[u].answerAt} \subseteq 0 .. Len(dialogue')
    BY <1>2 DEF PromptShapes
  <2>1. CASE u = t
    BY <1>2, <2>1
  <2>2. CASE u # t
    <3>1. ask'[u] = ask[u] /\ {ask[u].at, ask[u].answerAt} \subseteq 0 .. Len(dialogue)
      BY <1>1, <1>2, <2>2
    <3>2. 0 .. Len(dialogue) \subseteq 0 .. Len(dialogue')
      BY <1>3
    <3> QED
      BY <3>1, <3>2, Zenon
  <2> QED
    BY <2>1, <2>2
<1>5. ASSUME NEW u \in PromptTurns
      PROVE  IsAsked(u)' /\ Packed(u)' /\ Reached(u)'
  <2>1. CASE u = t
    BY <1>2, <2>1
  <2>2. CASE u # t
    <3>1. ask'[u] = ask[u] /\ IsAsked(u) /\ Packed(u) /\ Reached(u)
      BY <1>2, <2>2 DEF PromptInv
    <3>2. IsAsked(u)' /\ Reached(u)'
      BY <3>1 DEF IsAsked, Reached
    <3>3. \A kept, carried : PacketMessages(u, kept, carried)' = PacketMessages(u, kept, carried)
      BY <3>1 DEF PacketMessages
    <3>4. Older(u)' = Older(u)
      BY <3>1 DEF Older, IsLatest
    <3>5. Packed(u)'
      BY <3>1, <3>4 DEF Packed, PacketMessages
    <3> QED
      BY <3>2, <3>5
  <2> QED
    BY <2>1, <2>2
<1> QED
  BY <1>4, <1>5 DEF PromptInv

LEMMA PromptStarts == PromptInit => PromptInv
<1> SUFFICES ASSUME PromptInit
             PROVE  PromptInv
  OBVIOUS
<1>1. dialogue = <<>> /\ ask = [t \in PromptTurns |-> NotAsked]
  BY DEF PromptInit
<1>2. \A t \in PromptTurns : ask[t] = NotAsked
  BY <1>1
<1>3. NotAsked.step = "none" /\ NotAsked.at = 0 /\ NotAsked.answerAt = 0
  BY DEF NotAsked
<1>4. PromptShapes
  <2>1. <<>> \in Seq(Lines) /\ Len(<<>>) = 0
    OBVIOUS
  <2> QED
    BY <1>1, <1>2, <1>3, <2>1, NoPromptIsAPrompt DEF PromptShapes
<1>5. \A t \in PromptTurns : IsAsked(t) /\ Packed(t) /\ Reached(t)
  BY <1>2, <1>3 DEF IsAsked, Packed, Reached
<1> QED
  BY <1>4, <1>5 DEF PromptInv

LEMMA AddLine ==
  ASSUME NEW lines \in Seq(Lines), NEW line \in Lines
  PROVE  /\ Append(lines, line) \in Seq(Lines)
         /\ Len(Append(lines, line)) = Len(lines) + 1 /\ Len(lines) \in Nat
OBVIOUS

LEMMA AskStep ==
  ASSUME PromptInv, NEW t \in PromptTurns, NEW q \in Questions, Ask(t, q)
  PROVE  PromptInv'
<1> DEFINE n == Len(dialogue) + 1
           line == Said("user", q)
           old == ask[t]
           record == [old EXCEPT !.step = "retrieve", !.question = q, !.at = n]
<1>1. /\ old.step = "none" /\ dialogue' = Append(dialogue, line)
      /\ ask' = [ask EXCEPT ![t] = record]
      /\ old \in Asking /\ dialogue \in Seq(Lines) /\ old.answerAt \in 0 .. Len(dialogue)
  BY DEF Ask, Turned, PromptInv, PromptShapes
<1>2. line \in Lines
  BY TextsAreWords DEF Said, Lines, PromptLines
<1>3. /\ dialogue' \in Seq(Lines) /\ Len(dialogue') = Len(dialogue) + 1
      /\ Len(dialogue) \in Nat
  BY <1>1, <1>2, AddLine
<1>7. n \in Nat /\ n \in 0 .. Len(dialogue') /\ n > 0
  BY <1>3
<1> HIDE DEF old, line, n
<1>4. /\ record \in Asking /\ record.step = "retrieve" /\ record.question = q
      /\ record.at = n /\ record.answerAt = old.answerAt
  BY <1>1, <1>3, <1>7 DEF Asking
<1> HIDE DEF record
<1>5. {record.at, record.answerAt} \subseteq 0 .. Len(dialogue')
  BY <1>1, <1>3, <1>4, <1>7
<1>6. ask'[t] = record => IsAsked(t)' /\ Packed(t)' /\ Reached(t)'
  BY <1>4, <1>7 DEF IsAsked, Packed, Reached
<1>20. Turned(t, record) /\ Len(dialogue') >= Len(dialogue)
         /\ dialogue' \in Seq(Lines)
         /\ {record.at, record.answerAt} \subseteq 0 .. Len(dialogue')
  BY <1>1, <1>3, <1>4, <1>5, <1>7 DEF Turned
<1> QED
  BY <1>4, <1>20, <1>6, OneTurn, Zenon

LEMMA RetrieveStep ==
  ASSUME PromptInv, NEW t \in PromptTurns, RetrieveRecent(t)
  PROVE  PromptInv'
<1> DEFINE recent == Newest(Len(dialogue))
           old == ask[t]
           record == [old EXCEPT !.step = "pack", !.recent = recent]
<1>1. /\ old.step = "retrieve" /\ UNCHANGED dialogue /\ ask' = [ask EXCEPT ![t] = record]
      /\ old \in Asking /\ dialogue \in Seq(Lines)
      /\ {old.at, old.answerAt} \subseteq 0 .. Len(dialogue)
      /\ old.question \in Questions /\ old.at > 0
  BY DEF RetrieveRecent, Turned, PromptInv, PromptShapes, IsAsked
<1>2. Len(dialogue) \in Nat
  BY <1>1
<1>3. recent \in UNION {[places -> Lines] : places \in SUBSET Nat}
  BY <1>2, NewestAreLines DEF PromptInv
<1> HIDE DEF recent, old
<1>4. /\ record \in Asking /\ record.step = "pack" /\ record.question = old.question
      /\ record.at = old.at /\ record.answerAt = old.answerAt
  BY <1>1, <1>3 DEF Asking
<1> HIDE DEF record
<1>5. ask'[t] = record => IsAsked(t)' /\ Packed(t)' /\ Reached(t)'
  BY <1>1, <1>4 DEF IsAsked, Packed, Reached
<1>20. Turned(t, record) /\ Len(dialogue') >= Len(dialogue)
         /\ dialogue' \in Seq(Lines)
         /\ {record.at, record.answerAt} \subseteq 0 .. Len(dialogue')
  BY <1>1, <1>2, <1>4 DEF Turned
<1> QED
  BY <1>4, <1>20, <1>5, OneTurn, Zenon

LEMMA BuildStep ==
  ASSUME PromptInv, NEW t \in PromptTurns, BuildPacket(t)
  PROVE  PromptInv'
<1>1. PICK kept \in SUBSET Older(t), carried \in SUBSET Kinds :
        Turned(t, [ask[t] EXCEPT !.step = "check", !.held = carried,
                                 !.prompt = PacketMessages(t, kept, carried)])
  BY DEF BuildPacket
<1> DEFINE packet == PacketMessages(t, kept, carried)
           old == ask[t]
           record == [old EXCEPT !.step = "check", !.held = carried, !.prompt = packet]
<1>2. /\ old.step = "pack" /\ UNCHANGED dialogue /\ ask' = [ask EXCEPT ![t] = record]
      /\ old \in Asking /\ dialogue \in Seq(Lines)
      /\ {old.at, old.answerAt} \subseteq 0 .. Len(dialogue)
      /\ old.question \in Questions /\ old.at > 0
  BY <1>1 DEF BuildPacket, Turned, PromptInv, PromptShapes, IsAsked
<1>3. packet \in Prompts
  BY <1>2, PacketIsAPrompt DEF PromptInv
<1> HIDE DEF packet, old
<1>4. /\ record \in Asking /\ record.step = "check" /\ record.question = old.question
      /\ record.at = old.at /\ record.answerAt = old.answerAt /\ record.recent = old.recent
      /\ record.held = carried /\ record.prompt = packet
  BY <1>2, <1>3 DEF Asking
<1> HIDE DEF record
<1>5. ASSUME ask'[t] = record
      PROVE  IsAsked(t)' /\ Packed(t)' /\ Reached(t)'
  <2>1. IsAsked(t)' /\ Reached(t)'
    BY <1>2, <1>4, <1>5 DEF IsAsked, Reached
  <2>2. Older(t)' = Older(t)
    BY <1>4, <1>5 DEF Older, IsLatest, old
  <2>3. PacketMessages(t, kept, carried)' = packet
    BY <1>4, <1>5 DEF PacketMessages, packet, old
  <2>4. Packed(t)'
    BY <1>4, <1>5, <2>2, <2>3 DEF Packed, PacketMessages
  <2> QED
    BY <2>1, <2>4
<1>20. Turned(t, record) /\ Len(dialogue') >= Len(dialogue)
         /\ dialogue' \in Seq(Lines)
         /\ {record.at, record.answerAt} \subseteq 0 .. Len(dialogue')
  BY <1>2, <1>4 DEF Turned
<1> QED
  BY <1>4, <1>20, <1>5, OneTurn, Zenon

(* The packet that passed the check was built for the question; the older  *)
(* prompt ends with it, and is used only when a recent message misled.     *)
LEMMA AssembleStep ==
  ASSUME PromptInv, NEW t \in PromptTurns, AssemblePrompt(t)
  PROVE  PromptInv'
<1>1. PICK hasState \in BOOLEAN :
        Turned(t, [ask[t] EXCEPT !.step = "answer", !.prompt =
                     IF ValidMessages(@, ask[t].question) THEN @
                     ELSE LegacyMessages(t, hasState)])
  BY DEF AssemblePrompt
<1> DEFINE legacy == LegacyMessages(t, hasState)
           old == ask[t]
           valid == ValidMessages(old.prompt, old.question)
           final == IF valid THEN old.prompt ELSE legacy
           record == [old EXCEPT !.step = "answer", !.prompt = final]
<1>2. /\ old.step = "check" /\ UNCHANGED dialogue /\ ask' = [ask EXCEPT ![t] = record]
      /\ old \in Asking /\ dialogue \in Seq(Lines)
      /\ {old.at, old.answerAt} \subseteq 0 .. Len(dialogue)
      /\ old.question \in Questions /\ old.at > 0
  BY <1>1 DEF AssemblePrompt, Turned, PromptInv, PromptShapes, IsAsked
<1>3. legacy \in Prompts /\ old.prompt \in Prompts
  BY <1>2, LegacyIsAPrompt DEF PromptInv, Asking
<1>4. PICK kept \in SUBSET Older(t) : old.prompt = PacketMessages(t, kept, old.held)
  BY <1>2 DEF PromptInv, Packed
<1>5. legacy.user = old.question
  BY DEF LegacyMessages
<1>6. valid => old.question \subseteq old.prompt.user
  BY DEF ValidMessages
<1>7. (\A i \in DOMAIN old.recent : ~Misleading(old.recent[i], old.question)) => valid
  BY <1>2, <1>4, UnmisledIsValid DEF PromptInv, Asking
<1>8. /\ "retrieved" \in old.held => Context \in old.prompt.user
      /\ "memory" \in old.held => \E text \in old.prompt.system :
                                     System \cup {"memory"} \subseteq text
  <2>1. /\ old.prompt.system = {System \cup (old.held \cap {"memory"})}
        /\ old.prompt.user = old.question \cup (IF "retrieved" \in old.held
                                               THEN {Context} ELSE {})
    BY <1>4 DEF PacketMessages
  <2> HIDE DEF old
  <2>2. "retrieved" \in old.held => Context \in old.prompt.user
    BY <2>1
  <2>3. "memory" \in old.held => System \cup (old.held \cap {"memory"}) = System \cup {"memory"}
    OBVIOUS
  <2>4. "memory" \in old.held => System \cup {"memory"} \in old.prompt.system
    BY <2>1, <2>3, Zenon
  <2> QED
    BY <2>2, <2>4, Zenon
<1> HIDE DEF legacy, old, valid
<1>9. /\ record \in Asking /\ record.step = "answer" /\ record.question = old.question
      /\ record.at = old.at /\ record.answerAt = old.answerAt /\ record.recent = old.recent
      /\ record.held = old.held /\ record.prompt = final
  BY <1>2, <1>3 DEF Asking
<1> HIDE DEF record
<1>10. ASSUME ask'[t] = record
       PROVE  IsAsked(t)' /\ Packed(t)' /\ Reached(t)'
  <2>1. IsAsked(t)' /\ Packed(t)'
    BY <1>2, <1>9, <1>10 DEF IsAsked, Packed
  <2>2. Reached(t)'
    BY <1>5, <1>6, <1>7, <1>8, <1>9, <1>10 DEF Reached, Misleading
  <2> QED
    BY <2>1, <2>2
<1>20. Turned(t, record) /\ Len(dialogue') >= Len(dialogue)
         /\ dialogue' \in Seq(Lines)
         /\ {record.at, record.answerAt} \subseteq 0 .. Len(dialogue')
  BY <1>2, <1>9 DEF Turned
<1> QED
  BY <1>4, <1>20, <1>9, <1>10, OneTurn, Zenon

LEMMA ReplyStep ==
  ASSUME PromptInv, NEW t \in PromptTurns, NEW text \in {{}, {"answer"}}, SaveReply(t, text)
  PROVE  PromptInv'
<1> DEFINE n == Len(dialogue) + 1
           line == Said("assistant", text)
           none == NotAsked
           record == [none EXCEPT !.step = "trace", !.answerAt = n]
<1>1. /\ dialogue' = Append(dialogue, line) /\ ask' = [ask EXCEPT ![t] = record]
      /\ dialogue \in Seq(Lines) /\ none \in Asking /\ none.at = 0
  BY NoPromptIsAPrompt DEF SaveReply, Turned, PromptInv, PromptShapes, NotAsked
<1>2. line \in Lines
  BY TextsAreWords DEF Said, Lines, PromptLines
<1>3. /\ dialogue' \in Seq(Lines) /\ Len(dialogue') = Len(dialogue) + 1
      /\ Len(dialogue) \in Nat
  BY <1>1, <1>2, AddLine
<1>7. n \in Nat /\ n \in 0 .. Len(dialogue') /\ n > 0
  BY <1>3
<1> HIDE DEF none, line, n
<1>4. /\ record \in Asking /\ record.step = "trace" /\ record.at = 0 /\ record.answerAt = n
  BY <1>1, <1>3, <1>7 DEF Asking
<1> HIDE DEF record
<1>5. {record.at, record.answerAt} \subseteq 0 .. Len(dialogue')
  BY <1>3, <1>4, <1>7
<1>6. ask'[t] = record => IsAsked(t)' /\ Packed(t)' /\ Reached(t)'
  BY <1>4, <1>7 DEF IsAsked, Packed, Reached
<1>20. Turned(t, record) /\ Len(dialogue') >= Len(dialogue)
         /\ dialogue' \in Seq(Lines)
         /\ {record.at, record.answerAt} \subseteq 0 .. Len(dialogue')
  BY <1>1, <1>3, <1>4, <1>5, <1>7 DEF Turned
<1> QED
  BY <1>4, <1>20, <1>6, OneTurn, Zenon

LEMMA TraceStep ==
  ASSUME PromptInv, NEW t \in PromptTurns, EmbedTrace(t)
  PROVE  PromptInv'
<1> DEFINE place == ask[t].answerAt
           none == NotAsked
           record == [none EXCEPT !.step = "done"]
           line == [dialogue[place] EXCEPT !.text = @ \cup {TraceComment}]
<1>1. /\ dialogue' = [dialogue EXCEPT ![place] = line] /\ ask' = [ask EXCEPT ![t] = record]
      /\ dialogue \in Seq(Lines) /\ none \in Asking /\ none.at = 0 /\ none.answerAt = 0
      /\ place \in 0 .. Len(dialogue) /\ place > 0
  BY NoPromptIsAPrompt DEF EmbedTrace, Turned, PromptInv, PromptShapes, IsAsked, NotAsked
<1>2. line \in Lines
  <2>1. dialogue[place] \in Lines
    BY <1>1
  <2> DEFINE said == dialogue[place]
             text == said.text \cup {TraceComment}
  <2>2. said \in Lines /\ text \in SUBSET Vocabulary /\ line = [said EXCEPT !.text = text]
    BY <2>1, TextsAreWords DEF Lines, PromptLines
  <2> HIDE DEF said, text, line
  <2> QED
    BY <2>2 DEF Lines, PromptLines
<1> HIDE DEF line, none, place
<1>3. dialogue' \in Seq(Lines) /\ Len(dialogue') = Len(dialogue) /\ Len(dialogue) \in Nat
  BY <1>1, <1>2
<1>4. /\ record \in Asking /\ record.step = "done" /\ record.at = 0 /\ record.answerAt = 0
  BY <1>1 DEF Asking
<1> HIDE DEF record
<1>5. {record.at, record.answerAt} \subseteq 0 .. Len(dialogue')
  BY <1>3, <1>4
<1>6. ask'[t] = record => IsAsked(t)' /\ Packed(t)' /\ Reached(t)'
  BY <1>4 DEF IsAsked, Packed, Reached
<1>20. Turned(t, record) /\ Len(dialogue') >= Len(dialogue)
         /\ dialogue' \in Seq(Lines)
         /\ {record.at, record.answerAt} \subseteq 0 .. Len(dialogue')
  BY <1>1, <1>3, <1>4, <1>5 DEF Turned
<1> QED
  BY <1>4, <1>20, <1>6, OneTurn, Zenon

LEMMA PromptStep == PromptInv /\ [PromptNext]_promptVars => PromptInv'
<1> SUFFICES ASSUME PromptInv, [PromptNext]_promptVars
             PROVE  PromptInv'
  OBVIOUS
<1>1. ASSUME NEW t \in PromptTurns,
             \/ \E q \in Questions : Ask(t, q)
             \/ RetrieveRecent(t) \/ BuildPacket(t) \/ AssemblePrompt(t)
             \/ \E text \in {{}, {"answer"}} : SaveReply(t, text)
             \/ EmbedTrace(t)
      PROVE  PromptInv'
  BY <1>1, AskStep, RetrieveStep, BuildStep, AssembleStep, ReplyStep, TraceStep
<1>2. CASE UNCHANGED promptVars
  <2>1. dialogue' = dialogue /\ ask' = ask
    BY <1>2 DEF promptVars
  <2>2. PromptShapes'
    BY <2>1 DEF PromptInv, PromptShapes
  <2>3. ASSUME NEW t \in PromptTurns
        PROVE  IsAsked(t)' /\ Packed(t)' /\ Reached(t)'
    <3>1. IsAsked(t)' /\ Reached(t)'
      BY <2>1 DEF PromptInv, IsAsked, Reached
    <3>2. Older(t)' = Older(t)
      BY <2>1 DEF Older, IsLatest
    <3>3. Packed(t)'
      BY <2>1, <3>2 DEF PromptInv, Packed, PacketMessages
    <3> QED
      BY <3>1, <3>3
  <2> QED
    BY <2>2, <2>3 DEF PromptInv
<1> QED
  BY <1>1, <1>2 DEF PromptNext

LEMMA PromptInvariance == PromptSpec => []PromptInv
BY PromptStarts, PromptStep, PTL DEF PromptSpec

(* Every message of the chat and of a prompt has a role and a text.        *)
THEOREM PromptsTyped == PromptSpec => []PromptTypeOK
<1>1. ASSUME PromptInv
      PROVE  PromptTypeOK
  <2>1. \A i \in 1 .. Len(dialogue) : dialogue[i] \in Lines
    BY <1>1 DEF PromptInv, PromptShapes
  <2>2. ASSUME NEW t \in PromptTurns
        PROVE  /\ ask[t] \in Asking
               /\ {ask[t].at, ask[t].answerAt} \subseteq 0 .. Len(dialogue)
    BY <1>1 DEF PromptInv, PromptShapes
  <2>3. ASSUME NEW t \in PromptTurns
        PROVE  /\ ask[t].prompt.system \in SUBSET SUBSET Vocabulary
               /\ ask[t].prompt.user \in SUBSET Vocabulary
               /\ \A i \in DOMAIN ask[t].prompt.said : ask[t].prompt.said[i] \in Lines
    <3> DEFINE prompt == ask[t].prompt
    <3>1. prompt \in Prompts
      BY <2>2 DEF Asking
    <3> HIDE DEF prompt
    <3>2. /\ prompt.system \in SUBSET SUBSET Vocabulary /\ prompt.user \in SUBSET Vocabulary
          /\ \A i \in DOMAIN prompt.said : prompt.said[i] \in Lines
      BY <3>1 DEF Prompts
    <3> QED
      BY <3>2 DEF prompt
  <2> QED
    BY <2>1, <2>2, <2>3 DEF PromptTypeOK, Asking, Lines, Vocabulary
<1> QED
  BY <1>1, PromptInvariance, PTL

(* Whatever the turns of a chat overlap, the model is asked the user's     *)
(* question and given the evidence selected for it, unless a blank answer  *)
(* or a longer message of the user made the check refuse the packet.       *)
THEOREM EvidenceReachesEveryPrompt == PromptSpec => []EvidenceReachesTheModel
<1>1. PromptInv => EvidenceReachesTheModel
  BY DEF PromptInv, Reached, EvidenceReachesTheModel
<1> QED
  BY <1>1, PromptInvariance, PTL

-----------------------------------------------------------------------------
(***************************************************************************)
(* Any number of threads and any time to live.                             *)
(***************************************************************************)

LEMMA GuardInitTypes == GuardInit => GuardTypeOK
  BY DEF GuardInit, GuardTypeOK, Steps, Results

(* The clock stops at the time to live; every other step writes 0, None or *)
(* a step of the thread's own.                                             *)
LEMMA GuardTypeStep ==
  ASSUME GuardTypeOK, [GuardNext]_guardVars
  PROVE  GuardTypeOK'
<1> USE CacheTTLAssumption DEF GuardTypeOK, Ages, Steps, Results, GoTo, End, CellsUnchanged
<1>1. CASE GuardTick
  BY <1>1 DEF GuardTick, Valid
<1>2. ASSUME NEW t \in Threads, Check(t) PROVE GuardTypeOK'
  BY <1>2 DEF Check, StartCheck, SeeHealthy, AgeHealthy, SeeUnhealthy, FailFast, MarkExpired,
              StampVanished, PingAnswered, PingFailed, StoreHealthy, ClearUnhealthy
<1>3. ASSUME NEW t \in Threads, Chat(t) PROVE GuardTypeOK'
  BY <1>3 DEF Chat, CallAnswered, CallErrs, CallUnreachable, ForgetHealthy, MarkUnreachable
<1>4. CASE UNCHANGED guardVars
  BY <1>4 DEF guardVars
<1> QED
  BY <1>1, <1>2, <1>3, <1>4 DEF GuardNext

(* Every cell and every thread of the guard has its type.                  *)
THEOREM GuardTyped == GuardSpec => []GuardTypeOK
  BY GuardInitTypes, GuardTypeStep, PTL DEF GuardSpec

-----------------------------------------------------------------------------
Holds == FailsFast' /\ \A t \in Threads : at'[t] = "call" => at[t] = "call"

(* With the server marked, a check has nowhere to go but to its failure.   *)
LEMMA CheckFailsFast ==
  ASSUME GuardTypeOK, FailsFast, NEW t \in Threads, Check(t)
  PROVE  Holds
<1> USE CacheTTLAssumption DEF GuardTypeOK, Ages, FailsFast, Holds, Valid, GoTo, End, CellsUnchanged
<1>1. CASE StartCheck(t)
  BY <1>1 DEF StartCheck
<1>2. CASE SeeHealthy(t)
  BY <1>2 DEF SeeHealthy
<1>3. CASE SeeUnhealthy(t)
  BY <1>3 DEF SeeUnhealthy
<1>4. CASE FailFast(t)
  BY <1>4 DEF FailFast
<1>5. CASE StampVanished(t)
  BY <1>5 DEF StampVanished
<1>6. ~AgeHealthy(t) /\ ~MarkExpired(t)
  BY DEF AgeHealthy, MarkExpired
<1>7. ~(PingAnswered(t) \/ PingFailed(t) \/ StoreHealthy(t) \/ ClearUnhealthy(t))
  BY DEF PingAnswered, PingFailed, StoreHealthy, ClearUnhealthy
<1> QED
  BY <1>1, <1>2, <1>3, <1>4, <1>5, <1>6, <1>7 DEF Check

(* Calls that are under way can only set the mark again.                   *)
LEMMA CallsKeepMark ==
  ASSUME GuardTypeOK, FailsFast, NEW t \in Threads, Chat(t)
  PROVE  Holds
<1> USE CacheTTLAssumption DEF GuardTypeOK, Ages, FailsFast, Holds, Valid, GoTo, End, CellsUnchanged
<1>1. CASE CallAnswered(t) \/ CallErrs(t) \/ CallUnreachable(t)
  BY <1>1 DEF CallAnswered, CallErrs, CallUnreachable
<1>2. CASE ForgetHealthy(t)
  BY <1>2 DEF ForgetHealthy
<1>3. CASE MarkUnreachable(t)
  BY <1>3 DEF MarkUnreachable
<1> QED
  BY <1>1, <1>2, <1>3 DEF Chat

(* ConnectionGuard.mark_unreachable: once the server is marked and no ping *)
(* is in flight, only the time to live ends the mark, and until then no    *)
(* thread gets from a check to the server, with any number of threads.     *)
THEOREM MarksHold == GuardSpec => MarkHoldsUntilItExpires
<1>1. GuardTypeOK /\ [GuardNext]_guardVars
        => [FailsFast => Expired \/ Holds]_guardVars
  <2> SUFFICES ASSUME GuardTypeOK, GuardNext, FailsFast PROVE Expired \/ Holds
    OBVIOUS
  <2>1. CASE GuardTick
    BY <2>1, CacheTTLAssumption
       DEF GuardTick, GuardTypeOK, Ages, FailsFast, Holds, Valid, Expired
  <2>2. CASE \E t \in Threads : Check(t) \/ Chat(t)
    BY <2>2, CheckFailsFast, CallsKeepMark
  <2> QED
    BY <2>1, <2>2 DEF GuardNext
<1> QED
  BY <1>1, GuardTyped, PTL DEF GuardSpec, MarkHoldsUntilItExpires, Holds

-----------------------------------------------------------------------------
(***************************************************************************)
(* Any number of threads and estimators.  The two properties rest on what  *)
(* a thread's place in the code tells about the cells it has passed        *)
(* (Progress) and on what the estimators' cells tell about the cache of    *)
(* the process (Cells).                                                    *)
(***************************************************************************)

(* A thread that loads is inside the lock and the result is unknown; one   *)
(* that is about to keep or to report a result agrees with the cache; an   *)
(* asset is used when it is held, and loaded when the attempt is marked;   *)
(* the tokenizer comes after an attempt of the processor.                  *)
Progress ==
  \A c \in Counters :
    /\ CountAt(c, "load") => cacheLock = c /\ cache[count[c].asset] = "unknown"
    /\ CountAt(c, "keep") => cache[count[c].asset] = "loaded"
    /\ CountAt(c, "fail") => cache[count[c].asset] = "failed"
    /\ CountAt(c, "use") => count[c].asset \in held[count[c].by]
    /\ count[c].step \in LoadingSteps => count[c].asset \in attempted[count[c].by]
    /\ count[c].asset = "tokenizer" => "processor" \in attempted[count[c].by]

(* What is held was loaded and attempted, what is reported failed did      *)
(* fail, and an attempt ended in one or the other or is still going on.    *)
Cells ==
  \A e \in Estimators, a \in Assets :
    /\ a \in held[e] => cache[a] = "loaded" /\ a \in attempted[e]
    /\ a \in failed[e] => cache[a] = "failed"
    /\ a \in attempted[e] => a \in held[e] \/ a \in failed[e] \/ BeingLoaded(e, a)
    /\ "tokenizer" \in held[e] => "processor" \in attempted[e]

CountInv == CountTypeOK /\ Progress /\ Cells

-----------------------------------------------------------------------------
LEMMA CountInitInv == CountInit => CountInv
<1> SUFFICES ASSUME CountInit PROVE CountInv
  OBVIOUS
<1>1. (CHOOSE e \in Estimators : TRUE) \in Estimators
  BY CountingAssumption
<1> QED
  BY <1>1 DEF CountInit, CountInv, CountTypeOK, Progress, Cells, Counting, CountAt,
              Assets, CountSteps, LoadingSteps

(* Every step keeps the types.                                             *)
LEMMA CountTypeStep ==
  ASSUME CountTypeOK, [CountNext]_countVars
  PROVE  CountTypeOK'
<1> USE DEF CountTypeOK, CountGoes, NextAsset, Counting, CountSteps, Assets
<1>1. ASSUME NEW c \in Counters, Count(c) PROVE CountTypeOK'
  BY <1>1 DEF Count, AssetCounts, AssetRefuses, Approximated, BeginCount
<1>2. ASSUME NEW c \in Counters, ResolveAsset(c) PROVE CountTypeOK'
  BY <1>2 DEF ResolveAsset, SeeHeld, SeeAttempted, MarkAttempted, KeepAsset, LoadFailed
<1>3. ASSUME NEW c \in Counters, CachedLoad(c) PROVE CountTypeOK'
  BY <1>3 DEF CachedLoad, EnterCached, EnterToLoad, LoadEnds, AfterLoad
<1>4. CASE UNCHANGED countVars
  BY <1>4 DEF countVars
<1> QED
  BY <1>1, <1>2, <1>3, <1>4 DEF CountNext

(* The step of one thread keeps what every thread may rely on.             *)
LEMMA ProgressStep ==
  ASSUME CountInv, [CountNext]_countVars
  PROVE  Progress'
<1> USE DEF CountInv, CountTypeOK, CountAt, CountGoes, NextAsset, Counting, Progress, LoadingSteps
<1>1. ASSUME NEW c \in Counters, Count(c) PROVE Progress'
  <2>1. CASE AssetCounts(c)
    BY <2>1 DEF AssetCounts
  <2>2. CASE AssetRefuses(c)
    BY <2>2 DEF AssetRefuses, Cells, Assets
  <2>3. CASE Approximated(c)
    BY <2>3 DEF Approximated
  <2>4. ASSUME NEW e \in Estimators, BeginCount(c, e) PROVE Progress'
    BY <2>4 DEF BeginCount
  <2> QED
    BY <1>1, <2>1, <2>2, <2>3, <2>4 DEF Count
<1>2. ASSUME NEW c \in Counters, ResolveAsset(c) PROVE Progress'
  <2>1. CASE SeeHeld(c)
    BY <2>1 DEF SeeHeld
  <2>2. CASE SeeAttempted(c)
    BY <2>2 DEF SeeAttempted, Assets
  <2>3. CASE MarkAttempted(c)
    BY <2>3 DEF MarkAttempted
  <2>4. CASE KeepAsset(c)
    BY <2>4 DEF KeepAsset
  <2>5. CASE LoadFailed(c)
    BY <2>5 DEF LoadFailed, Assets
  <2> QED
    BY <1>2, <2>1, <2>2, <2>3, <2>4, <2>5 DEF ResolveAsset
<1>3. ASSUME NEW c \in Counters, CachedLoad(c) PROVE Progress'
  <2>1. CASE EnterCached(c)
    BY <2>1 DEF EnterCached, AfterLoad
  <2>2. CASE EnterToLoad(c)
    BY <2>2, CountingAssumption DEF EnterToLoad
  <2>3. ASSUME NEW state \in {"loaded", "failed"}, LoadEnds(c, state) PROVE Progress'
    BY <2>3 DEF LoadEnds, AfterLoad
  <2> QED
    BY <1>3, <2>1, <2>2, <2>3 DEF CachedLoad
<1>4. CASE UNCHANGED countVars
  BY <1>4 DEF countVars
<1> QED
  BY <1>1, <1>2, <1>3, <1>4 DEF CountNext

(* The step of one thread keeps what the cells say of one another.         *)
LEMMA CellsStep ==
  ASSUME CountInv, [CountNext]_countVars
  PROVE  Cells'
<1> USE DEF CountInv, CountTypeOK, CountAt, CountGoes, NextAsset, Counting, Cells, BeingLoaded
<1>1. ASSUME NEW c \in Counters, Count(c) PROVE Cells'
  <2>1. CASE AssetCounts(c)
    <3>1. ASSUME NEW e \in Estimators, NEW a \in Assets, BeingLoaded(e, a)
          PROVE  BeingLoaded(e, a)'
      BY <2>1, <3>1 DEF AssetCounts, LoadingSteps
    <3> QED
      BY <2>1, <3>1 DEF AssetCounts
  <2>2. CASE AssetRefuses(c)
    BY <2>2 DEF AssetRefuses, LoadingSteps
  <2>3. CASE Approximated(c)
    <3>1. ASSUME NEW e \in Estimators, NEW a \in Assets, BeingLoaded(e, a)
          PROVE  BeingLoaded(e, a)'
      BY <2>3, <3>1 DEF Approximated, LoadingSteps
    <3> QED
      BY <2>3, <3>1 DEF Approximated
  <2>4. ASSUME NEW e \in Estimators, BeginCount(c, e) PROVE Cells'
    BY <2>4 DEF BeginCount, LoadingSteps
  <2> QED
    BY <1>1, <2>1, <2>2, <2>3, <2>4 DEF Count
<1>2. ASSUME NEW c \in Counters, ResolveAsset(c) PROVE Cells'
  <2>1. CASE SeeHeld(c)
    BY <2>1 DEF SeeHeld, LoadingSteps
  <2>2. CASE SeeAttempted(c)
    <3>1. ASSUME NEW e \in Estimators, NEW a \in Assets, BeingLoaded(e, a)
          PROVE  BeingLoaded(e, a)'
      BY <2>2, <3>1 DEF SeeAttempted, LoadingSteps
    <3> QED
      BY <2>2, <3>1 DEF SeeAttempted
  <2>3. CASE MarkAttempted(c)
    BY <2>3 DEF MarkAttempted, LoadingSteps, Progress
  <2>4. CASE KeepAsset(c)
    <3>1. ASSUME NEW e \in Estimators, NEW a \in Assets, BeingLoaded(e, a)
          PROVE  BeingLoaded(e, a)' \/ a \in held'[e]
      BY <2>4, <3>1 DEF KeepAsset, LoadingSteps
    <3> QED
      BY <2>4, <3>1 DEF KeepAsset, Progress, LoadingSteps
  <2>5. CASE LoadFailed(c)
    <3>1. ASSUME NEW e \in Estimators, NEW a \in Assets, BeingLoaded(e, a)
          PROVE  BeingLoaded(e, a)' \/ a \in failed'[e]
      BY <2>5, <3>1 DEF LoadFailed, LoadingSteps
    <3> QED
      BY <2>5, <3>1 DEF LoadFailed, Progress, LoadingSteps
  <2> QED
    BY <1>2, <2>1, <2>2, <2>3, <2>4, <2>5 DEF ResolveAsset
<1>3. ASSUME NEW c \in Counters, CachedLoad(c) PROVE Cells'
  <2>1. CASE EnterCached(c)
    BY <2>1 DEF EnterCached, AfterLoad, LoadingSteps
  <2>2. CASE EnterToLoad(c)
    BY <2>2 DEF EnterToLoad, LoadingSteps
  <2>3. ASSUME NEW state \in {"loaded", "failed"}, LoadEnds(c, state) PROVE Cells'
    <3>1. ASSUME NEW e \in Estimators, NEW a \in Assets, BeingLoaded(e, a)
          PROVE  BeingLoaded(e, a)'
      BY <2>3, <3>1 DEF LoadEnds, AfterLoad, LoadingSteps
    <3>2. \A a \in Assets : cache[a] # "unknown" => cache'[a] = cache[a]
      BY <2>3 DEF LoadEnds, Progress
    <3> QED
      BY <2>3, <3>1, <3>2 DEF LoadEnds
  <2> QED
    BY <1>3, <2>1, <2>2, <2>3 DEF CachedLoad
<1>4. CASE UNCHANGED countVars
  BY <1>4 DEF countVars
<1> QED
  BY <1>1, <1>2, <1>3, <1>4 DEF CountNext

LEMMA CountInvariant == CountSpec => []CountInv
<1>1. CountInv /\ [CountNext]_countVars => CountInv'
  BY CountTypeStep, ProgressStep, CellsStep DEF CountInv
<1> QED
  BY <1>1, CountInitInv, PTL DEF CountSpec

-----------------------------------------------------------------------------
(* Every cell of the token counters has its type.                          *)
THEOREM CountersTyped == CountSpec => []CountTypeOK
<1>1. CountInv => CountTypeOK
  BY DEF CountInv
<1> QED
  BY <1>1, CountInvariant, PTL

(* However many threads share an estimator, GemmaTokenEstimator never      *)
(* reports a worse mode than the model's template without the failure that *)
(* led to it, except while the load is still going on.                     *)
THEOREM FallbacksAreExplained == CountSpec => []FallbackIsExplained
<1>1. CountInv => FallbackIsExplained
  BY DEF CountInv, Cells, FallbackIsExplained, TokenizerMode, Assets
<1> QED
  BY <1>1, CountInvariant, PTL

(* cached_auto_processor and cached_auto_tokenizer load an asset once per  *)
(* process, and all estimators agree about whether it can be loaded.       *)
THEOREM LoadsHappenOnce == CountSpec => []AssetsLoadOnce
<1>1. CountInv => AssetsLoadOnce
  BY DEF CountInv, CountTypeOK, Progress, Cells, AssetsLoadOnce
<1> QED
  BY <1>1, CountInvariant, PTL

=============================================================================
