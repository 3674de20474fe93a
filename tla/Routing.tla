-------------------------------- MODULE Routing --------------------------------
(***************************************************************************)
(* The two routers: which memory sources a message searches.               *)
(*                                                                         *)
(* A message is the set of word groups of the routers' lexical policies it *)
(* matches.  The native router (QueryAnalyzer, RoutePlanner, RoutingAgent) *)
(* turns its signals into a plan that an optional model may change; the    *)
(* semantic router of the graph orchestration also issues an evidence      *)
(* contract, which the context must satisfy before the model may answer.   *)
(*                                                                         *)
(* Both are pure.  TurnPipeline takes its plans from these operators, and  *)
(* RoutingMessages lets TLC visit every message.                           *)
(***************************************************************************)
CONSTANT Choices   \* the sets of sources a routing model may name

Sources == {"recent_messages", "structured_memory", "document_memory",
            "current_chat_gist", "current_chat_span",
            "previous_chat_gist", "raw_message_span"}

ASSUME ChoicesAssumption == Choices \subseteq SUBSET Sources

-----------------------------------------------------------------------------
(* The native router.                                                      *)

\* word groups of QueryAnalyzerPolicy; "inline" is "summarize this text: ..."
Terms == {"current", "previous", "documents", "decision", "task", "quote",
          "summary", "inline"}

Signals(terms) == (terms \ {"inline"})
                  \ (IF "inline" \in terms THEN {"documents"} ELSE {})

\* the first matching signal, in the order of the code
DetectIntent(signals) ==
  IF "summary" \in signals THEN "previous_memory_question"
  ELSE IF "documents" \in signals THEN "document_question"
  ELSE IF "previous" \in signals THEN "previous_memory_question"
  ELSE IF "decision" \in signals THEN "decision_question"
  ELSE IF "task" \in signals THEN "task_question"
  ELSE IF "current" \in signals THEN "current_chat_question"
  ELSE "general_question"

PlanProfile(signals) ==
  IF "summary" \in signals THEN "global_summary"
  ELSE IF DetectIntent(signals) = "document_question" THEN "document_question"
  ELSE IF DetectIntent(signals) = "general_question" THEN "general_chat"
  ELSE "memory_recall"

(* gists: PREVIOUS_CHAT_GIST_RETRIEVAL_ENABLED.  The legacy aliases and     *)
(* current_chat_gist are never enabled.                                    *)
SourceEnabled(source, signals, gists) ==
  CASE source \in {"recent_messages", "structured_memory"} -> TRUE
    [] source = "document_memory" -> "documents" \in signals
    [] source = "current_chat_span" -> "current" \in signals
                                       /\ "previous" \notin signals
    [] source \in {"previous_chat_gist", "raw_message_span"} ->
         gists /\ ("previous" \in signals \/ "summary" \in signals)
    [] OTHER -> FALSE

PlannedSources(signals, gists) ==
  {s \in Sources : SourceEnabled(s, signals, gists)}

RulePlan(terms, gists) ==
  [intent  |-> DetectIntent(Signals(terms)),
   profile |-> PlanProfile(Signals(terms)),
   sources |-> PlannedSources(Signals(terms), gists)]

(* What the model said: nothing usable (no model, an error, no JSON, an    *)
(* unknown source, a confidence out of range), or sources in one of the    *)
(* two accepted shapes, with enough confidence or not.                     *)
NoAnswer == [shape |-> "invalid", sources |-> {}, sure |-> FALSE]
LegacySources == {"recent_messages", "structured_memory", "document_memory"}
ModelAnswers ==
  {NoAnswer}
  \cup [shape : {"sources"}, sources : Choices, sure : BOOLEAN]
  \cup [shape : {"booleans"}, sources : Choices \cap SUBSET LegacySources,
        sure : BOOLEAN]

(* Every source of the plan is in LLM_ROUTABLE_SOURCES: outside hybrid     *)
(* mode nothing of the rules' choice survives.                             *)
ModelSources(mode, base, answer) ==
  IF mode = "hybrid" THEN base \cup answer.sources ELSE answer.sources

ModelPlan(mode, rules, answer) ==
  LET chosen == ModelSources(mode, rules.sources, answer)
  IN [intent  |-> rules.intent,
      profile |-> IF "document_memory" \in chosen THEN "document_question"
                                                  ELSE rules.profile,
      sources |-> chosen]

RoutingModes == {"rule", "llm", "hybrid"}

RouteNative(mode, terms, gists, answer) ==
  IF mode = "rule" \/ answer.shape = "invalid" \/ ~answer.sure
    THEN RulePlan(terms, gists)
    ELSE ModelPlan(mode, RulePlan(terms, gists), answer)

-----------------------------------------------------------------------------
(* The semantic router.                                                    *)

(* Its pattern groups.  Every document pattern is also one of the          *)
(* referential patterns of a summary request.                              *)
Groups == {"quote", "current", "previous", "any", "document", "summarize",
           "referential", "preference", "project", "same", "prior",
           "chitchat", "cue", "question"}
Messages == {g \in SUBSET Groups : "document" \in g => "referential" \in g}

\* task_context: "document_qa" when a file came with the message
TaskContexts == {"none", "memory_qa", "document_qa"}

\* the first matching rule, in the order of the rules
ClassifyIntent(g) ==
  IF "quote" \in g THEN "EXACT_QUOTE"
  ELSE IF "document" \in g THEN "DOCUMENT_QA"
  ELSE IF "preference" \in g THEN "STRUCTURED_PREFERENCE_RECALL"
  ELSE IF "project" \in g THEN "PROJECT_STATE_SUMMARY"
  ELSE IF "prior" \in g THEN "PREVIOUS_CHAT_RECALL"
  ELSE IF "same" \in g THEN "SAME_CHAT_RECALL"
  ELSE "CASUAL_CHAT"

RetrievalNeed(g, intent, context) ==
  IF \/ intent # "CASUAL_CHAT"
     \/ {"summarize", "referential"} \subseteq g
     \/ "chitchat" \notin g /\ \/ context \in {"memory_qa", "document_qa"}
                               \/ {"question", "cue"} \subseteq g
    THEN "required"
  ELSE IF "chitchat" \notin g /\ "question" \in g THEN "possible" ELSE "none"

SemanticIntent(g, context) ==
  LET intent == IF context = "document_qa" THEN "DOCUMENT_QA"
                                           ELSE ClassifyIntent(g)
  IN IF intent = "CASUAL_CHAT"
        /\ RetrievalNeed(g, intent, context) = "required"
       THEN "MEMORY_QA" ELSE intent

TemporalScope(g, intent) ==
  IF intent = "DOCUMENT_QA" THEN "DOCUMENTS"
  ELSE IF intent = "STRUCTURED_PREFERENCE_RECALL" THEN "GLOBAL_STRUCTURED_MEMORY"
  ELSE IF "current" \in g THEN "CURRENT_CHAT"
  ELSE IF "previous" \in g THEN "PREVIOUS_CHATS"
  ELSE IF "any" \in g \/ intent \in {"EXACT_QUOTE", "MEMORY_QA"} THEN "ANY_CHAT"
  ELSE IF intent = "SAME_CHAT_RECALL" THEN "CURRENT_CHAT"
  ELSE IF intent = "PREVIOUS_CHAT_RECALL" THEN "PREVIOUS_CHATS"
  ELSE "NONE"

\* the scopes named by the words of the message or implied by its intent
NamedScopes(g, intent) ==
  (IF intent = "DOCUMENT_QA" \/ "document" \in g THEN {"document"} ELSE {})
  \cup (IF intent = "SAME_CHAT_RECALL" \/ "current" \in g
          THEN {"current_chat"} ELSE {})
  \cup (IF \/ intent \in {"PREVIOUS_CHAT_RECALL", "PROJECT_STATE_SUMMARY"}
           \/ "previous" \in g
          THEN {"previous_chat"} ELSE {})
  \cup (IF intent \in {"STRUCTURED_PREFERENCE_RECALL", "PROJECT_STATE_SUMMARY"}
          THEN {"durable"} ELSE {})
  \cup (IF intent = "MEMORY_QA" THEN {"unknown"} ELSE {})

\* Mutant: a quote searches only the scopes the message names
BugRequiredScopes(g, intent) == NamedScopes(g, intent)

(* A quote that names no scope is looked for in every chat.  (The branches *)
(* of the code for a quote of one chat are dead: the words that set its    *)
(* temporal scope have already named the scope.)                           *)
RequiredScopes(g, intent) ==
  IF intent = "EXACT_QUOTE" /\ NamedScopes(g, intent) = {}
    THEN {"current_chat", "previous_chat"} ELSE NamedScopes(g, intent)

SourcesOfScope(scope) ==
  CASE scope = "document" -> {"document_memory"}
    [] scope = "current_chat" -> {"current_chat_span"}
    [] scope = "previous_chat" -> {"previous_chat_gist", "raw_message_span"}
    [] scope = "durable" -> {"structured_memory"}
    [] OTHER -> {"structured_memory", "previous_chat_gist", "raw_message_span"}

SourcesFor(scopes) ==
  {"recent_messages"} \cup UNION {SourcesOfScope(s) : s \in scopes}

\* what the contract demands of the sources that reach the prompt
EvidenceContract(intent) ==
  CASE intent = "EXACT_QUOTE" -> {"raw_span", "not_gist_only"}
    [] intent = "DOCUMENT_QA" -> {"document_citation"}
    [] intent = "STRUCTURED_PREFERENCE_RECALL" -> {"structured_memory"}
    [] OTHER -> {}

ContextProfile(g, intent) ==
  IF {"summarize", "referential"} \subseteq g THEN "global_summary"
  ELSE IF intent = "DOCUMENT_QA" THEN "document_question"
  ELSE IF intent = "CASUAL_CHAT" THEN "general_chat"
  ELSE "memory_recall"

RouteSemantic(g, context) ==
  LET intent == SemanticIntent(g, context)
      scopes == RequiredScopes(g, intent)
  IN [intent   |-> intent,
      scopes   |-> scopes,
      temporal |-> TemporalScope(g, intent),
      need     |-> RetrievalNeed(g, IF context = "document_qa" THEN "DOCUMENT_QA"
                                    ELSE ClassifyIntent(g), context),
      profile  |-> ContextProfile(g, intent),
      sources  |-> SourcesFor(scopes),
      contract |-> EvidenceContract(intent)]

RawEvidence == {"raw_message_span", "current_chat_span"}
Gists == {"previous_chat_gist", "current_chat_gist"}

\* evidence_failure_reason: the sources found in the prompt do not do
FailsContract(contract, found) ==
  \/ "raw_span" \in contract /\ found \cap RawEvidence = {}
  \/ "document_citation" \in contract /\ "document_memory" \notin found
  \/ "structured_memory" \in contract /\ "structured_memory" \notin found
  \/ "not_gist_only" \in contract /\ found \cap Gists # {}
                                  /\ found \cap RawEvidence = {}

=============================================================================
