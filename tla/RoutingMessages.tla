---------------------------- MODULE RoutingMessages ----------------------------
(* The routers on every message a user can send: RoutingInit picks one,    *)
(* one step routes it.                                                     *)
EXTENDS Routing


VARIABLES
  message,    \* the pattern groups it matches for the semantic router
  setting,    \* its task context
  route,      \* the semantic plan, once there is one
  words,      \* the word groups it matches for the native router
  native      \* the native decision

routingVars == <<message, setting, route, words, native>>

Unrouted == [stage |-> "new"]
\* a message of the graph orchestration, or one of the native router
RoutingInit == /\ route = Unrouted /\ native = Unrouted
               /\ \/ message \in Messages /\ setting \in TaskContexts /\ words = {}
                  \/ message = {} /\ setting = "none" /\ words \in SUBSET Terms

\* SemanticRouter.route
Semantic == /\ route = Unrouted /\ words = {}
            /\ route' = RouteSemantic(message, setting)
            /\ UNCHANGED <<message, setting, words, native>>

\* RoutingAgent.route
Native(mode, gists, answer) ==
  /\ native = Unrouted /\ message = {} /\ setting = "none"
  /\ native' = [stage |-> "routed", mode |-> mode, answer |-> answer,
                gists |-> gists,
                plan |-> RouteNative(mode, words, gists, answer)]
  /\ UNCHANGED <<message, setting, route, words>>

RoutingNext == \/ Semantic
               \/ \E mode \in RoutingModes, gists \in BOOLEAN,
                     answer \in ModelAnswers : Native(mode, gists, answer)

RoutingSpec == RoutingInit /\ [][RoutingNext]_routingVars

-----------------------------------------------------------------------------
(* Properties.                                                             *)

(* The evidence contract can be met: if every enabled source delivers, the *)
(* contract holds -- except for one kind of message, a quote that names a  *)
(* document and no chat, for which only the document is searched although  *)
(* raw chat evidence is required: such a turn is always refused.  Relates  *)
(* sources_for to evidence_contract_for, which look at different inputs.   *)
QuotesADocument == "quote" \in message /\ "document" \in message
                   /\ "current" \notin message /\ "previous" \notin message
                   /\ setting # "document_qa"
ContractCanBeMet == (route # Unrouted /\ ~QuotesADocument) =>
                    ~FailsContract(route.contract, route.sources)

=============================================================================
