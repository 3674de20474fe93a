------------------------------- MODULE MCServices -------------------------------
(* The services behind a chat, on small instances. They share no variable: *)
(* a behaviour belongs to one of them, its part, and the others keep their *)
(* first state, so that each part is explored as it would be on its own.   *)
EXTENDS RoutingMessages, TurnPipeline, ConnectionGuard, ContextSelection, Reranking,
        MemoryStore, MemoryBatches, SpanRetrieval, ChatFork, BrowserSession, EvalRun,
        RecordPages, PromptMessages, ChatPage, TokenCounting, MemoryProposals, DocumentChunks

-----------------------------------------------------------------------------
(* Constants.                                                              *)

Item(source, record, tokens, relevant, utility, text, span, anchors, time, parent) ==
  [source |-> source, record |-> record, tokens |-> tokens, relevant |-> relevant,
   utility |-> utility, text |-> text, span |-> span, anchors |-> anchors,
   time |-> time, parent |-> parent, latest |-> FALSE]
\* r1 expands the gist g, r2 shares a message with r1 and its text with c
Items == {
  Item("previous_chat_gist", "g", 1, TRUE, 2, "gist", {}, {}, 1, NoParent),
  Item("raw_message_span", "r1", 2, FALSE, 1, "r1", {1, 2}, {1}, 1, "g"),
  Item("raw_message_span", "r2", 2, TRUE, 2, "r2", {2}, {2}, 2, NoParent),
  Item("current_chat_span", "c", 1, TRUE, 1, "r2", {5}, {5}, 5, NoParent),
  Item("document_memory", "d", 2, TRUE, 2, "d", {}, {}, 0, NoParent),
  Item("structured_memory", "m", 1, FALSE, 0, "m", {}, {}, 0, NoParent),
  Item("recent_messages", "n1", 1, TRUE, 2, "n1", {6}, {}, 6, NoParent),
  [Item("recent_messages", "n2", 1, TRUE, 2, "n2", {7}, {}, 7, NoParent)
     EXCEPT !.latest = TRUE]}
Lists(items, most) ==
  UNION {{s \in [1 .. n -> items] : \A i, j \in 1 .. n : i # j => s[i] # s[j]} : n \in 0 .. most}
RankedLists == Lists(Items, 3)
RoutePlan(profile, long, scopes, intent, raw) ==
  [profile |-> profile, long |-> long, scopes |-> scopes, intent |-> intent, raw |-> raw]
RoutePlans ==
  {RoutePlan("other", FALSE, {}, "other", FALSE),
   RoutePlan("memory_recall", FALSE, {}, "other", FALSE),
   RoutePlan("memory_recall", FALSE, {"previous_chat"}, "chat", TRUE),
   RoutePlan("memory_recall", FALSE, {"previous_chat"}, "chat", FALSE),
   RoutePlan("other", FALSE, {"document", "current_chat"}, "document", FALSE),
   RoutePlan("other", TRUE, {"document"}, "document", FALSE),
   RoutePlan("memory_recall", FALSE, {"durable"}, "durable", FALSE),
   RoutePlan("global_summary", FALSE, {"previous_chat"}, "other", FALSE)}
RouteCaps ==
  [k \in CapKinds |-> CASE k = "summary" -> 4
                        [] k \in {"document", "multi_scope", "long_document"} -> 3
                        [] OTHER -> 1]

Found(source, value, skip) == [source |-> source, score |-> value, skip |-> skip]
FoundItems == {Found("document_memory", 1, FALSE), Found("document_memory", 2, TRUE),
         Found("structured_memory", 2, FALSE), Found("raw_message_span", 0, FALSE),
         Found("previous_chat_gist", 1, FALSE)}
\* a candidate may be found twice
HitLists == UNION {[1 .. n -> FoundItems] : n \in 0 .. 3}

Words(near, overlap, rare, size, asks) ==
  [near |-> near, overlap |-> overlap, rare |-> rare, size |-> size, query |-> asks]
Texts == {Words(0, 0, FALSE, 1, FALSE), Words(1, 1, TRUE, 2, FALSE),
          Words(2, 2, FALSE, 2, FALSE), Words(2, 2, FALSE, 1, TRUE)}
\* two chats, the second empty or of one message longer than a span may be;
\* a chat of four messages has none of the two that differ in their size only
TwoChats == {<<a, b>> : a \in UNION {[1 .. n -> Texts] : n \in {1, 3}}
                           \cup [1 .. 4 -> Texts \ {Words(2, 2, FALSE, 2, FALSE)}],
                        b \in {<<>>, <<Words(1, 2, FALSE, 5, FALSE)>>}}
Gist(chat, first, last, overlap) ==
  [chat |-> chat, first |-> first, last |-> last, overlap |-> overlap]
GistTables == {{}, {Gist(1, 1, 2, 1)}, {Gist(1, 1, 2, 1), Gist(1, 3, 4, 0), Gist(2, 1, 1, 1)},
          {Gist(1, 1, 3, 1), Gist(1, 3, 4, 2)}}

Limits(trigger, tokens, most, protected) ==
  [trigger |-> trigger, tokens |-> tokens, messages |-> most, protected |-> protected]
Pairwise == Limits(0, 3, 2, 0)
Guarded == Limits(3, 3, 4, 2)
Tight == Limits(2, 2, 3, 0)
OneCategory == [m \in Memories |-> 1]

BatchSchedules == {Pairwise, Guarded, Tight}

TwoQuestions == {{"w"}, {"w", "v"}}

Proposed(content, category, spelling, text, cites, status) ==
  [content |-> content, category |-> category, spelling |-> spelling, text |-> text,
   cites |-> cites, status |-> status]
\* a memory, its correction and its superseded version, a status the model made
\* up, and one proposal for each reason to drop it
ProposedItems == {
  Proposed(TRUE, "user_facts", "tea", "f1", {1}, "active"),
  Proposed(TRUE, "user_facts", "Tea!", "f2", {2}, "active"),
  Proposed(TRUE, "user_facts", "tea", "f1", {}, "superseded"),
  Proposed(TRUE, "corrections", "tea", "f2", {1, 3}, "final"),
  Proposed(TRUE, "user_facts", "tea", "ids", {3}, "active"),
  Proposed(TRUE, "hobbies", "tea", "f1", {1}, "active"),
  Proposed(TRUE, "user_facts", "!?", "f1", {1}, "active"),
  Proposed(TRUE, "user_facts", "tea", "transcript", {1}, "active"),
  Proposed(TRUE, "user_facts", "tea", "vague", {1}, "active"),
  Proposed(FALSE, "user_facts", "tea", "f1", {1}, "active")}
ProposalLists == UNION {[1 .. n -> ProposedItems] : n \in 0 .. 2}
KeyOfSpelling == [s \in {"tea", "Tea!", "!?"} |-> IF s = "!?" THEN "none" ELSE "tea"]

Pdf(pages, lines, named) == [pages |-> pages, lines |-> lines, summaryName |-> named]
\* three chunks; none, with a name that asks for a summary; no text at all
PdfTexts == {Pdf(4, <<"head", "a", "number", "head", "b", "c">>, FALSE),
             Pdf(3, <<"head", "number", "head">>, TRUE), Pdf(1, <<>>, FALSE)}

\* the limit cuts the lists of documents and of chats, and of no other page
ListLimits == [kind \in PageKinds |-> IF kind \in {"documents", "chats"} THEN 1 ELSE 2]

SharedHistory == [case \in {1, 2} |-> 1]

-----------------------------------------------------------------------------
(* The parts.                                                              *)

VARIABLE part

Parts == {"routing", "pipeline", "guard", "selection", "reranking", "store",
          "batches", "spans", "fork", "browser", "evals", "pages", "prompts", "chatpage",
          "counting", "proposals", "documents"}

\* two turns of the native mode at once, or one turn of any mode; turns are
\* interchangeable, and the first of the two is routed first
FirstTurn == CHOOSE t \in Turns : TRUE
TurnsTried == \/ turn \in [Turns -> {NewTurn("native", FALSE, FALSE)}]
              \/ \A t \in Turns \ {FirstTurn} : turn[t] = NoTurn
\* a turn past its retrieval touches nothing turns share, and goes first
PipelineTried ==
  /\ turn[FirstTurn].stage = "route" => turn'[FirstTurn] # turn[FirstTurn]
  /\ \A t \in Turns : turn[t].stage \in {"context", "assemble", "answer", "memory"} =>
       turn'[t] # turn[t]
\* the order of the raw sources matters where a raw span is demanded
SelectionsTried == plan.raw \/ rawFirst = "raw_message_span"
\* once all row ids are issued, one batch runs at a time; the second memory is
\* written last and once, where the index is used, and stays as it is
SecondMemory == CHOOSE m \in Memories : m # CHOOSE n \in Memories : TRUE
StoresTried == lastRow = MaxRow => \E b \in Batches : StepOf(b) = "idle"
SecondIsLast ==
  IF rows[SecondMemory] # Absent
    THEN /\ rows'[SecondMemory] = rows[SecondMemory]
         /\ \A b \in Batches : StepOf(b) = "idle" => batchOf'[b] = batchOf[b]
    ELSE \/ rows'[SecondMemory] = Absent
         \/ useIndex /\ rows'[SecondMemory] =
              RowOf(MaxRow, [fact |-> CHOOSE f \in Facts : TRUE, status |-> "active"])

\* under agentic_each_turn the online limits are not used; chat_end_only is
\* the scheduled policy before its first online update. Where no suffix is
\* protected, two questions with their answers are enough
BatchesTried ==
  /\ <<schedule.policy, schedule.online, schedule.replay>> \in
    {<<"scheduled", Pairwise, Pairwise>>, <<"scheduled", Guarded, Tight>>,
     <<"agentic_each_turn", Pairwise, Pairwise>>}
  /\ schedule.online = Pairwise => Len(log) <= 4
\* with gists, every chat has ended; a long chat is read from itself
SpansTried == /\ gistTable = {} \/ inactive = Chats
              /\ Len(transcript[1]) < 4 \/ reader = 1
\* chats are interchangeable; with two, a fork takes the place of a deleted chat
ForksTried == existing = ChatIds \ {CHOOSE chat \in ChatIds : TRUE}
TabsTried == \A c \in TabChats : Exists(c) => c = CHOOSE chat \in TabChats : TRUE
\* the other configuration is tried by one judge, and the last run resumes
EvalsTried == /\ job.config = 2 => job.judge = 1 /\ ~job.failFast
              /\ job.number = MaxRuns /\ job.state # "off" => job.resume /\ ~job.failFast
\* a page that may have been overtaken is only followed until it is at rest,
\* when it is loaded again
PagesTried ==
  /\ Cardinality(requests') + (IF FetchInFlight THEN 1 ELSE 0) <= 2
  /\ ~disturbed /\ disturbed' => Cardinality(requests) <= IF FetchInFlight THEN 0 ELSE 1
  /\ disturbed =>
       /\ Cardinality(requests') <= Cardinality(requests)
       /\ stored' = stored \/ requests' # requests
       /\ (requests # {} \/ FetchInFlight) =>
            \A slot \in Slots : fetches'[slot] = fetches[slot] \/ Fetching(slot)
\* the second and third turn of a chat may overlap, and the first two
PromptsTried ==
  /\ \A t, u \in PromptTurns : t < u /\ ask[u].step # "none" => ask[t].step # "none"
  /\ ask[3].step # "none" => ask[1].step = "done"
\* nothing depends on the message sent last; files are attached once the page's
\* own connection is settled, or before it is asked for
ChatPagesTried ==
  /\ lastSent = NothingSent /\ Cardinality(navigators') + Cardinality(late') <= 1
  /\ attached' # NoFile \/ uploads' # {} => hook' \in {"waiting", "over"} /\ late' = {}

\* documents are uploaded between the turns, and deleted until the hits are
\* expanded, which read nothing after that; they are interchangeable
PapersTried ==
  LET first == CHOOSE p \in Papers : TRUE IN
  /\ lookup # "idle" => \A p \in Papers : paper'[p] = paper[p] \/ paper'[p].state = "gone"
  /\ lookup = "expanded" => lookup' = "idle"
  /\ paper'[first].state = "unlisted" => \A p \in Papers : paper'[p].state = "unlisted"

\* where a part starts that the behaviour is not about
Asleep ==
  /\ GuardInit /\ ForkInit /\ ForksTried
  /\ part # "routing" => message = {} /\ setting = "none" /\ words = {} /\ RoutingInit
  /\ part # "pipeline" => turn = [t \in Turns |-> NoTurn] /\ PipelineInit
  /\ part # "selection" =>
       /\ ranked = <<>> /\ rawFirst = "raw_message_span" /\ room = CHOOSE r \in Rooms : TRUE
       /\ plan = RoutePlan("other", FALSE, {}, "other", FALSE) /\ SelectionInit
  /\ part # "reranking" =>
       /\ list = <<>> /\ query = [provenance |-> FALSE, decision |-> FALSE]
       /\ method = "deterministic" /\ backend = "auto" /\ RerankInit
  /\ part # "store" => useIndex = FALSE /\ StoreInit
  /\ part # "batches" =>
       schedule = [policy |-> "scheduled", online |-> Pairwise, replay |-> Pairwise] /\ BatchesInit
  /\ part # "spans" =>
       /\ transcript = (CHOOSE chats \in Transcripts : TRUE)
       /\ gistTable = {} /\ reader = 1 /\ inactive = {} /\ SpanInit
  /\ part # "browser" => dialog = [c \in TabChats |-> "none"] /\ TabInit
  /\ part # "evals" => suite = "own" /\ EvalInit
  /\ part # "pages" => pageKind = "chats" /\ stored = [r \in PageRecords |-> "gone"] /\ PageInit
  /\ PromptInit /\ ChatPageInit /\ CountInit /\ ProposalInit /\ PaperInit

ServicesInit ==
  /\ part \in Parts /\ Asleep
  /\ part = "routing" => RoutingInit
  /\ part = "pipeline" => PipelineInit /\ TurnsTried
  /\ part = "selection" => SelectionInit /\ SelectionsTried
  /\ part = "reranking" => RerankInit
  /\ part = "store" => StoreInit
  /\ part = "batches" => BatchesInit /\ BatchesTried
  /\ part = "spans" => SpanInit /\ SpansTried
  /\ part = "browser" => TabInit /\ TabsTried
  /\ part = "evals" => EvalInit
  /\ part = "pages" => PageInit

\* every part but the named one stays as it is
Only(name) ==
  /\ part = name /\ UNCHANGED part
  /\ name # "routing" => UNCHANGED routingVars
  /\ name # "pipeline" => UNCHANGED pipelineVars
  /\ name # "guard" => UNCHANGED guardVars
  /\ name # "selection" => UNCHANGED selectionVars
  /\ name # "reranking" => UNCHANGED rerankVars
  /\ name # "store" => UNCHANGED storeVars
  /\ name # "batches" => UNCHANGED batchVars
  /\ name # "spans" => UNCHANGED spanVars
  /\ name # "fork" => UNCHANGED forkVars
  /\ name # "browser" => UNCHANGED tabVars
  /\ name # "evals" => UNCHANGED evalVars
  /\ name # "pages" => UNCHANGED pageVars
  /\ name # "prompts" => UNCHANGED promptVars
  /\ name # "chatpage" => UNCHANGED chatPageVars
  /\ name # "counting" => UNCHANGED countVars
  /\ name # "proposals" => UNCHANGED proposalVars
  /\ name # "documents" => UNCHANGED paperVars

ServicesNext ==
  \/ Only("routing") /\ RoutingNext
  \/ Only("pipeline") /\ PipelineNext /\ PipelineTried
  \/ Only("guard") /\ GuardNext
  \/ Only("selection") /\ SelectionNext
  \/ Only("reranking") /\ RerankNext
  \/ Only("store") /\ StoreNext /\ StoresTried' /\ SecondIsLast
  \/ Only("batches") /\ BatchesNext /\ BatchesTried'
  \/ Only("spans") /\ SpanNext
  \/ Only("fork") /\ ForkNext
  \/ Only("browser") /\ TabNext
  \/ Only("evals") /\ EvalNext /\ EvalsTried'
  \/ Only("pages") /\ PageNext /\ PagesTried
  \/ Only("prompts") /\ PromptNext /\ PromptsTried'
  \/ Only("chatpage") /\ ChatPageNext /\ ChatPagesTried
  \/ Only("counting") /\ CountNext
  \/ Only("proposals") /\ ProposalNext
  \/ Only("documents") /\ PaperNext /\ PapersTried

servicesVars == <<routingVars, pipelineVars, guardVars, selectionVars, rerankVars,
                  storeVars, batchVars, spanVars, forkVars, tabVars, evalVars,
                  pageVars, promptVars, chatPageVars, countVars, proposalVars, paperVars, part>>
ServicesSpec == ServicesInit /\ [][ServicesNext]_servicesVars

(* The type invariant of the part that moves.                              *)
TypesOK ==
  CASE part = "pipeline" -> PipelineTypeOK [] part = "guard" -> GuardTypeOK
    [] part = "selection" -> SelectionTypeOK [] part = "reranking" -> RerankTypeOK
    [] part = "store" -> StoreTypeOK [] part = "batches" -> BatchesTypeOK
    [] part = "fork" -> ForkTypeOK [] part = "browser" -> TabTypeOK
    [] part = "evals" -> EvalTypeOK [] part = "pages" -> PageTypeOK
    [] part = "prompts" -> PromptTypeOK [] part = "chatpage" -> ChatPageTypeOK
    [] part = "counting" -> CountTypeOK
    [] part = "proposals" -> ProposalTypeOK [] part = "documents" -> PaperTypeOK
    [] OTHER -> TRUE

=============================================================================
