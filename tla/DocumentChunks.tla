----------------------------- MODULE DocumentChunks -----------------------------
(***************************************************************************)
(* From the lines of a PDF to the chunks an answer quotes: the text is     *)
(* normalized (documents/loaders.py), split and stored, searched in the    *)
(* scope of a turn (LangChainChromaRetriever.retrieve), and what survives  *)
(* the ranking is expanded by the neighbouring chunks, which are fetched   *)
(* from the store a second time (_expand_neighbors).  Uploads and          *)
(* deletions are handled while a turn is between the two reads.            *)
(*                                                                         *)
(* DocumentUpload follows the status of a document and its scope; here a   *)
(* document is either searchable or not, and its text is kept.  A chunk is *)
(* one line of the text.  The splitter returns no blank chunk, so that the *)
(* chunks of a document are numbered without a gap.                        *)
(***************************************************************************)
EXTENDS Naturals, Sequences, FiniteSets

CONSTANTS
  Papers,        \* document ids
  PdfFiles,      \* files: [pages, lines, summaryName], a line is a word or "number"
  PageLimit,     \* MAX_PDF_PAGES
  FetchLimit,    \* DOCUMENT_RETRIEVAL_FETCH_LIMIT
  NoScope        \* the chat has no row: the search is not scoped

ASSUME PapersAssumption == FetchLimit \in Nat /\ \A file \in PdfFiles : IsFiniteSet(DOMAIN file.lines)

VARIABLES
  paper,      \* [Papers -> [state, summary, summaryName]]
  chunkStore, \* the Chroma collection: <<paper, index>>
  lookup,     \* "idle", "searched", "ranked", "expanded"
  docQuery,   \* the query of the turn: [scope, summary]
  found,      \* candidates: [paper, index, text], the text as the indexes it quotes
  lasting     \* chunks that were stored ever since the search

NoDocQuery == [scope |-> <<>>, summary |-> FALSE]

paperVars == <<paper, chunkStore, lookup, docQuery, found, lasting>>

-----------------------------------------------------------------------------
(* Loading.                                                                *)

\* normalize_pdf_text: page numbers go, then lines repeated on half the pages;
\* what is counted are lines, whatever page they are on
NormalizedLines(file) ==
  LET text == {i \in DOMAIN file.lines : file.lines[i] # "number"}
      half == file.pages \div 2
      Repeated(i) == Cardinality({j \in text : file.lines[j] = file.lines[i]})
                       >= (IF half > 2 THEN half ELSE 2) IN
  IF file.pages >= 3 THEN {i \in text : ~Repeated(i)} ELSE text

\* load_pdf_file: the text is missed before it is normalized, not after
Loads(file) == file.pages <= PageLimit /\ file.lines # <<>>

\* index_text_document
ChunksOf(p, lines) == {p} \X (1 .. Cardinality(lines))

Unlisted == [state |-> "unlisted", summary |-> FALSE, summaryName |-> FALSE]
Searchable == {p \in Papers : paper[p].state = "ready"}

LoadAndIndex(p, file) ==
  /\ paper[p].state = "unlisted" /\ Loads(file)
  /\ paper' = [paper EXCEPT ![p] =
       [state |-> "indexed", summary |-> FALSE, summaryName |-> file.summaryName]]
  /\ chunkStore' = chunkStore \cup ChunksOf(p, NormalizedLines(file))
  /\ UNCHANGED <<lookup, docQuery, found, lasting>>

LoadIsRefused(p, file) ==
  /\ paper[p].state = "unlisted" /\ ~Loads(file)
  /\ paper' = [paper EXCEPT ![p].state = "failed"]
  /\ UNCHANGED <<chunkStore, lookup, docQuery, found, lasting>>

\* _generate_summary, which may fail; then the upload reports Ready
Summarize(p, made) ==
  /\ paper[p].state = "indexed"
  /\ paper' = [paper EXCEPT ![p].state = "ready", ![p].summary = made]
  /\ UNCHANGED <<chunkStore, lookup, docQuery, found, lasting>>

\* delete_document_chunks
RemovePaperChunks(p) ==
  /\ paper[p].state = "ready" /\ \E c \in chunkStore : c[1] = p
  /\ chunkStore' = {c \in chunkStore : c[1] # p} /\ lasting' = {c \in lasting : c[1] # p}
  /\ UNCHANGED <<paper, lookup, docQuery, found>>

\* hard_delete_document, also after chunks could not be removed
DeletePaper(p) ==
  /\ paper[p].state \in {"ready", "failed"}
  /\ paper' = [paper EXCEPT ![p] = [Unlisted EXCEPT !.state = "gone"]]
  /\ UNCHANGED <<chunkStore, lookup, docQuery, found, lasting>>

-----------------------------------------------------------------------------
(* Searching.                                                              *)

ScopeSet(r) == IF r.scope = NoScope THEN Papers ELSE {r.scope[i] : i \in DOMAIN r.scope}
SearchScopes == {NoScope} \cup UNION {{s \in [1 .. n -> Searchable] :
                          \A i, j \in 1 .. n : i # j => s[i] # s[j]} : n \in 0 .. 2}

ChunkHit(c) == [paper |-> c[1], index |-> c[2], text |-> <<c[2]>>]
\* _try_summary_candidate: the summary is of the first document only
SummaryHits(r, asksSummary) ==
  IF /\ asksSummary /\ r.scope \notin {NoScope, <<>>}
     /\ paper[r.scope[1]].state # "gone" /\ paper[r.scope[1]].summary
    THEN <<[paper |-> r.scope[1], index |-> 0, text |-> <<0>>]>> ELSE <<>>

\* the chunks in the scope, the most similar first
SearchResults(r) ==
  LET inScope == {c \in chunkStore : c[1] \in ScopeSet(r)}
      n == IF Cardinality(inScope) < FetchLimit THEN Cardinality(inScope) ELSE FetchLimit IN
  {s \in [1 .. n -> inScope] : \A i, j \in 1 .. n : i # j => s[i] # s[j]}

\* the dispatcher asks an empty search again with the names of the documents,
\* and a name may ask for a summary
AsksSummary(r) ==
  \/ r.summary
  \/ \E i \in DOMAIN r.scope : paper[r.scope[i]].summaryName

SearchPapers(r) ==
  /\ lookup = "idle" /\ lookup' = "searched" /\ docQuery' = r /\ lasting' = chunkStore
  /\ IF r.scope = <<>> THEN found' = <<>>
     ELSE \E order \in SearchResults(r) :
       LET results == [i \in DOMAIN order |-> ChunkHit(order[i])]
           first == SummaryHits(r, r.summary) \o results IN
       found' = IF first = <<>> /\ r.scope # NoScope THEN SummaryHits(r, AsksSummary(r)) ELSE first
  /\ UNCHANGED <<paper, chunkStore>>

\* LangChainChromaUnavailable: the summary, found before, is lost with it
ChromaIsUnavailable(r) ==
  /\ lookup = "idle" /\ lookup' = "searched" /\ docQuery' = r /\ found' = <<>>
  /\ lasting' = chunkStore /\ UNCHANGED <<paper, chunkStore>>

\* the reranker and the selection (see Reranking) keep some in another order
RankFound(kept) ==
  /\ lookup = "searched" /\ lookup' = "ranked"
  /\ found' = [i \in DOMAIN kept |-> found[kept[i]]]
  /\ UNCHANGED <<paper, chunkStore, docQuery, lasting>>
KeptOrders == UNION {{s \in [1 .. n -> DOMAIN found] :
                       \A i, j \in 1 .. n : i # j => s[i] # s[j]} : n \in 0 .. Len(found)}

-----------------------------------------------------------------------------
(* _expand_neighbors.                                                      *)

\* chunks are numbered from 1 on, and a summary has number 0
NextTo(i) == {i - 1, i + 1} \ {0}
ChunkHits(hits) == {k \in DOMAIN hits : hits[k].index # 0}

\* Mutant: a chunk is merged into the last candidate that needs it
BugNeeded(hits) ==
  {w \in UNION {{k} \X NextTo(hits[k].index) : k \in ChunkHits(hits)} :
     \A k \in ChunkHits(hits) : (k > w[1] /\ hits[k].paper = hits[w[1]].paper) =>
       w[2] \notin NextTo(hits[k].index)}

\* needed: each candidate with the chunks it needs
Needed(hits) == UNION {{k} \X NextTo(hits[k].index) : k \in ChunkHits(hits)}

ExpandedText(k) ==
  LET hit == found[k]
      Part(i) == IF <<k, i>> \in Needed(found) /\ <<hit.paper, i>> \in chunkStore
                   THEN <<i>> ELSE <<>> IN
  IF hit.index = 0 THEN hit.text ELSE Part(hit.index - 1) \o hit.text \o Part(hit.index + 1)

ExpandNeighbors ==
  /\ lookup = "ranked" /\ lookup' = "expanded"
  /\ found' = [k \in DOMAIN found |-> [found[k] EXCEPT !.text = ExpandedText(k)]]
  /\ UNCHANGED <<paper, chunkStore, docQuery, lasting>>

\* the store could not be read
ExpansionFails ==
  /\ lookup = "ranked" /\ lookup' = "expanded"
  /\ UNCHANGED <<paper, chunkStore, docQuery, found>> /\ lasting' = {}

LookupEnds ==
  /\ lookup = "expanded" /\ lookup' = "idle" /\ docQuery' = NoDocQuery /\ found' = <<>>
  /\ lasting' = {} /\ UNCHANGED <<paper, chunkStore>>

-----------------------------------------------------------------------------
PaperInit ==
  /\ paper = [p \in Papers |-> Unlisted] /\ chunkStore = {} /\ lookup = "idle"
  /\ docQuery = NoDocQuery /\ found = <<>> /\ lasting = {}
DocQueries == [scope : SearchScopes, summary : BOOLEAN]

PaperNext ==
  \/ \E p \in Papers, file \in PdfFiles : LoadAndIndex(p, file) \/ LoadIsRefused(p, file)
  \/ \E p \in Papers, made \in BOOLEAN : Summarize(p, made)
  \/ \E p \in Papers : RemovePaperChunks(p) \/ DeletePaper(p)
  \/ \E r \in DocQueries : SearchPapers(r) \/ ChromaIsUnavailable(r)
  \/ \E kept \in KeptOrders : RankFound(kept)
  \/ ExpandNeighbors \/ ExpansionFails \/ LookupEnds
PaperSpec == PaperInit /\ [][PaperNext]_paperVars

-----------------------------------------------------------------------------
(* Properties.                                                             *)

PaperTypeOK ==
  /\ lookup \in {"idle", "searched", "ranked", "expanded"}
  /\ DOMAIN paper = Papers
  /\ \A p \in Papers : /\ paper[p].state \in {"unlisted", "indexed", "ready", "failed", "gone"}
                       /\ paper[p].state = "indexed" => ~paper[p].summary
  /\ IsFiniteSet(chunkStore) /\ chunkStore \subseteq Papers \X (Nat \ {0})
  /\ lasting \subseteq chunkStore

(* What a hit quotes is one passage of its own document: consecutive       *)
(* chunks around the one that was found, in their order, nothing of a      *)
(* document outside the turn's scope, and nothing is left out that was     *)
(* stored from the search to the expansion, whichever hits share a         *)
(* neighbour and whatever is deleted in between.                           *)
HitsQuoteOnePassage ==
  \A k \in DOMAIN found :
    LET hit == found[k] quoted == {hit.text[i] : i \in DOMAIN hit.text} IN
    /\ hit.paper \in ScopeSet(docQuery)
    /\ hit.index \in quoted /\ \A i \in 2 .. Len(hit.text) : hit.text[i] = hit.text[i - 1] + 1
    /\ quoted \subseteq {hit.index} \cup NextTo(hit.index)
    /\ (lookup = "expanded" /\ hit.index # 0) =>
         \A i \in NextTo(hit.index) : <<hit.paper, i>> \in lasting => i \in quoted

=============================================================================
