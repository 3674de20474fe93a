------------------------------ MODULE SpanRetrieval ------------------------------
(***************************************************************************)
(* Retrieval of raw messages: the windows around the messages that match   *)
(* the query (of other chats, and of the chat itself), an explicit span,   *)
(* the chronological chunks of a global summary, and the spans behind the  *)
(* gists that were retrieved.                                              *)
(*                                                                         *)
(* A message is what the rankings see of it: near, the best match of the   *)
(* query in one stretch of the text; overlap, its query terms in all; rare *)
(* terms; its size; and whether it repeats the query itself.  Its id is    *)
(* its place in the chat, and chats are numbered in the order they were    *)
(* created and written.                                                    *)
(***************************************************************************)
EXTENDS Naturals, Sequences, FiniteSets
LOCAL INSTANCE FiniteSetsExt

CONSTANTS
  Transcripts,    \* databases to look at: the messages of chats 1..n
  GistSets,       \* and their gists: [chat, first, last, overlap]
  HitLimit,       \* hits that are followed up
  HitWindow,      \* DIRECT_RAW_WINDOW_MESSAGES, on each side
  ChunkMessages,  \* DIRECT_RAW_MAX_MESSAGES_PER_SPAN, and of a gist's span
  MaxChars,       \* RAW_MESSAGE_SPAN_MAX_CHARS, in units of size
  RareBonus, FullScore

Seen == [near : Nat, overlap : Nat, rare : BOOLEAN, size : Nat, query : BOOLEAN]
StoredGists == [chat : Nat, first : Nat \ {0}, last : Nat, overlap : Nat]

ASSUME LimitsAssumption ==
  /\ HitLimit \in Nat \ {0} /\ HitWindow \in Nat /\ ChunkMessages \in Nat \ {0}
  /\ RareBonus \in Nat /\ FullScore \in Nat
ASSUME SeenAssumption ==
  /\ Transcripts \subseteq Seq(Seq(Seen))
  /\ \A gists \in GistSets : gists \subseteq StoredGists

VARIABLES transcript, inactive, gistTable, reader, asked, spans
spanVars == <<transcript, inactive, gistTable, reader, asked, spans>>

Chats == DOMAIN transcript
Positions(chat) == DOMAIN transcript[chat]
MessageAt(chat, i) == transcript[chat][i]

LastId(ids) == CHOOSE i \in ids : \A j \in ids : j <= i
FirstId(ids) == CHOOSE i \in ids : \A j \in ids : i <= j

-----------------------------------------------------------------------------
(* What a span shows of its messages.                                      *)

\* one omission marker before, after, and in every gap; each has size 1
Markers(span, shown) ==
  Cardinality({i \in shown : i - 1 \in span /\ i - 1 \notin shown})
    + (IF LastId(shown) < LastId(span) THEN 1 ELSE 0)
SizeOf(chat, ids) == MapThenSumSet(LAMBDA i : MessageAt(chat, i).size, ids)
RenderedSize(chat, span, shown) == SizeOf(chat, shown) + Markers(span, shown)
FitsWith(chat, span, shown) == RenderedSize(chat, span, shown) <= MaxChars

\* best_query_message_index, best_anchor_index
BestOf(chat, among) ==
  CHOOSE i \in among : \A j \in among :
    MessageAt(chat, i).near > MessageAt(chat, j).near \/ (MessageAt(chat, i).near = MessageAt(chat, j).near /\ i >= j)

Distance(i, anchors) == Min({IF i > a THEN i - a ELSE a - i : a \in anchors})
Nearer(i, j, anchors) ==
  \/ Distance(i, anchors) < Distance(j, anchors)
  \/ Distance(i, anchors) = Distance(j, anchors) /\ i < j

\* the neighbours that are shown with what is kept: the nearest first, as they fit
Neighbours(chat, span, kept) ==
  LET place(i) == Cardinality({j \in span \ kept : ~Nearer(i, j, kept)})
      shown[n \in 0 .. Cardinality(span)] ==
        LET next == shown[n - 1] \cup {i \in span \ kept : place(i) = n} IN
        IF n = 0 THEN {}
        ELSE IF FitsWith(chat, span, kept \cup next) THEN next ELSE shown[n - 1]
  IN shown[Cardinality(span)]

\* format_raw_span_with_anchor: all, or the anchors and the neighbours that fit,
\* or an excerpt of one anchor
Quoted(chat, span, anchors) ==
  LET kept == IF anchors \cap span = {} THEN {BestOf(chat, span)} ELSE anchors \cap span IN
  IF SizeOf(chat, span) <= MaxChars THEN span
  ELSE IF ~FitsWith(chat, span, kept) THEN {BestOf(chat, kept)}
  ELSE kept \cup Neighbours(chat, span, kept)

Span(chat, messages, anchors) ==
  [chat |-> chat, messages |-> messages, anchors |-> anchors,
   quoted |-> Quoted(chat, messages, anchors)]

-----------------------------------------------------------------------------
(* Windows around the messages that match.                                 *)

Score(message) ==
  LET points == 7 * message.near + 3 * message.overlap
                  + (IF message.rare THEN RareBonus ELSE 0) IN
  IF points < FullScore THEN points ELSE FullScore

\* by score, the later message first
Better(h, k) ==
  LET a == Score(MessageAt(h[1], h[2])) b == Score(MessageAt(k[1], k[2])) IN
  a > b \/ (a = b /\ (h[1] > k[1] \/ (h[1] = k[1] /\ h[2] > k[2])))
TopHits(hits) == {h \in hits : Cardinality({k \in hits : Better(k, h)}) < HitLimit}

WindowAround(hit) ==
  {i \in Positions(hit[1]) : i <= hit[2] + HitWindow /\ hit[2] <= i + HitWindow}

\* Mutant: overlapping windows are not merged
BugMergeRanges(ranges) == ranges

\* merge_inclusive_ranges: overlapping and adjacent ranges become one, that is,
\* the longest runs of what the ranges cover
MergeRanges(ranges) ==
  LET covered == UNION ranges IN
  {ends[1] .. ends[2] : ends \in {e \in covered \X covered :
     /\ e[1] <= e[2] /\ e[1] .. e[2] \subseteq covered
     /\ e[1] - 1 \notin covered /\ e[2] + 1 \notin covered}}

TopIn(hits, chat) == {h \in TopHits(hits) : h[1] = chat}
Windows(hits) ==
  UNION {{chat} \X MergeRanges({WindowAround(h) : h \in TopIn(hits, chat)}) : chat \in Chats}
HitsIn(hits, window) == {h[2] : h \in {k \in TopIn(hits, window[1]) : k[2] \in window[2]}}

InactiveChats(scope) == {chat \in inactive \cap scope : chat # reader}
Matching(chats) ==
  UNION {{<<chat, i>> : i \in {j \in Positions(chat) : MessageAt(chat, j).overlap > 0}} : chat \in chats}

\* _retrieve_direct; there are never more windows than hits, so no cut is left to make
DirectSpans(scope) ==
  LET hits == Matching(InactiveChats(scope)) IN
  {Span(w[1], w[2], HitsIn(hits, w)) : w \in Windows(hits)}

\* CurrentChatSpanRetriever: the query, and what repeats it, is no hit and is left out
OwnHits == {h \in Matching({reader}) : ~MessageAt(h[1], h[2]).query}
CurrentSpans ==
  {Span(w[1], {i \in w[2] : ~MessageAt(w[1], i).query}, HitsIn(OwnHits, w)) : w \in Windows(OwnHits)}

-----------------------------------------------------------------------------
(* An explicit span, and the chunks of a global summary.                   *)

\* without explicit anchors the best match is one, or without a query everything
ExplicitSpans(scope, chat, first, last, anchors, query) ==
  LET span == Positions(chat) \cap (first .. last) IN
  IF chat \notin scope \/ span = {} THEN {}
  ELSE {Span(chat, span, IF anchors \cap span # {} THEN anchors \cap span
                         ELSE IF query THEN {BestOf(chat, span)} ELSE span)}

Joins(chat, chunk, i) ==
  /\ Cardinality(chunk) < ChunkMessages
  /\ SizeOf(chat, chunk \cup {i}) <= MaxChars

\* chronological_message_chunks: with which message the chunk of each begins
ChunkStart(chat) ==
  LET start[i \in Positions(chat)] ==
        IF i = 1 THEN 1
        ELSE IF Joins(chat, start[i - 1] .. (i - 1), i) THEN start[i - 1] ELSE i
  IN start
Chunks(chat) ==
  {{i \in Positions(chat) : ChunkStart(chat)[i] = ChunkStart(chat)[k]} : k \in Positions(chat)}

SummarySpans(scope) ==
  UNION {{Span(chat, chunk, chunk) : chunk \in Chunks(chat)} : chat \in InactiveChats(scope)}

-----------------------------------------------------------------------------
(* Gists, and the spans behind them.                                       *)

\* previous gists are those of every chat, the reader's own ones included
PreviousGists == gistTable
CurrentGists == {g \in gistTable : g.chat = reader}

\* those that match the query, the best of them; all of them for a global summary
FoundGists(source, summary) ==
  LET gists == IF source = "previous" THEN PreviousGists ELSE CurrentGists
      matching == {g \in gists : g.overlap > 0} IN
  IF summary /\ source = "previous" THEN {gists}
  ELSE {top \in SUBSET matching :
          /\ Cardinality(top) = Min({HitLimit, Cardinality(matching)})
          /\ \A g \in top, h \in matching \ top : g.overlap >= h.overlap}

\* the messages a gist was made of
Request(g) == g.first .. g.last

\* merge_requests: ranges that share a message become one, adjacent ones do not
MergeRequests(chat, found) ==
  LET ranges == {Request(g) : g \in {h \in found : h.chat = chat}}
      covered == UNION ranges
      linked(i) == \E r \in ranges : i \in r /\ i + 1 \in r IN
  {ends[1] .. ends[2] : ends \in {e \in covered \X covered :
     /\ e[1] <= e[2] /\ \A i \in e[1] .. e[2] : i = e[2] \/ linked(i)
     /\ \A r \in ranges : r \cap (e[1] .. e[2]) # {} => r \subseteq e[1] .. e[2]}}

MostTerms(chat, among) ==
  {i \in among : \A j \in among : MessageAt(chat, i).overlap >= MessageAt(chat, j).overlap}

\* bounded_messages: a window of the span that holds its best message
BoundedWindow(chat, span) ==
  LET best == LastId(MostTerms(chat, span)) n == ChunkMessages
      before == IF best > FirstId(span) + n \div 2 THEN best - n \div 2 ELSE FirstId(span)
      first == IF before + n <= LastId(span) + 1 THEN before ELSE LastId(span) + 1 - n IN
  IF Cardinality(span) <= n THEN span ELSE first .. (first + n - 1)

\* best_message_ids
GistAnchors(chat, window) ==
  IF \A i \in window : MessageAt(chat, i).overlap = 0 THEN {LastId(window)} ELSE MostTerms(chat, window)

Expansions(found) ==
  UNION {{LET window == BoundedWindow(chat, run) IN Span(chat, window, GistAnchors(chat, window))
            : run \in MergeRequests(chat, found)} : chat \in Chats}

-----------------------------------------------------------------------------
Scopes == SUBSET Chats

SpanInit ==
  /\ transcript \in Transcripts /\ gistTable \in GistSets
  /\ \A g \in gistTable : g.chat \in Chats /\ g.last \in Positions(g.chat)
  /\ reader \in Chats /\ inactive \in SUBSET Chats
  /\ asked = "nothing" /\ spans = {}

Answer(path, found) ==
  /\ asked = "nothing" /\ asked' = path /\ spans' = found
  /\ UNCHANGED <<transcript, inactive, gistTable, reader>>

RetrieveDirect(scope) == Answer("direct", DirectSpans(scope))
RetrieveCurrent == Answer("current", CurrentSpans)
RetrieveSummary == Answer("summary", SummarySpans(Chats))
RetrieveExplicit(chat, first, last, anchors, query) ==
  Answer("explicit", ExplicitSpans(Chats, chat, first, last, anchors, query))
RetrieveGists(source, summary) ==
  \E found \in FoundGists(source, summary) : Answer("gists", Expansions(found))

SpanNext ==
  \/ \E scope \in Scopes : RetrieveDirect(scope)
  \/ RetrieveCurrent \/ RetrieveSummary
  \/ \E chat \in Chats, query \in BOOLEAN :
       \E last \in Positions(chat) : \E first \in 1 .. last :
         \E anchors \in {{}, {last}} : RetrieveExplicit(chat, first, last, anchors, query)
  \/ \E source \in {"previous", "current"}, summary \in BOOLEAN : RetrieveGists(source, summary)
SpanSpec == SpanInit /\ [][SpanNext]_spanVars

-----------------------------------------------------------------------------
(* Properties.                                                             *)

\* the best hit of a search, wherever it is
BestHitOf(hits) == CHOOSE h \in hits : \A k \in hits \ {h} : Better(h, k)

(* However windows are merged and cut to size, no message is given twice   *)
(* by one search, the best hit is in one of the spans, and every span      *)
(* still quotes, of the messages it was retrieved for, one that matches    *)
(* the query best.                                                         *)
BestMatchesAreQuotedOnce ==
  /\ \A s, t \in spans : s # t /\ s.chat = t.chat => s.messages \cap t.messages = {}
  /\ \A s \in spans : \E i \in s.quoted \cap s.anchors :
       \A j \in s.anchors : MessageAt(s.chat, i).near >= MessageAt(s.chat, j).near
  /\ (asked = "current" /\ OwnHits # {}) =>
       \E s \in spans : s.chat = reader /\ BestHitOf(OwnHits)[2] \in s.messages

=============================================================================
