------------------------------ MODULE RecordPages ------------------------------
(* A page of the React frontend that lists records: memories, documents, or *)
(* chats (as a page, or as the sidebar of a chat). The records live in the  *)
(* server's tables. The page fetches them, as many as a list may have,      *)
(* patches its own copy when a button's request is answered, and is told of *)
(* no other change. A chat without a message is no record: its list leaves  *)
(* it out (require_messages).                                               *)
EXTENDS Naturals, FiniteSets

CONSTANTS PageRecords, \* the records there can be
          NoRow,       \* the rows of an error that is answered like a list
          ListLimit,   \* per kind of page, the limit of the routes' lists
          MaxRequests  \* at most so many requests of a button are in flight

VARIABLES pageKind,    \* the page that is open
          stored,      \* the server's tables: the status of each record
          rowsShown,   \* the page's rows: the list a row came in, its record, its status
          fetches,     \* the loads in flight, by slot, with the answer to each request
          requests,    \* the requests of the page's buttons that are in flight
          pageLoading, pageError,
          failedParts, \* the lists whose request failed in the last load
          cutParts,    \* the lists the limit cut in the last load, both if a request
                       \* was in flight, whose record a list may have left out (history)
          disturbed    \* whether the page may have been overtaken since its last quiet load

pageVars == <<pageKind, stored, rowsShown, fetches, requests, pageLoading, pageError,
              failedParts, cutParts, disturbed>>

Partitions == {"live", "deleted"}
PageKinds == {"memories", "documents", "chats", "sidebar"}
Operations == {"deactivate", "activate", "delete"}
Slots == {1, 2}

ASSUME PagesAssumption == ListLimit \in [PageKinds -> Nat \ {0}]

Unserved == [got |-> "asked", ids |-> {}, cut |-> FALSE]
NoFetch == [p \in Partitions |-> [got |-> "none", ids |-> {}, cut |-> FALSE]]
NewFetch == [p \in Partitions |-> Unserved]
Fetching(slot) == fetches[slot] # NoFetch
FetchInFlight == \E slot \in Slots : Fetching(slot)

\* memories and documents are fetched by two requests, chats by one
TwoLists == pageKind \in {"memories", "documents"}
Row(list, id, status) == [list |-> list, id |-> id, status |-> status]
StoredIn(p) == {id \in PageRecords : stored[id] = p}
\* what a list may have of the records a request asks for
Fitting(S) ==
  IF Cardinality(S) <= ListLimit[pageKind] THEN {S}
  ELSE {T \in SUBSET S : Cardinality(T) = ListLimit[pageKind]}

-----------------------------------------------------------------------------
(* The server.                                                             *)

\* the status an operation's statement leaves in the tables
StatusAfter(op) == CASE op = "deactivate" -> "deleted"
                     [] op = "activate" -> "live"
                     [] op = "delete" -> "gone"

\* ending a chat is the one operation whose refusal carries an error status;
\* the others return a pair, which is sent as a list with status 200
RefusalFails(op) == ~TwoLists /\ op = "deactivate"

\* the routes look the record up, change it and answer; an error of the
\* database changes nothing and is answered as the record's absence is
ServeRequest(r, refused) ==
  /\ r.answer = "asked" /\ r \in requests
  /\ stored[r.id] = "gone" => refused
  /\ stored' = IF refused THEN stored ELSE [stored EXCEPT ![r.id] = StatusAfter(r.op)]
  /\ \E answer \in IF ~refused THEN {"done", "lost"}
                   ELSE IF RefusalFails(r.op) THEN {"lost"}
                   ELSE IF stored[r.id] = "gone" /\ r.op = "delete" THEN {"done", "lost"}
                   ELSE {"refused", "lost"} :
       requests' = (requests \ {r}) \cup {[r EXCEPT !.answer = answer]}
  /\ disturbed' = (disturbed \/ (stored' # stored /\ FetchInFlight))
  /\ UNCHANGED <<pageKind, rowsShown, fetches, pageLoading, pageError, failedParts, cutParts>>

\* a list is read at the time its own request is served
ServeFetch(slot, parts, got) ==
  /\ parts \in IF TwoLists THEN {{"live"}, {"deleted"}} ELSE {Partitions}
  /\ \A p \in parts : fetches[slot][p].got = "asked"
  /\ LET asked == UNION {StoredIn(p) : p \in parts} IN
     \E listed \in IF got = "rows" THEN Fitting(asked) ELSE {{}} :
       fetches' = [fetches EXCEPT ![slot] = [p \in Partitions |->
         IF p \notin parts THEN fetches[slot][p]
         ELSE [got |-> got, ids |-> listed \cap StoredIn(p), cut |-> got = "rows" /\ listed # asked]]]
  /\ disturbed' = (disturbed \/ got = "error" \/ (got = "lost" /\ ~TwoLists))
  /\ UNCHANGED <<pageKind, stored, rowsShown, requests, pageLoading, pageError, failedParts,
                 cutParts>>

\* a chat's turn, another tab or an upload changes the tables
OthersChange(id, status) ==
  /\ stored[id] # status /\ stored' = [stored EXCEPT ![id] = status]
  /\ disturbed' = TRUE
  /\ UNCHANGED <<pageKind, rowsShown, fetches, requests, pageLoading, pageError, failedParts,
                 cutParts>>

-----------------------------------------------------------------------------
(* The page.                                                               *)

\* a load that starts when nothing is in flight sees everything done before
StartFetch(slot) ==
  /\ ~Fetching(slot)
  /\ fetches' = [fetches EXCEPT ![slot] = NewFetch]
  /\ pageLoading' = TRUE /\ pageError' = FALSE /\ failedParts' = {}

\* the Refresh button; the sidebar is fetched again when another chat is opened
RefreshRows(slot) ==
  /\ pageKind # "chats" /\ (TwoLists => ~pageLoading)
  /\ StartFetch(slot)
  /\ disturbed' = (FetchInFlight \/ (disturbed /\ requests # {}))
  /\ UNCHANGED <<pageKind, stored, rowsShown, requests, cutParts>>

\* an error answered like a list is spread into rows of no record
RowsOf(p, answer) == IF answer.got = "error" THEN {Row(p, NoRow, "live")}
                     ELSE {Row(p, id, p) : id \in answer.ids}

LostParts(f) == {p \in Partitions : f[p].got = "lost"}

\* a failed request does not discard the other list; the chats' one request
\* that fails leaves the rows as they were
FetchArrives(slot) ==
  LET f == fetches[slot] lost == LostParts(f) IN
  /\ \A p \in Partitions : f[p].got \in {"rows", "error", "lost"}
  /\ rowsShown' = IF ~TwoLists /\ lost # {} THEN rowsShown
                  ELSE UNION {RowsOf(p, f[p]) : p \in Partitions}
  /\ failedParts' = IF TwoLists THEN lost ELSE {}
  /\ LET cut == {p \in Partitions : f[p].cut} IN
     cutParts' = IF requests = {} \/ cut = {} THEN cut ELSE Partitions
  /\ pageError' = IF pageKind = "sidebar" THEN FALSE ELSE lost = Partitions
  /\ pageLoading' = FALSE
  /\ fetches' = [fetches EXCEPT ![slot] = NoFetch]
  /\ disturbed' = (disturbed \/ (lost # {} /\ requests # {}))
  /\ UNCHANGED <<pageKind, stored, requests>>

\* what the page displays of a list; the sidebar has no loading state
Displayed(p) ==
  IF pageKind # "sidebar" /\ (pageLoading \/ pageError \/ p \in failedParts) THEN {}
  ELSE {row \in rowsShown : row.status = p}

\* a row's buttons; none is disabled while a request is in flight
Offered(p) == (IF p = "live" THEN {"deactivate"} ELSE {"activate"})
              \cup (IF pageKind = "sidebar" THEN {} ELSE {"delete"})

Press(op, id) ==
  /\ Cardinality(requests) < MaxRequests
  /\ \E p \in Partitions : op \in Offered(p) /\ \E row \in Displayed(p) : row.id = id
  /\ \A r \in requests : <<r.op, r.id>> # <<op, id>>
  /\ requests' = requests \cup {[op |-> op, id |-> id, answer |-> "asked"]}
  /\ UNCHANGED <<pageKind, stored, rowsShown, fetches, pageLoading, pageError,
                 failedParts, cutParts, disturbed>>

\* the rows as the handler of an answered request patches them: memories
\* are not patched after a deletion, they are loaded again
Patched(op, id) ==
  IF op # "delete"
  THEN {IF row.id = id THEN [row EXCEPT !.status = StatusAfter(op)] ELSE row : row \in rowsShown}
  ELSE IF pageKind = "memories" THEN rowsShown
  ELSE {row \in rowsShown : row.id # id}

\* Mutant: memories are not loaded again after a deletion
BugReloads(op) == op = "delete" /\ pageKind = "documents"

\* a deletion is followed by a load, except of chats
Reloads(op) == op = "delete" /\ TwoLists

\* every answer with status 200 counts as done
RequestAnswered(r) ==
  /\ r \in requests /\ r.answer \in {"done", "refused"}
  /\ requests' = requests \ {r}
  /\ rowsShown' = Patched(r.op, r.id)
  /\ IF Reloads(r.op)
     THEN \E slot \in Slots : StartFetch(slot)
     ELSE UNCHANGED <<fetches, pageLoading, pageError, failedParts>>
  /\ disturbed' = (\/ disturbed \/ r.answer = "refused"
                   \/ Reloads(r.op) /\ FetchInFlight
                   \/ \E other \in requests' : other.id = r.id)
  /\ UNCHANGED <<pageKind, stored, cutParts>>

\* a request that failed is logged; it may have been served
RequestFailed(r) ==
  /\ r \in requests /\ r.answer = "lost"
  /\ requests' = requests \ {r}
  /\ pageError' = (pageError \/ (pageKind = "documents" /\ r.op = "delete"))
  /\ disturbed' = TRUE
  /\ UNCHANGED <<pageKind, stored, rowsShown, fetches, pageLoading, failedParts, cutParts>>

-----------------------------------------------------------------------------

PageInit ==
  /\ pageKind \in PageKinds
  /\ stored \in [PageRecords -> Partitions \cup {"gone"}]
  /\ rowsShown = {} /\ requests = {} /\ disturbed = FALSE
  /\ fetches = [slot \in Slots |-> IF slot = 1 THEN NewFetch ELSE NoFetch]
  /\ pageLoading = TRUE /\ pageError = FALSE /\ failedParts = {} /\ cutParts = {}

PageNext ==
  \/ \E r \in requests : \/ \E refused \in BOOLEAN : ServeRequest(r, refused)
                         \/ RequestAnswered(r) \/ RequestFailed(r)
  \/ \E slot \in Slots, parts \in SUBSET Partitions, got \in {"rows", "error", "lost"} :
       ServeFetch(slot, parts, got)
  \/ \E slot \in Slots : RefreshRows(slot) \/ FetchArrives(slot)
  \/ \E op \in Operations, id \in PageRecords : Press(op, id)
  \/ \E id \in PageRecords, status \in Partitions \cup {"gone"} : OthersChange(id, status)

PageSpec == PageInit /\ [][PageNext]_pageVars

PageTypeOK ==
  /\ pageKind \in PageKinds /\ stored \in [PageRecords -> Partitions \cup {"gone"}]
  /\ rowsShown \in SUBSET [list : Partitions, id : PageRecords \cup {NoRow}, status : Partitions]
  /\ \A slot \in Slots, p \in Partitions :
       /\ fetches[slot][p].got \in {"none", "asked", "rows", "error", "lost"}
       /\ fetches[slot][p].ids \in SUBSET PageRecords /\ fetches[slot][p].cut \in BOOLEAN
  /\ requests \in SUBSET [op : Operations, id : PageRecords,
                          answer : {"asked", "done", "refused", "lost"}]
  /\ failedParts \in SUBSET Partitions /\ cutParts \in SUBSET Partitions
  /\ {pageLoading, pageError, disturbed} \subseteq BOOLEAN

(* A page at rest displays, in each list that did not fail, only records   *)
(* the server has there, each once, and all of them unless the limit of    *)
(* the route cut the list: although the two lists are read at different    *)
(* times, although the buttons of several records may be pressed while a   *)
(* load or another request is in flight, and although the page only        *)
(* patches its copy. What it does not survive is another client, a record  *)
(* that changes while a load is in flight, two loads or two requests for   *)
(* one record at once, a request that fails or is refused, or a list that  *)
(* fails while the request of a row it held is in flight; and with such a  *)
(* request in flight, a list that is cut may cost the other one a record.  *)
PageShowsStore ==
  ~FetchInFlight /\ requests = {} /\ ~disturbed =>
    \A p \in Partitions : p \notin failedParts =>
      /\ {row.id : row \in Displayed(p)} \subseteq StoredIn(p)
      /\ p \notin cutParts => StoredIn(p) \subseteq {row.id : row \in Displayed(p)}
      /\ \A row, other \in Displayed(p) : row.id = other.id => row = other

=============================================================================
