-------------------------------- MODULE ChatFork --------------------------------
(***************************************************************************)
(* The fork of a chat: its messages, gists and answer inspections are      *)
(* copied in one transaction, and every reference to a message is mapped   *)
(* to the copy of that message.  The source is looked up before the        *)
(* transaction begins, so it may be gone by the time its rows are copied.  *)
(*                                                                         *)
(* An inspection lists, per selected source, the messages it was taken     *)
(* from: messages of the chat, messages of another chat, or none at all    *)
(* (a document or a memory), which is written as a null range.             *)
(***************************************************************************)
EXTENDS Naturals, FiniteSets

CONSTANTS
  ChatIds,     \* chats, a fork takes a fresh one
  MaxMessage,  \* bound: message ids issued (AUTOINCREMENT)
  NoRange      \* an inspected source without message ids

VARIABLES
  existing,    \* chats
  saved,       \* messages: [id, chat, role, summarized, gisted]
  issued,      \* the last message id issued
  gistRows,    \* chat_gists: [chat, first, last]
  inspected,   \* answer_inspections: [chat, answer, source]
  forking,     \* the fork that has looked up its source
  refused      \* the source was still there and a fork of it failed (history)

ASSUME MessagesAssumption == MaxMessage \in Nat /\ NoRange \notin Nat

forkVars == <<existing, saved, issued, gistRows, inspected, forking, refused>>

NoFork == [state |-> "none"]
MessagesOf(chat) == {message \in saved : message.chat = chat}
IdsOf(chat) == {message.id : message \in MessagesOf(chat)}
Message(id, chat, role) ==
  [id |-> id, chat |-> chat, role |-> role, summarized |-> FALSE, gisted |-> FALSE]

ForkInit ==
  /\ existing \in SUBSET ChatIds /\ existing # {}
  /\ saved = {} /\ issued = 0 /\ gistRows = {} /\ inspected = {} /\ forking = NoFork /\ refused = FALSE

-----------------------------------------------------------------------------
(* What fills a chat.                                                      *)

\* what an answer may be taken from: messages of any chat, the question that
\* is being answered, or something without messages
TakenFrom == {message.id : message \in saved} \cup {issued + 1, NoRange}

\* one turn: both messages, and the inspection of the answer unless writing it
\* fails
Turn(chat, sources) ==
  /\ chat \in existing /\ issued + 2 <= MaxMessage
  /\ sources \subseteq TakenFrom
  /\ saved' = saved \cup {Message(issued + 1, chat, "user"), Message(issued + 2, chat, "assistant")}
  /\ issued' = issued + 2
  /\ inspected' = inspected \cup
       {[chat |-> chat, answer |-> issued + 2, source |-> source] : source \in sources}
  /\ UNCHANGED <<existing, gistRows, forking, refused>>

\* a gist of the messages that have none, and their flags
Compact(chat) ==
  LET batch == {message \in MessagesOf(chat) : ~message.gisted}
      ids == {message.id : message \in batch} IN
  /\ batch # {}
  /\ gistRows' = gistRows \cup {[chat |-> chat,
                   first |-> CHOOSE i \in ids : \A j \in ids : i <= j,
                   last |-> CHOOSE i \in ids : \A j \in ids : i >= j]}
  /\ saved' = (saved \ batch) \cup {[message EXCEPT !.gisted = TRUE] : message \in batch}
  /\ UNCHANGED <<existing, issued, inspected, forking, refused>>

\* ON DELETE CASCADE
DeleteChat(chat) ==
  /\ chat \in existing /\ existing' = existing \ {chat}
  /\ saved' = saved \ MessagesOf(chat)
  /\ gistRows' = {gist \in gistRows : gist.chat # chat}
  /\ inspected' = {row \in inspected : row.chat # chat}
  /\ UNCHANGED <<issued, forking, refused>>

-----------------------------------------------------------------------------
(* The fork.                                                               *)

\* SELECT title, model_name: outside the transaction
LookUp(chat) ==
  /\ forking = NoFork /\ chat \in existing /\ existing # ChatIds
  /\ forking' = [state |-> "found", chat |-> chat,
                 new |-> CHOOSE new \in ChatIds : new \notin existing]
  /\ UNCHANGED <<existing, saved, issued, gistRows, inspected, refused>>

\* message_id_map: the copies get the next ids in the order of the messages
CopyOf(id, chat) == issued + Cardinality({i \in IdsOf(chat) : i <= id})

\* Mutant: the copy keeps the message id of the source
BugRemapped(id, chat) == id

\* remap_message_id
Remapped(id, chat) == CopyOf(id, chat)

\* remap_message_id, remap_chat_local_json: a message of another chat and a
\* range that is no list both raise
Remappable(chat) ==
  /\ \A gist \in {g \in gistRows : g.chat = chat} : {gist.first, gist.last} \subseteq IdsOf(chat)
  /\ \A row \in {r \in inspected : r.chat = chat /\ r.answer \in IdsOf(chat)} :
       row.source \in IdsOf(chat)

Copy ==
  LET chat == forking.chat new == forking.new IN
  /\ forking.state = "found" /\ Remappable(chat)
  /\ issued + Cardinality(MessagesOf(chat)) <= MaxMessage
  /\ existing' = existing \cup {new} /\ issued' = issued + Cardinality(MessagesOf(chat))
  /\ saved' = saved \cup
       {[m EXCEPT !.id = CopyOf(m.id, chat), !.chat = new, !.summarized = TRUE]
          : m \in MessagesOf(chat)}
  /\ gistRows' = gistRows \cup
       {[gist EXCEPT !.chat = new, !.first = Remapped(gist.first, chat),
                     !.last = Remapped(gist.last, chat)]
          : gist \in {g \in gistRows : g.chat = chat}}
  /\ inspected' = inspected \cup
       {[chat |-> new, answer |-> CopyOf(row.answer, chat), source |-> Remapped(row.source, chat)]
          : row \in {r \in inspected : r.chat = chat /\ r.answer \in IdsOf(chat)}}
  /\ forking' = NoFork /\ UNCHANGED refused

\* the transaction is rolled back: an error, or a restart
RollBack ==
  /\ forking.state = "found" /\ ~Remappable(forking.chat)
  /\ refused' = TRUE /\ forking' = NoFork
  /\ UNCHANGED <<existing, saved, issued, gistRows, inspected>>
Interrupt ==
  /\ forking.state = "found" /\ forking' = NoFork
  /\ UNCHANGED <<existing, saved, issued, gistRows, inspected, refused>>

ForkNext ==
  \/ \E chat \in ChatIds :
       \/ Turn(chat, {})
       \/ \E source \in (1 .. MaxMessage) \cup {NoRange} : Turn(chat, {source})
       \/ Compact(chat) \/ DeleteChat(chat) \/ LookUp(chat)
  \/ Copy \/ RollBack \/ Interrupt
ForkSpec == ForkInit /\ [][ForkNext]_forkVars

-----------------------------------------------------------------------------
(* Properties.                                                             *)

ForkTypeOK ==
  /\ existing \subseteq ChatIds
  /\ \A m \in saved : m.id \in 1 .. MaxMessage /\ m.id <= issued /\ m.chat \in ChatIds
  /\ \A m, n \in saved : m.id = n.id => m = n
  /\ \A row \in inspected : row.source \in (1 .. MaxMessage) \cup {NoRange}
  /\ forking.state \in {"none", "found"} /\ refused \in BOOLEAN

(* Whatever is forked, deleted or forked again, the gists and inspections  *)
(* of a chat are about its own messages: a gist covers messages of its     *)
(* chat that are marked as processed, and an inspection belongs to an      *)
(* answer of its chat.                                                     *)
ProvenanceIsOwn ==
  /\ \A gist \in gistRows :
       /\ {gist.first, gist.last} \subseteq IdsOf(gist.chat)
       /\ \A m \in MessagesOf(gist.chat) : m.id \in gist.first .. gist.last => m.gisted
  /\ \A row \in inspected : \E m \in MessagesOf(row.chat) :
       m.id = row.answer /\ m.role = "assistant"

GistsOf(chat) == {gist \in gistRows : gist.chat = chat}
InspectionsOf(chat) == {row \in inspected : row.chat = chat}

\* copy maps the old chat to the new one, message by message
Mirrors(copy, old, new) ==
  /\ IdsOf(new)' = {copy[i] : i \in IdsOf(old)}
  /\ \A i, j \in IdsOf(old) : i < j => copy[i] < copy[j]
  /\ \A m \in MessagesOf(old) : \E n \in MessagesOf(new)' :
       n.id = copy[m.id] /\ n.role = m.role /\ n.gisted = m.gisted
  /\ GistsOf(new)' = {[chat |-> new, first |-> copy[gist.first], last |-> copy[gist.last]]
                        : gist \in GistsOf(old)}
  /\ InspectionsOf(new)' =
       {[chat |-> new, answer |-> copy[row.answer], source |-> copy[row.source]]
          : row \in InspectionsOf(old)}

(* A fork is its source as it is when it is copied, not when it was looked *)
(* up: the same messages in the same order, gists of the same ranges and   *)
(* inspections of the same answers, none lost and none from elsewhere; and *)
(* no other chat, the source included, is touched.                         *)
ForkIsFaithful ==
  [][\A new \in existing' \ existing :
       /\ \E copy \in [IdsOf(forking.chat) -> IdsOf(new)'] : Mirrors(copy, forking.chat, new)
       /\ \A chat \in existing : /\ MessagesOf(chat)' = MessagesOf(chat)
                                 /\ GistsOf(chat)' = GistsOf(chat)
                                 /\ InspectionsOf(chat)' = InspectionsOf(chat)]_forkVars

(* A chat can be forked: actions/.doc.md describes the fork as a database  *)
(* operation that copies rows.  It fails for good once an answer of the    *)
(* chat was selected from another chat, a document or a memory.            *)
ChatsCanBeForked == ~refused

=============================================================================
