------------------------------ MODULE BrowserSession ------------------------------
(***************************************************************************)
(* One browser tab and its Chainlit session.  Handlers are coroutines of   *)
(* one event loop: between two awaits a handler is alone, at an await      *)
(* another message of the tab may be handled.  What they send arrives in   *)
(* the order it was sent, later; a handler of a session that the tab has   *)
(* left goes on, and what it sends is lost.                                *)
(***************************************************************************)
EXTENDS Naturals, Sequences, FiniteSets

CONSTANTS
  TabChats,  \* chats; a new one takes an unused id
  Handlers,  \* handlers in flight
  NoChat,
  MaxQueue   \* bound: window messages under way

\* a page load sends two
ASSUME QueueAssumption == MaxQueue \in Nat /\ MaxQueue >= 2

VARIABLES
  dialog,    \* the database: "none", "active" or "ended", per chat
  session,   \* cl.user_session and the thread id of the session
  handler,   \* the local variables of each handler
  outbox,    \* window messages on their way to the tab
  tab,       \* product-navigation.js: productState, answerInspections
  opened     \* chats the tab was switched to, or that a message began (history)

tabVars == <<dialog, session, handler, outbox, tab, opened>>

Ready == [state |-> "ready"]
Clicks == {"end", "make", "home"}
In(h, state) == handler[h].state = state
Current(h) == handler[h].current
Exists(chat) == dialog[chat] # "none"
NewId == CHOOSE chat \in TabChats : ~Exists(chat)
Unused == \E chat \in TabChats : ~Exists(chat)
IsActive(chat) == dialog[chat] = "active"

State(chat) ==
  [command |-> "product-state", chat |-> chat,
   active |-> IF chat = NoChat THEN TRUE ELSE IsActive(chat)]
Inspections(chat) == [command |-> "answer-inspections", chat |-> chat]
Error == [command |-> "product-error"]
Refresh == [command |-> "refresh-sidebar"]

\* a send from a session that the tab has left goes nowhere
Send(h, messages) ==
  /\ Len(outbox) + Len(messages) <= MaxQueue
  /\ outbox' = IF Current(h) THEN outbox \o messages ELSE outbox
SetSession(h, value) == session' = IF Current(h) THEN value ELSE session
Release(h) == handler' = [handler EXCEPT ![h] = Ready]
Await(h, state, chat) ==
  handler' = [handler EXCEPT ![h] = [state |-> state, chat |-> chat, current |-> TRUE]]

FreshSession(chat) ==
  [chat |-> chat, ended |-> chat # NoChat /\ ~IsActive(chat), busy |-> FALSE, thread |-> chat]
FreshTab == [chat |-> NoChat, active |-> TRUE, inspected |-> NoChat]

\* on_chat_start, on_chat_resume: every load of the page is a session of its own
Load(chat) ==
  /\ session' = FreshSession(chat) /\ tab' = FreshTab
  /\ outbox' = IF chat = NoChat THEN <<State(NoChat)>> ELSE <<State(chat), Inspections(chat)>>

TabInit ==
  /\ dialog \in [TabChats -> {"none", "active", "ended"}]
  /\ handler = [h \in Handlers |-> Ready]
  /\ session = FreshSession(NoChat) /\ tab = FreshTab /\ outbox = <<State(NoChat)>>
  /\ opened = {chat \in TabChats : Exists(chat)}

\* clicks under way are lost; a turn goes on and says nothing to this tab any more
Reload(chat) ==
  /\ chat # NoChat => Exists(chat)
  /\ Load(chat)
  /\ handler' = [h \in Handlers |-> IF In(h, "open") THEN [handler[h] EXCEPT !.current = FALSE]
                                    ELSE Ready]
  /\ UNCHANGED <<dialog, opened>>

-----------------------------------------------------------------------------
(* on_message.                                                             *)

\* the chat was ended meanwhile
RejectMessage(h) ==
  /\ In(h, "ready") /\ session.chat # NoChat /\ ~IsActive(session.chat)
  /\ session' = [session EXCEPT !.ended = TRUE]
  /\ Len(outbox) + 1 <= MaxQueue /\ outbox' = Append(outbox, State(session.chat))
  /\ UNCHANGED <<dialog, handler, tab, opened>>

StartTurn(h) ==
  /\ In(h, "ready") /\ session.chat # NoChat /\ IsActive(session.chat)
  /\ Await(h, "turn", session.chat)
  /\ UNCHANGED <<dialog, session, outbox, tab, opened>>

\* the first message: the chat takes the thread id of the session.  After Home
\* that is still the chat before; if it was ended, the tab is told that it is
\* active and persisting the message raises
FirstMessage(h) ==
  LET chat == IF session.thread = NoChat THEN NewId ELSE session.thread IN
  /\ In(h, "ready") /\ session.chat = NoChat
  /\ session.thread = NoChat => Unused
  /\ dialog' = IF Exists(chat) THEN dialog ELSE [dialog EXCEPT ![chat] = "active"]
  /\ session' = [session EXCEPT !.chat = chat, !.ended = FALSE, !.thread = chat]
  /\ opened' = opened \cup {chat}
  /\ Len(outbox) + 1 <= MaxQueue
  /\ outbox' = Append(outbox, [State(chat) EXCEPT !.active = TRUE])
  /\ IF dialog[chat] = "ended" THEN UNCHANGED handler ELSE Await(h, "turn", chat)
  /\ UNCHANGED tab

\* the executor is done: the answer's inspections, and after the memory update
\* the controls; or an error and the controls
TurnAnswered(h) ==
  /\ In(h, "turn") /\ Send(h, <<Inspections(handler[h].chat)>>)
  /\ handler' = [handler EXCEPT ![h].state = "controls"]
  /\ UNCHANGED <<dialog, session, tab, opened>>
TurnFailed(h) ==
  /\ In(h, "turn") /\ Send(h, <<Error>>)
  /\ handler' = [handler EXCEPT ![h].state = "controls"]
  /\ UNCHANGED <<dialog, session, tab, opened>>
SendControls(h) ==
  /\ In(h, "controls") /\ Release(h)
  /\ Send(h, IF Exists(handler[h].chat) THEN <<State(handler[h].chat)>> ELSE <<>>)
  /\ UNCHANGED <<dialog, session, tab, opened>>

-----------------------------------------------------------------------------
(* The lifecycle actions; the tab sends the chat that it shows.            *)

\* begin_lifecycle_action
MayBegin == ~session.busy

RefuseAction(h) ==
  /\ handler[h].state \in {"end", "make"} /\ ~MayBegin
  /\ In(h, "end") => IsActive(handler[h].chat)
  /\ Send(h, <<Error>>) /\ Release(h)
  /\ UNCHANGED <<dialog, session, tab, opened>>

\* End Chat runs on the event loop from begin to finish: nothing gets between
EndChat(h) ==
  LET chat == handler[h].chat IN
  /\ In(h, "end") /\ IsActive(chat) /\ MayBegin
  /\ dialog' = [dialog EXCEPT ![chat] = "ended"]
  /\ session' = [session EXCEPT !.ended = TRUE]
  /\ Send(h, <<[State(chat) EXCEPT !.active = FALSE], Refresh>>) /\ Release(h)
  /\ UNCHANGED <<tab, opened>>
EndFails(h) ==
  /\ In(h, "end") /\ IsActive(handler[h].chat) /\ MayBegin
  /\ Send(h, <<Error>>) /\ Release(h)
  /\ UNCHANGED <<dialog, session, tab, opened>>
EndAgain(h) ==
  /\ In(h, "end") /\ ~IsActive(handler[h].chat)
  /\ session' = [session EXCEPT !.ended = TRUE]
  /\ Send(h, IF Exists(handler[h].chat) THEN <<State(handler[h].chat)>> ELSE <<>>) /\ Release(h)
  /\ UNCHANGED <<dialog, tab, opened>>

\* Fork Chat and New Chat: the copy or the clean chat is made, and the tab is
\* asked to switch to it, which awaits
MakeChat(h) ==
  /\ In(h, "make") /\ MayBegin /\ Unused
  /\ session' = [session EXCEPT !.busy = TRUE]
  /\ dialog' = [dialog EXCEPT ![NewId] = "active"]
  /\ Await(h, "open", NewId) /\ UNCHANGED <<outbox, tab, opened>>

\* a fork that meets an error leaves nothing behind
MakeFails(h) ==
  /\ In(h, "make") /\ MayBegin /\ Send(h, <<Error>>) /\ Release(h)
  /\ UNCHANGED <<dialog, session, tab, opened>>

Opened(h) ==
  LET chat == handler[h].chat IN
  /\ In(h, "open") /\ opened' = opened \cup {chat}
  /\ SetSession(h, [chat |-> chat, ended |-> FALSE, busy |-> FALSE, thread |-> chat])
  /\ handler' = [handler EXCEPT ![h].state = "controls"]
  /\ UNCHANGED <<dialog, outbox, tab>>

\* Mutant: a chat that could not be opened stays
BugNotOpened(h) ==
  /\ In(h, "open") /\ Send(h, <<Error>>) /\ Release(h)
  /\ SetSession(h, [session EXCEPT !.busy = FALSE])
  /\ UNCHANGED <<dialog, tab, opened>>

\* the switch is refused or fails: the chat is deleted again
NotOpened(h) ==
  /\ In(h, "open") /\ Send(h, <<Error>>) /\ Release(h)
  /\ SetSession(h, [session EXCEPT !.busy = FALSE])
  /\ dialog' = [dialog EXCEPT ![handler[h].chat] = "none"]
  /\ UNCHANGED <<tab, opened>>

\* nav_home consults no flag, and leaves the thread id
NavHome(h) ==
  /\ In(h, "home")
  /\ session' = [session EXCEPT !.chat = NoChat, !.ended = FALSE]
  /\ Send(h, <<State(NoChat), [command |-> "navigate-home"]>>) /\ Release(h)
  /\ UNCHANGED <<dialog, tab, opened>>

-----------------------------------------------------------------------------
(* The tab.                                                                *)

ApplyProductState(message) ==
  tab' = [chat |-> message.chat, active |-> message.active,
          inspected |-> IF message.chat # tab.chat THEN NoChat ELSE tab.inspected]

\* Mutant: inspections are shown whatever chat they are of
BugApplyInspections(message) == tab' = [tab EXCEPT !.inspected = message.chat]

ApplyInspections(message) ==
  tab' = IF message.chat = tab.chat THEN [tab EXCEPT !.inspected = message.chat] ELSE tab

\* a button of the toolbar: the action and the shown chat are sent
Click(h, action) ==
  /\ In(h, "ready") /\ tab.chat # NoChat /\ Await(h, action, tab.chat)
  /\ UNCHANGED <<dialog, session, outbox, tab, opened>>

\* an error is an alert; refresh-sidebar and navigate-home
\* load the page again
Receive ==
  LET message == Head(outbox) IN
  /\ outbox # <<>>
  /\ \/ /\ message.command = "product-state" /\ ApplyProductState(message)
        /\ outbox' = Tail(outbox) /\ UNCHANGED <<dialog, session, handler, opened>>
     \/ /\ message.command = "answer-inspections" /\ ApplyInspections(message)
        /\ outbox' = Tail(outbox) /\ UNCHANGED <<dialog, session, handler, opened>>
     \/ /\ message.command = "product-error" /\ outbox' = Tail(outbox)
        /\ UNCHANGED <<dialog, session, handler, tab, opened>>
     \/ /\ message.command = "refresh-sidebar"
        /\ \E chat \in TabChats \cup {NoChat} : Reload(chat)
     \/ message.command = "navigate-home" /\ Reload(NoChat)

TabNext ==
  \/ \E h \in Handlers :
       \/ RejectMessage(h) \/ StartTurn(h) \/ TurnAnswered(h) \/ TurnFailed(h) \/ SendControls(h)
       \/ \E action \in Clicks : Click(h, action)
       \/ RefuseAction(h) \/ EndChat(h) \/ EndFails(h) \/ EndAgain(h) \/ NavHome(h)
       \/ MakeChat(h) \/ MakeFails(h) \/ Opened(h) \/ NotOpened(h)
       \/ FirstMessage(h)
  \/ Receive
  \/ \E chat \in TabChats \cup {NoChat} : Reload(chat)
TabSpec == TabInit /\ [][TabNext]_tabVars

-----------------------------------------------------------------------------
(* Properties.                                                             *)

TabTypeOK ==
  /\ dialog \in [TabChats -> {"none", "active", "ended"}]
  /\ \A h \in Handlers : handler[h].state \in {"ready", "turn", "controls", "open"} \cup Clicks
  /\ session.chat \in TabChats \cup {NoChat} /\ session.busy \in BOOLEAN
  /\ tab.chat \in TabChats \cup {NoChat} /\ tab.inspected \in TabChats \cup {NoChat}
  /\ Len(outbox) <= MaxQueue

(* The inspections shown beside the answers are those of the chat that is  *)
(* shown, whenever they arrive: after a New Chat, a fork, or a page load.  *)
InspectionsAreOfTheShownChat == tab.inspected # NoChat => tab.inspected = tab.chat

(* A lifecycle action that waits for its tab is alone in its session, and  *)
(* no chat that was made for a switch is left behind by one that failed,   *)
(* also when the page was loaded again meanwhile.                          *)
ActionsFinishCleanly ==
  /\ Cardinality({h \in Handlers : In(h, "open") /\ Current(h)})
       = (IF session.busy THEN 1 ELSE 0)
  /\ \A chat \in TabChats : Exists(chat) =>
       chat \in opened \/ \E h \in Handlers : In(h, "open") /\ handler[h].chat = chat

=============================================================================
