---------------------------- MODULE Browser_proofs -----------------------------
(***************************************************************************)
(* Theorems of the browser: the session of a tab, the page of a chat, and  *)
(* the pages that list records.                                            *)
(***************************************************************************)
EXTENDS BrowserSession, ChatPage, RecordPages, FiniteSetTheorems, TLAPS

-----------------------------------------------------------------------------
(***************************************************************************)
(* Any number of chats and of handlers in flight.  The flag of the session *)
(* and the handlers that wait for their tab stay in step (BusyIsOpening):  *)
(* only the handler that set the flag clears it, and a page load takes     *)
(* both away at once.  A chat that was made for a switch is still the      *)
(* business of a handler (MadeIsWaitedFor), also when its tab has left.    *)
(***************************************************************************)

\* a handler that waits for the tab to switch, in the session of that tab
Opening(h) == In(h, "open") /\ Current(h) = TRUE

(* The records have their fields; what is in them matters where it says so.*)
TabShapes ==
  /\ dialog = [chat \in TabChats |-> dialog[chat]]
  /\ handler = [h \in Handlers |-> handler[h]]
  /\ \A h \in Handlers :
       handler[h] = Ready \/ handler[h] = [state |-> handler[h].state, chat |-> handler[h].chat,
                                           current |-> handler[h].current]
  /\ \A h \in Handlers : In(h, "open") => Current(h) \in BOOLEAN
  /\ session = [chat |-> session.chat, ended |-> session.ended, busy |-> session.busy,
                thread |-> session.thread]
  /\ session.busy \in BOOLEAN
  /\ tab = [chat |-> tab.chat, active |-> tab.active, inspected |-> tab.inspected]

BusyIsOpening ==
  /\ \A h, k \in Handlers : Opening(h) /\ Opening(k) => h = k
  /\ session.busy = TRUE <=> \E h \in Handlers : Opening(h)

MadeIsWaitedFor ==
  \A chat \in TabChats : Exists(chat) =>
    chat \in opened \/ \E h \in Handlers : In(h, "open") /\ handler[h].chat = chat

TabInv == TabShapes /\ BusyIsOpening /\ MadeIsWaitedFor /\ InspectionsAreOfTheShownChat

-----------------------------------------------------------------------------
LEMMA TabInitInv == TabInit => TabInv
<1> SUFFICES ASSUME TabInit PROVE TabInv
  OBVIOUS
<1>1. \A h \in Handlers : handler[h] = Ready /\ ~In(h, "open")
  BY DEF TabInit, Ready, In
<1>2. TabShapes
  BY <1>1 DEF TabInit, TabShapes, FreshSession, FreshTab
<1>3. BusyIsOpening /\ MadeIsWaitedFor /\ InspectionsAreOfTheShownChat
  BY <1>1 DEF TabInit, BusyIsOpening, Opening, FreshSession, MadeIsWaitedFor, FreshTab, Exists,
              InspectionsAreOfTheShownChat
<1> QED
  BY <1>2, <1>3 DEF TabInv

(* A step of one handler that neither waits before it nor after it, leaves *)
(* the flag, the tab and the chats that exist alone.                       *)
LEMMA QuietStep ==
  ASSUME TabInv, NEW h \in Handlers, UNCHANGED tab, ~In(h, "open"),
         handler' = [handler EXCEPT ![h] = handler'[h]],
         handler'[h] = Ready \/ handler'[h] = [state |-> handler'[h].state, chat |-> handler'[h].chat,
                                               current |-> handler'[h].current],
         handler'[h].state # "open",
         session' = [chat |-> session'.chat, ended |-> session'.ended, busy |-> session.busy,
                     thread |-> session'.thread],
         dialog' = [chat \in TabChats |-> dialog'[chat]], opened \subseteq opened',
         \A chat \in TabChats : Exists(chat)' => Exists(chat) \/ chat \in opened'
  PROVE  TabInv'
<1> USE DEF TabInv
<1>1. \A k \in Handlers \ {h} : handler'[k] = handler[k]
  BY DEF TabShapes
<1>2. \A k \in Handlers : In(k, "open")' <=> k # h /\ In(k, "open")
  BY <1>1 DEF In
<1>3. TabShapes'
  <2>1. session'.busy = session.busy
    OBVIOUS
  <2>2. handler' = [k \in Handlers |-> handler'[k]]
    BY DEF TabShapes
  <2>3. \A k \in Handlers : In(k, "open")' => Current(k)' \in BOOLEAN
    BY <1>1, <1>2 DEF TabShapes, Current
  <2>4. \A k \in Handlers :
          handler'[k] = Ready \/ handler'[k] = [state |-> handler'[k].state,
            chat |-> handler'[k].chat, current |-> handler'[k].current]
    BY <1>1 DEF TabShapes
  <2> QED
    BY <2>1, <2>2, <2>3, <2>4 DEF TabShapes
<1>4. \A k \in Handlers : Opening(k)' <=> Opening(k)
  BY <1>1, <1>2 DEF Opening, Current
<1>5. session'.busy = session.busy
  OBVIOUS
<1>6. BusyIsOpening'
  BY <1>4, <1>5 DEF BusyIsOpening
<1>7. MadeIsWaitedFor'
  BY <1>1, <1>2 DEF MadeIsWaitedFor
<1>8. InspectionsAreOfTheShownChat'
  BY DEF InspectionsAreOfTheShownChat
<1> QED
  BY <1>3, <1>6, <1>7, <1>8

(* The fields of a handler whose session the tab has left.                 *)
LEMMA LetGo ==
  ASSUME NEW c, NEW d, NEW e
  PROVE  [[state |-> "open", chat |-> c, current |-> d] EXCEPT !.current = e]
           = [state |-> "open", chat |-> c, current |-> e]
  OBVIOUS

LEMMA NotBusy ==
  ASSUME NEW c, NEW e, NEW b, NEW t, NEW f
  PROVE  [[chat |-> c, ended |-> e, busy |-> b, thread |-> t] EXCEPT !.busy = f]
           = [chat |-> c, ended |-> e, busy |-> f, thread |-> t]
  OBVIOUS

(* A page load leaves nothing of the session and lets go of its handlers.  *)
LEMMA ReloadStep ==
  ASSUME TabInv, NEW chat, Reload(chat)
  PROVE  TabInv'
<1> USE DEF TabInv
<1>1. \A h \in Handlers : In(h, "open")' <=> In(h, "open")
  <2> TAKE h \in Handlers
  <2>1. handler'[h] = IF In(h, "open") THEN [handler[h] EXCEPT !.current = FALSE] ELSE Ready
    BY DEF Reload
  <2>2. CASE In(h, "open")
    BY <2>1, <2>2 DEF In, TabShapes, Ready
  <2>3. CASE ~In(h, "open")
    BY <2>1, <2>3 DEF In, Ready
  <2> QED
    BY <2>2, <2>3
<1>2. \A h \in Handlers : In(h, "open") =>
        /\ handler'[h] = [state |-> "open", chat |-> handler[h].chat,
                          current |-> handler'[h].current]
        /\ handler'[h].chat = handler[h].chat /\ handler'[h].current = FALSE
  <2> SUFFICES ASSUME NEW h \in Handlers, In(h, "open")
               PROVE  /\ handler'[h] = [state |-> "open", chat |-> handler[h].chat,
                                        current |-> handler'[h].current]
                      /\ handler'[h].chat = handler[h].chat /\ handler'[h].current = FALSE
    OBVIOUS
  <2>1. handler[h] = [state |-> "open", chat |-> handler[h].chat, current |-> handler[h].current]
    BY DEF TabShapes, In, Ready
  <2>2. handler'[h] = [handler[h] EXCEPT !.current = FALSE]
    BY DEF Reload
  <2>3. handler'[h] = [[state |-> "open", chat |-> handler[h].chat,
                        current |-> handler[h].current] EXCEPT !.current = FALSE]
    BY <2>1, <2>2
  <2>4. handler'[h] = [state |-> "open", chat |-> handler[h].chat, current |-> FALSE]
    BY <2>3, LetGo
  <2> QED
    BY <2>4
<1>3. \A h \in Handlers : ~In(h, "open") => handler'[h] = Ready
  BY DEF Reload
<1>4. TabShapes'
  <2>1. handler' = [h \in Handlers |-> handler'[h]] /\ dialog' = dialog
    BY DEF Reload
  <2>2. session' = FreshSession(chat) /\ tab' = FreshTab
    BY DEF Reload, Load
  <2>3. \A h \in Handlers : Current(h)' = FALSE \/ ~In(h, "open")'
    BY <1>1, <1>2 DEF Current
  <2>4. \A h \in Handlers :
          handler'[h] = Ready \/ handler'[h] = [state |-> handler'[h].state,
            chat |-> handler'[h].chat, current |-> handler'[h].current]
    <3> TAKE h \in Handlers
    <3>1. CASE In(h, "open")
      <4>1. handler'[h].state = "open"
        BY <1>1, <3>1 DEF In
      <4> QED
        BY <1>2, <3>1, <4>1
    <3>2. CASE ~In(h, "open")
      BY <1>3, <3>2, Zenon
    <3> QED
      BY <3>1, <3>2, Zenon
  <2> QED
    BY <2>1, <2>2, <2>3, <2>4 DEF TabShapes, FreshSession, FreshTab
<1>5. BusyIsOpening'
  <2>1. \A h \in Handlers : ~Opening(h)'
    BY <1>1, <1>2 DEF Opening, Current
  <2>2. session'.busy = FALSE
    BY DEF Reload, Load, FreshSession
  <2> QED
    BY <2>1, <2>2 DEF BusyIsOpening
<1>6. MadeIsWaitedFor'
  <2>1. dialog' = dialog /\ opened' = opened
    BY DEF Reload
  <2> QED
    <3>1. \A c \in TabChats : Exists(c)' => Exists(c)
      BY <2>1 DEF Exists
    <3>2. \A h \in Handlers : In(h, "open") => In(h, "open")' /\ handler'[h].chat = handler[h].chat
      BY <1>1, <1>2, Zenon
    <3> QED
      BY <2>1, <3>1, <3>2, Zenon DEF MadeIsWaitedFor
<1>7. InspectionsAreOfTheShownChat'
  BY DEF Reload, Load, FreshTab, InspectionsAreOfTheShownChat
<1> QED
  BY <1>4, <1>5, <1>6, <1>7

(* What arrives at the tab is of the chat that it then shows, or is not    *)
(* shown.                                                                  *)
LEMMA ReceiveStep ==
  ASSUME TabInv, Receive
  PROVE  TabInv'
<1> DEFINE message == Head(outbox)
<1>1. CASE UNCHANGED <<dialog, session, handler, opened>>
           /\ (ApplyProductState(message) \/ ApplyInspections(message) \/ UNCHANGED tab)
  <2>1. /\ tab' = [chat |-> tab'.chat, active |-> tab'.active, inspected |-> tab'.inspected]
        /\ InspectionsAreOfTheShownChat'
    <3>1. CASE ApplyProductState(message)
      BY <3>1 DEF ApplyProductState, TabInv, InspectionsAreOfTheShownChat
    <3>2. CASE ApplyInspections(message)
      BY <3>2 DEF ApplyInspections, TabInv, TabShapes, InspectionsAreOfTheShownChat
    <3>3. CASE UNCHANGED tab
      BY <3>3 DEF TabInv, TabShapes, InspectionsAreOfTheShownChat
    <3> QED
      BY <1>1, <3>1, <3>2, <3>3
  <2> QED
    BY <1>1, <2>1 DEF TabInv, TabShapes, BusyIsOpening, Opening, MadeIsWaitedFor, In, Current, Exists
<1>2. ASSUME NEW chat, Reload(chat) PROVE TabInv'
  BY <1>2, ReloadStep
<1> QED
  BY <1>1, <1>2 DEF Receive

(* Every step keeps the invariant.                                         *)
LEMMA TabStep ==
  ASSUME TabInv, [TabNext]_tabVars
  PROVE  TabInv'
<1> USE DEF TabInv
<1>n. ASSUME NEW h \in Handlers, ~In(h, "ready") PROVE handler[h] # Ready
  BY <1>n DEF In, Ready
<1>1. ASSUME NEW h \in Handlers, RejectMessage(h) PROVE TabInv'
  <2>1. session' = [chat |-> session.chat, ended |-> TRUE, busy |-> session.busy,
                    thread |-> session.thread]
    BY <1>1 DEF RejectMessage, TabShapes
  <2>2. /\ handler' = [handler EXCEPT ![h] = handler'[h]] /\ In(h, "ready")
        /\ UNCHANGED <<dialog, handler, tab, opened>>
    BY <1>1 DEF RejectMessage, TabShapes
  <2> QED
    BY <2>1, <2>2, QuietStep DEF In, TabShapes, Exists
<1>2. ASSUME NEW h \in Handlers, StartTurn(h) PROVE TabInv'
  <2>1. /\ handler' = [handler EXCEPT ![h] = handler'[h]]
        /\ handler'[h] = [state |-> "turn", chat |-> session.chat, current |-> TRUE]
    BY <1>2 DEF StartTurn, Await, TabShapes
  <2>2. ~In(h, "open") /\ UNCHANGED <<dialog, session, tab, opened>>
    BY <1>2 DEF StartTurn, In
  <2> QED
    BY <2>1, <2>2, QuietStep DEF TabShapes, Exists
<1>3. ASSUME NEW h \in Handlers, FirstMessage(h) PROVE TabInv'
  <2> DEFINE chat == IF session.thread = NoChat THEN NewId ELSE session.thread
  <2>1. session' = [chat |-> chat, ended |-> FALSE, busy |-> session.busy, thread |-> chat]
    BY <1>3 DEF FirstMessage, TabShapes
  <2>2. /\ dialog' = [c \in TabChats |-> dialog'[c]] /\ chat \in opened' /\ opened \subseteq opened'
        /\ \A c \in TabChats \ {chat} : dialog'[c] = dialog[c]
    BY <1>3 DEF FirstMessage, TabShapes
  <2>3. handler' = [handler EXCEPT ![h] = handler'[h]] /\ handler'[h].state # "open"
        /\ (handler'[h] = Ready \/ handler'[h] = [state |-> handler'[h].state,
              chat |-> handler'[h].chat, current |-> handler'[h].current])
    BY <1>3 DEF FirstMessage, Await, TabShapes, In
  <2>4. ~In(h, "open") /\ UNCHANGED tab
    BY <1>3 DEF FirstMessage, In
  <2>5. \A c \in TabChats : Exists(c)' => Exists(c) \/ c \in opened'
    BY <2>2 DEF Exists
  <2> HIDE DEF chat
  <2> QED
    BY <2>1, <2>2, <2>3, <2>4, <2>5, QuietStep
<1>4. ASSUME NEW h \in Handlers, TurnAnswered(h) \/ TurnFailed(h) PROVE TabInv'
  <2>1. handler' = [handler EXCEPT ![h].state = "controls"] /\ In(h, "turn")
        /\ UNCHANGED <<dialog, session, tab, opened>>
    BY <1>4 DEF TurnAnswered, TurnFailed
  <2>2. handler[h] = [state |-> "turn", chat |-> handler[h].chat, current |-> handler[h].current]
    BY <2>1, <1>n DEF TabShapes, In, Ready
  <2>3. handler'[h] = [state |-> "controls", chat |-> handler[h].chat,
                       current |-> handler[h].current]
    BY <2>1, <2>2 DEF TabShapes
  <2>4. handler' = [handler EXCEPT ![h] = handler'[h]]
    BY <2>1, <2>3, <2>2 DEF TabShapes
  <2> QED
    BY <2>1, <2>2, <2>3, <2>4, QuietStep DEF In, TabShapes, Exists
<1>5. ASSUME NEW h \in Handlers, SendControls(h) \/ RefuseAction(h) \/ EndFails(h) \/ MakeFails(h)
      PROVE  TabInv'
  <2>1. handler' = [handler EXCEPT ![h] = Ready] /\ ~In(h, "open")
        /\ UNCHANGED <<dialog, session, tab, opened>>
    BY <1>5 DEF SendControls, RefuseAction, EndFails, MakeFails, Release, In
  <2>2. handler'[h] = Ready /\ Ready.state # "open"
    BY <2>1 DEF TabShapes, Ready
  <2> QED
    BY <2>1, <2>2, QuietStep DEF TabShapes, Exists
<1>6. ASSUME NEW h \in Handlers, EndChat(h) \/ EndAgain(h) \/ NavHome(h) PROVE TabInv'
  <2>1. handler' = [handler EXCEPT ![h] = Ready] /\ ~In(h, "open") /\ UNCHANGED <<tab, opened>>
    BY <1>6 DEF EndChat, EndAgain, NavHome, Release, In
  <2>2. handler'[h] = Ready /\ Ready.state # "open"
    BY <2>1 DEF TabShapes, Ready
  <2>3. session' = [chat |-> session'.chat, ended |-> session'.ended, busy |-> session.busy,
                    thread |-> session'.thread]
    BY <1>6 DEF EndChat, EndAgain, NavHome, TabShapes
  <2>4. dialog' = [chat \in TabChats |-> dialog'[chat]]
        /\ \A chat \in TabChats : Exists(chat)' => Exists(chat)
    <3>1. CASE EndChat(h)
      BY <3>1 DEF EndChat, TabShapes, Exists, IsActive
    <3>2. CASE EndAgain(h) \/ NavHome(h)
      BY <3>2 DEF EndAgain, NavHome, TabShapes, Exists
    <3> QED
      BY <1>6, <3>1, <3>2
  <2> QED
    BY <2>1, <2>2, <2>3, <2>4, QuietStep
<1>7. ASSUME NEW h \in Handlers, NEW action \in Clicks, Click(h, action) PROVE TabInv'
  <2>1. handler' = [handler EXCEPT ![h] = handler'[h]]
        /\ handler'[h] = [state |-> action, chat |-> tab.chat, current |-> TRUE]
    BY <1>7 DEF Click, Await, TabShapes
  <2>2. action # "open" /\ ~In(h, "open") /\ UNCHANGED <<dialog, session, tab, opened>>
    BY <1>7 DEF Clicks, Click, In
  <2> QED
    BY <2>1, <2>2, QuietStep DEF TabShapes, Exists
<1>8. ASSUME NEW h \in Handlers, MakeChat(h) PROVE TabInv'
  <2>1. /\ handler' = [handler EXCEPT ![h] = [state |-> "open", chat |-> NewId, current |-> TRUE]]
        /\ In(h, "make") /\ session.busy = FALSE /\ UNCHANGED <<tab, opened>>
        /\ dialog' = [dialog EXCEPT ![NewId] = "active"]
    BY <1>8 DEF MakeChat, Await, MayBegin, TabShapes
  <2>2. session' = [chat |-> session.chat, ended |-> session.ended, busy |-> TRUE,
                    thread |-> session.thread]
    BY <1>8 DEF MakeChat, TabShapes
  <2>3. /\ handler'[h] = [state |-> "open", chat |-> NewId, current |-> TRUE]
        /\ \A k \in Handlers \ {h} : handler'[k] = handler[k]
    BY <2>1 DEF TabShapes
  <2>4. TabShapes'
    BY <2>1, <2>2, <2>3 DEF TabShapes, In, Current
  <2>5. \A k \in Handlers : ~Opening(k)
    BY <2>1 DEF BusyIsOpening
  <2>6. \A k \in Handlers : Opening(k)' <=> k = h
    BY <2>3, <2>5 DEF Opening, In, Current
  <2>7. BusyIsOpening'
    BY <2>2, <2>6 DEF BusyIsOpening
  <2>8. ~In(h, "open")
    BY <2>1 DEF In
  <2>9. MadeIsWaitedFor'
    BY <2>1, <2>3, <2>8 DEF MadeIsWaitedFor, Exists, In, TabShapes
  <2> QED
    BY <2>1, <2>4, <2>7, <2>9 DEF InspectionsAreOfTheShownChat
<1>9. ASSUME NEW h \in Handlers, Opened(h) \/ NotOpened(h) PROVE TabInv'
  <2> DEFINE chat == handler[h].chat
  <2>1. In(h, "open") /\ UNCHANGED tab
    BY <1>9 DEF Opened, NotOpened
  <2>2. handler[h] = [state |-> "open", chat |-> chat, current |-> handler[h].current]
    BY <2>1 DEF TabShapes, In, Ready
  <2>3. /\ handler' = [k \in Handlers |-> handler'[k]]
        /\ \A k \in Handlers \ {h} : handler'[k] = handler[k]
        /\ \/ handler'[h] = [state |-> "controls", chat |-> chat, current |-> handler[h].current]
           \/ handler'[h] = Ready
    <3>1. CASE Opened(h)
      <4>1. handler' = [handler EXCEPT ![h].state = "controls"]
        BY <3>1 DEF Opened
      <4>2. handler'[h] = [handler[h] EXCEPT !.state = "controls"]
        BY <4>1 DEF TabShapes
      <4>3. handler'[h] = [state |-> "controls", chat |-> chat, current |-> handler[h].current]
        BY <4>2, <2>2
      <4> QED
        BY <4>1, <4>3 DEF TabShapes
    <3>2. CASE NotOpened(h)
      BY <3>2 DEF NotOpened, Release, TabShapes
    <3> QED
      BY <1>9, <3>1, <3>2
  <2>4. \A k \in Handlers : In(k, "open")' <=> k # h /\ In(k, "open")
    BY <2>3 DEF In, Ready
  <2>5. \A k \in Handlers : Opening(k)' <=> k # h /\ Opening(k)
    BY <2>3, <2>4 DEF Opening, Current
  <2>6. /\ session' = [chat |-> session'.chat, ended |-> session'.ended, busy |-> session'.busy,
                       thread |-> session'.thread]
        /\ session'.busy \in BOOLEAN
        /\ Current(h) = TRUE => session'.busy = FALSE
        /\ Current(h) = FALSE => session'.busy = session.busy
    <3>1. Current(h) = TRUE \/ Current(h) = FALSE
      BY <2>1 DEF TabShapes
    <3>2. CASE Current(h) = TRUE
      <4>1. \/ session' = [chat |-> chat, ended |-> FALSE, busy |-> FALSE, thread |-> chat]
            \/ session' = [session EXCEPT !.busy = FALSE]
        BY <1>9, <3>2 DEF Opened, NotOpened, SetSession
      <4>2. ASSUME session' = [session EXCEPT !.busy = FALSE]
            PROVE  session' = [chat |-> session.chat, ended |-> session.ended, busy |-> FALSE,
                               thread |-> session.thread]
        <5>1. session = [chat |-> session.chat, ended |-> session.ended, busy |-> session.busy,
                         thread |-> session.thread]
          BY DEF TabShapes
        <5>2. session' = [[chat |-> session.chat, ended |-> session.ended, busy |-> session.busy,
                           thread |-> session.thread] EXCEPT !.busy = FALSE]
          BY <4>2, <5>1
        <5> QED
          BY <5>2, NotBusy
      <4>3. \E c, e, t : session' = [chat |-> c, ended |-> e, busy |-> FALSE, thread |-> t]
        BY <4>1, <4>2, Zenon
      <4>4. session'.busy = FALSE
        BY <4>3
      <4>5. session' = [chat |-> session'.chat, ended |-> session'.ended, busy |-> session'.busy,
                        thread |-> session'.thread]
        BY <4>3
      <4> QED
        BY <3>2, <4>4, <4>5
    <3>3. CASE Current(h) = FALSE
      BY <1>9, <3>3 DEF Opened, NotOpened, SetSession, TabShapes
    <3> QED
      BY <3>1, <3>2, <3>3
  <2>7. BusyIsOpening'
    <3>1. Current(h) \in BOOLEAN
      BY <2>1 DEF TabShapes
    <3>2. CASE Current(h) = TRUE
      BY <2>1, <2>5, <2>6, <3>2 DEF BusyIsOpening, Opening
    <3>3. CASE Current(h) = FALSE
      BY <2>1, <2>5, <2>6, <3>3 DEF BusyIsOpening, Opening
    <3> QED
      BY <3>1, <3>2, <3>3
  <2>8. /\ dialog' = [c \in TabChats |-> dialog'[c]]
        /\ \A c \in TabChats : Exists(c)' => Exists(c) /\ (c = chat => c \in opened')
        /\ opened \subseteq opened'
    BY <1>9 DEF Opened, NotOpened, TabShapes, Exists
  <2>9. MadeIsWaitedFor'
    BY <2>3, <2>4, <2>8 DEF MadeIsWaitedFor
  <2>10. TabShapes'
    <3>1. \A k \in Handlers : In(k, "open")' => Current(k)' \in BOOLEAN
      BY <2>3, <2>4 DEF TabShapes, Current
    <3>2. session'.busy \in BOOLEAN
      BY <2>6 DEF TabShapes
    <3>3. \A k \in Handlers :
            handler'[k] = Ready \/ handler'[k] = [state |-> handler'[k].state,
              chat |-> handler'[k].chat, current |-> handler'[k].current]
      BY <2>3 DEF TabShapes
    <3> QED
      BY <2>1, <2>3, <2>6, <2>8, <3>1, <3>2, <3>3 DEF TabShapes
  <2> QED
    BY <2>1, <2>7, <2>9, <2>10 DEF InspectionsAreOfTheShownChat
<1>10. CASE Receive
  BY <1>10, ReceiveStep
<1>11. ASSUME NEW chat \in TabChats \cup {NoChat}, Reload(chat) PROVE TabInv'
  BY <1>11, ReloadStep
<1>12. CASE UNCHANGED tabVars
  BY <1>12 DEF tabVars, TabShapes, BusyIsOpening, Opening, MadeIsWaitedFor, In, Current, Exists,
               InspectionsAreOfTheShownChat
<1> QED
  BY <1>1, <1>2, <1>3, <1>4, <1>5, <1>6, <1>7, <1>8, <1>9, <1>10, <1>11, <1>12 DEF TabNext

(* The session's inductive invariant.                                      *)
THEOREM TabInvariant == TabSpec => []TabInv
  BY TabInitInv, TabStep, PTL DEF TabSpec

(* What the tab, its session, its handlers and the messages under way hold: *)
(* the outbox never holds more than its bound, and only what the handlers  *)
(* send.                                                                   *)
TabPlaces == TabChats \cup {NoChat}
TabMessages ==
  [command : {"product-state"}, chat : TabPlaces, active : BOOLEAN]
    \cup [command : {"answer-inspections"}, chat : TabPlaces]
    \cup [command : {"product-error", "refresh-sidebar", "navigate-home"}]
TabWork == [state : {"turn", "controls", "open"} \cup Clicks, chat : TabPlaces, current : BOOLEAN]

TabValues ==
  /\ dialog \in [TabChats -> {"none", "active", "ended"}]
  /\ handler \in [Handlers -> TabWork \cup {Ready}]
  /\ session \in [chat : TabPlaces, ended : BOOLEAN, busy : BOOLEAN, thread : TabPlaces]
  /\ tab \in [chat : TabPlaces, active : BOOLEAN, inspected : TabPlaces]
  /\ outbox \in Seq(TabMessages) /\ Len(outbox) <= MaxQueue

(* What the server tells a tab of a chat.                                  *)
LEMMA ToldOfChat ==
  ASSUME TabValues, NEW chat \in TabPlaces
  PROVE  /\ State(chat) \in TabMessages /\ Inspections(chat) \in TabMessages
         /\ \A b \in BOOLEAN : [State(chat) EXCEPT !.active = b] \in TabMessages
         /\ Error \in TabMessages /\ Refresh \in TabMessages
         /\ [command |-> "navigate-home"] \in TabMessages
<1>1. (IF chat = NoChat THEN TRUE ELSE IsActive(chat)) \in BOOLEAN
  BY DEF IsActive
<1>2. State(chat) \in [command : {"product-state"}, chat : TabPlaces, active : BOOLEAN]
  BY <1>1 DEF State
<1>3. \A b \in BOOLEAN : [State(chat) EXCEPT !.active = b]
        \in [command : {"product-state"}, chat : TabPlaces, active : BOOLEAN]
  BY <1>2
<1>4. Inspections(chat) \in [command : {"answer-inspections"}, chat : TabPlaces]
  BY DEF Inspections
<1>5. {Error, Refresh, [command |-> "navigate-home"]}
        \subseteq [command : {"product-error", "refresh-sidebar", "navigate-home"}]
  BY DEF Error, Refresh
<1> QED
  BY <1>2, <1>3, <1>4, <1>5 DEF TabMessages

(* A send keeps the outbox within its bound.                               *)
LEMMA SendValues ==
  ASSUME TabValues, NEW h, NEW messages \in Seq(TabMessages), Send(h, messages)
  PROVE  outbox' \in Seq(TabMessages) /\ Len(outbox') <= MaxQueue
<1>1. CASE Current(h)
  BY <1>1, QueueAssumption DEF Send, TabValues
<1>2. CASE ~Current(h)
  BY <1>2 DEF Send, TabValues
<1> QED
  BY <1>1, <1>2

LEMMA AppendValues ==
  ASSUME TabValues, NEW message \in TabMessages,
         Len(outbox) + 1 <= MaxQueue, outbox' = Append(outbox, message)
  PROVE  outbox' \in Seq(TabMessages) /\ Len(outbox') <= MaxQueue
  BY QueueAssumption DEF TabValues

(* A handler that is done, waits, or goes on to send the controls.         *)
LEMMA HandlerValues ==
  ASSUME TabValues, NEW h \in Handlers,
         \/ Release(h)
         \/ \E state \in {"turn", "controls", "open"} \cup Clicks, chat \in TabPlaces :
              Await(h, state, chat)
         \/ ~In(h, "ready") /\ handler' = [handler EXCEPT ![h].state = "controls"]
  PROVE  handler' \in [Handlers -> TabWork \cup {Ready}]
<1>1. CASE Release(h)
  BY <1>1 DEF Release, TabValues
<1>2. ASSUME NEW state \in {"turn", "controls", "open"} \cup Clicks, NEW chat \in TabPlaces,
             Await(h, state, chat)
      PROVE  handler' \in [Handlers -> TabWork \cup {Ready}]
  <2>1. [state |-> state, chat |-> chat, current |-> TRUE] \in TabWork
    BY DEF TabWork
  <2> QED
    BY <1>2, <2>1 DEF Await, TabValues
<1>3. CASE ~In(h, "ready") /\ handler' = [handler EXCEPT ![h].state = "controls"]
  <2>1. handler[h] \in TabWork
    BY <1>3 DEF TabValues, In, Ready
  <2>2. [handler[h] EXCEPT !.state = "controls"] \in TabWork
    BY <2>1 DEF TabWork
  <2> QED
    BY <1>3, <2>2 DEF TabValues
<1> QED
  BY <1>1, <1>2, <1>3

(* The chat of a handler, while it has one.                                *)
LEMMA HandledChat ==
  ASSUME TabValues, NEW h \in Handlers, ~In(h, "ready")
  PROVE  handler[h].chat \in TabPlaces /\ handler[h] \in TabWork
<1>1. handler[h] \in TabWork
  BY DEF TabValues, In, Ready
<1> QED
  BY <1>1 DEF TabWork

LEMMA TabStartValues == TabInit => TabValues
<1> SUFFICES ASSUME TabInit PROVE TabValues
  OBVIOUS
<1>1. State(NoChat) \in TabMessages
  BY DEF State, TabMessages, TabPlaces
<1>2. outbox \in Seq(TabMessages) /\ Len(outbox) <= MaxQueue
  BY <1>1, QueueAssumption DEF TabInit
<1>3. handler \in [Handlers -> TabWork \cup {Ready}]
  BY DEF TabInit
<1> QED
  BY <1>2, <1>3 DEF TabInit, TabValues, FreshSession, FreshTab, TabPlaces

(* A page load puts at most two messages under way.                        *)
LEMMA ReloadValues ==
  ASSUME TabValues, NEW chat \in TabPlaces, Reload(chat)
  PROVE  TabValues'
<1>1. State(chat) \in TabMessages /\ Inspections(chat) \in TabMessages
  BY ToldOfChat
<1>2. outbox' \in Seq(TabMessages) /\ Len(outbox') <= MaxQueue
  BY <1>1, QueueAssumption DEF Reload, Load
<1>3. handler' \in [Handlers -> TabWork \cup {Ready}]
  <2>1. ASSUME NEW h \in Handlers, In(h, "open")
        PROVE  [handler[h] EXCEPT !.current = FALSE] \in TabWork
    BY <2>1, HandledChat DEF TabWork, In
  <2> QED
    BY <2>1 DEF Reload
<1>4. session' \in [chat : TabPlaces, ended : BOOLEAN, busy : BOOLEAN, thread : TabPlaces]
  BY DEF Reload, Load, FreshSession, IsActive
<1>5. tab' \in [chat : TabPlaces, active : BOOLEAN, inspected : TabPlaces]
  BY DEF Reload, Load, FreshTab, TabPlaces
<1> QED
  BY <1>2, <1>3, <1>4, <1>5 DEF TabValues, Reload

(* What the tab takes from the outbox.                                     *)
LEMMA ReceiveValues ==
  ASSUME TabValues, Receive
  PROVE  TabValues'
<1> DEFINE message == Head(outbox)
<1>1. message \in TabMessages /\ Tail(outbox) \in Seq(TabMessages)
      /\ Len(Tail(outbox)) <= MaxQueue
  BY QueueAssumption DEF Receive, TabValues
<1> HIDE DEF message
<1>2. CASE /\ message.command = "product-state" /\ ApplyProductState(message)
           /\ outbox' = Tail(outbox) /\ UNCHANGED <<dialog, session, handler, opened>>
  <2>1. message \in [command : {"product-state"}, chat : TabPlaces, active : BOOLEAN]
    BY <1>1, <1>2 DEF TabMessages
  <2>2. tab' \in [chat : TabPlaces, active : BOOLEAN, inspected : TabPlaces]
    BY <1>2, <2>1 DEF ApplyProductState, TabValues, TabPlaces
  <2> QED
    BY <1>1, <1>2, <2>2 DEF TabValues
<1>3. CASE /\ message.command = "answer-inspections" /\ ApplyInspections(message)
           /\ outbox' = Tail(outbox) /\ UNCHANGED <<dialog, session, handler, opened>>
  <2>1. message \in [command : {"answer-inspections"}, chat : TabPlaces]
    BY <1>1, <1>3 DEF TabMessages
  <2>2. tab' \in [chat : TabPlaces, active : BOOLEAN, inspected : TabPlaces]
    BY <1>3, <2>1 DEF ApplyInspections, TabValues
  <2> QED
    BY <1>1, <1>3, <2>2 DEF TabValues
<1>4. CASE outbox' = Tail(outbox) /\ UNCHANGED <<dialog, session, handler, tab, opened>>
  BY <1>1, <1>4 DEF TabValues
<1>5. ASSUME NEW chat \in TabPlaces, Reload(chat) PROVE TabValues'
  BY <1>5, ReloadValues
<1> QED
  BY <1>2, <1>3, <1>4, <1>5 DEF Receive, message, TabPlaces

(* Every step keeps the values, one group of actions at a time.            *)
LEMMA TabValuesStep ==
  ASSUME TabValues, [TabNext]_tabVars
  PROVE  TabValues'
<1> DEFINE Sessions == [chat : TabPlaces, ended : BOOLEAN, busy : BOOLEAN, thread : TabPlaces]
<1>0. session \in Sessions /\ session.chat \in TabPlaces /\ tab.chat \in TabPlaces
      /\ session.thread \in TabPlaces /\ NoChat \in TabPlaces
  BY DEF TabValues, TabPlaces
<1>i. Unused => NewId \in TabChats
  BY DEF Unused, NewId
<1>1. ASSUME NEW h \in Handlers, RejectMessage(h) PROVE TabValues'
  <2>1. outbox' \in Seq(TabMessages) /\ Len(outbox') <= MaxQueue
    BY <1>0, <1>1, ToldOfChat, AppendValues DEF RejectMessage
  <2>2. session' \in Sessions
    BY <1>0, <1>1 DEF RejectMessage
  <2> QED
    BY <1>1, <2>1, <2>2 DEF RejectMessage, TabValues
<1>2. ASSUME NEW h \in Handlers, StartTurn(h) PROVE TabValues'
  <2>1. handler' \in [Handlers -> TabWork \cup {Ready}]
    BY <1>0, <1>2, HandlerValues DEF StartTurn
  <2> QED
    BY <1>2, <2>1 DEF StartTurn, TabValues
<1>3. ASSUME NEW h \in Handlers, FirstMessage(h) PROVE TabValues'
  <2> DEFINE chat == IF session.thread = NoChat THEN NewId ELSE session.thread
  <2>1. chat \in TabPlaces
    BY <1>0, <1>3, <1>i DEF FirstMessage, TabPlaces
  <2>2. outbox' \in Seq(TabMessages) /\ Len(outbox') <= MaxQueue
    <3>1. [State(chat) EXCEPT !.active = TRUE] \in TabMessages
      BY <2>1, ToldOfChat
    <3> QED
      BY <1>3, <3>1, AppendValues DEF FirstMessage
  <2>3. handler' \in [Handlers -> TabWork \cup {Ready}]
    <3>1. CASE dialog[chat] = "ended"
      BY <1>3, <3>1 DEF FirstMessage, TabValues
    <3>2. CASE dialog[chat] # "ended"
      <4>1. Await(h, "turn", chat)
        BY <1>3, <3>2 DEF FirstMessage
      <4> QED
        BY <2>1, <4>1, HandlerValues
    <3> QED
      BY <3>1, <3>2
  <2>4. session' \in Sessions
    BY <1>0, <1>3, <2>1 DEF FirstMessage
  <2>5. dialog' \in [TabChats -> {"none", "active", "ended"}]
    BY <1>3 DEF FirstMessage, TabValues
  <2> QED
    BY <1>3, <2>2, <2>3, <2>4, <2>5 DEF FirstMessage, TabValues
<1>4. ASSUME NEW h \in Handlers, TurnAnswered(h) \/ TurnFailed(h) PROVE TabValues'
  <2>1. ~In(h, "ready") /\ handler' = [handler EXCEPT ![h].state = "controls"]
        /\ UNCHANGED <<dialog, session, tab>>
    BY <1>4 DEF TurnAnswered, TurnFailed, In
  <2>2. \E messages \in Seq(TabMessages) : Send(h, messages)
    <3>1. <<Inspections(handler[h].chat)>> \in Seq(TabMessages) /\ <<Error>> \in Seq(TabMessages)
      BY <2>1, HandledChat, ToldOfChat
    <3>2. Send(h, <<Inspections(handler[h].chat)>>) \/ Send(h, <<Error>>)
      BY <1>4 DEF TurnAnswered, TurnFailed
    <3> QED
      BY <3>1, <3>2, Zenon
  <2> QED
    BY <2>1, <2>2, HandlerValues, SendValues DEF TabValues
<1>5. ASSUME NEW h \in Handlers,
             SendControls(h) \/ RefuseAction(h) \/ EndFails(h) \/ MakeFails(h)
      PROVE  TabValues'
  <2>1. ~In(h, "ready") /\ Release(h) /\ UNCHANGED <<dialog, session, tab>>
    BY <1>5 DEF SendControls, RefuseAction, EndFails, MakeFails, In
  <2>2. \E messages \in Seq(TabMessages) : Send(h, messages)
    <3>1. /\ <<State(handler[h].chat)>> \in Seq(TabMessages) /\ <<Error>> \in Seq(TabMessages)
          /\ <<>> \in Seq(TabMessages)
      BY <2>1, HandledChat, ToldOfChat
    <3>2. Send(h, <<State(handler[h].chat)>>) \/ Send(h, <<Error>>) \/ Send(h, <<>>)
      BY <1>5 DEF SendControls, RefuseAction, EndFails, MakeFails
    <3> QED
      BY <3>1, <3>2, Zenon
  <2> QED
    BY <2>1, <2>2, HandlerValues, SendValues DEF TabValues
<1>6. ASSUME NEW h \in Handlers, EndChat(h) \/ EndAgain(h) \/ NavHome(h) PROVE TabValues'
  <2>1. ~In(h, "ready") /\ Release(h) /\ UNCHANGED tab
    BY <1>6 DEF EndChat, EndAgain, NavHome, In
  <2>2. \E messages \in Seq(TabMessages) : Send(h, messages)
    <3>1. /\ State(handler[h].chat) \in TabMessages /\ State(NoChat) \in TabMessages
          /\ [State(handler[h].chat) EXCEPT !.active = FALSE] \in TabMessages
          /\ Refresh \in TabMessages /\ [command |-> "navigate-home"] \in TabMessages
      BY <1>0, <2>1, HandledChat, ToldOfChat
    <3>2. /\ <<[State(handler[h].chat) EXCEPT !.active = FALSE], Refresh>> \in Seq(TabMessages)
          /\ <<State(handler[h].chat)>> \in Seq(TabMessages) /\ <<>> \in Seq(TabMessages)
          /\ <<State(NoChat), [command |-> "navigate-home"]>> \in Seq(TabMessages)
      BY <3>1
    <3>3. \/ Send(h, <<[State(handler[h].chat) EXCEPT !.active = FALSE], Refresh>>)
          \/ Send(h, <<State(handler[h].chat)>>) \/ Send(h, <<>>)
          \/ Send(h, <<State(NoChat), [command |-> "navigate-home"]>>)
      BY <1>6 DEF EndChat, EndAgain, NavHome
    <3> QED
      BY <3>2, <3>3, Zenon
  <2>3. session' \in Sessions
    BY <1>0, <1>6 DEF EndChat, EndAgain, NavHome
  <2>4. dialog' \in [TabChats -> {"none", "active", "ended"}]
    BY <1>6 DEF EndChat, EndAgain, NavHome, TabValues
  <2> QED
    BY <2>1, <2>2, <2>3, <2>4, HandlerValues, SendValues DEF TabValues
<1>7. ASSUME NEW h \in Handlers, NEW action \in Clicks, Click(h, action) PROVE TabValues'
  <2>1. handler' \in [Handlers -> TabWork \cup {Ready}]
    BY <1>0, <1>7, HandlerValues DEF Click
  <2> QED
    BY <1>7, <2>1 DEF Click, TabValues
<1>8. ASSUME NEW h \in Handlers, MakeChat(h) PROVE TabValues'
  <2>1. Await(h, "open", NewId) /\ NewId \in TabPlaces
    BY <1>8, <1>i DEF MakeChat, TabPlaces
  <2>2. handler' \in [Handlers -> TabWork \cup {Ready}]
    BY <2>1, HandlerValues
  <2>3. session' \in Sessions
    BY <1>0, <1>8 DEF MakeChat
  <2> QED
    BY <1>8, <2>2, <2>3 DEF MakeChat, TabValues
<1>9. ASSUME NEW h \in Handlers, Opened(h) \/ NotOpened(h) PROVE TabValues'
  <2>1. ~In(h, "ready") /\ UNCHANGED tab
    BY <1>9 DEF Opened, NotOpened, In
  <2>2. handler[h].chat \in TabPlaces
    BY <2>1, HandledChat
  <2>3. session' \in Sessions
    <3>1. [chat |-> handler[h].chat, ended |-> FALSE, busy |-> FALSE,
           thread |-> handler[h].chat] \in Sessions
      BY <2>2
    <3>2. [session EXCEPT !.busy = FALSE] \in Sessions
      BY <1>0
    <3> QED
      BY <1>0, <1>9, <3>1, <3>2 DEF Opened, NotOpened, SetSession
  <2>4. handler' \in [Handlers -> TabWork \cup {Ready}]
    BY <1>9, <2>1, HandlerValues DEF Opened, NotOpened
  <2>5. outbox' \in Seq(TabMessages) /\ Len(outbox') <= MaxQueue
    <3>1. <<Error>> \in Seq(TabMessages)
      BY <1>0, ToldOfChat
    <3>2. CASE Opened(h)
      BY <3>2 DEF Opened, TabValues
    <3>3. CASE NotOpened(h)
      BY <3>1, <3>3, SendValues DEF NotOpened
    <3> QED
      BY <1>9, <3>2, <3>3
  <2>6. dialog' \in [TabChats -> {"none", "active", "ended"}]
    BY <1>9 DEF Opened, NotOpened, TabValues
  <2> QED
    BY <2>1, <2>3, <2>4, <2>5, <2>6 DEF TabValues
<1>10. CASE Receive
  BY <1>10, ReceiveValues
<1>11. ASSUME NEW chat \in TabPlaces, Reload(chat) PROVE TabValues'
  BY <1>11, ReloadValues
<1>12. CASE UNCHANGED tabVars
  BY <1>12 DEF tabVars, TabValues
<1> QED
  BY <1>1, <1>2, <1>3, <1>4, <1>5, <1>6, <1>7, <1>8, <1>9, <1>10, <1>11, <1>12
     DEF TabNext, TabPlaces

(* The type of a tab, whatever arrives in whatever order: the chat that a  *)
(* session and a tab show exists as an id, and the messages under way stay *)
(* within their bound.                                                     *)
THEOREM TabTyped == TabSpec => []TabTypeOK
<1>1. TabValues => TabTypeOK
  <2> SUFFICES ASSUME TabValues PROVE TabTypeOK
    OBVIOUS
  <2>1. \A h \in Handlers : handler[h].state \in {"ready", "turn", "controls", "open"} \cup Clicks
    <3> TAKE h \in Handlers
    <3>1. CASE handler[h] = Ready
      BY <3>1 DEF Ready
    <3>2. CASE handler[h] \in TabWork
      BY <3>2 DEF TabWork
    <3> QED
      BY <3>1, <3>2 DEF TabValues
  <2> QED
    BY <2>1 DEF TabTypeOK, TabValues, TabPlaces
<1> QED
  BY <1>1, TabStartValues, TabValuesStep, PTL DEF TabSpec

(* The inspections beside the answers are those of the chat that is shown, *)
(* in whatever order loads and messages of the server reach the tab.       *)
THEOREM InspectionsAreOwn == TabSpec => []InspectionsAreOfTheShownChat
<1>1. TabInv => InspectionsAreOfTheShownChat
  BY DEF TabInv
<1> QED
  BY <1>1, TabInvariant, PTL

(* At most one lifecycle action of a session waits for its tab, while the  *)
(* flag of the session is set, and a chat made for a switch that fails is  *)
(* deleted again (run_new_chat, run_fork_chat).                            *)
THEOREM ActionsFinish == TabSpec => []ActionsFinishCleanly
<1>1. TabInv => ActionsFinishCleanly
  <2> SUFFICES ASSUME TabInv PROVE ActionsFinishCleanly
    OBVIOUS
  <2> DEFINE waiting == {h \in Handlers : In(h, "open") /\ Current(h)}
  <2>1. \A h \in Handlers : h \in waiting <=> Opening(h)
    BY DEF TabInv, TabShapes, Opening
  <2>2. CASE session.busy = TRUE
    <3>1. PICK h \in Handlers : Opening(h)
      BY <2>2 DEF TabInv, BusyIsOpening
    <3>2. waiting = {h}
      BY <2>1, <3>1 DEF TabInv, BusyIsOpening
    <3> HIDE DEF waiting
    <3>3. Cardinality(waiting) = 1
      BY <3>2, FS_Singleton
    <3> QED
      BY <2>2, <3>3 DEF TabInv, MadeIsWaitedFor, ActionsFinishCleanly, waiting
  <2>3. CASE session.busy = FALSE
    <3>1. waiting = {}
      BY <2>1, <2>3 DEF TabInv, BusyIsOpening
    <3> HIDE DEF waiting
    <3>2. Cardinality(waiting) = 0
      BY <3>1, FS_EmptySet
    <3> QED
      BY <2>3, <3>2 DEF TabInv, MadeIsWaitedFor, ActionsFinishCleanly, waiting
  <2> QED
    BY <2>2, <2>3 DEF TabInv, TabShapes
<1> QED
  BY <1>1, TabInvariant, PTL

-----------------------------------------------------------------------------
(* ChatPage: any number of chats and files.                                *)

(* The session's connection is the page's own only for the thread of its   *)
(* address: a page asks for a connection only when the library's atoms hold *)
(* that thread, and a page that is left keeps none.                        *)
LinkIsOfPage ==
  /\ hook # "waiting" => atoms.resume = address /\ address # Away
  /\ link.own => link.to = address /\ address # Away

(* One upload is in flight, that of the attachment that is shown, unless   *)
(* mixed says that an earlier one had not ended when it was picked.        *)
UploadIsShown ==
  Attached /\ ~mixed =>
    /\ uploads \subseteq {attached.file}
    /\ uploads # {} => attached.ref = NoFile /\ ~attached.failed
    /\ attached.failed => attached.ref = NoFile
    /\ attached.ref # NoFile => attached.ref = attached.file

LinkShapes ==
  /\ hook \in HookSteps /\ late \in SUBSET ResumeThreads
  /\ link \in [step : LinkSteps, to : ResumeThreads, own : BOOLEAN]

PageShapes ==
  /\ address \in Addresses /\ atoms \in [ours : BOOLEAN, resume : ResumeThreads]
  /\ LinkShapes
  /\ attached \in Attachment \cup {NoFile} /\ uploads \in SUBSET Files
  /\ mixed \in BOOLEAN /\ taskRuns \in BOOLEAN /\ consolidates \in BOOLEAN /\ typed \in BOOLEAN
  /\ navigators \in SUBSET [op : {"end", "fork"}, chat : PageChats]

SentShapes ==
  lastSent \in [address : Addresses, thread : ResumeThreads \cup {Away},
                own : BOOLEAN, file : Files \cup {NoFile}, ref : Files \cup {NoFile},
                failed : BOOLEAN, mixed : BOOLEAN]

ChatPageInv == PageShapes /\ SentShapes /\ LinkIsOfPage /\ UploadIsShown /\ SentAsShown

LEMMA ChatPageStart == ChatPageInit => ChatPageInv
<1> SUFFICES ASSUME ChatPageInit
             PROVE  ChatPageInv
  OBVIOUS
<1>1. PageShapes
  BY DEF ChatPageInit, PageShapes, LinkShapes, Addresses, ResumeThreads, NoLink, LinkSteps,
         HookSteps
<1>2. SentShapes /\ SentAsShown
  BY DEF ChatPageInit, SentShapes, SentAsShown, NothingSent, Addresses
<1>3. LinkIsOfPage /\ UploadIsShown
  BY DEF ChatPageInit, LinkIsOfPage, UploadIsShown, NoLink, Attached
<1> QED
  BY <1>1, <1>2, <1>3 DEF ChatPageInv

\* a run of the effect moves it from one of its states to another
LEMMA RerunKeeps ==
  ASSUME hook \in HookSteps
  PROVE  AfterRerun \in HookSteps /\ (hook = "waiting" <=> AfterRerun = "waiting")
<1> QED
  BY DEF AfterRerun, HookSteps

\* a navigation gives the page no connection of its own and forgets the
\* attachment, or stays
LEMMA GotoKeeps ==
  ASSUME PageShapes, LinkIsOfPage, UploadIsShown, NEW to \in Addresses, Goto(to)
  PROVE  /\ address' \in Addresses /\ atoms' \in [ours : BOOLEAN, resume : ResumeThreads]
         /\ LinkShapes'
         /\ attached' \in Attachment \cup {NoFile} /\ uploads' \in SUBSET Files
         /\ mixed' \in BOOLEAN /\ consolidates' \in BOOLEAN /\ typed' \in BOOLEAN
         /\ LinkIsOfPage' /\ UploadIsShown'
<1>1. CASE to = address
  <2>1. UNCHANGED <<connectionVars, attached, uploads, mixed, typed, consolidates>>
    BY <1>1 DEF Goto, connectionVars
  <2> QED
    BY <2>1 DEF connectionVars, PageShapes, LinkShapes, LinkIsOfPage, UploadIsShown, Attached
<1>2. CASE to # address
  <2>1. /\ address' = to /\ hook' = "waiting" /\ attached' = NoFile /\ uploads' = {}
        /\ mixed' = FALSE /\ typed' = FALSE
        /\ consolidates' = (consolidates /\ to # Away /\ address # Away)
        /\ atoms' = [atoms EXCEPT !.ours = FALSE]
    BY <1>2 DEF Goto
  <2>2. consolidates' \in BOOLEAN
    BY <2>1
  <2>3. link' \in [step : LinkSteps, to : ResumeThreads, own : BOOLEAN] /\ ~link'.own
    <3>1. link' = NoLink \/ link' = [link EXCEPT !.own = FALSE]
      BY <1>2 DEF Goto
    <3>2. NoLink \in [step : LinkSteps, to : ResumeThreads, own : BOOLEAN] /\ ~NoLink.own
      BY DEF NoLink, LinkSteps, ResumeThreads
    <3>3. link \in [step : LinkSteps, to : ResumeThreads, own : BOOLEAN]
      BY DEF PageShapes, LinkShapes
    <3> QED
      BY <3>1, <3>2, <3>3
  <2>4. late' \in SUBSET ResumeThreads
    <3>1. late' = late \/ late' = late \cup {atoms.resume}
      BY <1>2 DEF Goto
    <3>2. atoms.resume \in ResumeThreads /\ late \subseteq ResumeThreads
      BY DEF PageShapes, LinkShapes
    <3> QED
      BY <3>1, <3>2
  <2>5. hook' \in HookSteps
    BY <2>1 DEF HookSteps
  <2> QED
    BY <2>1, <2>2, <2>3, <2>4, <2>5 DEF PageShapes, LinkShapes, LinkIsOfPage, UploadIsShown, Attached
<1> QED
  BY <1>1, <1>2

LEMMA ChatPageStep == ChatPageInv /\ [ChatPageNext]_chatPageVars => ChatPageInv'
<1> SUFFICES ASSUME ChatPageInv, [ChatPageNext]_chatPageVars
             PROVE  ChatPageInv'
  OBVIOUS
<1> USE DEF ChatPageInv
\* everything but the sending
<1>1. ASSUME PageShapes', LinkIsOfPage', UploadIsShown', UNCHANGED lastSent
      PROVE  ChatPageInv'
  BY <1>1 DEF SentShapes, SentAsShown
<1>2. CASE ConnectEffect
  <2>1. PageShapes'
    <3>1. address \in ResumeThreads
      BY <1>2 DEF ConnectEffect, PageShapes, Addresses
    <3>2. atoms' \in [ours : BOOLEAN, resume : ResumeThreads]
      <4>1. atoms' = [ours |-> TRUE, resume |-> address] \/ UNCHANGED atoms
        BY <1>2 DEF ConnectEffect
      <4>2. atoms \in [ours : BOOLEAN, resume : ResumeThreads]
        BY DEF PageShapes
      <4>3. [ours |-> TRUE, resume |-> address] \in [ours : BOOLEAN, resume : ResumeThreads]
        BY <3>1
      <4> QED
        BY <4>1, <4>2, <4>3, Zenon
    <3>3. LinkShapes'
      BY <1>2 DEF ConnectEffect, PageShapes, LinkShapes, HookSteps
    <3> QED
      BY <1>2, <3>2, <3>3 DEF ConnectEffect, PageShapes
  <2>2. LinkIsOfPage'
    BY <1>2 DEF ConnectEffect, LinkIsOfPage, PageShapes, AtomsAre
  <2>3. UploadIsShown'
    BY <1>2 DEF ConnectEffect, UploadIsShown, Attached
  <2> QED
    BY <1>1, <1>2, <2>1, <2>2, <2>3 DEF ConnectEffect
\* the library's connections: the page's own is of the thread in the atoms
<1>3. CASE \/ ConnectFires \/ SessionReplaced \/ \E thread \in late : LateSession(thread)
           \/ \E step \in {"on", "lost"}, noticed \in BOOLEAN : LinkChanges(step, noticed)
  <2>1. /\ hook \in HookSteps /\ late \in SUBSET ResumeThreads /\ atoms.resume \in ResumeThreads
        /\ link \in [step : LinkSteps, to : ResumeThreads, own : BOOLEAN]
    BY DEF PageShapes, LinkShapes
  <2>2. /\ UNCHANGED <<address, atoms, attached, uploads, mixed, consolidates, navigators,
                       typed, lastSent>>
        /\ taskRuns' \in BOOLEAN
    BY <1>3 DEF ConnectFires, SessionReplaced, LateSession, LinkChanges, PageShapes
  <2>3. LinkShapes' /\ LinkIsOfPage'
    <3>1. CASE ConnectFires
      BY <2>1, <3>1 DEF ConnectFires, LinkShapes, LinkIsOfPage, HookSteps
    <3>2. CASE SessionReplaced
      BY <2>1, <3>2 DEF SessionReplaced, LinkShapes, LinkIsOfPage, HookSteps, LinkSteps
    <3>3. CASE \E thread \in late : LateSession(thread)
      <4>1. PICK thread \in late : LateSession(thread)
        BY <3>3
      <4>2. /\ late' = late \ {thread} /\ thread \in ResumeThreads /\ hook' = AfterRerun
            /\ link' = [step |-> "opening", to |-> thread, own |-> FALSE]
        BY <2>1, <4>1 DEF LateSession
      <4> QED
        BY <2>1, <2>2, <4>2, RerunKeeps DEF LinkShapes, LinkIsOfPage, LinkSteps
    <3>4. CASE \E step \in {"on", "lost"}, noticed \in BOOLEAN : LinkChanges(step, noticed)
      <4>1. PICK step \in {"on", "lost"}, noticed \in BOOLEAN : LinkChanges(step, noticed)
        BY <3>4
      <4>2. hook' \in HookSteps /\ (hook = "waiting" <=> hook' = "waiting")
        BY <2>1, <4>1, RerunKeeps DEF LinkChanges
      <4>3. link' = NoLink \/ link' = [link EXCEPT !.step = step]
        BY <4>1 DEF LinkChanges
      <4>4. /\ link' \in [step : LinkSteps, to : ResumeThreads, own : BOOLEAN]
            /\ link'.own => link.own /\ link'.to = link.to
        <5>1. NoLink \in [step : LinkSteps, to : ResumeThreads, own : BOOLEAN] /\ ~NoLink.own
          BY DEF NoLink, LinkSteps, ResumeThreads
        <5>2. step \in LinkSteps
          BY DEF LinkSteps
        <5> QED
          BY <2>1, <4>3, <5>1, <5>2
      <4>5. late' = late
        BY <4>1 DEF LinkChanges
      <4> QED
        BY <2>1, <2>2, <4>2, <4>4, <4>5 DEF LinkShapes, LinkIsOfPage
    <3> QED
      BY <1>3, <3>1, <3>2, <3>3, <3>4
  <2>4. PageShapes' /\ UploadIsShown'
    BY <2>2, <2>3 DEF PageShapes, UploadIsShown, Attached
  <2> QED
    BY <1>1, <2>2, <2>3, <2>4
<1>4. CASE TaskChanges \/ Type \/ Consolidate \/ \E op \in {"end", "fork"} : PressNavigator(op)
  <2>1. UNCHANGED <<connectionVars, attached, uploads, mixed, lastSent>>
    BY <1>4 DEF TaskChanges, Type, Consolidate, PressNavigator
  <2>2. taskRuns' \in BOOLEAN /\ consolidates' \in BOOLEAN /\ typed' \in BOOLEAN
    BY <1>4 DEF TaskChanges, Type, Consolidate, PressNavigator, PageShapes
  <2>3. navigators' \in SUBSET [op : {"end", "fork"}, chat : PageChats]
    BY <1>4 DEF TaskChanges, Type, Consolidate, PressNavigator, ButtonsEnabled, PageShapes
  <2>4. PageShapes' /\ LinkIsOfPage' /\ UploadIsShown'
    BY <2>1, <2>2, <2>3 DEF connectionVars, PageShapes, LinkShapes, LinkIsOfPage, UploadIsShown, Attached
  <2> QED
    BY <1>1, <2>1, <2>4
<1>5. CASE \E f \in Files : PickFile(f)
  <2>1. PICK f \in Files : PickFile(f)
    BY <1>5
  <2>2. /\ attached' = [file |-> f, ref |-> NoFile, failed |-> FALSE]
        /\ uploads' = uploads \cup {f} /\ mixed' = (uploads # {})
        /\ UNCHANGED <<connectionVars, taskRuns, consolidates, navigators, typed, lastSent>>
    BY <2>1 DEF PickFile
  <2>3. PageShapes' /\ LinkIsOfPage'
    BY <2>2 DEF connectionVars, PageShapes, LinkShapes, Attachment, LinkIsOfPage
  <2>4. UploadIsShown'
    BY <2>2 DEF UploadIsShown
  <2> QED
    BY <1>1, <2>2, <2>3, <2>4
<1>6. CASE RemoveFile
  <2>1. PageShapes' /\ LinkIsOfPage' /\ UploadIsShown'
    BY <1>6 DEF RemoveFile, connectionVars, PageShapes, LinkShapes, LinkIsOfPage, UploadIsShown, Attached
  <2> QED
    BY <1>1, <1>6, <2>1 DEF RemoveFile
<1>7. CASE \E f \in Files, failed \in BOOLEAN : UploadEnds(f, failed)
  <2>1. PICK f \in Files, failed \in BOOLEAN : UploadEnds(f, failed)
    BY <1>7
  <2>2. /\ f \in uploads /\ uploads' = uploads \ {f}
        /\ attached' = IF ~Attached THEN NoFile
                       ELSE IF failed THEN [attached EXCEPT !.failed = TRUE]
                       ELSE [attached EXCEPT !.ref = f]
        /\ UNCHANGED <<connectionVars, mixed, taskRuns, consolidates, navigators, typed,
                       lastSent>>
    BY <2>1 DEF UploadEnds
  <2>3. PageShapes' /\ LinkIsOfPage'
    BY <2>2 DEF connectionVars, PageShapes, LinkShapes, Attachment, Attached, LinkIsOfPage
  <2>4. UploadIsShown'
    <3>1. CASE ~Attached
      BY <2>2, <3>1 DEF UploadIsShown, Attached
    <3>2. CASE mixed
      BY <2>2, <3>2 DEF UploadIsShown
    <3>3. CASE Attached /\ ~mixed
      <4>1. /\ attached \in Attachment /\ f = attached.file /\ uploads' = {}
            /\ attached.ref = NoFile /\ ~attached.failed
        BY <2>2, <3>3 DEF UploadIsShown, PageShapes, Attached
      <4>2. CASE failed
        BY <2>2, <3>3, <4>1, <4>2 DEF UploadIsShown, Attachment
      <4>3. CASE ~failed
        BY <2>2, <3>3, <4>1, <4>3 DEF UploadIsShown, Attachment
      <4> QED
        BY <4>2, <4>3
    <3> QED
      BY <3>1, <3>2, <3>3
  <2> QED
    BY <1>1, <2>2, <2>3, <2>4
<1>8. CASE \E to \in Addresses : Visit(to)
  <2>1. PICK to \in Addresses : Visit(to)
    BY <1>8
  <2>2. Goto(to) /\ UNCHANGED <<taskRuns, navigators, lastSent>>
    BY <2>1 DEF Visit
  <2>3. PageShapes' /\ LinkIsOfPage' /\ UploadIsShown'
    BY <2>2, GotoKeeps DEF PageShapes
  <2> QED
    BY <1>1, <2>2, <2>3
<1>9. CASE \E n \in navigators, copy \in PageChats, failed \in BOOLEAN :
             NavigatorAnswered(n, copy, failed)
  <2>1. PICK n \in navigators, copy \in PageChats, failed \in BOOLEAN :
          NavigatorAnswered(n, copy, failed)
    BY <1>9
  <2>2. navigators' \in SUBSET [op : {"end", "fork"}, chat : PageChats]
        /\ UNCHANGED <<taskRuns, lastSent>>
    BY <2>1 DEF NavigatorAnswered, PageShapes
  <2>3. PageShapes' /\ LinkIsOfPage' /\ UploadIsShown'
    <3>1. CASE failed
      BY <2>1, <2>2, <3>1
         DEF NavigatorAnswered, connectionVars, PageShapes, LinkShapes, LinkIsOfPage,
             UploadIsShown, Attached
    <3>2. CASE ~failed
      <4>1. PICK to \in Addresses : Goto(to)
        BY <2>1, <3>2 DEF NavigatorAnswered, Addresses, ResumeThreads
      <4> QED
        BY <2>2, <4>1, GotoKeeps DEF PageShapes
    <3> QED
      BY <3>1, <3>2
  <2> QED
    BY <1>1, <2>2, <2>3
\* what is sent is what the page shows
<1>10. CASE SendTyped
  <2>1. /\ link.step = "on" /\ ~Uploading
        /\ lastSent' = [address |-> address, thread |-> link.to, own |-> link.own,
                        file |-> IF Attached THEN attached.file ELSE NoFile, ref |-> Ref,
                        failed |-> Attached /\ attached.failed, mixed |-> mixed]
        /\ typed' = FALSE /\ attached' = NoFile
        /\ UNCHANGED <<connectionVars, uploads, mixed, taskRuns, consolidates, navigators>>
    BY <1>10 DEF SendTyped, Connected
  <2>2. PageShapes' /\ LinkIsOfPage' /\ UploadIsShown'
    BY <2>1 DEF connectionVars, PageShapes, LinkShapes, LinkIsOfPage, UploadIsShown, Attached
  <2>3. /\ Attached => attached \in Attachment /\ Ref = attached.ref
        /\ ~Attached => Ref = NoFile
    BY DEF PageShapes, Attached, Ref
  <2> DEFINE file == IF Attached THEN attached.file ELSE NoFile
             failed == Attached /\ attached.failed
  <2>4. file \in Files \cup {NoFile} /\ Ref \in Files \cup {NoFile} /\ failed \in BOOLEAN
    BY <2>3 DEF Attachment
  <2>5. ~mixed => Ref = IF failed THEN NoFile ELSE file
    BY <2>1, <2>3 DEF UploadIsShown, Uploading
  <2>6. link.own => link.to = address
    BY <2>1 DEF LinkIsOfPage
  <2>7. lastSent' = [address |-> address, thread |-> link.to, own |-> link.own, file |-> file, ref |-> Ref,
                     failed |-> failed, mixed |-> mixed]
    BY <2>1
  <2> HIDE DEF file, failed
  <2>8. SentShapes'
    BY <2>4, <2>7 DEF SentShapes, PageShapes, LinkShapes
  <2>9. SentAsShown'
    BY <2>5, <2>6, <2>7 DEF SentAsShown
  <2> QED
    BY <2>2, <2>8, <2>9
<1>11. CASE UNCHANGED chatPageVars
  <2>1. PageShapes' /\ LinkIsOfPage' /\ UploadIsShown' /\ UNCHANGED lastSent
    BY <1>11 DEF chatPageVars, PageShapes, LinkShapes, LinkIsOfPage, UploadIsShown, Attached
  <2> QED
    BY <1>1, <2>1
<1> QED
  BY <1>2, <1>3, <1>4, <1>5, <1>6, <1>7, <1>8, <1>9, <1>10, <1>11 DEF ChatPageNext

LEMMA ChatPageAlways == ChatPageSpec => []ChatPageInv
<1> QED
  BY ChatPageStart, ChatPageStep, PTL DEF ChatPageSpec

(* The page's state keeps its shape, for any chats and files.              *)
THEOREM ChatPageTyped == ChatPageSpec => []ChatPageTypeOK
<1>1. ChatPageInv => ChatPageTypeOK
  BY DEF ChatPageInv, PageShapes, LinkShapes, SentShapes, ChatPageTypeOK
<1> QED
  BY <1>1, ChatPageAlways, PTL

(* However mounts, connections, uploads and answered requests interleave,  *)
(* a message sent on the connection its own page opened goes to the chat   *)
(* of that page, and every message takes the file that its page shows,     *)
(* unless the upload of an earlier attachment is still in flight.          *)
THEOREM MessagesAreSentAsShown == ChatPageSpec => []SentAsShown
<1>1. ChatPageInv => SentAsShown
  BY DEF ChatPageInv
<1> QED
  BY <1>1, ChatPageAlways, PTL

-----------------------------------------------------------------------------
(* RecordPages: any number of records and requests.                        *)

(* As long as nothing has overtaken the page: one load is in flight, and    *)
(* what it has read is what is still stored; a request that was done and is *)
(* the only one for its record has left the status it stands for; and       *)
(* without a load in flight the rows of a record that no answered request   *)
(* is about are the stored ones, while a record such a request is about has *)
(* a row that can be patched.                                               *)
Single(r) == \A other \in requests : other.id = r.id => other = r
Settled(id) == \A r \in requests : r.id = id => r.answer = "asked"
HasRow(id) == \E row \in rowsShown : row.id = id
OneRow(id) == \A row, other \in rowsShown : row.id = id /\ other.id = id => row = other

ShownRows == [list : Partitions, id : PageRecords \cup {NoRow}, status : Partitions]
FetchAnswers == [got : {"none", "asked", "rows", "error", "lost"}, ids : SUBSET PageRecords,
                 cut : BOOLEAN]
ButtonRequests == [op : Operations, id : PageRecords, answer : {"asked", "done", "refused", "lost"}]

RecordShapes ==
  /\ pageKind \in PageKinds /\ stored \in [PageRecords -> Partitions \cup {"gone"}]
  /\ rowsShown \in SUBSET ShownRows /\ fetches \in [Slots -> [Partitions -> FetchAnswers]]
  /\ requests \in SUBSET ButtonRequests /\ failedParts \in SUBSET Partitions
  /\ cutParts \in SUBSET Partitions
  /\ pageLoading \in BOOLEAN /\ pageError \in BOOLEAN /\ disturbed \in BOOLEAN

AlwaysSo ==
  /\ pageLoading => FetchInFlight
  /\ \A r, other \in requests : r.op = other.op /\ r.id = other.id => r = other

\* what a list has read: some of what is stored, all of it if it was not cut
PageAnswers(answer, p) ==
  /\ answer.ids \in SUBSET StoredIn(p) /\ (answer.got # "rows" => answer.ids = {})
  /\ answer.got = "rows" /\ ~answer.cut => answer.ids = StoredIn(p)
  /\ answer.got # "rows" => ~answer.cut

\* the lists that may lack a record
Lacking == failedParts \cup cutParts

Fetched ==
  /\ \A slot, other \in Slots : Fetching(slot) /\ Fetching(other) => slot = other
  /\ \A slot \in Slots, p \in Partitions :
       /\ PageAnswers(fetches[slot][p], p)
       /\ fetches[slot][p].got # "error" /\ (fetches[slot][p].got = "lost" => TwoLists)
  /\ pageError => failedParts = Partitions

DoneIsStored ==
  \A r \in requests : r.answer = "done" /\ Single(r) => stored[r.id] = StatusAfter(r.op)

\* where both lists may lack a record, a button's record may be lacking
Patchable(id) == HasRow(id) \/ cutParts = Partitions

Shown ==
  ~FetchInFlight =>
    /\ \A row \in rowsShown : row.id \in PageRecords
    /\ \A id \in PageRecords : Settled(id) =>
         /\ OneRow(id) /\ \A row \in rowsShown : row.id = id => row.status = stored[id]
         /\ stored[id] \in Partitions \ Lacking => HasRow(id)
    /\ \A r \in requests :
         /\ Lacking # {} => Patchable(r.id)
         /\ r.answer = "done" /\ Single(r) /\ r.op # "delete" => Patchable(r.id) /\ OneRow(r.id)

RecordInv == RecordShapes /\ AlwaysSo /\ (~disturbed => Fetched /\ DoneIsStored /\ Shown)

-----------------------------------------------------------------------------

LEMMA StatusesAfter ==
  ASSUME NEW op \in Operations
  PROVE  /\ StatusAfter(op) \in Partitions \cup {"gone"}
         /\ op = "delete" => StatusAfter(op) = "gone"
         /\ op # "delete" => StatusAfter(op) \in Partitions
BY DEF StatusAfter, Operations, Partitions

LEMMA Fetches ==
  /\ NoFetch \in [Partitions -> FetchAnswers] /\ NewFetch \in [Partitions -> FetchAnswers]
  /\ \A p \in Partitions : /\ NoFetch[p].got = "none" /\ NoFetch[p].ids = {} /\ ~NoFetch[p].cut
                           /\ NewFetch[p].got = "asked" /\ NewFetch[p].ids = {} /\ ~NewFetch[p].cut
  /\ NewFetch # NoFetch
<1>1. /\ NoFetch \in [Partitions -> FetchAnswers] /\ NewFetch \in [Partitions -> FetchAnswers]
      /\ \A p \in Partitions : /\ NoFetch[p].got = "none" /\ NoFetch[p].ids = {} /\ ~NoFetch[p].cut
                               /\ NewFetch[p].got = "asked" /\ NewFetch[p].ids = {} /\ ~NewFetch[p].cut
  BY DEF NoFetch, NewFetch, Unserved, FetchAnswers
<1>2. "live" \in Partitions
  BY DEF Partitions
<1> QED
  BY <1>1, <1>2

(* A load that starts when none is in flight has read nothing yet.         *)
LEMMA Starting ==
  ASSUME RecordShapes, NEW slot \in Slots, StartFetch(slot)
  PROVE  /\ fetches' \in [Slots -> [Partitions -> FetchAnswers]] /\ FetchInFlight'
         /\ pageLoading' = TRUE /\ pageError' = FALSE /\ failedParts' = {}
         /\ ~FetchInFlight => Fetched'
<1>1. /\ fetches' = [fetches EXCEPT ![slot] = NewFetch]
      /\ pageLoading' = TRUE /\ pageError' = FALSE /\ failedParts' = {}
      /\ fetches \in [Slots -> [Partitions -> FetchAnswers]]
  BY DEF StartFetch, RecordShapes
<1>2. /\ fetches' \in [Slots -> [Partitions -> FetchAnswers]] /\ fetches'[slot] = NewFetch
      /\ \A other \in Slots : other # slot => fetches'[other] = fetches[other]
  BY <1>1, Fetches
<1>3. FetchInFlight'
  BY <1>2, Fetches DEF FetchInFlight, Fetching
<1>4. ASSUME ~FetchInFlight
      PROVE  Fetched'
  <2>1. \A other \in Slots : other # slot => fetches'[other] = NoFetch
    BY <1>2, <1>4 DEF FetchInFlight, Fetching
  <2>2. \A u, other \in Slots : Fetching(u)' /\ Fetching(other)' => u = other
    BY <2>1 DEF Fetching
  <2>3. \A u \in Slots, p \in Partitions :
          /\ fetches'[u][p].ids = {} /\ fetches'[u][p].got \in {"none", "asked"}
          /\ ~fetches'[u][p].cut
    BY <1>2, <2>1, Fetches
  <2> QED
    BY <1>1, <2>2, <2>3 DEF Fetched, PageAnswers
<1> QED
  BY <1>1, <1>2, <1>3, <1>4

LEMMA PageStarts == PageInit => RecordInv
<1> SUFFICES ASSUME PageInit
             PROVE  RecordInv
  OBVIOUS
<1>1. /\ fetches \in [Slots -> [Partitions -> FetchAnswers]] /\ fetches[1] = NewFetch
      /\ 1 \in Slots /\ \A slot \in Slots \ {1} : fetches[slot] = NoFetch
  BY Fetches DEF PageInit, Slots
<1>2. RecordShapes
  BY <1>1 DEF PageInit, RecordShapes
<1>3. FetchInFlight
  BY <1>1, Fetches DEF FetchInFlight, Fetching
<1>4. AlwaysSo /\ DoneIsStored /\ Shown
  BY <1>3 DEF PageInit, AlwaysSo, DoneIsStored, Shown
<1>5. Fetched
  <2>1. \A slot, other \in Slots : Fetching(slot) /\ Fetching(other) => slot = other
    BY <1>1 DEF Fetching
  <2>2. \A slot \in Slots, p \in Partitions :
          /\ fetches[slot][p].ids = {} /\ fetches[slot][p].got \in {"none", "asked"}
          /\ ~fetches[slot][p].cut
    BY <1>1, Fetches
  <2> QED
    BY <2>1, <2>2 DEF PageInit, Fetched, PageAnswers
<1> QED
  BY <1>2, <1>4, <1>5 DEF RecordInv

(* A request that is served takes its record out of what is said of the    *)
(* rows, and leaves its status behind.                                     *)
LEMMA ServeStep ==
  ASSUME RecordInv, NEW r \in requests, NEW refused \in BOOLEAN, ServeRequest(r, refused)
  PROVE  RecordInv'
<1>1. /\ r.answer = "asked" /\ (stored[r.id] = "gone" => refused)
      /\ stored' = IF refused THEN stored ELSE [stored EXCEPT ![r.id] = StatusAfter(r.op)]
      /\ UNCHANGED <<pageKind, rowsShown, fetches, pageLoading, pageError, failedParts, cutParts>>
      /\ RecordShapes /\ r \in ButtonRequests /\ r.op \in Operations /\ r.id \in PageRecords
  BY DEF ServeRequest, RecordInv, RecordShapes, ButtonRequests
<1>2. PICK answer \in {"done", "lost", "refused"} :
        /\ requests' = (requests \ {r}) \cup {[r EXCEPT !.answer = answer]}
        /\ answer = "done" => ~refused \/ (stored[r.id] = "gone" /\ r.op = "delete")
  <2>1. PICK answer \in IF ~refused THEN {"done", "lost"}
                        ELSE IF RefusalFails(r.op) THEN {"lost"}
                        ELSE IF stored[r.id] = "gone" /\ r.op = "delete" THEN {"done", "lost"}
                        ELSE {"refused", "lost"} :
          requests' = (requests \ {r}) \cup {[r EXCEPT !.answer = answer]}
    BY DEF ServeRequest
  <2> QED
    BY <2>1
<1> DEFINE new == [r EXCEPT !.answer = answer]
<1>3. /\ new \in ButtonRequests /\ new.op = r.op /\ new.id = r.id /\ new.answer = answer
      /\ requests' = (requests \ {r}) \cup {new}
  BY <1>1, <1>2 DEF ButtonRequests
<1> HIDE DEF new
<1>4. /\ stored' \in [PageRecords -> Partitions \cup {"gone"}]
      /\ \A id \in PageRecords : id # r.id => stored'[id] = stored[id]
      /\ answer = "done" => stored'[r.id] = StatusAfter(r.op)
      /\ answer = "done" /\ r.op # "delete" => stored[r.id] # "gone"
  BY <1>1, <1>2, StatusesAfter DEF RecordShapes
<1>5. disturbed' \in BOOLEAN
  BY DEF ServeRequest, RecordInv, RecordShapes
<1>6. RecordShapes'
  BY <1>1, <1>3, <1>4, <1>5 DEF RecordShapes
<1>7. FetchInFlight' <=> FetchInFlight
  BY <1>1 DEF FetchInFlight, Fetching
<1>8. AlwaysSo'
  BY <1>1, <1>3, <1>7 DEF RecordInv, AlwaysSo
<1>9. ASSUME ~disturbed'
      PROVE  Fetched' /\ DoneIsStored' /\ Shown'
  <2>1. ~disturbed /\ (FetchInFlight => stored' = stored)
    BY <1>9 DEF ServeRequest
  <2>2. Fetched /\ DoneIsStored /\ Shown
    BY <2>1 DEF RecordInv
  <2>3. Fetched'
    <3>1. CASE FetchInFlight
      BY <1>1, <2>1, <2>2, <3>1 DEF Fetched, Fetching, PageAnswers, StoredIn, TwoLists
    <3>2. CASE ~FetchInFlight
      <4>1. \A slot \in Slots : fetches[slot] = NoFetch
        BY <3>2 DEF FetchInFlight, Fetching
      <4>2. \A slot \in Slots, p \in Partitions :
              /\ fetches[slot][p].got = "none" /\ fetches[slot][p].ids = {}
              /\ ~fetches[slot][p].cut
        BY <4>1, Fetches
      <4> QED
        BY <1>1, <2>2, <4>2 DEF Fetched, Fetching, PageAnswers, TwoLists
    <3> QED
      BY <3>1, <3>2
  <2>4. DoneIsStored'
    <3> SUFFICES ASSUME NEW q \in requests', q.answer = "done", Single(q)'
                 PROVE  stored'[q.id] = StatusAfter(q.op)
      BY DEF DoneIsStored
    <3>1. CASE q = new
      BY <1>3, <1>4, <3>1
    <3>2. CASE q # new
      <4>1. q \in requests /\ new \in requests' /\ q.id # r.id
        BY <1>3, <3>2 DEF Single
      <4>2. \A other \in requests : other.id = q.id => other \in requests'
        BY <1>3, <4>1
      <4>3. Single(q) /\ q.id \in PageRecords
        BY <1>1, <4>1, <4>2 DEF Single, RecordShapes, ButtonRequests
      <4> QED
        BY <1>4, <2>2, <4>1, <4>3 DEF DoneIsStored
    <3> QED
      BY <3>1, <3>2
  <2>5. Shown'
    <3> SUFFICES ASSUME ~FetchInFlight
                 PROVE  Shown'
      BY <1>7 DEF Shown
    <3>1. \A row \in rowsShown : row.id \in PageRecords
      BY <2>2 DEF Shown
    <3>2. ASSUME NEW id \in PageRecords, Settled(id)'
          PROVE  /\ OneRow(id) /\ \A row \in rowsShown : row.id = id => row.status = stored'[id]
                 /\ stored'[id] \in Partitions \ Lacking => HasRow(id)
      <4>1. id # r.id
        BY <1>2, <1>3, <3>2 DEF Settled
      <4>2. Settled(id)
        BY <1>3, <3>2, <4>1 DEF Settled
      <4> QED
        BY <1>4, <2>2, <4>1, <4>2 DEF Shown
    <3>3. ASSUME NEW q \in requests'
          PROVE  /\ Lacking # {} => Patchable(q.id)
                 /\ q.answer = "done" /\ Single(q)' /\ q.op # "delete"
                      => Patchable(q.id) /\ OneRow(q.id)
      <4>1. PICK before \in requests : before.id = q.id
        BY <1>3, <3>3
      <4>2. Lacking # {} => Patchable(q.id)
        BY <2>2, <4>1 DEF Shown
      <4>3. ASSUME q.answer = "done", Single(q)', q.op # "delete"
            PROVE  Patchable(q.id) /\ OneRow(q.id)
        <5>1. CASE q = new
          <6>1. \A other \in requests : other.id = r.id => other = r
            <7> SUFFICES ASSUME NEW other \in requests, other.id = r.id, other # r
                         PROVE  FALSE
              OBVIOUS
            <7>1. other \in requests' /\ other = new
              BY <1>3, <4>3, <5>1 DEF Single
            <7> QED
              BY <1>3, <7>1 DEF RecordInv, AlwaysSo
          <6>2. Settled(r.id)
            BY <1>1, <6>1 DEF Settled
          <6>3. stored[r.id] \in Partitions
            BY <1>1, <1>3, <1>4, <4>3, <5>1 DEF RecordShapes
          <6>4. OneRow(r.id) /\ (stored[r.id] \in Partitions \ Lacking => HasRow(r.id))
            BY <1>1, <2>2, <6>2 DEF Shown
          <6> QED
            BY <1>3, <4>2, <5>1, <6>3, <6>4 DEF Patchable
        <5>2. CASE q # new
          <6>1. q \in requests /\ new \in requests' /\ q.id # r.id
            BY <1>3, <4>3, <5>2 DEF Single
          <6>2. \A other \in requests : other.id = q.id => other \in requests'
            BY <1>3, <6>1
          <6>3. Single(q)
            BY <4>3, <6>2 DEF Single
          <6> QED
            BY <2>2, <4>3, <6>1, <6>3 DEF Shown
        <5> QED
          BY <5>1, <5>2
      <4> QED
        BY <4>2, <4>3
    <3> QED
      BY <1>1, <3>1, <3>2, <3>3 DEF Shown, OneRow, HasRow, Patchable, Lacking
  <2> QED
    BY <2>3, <2>4, <2>5
<1> QED
  BY <1>6, <1>8, <1>9 DEF RecordInv

LEMMA FetchServedStep ==
  ASSUME RecordInv, NEW slot \in Slots, NEW parts \in SUBSET Partitions,
         NEW got \in {"rows", "error", "lost"}, ServeFetch(slot, parts, got)
  PROVE  RecordInv'
<1> DEFINE asked == UNION {StoredIn(p) : p \in parts}
<1>a. PICK listed \in IF got = "rows" THEN Fitting(asked) ELSE {{}} :
        fetches' = [fetches EXCEPT ![slot] = [p \in Partitions |->
          IF p \notin parts THEN fetches[slot][p]
          ELSE [got |-> got, ids |-> listed \cap StoredIn(p), cut |-> got = "rows" /\ listed # asked]]]
  BY DEF ServeFetch
<1> DEFINE answered == [p \in Partitions |->
             IF p \notin parts THEN fetches[slot][p]
             ELSE [got |-> got, ids |-> listed \cap StoredIn(p), cut |-> got = "rows" /\ listed # asked]]
<1>1. /\ parts # {} /\ (\A p \in parts : fetches[slot][p].got = "asked")
      /\ fetches' = [fetches EXCEPT ![slot] = answered]
      /\ UNCHANGED <<pageKind, stored, rowsShown, requests, pageLoading, pageError, failedParts,
                     cutParts>>
      /\ fetches \in [Slots -> [Partitions -> FetchAnswers]]
  BY <1>a DEF ServeFetch, RecordInv, RecordShapes, Partitions
<1>2. \A p \in Partitions : StoredIn(p) \in SUBSET PageRecords
  BY DEF StoredIn
<1>b. got # "rows" => listed = {}
  BY <1>a
<1>3. \A p \in Partitions :
        /\ p \in parts => answered[p].got = got /\ PageAnswers(answered[p], p)
        /\ p \notin parts => answered[p] = fetches[slot][p]
  <2>1. ASSUME NEW p \in parts
        PROVE  answered[p].got = got /\ PageAnswers(answered[p], p)
    <3>1. /\ answered[p].got = got /\ answered[p].ids = listed \cap StoredIn(p)
          /\ answered[p].cut <=> got = "rows" /\ listed # asked
      OBVIOUS
    <3>2. StoredIn(p) \subseteq asked
      OBVIOUS
    <3> HIDE DEF answered, asked
    <3>3. got = "rows" /\ ~answered[p].cut => answered[p].ids = StoredIn(p)
      BY <3>1, <3>2
    <3> QED
      BY <1>b, <3>1, <3>3 DEF PageAnswers
  <2> QED
    BY <2>1
<1>4. answered \in [Partitions -> FetchAnswers]
  <2>1. ASSUME NEW p \in Partitions
        PROVE  answered[p] \in FetchAnswers
    BY <1>1, <1>2, <2>1 DEF FetchAnswers
  <2> QED
    BY <2>1
<1> HIDE DEF answered, asked
<1>5. /\ fetches' \in [Slots -> [Partitions -> FetchAnswers]] /\ fetches'[slot] = answered
      /\ \A other \in Slots : other # slot => fetches'[other] = fetches[other]
  BY <1>1, <1>4
<1>6. Fetching(slot) /\ Fetching(slot)'
  <2>1. PICK p \in parts : fetches[slot][p].got = "asked" /\ answered[p].got = got
    BY <1>1, <1>3
  <2>2. p \in Partitions
    OBVIOUS
  <2> QED
    BY <1>5, <2>1, <2>2, Fetches DEF Fetching
<1>7. disturbed' \in BOOLEAN
  BY DEF ServeFetch, RecordInv, RecordShapes
<1>8. RecordShapes'
  BY <1>1, <1>5, <1>7 DEF RecordInv, RecordShapes
<1>9. FetchInFlight /\ FetchInFlight'
  BY <1>6 DEF FetchInFlight
<1>10. AlwaysSo'
  BY <1>1, <1>9 DEF RecordInv, AlwaysSo
<1>11. ASSUME ~disturbed'
       PROVE  Fetched' /\ DoneIsStored' /\ Shown'
  <2>1. ~disturbed /\ got # "error" /\ (got = "lost" => TwoLists)
    BY <1>11 DEF ServeFetch
  <2>2. Fetched /\ DoneIsStored
    BY <2>1 DEF RecordInv
  <2>3. DoneIsStored' /\ Shown'
    BY <1>1, <1>9, <2>2 DEF DoneIsStored, Single, Shown
  <2>4. \A u, other \in Slots : Fetching(u)' /\ Fetching(other)' => u = other
    BY <1>5, <1>6, <2>2 DEF Fetched, Fetching
  <2>5. TwoLists' <=> TwoLists
    BY <1>1 DEF TwoLists
  <2>6. \A answer, p : PageAnswers(answer, p)' <=> PageAnswers(answer', p')
    BY <1>1 DEF StoredIn, PageAnswers
  <2>7. ASSUME NEW u \in Slots, NEW p \in Partitions
        PROVE  /\ PageAnswers(fetches'[u][p], p)
               /\ fetches'[u][p].got # "error" /\ (fetches'[u][p].got = "lost" => TwoLists)
    <3>1. CASE u = slot /\ p \in parts
      BY <1>3, <1>5, <2>1, <3>1
    <3>2. CASE u # slot \/ p \notin parts
      <4>1. fetches'[u][p] = fetches[u][p]
        BY <1>3, <1>5, <3>2
      <4> QED
        BY <2>2, <4>1 DEF Fetched
    <3> QED
      BY <3>1, <3>2
  <2>8. pageError' => failedParts' = Partitions
    BY <1>1, <2>2 DEF Fetched
  <2>9. Fetched'
    BY <2>4, <2>5, <2>6, <2>7, <2>8 DEF Fetched
  <2> QED
    BY <2>3, <2>9
<1> QED
  BY <1>8, <1>10, <1>11 DEF RecordInv

(* Nothing is claimed of a page that another client or a failed request    *)
(* has overtaken.                                                          *)
LEMMA OvertakenStep ==
  ASSUME RecordInv,
         \/ \E id \in PageRecords, status \in Partitions \cup {"gone"} : OthersChange(id, status)
         \/ \E r \in requests : RequestFailed(r)
  PROVE  RecordInv'
<1>1. CASE \E id \in PageRecords, status \in Partitions \cup {"gone"} : OthersChange(id, status)
  <2>1. PICK id \in PageRecords, status \in Partitions \cup {"gone"} :
          /\ stored' = [stored EXCEPT ![id] = status] /\ disturbed' = TRUE
          /\ UNCHANGED <<pageKind, rowsShown, fetches, requests, pageLoading, pageError,
                         failedParts, cutParts>>
    BY <1>1 DEF OthersChange
  <2>2. RecordShapes'
    BY <2>1 DEF RecordInv, RecordShapes
  <2>3. AlwaysSo'
    BY <2>1 DEF RecordInv, AlwaysSo, FetchInFlight, Fetching
  <2> QED
    BY <2>1, <2>2, <2>3 DEF RecordInv
<1>2. CASE \E r \in requests : RequestFailed(r)
  <2>1. PICK r \in requests :
          /\ requests' = requests \ {r} /\ disturbed' = TRUE
          /\ UNCHANGED <<pageKind, stored, rowsShown, fetches, pageLoading, failedParts, cutParts>>
    BY <1>2 DEF RequestFailed
  <2>2. pageError' \in BOOLEAN
    BY <1>2 DEF RequestFailed, RecordInv, RecordShapes
  <2>3. RecordShapes'
    BY <2>1, <2>2 DEF RecordInv, RecordShapes
  <2>4. AlwaysSo'
    BY <2>1 DEF RecordInv, AlwaysSo, FetchInFlight, Fetching
  <2> QED
    BY <2>1, <2>3, <2>4 DEF RecordInv
<1> QED
  BY <1>1, <1>2

LEMMA RefreshStep ==
  ASSUME RecordInv, NEW slot \in Slots, RefreshRows(slot)
  PROVE  RecordInv'
<1>1. /\ UNCHANGED <<pageKind, stored, rowsShown, requests, cutParts>> /\ StartFetch(slot)
      /\ RecordShapes
  BY DEF RefreshRows, RecordInv
<1>2. /\ fetches' \in [Slots -> [Partitions -> FetchAnswers]] /\ FetchInFlight'
      /\ pageLoading' = TRUE /\ pageError' = FALSE /\ failedParts' = {}
      /\ ~FetchInFlight => Fetched'
  BY <1>1, Starting
<1>3. disturbed' \in BOOLEAN
  BY DEF RefreshRows, RecordInv, RecordShapes
<1>4. RecordShapes'
  BY <1>1, <1>2, <1>3 DEF RecordShapes
<1>5. AlwaysSo'
  BY <1>1, <1>2 DEF RecordInv, AlwaysSo
<1>6. ASSUME ~disturbed'
      PROVE  Fetched' /\ DoneIsStored' /\ Shown'
  <2>1. ~FetchInFlight /\ (~disturbed \/ requests = {})
    BY <1>6 DEF RefreshRows
  <2>2. DoneIsStored'
    BY <1>1, <2>1 DEF RecordInv, DoneIsStored, Single
  <2> QED
    BY <1>2, <2>1, <2>2 DEF Shown
<1> QED
  BY <1>4, <1>5, <1>6 DEF RecordInv

(* What arrives is what is stored, but for a list that failed.             *)
LEMMA ArriveStep ==
  ASSUME RecordInv, NEW slot \in Slots, FetchArrives(slot)
  PROVE  RecordInv'
<1> DEFINE f == fetches[slot]
           lost == LostParts(f)
           arrived == UNION {RowsOf(p, f[p]) : p \in Partitions}
           cut == {p \in Partitions : f[p].cut}
<1>1. /\ \A p \in Partitions : f[p].got \in {"rows", "error", "lost"}
      /\ rowsShown' = IF ~TwoLists /\ lost # {} THEN rowsShown ELSE arrived
      /\ failedParts' = IF TwoLists THEN lost ELSE {}
      /\ pageError' = IF pageKind = "sidebar" THEN FALSE ELSE lost = Partitions
      /\ pageLoading' = FALSE /\ cutParts' = IF requests = {} \/ cut = {} THEN cut ELSE Partitions
      /\ fetches' = [fetches EXCEPT ![slot] = NoFetch]
      /\ disturbed' = (disturbed \/ (lost # {} /\ requests # {}))
      /\ UNCHANGED <<pageKind, stored, requests>>
      /\ RecordShapes /\ f \in [Partitions -> FetchAnswers]
  BY DEF FetchArrives, RecordInv, RecordShapes
<1>2. lost \in SUBSET Partitions /\ \A p \in Partitions : p \in lost <=> f[p].got = "lost"
  BY DEF LostParts
<1>3. arrived \in SUBSET ShownRows
  <2>1. ASSUME NEW p \in Partitions
        PROVE  RowsOf(p, f[p]) \in SUBSET ShownRows
    <3>1. f[p].ids \in SUBSET PageRecords /\ "live" \in Partitions
      BY <1>1 DEF FetchAnswers, Partitions
    <3> QED
      BY <3>1 DEF RowsOf, Row, ShownRows
  <2> QED
    BY <2>1
<1>4. /\ fetches' \in [Slots -> [Partitions -> FetchAnswers]] /\ fetches'[slot] = NoFetch
      /\ \A other \in Slots : other # slot => fetches'[other] = fetches[other]
  BY <1>1, Fetches DEF RecordShapes
<1>5. Fetching(slot)
  <2>1. "live" \in Partitions
    BY DEF Partitions
  <2>2. f["live"].got # "none"
    BY <1>1, <2>1
  <2> QED
    BY <2>1, <2>2, Fetches DEF Fetching
<1>c. cut \in SUBSET Partitions /\ \A p \in Partitions : p \in cut <=> f[p].cut
  OBVIOUS
<1> HIDE DEF f, lost, arrived, cut
<1>6. disturbed' \in BOOLEAN /\ pageError' \in BOOLEAN
  BY <1>1 DEF RecordShapes
<1>7. RecordShapes'
  BY <1>1, <1>2, <1>3, <1>4, <1>6, <1>c DEF RecordShapes
<1>8. AlwaysSo'
  BY <1>1 DEF RecordInv, AlwaysSo
<1>9. ASSUME ~disturbed'
      PROVE  Fetched' /\ DoneIsStored' /\ Shown'
  <2>1. ~disturbed /\ (lost = {} \/ requests = {})
    BY <1>1, <1>9
  <2>2. Fetched /\ DoneIsStored
    BY <2>1 DEF RecordInv
  <2>3. \A other \in Slots : other # slot => fetches'[other] = NoFetch
    BY <1>4, <1>5, <2>2 DEF Fetched, Fetching
  <2>4. \A other \in Slots : fetches'[other] = NoFetch
    BY <1>4, <2>3
  <2>5. ~TwoLists => lost = {}
    <3>1. \A p \in Partitions : f[p].got = "lost" => TwoLists
      BY <2>2 DEF Fetched, f
    <3> QED
      BY <1>2, <3>1
  <2>6. Fetched'
    <3>1. pageError' => failedParts' = Partitions
      <4>1. Partitions # {}
        BY DEF Partitions
      <4> QED
        BY <1>1, <2>5, <4>1
    <3>2. \A u \in Slots : ~Fetching(u)'
      BY <2>4 DEF Fetching
    <3>3. \A u \in Slots, p \in Partitions :
            /\ fetches'[u][p].ids = {} /\ fetches'[u][p].got = "none"
            /\ ~fetches'[u][p].cut
      BY <2>4, Fetches
    <3> QED
      BY <3>1, <3>2, <3>3 DEF Fetched, PageAnswers
  <2>7. DoneIsStored'
    BY <1>1, <2>2 DEF DoneIsStored, Single
  <2>8. \A row : row \in rowsShown' <=>
          \E p \in Partitions \ lost : \E id \in f[p].ids : row = Row(p, id, p)
    <3>1. rowsShown' = arrived
      BY <1>1, <2>5
    <3>2. ASSUME NEW p \in Partitions
          PROVE  \A row : row \in RowsOf(p, f[p]) <=>
                   p \notin lost /\ \E id \in f[p].ids : row = Row(p, id, p)
      <4>1. f[p].got # "error" /\ PageAnswers(f[p], p)
        BY <2>2 DEF Fetched, f
      <4>2. RowsOf(p, f[p]) = {Row(p, id, p) : id \in f[p].ids}
        BY <4>1 DEF RowsOf
      <4>3. p \in lost => f[p].ids = {}
        BY <1>1, <1>2, <4>1 DEF PageAnswers
      <4> QED
        BY <4>2, <4>3
    <3>3. \A row : row \in arrived <=> \E p \in Partitions : row \in RowsOf(p, f[p])
      BY DEF arrived
    <3> QED
      BY <3>1, <3>2, <3>3
  <2>9. \A p, id : Row(p, id, p).id = id /\ Row(p, id, p).status = p
    BY DEF Row
  <2>10. \A p, id : id \in StoredIn(p) <=> id \in PageRecords /\ stored[id] = p
    BY DEF StoredIn
  <2>d. \A p \in Partitions :
          f[p].ids \subseteq StoredIn(p) /\ (p \notin lost \cup cut => f[p].ids = StoredIn(p))
    <3>1. ASSUME NEW p \in Partitions
          PROVE  /\ f[p].ids \subseteq StoredIn(p)
                 /\ p \notin lost \cup cut => f[p].ids = StoredIn(p)
      <4>1. f[p].got # "error" /\ PageAnswers(f[p], p)
        BY <2>2 DEF Fetched, f
      <4> QED
        BY <1>1, <1>2, <1>c, <4>1 DEF PageAnswers
    <3> QED
      BY <3>1
  <2>g. \A row \in rowsShown' : \E p \in Partitions : \E id \in StoredIn(p) : row = Row(p, id, p)
    <3>1. ASSUME NEW row \in rowsShown'
          PROVE  \E p \in Partitions : \E id \in StoredIn(p) : row = Row(p, id, p)
      <4>1. PICK p \in Partitions \ lost : \E id \in f[p].ids : row = Row(p, id, p)
        BY <2>8
      <4>2. f[p].ids \subseteq StoredIn(p)
        BY <2>d
      <4> QED
        BY <4>1, <4>2
    <3> QED
      BY <3>1
  <2>h. ASSUME NEW p \in Partitions \ (lost \cup cut), NEW id \in StoredIn(p)
        PROVE  Row(p, id, p) \in rowsShown'
    <3>0. p \in Partitions /\ p \notin lost /\ p \notin lost \cup cut
      OBVIOUS
    <3>1. p \in Partitions \ lost /\ id \in f[p].ids
      BY <2>d, <3>0, Zenon
    <3> QED
      BY <2>8, <3>1
  <2>11. ASSUME NEW id \in PageRecords
         PROVE  /\ OneRow(id)' /\ \A row \in rowsShown' : row.id = id => row.status = stored[id]
                /\ stored[id] \in Partitions \ (lost \cup cut) => HasRow(id)'
    <3>1. \A row \in rowsShown' : row.id = id =>
            row = Row(stored[id], id, stored[id])
      BY <2>9, <2>10, <2>g
    <3>2. OneRow(id)'
      BY <3>1 DEF OneRow
    <3>3. \A row \in rowsShown' : row.id = id => row.status = stored[id]
      BY <2>9, <3>1
    <3>4. ASSUME stored[id] \in Partitions \ (lost \cup cut)
          PROVE  HasRow(id)'
      <4>1. Row(stored[id], id, stored[id]) \in rowsShown'
        BY <2>10, <2>h, <3>4
      <4> QED
        BY <2>9, <4>1 DEF HasRow
    <3> QED
      BY <3>2, <3>3, <3>4
  <2>12. failedParts' = lost
    BY <1>1, <2>5
  <2>13. \A row \in rowsShown' : row.id \in PageRecords
    BY <2>9, <2>10, <2>g
  <2>e. /\ Lacking' \subseteq Partitions /\ Partitions \ Lacking' \subseteq Partitions \ (lost \cup cut)
        /\ requests # {} => (cutParts' = Partitions \/ (Lacking' = {} /\ cut = {}))
    <3>1. /\ cutParts' = IF requests = {} \/ cut = {} THEN cut ELSE Partitions
          /\ cut \subseteq Partitions /\ lost \subseteq Partitions
      BY <1>1, <1>2, <1>c
    <3>2. cut \subseteq cutParts' /\ cutParts' \subseteq Partitions
      BY <3>1
    <3>3. Lacking' = lost \cup cutParts'
      BY <2>12 DEF Lacking
    <3>4. Partitions \ Lacking' \subseteq Partitions \ (lost \cup cut)
      BY <3>2, <3>3
    <3>5. requests # {} => cutParts' = Partitions \/ (Lacking' = {} /\ cut = {})
      BY <2>1, <3>1, <3>3
    <3>6. Lacking' \subseteq Partitions
      BY <3>1, <3>2, <3>3
    <3> QED
      BY <3>4, <3>5, <3>6
  <2>14. ASSUME NEW r \in requests
         PROVE  /\ Lacking' # {} => Patchable(r.id)'
                /\ r.answer = "done" /\ Single(r)' /\ r.op # "delete"
                     => Patchable(r.id)' /\ OneRow(r.id)'
    <3>1. lost = {} /\ r.op \in Operations /\ r.id \in PageRecords
      BY <1>1, <2>1 DEF RecordShapes, ButtonRequests
    <3>2. r.answer = "done" /\ Single(r)' => stored[r.id] = StatusAfter(r.op)
      BY <1>1, <2>2 DEF DoneIsStored, Single
    <3> QED
      BY <2>11, <2>e, <3>1, <3>2, StatusesAfter DEF Patchable
  <2>15. Shown'
    BY <1>1, <2>11, <2>13, <2>14, <2>e DEF Shown
  <2> QED
    BY <2>6, <2>7, <2>15
<1> QED
  BY <1>7, <1>8, <1>9 DEF RecordInv

(* A button is pressed on a row that is shown.                             *)
LEMMA PressStep ==
  ASSUME RecordInv, NEW op \in Operations, NEW id \in PageRecords, Press(op, id)
  PROVE  RecordInv'
<1> DEFINE new == [op |-> op, id |-> id, answer |-> "asked"]
<1>1. /\ requests' = requests \cup {new}
      /\ UNCHANGED <<pageKind, stored, rowsShown, fetches, pageLoading, pageError,
                     failedParts, cutParts, disturbed>>
      /\ \A r \in requests : <<r.op, r.id>> # <<op, id>>
      /\ RecordShapes
  BY DEF Press, RecordInv
<1>2. HasRow(id)
  BY DEF Press, Displayed, HasRow
<1>3. new \in ButtonRequests /\ new.op = op /\ new.id = id /\ new.answer = "asked"
  BY DEF ButtonRequests
<1> HIDE DEF new
<1>4. RecordShapes'
  BY <1>1, <1>3 DEF RecordShapes
<1>5. FetchInFlight' <=> FetchInFlight
  BY <1>1 DEF FetchInFlight, Fetching
<1>6. AlwaysSo'
  <2>1. \A r \in requests : ~(r.op = op /\ r.id = id)
    BY <1>1
  <2> QED
    BY <1>1, <1>3, <1>5, <2>1 DEF RecordInv, AlwaysSo
<1>7. ASSUME ~disturbed'
      PROVE  Fetched' /\ DoneIsStored' /\ Shown'
  <2>1. Fetched /\ DoneIsStored /\ Shown
    BY <1>1, <1>7 DEF RecordInv
  <2>2. Fetched'
    BY <1>1, <2>1 DEF Fetched, Fetching, PageAnswers, StoredIn, TwoLists
  <2>3. \A r \in requests' : r.answer = "done" => r \in requests /\ (Single(r)' => Single(r))
    BY <1>1, <1>3 DEF Single
  <2>4. DoneIsStored'
    BY <1>1, <2>1, <2>3 DEF DoneIsStored
  <2>5. \A k \in PageRecords : Settled(k)' => Settled(k)
    BY <1>1 DEF Settled
  <2>6. /\ \A k : (Patchable(k)' <=> Patchable(k)) /\ (OneRow(k)' <=> OneRow(k))
        /\ \A k : HasRow(k)' <=> HasRow(k)
        /\ Lacking' = Lacking
    BY <1>1 DEF HasRow, OneRow, Patchable, Lacking
  <2>7. Shown'
    <3> SUFFICES ASSUME ~FetchInFlight
                 PROVE  Shown'
      BY <1>5 DEF Shown
    <3>1. \A r \in requests' : Lacking # {} => Patchable(r.id)
      BY <1>1, <1>2, <1>3, <2>1 DEF Shown, Patchable
    <3> QED
      BY <1>1, <2>1, <2>3, <2>5, <2>6, <3>1 DEF Shown
  <2> QED
    BY <2>2, <2>4, <2>7
<1> QED
  BY <1>4, <1>6, <1>7 DEF RecordInv

(* What is left of the rows when the answer to a request has arrived.      *)
LEMMA RowsPatched ==
  ASSUME RecordShapes, NEW r \in requests, rowsShown' = Patched(r.op, r.id)
  PROVE  /\ rowsShown' \in SUBSET ShownRows
         /\ \A row \in rowsShown' : \E before \in rowsShown : before.id = row.id
         /\ \A id \in PageRecords : id # r.id => (HasRow(id)' <=> HasRow(id))
                                                 /\ (OneRow(id) => OneRow(id)')
         /\ \A row \in rowsShown' : row.id # r.id => row \in rowsShown
         /\ r.op # "delete" => /\ HasRow(r.id) => HasRow(r.id)'
                               /\ OneRow(r.id) => OneRow(r.id)'
                               /\ \A row \in rowsShown' :
                                    row.id = r.id => row.status = StatusAfter(r.op)
         /\ r.op = "delete" /\ pageKind # "memories" =>
              \A row \in rowsShown' : row.id # r.id
<1>1. r.op \in Operations /\ rowsShown \in SUBSET ShownRows
  BY DEF RecordShapes, ButtonRequests
<1>2. CASE r.op # "delete"
  <2> DEFINE status == StatusAfter(r.op)
             After(row) == IF row.id = r.id THEN [row EXCEPT !.status = status] ELSE row
  <2>1. rowsShown' = {After(row) : row \in rowsShown}
    BY <1>2 DEF Patched
  <2>2. status \in Partitions
    BY <1>1, <1>2, StatusesAfter
  <2> HIDE DEF status
  <2>3. ASSUME NEW row \in rowsShown
        PROVE  /\ After(row) \in ShownRows /\ After(row).id = row.id /\ After(row) \in rowsShown'
               /\ row.id # r.id => After(row) = row
               /\ row.id = r.id => After(row).status = status
    BY <1>1, <2>1, <2>2 DEF ShownRows
  <2> HIDE DEF After
  <2>4. \A row \in rowsShown' : \E before \in rowsShown : row = After(before)
    BY <2>1
  <2>5. rowsShown' \in SUBSET ShownRows
    BY <2>3, <2>4
  <2>6. \A row \in rowsShown' : \E before \in rowsShown : before.id = row.id
    BY <2>3, <2>4
  <2>7. \A id : (HasRow(id)' <=> HasRow(id)) /\ (OneRow(id) => OneRow(id)')
    BY <2>3, <2>4 DEF HasRow, OneRow
  <2>8. \A row \in rowsShown' : /\ row.id # r.id => row \in rowsShown
                                /\ row.id = r.id => row.status = status
    BY <2>3, <2>4
  <2> QED
    BY <1>2, <2>5, <2>6, <2>7, <2>8 DEF status
<1>3. CASE r.op = "delete"
  <2>1. rowsShown' \subseteq rowsShown
        /\ (\A row \in rowsShown : row.id # r.id => row \in rowsShown')
        /\ (pageKind # "memories" => \A row \in rowsShown' : row.id # r.id)
    BY <1>3 DEF Patched
  <2>2. \A id : /\ id # r.id => (HasRow(id)' <=> HasRow(id))
                /\ OneRow(id) => OneRow(id)'
    BY <2>1 DEF HasRow, OneRow
  <2> QED
    BY <1>1, <1>3, <2>1, <2>2
<1> QED
  BY <1>2, <1>3

LEMMA AnsweredStep ==
  ASSUME RecordInv, NEW r \in requests, RequestAnswered(r)
  PROVE  RecordInv'
<1>1. /\ r.answer \in {"done", "refused"} /\ requests' = requests \ {r}
      /\ rowsShown' = Patched(r.op, r.id) /\ UNCHANGED <<pageKind, stored, cutParts>>
      /\ IF Reloads(r.op) THEN \E slot \in Slots : StartFetch(slot)
         ELSE UNCHANGED <<fetches, pageLoading, pageError, failedParts>>
      /\ RecordShapes /\ r.op \in Operations /\ r.id \in PageRecords
      /\ pageKind \in PageKinds
  BY DEF RequestAnswered, RecordInv, RecordShapes, ButtonRequests
<1>2. /\ rowsShown' \in SUBSET ShownRows
      /\ \A row \in rowsShown' : \E before \in rowsShown : before.id = row.id
      /\ \A id \in PageRecords : id # r.id => (HasRow(id)' <=> HasRow(id))
                                              /\ (OneRow(id) => OneRow(id)')
      /\ \A row \in rowsShown' : row.id # r.id => row \in rowsShown
      /\ r.op # "delete" => /\ HasRow(r.id) => HasRow(r.id)'
                            /\ OneRow(r.id) => OneRow(r.id)'
                            /\ \A row \in rowsShown' :
                                 row.id = r.id => row.status = StatusAfter(r.op)
      /\ r.op = "delete" /\ pageKind # "memories" =>
           \A row \in rowsShown' : row.id # r.id
  BY <1>1, RowsPatched
<1>3. /\ fetches' \in [Slots -> [Partitions -> FetchAnswers]] /\ pageLoading' \in BOOLEAN
      /\ pageError' \in BOOLEAN /\ failedParts' \in SUBSET Partitions
      /\ pageLoading' => FetchInFlight'
  <2>1. CASE Reloads(r.op)
    BY <1>1, <2>1, Starting
  <2>2. CASE ~Reloads(r.op)
    BY <1>1, <2>2 DEF RecordInv, RecordShapes, AlwaysSo, FetchInFlight, Fetching
  <2> QED
    BY <2>1, <2>2
<1>4. disturbed' \in BOOLEAN
  BY DEF RequestAnswered, RecordInv, RecordShapes
<1>5. RecordShapes'
  BY <1>1, <1>2, <1>3, <1>4 DEF RecordShapes
<1>6. AlwaysSo'
  BY <1>1, <1>3 DEF RecordInv, AlwaysSo
<1>7. ASSUME ~disturbed'
      PROVE  Fetched' /\ DoneIsStored' /\ Shown'
  <2>1. /\ ~disturbed /\ r.answer = "done" /\ (Reloads(r.op) => ~FetchInFlight)
        /\ \A other \in requests' : other.id # r.id
    BY <1>1, <1>7 DEF RequestAnswered
  <2>2. Fetched /\ DoneIsStored /\ Shown
    BY <2>1 DEF RecordInv
  <2>3. Single(r)
    BY <1>1, <2>1 DEF Single
  <2>4. stored[r.id] = StatusAfter(r.op)
    BY <2>1, <2>2, <2>3 DEF DoneIsStored
  <2>5. \A q \in requests' : q \in requests /\ q.id # r.id /\ (Single(q)' => Single(q))
    BY <1>1, <2>1 DEF Single
  <2>6. DoneIsStored'
    BY <1>1, <2>2, <2>5 DEF DoneIsStored
  <2>7. CASE Reloads(r.op)
    <3>1. Fetched' /\ FetchInFlight'
      BY <1>1, <2>1, <2>7, Starting
    <3> QED
      BY <2>6, <3>1 DEF Shown
  <2>8. CASE ~Reloads(r.op)
    <3>1. UNCHANGED <<fetches, pageLoading, pageError, failedParts>>
      BY <1>1, <2>8
    <3>2. Fetched'
      BY <1>1, <2>2, <3>1 DEF Fetched, Fetching, PageAnswers, StoredIn, TwoLists
    <3>3. FetchInFlight' <=> FetchInFlight
      BY <3>1 DEF FetchInFlight, Fetching
    <3>4. Shown'
      <4> SUFFICES ASSUME ~FetchInFlight
                   PROVE  Shown'
        BY <3>3 DEF Shown
      <4>1. \A row \in rowsShown' : row.id \in PageRecords
        BY <1>2, <2>2 DEF Shown
      <4>2. \A q \in requests' : q.id \in PageRecords
        BY <1>1, <2>5 DEF RecordShapes, ButtonRequests
      <4>3. ASSUME NEW q \in requests'
            PROVE  /\ Lacking # {} => Patchable(q.id)'
                   /\ q.answer = "done" /\ Single(q)' /\ q.op # "delete"
                        => Patchable(q.id)' /\ OneRow(q.id)'
        BY <1>1, <1>2, <2>2, <2>5, <3>1, <4>2 DEF Shown, Patchable, Lacking
      <4>4. ASSUME NEW id \in PageRecords, Settled(id)'
            PROVE  /\ OneRow(id)' /\ \A row \in rowsShown' : row.id = id => row.status = stored[id]
                   /\ stored[id] \in Partitions \ Lacking => HasRow(id)'
        <5>1. CASE id # r.id
          <6>1. Settled(id)
            BY <1>1, <4>4, <5>1 DEF Settled
          <6>2. /\ OneRow(id) /\ \A row \in rowsShown : row.id = id => row.status = stored[id]
                /\ stored[id] \in Partitions \ Lacking => HasRow(id)
            BY <2>2, <6>1 DEF Shown
          <6> QED
            BY <1>2, <5>1, <6>2
        <5>2. CASE id = r.id /\ r.op # "delete"
          <6>1. Patchable(id) /\ OneRow(id)
            BY <2>1, <2>2, <2>3, <5>2 DEF Shown
          <6> QED
            BY <1>1, <1>2, <2>4, <5>2, <6>1 DEF Patchable, Lacking
        <5>3. CASE id = r.id /\ r.op = "delete"
          <6>1. pageKind # "memories"
            BY <2>8, <5>3 DEF Reloads, TwoLists
          <6>2. \A row \in rowsShown' : row.id # id
            BY <1>2, <5>3, <6>1
          <6>3. stored[id] = "gone" /\ "gone" \notin Partitions
            BY <1>1, <2>4, <5>3, StatusesAfter DEF Partitions
          <6> QED
            BY <6>2, <6>3 DEF OneRow
        <5> QED
          BY <5>1, <5>2, <5>3
      <4> QED
        BY <1>1, <3>1, <4>1, <4>3, <4>4 DEF Shown, Lacking
    <3> QED
      BY <2>6, <3>2, <3>4
  <2> QED
    BY <2>7, <2>8
<1> QED
  BY <1>5, <1>6, <1>7 DEF RecordInv

LEMMA RecordStep == RecordInv /\ [PageNext]_pageVars => RecordInv'
<1> SUFFICES ASSUME RecordInv, [PageNext]_pageVars
             PROVE  RecordInv'
  OBVIOUS
<1>1. CASE \E r \in requests : \/ \E refused \in BOOLEAN : ServeRequest(r, refused)
                               \/ RequestAnswered(r) \/ RequestFailed(r)
  BY <1>1, ServeStep, AnsweredStep, OvertakenStep
<1>2. CASE \E slot \in Slots, parts \in SUBSET Partitions, got \in {"rows", "error", "lost"} :
             ServeFetch(slot, parts, got)
  BY <1>2, FetchServedStep
<1>3. CASE \E slot \in Slots : RefreshRows(slot) \/ FetchArrives(slot)
  BY <1>3, RefreshStep, ArriveStep
<1>4. CASE \E op \in Operations, id \in PageRecords : Press(op, id)
  BY <1>4, PressStep
<1>5. CASE \E id \in PageRecords, status \in Partitions \cup {"gone"} : OthersChange(id, status)
  BY <1>5, OvertakenStep
<1>6. CASE UNCHANGED pageVars
  <2>1. UNCHANGED <<pageKind, stored, rowsShown, fetches, requests, pageLoading, pageError,
                    failedParts, cutParts, disturbed>>
    BY <1>6 DEF pageVars
  <2>2. RecordShapes' /\ AlwaysSo'
    BY <2>1 DEF RecordInv, RecordShapes, AlwaysSo, FetchInFlight, Fetching
  <2>3. ~disturbed => Fetched' /\ DoneIsStored'
    BY <2>1 DEF RecordInv, Fetched, Fetching, PageAnswers, StoredIn, TwoLists, DoneIsStored, Single
  <2>4. ~disturbed => Shown'
    BY <2>1 DEF RecordInv, Shown, FetchInFlight, Fetching, Settled, OneRow, HasRow, Single, Patchable, Lacking
  <2> QED
    BY <2>1, <2>2, <2>3, <2>4 DEF RecordInv
<1> QED
  BY <1>1, <1>2, <1>3, <1>4, <1>5, <1>6 DEF PageNext

LEMMA RecordInvariance == PageSpec => []RecordInv
BY PageStarts, RecordStep, PTL DEF PageSpec

(* The rows, the loads and the requests of a page have their types.        *)
THEOREM RecordPagesTyped == PageSpec => []PageTypeOK
<1>1. ASSUME RecordInv
      PROVE  PageTypeOK
  <2>1. RecordShapes
    BY <1>1 DEF RecordInv
  <2>2. \A slot \in Slots, p \in Partitions : fetches[slot][p] \in FetchAnswers
    BY <2>1 DEF RecordShapes
  <2>3. \A slot \in Slots, p \in Partitions :
          /\ fetches[slot][p].got \in {"none", "asked", "rows", "error", "lost"}
          /\ fetches[slot][p].ids \in SUBSET PageRecords /\ fetches[slot][p].cut \in BOOLEAN
    BY <2>2 DEF FetchAnswers
  <2>4. {pageLoading, pageError, disturbed} \subseteq BOOLEAN
    BY <2>1, Zenon DEF RecordShapes
  <2> QED
    BY <2>1, <2>3, <2>4 DEF RecordShapes, PageTypeOK, ShownRows, ButtonRequests
<1> QED
  BY <1>1, RecordInvariance, PTL

(* A page at rest that nothing has overtaken displays, in each list that   *)
(* did not fail, records the server has there, each once, and all of them  *)
(* if the limit did not cut the list.                                      *)
THEOREM PagesShowTheStore == PageSpec => []PageShowsStore
<1>1. ASSUME RecordInv
      PROVE  PageShowsStore
  <2> SUFFICES ASSUME ~FetchInFlight, requests = {}, ~disturbed,
                      NEW p \in Partitions, p \notin failedParts
               PROVE  /\ {row.id : row \in Displayed(p)} \subseteq StoredIn(p)
                      /\ p \notin cutParts => StoredIn(p) \subseteq {row.id : row \in Displayed(p)}
                      /\ \A row, other \in Displayed(p) : row.id = other.id => row = other
    BY DEF PageShowsStore
  <2>1. Fetched /\ Shown /\ ~pageLoading
    BY <1>1 DEF RecordInv, AlwaysSo
  <2>2. ~pageError
    BY <2>1 DEF Fetched
  <2>3. Displayed(p) = {row \in rowsShown : row.status = p}
    BY <2>1, <2>2 DEF Displayed
  <2>4. \A row \in rowsShown : row.id \in PageRecords
    BY <2>1 DEF Shown
  <2>5. \A id \in PageRecords :
          /\ OneRow(id) /\ \A row \in rowsShown : row.id = id => row.status = stored[id]
          /\ stored[id] \in Partitions \ Lacking => HasRow(id)
    BY <2>1 DEF Shown, Settled
  <2>6. \A row, other \in Displayed(p) : row.id = other.id => row = other
    BY <2>3, <2>4, <2>5 DEF OneRow
  <2>7. \A row \in Displayed(p) : row.id \in StoredIn(p)
    BY <2>3, <2>4, <2>5 DEF StoredIn
  <2>8. p \notin cutParts => \A id \in StoredIn(p) : \E row \in Displayed(p) : row.id = id
    BY <2>3, <2>5 DEF StoredIn, HasRow, Lacking
  <2> QED
    BY <2>6, <2>7, <2>8
<1> QED
  BY <1>1, RecordInvariance, PTL

=============================================================================
