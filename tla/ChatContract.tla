----------------------------- MODULE ChatContract -----------------------------
(***************************************************************************)
(* What the application promises about one chat, whatever runs inside it   *)
(* (DATA_LIFECYCLE.md, actions/.doc.md): messages enter only an active     *)
(* chat, one at a time; finalized messages stay finalized; a chat ends     *)
(* only when every message is finalized, and may be reopened; deletion     *)
(* removes everything and a deleted chat starts empty.                     *)
(***************************************************************************)
EXTENDS Naturals

VARIABLES
  chat,    \* "absent", "active" or "inactive"
  msgs,    \* messages of the chat
  final    \* messages that are part of the episodic memory

cvars == <<chat, msgs, final>>

CInit == chat = "active" /\ msgs = {} /\ final = {}

Post == /\ chat = "active"
        /\ \E m \in msgs' \ msgs : msgs' = msgs \cup {m}
        /\ UNCHANGED <<chat, final>>

Finalize == /\ final \subseteq final'
            /\ final' \subseteq msgs
            /\ UNCHANGED <<chat, msgs>>

EndChat == /\ chat = "active"
           /\ msgs \subseteq final
           /\ chat' = "inactive"
           /\ UNCHANGED <<msgs, final>>

Reopen == /\ chat = "inactive"
          /\ chat' = "active"
          /\ UNCHANGED <<msgs, final>>

Remove == /\ chat # "absent"
          /\ chat' = "absent" /\ msgs' = {} /\ final' = {}

Create == /\ chat = "absent"
          /\ chat' = "active"
          /\ UNCHANGED <<msgs, final>>

CNext == Post \/ Finalize \/ EndChat \/ Reopen \/ Remove \/ Create

CSpec == CInit /\ [][CNext]_cvars
=============================================================================
