----------------------------- MODULE PromptMessages -----------------------------
(* How the messages of a model call are put together: the recent messages    *)
(* and the evidence of a turn become a context packet, the packet is checked *)
(* against the user's message, and a packet that fails the check is replaced *)
(* by the older prompt, which holds no retrieved evidence. Turns of a chat   *)
(* overlap, and an answer is overwritten with its trace after it was saved.  *)
(* A text is the set of its words; a text is part of another as a subset.    *)
EXTENDS Naturals, Sequences

CONSTANTS PromptTurns,  \* the turns of the chat
          Questions,    \* the texts a user may send
          RecentLimit   \* so many recent messages are read

\* a message without text starts no turn
ASSUME QuestionsAssumption == {} \notin Questions /\ RecentLimit \in Nat \ {0}

VARIABLES dialogue,     \* the chat's messages in the database
          ask           \* the turns

promptVars == <<dialogue, ask>>

System == {"system prompt"}
Context == "retrieved context"
TraceComment == "trace"
Said(role, text) == [role |-> role, text |-> text]
Kinds == {"memory", "retrieved"}

\* a prompt: the texts of the system messages, what was said before, by its
\* places in the chat, and the user's message that ends it
NoPrompt == [system |-> {}, said |-> <<>>, user |-> {}]

NotAsked == [step |-> "none", question |-> {}, at |-> 0, recent |-> <<>>, held |-> {},
             prompt |-> NoPrompt, answerAt |-> 0]

Turned(t, record) == ask' = [ask EXCEPT ![t] = record]

\* the newest messages of the chat up to a place, by their places
Newest(upTo) ==
  LET first == IF upTo > RecentLimit THEN upTo - RecentLimit + 1 ELSE 1 IN
  [i \in first .. upTo |-> dialogue[i]]

-----------------------------------------------------------------------------
(* The packet.                                                             *)

\* a recent message that says what the user just said counts as the latest
IsLatest(m, t) == m.role = "user" /\ m.text = ask[t].question

\* Mutant: the newest of the recent messages is taken for the latest
BugOlder(t) == {i \in DOMAIN ask[t].recent : \E j \in DOMAIN ask[t].recent : j > i}

\* where the recent messages other than the latest are
Older(t) == {i \in DOMAIN ask[t].recent : ~IsLatest(ask[t].recent[i], t)}

\* the newest messages that fit, without the latest one
IsSuffix(kept, t) == \A i \in kept, j \in Older(t) : j > i => j \in kept

\* long-term memory joins the system message, other evidence the question
PacketMessages(t, kept, held) ==
  [system |-> {System \cup (held \cap {"memory"})},
   said |-> [i \in kept |-> ask[t].recent[i]],
   user |-> ask[t].question \cup (IF "retrieved" \in held THEN {Context} ELSE {})]

-----------------------------------------------------------------------------
(* The check.                                                              *)

Asks(m, q) == m.role = "user" /\ q \subseteq m.text

\* the question is asked once, and last; no message is blank
ValidMessages(messages, q) ==
  /\ {} \notin messages.system \cup {messages.user}
  /\ \A i \in DOMAIN messages.said : messages.said[i].text # {} /\ ~Asks(messages.said[i], q)
  /\ q \subseteq messages.user

\* the older prompt: the chat's own memory and what was said before
LegacyMessages(t, hasState) ==
  [system |-> IF hasState THEN {System, {"memory"}} ELSE {System},
   said |-> Newest(ask[t].at - 1), user |-> ask[t].question]

-----------------------------------------------------------------------------
(* A turn.                                                                 *)

Ask(t, q) ==
  /\ ask[t].step = "none"
  /\ dialogue' = Append(dialogue, Said("user", q))
  /\ Turned(t, [ask[t] EXCEPT !.step = "retrieve", !.question = q, !.at = Len(dialogue) + 1])

\* the recent messages are those there are now, later ones included
RetrieveRecent(t) ==
  /\ ask[t].step = "retrieve"
  /\ Turned(t, [ask[t] EXCEPT !.step = "pack", !.recent = Newest(Len(dialogue))])
  /\ UNCHANGED dialogue

\* the selection keeps some of the newest messages and of the evidence
BuildPacket(t) ==
  /\ ask[t].step = "pack"
  /\ \E kept \in SUBSET Older(t), held \in SUBSET Kinds :
       /\ IsSuffix(kept, t)
       /\ Turned(t, [ask[t] EXCEPT !.step = "check", !.held = held,
                                   !.prompt = PacketMessages(t, kept, held)])
  /\ UNCHANGED dialogue

\* an invalid packet gives way to the older prompt
AssemblePrompt(t) ==
  /\ ask[t].step = "check"
  /\ \E hasState \in BOOLEAN :
       Turned(t, [ask[t] EXCEPT !.step = "answer", !.prompt =
         IF ValidMessages(@, ask[t].question) THEN @ ELSE LegacyMessages(t, hasState)])
  /\ UNCHANGED dialogue

\* the model may answer with nothing
SaveReply(t, text) ==
  /\ ask[t].step = "answer"
  /\ dialogue' = Append(dialogue, Said("assistant", text))
  /\ Turned(t, [NotAsked EXCEPT !.step = "trace", !.answerAt = Len(dialogue) + 1])

\* the browser's handler overwrites the answer with the traced one
EmbedTrace(t) ==
  /\ ask[t].step = "trace"
  /\ dialogue' = [dialogue EXCEPT ![ask[t].answerAt].text = @ \cup {TraceComment}]
  /\ Turned(t, [NotAsked EXCEPT !.step = "done"])

PromptInit == dialogue = <<>> /\ ask = [t \in PromptTurns |-> NotAsked]

PromptNext ==
  \E t \in PromptTurns :
    \/ \E q \in Questions : Ask(t, q)
    \/ RetrieveRecent(t) \/ BuildPacket(t) \/ AssemblePrompt(t)
    \/ \E text \in {{}, {"answer"}} : SaveReply(t, text)
    \/ EmbedTrace(t)

PromptSpec == PromptInit /\ [][PromptNext]_promptVars

PromptLines(words) == [role : {"system", "user", "assistant"}, text : SUBSET words]
PromptTypeOK ==
  LET words == (UNION Questions) \cup System \cup {Context, TraceComment, "memory", "answer"} IN
  /\ \A i \in 1 .. Len(dialogue) : dialogue[i] \in PromptLines(words)
  /\ \A t \in PromptTurns :
       /\ ask[t].step \in {"none", "retrieve", "pack", "check", "answer", "trace", "done"}
       /\ ask[t].held \subseteq Kinds /\ {ask[t].at, ask[t].answerAt} \subseteq 0 .. Len(dialogue)
       /\ ask[t].prompt.system \in SUBSET SUBSET words /\ ask[t].prompt.user \in SUBSET words
       /\ \A i \in DOMAIN ask[t].prompt.said : ask[t].prompt.said[i] \in PromptLines(words)

-----------------------------------------------------------------------------

\* what makes the check refuse a packet: a blank answer, or another message
\* of the user that holds the question within a longer text
Misleading(m, q) == m.text = {} \/ (m.role = "user" /\ q \subseteq m.text /\ q # m.text)

(* Whatever the turns of a chat overlap, the model is asked the user's own  *)
(* question, last, and it is given the evidence that was selected for it,   *)
(* repeated questions included. The exception is a chat whose recent        *)
(* messages hold a blank answer, or the question as part of a longer        *)
(* message of the user: then the evidence is dropped with the packet.       *)
EvidenceReachesTheModel ==
  \A t \in PromptTurns : ask[t].step = "answer" =>
    /\ ask[t].question \subseteq ask[t].prompt.user
    /\ (\A i \in DOMAIN ask[t].recent : ~Misleading(ask[t].recent[i], ask[t].question)) =>
         /\ "retrieved" \in ask[t].held => Context \in ask[t].prompt.user
         /\ "memory" \in ask[t].held => \E text \in ask[t].prompt.system :
                                          System \cup {"memory"} \subseteq text

=============================================================================
