--------------------------- MODULE MCDocumentUpload ---------------------------
(* Small instances of DocumentUpload for TLC. *)
EXTENDS DocumentUpload, TLC

CONSTANTS c1, c2, f1, f2, d1, d2, d3, t1

TwoChats == {c1, c2}
OneChat == {c1}
TwoFiles == {f1, f2}
OneFile == {f1}
TwoDocs == {d1, d2}
OneTurn == {t1}

\* chats, files and documents are named by no definition
Symmetric == Permutations(TwoChats) \cup Permutations(TwoDocs)

\* a turn changes nothing outside itself, and about documents that a route has
\* touched no property of it says anything: turns are tried while one is left
TurnsTried == (\E t \in Turns : turns'[t] # NoTurn) => ~(Docs \subseteq managed')

\* a blank file is tried with an operation id, and next to uploads of the other
\* file into the same chat
ChatsUsed == {k[1] : k \in {key \in DOMAIN operations : operations[key] # None}}
               \cup {l[1] : l \in links} \cup (Chats \ chats)
BlankKnown == \E k \in Chats \X Blank : operations[k] # None
FilesTried ==
  job' # None => /\ job'.file \in Blank => job'.keyed
                 /\ job'.file \in Blank \/ BlankKnown => ChatsUsed \subseteq {job'.chat}

TriedSpec == Init /\ [][Next /\ TurnsTried /\ FilesTried]_vars

=============================================================================
