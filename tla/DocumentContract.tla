--------------------------- MODULE DocumentContract ---------------------------
(***************************************************************************)
(* What the application promises about uploaded documents, whatever fails, *)
(* is retried or crashes inside it (documents/.doc.md,                     *)
(* Database.claim_document_upload): an upload takes effect at most once    *)
(* for its operation id; a document becomes Ready and, unless its file is  *)
(* blank, searchable at once, and stays so until a route of the API        *)
(* touches it; a client is told "Indexed" only of a Ready document of its  *)
(* file, which is then one of its chat.                                    *)
(***************************************************************************)
CONSTANTS Chats, Files, Blank, Docs, None

VARIABLES
  claims,      \* the document of each operation id
  shown,       \* what the registry shows of each document
  file,        \* the file each document was made of
  searchable,  \* Ready documents a search can find
  linked,      \* which chat may search which document
  told         \* what clients were told

dvars == <<claims, shown, file, searchable, linked, told>>

Known(d) == shown[d] \in {"pending", "ready", "withdrawn"}
Show(d, s) == shown' = [shown EXCEPT ![d] = s]

DInit == /\ claims = [k \in Chats \X Files |-> None]
         /\ shown = [d \in Docs |-> "unknown"] /\ file = [d \in Docs |-> None]
         /\ searchable = {} /\ linked = {} /\ told = {}

\* a document of its own, for an operation id that has none or without an id
Accept(c, f, d) ==
  /\ shown[d] = "unknown" /\ Show(d, "pending")
  /\ file' = [file EXCEPT ![d] = f]
  /\ \/ claims[<<c, f>>] = None /\ claims' = [claims EXCEPT ![<<c, f>>] = d]
     \/ UNCHANGED claims
  /\ UNCHANGED <<searchable, linked, told>>

\* the retry of an upload whose document was withdrawn
Resume(d) == /\ shown[d] = "withdrawn" /\ \E k \in Chats \X Files : claims[k] = d
             /\ Show(d, "pending")
             /\ UNCHANGED <<claims, file, searchable, linked, told>>

Publish(d) == /\ shown[d] = "pending" /\ Show(d, "ready")
              /\ searchable' = IF file[d] \in Blank THEN searchable
                                                   ELSE searchable \cup {d}
              /\ UNCHANGED <<claims, file, linked, told>>

Associate(c, d) == /\ Known(d) /\ linked' = linked \cup {<<c, d>>}
                   /\ UNCHANGED <<claims, shown, file, searchable, told>>

Tell(c, f, k, d) ==
  /\ shown[d] = "ready" /\ file[d] = f /\ (k => claims[<<c, f>>] = d)
  /\ told' = told \cup {[chat |-> c, file |-> f, keyed |-> k, doc |-> d]}
  /\ linked' = linked \cup {<<c, d>>}
  /\ UNCHANGED <<claims, shown, file, searchable>>

Withdraw(d) == /\ Known(d) /\ Show(d, "withdrawn")
               /\ searchable' = searchable \ {d}
               /\ UNCHANGED <<claims, file, linked, told>>

\* the route restores what was never indexed, too
Restore(d) == /\ Known(d) /\ Show(d, "ready")
              /\ searchable' \in {searchable, searchable \cup {d}}
              /\ UNCHANGED <<claims, file, linked, told>>

\* a document is removed in two steps: from the index, then from the registry
Purge(d) == /\ Known(d) /\ searchable' = searchable \ {d}
            /\ UNCHANGED <<claims, shown, file, linked, told>>

Remove(d) == /\ Known(d) /\ Show(d, "removed")
             /\ searchable' = searchable \ {d}
             /\ linked' = {l \in linked : l[2] # d}
             /\ UNCHANGED <<claims, file, told>>

Forget(c) == /\ linked' = {l \in linked : l[1] # c}
             /\ UNCHANGED <<claims, shown, file, searchable, told>>

DNext == \/ \E c \in Chats : Forget(c) \/ \E d \in Docs : Associate(c, d)
         \/ \E d \in Docs : \/ Purge(d) \/ Resume(d) \/ Publish(d)
                            \/ \E c \in Chats, f \in Files : Accept(c, f, d)
                            \/ Withdraw(d) \/ Restore(d) \/ Remove(d)
         \/ \E c \in Chats, f \in Files, k \in BOOLEAN, d \in Docs : Tell(c, f, k, d)

DSpec == DInit /\ [][DNext]_dvars
=============================================================================
