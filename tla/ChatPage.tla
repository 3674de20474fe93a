-------------------------------- MODULE ChatPage --------------------------------
(* The chat page of the React frontend: the session it opens for the chat in *)
(* its address, the file attached to the next message, and the buttons whose *)
(* requests end in a navigation wherever the user has gone meanwhile. Every  *)
(* address has a mount of its own; what a request or an upload of an earlier *)
(* mount sets is lost. The client library's atoms, its session and the       *)
(* connections it is still preparing outlive the mounts.                     *)
EXTENDS Naturals, FiniteSets

CONSTANTS PageChats, \* the chats that have a page
          Files,     \* the files a user may attach
          NoThread,  \* the chat of a page that names none: a new one
          Away,      \* any other page
          NoFile

VARIABLES address,   \* the page that is open
          atoms,     \* the library's session and the thread it will resume
          hook,      \* how far the mount's effect has come with its connection
          link,      \* the session's connection, and whether the mount opened it
          late,      \* the threads whose connections earlier mounts still prepare
          attached,  \* the attachment as the page shows it
          uploads,   \* the mount's uploads in flight
          mixed,     \* whether one of them was begun for an earlier attachment
          taskRuns, consolidates,
          navigators, \* the requests whose answers navigate
          typed,     \* whether there is text in the input
          lastSent   \* the message sent last: as shown and as sent

chatPageVars == <<address, atoms, hook, link, late, attached, uploads, mixed, taskRuns,
                  consolidates, navigators, typed, lastSent>>
connectionVars == <<address, atoms, hook, link, late>>

ResumeThreads == PageChats \cup {NoThread}
Addresses == ResumeThreads \cup {Away}
LinkSteps == {"none", "opening", "on", "lost"}
HookSteps == {"waiting", "pending", "firing", "loose", "over"}
NoLink == [step |-> "none", to |-> NoThread, own |-> FALSE]
NothingSent == [address |-> Away, thread |-> Away, own |-> FALSE, file |-> NoFile,
                ref |-> NoFile, failed |-> FALSE, mixed |-> FALSE]

Attachment == [file : Files, ref : Files \cup {NoFile}, failed : BOOLEAN]
Attached == attached # NoFile

-----------------------------------------------------------------------------
(* Mounts and connections.                                                 *)

\* The effect connects once. Only the run that connects leaves a cleanup, which
\* cancels the pending connect and closes the session of that time; the next run,
\* after any change of the session, performs it and returns early without another.
CleanupLeft == hook \in {"pending", "firing"}
AfterRerun == CASE hook = "pending" -> "over" [] hook = "firing" -> "loose" [] OTHER -> hook

\* Mutant: the chat pages share one mount, which has connected already
BugGoto(to) ==
  /\ address' = to
  /\ IF to = address \/ {to, address} \subseteq ResumeThreads
     THEN UNCHANGED <<hook, link, late, attached, uploads, mixed, typed, consolidates, atoms>>
     ELSE /\ hook' = "waiting" /\ atoms' = [atoms EXCEPT !.ours = FALSE]
          /\ link' = IF CleanupLeft THEN NoLink ELSE [link EXCEPT !.own = FALSE]
          /\ late' = late \cup (IF hook \in {"firing", "loose"} THEN {atoms.resume} ELSE {})
          /\ attached' = NoFile /\ uploads' = {} /\ mixed' = FALSE /\ typed' = FALSE
          /\ consolidates' = (consolidates /\ to # Away /\ address # Away)

\* the page is another mount: its state is new, and the connection the library
\* already prepares for the one before is made all the same; the overlay of a
\* consolidation belongs to the chat pages together
Goto(to) ==
  /\ address' = to
  /\ IF to = address
     THEN UNCHANGED <<hook, link, late, attached, uploads, mixed, typed, consolidates, atoms>>
     ELSE /\ hook' = "waiting" /\ atoms' = [atoms EXCEPT !.ours = FALSE]
          /\ link' = IF CleanupLeft THEN NoLink ELSE [link EXCEPT !.own = FALSE]
          /\ late' = late \cup (IF hook \in {"firing", "loose"} THEN {atoms.resume} ELSE {})
          /\ attached' = NoFile /\ uploads' = {} /\ mixed' = FALSE /\ typed' = FALSE
          /\ consolidates' = (consolidates /\ to # Away /\ address # Away)

Visit(to) == Goto(to) /\ to # address /\ UNCHANGED <<taskRuns, navigators, lastSent>>

\* the mount's session identifier, and the thread of its address
AtomsAre(thread) == atoms.ours /\ atoms.resume = thread

\* the effect sets the atoms and waits for them before it asks for a connection
ConnectEffect ==
  /\ address # Away /\ hook = "waiting"
  /\ IF ~AtomsAre(address)
     THEN atoms' = [ours |-> TRUE, resume |-> address] /\ UNCHANGED hook
     ELSE hook' = "pending" /\ UNCHANGED atoms
  /\ UNCHANGED <<address, link, late, attached, uploads, mixed, taskRuns, consolidates,
                 navigators, typed, lastSent>>

\* the debounced connect begins, and can no longer be cancelled
ConnectFires ==
  /\ hook = "pending" /\ hook' = "firing"
  /\ UNCHANGED <<address, atoms, link, late, attached, uploads, mixed, taskRuns,
                 consolidates, navigators, typed, lastSent>>

\* its socket takes the place of the session's, which is closed
SessionReplaced ==
  /\ hook \in {"firing", "loose"} /\ hook' = "over"
  /\ link' = [step |-> "opening", to |-> atoms.resume, own |-> TRUE]
  /\ UNCHANGED <<address, atoms, late, attached, uploads, mixed, taskRuns, consolidates,
                 navigators, typed, lastSent>>

\* so does that of an earlier page, and a connect that is pending is cancelled
LateSession(thread) ==
  /\ thread \in late /\ late' = late \ {thread}
  /\ link' = [step |-> "opening", to |-> thread, own |-> FALSE] /\ hook' = AfterRerun
  /\ UNCHANGED <<address, atoms, attached, uploads, mixed, taskRuns, consolidates,
                 navigators, typed, lastSent>>

\* the connection opens, breaks, or opens again, and the session may change with
\* it; a task's end may be missed
LinkChanges(step, noticed) ==
  /\ link.step # "none" /\ (step = "on") # (link.step = "on") /\ (step = "on" => noticed)
  /\ IF noticed THEN hook' = AfterRerun ELSE UNCHANGED hook
  /\ link' = IF noticed /\ CleanupLeft THEN NoLink ELSE [link EXCEPT !.step = step]
  /\ taskRuns' \in {taskRuns, taskRuns /\ step = "lost"}
  /\ UNCHANGED <<address, atoms, late, attached, uploads, mixed, consolidates, navigators,
                 typed, lastSent>>

Connected == link.step = "on"
TaskChanges ==
  /\ Connected /\ taskRuns' = ~taskRuns
  /\ UNCHANGED <<connectionVars, attached, uploads, mixed, consolidates, navigators,
                 typed, lastSent>>

-----------------------------------------------------------------------------
(* The attachment and the message.                                         *)

\* the dialog may be left open while the state its button asked for changes
PickFile(f) ==
  /\ address # Away /\ f \notin uploads
  /\ attached' = [file |-> f, ref |-> NoFile, failed |-> FALSE]
  /\ uploads' = uploads \cup {f} /\ mixed' = (uploads # {})
  /\ UNCHANGED <<connectionVars, taskRuns, consolidates, navigators, typed, lastSent>>

RemoveFile ==
  /\ Attached /\ attached' = NoFile
  /\ UNCHANGED <<connectionVars, uploads, mixed, taskRuns, consolidates, navigators,
                 typed, lastSent>>

\* an upload that ends is entered into the attachment there is, if any
UploadEnds(f, failed) ==
  /\ f \in uploads /\ uploads' = uploads \ {f}
  /\ attached' = IF ~Attached THEN NoFile
                 ELSE IF failed THEN [attached EXCEPT !.failed = TRUE]
                 ELSE [attached EXCEPT !.ref = f]
  /\ UNCHANGED <<connectionVars, mixed, taskRuns, consolidates, navigators, typed,
                 lastSent>>

Type ==
  /\ address # Away /\ Connected /\ typed' = ~typed
  /\ UNCHANGED <<connectionVars, attached, uploads, mixed, taskRuns, consolidates,
                 navigators, lastSent>>

Uploading == Attached /\ attached.ref = NoFile /\ ~attached.failed
Ref == IF Attached THEN attached.ref ELSE NoFile

\* the button asks for text and for no running task, the Enter key for neither
SendTyped ==
  /\ address # Away /\ Connected /\ ~Uploading /\ (typed \/ Ref # NoFile)
  /\ lastSent' = [address |-> address, thread |-> link.to, own |-> link.own,
                  file |-> IF Attached THEN attached.file ELSE NoFile, ref |-> Ref,
                  failed |-> Attached /\ attached.failed, mixed |-> mixed]
  /\ typed' = FALSE /\ attached' = NoFile
  /\ UNCHANGED <<connectionVars, uploads, mixed, taskRuns, consolidates, navigators>>

-----------------------------------------------------------------------------
(* The buttons.                                                            *)

ButtonsEnabled == Connected /\ ~taskRuns /\ ~consolidates /\ address \in PageChats

PressNavigator(op) ==
  /\ ButtonsEnabled /\ navigators' = navigators \cup {[op |-> op, chat |-> address]}
  /\ UNCHANGED <<connectionVars, attached, uploads, mixed, taskRuns, consolidates,
                 typed, lastSent>>

\* an ended chat's page gives way to the list, a forked one's to the copy
NavigatorAnswered(n, copy, failed) ==
  /\ n \in navigators /\ navigators' = navigators \ {n}
  /\ IF failed
     THEN UNCHANGED <<connectionVars, attached, uploads, mixed, typed, consolidates>>
     ELSE Goto(IF n.op = "end" THEN Away ELSE copy)
  /\ UNCHANGED <<taskRuns, lastSent>>

Consolidate ==
  /\ IF consolidates THEN consolidates' = FALSE ELSE ButtonsEnabled /\ consolidates' = TRUE
  /\ UNCHANGED <<connectionVars, attached, uploads, mixed, taskRuns, navigators,
                 typed, lastSent>>

-----------------------------------------------------------------------------

ChatPageInit ==
  /\ address = Away /\ atoms = [ours |-> FALSE, resume |-> NoThread]
  /\ hook = "waiting" /\ link = NoLink /\ late = {}
  /\ attached = NoFile /\ uploads = {} /\ mixed = FALSE
  /\ taskRuns = FALSE /\ consolidates = FALSE /\ navigators = {} /\ typed = FALSE
  /\ lastSent = NothingSent

ChatPageNext ==
  \/ ConnectEffect \/ ConnectFires \/ SessionReplaced \/ TaskChanges \/ RemoveFile \/ Type
  \/ SendTyped \/ Consolidate
  \/ \E to \in Addresses : Visit(to)
  \/ \E thread \in late : LateSession(thread)
  \/ \E step \in {"on", "lost"}, noticed \in BOOLEAN : LinkChanges(step, noticed)
  \/ \E f \in Files : PickFile(f) \/ \E failed \in BOOLEAN : UploadEnds(f, failed)
  \/ \E op \in {"end", "fork"} : PressNavigator(op)
  \/ \E n \in navigators, copy \in PageChats, failed \in BOOLEAN :
       NavigatorAnswered(n, copy, failed)

ChatPageSpec == ChatPageInit /\ [][ChatPageNext]_chatPageVars

ChatPageTypeOK ==
  /\ address \in Addresses /\ atoms \in [ours : BOOLEAN, resume : ResumeThreads]
  /\ hook \in HookSteps /\ late \in SUBSET ResumeThreads
  /\ link \in [step : LinkSteps, to : ResumeThreads, own : BOOLEAN]
  /\ attached \in Attachment \cup {NoFile} /\ uploads \in SUBSET Files
  /\ {mixed, taskRuns, consolidates, typed} \subseteq BOOLEAN
  /\ navigators \in SUBSET [op : {"end", "fork"}, chat : PageChats]
  /\ lastSent \in [address : Addresses, thread : ResumeThreads \cup {Away},
                   own : BOOLEAN, file : Files \cup {NoFile}, ref : Files \cup {NoFile},
                   failed : BOOLEAN, mixed : BOOLEAN]

(* Wherever users go while connections open and requests are answered, a   *)
(* message sent on the connection its own page opened goes to the chat of  *)
(* that page, and is sent with the file the page shows, unless the page     *)
(* shows that its upload failed. It may go to the chat of an earlier page   *)
(* while that one's connection is still the session's, before the page has  *)
(* opened its own or after an earlier page's was opened late; and its file  *)
(* may be another while the upload of an earlier attachment of the page is  *)
(* in flight.                                                               *)
SentAsShown ==
  /\ lastSent.own => lastSent.thread = lastSent.address
  /\ ~lastSent.mixed => lastSent.ref = IF lastSent.failed THEN NoFile ELSE lastSent.file

=============================================================================
