------------------------------- MODULE EvalLedger -------------------------------
(***************************************************************************)
(* What an evaluation directory promises to whoever pays for its model     *)
(* calls: a ledger of the answers a model gave and of the verdicts of the  *)
(* judges, each entry at its place in the file, to which entries are only  *)
(* added.  As long as every invocation resumes, a question is answered     *)
(* once and an answer is judged once by each judge; an answer was asked on *)
(* a history that was replayed once, unless a failure excuses it; and a    *)
(* verdict is about an answer of the ledger, reply and history alike,      *)
(* unless the answers were given from elsewhere.                           *)
(***************************************************************************)
EXTENDS Naturals

VARIABLES
  answers,   \* entries [at, case, config, reply, replays, excused]
  verdicts,  \* entries [at, case, config, reply, replays, excused, judge]
  given,     \* the answers are those of another ledger
  waived     \* an invocation was told to ignore the ledger

ledgerVars == <<answers, verdicts, given, waived>>

LInit == answers = {} /\ verdicts = {} /\ given \in BOOLEAN /\ waived = FALSE

SameQuestionAs(entry, other) == entry.case = other.case /\ entry.config = other.config

\* the verdict is about what the answer says, and where it was asked
IsAbout(verdict, answer) ==
  /\ SameQuestionAs(verdict, answer) /\ verdict.reply = answer.reply
  /\ verdict.replays = answer.replays /\ verdict.excused = answer.excused

\* entries are added at the end
IsLast(at) == \A entry \in answers \cup verdicts : entry.at < at

Answer(answer) ==
  /\ ~given /\ IsLast(answer.at)
  /\ waived \/ \A other \in answers : ~SameQuestionAs(answer, other)
  /\ answer.excused \/ answer.replays = 1
  /\ answers' = answers \cup {answer}
  /\ UNCHANGED <<verdicts, given, waived>>

Grade(verdict) ==
  /\ IsLast(verdict.at)
  /\ given \/ \E answer \in answers : IsAbout(verdict, answer)
  /\ waived \/ \A other \in verdicts :
                 ~(SameQuestionAs(verdict, other) /\ verdict.judge = other.judge)
  /\ verdicts' = verdicts \cup {verdict}
  /\ UNCHANGED <<answers, given, waived>>

Waive == waived' = TRUE /\ UNCHANGED <<answers, verdicts, given>>

LNext == \/ \E answer \in answers' : Answer(answer)
         \/ \E verdict \in verdicts' : Grade(verdict)
         \/ Waive
LSpec == LInit /\ [][LNext]_ledgerVars

=============================================================================
