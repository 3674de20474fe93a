-------------------------------- MODULE EvalRun --------------------------------
(***************************************************************************)
(* The answer evaluations (mab_answer_eval, longmemeval_answer_eval): a    *)
(* run generates an answer for each case and has a judge grade it; every   *)
(* step appends a row to results.jsonl, and a run with --resume reads the  *)
(* rows back instead of paying for an answer or a verdict again.  A run    *)
(* may fail at a case, stop at the first failure, or crash anywhere, also  *)
(* in the middle of a row.                                                 *)
(*                                                                         *)
(* A suite is one output directory: "shared" prepares a history once for   *)
(* all its cases (MAB), "own" replays it for each case (LongMemEval), and  *)
(* "frozen" only judges the answers of another directory.                  *)
(***************************************************************************)
EXTENDS Naturals, Sequences, FiniteSets

CONSTANTS
  Cases,      \* in the order of their numbers
  HistoryOf,  \* the history a case asks about
  Judges,
  AppConfigs, \* configurations with different hashes
  Written,    \* what the model may answer
  Unwritten,  \* no answer
  MaxRows,    \* bound: rows of the file
  MaxRuns     \* bound: invocations

ASSUME EvalAssumption == /\ Cases \subseteq Nat \ {0} /\ MaxRows \in Nat /\ MaxRuns \in Nat
                         /\ AppConfigs # {} /\ Written # {} /\ Unwritten \notin Written

VARIABLES
  suite,
  results,   \* results.jsonl
  torn,      \* its last line is incomplete
  forgetful, \* some run ignored rows that were there
  job,       \* the invocation: its options, prior_rows and the case it is at
  replayed,  \* how often a history was replayed into its working.db
  snapshots, \* how often it had been replayed when it was copied, or 0
  report     \* the rows the summary was last made from

evalVars == <<suite, results, torn, forgetful, job, replayed, snapshots, report>>

EvalHistories == {HistoryOf[case] : case \in Cases}
NoKey == [judge |-> 0, reply |-> Unwritten]
NoRecord == [case |-> 0]
NoJob == [state |-> "off", number |-> 0, resume |-> FALSE, failFast |-> FALSE, judge |-> 0,
         config |-> 0, prior |-> <<>>, left |-> {}, record |-> NoRecord, stumbled |-> {}]

EvalInit ==
  /\ suite \in {"shared", "own", "frozen"} /\ results = <<>> /\ torn = FALSE
  /\ forgetful = FALSE /\ job = NoJob /\ report = <<>>
  /\ replayed = [h \in EvalHistories |-> 0] /\ snapshots = [h \in EvalHistories |-> 0]

-----------------------------------------------------------------------------
(* Rows and keys.                                                          *)

\* the case the job is at: the first of those that are left
Case == CHOOSE case \in job.left : \A c \in job.left : case <= c
LastOf(indices) == CHOOSE n \in indices : \A m \in indices : m <= n

\* base_record; config stands for the answer key, key for the judge key
BaseRecord == [case |-> Case, config |-> job.config, reply |-> Unwritten, replays |-> 0,
               excused |-> FALSE, judge |-> job.judge, key |-> NoKey, status |-> "new"]
JudgeKey(record) == [judge |-> job.judge, reply |-> record.reply]

Lookup(indices) == IF indices = {} THEN NoRecord ELSE job.prior[LastOf(indices)]

\* Mutant: only an answer that was graded is reused
BugFindAnswer(case) ==
  Lookup({i \in DOMAIN job.prior : /\ job.prior[i].case = case
            /\ job.prior[i].config = job.config /\ job.prior[i].status = "completed"})

\* find_answer: the last answer to the case under this configuration
FindAnswer(case) ==
  Lookup({i \in DOMAIN job.prior : /\ job.prior[i].case = case
            /\ job.prior[i].config = job.config /\ job.prior[i].reply # Unwritten})

\* the answers judge-only starts from
FrozenReply == CHOOSE reply \in Written : TRUE
FrozenAnswer == [BaseRecord EXCEPT !.reply = FrozenReply, !.status = "answer_completed"]
Cached == IF suite = "frozen" THEN FrozenAnswer
          ELSE IF job.resume THEN FindAnswer(Case) ELSE NoRecord

\* find_completed_judge
Graded(record) ==
  \E i \in DOMAIN job.prior : /\ job.prior[i].case = Case /\ job.prior[i].config = job.config
                              /\ job.prior[i].key = JudgeKey(record)
                              /\ job.prior[i].status = "completed"

\* latest_results: the identity of a row is its case, whatever the judge
Latest(seq) ==
  [n \in 1 .. Cardinality({seq[i].case : i \in DOMAIN seq}) |->
     LET firsts == {i \in DOMAIN seq : \A j \in 1 .. i - 1 : seq[j].case # seq[i].case}
         first == CHOOSE i \in firsts : Cardinality({j \in firsts : j < i}) = n - 1 IN
     seq[LastOf({i \in DOMAIN seq : seq[i].case = seq[first].case})]]

-----------------------------------------------------------------------------
(* A job.                                                                  *)

\* append_jsonl and prior_rows.append
Appended(record) == /\ Len(results) < MaxRows /\ results' = Append(results, record)
                    /\ UNCHANGED <<suite, torn, forgetful>>

\* a file with an incomplete line cannot be resumed from
Invoke(judge, config, resume, failFast) ==
  /\ job.state = "off" /\ job.number < MaxRuns /\ (resume => ~torn)
  /\ job' = [NoJob EXCEPT !.state = "case", !.number = job.number + 1, !.resume = resume,
               !.failFast = failFast, !.judge = judge, !.config = config,
               !.prior = IF resume THEN results ELSE <<>>, !.left = Cases]
  /\ forgetful' = (forgetful \/ (~resume /\ (results # <<>> \/ torn)))
  /\ UNCHANGED <<suite, results, torn, replayed, snapshots, report>>

\* the application hash of the run is part of every answer key; the answers
\* judge-only reads bring theirs
StartShared(judge, config, resume, failFast) ==
  suite = "shared" /\ Invoke(judge, config, resume, failFast)
StartOwn(judge, config, resume, failFast) ==
  suite = "own" /\ Invoke(judge, config, resume, failFast)
StartFrozen(judge, resume, failFast) ==
  suite = "frozen" /\ Invoke(judge, CHOOSE config \in AppConfigs : TRUE, resume, failFast)

SkipCompleted ==
  /\ job.state = "case" /\ job.left # {} /\ Cached # NoRecord /\ Graded(Cached)
  /\ job' = [job EXCEPT !.left = @ \ {Case}]
  /\ UNCHANGED <<suite, results, torn, forgetful, replayed, snapshots, report>>

ReuseAnswer ==
  /\ job.state = "case" /\ job.left # {} /\ Cached # NoRecord /\ ~Graded(Cached)
  /\ job' = [job EXCEPT !.state = "judge", !.record = Cached]
  /\ UNCHANGED <<suite, results, torn, forgetful, replayed, snapshots, report>>

\* Mutant: the prepared snapshot of a history is not reused
BugPrepare(history) == TRUE

\* _prepared_snapshot: whether the history still has to be replayed
Prepare(history) == snapshots[history] = 0

\* how often the history behind a snapshot was replayed into working.db
Replays(history) == IF Prepare(history) THEN replayed[history] + 1 ELSE snapshots[history]

\* what the executors return, as the answer_completed row: MAB asks on a copy
\* of the snapshot, LongMemEval on a database it has just filled
SharedAnswer(reply) ==
  [BaseRecord EXCEPT !.reply = reply, !.replays = Replays(HistoryOf[Case]),
     !.excused = HistoryOf[Case] \in job.stumbled, !.status = "answer_completed"]
FilledOnce == 1
OwnAnswer(reply) ==
  [BaseRecord EXCEPT !.reply = reply, !.replays = FilledOnce, !.status = "answer_completed"]

Generate(row) ==
  /\ job.state = "case" /\ job.left # {} /\ Cached = NoRecord /\ Appended(row)
  /\ job' = [job EXCEPT !.state = "judge", !.record = row, !.prior = Append(@, row)]

GenerateShared(reply) ==
  LET h == HistoryOf[Case] IN
  /\ suite = "shared" /\ Generate(SharedAnswer(reply))
  /\ replayed' = [replayed EXCEPT ![h] = Replays(h)]
  /\ snapshots' = [snapshots EXCEPT ![h] = Replays(h)]
  /\ UNCHANGED report
GenerateOwn(reply) ==
  suite = "own" /\ Generate(OwnAnswer(reply)) /\ UNCHANGED <<replayed, snapshots, report>>

\* after a failed case: the next one, or the exception ends the run
AfterFailure(record) ==
  IF job.failFast THEN [NoJob EXCEPT !.number = job.number]
  ELSE [job EXCEPT !.state = "case", !.left = @ \ {Case}, !.record = NoRecord,
                   !.prior = Append(@, record)]
\* the temporary directory of the executor goes with the process
Emptied(next) == IF next.state = "off" THEN [h \in EvalHistories |-> 0] ELSE replayed

\* no answer: preparing the history may have failed after a part of it was
\* replayed, and working.db keeps that part
GenerationFails(half) ==
  LET failed == [BaseRecord EXCEPT !.status = "failed"]
      h == HistoryOf[Case]
      next == AfterFailure(failed) IN
  /\ job.state = "case" /\ job.left # {} /\ Cached = NoRecord
  /\ half => suite = "shared" /\ Prepare(h)
  /\ Appended(failed)
  /\ job' = IF half /\ next.state # "off"
              THEN [next EXCEPT !.stumbled = @ \cup {h}] ELSE next
  /\ replayed' = IF half /\ next.state # "off" THEN [replayed EXCEPT ![h] = @ + 1]
                 ELSE Emptied(next)
  /\ snapshots' = IF next.state = "off" THEN [k \in EvalHistories |-> 0] ELSE snapshots
  /\ UNCHANGED report

\* evaluate_with_judge returned a verdict
Judge ==
  LET graded == [job.record EXCEPT !.judge = job.judge, !.key = JudgeKey(job.record),
                                   !.status = "completed"] IN
  /\ job.state = "judge" /\ Appended(graded)
  /\ job' = [job EXCEPT !.state = "case", !.left = @ \ {Case}, !.record = NoRecord,
                        !.prior = Append(@, graded)]
  /\ UNCHANGED <<replayed, snapshots, report>>

JudgeShared == suite = "shared" /\ Judge
JudgeOwn == suite = "own" /\ Judge
JudgeFrozen == suite = "frozen" /\ Judge

\* the row of the failed step keeps the answer
StepFails(key) ==
  LET failed == [job.record EXCEPT !.judge = job.judge, !.status = "failed", !.key = key]
      next == AfterFailure(failed) IN
  /\ job.state = "judge" /\ Appended(failed)
  /\ job' = next /\ replayed' = Emptied(next)
  /\ snapshots' = IF next.state = "off" THEN [h \in EvalHistories |-> 0] ELSE snapshots
  /\ UNCHANGED report

\* scoring the answer raised, before the judge was asked
ScoringFails == suite = "shared" /\ StepFails(job.record.key)
\* the judge failed twice: LongMemEval does not drop the key of an earlier verdict
JudgeFailsShared == suite = "shared" /\ StepFails(NoKey)
JudgeFailsOwn == suite = "own" /\ StepFails(job.record.key)
JudgeFailsFrozen == suite = "frozen" /\ StepFails(job.record.key)

WriteReport ==
  /\ job.state = "case" /\ job.left = {} /\ report' = Latest(job.prior)
  /\ job' = [NoJob EXCEPT !.number = job.number]
  /\ replayed' = [h \in EvalHistories |-> 0] /\ snapshots' = [h \in EvalHistories |-> 0]
  /\ UNCHANGED <<suite, results, torn, forgetful>>

ReportShared == suite = "shared" /\ WriteReport
ReportOwn == suite = "own" /\ WriteReport
ReportFrozen == suite = "frozen" /\ WriteReport

\* also in the middle of an append
Crash(tear) ==
  /\ job.state # "off" /\ job' = [NoJob EXCEPT !.number = job.number]
  /\ torn' = (torn \/ tear)
  /\ replayed' = [h \in EvalHistories |-> 0] /\ snapshots' = [h \in EvalHistories |-> 0]
  /\ UNCHANGED <<suite, results, forgetful, report>>

EvalNext ==
  \/ \E judge \in Judges, resume, failFast \in BOOLEAN :
       \/ \E config \in AppConfigs : \/ StartShared(judge, config, resume, failFast)
                                    \/ StartOwn(judge, config, resume, failFast)
       \/ StartFrozen(judge, resume, failFast)
  \/ \E reply \in Written : GenerateShared(reply) \/ GenerateOwn(reply)
  \/ \E flag \in BOOLEAN : GenerationFails(flag) \/ Crash(flag)
  \/ SkipCompleted \/ ReuseAnswer \/ ScoringFails
  \/ JudgeShared \/ JudgeOwn \/ JudgeFrozen
  \/ JudgeFailsShared \/ JudgeFailsOwn \/ JudgeFailsFrozen
  \/ ReportShared \/ ReportOwn \/ ReportFrozen
EvalSpec == EvalInit /\ [][EvalNext]_evalVars

-----------------------------------------------------------------------------
(* Properties.                                                             *)

EvalTypeOK ==
  /\ torn \in BOOLEAN /\ forgetful \in BOOLEAN /\ Len(results) <= MaxRows
  /\ \A i \in DOMAIN results : /\ results[i].case \in Cases /\ results[i].reply \in Written \cup {Unwritten}
                            /\ results[i].status \in {"answer_completed", "completed", "failed"}
  /\ job.state \in {"off", "case", "judge"} /\ job.number \in 0 .. MaxRuns

(* As long as every run resumes, no crash, failure or change of the judge  *)
(* makes a later run generate an answer the file already holds, or have a  *)
(* judge grade an answer it has already graded.                            *)
NothingIsPaidTwice ==
  ~forgetful => \A i, j \in DOMAIN results :
    (i # j /\ results[i].case = results[j].case /\ results[i].config = results[j].config) =>
      /\ ~(results[i].status = "answer_completed" /\ results[j].status = "answer_completed")
      /\ ~(/\ results[i].status = "completed" /\ results[j].status = "completed"
           /\ results[i].judge = results[j].judge)

(* The history an answer was generated on was replayed once, however many  *)
(* cases share it, unless preparing it had failed earlier in the run: then *)
(* it is replayed on top of what the failure left.                         *)
AnswersSeeOneHistory ==
  suite # "frozen" => \A i \in DOMAIN results :
    (results[i].reply # Unwritten /\ ~results[i].excused) => results[i].replays = 1

\* the answers and the verdicts of the file
AnswerEntries ==
  {[at |-> i, case |-> results[i].case, config |-> results[i].config, reply |-> results[i].reply,
    replays |-> results[i].replays, excused |-> results[i].excused]
     : i \in {j \in DOMAIN results : results[j].status = "answer_completed"}}
VerdictEntries ==
  {[at |-> i, case |-> results[i].case, config |-> results[i].config, reply |-> results[i].reply,
    replays |-> results[i].replays, excused |-> results[i].excused, judge |-> results[i].judge]
     : i \in {j \in DOMAIN results : results[j].status = "completed"}}

Ledger == INSTANCE EvalLedger
            WITH answers <- AnswerEntries, verdicts <- VerdictEntries, given <- suite = "frozen",
                 waived <- forgetful

(* results.jsonl is a ledger: entries are only added; what a resumed run   *)
(* adds was not paid for before; a verdict, whichever run writes it and    *)
(* through however many failed rows it got the reply, is about an answer   *)
(* that was written to the file, reply and history alike.                  *)
KeepsEvalLedger == Ledger!LSpec

=============================================================================
