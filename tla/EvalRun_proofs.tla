------------------------------ MODULE EvalRun_proofs ------------------------------
(***************************************************************************)
(* Any number of cases, judges, configurations and runs.  What is paid for *)
(* once rests on what a run that has ignored nothing knows (PaidOnce): its *)
(* prior_rows are the file, all answers to a case under a configuration    *)
(* are the same, and what it is about to have judged was not judged by     *)
(* this judge.  What an answer was asked on rests on Replayed: a history   *)
(* no preparation stumbled over has been replayed once, or never.  That    *)
(* the results are a ledger that is only added to rests on Backed.         *)
(***************************************************************************)
EXTENDS EvalRun, WellFoundedInduction, TLAPS

RowReplies == Written \cup {Unwritten}
JudgeKeys == [judge : Judges \cup {0}, reply : RowReplies]
Statuses == {"answer_completed", "completed", "failed"}
ResultRows == [case : Cases, config : AppConfigs, reply : RowReplies, replays : Nat,
               excused : BOOLEAN, judge : Judges, key : JudgeKeys, status : Statuses]

Jobs == [state : {"off", "case", "judge"}, number : 0 .. MaxRuns, resume : BOOLEAN,
         failFast : BOOLEAN, judge : Judges \cup {0}, config : AppConfigs \cup {0},
         prior : Seq(ResultRows), left : SUBSET Cases, record : ResultRows \cup {NoRecord},
         stumbled : SUBSET EvalHistories]

\* an answer, a verdict, and the history an answer was asked on
Sound(row) ==
  /\ row.status \in {"answer_completed", "completed"} => row.reply \in Written
  /\ row.status = "completed" => row.key = [judge |-> row.judge, reply |-> row.reply]
  /\ suite = "frozen" => row.reply \in {FrozenReply, Unwritten}
  /\ suite # "frozen" /\ row.reply # Unwritten /\ ~row.excused => row.replays = 1
AllSound(rows) == \A i \in DOMAIN rows : Sound(rows[i])

EvalShapes ==
  /\ suite \in {"shared", "own", "frozen"} /\ torn \in BOOLEAN /\ forgetful \in BOOLEAN
  /\ results \in Seq(ResultRows) /\ Len(results) <= MaxRows /\ AllSound(results)
  /\ job \in Jobs /\ AllSound(job.prior)
  /\ job.state # "off" => job.judge \in Judges /\ job.config \in AppConfigs

\* a history that was not replayed in part was replayed once or never
Replayed ==
  /\ replayed \in [EvalHistories -> Nat] /\ snapshots \in [EvalHistories -> Nat]
  /\ \A h \in EvalHistories :
       IF job.state = "off" THEN replayed[h] = 0 /\ snapshots[h] = 0
       ELSE h \notin job.stumbled => replayed[h] = snapshots[h] /\ replayed[h] \in {0, 1}

\* what is about to be judged is an answer to the case the job is at
AtCase ==
  job.state = "judge" =>
    /\ job.left # {} /\ job.record \in ResultRows /\ Sound(job.record)
    /\ job.record.case = Case /\ job.record.config = job.config
    /\ job.record.reply \in Written

SameQuestion(row, other) == row.case = other.case /\ row.config = other.config

\* the two rows may stand in one file
Compatible(row, other) ==
  SameQuestion(row, other) =>
    /\ row.reply \in Written /\ other.reply \in Written => row.reply = other.reply
    /\ ~(row.status = "answer_completed" /\ other.status = "answer_completed")
    /\ ~(/\ row.status = "completed" /\ other.status = "completed"
         /\ row.judge = other.judge)
AllCompatible(rows) == \A i, j \in DOMAIN rows : i # j => Compatible(rows[i], rows[j])

PaidOnce ==
  ~forgetful =>
    /\ job.state # "off" => job.prior = results
    /\ job.state # "off" /\ ~job.resume /\ suite # "frozen" =>
         \A i \in DOMAIN results : /\ results[i].case \in job.left => job.state = "judge"
                                   /\ results[i].case \in job.left => results[i].case = Case
    /\ AllCompatible(results)
    /\ job.state = "judge" =>
         \A i \in DOMAIN results : SameQuestion(results[i], job.record) =>
           /\ results[i].reply \in {Unwritten, job.record.reply}
           /\ ~(results[i].status = "completed" /\ results[i].judge = job.judge)

EvalInv == EvalShapes /\ Replayed /\ AtCase /\ PaidOnce

-----------------------------------------------------------------------------
(* Cases and rows.                                                         *)

LEMMA EvalLeast ==
  ASSUME NEW S \in SUBSET Nat, S # {}
  PROVE  \E i \in S : \A j \in S : i <= j
<1>1. PICK i \in S : \A j \in S : ~(<<j, i>> \in OpToRel(<, Nat))
  BY NatLessThanWellFounded, WFMin
<1>2. \A j \in S : ~(j < i)
  BY <1>1 DEF OpToRel
<1> QED
  BY <1>2

LEMMA EvalGreatest ==
  ASSUME NEW n \in Nat, NEW S \in SUBSET (1 .. n), S # {}
  PROVE  \E i \in S : \A j \in S : j <= i
<1> DEFINE T == {n - i : i \in S}
<1>1. T \in SUBSET Nat /\ T # {}
  <2>1. \A i \in S : n - i \in Nat
    OBVIOUS
  <2> QED
    BY <2>1
<1>2. PICK k \in T : \A j \in T : k <= j
  <2> HIDE DEF T
  <2> QED
    BY <1>1, EvalLeast
<1>3. PICK i \in S : k = n - i
  OBVIOUS
<1>4. \A j \in S : n - i <= n - j
  BY <1>2, <1>3
<1> QED
  BY <1>4

LEMMA CaseIsLeft ==
  ASSUME job \in Jobs, job.left # {}
  PROVE  Case \in job.left /\ Case \in Cases /\ HistoryOf[Case] \in EvalHistories
<1>1. job.left \in SUBSET Cases /\ job.left \in SUBSET Nat
  BY EvalAssumption DEF Jobs
<1>2. \E case \in job.left : \A c \in job.left : case <= c
  BY <1>1, EvalLeast
<1>3. Case \in job.left
  BY <1>2 DEF Case
<1> QED
  BY <1>1, <1>3 DEF EvalHistories

LEMMA FrozenWritten == FrozenReply \in Written
BY EvalAssumption DEF FrozenReply

LEMMA NoRecordIsNoRow == NoRecord \notin ResultRows
<1> SUFFICES ASSUME NoRecord \in ResultRows
             PROVE  FALSE
  OBVIOUS
<1>1. NoRecord.case \in Cases
  BY DEF ResultRows
<1>2. NoRecord.case = 0
  BY DEF NoRecord
<1> QED
  BY <1>1, <1>2, EvalAssumption

(* What the job has for the case it is at: a written answer to it under    *)
(* its configuration, or there is none among the rows it has read.         *)
LEMMA WhatIsCached ==
  ASSUME EvalShapes, job.state = "case", job.left # {}
  PROVE  /\ Cached # NoRecord =>
              /\ Cached \in ResultRows /\ Sound(Cached)
              /\ Cached.case = Case /\ Cached.config = job.config /\ Cached.reply \in Written
              /\ IF suite = "frozen" THEN Cached.reply = FrozenReply
                 ELSE job.resume /\ \E i \in DOMAIN job.prior : Cached = job.prior[i]
         /\ Cached = NoRecord =>
              /\ suite # "frozen"
              /\ job.resume => \A i \in DOMAIN job.prior :
                   (job.prior[i].case = Case /\ job.prior[i].config = job.config)
                     => job.prior[i].reply = Unwritten
<1>1. Case \in Cases /\ job.config \in AppConfigs /\ job.judge \in Judges
  BY CaseIsLeft DEF EvalShapes
<1>2. CASE suite = "frozen"
  <2>1. NoKey \in JudgeKeys
    BY DEF NoKey, JudgeKeys, RowReplies
  <2>2. BaseRecord \in [case : Cases, config : AppConfigs, reply : RowReplies, replays : Nat,
                        excused : BOOLEAN, judge : Judges, key : JudgeKeys,
                        status : Statuses \cup {"new"}]
    BY <1>1, <2>1 DEF BaseRecord, RowReplies
  <2>3. BaseRecord.case = Case /\ BaseRecord.config = job.config
    BY DEF BaseRecord
  <2> DEFINE base == BaseRecord
  <2> HIDE DEF base
  <2>4. FrozenAnswer = [base EXCEPT !.reply = FrozenReply, !.status = "answer_completed"]
    BY DEF FrozenAnswer, base
  <2>5. /\ base \in [case : Cases, config : AppConfigs, reply : RowReplies, replays : Nat,
                     excused : BOOLEAN, judge : Judges, key : JudgeKeys,
                     status : Statuses \cup {"new"}]
        /\ base.case = Case /\ base.config = job.config
    BY <2>2, <2>3 DEF base
  <2>6. /\ FrozenAnswer \in ResultRows
        /\ FrozenAnswer.case = Case /\ FrozenAnswer.config = job.config
        /\ FrozenAnswer.reply = FrozenReply /\ FrozenAnswer.status = "answer_completed"
    BY <2>4, <2>5, FrozenWritten DEF ResultRows, RowReplies, Statuses
  <2>7. Sound(FrozenAnswer)
    BY <1>2, <2>6, FrozenWritten DEF Sound
  <2>8. Cached = FrozenAnswer
    BY <1>2 DEF Cached
  <2> QED
    BY <1>2, <2>6, <2>7, <2>8, FrozenWritten, NoRecordIsNoRow
<1>3. CASE suite # "frozen" /\ ~job.resume
  BY <1>3 DEF Cached
<1>4. CASE suite # "frozen" /\ job.resume
  <2> DEFINE indices == {i \in DOMAIN job.prior :
                           /\ job.prior[i].case = Case /\ job.prior[i].config = job.config
                           /\ job.prior[i].reply # Unwritten}
  <2>1. Cached = Lookup(indices)
    BY <1>4 DEF Cached, FindAnswer
  <2>2. job.prior \in Seq(ResultRows) /\ AllSound(job.prior)
    BY DEF EvalShapes, Jobs
  <2>3. CASE indices = {}
    BY <1>4, <2>1, <2>3 DEF Lookup
  <2>4. CASE indices # {}
    <3>1. LastOf(indices) \in indices
      <4>1. Len(job.prior) \in Nat /\ indices \in SUBSET (1 .. Len(job.prior))
        BY <2>2
      <4> HIDE DEF indices
      <4>2. \E n \in indices : \A m \in indices : m <= n
        BY <2>4, <4>1, EvalGreatest
      <4> QED
        BY <4>2 DEF LastOf
    <3>2. PICK i \in indices : Cached = job.prior[i]
      BY <2>1, <2>4, <3>1 DEF Lookup
    <3>3. /\ i \in DOMAIN job.prior /\ Cached.case = Case /\ Cached.config = job.config
          /\ Cached.reply # Unwritten /\ Cached \in ResultRows /\ Sound(Cached)
      BY <2>2, <3>2 DEF AllSound
    <3>4. Cached.reply \in Written
      BY <3>3 DEF ResultRows, RowReplies
    <3> QED
      BY <1>4, <3>2, <3>3, <3>4, NoRecordIsNoRow
  <2> QED
    BY <2>3, <2>4
<1> QED
  BY <1>2, <1>3, <1>4

LEMMA AppendRow ==
  ASSUME NEW rows \in Seq(ResultRows), NEW row \in ResultRows
  PROVE  /\ Append(rows, row) \in Seq(ResultRows) /\ Len(Append(rows, row)) = Len(rows) + 1
         /\ AllSound(rows) /\ Sound(row) => AllSound(Append(rows, row))
         /\ \A i \in DOMAIN Append(rows, row) :
              \/ i \in DOMAIN rows /\ Append(rows, row)[i] = rows[i]
              \/ i = Len(rows) + 1 /\ Append(rows, row)[i] = row
         /\ AllCompatible(rows) /\ (\A i \in DOMAIN rows : Compatible(rows[i], row))
              => AllCompatible(Append(rows, row))
<1>1. /\ Append(rows, row) \in Seq(ResultRows) /\ Len(Append(rows, row)) = Len(rows) + 1
      /\ \A i \in DOMAIN Append(rows, row) :
           \/ i \in DOMAIN rows /\ Append(rows, row)[i] = rows[i]
           \/ i = Len(rows) + 1 /\ Append(rows, row)[i] = row
  OBVIOUS
<1>2. AllSound(rows) /\ Sound(row) => AllSound(Append(rows, row))
  BY <1>1 DEF AllSound
<1>3. ASSUME AllCompatible(rows), \A i \in DOMAIN rows : Compatible(rows[i], row)
      PROVE  AllCompatible(Append(rows, row))
  <2> SUFFICES ASSUME NEW i \in DOMAIN Append(rows, row), NEW j \in DOMAIN Append(rows, row),
                      i # j
               PROVE  Compatible(Append(rows, row)[i], Append(rows, row)[j])
    BY DEF AllCompatible
  <2>1. \A k \in DOMAIN rows : Compatible(row, rows[k])
    BY <1>3 DEF Compatible, SameQuestion
  <2> QED
    BY <1>1, <1>3, <2>1 DEF AllCompatible
<1> QED
  BY <1>1, <1>2, <1>3

-----------------------------------------------------------------------------
(* The steps of a job.                                                     *)

LEMMA NoJobIsAJob ==
  /\ NoJob \in Jobs /\ NoJob.state = "off" /\ NoJob.prior = <<>> /\ NoJob.stumbled = {}
  /\ AllSound(NoJob.prior)
<1>1. NoJob \in Jobs
  <2>1. <<>> \in Seq(ResultRows) /\ 0 \in 0 .. MaxRuns
    BY EvalAssumption
  <2> QED
    BY <2>1 DEF NoJob, Jobs
<1>2. NoJob.state = "off" /\ NoJob.prior = <<>> /\ NoJob.stumbled = {}
  BY DEF NoJob
<1> QED
  BY <1>1, <1>2 DEF AllSound

LEMMA SameSuite ==
  ASSUME UNCHANGED suite
  PROVE  /\ \A row : Sound(row)' <=> Sound(row)
         /\ \A rows : AllSound(rows)' <=> AllSound(rows)
<1>1. \A row : Sound(row)' <=> Sound(row)
  BY DEF Sound
<1> QED
  BY <1>1 DEF AllSound

LEMMA EvalStarts == EvalInit => EvalInv
<1> SUFFICES ASSUME EvalInit
             PROVE  EvalInv
  OBVIOUS
<1>1. EvalShapes
  <2>1. /\ <<>> \in Seq(ResultRows) /\ Len(<<>>) = 0 /\ 0 <= MaxRows /\ DOMAIN <<>> = {}
    BY EvalAssumption
  <2>2. results \in Seq(ResultRows) /\ Len(results) <= MaxRows
    BY <2>1 DEF EvalInit
  <2>3. AllSound(results)
    BY <2>1 DEF EvalInit, AllSound
  <2>4. job \in Jobs /\ AllSound(job.prior) /\ job.state = "off"
    BY NoJobIsAJob DEF EvalInit
  <2>5. suite \in {"shared", "own", "frozen"} /\ torn \in BOOLEAN /\ forgetful \in BOOLEAN
    BY DEF EvalInit
  <2> QED
    BY <2>2, <2>3, <2>4, <2>5 DEF EvalShapes
<1>2. Replayed
  BY NoJobIsAJob DEF EvalInit, Replayed
<1>3. AtCase /\ PaidOnce
  BY NoJobIsAJob DEF EvalInit, AtCase, PaidOnce, AllCompatible
<1> QED
  BY <1>1, <1>2, <1>3 DEF EvalInv

(* A run that resumes starts from the file; one that does not, and ignores *)
(* nothing, starts with it empty.                                          *)
LEMMA EvalInvoke ==
  ASSUME EvalInv, NEW judge \in Judges, NEW config \in AppConfigs,
         NEW resume \in BOOLEAN, NEW failFast \in BOOLEAN,
         Invoke(judge, config, resume, failFast)
  PROVE  EvalInv'
<1>1. /\ job.state = "off" /\ job.number < MaxRuns /\ job \in Jobs
      /\ job' = [NoJob EXCEPT !.state = "case", !.number = job.number + 1, !.resume = resume,
                   !.failFast = failFast, !.judge = judge, !.config = config,
                   !.prior = IF resume THEN results ELSE <<>>, !.left = Cases]
      /\ forgetful' = (forgetful \/ (~resume /\ (results # <<>> \/ torn)))
      /\ UNCHANGED <<suite, results, torn, replayed, snapshots, report>>
  BY DEF Invoke, EvalInv, EvalShapes
<1> DEFINE read == IF resume THEN results ELSE <<>>
<1>2. read \in Seq(ResultRows) /\ AllSound(read)
  BY DEF EvalInv, EvalShapes, AllSound
<1>3. job.number + 1 \in 0 .. MaxRuns
  BY <1>1, EvalAssumption DEF Jobs
<1>4. job' = [NoJob EXCEPT !.state = "case", !.number = job.number + 1, !.resume = resume,
                !.failFast = failFast, !.judge = judge, !.config = config,
                !.prior = read, !.left = Cases]
  BY <1>1
<1> DEFINE first == NoJob
<1>5. first \in Jobs /\ first.stumbled = {} /\ job' = [first EXCEPT
                !.state = "case", !.number = job.number + 1, !.resume = resume,
                !.failFast = failFast, !.judge = judge, !.config = config,
                !.prior = read, !.left = Cases]
  BY <1>4, NoJobIsAJob
<1> HIDE DEF read, first
<1>6. /\ job' \in Jobs /\ job'.state = "case" /\ job'.resume = resume
      /\ job'.judge = judge /\ job'.config = config /\ job'.prior = read
      /\ job'.left = Cases /\ job'.stumbled = {}
  BY <1>2, <1>3, <1>5 DEF Jobs
<1>7. EvalShapes'
  BY <1>1, <1>2, <1>6, SameSuite DEF EvalInv, EvalShapes
<1>8. Replayed'
  BY <1>1, <1>6 DEF EvalInv, Replayed
<1>9. AtCase'
  BY <1>6 DEF AtCase
<1>10. PaidOnce'
  <2> SUFFICES ASSUME ~forgetful'
               PROVE  /\ read = results
                      /\ ~resume => DOMAIN results = {}
                      /\ AllCompatible(results)
    BY <1>1, <1>6 DEF PaidOnce, AllCompatible, Compatible, SameQuestion
  <2>1. ~forgetful /\ (resume \/ results = <<>>)
    BY <1>1
  <2>2. AllCompatible(results)
    BY <2>1 DEF EvalInv, PaidOnce
  <2> QED
    BY <2>1, <2>2 DEF read
<1> QED
  BY <1>7, <1>8, <1>9, <1>10 DEF EvalInv

(* An answer that is there is skipped or judged again.                     *)
LEMMA EvalLookUp ==
  ASSUME EvalInv, SkipCompleted \/ ReuseAnswer
  PROVE  EvalInv'
<1>1. /\ job.state = "case" /\ job.left # {} /\ Cached # NoRecord /\ job \in Jobs
      /\ UNCHANGED <<suite, results, torn, forgetful, replayed, snapshots, report>>
  BY DEF SkipCompleted, ReuseAnswer, EvalInv, EvalShapes
<1>2. /\ Cached \in ResultRows /\ Sound(Cached)
      /\ Cached.case = Case /\ Cached.config = job.config /\ Cached.reply \in Written
      /\ IF suite = "frozen" THEN Cached.reply = FrozenReply
         ELSE job.resume /\ \E i \in DOMAIN job.prior : Cached = job.prior[i]
  BY <1>1, WhatIsCached DEF EvalInv
<1>3. CASE SkipCompleted
  <2>1. job' = [job EXCEPT !.left = @ \ {Case}]
    BY <1>3 DEF SkipCompleted
  <2>2. /\ job' \in Jobs /\ job'.state = "case" /\ job'.prior = job.prior
        /\ job'.left \subseteq job.left
        /\ job'.resume = job.resume /\ job'.stumbled = job.stumbled
        /\ job'.judge = job.judge /\ job'.config = job.config
    BY <1>1, <2>1 DEF Jobs
  <2>3. EvalShapes' /\ AtCase'
    BY <1>1, <2>2, SameSuite DEF EvalInv, EvalShapes, AtCase
  <2>4. Replayed'
    BY <1>1, <2>2 DEF EvalInv, Replayed
  <2>5. PaidOnce'
    <3>1. AllCompatible(results)' <=> AllCompatible(results)
      BY <1>1 DEF AllCompatible, Compatible, SameQuestion
    <3> QED
      BY <1>1, <2>2, <3>1 DEF EvalInv, PaidOnce
  <2> QED
    BY <2>3, <2>4, <2>5 DEF EvalInv
<1>4. CASE ReuseAnswer
  <2>1. job' = [job EXCEPT !.state = "judge", !.record = Cached] /\ ~Graded(Cached)
    BY <1>4 DEF ReuseAnswer
  <2>2. /\ job' \in Jobs /\ job'.state = "judge" /\ job'.prior = job.prior
        /\ job'.left = job.left /\ job'.record = Cached
        /\ job'.resume = job.resume /\ job'.stumbled = job.stumbled
        /\ job'.judge = job.judge /\ job'.config = job.config
    BY <1>1, <1>2, <2>1 DEF Jobs
  <2>3. Case' = Case
    BY <2>2 DEF Case
  <2>4. EvalShapes' /\ AtCase'
    BY <1>1, <1>2, <2>2, <2>3, SameSuite DEF EvalInv, EvalShapes, AtCase
  <2>5. Replayed'
    BY <1>1, <2>2 DEF EvalInv, Replayed
  <2>6. PaidOnce'
    <3> SUFFICES ASSUME ~forgetful
                 PROVE  /\ job.prior = results /\ AllCompatible(results)'
                        /\ ~job.resume /\ suite # "frozen" => FALSE
                        /\ \A i \in DOMAIN results : SameQuestion(results[i], Cached) =>
                             /\ results[i].reply \in {Unwritten, Cached.reply}
                             /\ ~(results[i].status = "completed"
                                  /\ results[i].judge = job.judge)
      BY <1>1, <2>2, <2>3 DEF PaidOnce, SameQuestion
    <3>1. job.prior = results /\ AllCompatible(results)
      BY <1>1 DEF EvalInv, PaidOnce
    <3>2. AllCompatible(results)'
      BY <1>1, <3>1 DEF AllCompatible, Compatible, SameQuestion
    <3>3. ASSUME NEW i \in DOMAIN results, SameQuestion(results[i], Cached)
          PROVE  /\ results[i].reply \in {Unwritten, Cached.reply}
                 /\ ~(results[i].status = "completed" /\ results[i].judge = job.judge)
      <4>1. results[i] \in ResultRows /\ Sound(results[i])
        BY DEF EvalInv, EvalShapes, AllSound
      <4>2. results[i].reply \in {Unwritten, Cached.reply}
        <5>1. CASE suite = "frozen"
          BY <1>2, <4>1, <5>1 DEF Sound
        <5>2. CASE suite # "frozen"
          <6>1. PICK j \in DOMAIN results : Cached = results[j]
            BY <1>2, <3>1, <5>2
          <6>2. i = j \/ Compatible(results[i], Cached)
            BY <3>1, <6>1 DEF AllCompatible
          <6> QED
            BY <1>2, <3>3, <4>1, <6>1, <6>2 DEF Compatible, ResultRows, RowReplies
        <5> QED
          BY <5>1, <5>2
      <4>3. ASSUME results[i].status = "completed", results[i].judge = job.judge
            PROVE  FALSE
        <5>1. results[i].key = [judge |-> job.judge, reply |-> results[i].reply]
              /\ results[i].reply = Cached.reply
          BY <1>2, <4>1, <4>2, <4>3, EvalAssumption DEF Sound
        <5>2. results[i].key = JudgeKey(Cached)
          BY <5>1 DEF JudgeKey
        <5>3. Graded(Cached)
          BY <1>2, <3>1, <3>3, <4>3, <5>2 DEF Graded, SameQuestion
        <5> QED
          BY <2>1, <5>3
      <4> QED
        BY <4>2, <4>3
    <3> QED
      BY <1>2, <3>1, <3>2, <3>3
  <2> QED
    BY <2>4, <2>5, <2>6 DEF EvalInv
<1> QED
  BY <1>3, <1>4

LEMMA EvalStops ==
  ASSUME EvalInv, job' = [NoJob EXCEPT !.number = job.number], UNCHANGED suite,
         \/ UNCHANGED <<results, forgetful>>
         \/ forgetful' = forgetful /\ results' \in Seq(ResultRows)
            /\ Len(results') <= MaxRows /\ AllSound(results')
            /\ (~forgetful => AllCompatible(results')),
         torn' \in BOOLEAN,
         replayed' = [h \in EvalHistories |-> 0], snapshots' = [h \in EvalHistories |-> 0]
  PROVE  EvalInv'
<1>1. job \in Jobs
  BY DEF EvalInv, EvalShapes
<1> DEFINE first == NoJob
<1>2. first \in Jobs /\ first.state = "off" /\ AllSound(first.prior)
      /\ job' = [first EXCEPT !.number = job.number]
  BY NoJobIsAJob
<1> HIDE DEF first
<1>3. job' \in Jobs /\ job'.state = "off" /\ AllSound(job'.prior)
  BY <1>1, <1>2 DEF Jobs
<1>4. EvalShapes'
  BY <1>3, SameSuite DEF EvalInv, EvalShapes
<1>5. Replayed' /\ AtCase'
  BY <1>3 DEF Replayed, AtCase
<1>6. PaidOnce'
  <2>1. ~forgetful' => AllCompatible(results')
    BY DEF EvalInv, PaidOnce
  <2>2. AllCompatible(results)' <=> AllCompatible(results')
    BY DEF AllCompatible, Compatible, SameQuestion
  <2> QED
    BY <1>3, <2>1, <2>2 DEF PaidOnce
<1> QED
  BY <1>4, <1>5, <1>6 DEF EvalInv

(* A row that can stand with the others may be appended.                   *)
LEMMA EvalAppends ==
  ASSUME EvalInv, NEW row \in ResultRows, Sound(row), Appended(row),
         ~forgetful => \A i \in DOMAIN results : Compatible(results[i], row)
  PROVE  /\ UNCHANGED <<suite, torn, forgetful>>
         /\ results' = Append(results, row) /\ results' \in Seq(ResultRows)
         /\ Len(results') <= MaxRows /\ AllSound(results')
         /\ ~forgetful => AllCompatible(results')
         /\ \A i \in DOMAIN results' : \/ i \in DOMAIN results /\ results'[i] = results[i]
                                       \/ results'[i] = row
<1>1. /\ Len(results) < MaxRows /\ results' = Append(results, row)
      /\ UNCHANGED <<suite, torn, forgetful>>
  BY DEF Appended
<1>2. results \in Seq(ResultRows) /\ AllSound(results) /\ (~forgetful => AllCompatible(results))
  BY DEF EvalInv, EvalShapes, PaidOnce
<1>3. /\ Append(results, row) \in Seq(ResultRows)
      /\ Len(Append(results, row)) = Len(results) + 1
      /\ AllSound(Append(results, row))
      /\ ~forgetful => AllCompatible(Append(results, row))
      /\ \A i \in DOMAIN Append(results, row) :
           \/ i \in DOMAIN results /\ Append(results, row)[i] = results[i]
           \/ i = Len(results) + 1 /\ Append(results, row)[i] = row
  BY <1>2, AppendRow
<1>4. Len(results) \in Nat /\ MaxRows \in Nat
  BY <1>2, EvalAssumption
<1> QED
  BY <1>1, <1>3, <1>4

(* The case is done, for good or ill, and the job goes to the next one.    *)
LEMMA EvalGoesOn ==
  ASSUME EvalInv, job.state # "off", job.left # {},
         NEW row \in ResultRows, Sound(row), row.case = Case, Appended(row),
         ~forgetful => \A i \in DOMAIN results : Compatible(results[i], row),
         job' \in Jobs, job'.state = "case", job'.left = job.left \ {Case},
         job'.prior = Append(job.prior, row), job'.resume = job.resume,
         job'.judge = job.judge, job'.config = job.config,
         replayed' \in [EvalHistories -> Nat], snapshots' \in [EvalHistories -> Nat],
         \A h \in EvalHistories \ job'.stumbled :
           replayed'[h] = snapshots'[h] /\ replayed'[h] \in {0, 1}
  PROVE  EvalInv'
<1>1. /\ UNCHANGED <<suite, torn, forgetful>>
      /\ results' = Append(results, row) /\ results' \in Seq(ResultRows)
      /\ Len(results') <= MaxRows /\ AllSound(results')
      /\ ~forgetful => AllCompatible(results')
      /\ \A i \in DOMAIN results' : \/ i \in DOMAIN results /\ results'[i] = results[i]
                                    \/ results'[i] = row
  BY EvalAppends
<1>2. job.prior \in Seq(ResultRows) /\ AllSound(job.prior)
  BY DEF EvalInv, EvalShapes, Jobs
<1>3. AllSound(job'.prior)
  BY <1>2, AppendRow
<1>4. EvalShapes'
  BY <1>1, <1>3, SameSuite DEF EvalInv, EvalShapes
<1>5. Replayed' /\ AtCase'
  BY DEF Replayed, AtCase
<1>6. PaidOnce'
  <2> SUFFICES ASSUME ~forgetful
               PROVE  /\ job'.prior = results' /\ AllCompatible(results)'
                      /\ ~job.resume /\ suite # "frozen" =>
                           \A i \in DOMAIN results' : results'[i].case \notin job'.left
    BY <1>1 DEF PaidOnce
  <2>1. /\ job.prior = results
        /\ ~job.resume /\ suite # "frozen" =>
             \A i \in DOMAIN results : results[i].case \in job.left => results[i].case = Case
    BY DEF EvalInv, PaidOnce
  <2>2. AllCompatible(results)'
    BY <1>1 DEF AllCompatible, Compatible, SameQuestion
  <2> QED
    BY <1>1, <2>1, <2>2
<1> QED
  BY <1>4, <1>5, <1>6 DEF EvalInv

(* No row of the file is an answer to the case a new one is generated for. *)
LEMMA EvalGenerate ==
  ASSUME EvalInv, NEW row \in ResultRows, Sound(row), Generate(row),
         row.case = Case, row.config = job.config, row.reply \in Written,
         row.status = "answer_completed",
         replayed' \in [EvalHistories -> Nat], snapshots' \in [EvalHistories -> Nat],
         \A h \in EvalHistories \ job.stumbled :
           replayed'[h] = snapshots'[h] /\ replayed'[h] \in {0, 1}
  PROVE  EvalInv'
<1>1. /\ job.state = "case" /\ job.left # {} /\ Cached = NoRecord /\ Appended(row)
      /\ job' = [job EXCEPT !.state = "judge", !.record = row, !.prior = Append(@, row)]
      /\ job \in Jobs
  BY DEF Generate, EvalInv, EvalShapes
<1>2. /\ suite # "frozen"
      /\ job.resume => \A i \in DOMAIN job.prior :
           (job.prior[i].case = Case /\ job.prior[i].config = job.config)
             => job.prior[i].reply = Unwritten
  BY <1>1, WhatIsCached DEF EvalInv
<1>3. job.prior \in Seq(ResultRows) /\ AllSound(job.prior) /\ Case \in job.left
  BY <1>1, CaseIsLeft DEF EvalInv, EvalShapes, Jobs
<1>4. /\ Append(job.prior, row) \in Seq(ResultRows) /\ AllSound(Append(job.prior, row))
  BY <1>3, AppendRow
<1>5. /\ job' \in Jobs /\ job'.state = "judge" /\ job'.record = row
      /\ job'.prior = Append(job.prior, row) /\ job'.left = job.left
      /\ job'.resume = job.resume /\ job'.stumbled = job.stumbled
      /\ job'.judge = job.judge /\ job'.config = job.config
  <2> DEFINE appended == Append(job.prior, row)
  <2>1. job' = [job EXCEPT !.state = "judge", !.record = row, !.prior = appended]
    BY <1>1
  <2>2. appended \in Seq(ResultRows)
    BY <1>4
  <2> HIDE DEF appended
  <2>3. /\ job' \in Jobs /\ job'.state = "judge" /\ job'.record = row
        /\ job'.prior = appended /\ job'.left = job.left
        /\ job'.resume = job.resume /\ job'.stumbled = job.stumbled
        /\ job'.judge = job.judge /\ job'.config = job.config
    BY <1>1, <2>1, <2>2 DEF Jobs
  <2> QED
    BY <2>3 DEF appended
<1>6. Case' = Case
  BY <1>5 DEF Case
<1>7. ASSUME ~forgetful, NEW i \in DOMAIN results, SameQuestion(results[i], row)
      PROVE  /\ results[i].reply = Unwritten /\ results[i].status = "failed"
  <2>1. job.prior = results
    BY <1>1, <1>7 DEF EvalInv, PaidOnce
  <2>2. results[i].case = Case /\ results[i].config = job.config
    BY <1>7 DEF SameQuestion
  <2>3. results[i].reply = Unwritten
    <3>1. CASE job.resume
      BY <1>2, <2>1, <2>2, <3>1
    <3>2. CASE ~job.resume
      <4>1. results[i].case \notin job.left
        BY <1>1, <1>2, <1>7, <3>2 DEF EvalInv, PaidOnce
      <4> QED
        BY <1>3, <2>2, <4>1
    <3> QED
      BY <3>1, <3>2
  <2>4. results[i] \in ResultRows /\ Sound(results[i])
    BY DEF EvalInv, EvalShapes, AllSound
  <2> QED
    BY <2>3, <2>4, EvalAssumption DEF Sound, ResultRows, Statuses
<1>8. ~forgetful => \A i \in DOMAIN results : Compatible(results[i], row)
  BY <1>7, EvalAssumption DEF Compatible
<1>9. /\ UNCHANGED <<suite, torn, forgetful>>
      /\ results' = Append(results, row) /\ results' \in Seq(ResultRows)
      /\ Len(results') <= MaxRows /\ AllSound(results')
      /\ ~forgetful => AllCompatible(results')
      /\ \A i \in DOMAIN results' : \/ i \in DOMAIN results /\ results'[i] = results[i]
                                    \/ results'[i] = row
  BY <1>1, <1>8, EvalAppends
<1>10. EvalShapes'
  BY <1>1, <1>4, <1>5, <1>9, SameSuite DEF EvalInv, EvalShapes
<1>11. Replayed'
  BY <1>5 DEF Replayed
<1>12. AtCase'
  BY <1>1, <1>5, <1>6, <1>9, SameSuite DEF AtCase
<1>13. PaidOnce'
  <2> SUFFICES ASSUME ~forgetful
               PROVE  /\ job.prior = results /\ AllCompatible(results)'
                      /\ ~job.resume => \A i \in DOMAIN results' :
                           results'[i].case \in job.left => results'[i].case = Case
                      /\ \A i \in DOMAIN results' : SameQuestion(results'[i], row) =>
                           /\ results'[i].reply \in {Unwritten, row.reply}
                           /\ results'[i].status # "completed"
    BY <1>5, <1>6, <1>9 DEF PaidOnce, SameQuestion
  <2>1. /\ job.prior = results
        /\ ~job.resume => \A i \in DOMAIN results : results[i].case \notin job.left
    BY <1>1, <1>2 DEF EvalInv, PaidOnce
  <2>2. AllCompatible(results)'
    BY <1>9 DEF AllCompatible, Compatible, SameQuestion
  <2> QED
    BY <1>7, <1>9, <2>1, <2>2
<1> QED
  BY <1>10, <1>11, <1>12, <1>13 DEF EvalInv

NewRows == [case : Cases, config : AppConfigs, reply : RowReplies, replays : Nat,
            excused : BOOLEAN, judge : Judges, key : JudgeKeys, status : Statuses \cup {"new"}]

LEMMA BaseRecordIsNew ==
  ASSUME EvalShapes, job.state # "off", job.left # {}
  PROVE  /\ BaseRecord \in NewRows /\ BaseRecord.case = Case
         /\ BaseRecord.config = job.config /\ BaseRecord.reply = Unwritten
<1>1. Case \in Cases /\ job.config \in AppConfigs /\ job.judge \in Judges
  BY CaseIsLeft DEF EvalShapes
<1>2. NoKey \in JudgeKeys
  BY DEF NoKey, JudgeKeys, RowReplies
<1> QED
  BY <1>1, <1>2 DEF BaseRecord, NewRows, RowReplies

(* How often a history is replayed when a case is prepared.                *)
LEMMA ReplaysOf ==
  ASSUME EvalInv, job.state # "off", NEW h \in EvalHistories
  PROVE  Replays(h) \in Nat /\ (h \notin job.stumbled => Replays(h) = 1)
BY DEF EvalInv, Replayed, Replays, Prepare

LEMMA EvalGenerateShared ==
  ASSUME EvalInv, NEW reply \in Written, GenerateShared(reply)
  PROVE  EvalInv'
<1> DEFINE row == SharedAnswer(reply)
           h == HistoryOf[Case]
           n == Replays(h)
           base == BaseRecord
<1>1. /\ suite = "shared" /\ Generate(row)
      /\ replayed' = [replayed EXCEPT ![h] = n]
      /\ snapshots' = [snapshots EXCEPT ![h] = n]
      /\ job.state = "case" /\ job.left # {}
  BY DEF GenerateShared, Generate
<1>2. h \in EvalHistories
  BY <1>1, CaseIsLeft DEF EvalInv, EvalShapes
<1>3. n \in Nat /\ (h \notin job.stumbled => n = 1)
  BY <1>1, <1>2, ReplaysOf
<1>4. base \in NewRows /\ base.case = Case /\ base.config = job.config
  BY <1>1, BaseRecordIsNew DEF EvalInv
<1>5. row = [base EXCEPT !.reply = reply, !.replays = n, !.excused = h \in job.stumbled,
                         !.status = "answer_completed"]
  BY DEF SharedAnswer
<1> HIDE DEF row, base, n, h
<1>6. DEFINE excused == h \in job.stumbled
<1>7. excused \in BOOLEAN
  OBVIOUS
<1>8. row = [base EXCEPT !.reply = reply, !.replays = n, !.excused = excused,
                         !.status = "answer_completed"]
  BY <1>5
<1>9. excused <=> h \in job.stumbled
  OBVIOUS
<1> HIDE DEF excused
<1>10. /\ row \in ResultRows /\ row.case = Case /\ row.config = job.config
       /\ row.reply = reply /\ row.status = "answer_completed"
       /\ row.replays = n /\ row.excused = excused
  BY <1>3, <1>4, <1>7, <1>8 DEF NewRows, ResultRows, RowReplies, Statuses
<1>11. Sound(row)
  BY <1>1, <1>3, <1>9, <1>10 DEF Sound
<1>12. /\ replayed \in [EvalHistories -> Nat] /\ snapshots \in [EvalHistories -> Nat]
       /\ \A k \in EvalHistories \ job.stumbled :
            replayed[k] = snapshots[k] /\ replayed[k] \in {0, 1}
  BY <1>1 DEF EvalInv, Replayed
<1>13. /\ replayed' \in [EvalHistories -> Nat] /\ snapshots' \in [EvalHistories -> Nat]
       /\ \A k \in EvalHistories \ job.stumbled :
            replayed'[k] = snapshots'[k] /\ replayed'[k] \in {0, 1}
  BY <1>1, <1>2, <1>3, <1>12
<1> QED
  BY <1>1, <1>10, <1>11, <1>13, EvalGenerate

LEMMA EvalGenerateOwn ==
  ASSUME EvalInv, NEW reply \in Written, GenerateOwn(reply)
  PROVE  EvalInv'
<1> DEFINE row == OwnAnswer(reply)
           base == BaseRecord
<1>1. /\ suite = "own" /\ Generate(row) /\ UNCHANGED <<replayed, snapshots>>
      /\ job.state = "case" /\ job.left # {}
  BY DEF GenerateOwn, Generate
<1>2. base \in NewRows /\ base.case = Case /\ base.config = job.config
  BY <1>1, BaseRecordIsNew DEF EvalInv
<1>3. row = [base EXCEPT !.reply = reply, !.replays = 1, !.status = "answer_completed"]
  BY DEF OwnAnswer, FilledOnce
<1> HIDE DEF row, base
<1>4. /\ row \in ResultRows /\ row.case = Case /\ row.config = job.config
      /\ row.reply = reply /\ row.status = "answer_completed" /\ row.replays = 1
  BY <1>2, <1>3 DEF NewRows, ResultRows, RowReplies, Statuses
<1>5. Sound(row)
  BY <1>1, <1>4 DEF Sound
<1>6. /\ replayed' \in [EvalHistories -> Nat] /\ snapshots' \in [EvalHistories -> Nat]
      /\ \A k \in EvalHistories \ job.stumbled :
           replayed'[k] = snapshots'[k] /\ replayed'[k] \in {0, 1}
  BY <1>1 DEF EvalInv, Replayed
<1> QED
  BY <1>1, <1>4, <1>5, <1>6, EvalGenerate

(* What AfterFailure makes of the job.                                     *)
LEMMA GoesOnWith ==
  ASSUME job \in Jobs, NEW row \in ResultRows, NEW stumbled \in SUBSET EvalHistories,
         NEW next, next = [job EXCEPT !.state = "case", !.left = @ \ {Case}, !.record = NoRecord,
                                      !.prior = Append(@, row), !.stumbled = stumbled]
  PROVE  /\ next \in Jobs /\ next.state = "case" /\ next.left = job.left \ {Case}
         /\ next.prior = Append(job.prior, row) /\ next.resume = job.resume
         /\ next.judge = job.judge /\ next.config = job.config /\ next.stumbled = stumbled
<1> DEFINE appended == Append(job.prior, row)
           left == job.left \ {Case}
<1>1. appended \in Seq(ResultRows) /\ left \in SUBSET Cases
  BY DEF Jobs
<1>2. next = [job EXCEPT !.state = "case", !.left = left, !.record = NoRecord,
                         !.prior = appended, !.stumbled = stumbled]
  OBVIOUS
<1> HIDE DEF appended, left
<1>3. /\ next \in Jobs /\ next.state = "case" /\ next.left = left
      /\ next.prior = appended /\ next.resume = job.resume
      /\ next.judge = job.judge /\ next.config = job.config /\ next.stumbled = stumbled
  BY <1>1, <1>2 DEF Jobs
<1> QED
  BY <1>3 DEF appended, left

LEMMA GoesOnAsItWas ==
  ASSUME job \in Jobs, NEW row \in ResultRows,
         NEW next, next = [job EXCEPT !.state = "case", !.left = @ \ {Case}, !.record = NoRecord,
                                      !.prior = Append(@, row)]
  PROVE  /\ next \in Jobs /\ next.state = "case" /\ next.left = job.left \ {Case}
         /\ next.prior = Append(job.prior, row) /\ next.resume = job.resume
         /\ next.judge = job.judge /\ next.config = job.config
         /\ next.stumbled = job.stumbled
<1> DEFINE appended == Append(job.prior, row)
           left == job.left \ {Case}
<1>1. appended \in Seq(ResultRows) /\ left \in SUBSET Cases
  BY DEF Jobs
<1>2. next = [job EXCEPT !.state = "case", !.left = left, !.record = NoRecord,
                         !.prior = appended]
  OBVIOUS
<1> HIDE DEF appended, left
<1>3. /\ next \in Jobs /\ next.state = "case" /\ next.left = left
      /\ next.prior = appended /\ next.resume = job.resume
      /\ next.judge = job.judge /\ next.config = job.config
      /\ next.stumbled = job.stumbled
  BY <1>1, <1>2 DEF Jobs
<1> QED
  BY <1>3 DEF appended, left

LEMMA NumberOfNoJob ==
  ASSUME NEW number
  PROVE  [NoJob EXCEPT !.number = number].state = "off"
BY DEF NoJob

(* A case without an answer; the run goes on, or ends.                     *)
LEMMA EvalGenerationFails ==
  ASSUME EvalInv, NEW half \in BOOLEAN, GenerationFails(half)
  PROVE  EvalInv'
<1> DEFINE row == [BaseRecord EXCEPT !.status = "failed"]
           h == HistoryOf[Case]
           next == AfterFailure(row)
           base == BaseRecord
<1>1. /\ job.state = "case" /\ job.left # {} /\ Appended(row) /\ job \in Jobs
      /\ half => suite = "shared" /\ Prepare(h)
      /\ job' = IF half /\ next.state # "off"
                  THEN [next EXCEPT !.stumbled = @ \cup {h}] ELSE next
      /\ replayed' = IF half /\ next.state # "off" THEN [replayed EXCEPT ![h] = @ + 1]
                     ELSE Emptied(next)
      /\ snapshots' = IF next.state = "off" THEN [k \in EvalHistories |-> 0] ELSE snapshots
  BY DEF GenerationFails, EvalInv, EvalShapes
<1>2. h \in EvalHistories
  BY <1>1, CaseIsLeft
<1>3. base \in NewRows /\ base.case = Case /\ base.reply = Unwritten
  BY <1>1, BaseRecordIsNew DEF EvalInv
<1>4. row = [base EXCEPT !.status = "failed"]
  OBVIOUS
<1>5. next = IF job.failFast THEN [NoJob EXCEPT !.number = job.number]
             ELSE [job EXCEPT !.state = "case", !.left = @ \ {Case}, !.record = NoRecord,
                              !.prior = Append(@, row)]
  BY DEF AfterFailure
<1> HIDE DEF row, base, h, next
<1>6. row \in ResultRows /\ row.case = Case /\ row.reply = Unwritten /\ row.status = "failed"
  BY <1>3, <1>4 DEF NewRows, ResultRows, Statuses
<1>7. Sound(row) /\ (\A i \in DOMAIN results : Compatible(results[i], row))
  BY <1>6, EvalAssumption DEF Sound, Compatible
<1>8. CASE job.failFast
  <2>1. next = [NoJob EXCEPT !.number = job.number] /\ next.state = "off"
    BY <1>5, <1>8, NumberOfNoJob
  <2>2. /\ UNCHANGED <<suite, torn, forgetful>> /\ results' \in Seq(ResultRows)
        /\ Len(results') <= MaxRows /\ AllSound(results')
        /\ ~forgetful => AllCompatible(results')
    BY <1>1, <1>6, <1>7, EvalAppends
  <2>3. /\ job' = [NoJob EXCEPT !.number = job.number]
        /\ replayed' = [k \in EvalHistories |-> 0] /\ snapshots' = [k \in EvalHistories |-> 0]
    BY <1>1, <2>1 DEF Emptied
  <2>4. torn' \in BOOLEAN
    BY <2>2 DEF EvalInv, EvalShapes
  <2> QED
    BY <2>2, <2>3, <2>4, EvalStops
<1>9. CASE ~job.failFast
  <2>1. next = [job EXCEPT !.state = "case", !.left = @ \ {Case}, !.record = NoRecord,
                           !.prior = Append(@, row)]
    BY <1>5, <1>9
  <2>2. /\ next \in Jobs /\ next.state = "case" /\ next.left = job.left \ {Case}
        /\ next.prior = Append(job.prior, row) /\ next.resume = job.resume
        /\ next.judge = job.judge /\ next.config = job.config
        /\ next.stumbled = job.stumbled
    BY <1>1, <1>6, <2>1, GoesOnAsItWas
  <2>3. /\ snapshots' = snapshots
        /\ job' = IF half THEN [next EXCEPT !.stumbled = @ \cup {h}] ELSE next
        /\ replayed' = IF half THEN [replayed EXCEPT ![h] = @ + 1] ELSE replayed
    BY <1>1, <2>2 DEF Emptied
  <2>4. /\ job' \in Jobs /\ job'.state = "case" /\ job'.left = job.left \ {Case}
        /\ job'.prior = Append(job.prior, row) /\ job'.resume = job.resume
        /\ job'.judge = job.judge /\ job'.config = job.config
        /\ job'.stumbled = IF half THEN job.stumbled \cup {h} ELSE job.stumbled
    <3> DEFINE stumbled == job.stumbled \cup {h}
    <3>1. stumbled \in SUBSET EvalHistories
      BY <1>1, <1>2 DEF Jobs
    <3> HIDE DEF stumbled
    <3>2. job' = IF half THEN [next EXCEPT !.stumbled = stumbled] ELSE next
      BY <2>2, <2>3 DEF stumbled
    <3>3. /\ job' \in Jobs /\ job'.state = next.state /\ job'.left = next.left
          /\ job'.prior = next.prior /\ job'.resume = next.resume
          /\ job'.judge = next.judge /\ job'.config = next.config
          /\ job'.stumbled = IF half THEN stumbled ELSE next.stumbled
      BY <2>2, <3>1, <3>2 DEF Jobs
    <3> QED
      BY <2>2, <3>3, Zenon DEF stumbled
  <2>5. /\ replayed \in [EvalHistories -> Nat] /\ snapshots \in [EvalHistories -> Nat]
        /\ \A k \in EvalHistories \ job.stumbled :
             replayed[k] = snapshots[k] /\ replayed[k] \in {0, 1}
    BY <1>1 DEF EvalInv, Replayed
  <2>6. /\ replayed' \in [EvalHistories -> Nat] /\ snapshots' \in [EvalHistories -> Nat]
        /\ \A k \in EvalHistories \ job'.stumbled :
             replayed'[k] = snapshots'[k] /\ replayed'[k] \in {0, 1}
    <3>1. CASE ~half
      BY <2>3, <2>4, <2>5, <3>1
    <3>2. CASE half
      <4>1. replayed' = [replayed EXCEPT ![h] = @ + 1] /\ snapshots' = snapshots
            /\ job'.stumbled = job.stumbled \cup {h}
        BY <2>3, <2>4, <3>2
      <4>2. replayed[h] \in Nat
        BY <1>2, <2>5
      <4>3. \A k \in EvalHistories \ {h} : replayed'[k] = replayed[k]
        BY <2>5, <4>1
      <4>4. replayed' \in [EvalHistories -> Nat]
        <5> DEFINE more == replayed[h] + 1
        <5>1. more \in Nat /\ replayed' = [replayed EXCEPT ![h] = more]
          BY <4>1, <4>2
        <5> HIDE DEF more
        <5> QED
          BY <2>5, <5>1
      <4> QED
        BY <2>5, <4>1, <4>3, <4>4
    <3> QED
      BY <3>1, <3>2
  <2> QED
    BY <1>1, <1>6, <1>7, <2>4, <2>6, EvalGoesOn
<1> QED
  BY <1>8, <1>9

(* What was about to be judged was judged, or failed to be.                *)
LEMMA EvalJudge ==
  ASSUME EvalInv, Judge
  PROVE  EvalInv'
<1> DEFINE row == [job.record EXCEPT !.judge = job.judge, !.key = JudgeKey(job.record),
                                     !.status = "completed"]
           key == JudgeKey(job.record)
           record == job.record
<1>1. /\ job.state = "judge" /\ Appended(row) /\ job \in Jobs
      /\ job' = [job EXCEPT !.state = "case", !.left = @ \ {Case}, !.record = NoRecord,
                            !.prior = Append(@, row)]
      /\ UNCHANGED <<replayed, snapshots>>
  BY DEF Judge, EvalInv, EvalShapes
<1>2. /\ job.left # {} /\ record \in ResultRows /\ Sound(record) /\ record.case = Case
      /\ record.config = job.config /\ record.reply \in Written /\ job.judge \in Judges
  BY <1>1 DEF EvalInv, EvalShapes, AtCase
<1>3. key = [judge |-> job.judge, reply |-> record.reply] /\ key \in JudgeKeys
  BY <1>2 DEF JudgeKey, JudgeKeys, RowReplies
<1>4. row = [record EXCEPT !.judge = job.judge, !.key = key, !.status = "completed"]
  OBVIOUS
<1>5. ~forgetful => \A i \in DOMAIN results : SameQuestion(results[i], record) =>
        /\ results[i].reply \in {Unwritten, record.reply}
        /\ ~(results[i].status = "completed" /\ results[i].judge = job.judge)
  BY <1>1 DEF EvalInv, PaidOnce
<1> HIDE DEF row, key, record
<1>6. /\ row \in ResultRows /\ row.case = record.case /\ row.config = record.config
      /\ row.reply = record.reply /\ row.status = "completed" /\ row.judge = job.judge
      /\ row.key = key /\ row.replays = record.replays /\ row.excused = record.excused
  BY <1>2, <1>3, <1>4 DEF ResultRows, Statuses
<1>7. Sound(row)
  BY <1>2, <1>3, <1>6 DEF Sound
<1>8. ~forgetful => \A i \in DOMAIN results : Compatible(results[i], row)
  BY <1>2, <1>5, <1>6, EvalAssumption DEF Compatible, SameQuestion
<1>9. /\ job' \in Jobs /\ job'.state = "case" /\ job'.left = job.left \ {Case}
      /\ job'.prior = Append(job.prior, row) /\ job'.resume = job.resume
      /\ job'.judge = job.judge /\ job'.config = job.config
      /\ job'.stumbled = job.stumbled
  BY <1>1, <1>6, GoesOnAsItWas
<1>10. /\ replayed' \in [EvalHistories -> Nat] /\ snapshots' \in [EvalHistories -> Nat]
       /\ \A k \in EvalHistories \ job'.stumbled :
            replayed'[k] = snapshots'[k] /\ replayed'[k] \in {0, 1}
  BY <1>1, <1>9 DEF EvalInv, Replayed
<1> QED
  BY <1>1, <1>2, <1>6, <1>7, <1>8, <1>9, <1>10, EvalGoesOn

LEMMA EvalStepFails ==
  ASSUME EvalInv, NEW key, key = NoKey \/ key = job.record.key, StepFails(key)
  PROVE  EvalInv'
<1> DEFINE row == [job.record EXCEPT !.judge = job.judge, !.status = "failed", !.key = key]
           record == job.record
           next == AfterFailure(row)
<1>1. /\ job.state = "judge" /\ Appended(row) /\ job \in Jobs
      /\ job' = next /\ replayed' = Emptied(next)
      /\ snapshots' = IF next.state = "off" THEN [h \in EvalHistories |-> 0] ELSE snapshots
  BY DEF StepFails, EvalInv, EvalShapes
<1>2. /\ job.left # {} /\ record \in ResultRows /\ Sound(record) /\ record.case = Case
      /\ record.config = job.config /\ record.reply \in Written /\ job.judge \in Judges
  BY <1>1 DEF EvalInv, EvalShapes, AtCase
<1>3. key \in JudgeKeys
  BY <1>2 DEF NoKey, JudgeKeys, RowReplies, ResultRows
<1>4. row = [record EXCEPT !.judge = job.judge, !.status = "failed", !.key = key]
  OBVIOUS
<1>5. ~forgetful => \A i \in DOMAIN results : SameQuestion(results[i], record) =>
        results[i].reply \in {Unwritten, record.reply}
  BY <1>1 DEF EvalInv, PaidOnce
<1>6. next = IF job.failFast THEN [NoJob EXCEPT !.number = job.number]
             ELSE [job EXCEPT !.state = "case", !.left = @ \ {Case}, !.record = NoRecord,
                              !.prior = Append(@, row)]
  BY DEF AfterFailure
<1> HIDE DEF row, record, next
<1>7. /\ row \in ResultRows /\ row.case = record.case /\ row.config = record.config
      /\ row.reply = record.reply /\ row.status = "failed"
      /\ row.replays = record.replays /\ row.excused = record.excused
  BY <1>2, <1>3, <1>4 DEF ResultRows, Statuses
<1>8. Sound(row)
  BY <1>2, <1>7 DEF Sound
<1>9. ~forgetful => \A i \in DOMAIN results : Compatible(results[i], row)
  BY <1>2, <1>5, <1>7, EvalAssumption DEF Compatible, SameQuestion
<1>10. CASE job.failFast
  <2>1. next = [NoJob EXCEPT !.number = job.number] /\ next.state = "off"
    BY <1>6, <1>10, NumberOfNoJob
  <2>2. /\ UNCHANGED <<suite, torn, forgetful>> /\ results' \in Seq(ResultRows)
        /\ Len(results') <= MaxRows /\ AllSound(results')
        /\ ~forgetful => AllCompatible(results')
    BY <1>1, <1>7, <1>8, <1>9, EvalAppends
  <2>3. /\ job' = [NoJob EXCEPT !.number = job.number]
        /\ replayed' = [k \in EvalHistories |-> 0] /\ snapshots' = [k \in EvalHistories |-> 0]
    BY <1>1, <2>1 DEF Emptied
  <2>4. torn' \in BOOLEAN
    BY <2>2 DEF EvalInv, EvalShapes
  <2> QED
    BY <2>2, <2>3, <2>4, EvalStops
<1>11. CASE ~job.failFast
  <2>1. next = [job EXCEPT !.state = "case", !.left = @ \ {Case}, !.record = NoRecord,
                           !.prior = Append(@, row)]
    BY <1>6, <1>11
  <2>2. /\ next \in Jobs /\ next.state = "case" /\ next.left = job.left \ {Case}
        /\ next.prior = Append(job.prior, row) /\ next.resume = job.resume
        /\ next.judge = job.judge /\ next.config = job.config
        /\ next.stumbled = job.stumbled
    BY <1>1, <1>7, <2>1, GoesOnAsItWas
  <2>3. UNCHANGED <<replayed, snapshots>>
    BY <1>1, <2>2 DEF Emptied
  <2>4. /\ replayed' \in [EvalHistories -> Nat] /\ snapshots' \in [EvalHistories -> Nat]
        /\ \A k \in EvalHistories \ job'.stumbled :
             replayed'[k] = snapshots'[k] /\ replayed'[k] \in {0, 1}
    BY <1>1, <2>2, <2>3 DEF EvalInv, Replayed
  <2> QED
    BY <1>1, <1>2, <1>7, <1>8, <1>9, <2>2, <2>4, EvalGoesOn
<1> QED
  BY <1>10, <1>11

LEMMA EvalEnds ==
  ASSUME EvalInv, WriteReport \/ \E tear \in BOOLEAN : Crash(tear)
  PROVE  EvalInv'
<1>1. /\ job' = [NoJob EXCEPT !.number = job.number] /\ UNCHANGED <<suite, results, forgetful>>
      /\ torn' = torn \/ \E tear \in BOOLEAN : torn' = (torn \/ tear)
      /\ replayed' = [h \in EvalHistories |-> 0] /\ snapshots' = [h \in EvalHistories |-> 0]
  BY DEF WriteReport, Crash
<1>2. torn' \in BOOLEAN
  BY <1>1 DEF EvalInv, EvalShapes
<1> QED
  BY <1>1, <1>2, EvalStops

LEMMA EvalStep == EvalInv /\ [EvalNext]_evalVars => EvalInv'
<1> SUFFICES ASSUME EvalInv, [EvalNext]_evalVars
             PROVE  EvalInv'
  OBVIOUS
<1>1. CASE \E judge \in Judges, resume, failFast \in BOOLEAN :
             \/ \E config \in AppConfigs : \/ StartShared(judge, config, resume, failFast)
                                          \/ StartOwn(judge, config, resume, failFast)
             \/ StartFrozen(judge, resume, failFast)
  <2>1. PICK judge \in Judges, resume \in BOOLEAN, failFast \in BOOLEAN :
           \/ \E config \in AppConfigs : Invoke(judge, config, resume, failFast)
           \/ Invoke(judge, CHOOSE config \in AppConfigs : TRUE, resume, failFast)
    BY <1>1 DEF StartShared, StartOwn, StartFrozen
  <2>2. PICK config \in AppConfigs : Invoke(judge, config, resume, failFast)
    BY <2>1, EvalAssumption
  <2> QED
    BY <2>2, EvalInvoke
<1>2. CASE \E reply \in Written : GenerateShared(reply) \/ GenerateOwn(reply)
  BY <1>2, EvalGenerateShared, EvalGenerateOwn
<1>3. CASE \E flag \in BOOLEAN : GenerationFails(flag) \/ Crash(flag)
  BY <1>3, EvalGenerationFails, EvalEnds
<1>4. CASE SkipCompleted \/ ReuseAnswer
  BY <1>4, EvalLookUp
<1>5. CASE ScoringFails \/ JudgeFailsShared \/ JudgeFailsOwn \/ JudgeFailsFrozen
  BY <1>5, EvalStepFails
    DEF ScoringFails, JudgeFailsShared, JudgeFailsOwn, JudgeFailsFrozen
<1>6. CASE JudgeShared \/ JudgeOwn \/ JudgeFrozen
  BY <1>6, EvalJudge DEF JudgeShared, JudgeOwn, JudgeFrozen
<1>7. CASE ReportShared \/ ReportOwn \/ ReportFrozen
  BY <1>7, EvalEnds DEF ReportShared, ReportOwn, ReportFrozen
<1>8. CASE UNCHANGED evalVars
  <2>1. UNCHANGED <<suite, results, torn, forgetful, job, replayed, snapshots>> /\ Case' = Case
    BY <1>8 DEF evalVars, Case
  <2>2. EvalShapes' /\ Replayed'
    BY <2>1, SameSuite DEF EvalInv, EvalShapes, Replayed
  <2>3. AtCase'
    BY <2>1, SameSuite DEF EvalInv, AtCase
  <2>4. PaidOnce'
    <3>1. AllCompatible(results)' <=> AllCompatible(results)
      BY <2>1 DEF AllCompatible, Compatible, SameQuestion
    <3>2. \A row, other : SameQuestion(row, other)' <=> SameQuestion(row, other)
      BY DEF SameQuestion
    <3> QED
      BY <2>1, <3>1, <3>2 DEF EvalInv, PaidOnce, SameQuestion
  <2> QED
    BY <2>2, <2>3, <2>4 DEF EvalInv
<1> QED
  BY <1>1, <1>2, <1>3, <1>4, <1>5, <1>6, <1>7, <1>8 DEF EvalNext

-----------------------------------------------------------------------------
(* Theorems.                                                               *)

LEMMA EvalInvariance == EvalSpec => []EvalInv
BY EvalStarts, EvalStep, PTL DEF EvalSpec

(* Every row of results.jsonl is of a case and says what became of it.     *)
THEOREM EvalTyped == EvalSpec => []EvalTypeOK
<1>1. ASSUME EvalInv
      PROVE  EvalTypeOK
  <2>1. \A i \in DOMAIN results : results[i] \in ResultRows
    BY <1>1 DEF EvalInv, EvalShapes
  <2>2. job.state \in {"off", "case", "judge"} /\ job.number \in 0 .. MaxRuns
    BY <1>1 DEF EvalInv, EvalShapes, Jobs
  <2>3. torn \in BOOLEAN /\ forgetful \in BOOLEAN /\ Len(results) <= MaxRows
    BY <1>1 DEF EvalInv, EvalShapes
  <2> QED
    BY <2>1, <2>2, <2>3 DEF EvalTypeOK, ResultRows, Statuses, RowReplies
<1> QED
  BY <1>1, EvalInvariance, PTL

(* As long as every run of an answer evaluation resumes, no failure, crash *)
(* or change of the judge makes a later one pay for an answer or a verdict *)
(* twice; and no answer is asked on a history that was replayed twice,     *)
(* unless preparing it had failed before.                                  *)
THEOREM ResumedRunsStaySound == EvalSpec => [](NothingIsPaidTwice /\ AnswersSeeOneHistory)
<1>1. EvalInv => NothingIsPaidTwice
  BY DEF EvalInv, PaidOnce, AllCompatible, Compatible, SameQuestion, NothingIsPaidTwice
<1>2. EvalInv => AnswersSeeOneHistory
  BY DEF EvalInv, EvalShapes, AllSound, Sound, AnswersSeeOneHistory
<1> QED
  BY <1>1, <1>2, EvalInvariance, PTL

-----------------------------------------------------------------------------
(***************************************************************************)
(* The file as a ledger.  That a verdict is about an answer of the file    *)
(* rests on Backed: every reply that is kept, in a row of whatever status, *)
(* in prior_rows or in the job, was written to the file as an answer.      *)
(***************************************************************************)

BackedBy(rows, row) ==
  row.reply # Unwritten =>
    \E i \in DOMAIN rows :
      /\ rows[i].status = "answer_completed" /\ SameQuestion(rows[i], row)
      /\ rows[i].reply = row.reply
      /\ rows[i].replays = row.replays /\ rows[i].excused = row.excused
AllBacked(rows, others) == \A i \in DOMAIN others : BackedBy(rows, others[i])

Backed ==
  suite # "frozen" =>
    /\ AllBacked(results, results) /\ AllBacked(results, job.prior)
    /\ job.state = "judge" => BackedBy(results, job.record)

\* What is backed stays backed when a row is appended.
LEMMA BackedLonger ==
  ASSUME NEW rows \in Seq(ResultRows), NEW row
  PROVE  /\ \A other : BackedBy(rows, other) => BackedBy(Append(rows, row), other)
         /\ \A others : AllBacked(rows, others) => AllBacked(Append(rows, row), others)
<1>1. \A i \in DOMAIN rows : /\ i \in DOMAIN Append(rows, row)
                            /\ Append(rows, row)[i] = rows[i]
  OBVIOUS
<1>2. \A other : BackedBy(rows, other) => BackedBy(Append(rows, row), other)
  BY <1>1 DEF BackedBy
<1> QED
  BY <1>2 DEF AllBacked

LEMMA BackedRows ==
  ASSUME NEW rows, NEW others \in Seq(ResultRows), NEW row,
         AllBacked(rows, others), BackedBy(rows, row)
  PROVE  AllBacked(rows, Append(others, row))
<1>1. \A i \in DOMAIN Append(others, row) :
        \/ i \in DOMAIN others /\ Append(others, row)[i] = others[i]
        \/ Append(others, row)[i] = row
  OBVIOUS
<1> QED
  BY <1>1 DEF AllBacked

\* the job goes on with the row, to its judge or to the next case, or is over
JobTakes(row) ==
  \/ job'.prior = Append(job.prior, row) /\ (job'.state = "judge" => job'.record = row)
  \/ job'.prior = <<>> /\ job'.state = "off"

\* The row a step appends is backed, by itself or by what was there.
LEMMA BackedAppends ==
  ASSUME EvalShapes, Backed, NEW row, Appended(row),
         suite # "frozen" => BackedBy(Append(results, row), row),
         JobTakes(row)
  PROVE  Backed'
<1> SUFFICES ASSUME suite # "frozen"
             PROVE  /\ AllBacked(results', results') /\ AllBacked(results', job'.prior)
                    /\ job'.state = "judge" => BackedBy(results', job'.record)
  BY DEF Appended, Backed
<1>1. results \in Seq(ResultRows) /\ job.prior \in Seq(ResultRows)
  BY DEF EvalShapes, Jobs
<1>2. results' = Append(results, row) /\ BackedBy(results', row)
  BY DEF Appended
<1>3. AllBacked(results', results) /\ AllBacked(results', job.prior)
  BY <1>1, <1>2, BackedLonger DEF Backed
<1>4. AllBacked(results', results')
  BY <1>1, <1>2, <1>3, BackedRows
<1>5. AllBacked(results', Append(job.prior, row))
  BY <1>1, <1>2, <1>3, BackedRows
<1>6. AllBacked(results', <<>>)
  BY DEF AllBacked
<1> QED
  BY <1>2, <1>4, <1>5, <1>6 DEF JobTakes

\* A failed step: the job goes on with the next case, or is over.
LEMMA FailureTakes ==
  ASSUME job \in Jobs, NEW row, NEW next, next = AfterFailure(row)
  PROVE  \/ next.prior = Append(job.prior, row) /\ next.state = "case"
         \/ next.prior = <<>> /\ next.state = "off"
BY DEF AfterFailure, Jobs, NoJob

LEMMA GeneratedRow ==
  ASSUME EvalShapes, NEW reply \in Written, GenerateShared(reply) \/ GenerateOwn(reply)
  PROVE  /\ suite # "frozen"
         /\ \E row : /\ Appended(row) /\ row.status = "answer_completed" /\ JobTakes(row)
<1>1. CASE GenerateShared(reply)
  <2> DEFINE row == SharedAnswer(reply)
  <2>1. row.status = "answer_completed"
    BY DEF SharedAnswer, BaseRecord
  <2>2. suite = "shared" /\ Generate(row) /\ job \in Jobs
    BY <1>1 DEF GenerateShared, EvalShapes
  <2> HIDE DEF row
  <2>3. Appended(row) /\ job'.prior = Append(job.prior, row) /\ job'.record = row
    BY <2>2 DEF Generate, Jobs
  <2> QED
    BY <2>1, <2>2, <2>3 DEF JobTakes
<1>2. CASE GenerateOwn(reply)
  <2> DEFINE row == OwnAnswer(reply)
  <2>1. row.status = "answer_completed"
    BY DEF OwnAnswer, BaseRecord
  <2>2. suite = "own" /\ Generate(row) /\ job \in Jobs
    BY <1>2 DEF GenerateOwn, EvalShapes
  <2> HIDE DEF row
  <2>3. Appended(row) /\ job'.prior = Append(job.prior, row) /\ job'.record = row
    BY <2>2 DEF Generate, Jobs
  <2> QED
    BY <2>1, <2>2, <2>3 DEF JobTakes
<1> QED
  BY <1>1, <1>2

\* A case that failed before there was an answer has none.
LEMMA UnansweredRow ==
  ASSUME EvalShapes, NEW half \in BOOLEAN, GenerationFails(half)
  PROVE  \E row : /\ Appended(row) /\ row.status = "failed" /\ JobTakes(row)
                  /\ BackedBy(results, row)
<1> DEFINE row == [BaseRecord EXCEPT !.status = "failed"]
           next == AfterFailure(row)
           h == HistoryOf[Case]
<1>1. row.status = "failed" /\ row.reply = Unwritten
  BY DEF BaseRecord
<1>2. /\ Appended(row) /\ job \in Jobs
      /\ job' = IF half /\ next.state # "off"
                  THEN [next EXCEPT !.stumbled = @ \cup {h}] ELSE next
  BY DEF GenerationFails, EvalShapes
<1>3. next = AfterFailure(row)
  OBVIOUS
<1> HIDE DEF row, next, h
<1>4. \/ next.prior = Append(job.prior, row) /\ next.state = "case"
      \/ next.prior = <<>> /\ next.state = "off"
  BY <1>2, <1>3, FailureTakes
<1>5. job'.prior = next.prior /\ job'.state = next.state
  BY <1>2
<1> QED
  BY <1>1, <1>2, <1>4, <1>5 DEF JobTakes, BackedBy

\* What was judged, or failed to be, is what the job had an answer for.
LEMMA JudgedRow ==
  ASSUME EvalInv, Backed, Judge \/ \E key : StepFails(key)
  PROVE  \E row : /\ Appended(row) /\ JobTakes(row)
                  /\ row.status \in {"completed", "failed"}
                  /\ suite # "frozen" => BackedBy(results, row)
<1>1. job.state = "judge" /\ job \in Jobs /\ job.record \in ResultRows
  BY DEF Judge, StepFails, EvalInv, EvalShapes, AtCase
<1>2. suite # "frozen" => BackedBy(results, job.record)
  BY <1>1 DEF Backed
<1>3. CASE Judge
  <2> DEFINE row == [job.record EXCEPT !.judge = job.judge, !.key = JudgeKey(job.record),
                                       !.status = "completed"]
  <2>1. /\ row.status = "completed" /\ row.case = job.record.case
        /\ row.config = job.record.config /\ row.reply = job.record.reply
        /\ row.replays = job.record.replays /\ row.excused = job.record.excused
    BY <1>1 DEF ResultRows
  <2>2. /\ Appended(row)
        /\ job' = [job EXCEPT !.state = "case", !.left = @ \ {Case}, !.record = NoRecord,
                              !.prior = Append(@, row)]
    BY <1>3 DEF Judge
  <2> HIDE DEF row
  <2>3. job'.prior = Append(job.prior, row) /\ job'.state = "case"
    BY <1>1, <2>2 DEF Jobs
  <2>4. suite # "frozen" => BackedBy(results, row)
    BY <1>2, <2>1 DEF BackedBy, SameQuestion
  <2> QED
    BY <2>1, <2>2, <2>3, <2>4 DEF JobTakes
<1>4. CASE ~Judge
  <2>1. PICK key : StepFails(key)
    BY <1>4, Zenon
  <2> DEFINE row == [job.record EXCEPT !.judge = job.judge, !.status = "failed", !.key = key]
             next == AfterFailure(row)
  <2>2. /\ row.status = "failed" /\ row.case = job.record.case
        /\ row.config = job.record.config /\ row.reply = job.record.reply
        /\ row.replays = job.record.replays /\ row.excused = job.record.excused
    BY <1>1 DEF ResultRows
  <2>3. Appended(row) /\ job' = next
    BY <2>1 DEF StepFails
  <2>4. next = AfterFailure(row)
    OBVIOUS
  <2> HIDE DEF row, next
  <2>5. JobTakes(row)
    BY <1>1, <2>3, <2>4, FailureTakes DEF JobTakes
  <2>6. suite # "frozen" => BackedBy(results, row)
    BY <1>2, <2>2 DEF BackedBy, SameQuestion
  <2> QED
    BY <2>2, <2>3, <2>5, <2>6
<1> QED
  BY <1>3, <1>4

\* The other steps leave the file as it is; a run reads it, finds an answer
\* in it, or is over.
LEMMA ReadRows ==
  ASSUME EvalInv, Backed,
         \/ \E judge, config, resume, failFast : Invoke(judge, config, resume, failFast)
         \/ SkipCompleted \/ ReuseAnswer \/ WriteReport \/ \E tear \in BOOLEAN : Crash(tear)
  PROVE  UNCHANGED <<suite, results>> /\ (forgetful' \/ forgetful' = forgetful) /\ Backed'
<1>1. UNCHANGED <<suite, results>> /\ (forgetful' \/ forgetful' = forgetful) /\ job \in Jobs
  BY DEF Invoke, SkipCompleted, ReuseAnswer, WriteReport, Crash, EvalInv, EvalShapes
<1>2. ASSUME NEW judge, NEW config, NEW resume, NEW failFast,
             Invoke(judge, config, resume, failFast)
      PROVE  job'.state = "case" /\ (job'.prior = results \/ job'.prior = <<>>)
  <2> DEFINE read == IF resume THEN results ELSE <<>>
  <2>1. job' = [NoJob EXCEPT !.state = "case", !.number = job.number + 1, !.resume = resume,
                  !.failFast = failFast, !.judge = judge, !.config = config,
                  !.prior = read, !.left = Cases]
    BY <1>2 DEF Invoke
  <2>2. read = results \/ read = <<>>
    OBVIOUS
  <2> HIDE DEF read
  <2> QED
    BY <2>1, <2>2 DEF NoJob
<1>3. ASSUME SkipCompleted
      PROVE  job'.state = "case" /\ job'.prior = job.prior
  BY <1>1, <1>3 DEF SkipCompleted, Jobs
<1>4. ASSUME ReuseAnswer
      PROVE  /\ job'.prior = job.prior
             /\ suite # "frozen" => \E i \in DOMAIN job.prior : job'.record = job.prior[i]
  <2>1. /\ job.state = "case" /\ job.left # {} /\ Cached # NoRecord
        /\ job' = [job EXCEPT !.state = "judge", !.record = Cached]
    BY <1>4 DEF ReuseAnswer
  <2>2. suite # "frozen" => \E i \in DOMAIN job.prior : Cached = job.prior[i]
    BY <2>1, WhatIsCached DEF EvalInv
  <2> QED
    BY <1>1, <2>1, <2>2 DEF Jobs
<1>5. ASSUME WriteReport \/ \E tear \in BOOLEAN : Crash(tear)
      PROVE  job'.state = "off" /\ job'.prior = <<>>
  BY <1>5 DEF WriteReport, Crash, NoJob
<1>6. AllBacked(results, <<>>)
  BY DEF AllBacked
<1>7. Backed'
  <2> SUFFICES ASSUME suite # "frozen"
               PROVE  /\ AllBacked(results, results) /\ AllBacked(results, job'.prior)
                      /\ job'.state = "judge" => BackedBy(results, job'.record)
    BY <1>1 DEF Backed
  <2>1. AllBacked(results, results) /\ AllBacked(results, job.prior)
    BY DEF Backed
  <2>2. CASE ReuseAnswer
    BY <1>4, <2>1, <2>2 DEF AllBacked
  <2>3. CASE SkipCompleted
    BY <1>3, <2>1, <2>3
  <2>4. CASE WriteReport \/ \E tear \in BOOLEAN : Crash(tear)
    BY <1>5, <1>6, <2>1, <2>4
  <2>5. CASE \E judge, config, resume, failFast : Invoke(judge, config, resume, failFast)
    BY <1>2, <1>6, <2>1, <2>5
  <2> QED
    BY <2>2, <2>3, <2>4, <2>5
<1> QED
  BY <1>1, <1>7

\* What a step may do to the file.
AddsAnswer == \E row : /\ Appended(row) /\ JobTakes(row) /\ row.status = "answer_completed"
                       /\ suite # "frozen"
AddsOutcome == \E row : /\ Appended(row) /\ JobTakes(row)
                        /\ row.status \in {"completed", "failed"}
                        /\ suite # "frozen" => BackedBy(results, row)
AddsNothing == UNCHANGED <<suite, results>> /\ (forgetful' \/ forgetful' = forgetful)

LEMMA WhatIsAdded ==
  ASSUME EvalInv, Backed, [EvalNext]_evalVars
  PROVE  AddsAnswer \/ AddsOutcome \/ (AddsNothing /\ Backed')
<1>1. CASE \E judge \in Judges, resume, failFast \in BOOLEAN :
             \/ \E config \in AppConfigs : \/ StartShared(judge, config, resume, failFast)
                                          \/ StartOwn(judge, config, resume, failFast)
             \/ StartFrozen(judge, resume, failFast)
  <2>1. \E judge, config, resume, failFast : Invoke(judge, config, resume, failFast)
    BY <1>1 DEF StartShared, StartOwn, StartFrozen
  <2> QED
    BY <2>1, ReadRows DEF AddsNothing
<1>2. CASE \E reply \in Written : GenerateShared(reply) \/ GenerateOwn(reply)
  BY <1>2, GeneratedRow DEF AddsAnswer, EvalInv
<1>3. CASE \E flag \in BOOLEAN : GenerationFails(flag)
  BY <1>3, UnansweredRow DEF AddsOutcome, EvalInv
<1>4. CASE SkipCompleted \/ ReuseAnswer \/ \E flag \in BOOLEAN : Crash(flag)
  BY <1>4, ReadRows DEF AddsNothing
<1>5. CASE ScoringFails \/ JudgeFailsShared \/ JudgeFailsOwn \/ JudgeFailsFrozen
  <2>1. \E key : StepFails(key)
    BY <1>5 DEF ScoringFails, JudgeFailsShared, JudgeFailsOwn, JudgeFailsFrozen
  <2> QED
    BY <2>1, JudgedRow DEF AddsOutcome
<1>6. CASE JudgeShared \/ JudgeOwn \/ JudgeFrozen
  BY <1>6, JudgedRow DEF JudgeShared, JudgeOwn, JudgeFrozen, AddsOutcome
<1>7. CASE ReportShared \/ ReportOwn \/ ReportFrozen
  BY <1>7, ReadRows DEF ReportShared, ReportOwn, ReportFrozen, AddsNothing
<1>8. CASE UNCHANGED evalVars
  BY <1>8 DEF evalVars, Backed, AddsNothing
<1> QED
  BY <1>1, <1>2, <1>3, <1>4, <1>5, <1>6, <1>7, <1>8 DEF EvalNext

LEMMA BackedStep ==
  ASSUME EvalInv, Backed, [EvalNext]_evalVars
  PROVE  Backed'
<1>1. results \in Seq(ResultRows)
  BY DEF EvalInv, EvalShapes
<1>2. CASE AddsAnswer
  <2>1. PICK row : Appended(row) /\ JobTakes(row) /\ row.status = "answer_completed"
    BY <1>2 DEF AddsAnswer
  <2>2. /\ Len(results) + 1 \in DOMAIN Append(results, row)
        /\ Append(results, row)[Len(results) + 1] = row
    BY <1>1
  <2>3. BackedBy(Append(results, row), row)
    BY <2>1, <2>2 DEF BackedBy, SameQuestion
  <2> QED
    BY <2>1, <2>3, BackedAppends DEF EvalInv
<1>3. CASE AddsOutcome
  <2>1. PICK row : /\ Appended(row) /\ JobTakes(row)
                   /\ suite # "frozen" => BackedBy(results, row)
    BY <1>3 DEF AddsOutcome
  <2> QED
    BY <1>1, <2>1, BackedLonger, BackedAppends DEF EvalInv
<1> QED
  BY <1>2, <1>3, WhatIsAdded

\* The entries of a file.
AnswerAt(i, row) == [at |-> i, case |-> row.case, config |-> row.config, reply |-> row.reply,
                     replays |-> row.replays, excused |-> row.excused]
VerdictAt(i, row) == [at |-> i, case |-> row.case, config |-> row.config, reply |-> row.reply,
                      replays |-> row.replays, excused |-> row.excused, judge |-> row.judge]

LEMMA EntriesOfFile ==
  /\ AnswerEntries = {AnswerAt(i, results[i]) :
                        i \in {j \in DOMAIN results : results[j].status = "answer_completed"}}
  /\ VerdictEntries = {VerdictAt(i, results[i]) :
                         i \in {j \in DOMAIN results : results[j].status = "completed"}}
BY DEF AnswerEntries, VerdictEntries, AnswerAt, VerdictAt

\* An appended row is the last entry, or no entry if the step failed.
LEMMA EntriesGrow ==
  ASSUME results \in Seq(ResultRows), NEW row, results' = Append(results, row),
         NEW n, n = Len(results) + 1
  PROVE  /\ AnswerEntries' = IF row.status = "answer_completed"
                               THEN AnswerEntries \cup {AnswerAt(n, row)} ELSE AnswerEntries
         /\ VerdictEntries' = IF row.status = "completed"
                                THEN VerdictEntries \cup {VerdictAt(n, row)} ELSE VerdictEntries
         /\ \A entry \in AnswerEntries \cup VerdictEntries : entry.at < n
<1>1. /\ n \in Nat /\ DOMAIN results' = DOMAIN results \cup {n} /\ results'[n] = row
      /\ \A i \in DOMAIN results : i < n /\ results'[i] = results[i]
  OBVIOUS
<1>2. /\ AnswerEntries' = {AnswerAt(i, results'[i]) :
                             i \in {j \in DOMAIN results' : results'[j].status = "answer_completed"}}
      /\ VerdictEntries' = {VerdictAt(i, results'[i]) :
                              i \in {j \in DOMAIN results' : results'[j].status = "completed"}}
  BY DEF AnswerEntries, VerdictEntries, AnswerAt, VerdictAt
<1>3. \A i, r : AnswerAt(i, r).at = i /\ VerdictAt(i, r).at = i
  BY DEF AnswerAt, VerdictAt
<1>4. \A entry \in AnswerEntries \cup VerdictEntries : entry.at < n
  BY <1>1, <1>3, EntriesOfFile
<1>5. AnswerEntries' = IF row.status = "answer_completed"
                         THEN AnswerEntries \cup {AnswerAt(n, row)} ELSE AnswerEntries
  <2> DEFINE old == {j \in DOMAIN results : results[j].status = "answer_completed"}
             all == {j \in DOMAIN results' : results'[j].status = "answer_completed"}
  <2>1. all = IF row.status = "answer_completed" THEN old \cup {n} ELSE old
    BY <1>1
  <2>2. \A i \in old : results'[i] = results[i]
    BY <1>1
  <2> HIDE DEF old, all
  <2>3. /\ AnswerEntries' = {AnswerAt(i, results'[i]) : i \in all}
        /\ AnswerEntries = {AnswerAt(i, results[i]) : i \in old}
    BY <1>2, EntriesOfFile DEF old, all
  <2> QED
    BY <1>1, <2>1, <2>2, <2>3
<1>6. VerdictEntries' = IF row.status = "completed"
                          THEN VerdictEntries \cup {VerdictAt(n, row)} ELSE VerdictEntries
  <2> DEFINE old == {j \in DOMAIN results : results[j].status = "completed"}
             all == {j \in DOMAIN results' : results'[j].status = "completed"}
  <2>1. all = IF row.status = "completed" THEN old \cup {n} ELSE old
    BY <1>1
  <2>2. \A i \in old : results'[i] = results[i]
    BY <1>1
  <2> HIDE DEF old, all
  <2>3. /\ VerdictEntries' = {VerdictAt(i, results'[i]) : i \in all}
        /\ VerdictEntries = {VerdictAt(i, results[i]) : i \in old}
    BY <1>2, EntriesOfFile DEF old, all
  <2> QED
    BY <1>1, <2>1, <2>2, <2>3
<1> QED
  BY <1>4, <1>5, <1>6

\* The row is sound, and stands with the rows that were there.
LEMMA AppendedStands ==
  ASSUME EvalInv, EvalInv', NEW row, Appended(row)
  PROVE  /\ results \in Seq(ResultRows) /\ results' = Append(results, row)
         /\ UNCHANGED <<suite, forgetful>> /\ row \in ResultRows /\ Sound(row)
         /\ ~forgetful => \A i \in DOMAIN results : Compatible(results[i], row)
<1> DEFINE n == Len(results) + 1
<1>1. results \in Seq(ResultRows) /\ results' = Append(results, row) /\ UNCHANGED <<suite, forgetful>>
  BY DEF Appended, EvalInv, EvalShapes
<1>2. /\ n \in DOMAIN results' /\ results'[n] = row
      /\ \A i \in DOMAIN results : i \in DOMAIN results' /\ i # n /\ results'[i] = results[i]
  BY <1>1
<1>3. results' \in Seq(ResultRows) /\ AllSound(results')
  BY <1>1, SameSuite DEF EvalInv, EvalShapes
<1>4. ~forgetful => AllCompatible(results')
  BY <1>1 DEF EvalInv, PaidOnce, AllCompatible, Compatible, SameQuestion
<1> HIDE DEF n
<1>5. row \in ResultRows /\ Sound(row)
  BY <1>2, <1>3 DEF AllSound
<1> QED
  BY <1>1, <1>2, <1>4, <1>5 DEF AllCompatible

LEMMA AnswerIsEntered ==
  ASSUME EvalInv, EvalInv', AddsAnswer
  PROVE  Ledger!LNext
<1>1. PICK row : Appended(row) /\ row.status = "answer_completed" /\ suite # "frozen"
  BY DEF AddsAnswer
<1> DEFINE n == Len(results) + 1
           entry == AnswerAt(n, row)
<1>2. /\ results \in Seq(ResultRows) /\ results' = Append(results, row)
      /\ UNCHANGED <<suite, forgetful>> /\ row \in ResultRows /\ Sound(row)
      /\ ~forgetful => \A i \in DOMAIN results : Compatible(results[i], row)
  BY <1>1, AppendedStands
<1>3. /\ AnswerEntries' = AnswerEntries \cup {entry} /\ VerdictEntries' = VerdictEntries
      /\ \A other \in AnswerEntries \cup VerdictEntries : other.at < n
  BY <1>1, <1>2, EntriesGrow
<1>4. /\ entry.at = n /\ entry.case = row.case /\ entry.config = row.config
      /\ entry.replays = row.replays /\ entry.excused = row.excused
  BY DEF AnswerAt
<1>5. entry.excused \/ entry.replays = 1
  BY <1>1, <1>2, <1>4, EvalAssumption DEF Sound
<1>6. ~forgetful => \A other \in AnswerEntries :
                      ~(entry.case = other.case /\ entry.config = other.config)
  BY <1>1, <1>2, <1>4, EntriesOfFile DEF Compatible, SameQuestion, AnswerAt
<1> HIDE DEF entry, n
<1>7. Ledger!Answer(entry)
  BY <1>1, <1>2, <1>3, <1>4, <1>5, <1>6
    DEF Ledger!Answer, Ledger!IsLast, Ledger!SameQuestionAs
<1> QED
  BY <1>3, <1>7 DEF Ledger!LNext

LEMMA OutcomeIsEntered ==
  ASSUME EvalInv, EvalInv', Backed, AddsOutcome
  PROVE  [Ledger!LNext]_(Ledger!ledgerVars)
<1>1. PICK row : /\ Appended(row) /\ row.status \in {"completed", "failed"}
                 /\ suite # "frozen" => BackedBy(results, row)
  BY DEF AddsOutcome
<1> DEFINE n == Len(results) + 1
           entry == VerdictAt(n, row)
<1>2. /\ results \in Seq(ResultRows) /\ results' = Append(results, row)
      /\ UNCHANGED <<suite, forgetful>> /\ row \in ResultRows /\ Sound(row)
      /\ ~forgetful => \A i \in DOMAIN results : Compatible(results[i], row)
  BY <1>1, AppendedStands
<1>3. /\ AnswerEntries' = AnswerEntries
      /\ VerdictEntries' = IF row.status = "completed" THEN VerdictEntries \cup {entry}
                                                       ELSE VerdictEntries
      /\ \A other \in AnswerEntries \cup VerdictEntries : other.at < n
  BY <1>1, <1>2, EntriesGrow
<1>4. CASE row.status = "failed"
  BY <1>2, <1>3, <1>4 DEF Ledger!ledgerVars
<1>5. CASE row.status = "completed"
  <2>1. /\ entry.at = n /\ entry.case = row.case /\ entry.config = row.config
        /\ entry.reply = row.reply /\ entry.judge = row.judge
        /\ entry.replays = row.replays /\ entry.excused = row.excused
    BY DEF VerdictAt
  <2>2. ~forgetful => \A other \in VerdictEntries :
          ~(entry.case = other.case /\ entry.config = other.config /\ entry.judge = other.judge)
    BY <1>2, <1>5, <2>1, EntriesOfFile DEF Compatible, SameQuestion, VerdictAt
  <2>3. ASSUME suite # "frozen"
        PROVE  \E answer \in AnswerEntries :
                 /\ entry.case = answer.case /\ entry.config = answer.config
                 /\ entry.reply = answer.reply
                 /\ entry.replays = answer.replays /\ entry.excused = answer.excused
    <3>1. row.reply # Unwritten
      BY <1>2, <1>5, EvalAssumption DEF Sound
    <3>2. PICK i \in DOMAIN results :
            /\ results[i].status = "answer_completed" /\ SameQuestion(results[i], row)
            /\ results[i].reply = row.reply
            /\ results[i].replays = row.replays /\ results[i].excused = row.excused
      BY <1>1, <2>3, <3>1 DEF BackedBy
    <3>3. AnswerAt(i, results[i]) \in AnswerEntries
      BY <3>2, EntriesOfFile
    <3> QED
      BY <2>1, <3>2, <3>3 DEF AnswerAt, SameQuestion
  <2> HIDE DEF entry, n
  <2>4. Ledger!Grade(entry)
    BY <1>2, <1>3, <1>5, <2>1, <2>2, <2>3
      DEF Ledger!Grade, Ledger!IsLast, Ledger!IsAbout, Ledger!SameQuestionAs
  <2> QED
    BY <1>3, <1>5, <2>4 DEF Ledger!LNext
<1> QED
  BY <1>1, <1>4, <1>5

LEMMA NothingIsEntered ==
  ASSUME EvalInv, EvalInv', AddsNothing
  PROVE  [Ledger!LNext]_(Ledger!ledgerVars)
<1>1. AnswerEntries' = AnswerEntries /\ VerdictEntries' = VerdictEntries /\ suite' = suite
  BY DEF AddsNothing, AnswerEntries, VerdictEntries
<1>2. (forgetful' = TRUE) \/ (forgetful' = forgetful)
  BY DEF AddsNothing, EvalInv, EvalShapes
<1> QED
  BY <1>1, <1>2 DEF Ledger!LNext, Ledger!Waive, Ledger!ledgerVars

(* append_jsonl, find_answer and find_completed_judge together keep a      *)
(* ledger: entries are only added; a resumed run adds what was not paid    *)
(* for; and a verdict is about an answer that was written to the file.     *)
THEOREM RunsKeepTheLedger == EvalSpec => KeepsEvalLedger
<1>1. EvalInit => Ledger!LInit /\ Backed
  <2> SUFFICES ASSUME EvalInit
               PROVE  Ledger!LInit /\ Backed
    OBVIOUS
  <2>1. AnswerEntries = {} /\ VerdictEntries = {}
    BY DEF EvalInit, AnswerEntries, VerdictEntries
  <2>2. Backed
    BY NoJobIsAJob DEF EvalInit, Backed, AllBacked
  <2> QED
    BY <2>1, <2>2 DEF EvalInit, Ledger!LInit
<1>2. EvalInv /\ EvalInv' /\ Backed /\ [EvalNext]_evalVars
        => Backed' /\ [Ledger!LNext]_(Ledger!ledgerVars)
  BY BackedStep, WhatIsAdded, AnswerIsEntered, OutcomeIsEntered, NothingIsEntered
<1> QED
  BY <1>1, <1>2, EvalInvariance, PTL DEF EvalSpec, KeepsEvalLedger, Ledger!LSpec

(* What the ledger is worth: whatever else happens between two entries, a  *)
(* directory that keeps it, every invocation resuming, holds one answer to *)
(* a case under a configuration, and one verdict of each judge on it.      *)
THEOREM LedgerPaysOnce == KeepsEvalLedger => []NothingIsPaidTwice
<1> DEFINE Once ==
      ~forgetful =>
        /\ \A a, b \in AnswerEntries : a.case = b.case /\ a.config = b.config => a = b
        /\ \A v, w \in VerdictEntries :
             v.case = w.case /\ v.config = w.config /\ v.judge = w.judge => v = w
<1>1. Ledger!LInit => Once
  BY DEF Ledger!LInit
<1>2. Once /\ [Ledger!LNext]_(Ledger!ledgerVars) => Once'
  <2> SUFFICES ASSUME Once, [Ledger!LNext]_(Ledger!ledgerVars)
               PROVE  Once'
    OBVIOUS
  <2>1. ASSUME NEW answer, Ledger!Answer(answer)
        PROVE  Once'
    BY <2>1 DEF Ledger!Answer, Ledger!SameQuestionAs
  <2>2. ASSUME NEW verdict, Ledger!Grade(verdict)
        PROVE  Once'
    BY <2>2 DEF Ledger!Grade, Ledger!SameQuestionAs
  <2>3. CASE Ledger!Waive
    BY <2>3 DEF Ledger!Waive
  <2>4. CASE UNCHANGED Ledger!ledgerVars
    BY <2>4 DEF Ledger!ledgerVars
  <2> QED
    BY <2>1, <2>2, <2>3, <2>4 DEF Ledger!LNext
<1>3. Once => NothingIsPaidTwice
  <2>1. ASSUME Once, ~forgetful, NEW i \in DOMAIN results, NEW j \in DOMAIN results,
               results[i].case = results[j].case, results[i].config = results[j].config
        PROVE  /\ results[i].status = "answer_completed"
                  /\ results[j].status = "answer_completed" => i = j
               /\ results[i].status = "completed" /\ results[j].status = "completed"
                  /\ results[i].judge = results[j].judge => i = j
    <3>1. ASSUME results[i].status = "answer_completed", results[j].status = "answer_completed"
          PROVE  i = j
      <4>1. AnswerAt(i, results[i]) \in AnswerEntries /\ AnswerAt(j, results[j]) \in AnswerEntries
        BY <3>1, EntriesOfFile
      <4>2. AnswerAt(i, results[i]) = AnswerAt(j, results[j])
        BY <2>1, <4>1 DEF AnswerAt
      <4> QED
        BY <4>2 DEF AnswerAt
    <3>2. ASSUME results[i].status = "completed", results[j].status = "completed",
                 results[i].judge = results[j].judge
          PROVE  i = j
      <4>1. VerdictAt(i, results[i]) \in VerdictEntries /\ VerdictAt(j, results[j]) \in VerdictEntries
        BY <3>2, EntriesOfFile
      <4>2. VerdictAt(i, results[i]) = VerdictAt(j, results[j])
        BY <2>1, <3>2, <4>1 DEF VerdictAt
      <4> QED
        BY <4>2 DEF VerdictAt
    <3> QED
      BY <3>1, <3>2
  <2> QED
    BY <2>1 DEF NothingIsPaidTwice
<1> QED
  BY <1>1, <1>2, <1>3, PTL DEF KeepsEvalLedger, Ledger!LSpec

=============================================================================
