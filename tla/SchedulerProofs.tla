--------------------------- MODULE SchedulerProofs ---------------------------
(* Proofs about Scheduler for every value of its constants: that the types  *)
(* hold, that advisory lock 42 keeps the ticks of all processes apart, and  *)
(* what the job table and its rows keep: disabled jobs, bursts of errors,   *)
(* last_run, run_count and the warm-up of a start.                          *)
EXTENDS Scheduler, TLAPS

-----------------------------------------------------------------------------
(* The domain of the job names, and jobs in memory and in the database.     *)

\* The job at a position of the tick is a registered job.
LEMMA JobAtPosition ==
    ASSUME NEW p \in 1..(Len(JobSeq) + 1), p <= Len(JobSeq)
    PROVE  JobSeq[p] \in Jobs
BY JobsAssumption DEF Jobs

\* A fresh job and the row of any job have their types.
LEMMA RowType ==
    /\ FreshJob \in JobConfig
    /\ \A c \in JobConfig : Row(c) \in SchedulerJob
    /\ NoRows \in [Jobs -> SchedulerJob]
BY DEF NoRows, FreshJob, Row, JobConfig, SchedulerJob, Causes, HardReasons, Never

\* So has a row whose fields were read at different times.
LEMMA TornType ==
    ASSUME NEW was \in SchedulerJob, NEW is \in SchedulerJob, NEW n \in 0..5
    PROVE  Torn(was, is, n) \in SchedulerJob
BY DEF Torn, SchedulerJob

\* Restoring a job from a row keeps its type.
LEMMA RestoreType ==
    ASSUME NEW c \in JobConfig, NEW row \in SchedulerJob
    PROVE  Restore(c, row) \in JobConfig
BY DEF Restore, JobConfig, SchedulerJob

\* The changes of a job's fields that the steps make keep its type.
LEMMA FieldTypes ==
    ASSUME NEW c \in JobConfig, NEW n \in Nat
    PROVE  /\ [c EXCEPT !.last = n] \in JobConfig
           /\ [c EXCEPT !.errors = @ + 1] \in JobConfig
           /\ [c EXCEPT !.errors = @ + 1, !.consec = @ + 1] \in JobConfig
           /\ [c EXCEPT !.last = n, !.runs = @ + 1] \in JobConfig
           /\ [c EXCEPT !.last = n, !.runs = @ + 1, !.consec = 0] \in JobConfig
           /\ [c EXCEPT !.errors = @ + 1, !.consec = @ + 1, !.enabled = FALSE,
                         !.reason = "config_error", !.why = "config"] \in JobConfig
           /\ [c EXCEPT !.enabled = FALSE, !.disabledAt = n,
                         !.why = IF @ \in HardCauses THEN @ ELSE "errors"] \in JobConfig
           /\ Halted(c, n) \in JobConfig
           /\ Enabled(c) \in JobConfig
           /\ Paused(c) \in JobConfig
<1>0. c.runs + 1 \in Nat /\ c.errors + 1 \in Nat /\ c.consec + 1 \in Nat
  BY DEF JobConfig
<1>1. [c EXCEPT !.last = n] \in JobConfig
  BY DEF JobConfig
<1>2. [c EXCEPT !.errors = @ + 1] \in JobConfig
  BY DEF JobConfig
<1>3. [c EXCEPT !.errors = @ + 1, !.consec = @ + 1] \in JobConfig
  BY <1>0 DEF JobConfig
<1>4. [c EXCEPT !.last = n, !.runs = @ + 1] \in JobConfig
  BY <1>0 DEF JobConfig
<1>5. [c EXCEPT !.last = n, !.runs = @ + 1, !.consec = 0] \in JobConfig
  BY <1>0 DEF JobConfig
<1>6. [c EXCEPT !.errors = @ + 1, !.consec = @ + 1, !.enabled = FALSE,
                !.reason = "config_error", !.why = "config"] \in JobConfig
  BY <1>0 DEF JobConfig, Causes, HardReasons
<1>7. [c EXCEPT !.enabled = FALSE, !.disabledAt = n,
                !.why = IF @ \in HardCauses THEN @ ELSE "errors"] \in JobConfig
  BY DEF JobConfig, Causes
<1>8. Halted(c, n) \in JobConfig
  BY DEF Halted, JobConfig, Causes, HardReasons
<1>9. Enabled(c) \in JobConfig
  BY DEF Enabled, JobConfig, Causes
<1>10. Paused(c) \in JobConfig
  BY DEF Paused, JobConfig, Causes
<1>11. QED
  BY <1>1, <1>2, <1>3, <1>4, <1>5, <1>6, <1>7, <1>8, <1>9, <1>10

-----------------------------------------------------------------------------
(* Type correctness.                                                        *)

\* Every variable of the scheduler has its type at the start.
LEMMA TypeInit == Init => TypeOK
<1> SUFFICES ASSUME Init PROVE TypeOK
  OBVIOUS
<1>1. jobs \in [Workers -> [Jobs -> JobConfig]] /\ db \in [Jobs -> SchedulerJob]
  BY RowType DEF Init
<1>2. pos \in [Threads -> 1..(Len(JobSeq) + 1)]
  BY JobsAssumption DEF Init
<1>3. table \in [Threads -> [Jobs -> SchedulerJob]] /\ ran \in [Workers -> [Jobs -> Nat \cup {Never}]]
  BY RowType DEF Init
<1>4. QED
  BY <1>1, <1>2, <1>3 DEF Init, TypeOK, Labels, Kinds

\* What a commit does: each row is the old one or one that was read, whole but
\* for a mishap.
LEMMA CommitMoves ==
    ASSUME TypeOK, NEW t \in Threads, CommitRows(t)
    PROVE  /\ table' = [table EXCEPT ![t] = NoRows]
           /\ mishaps' \in {mishaps, mishaps \cup {"torn"}}
           /\ db' \in [Jobs -> SchedulerJob]
           /\ \A j \in Jobs :
                 \/ db'[j] = db[j]
                 \/ /\ \E n \in 0..5 : db'[j] = Torn(table[t][j], Row(jobs[Owner[t]][j]), n)
                    /\ db'[j] \in {table[t][j], Row(jobs[Owner[t]][j])} \/ "torn" \in mishaps'
<1> DEFINE is(j) == Row(jobs[Owner[t]][j])
<1>1. PICK read \in [Jobs -> 0..5], saved \in SUBSET Jobs :
        /\ db' = [j \in Jobs |-> IF j \in saved THEN Torn(table[t][j], is(j), read[j]) ELSE db[j]]
        /\ table' = [table EXCEPT ![t] = NoRows]
        /\ mishaps' = IF \E j \in saved : Torn(table[t][j], is(j), read[j]) \notin {table[t][j], is(j)}
                      THEN mishaps \cup {"torn"} ELSE mishaps
  BY DEF CommitRows, Mishap
<1>2. ASSUME NEW j \in Jobs PROVE Torn(table[t][j], is(j), read[j]) \in SchedulerJob
  <2>1. table[t][j] \in SchedulerJob /\ jobs[Owner[t]][j] \in JobConfig /\ read[j] \in 0..5
    <3>1. read[j] \in 0..5
      BY <1>1
    <3>2. table[t][j] \in SchedulerJob /\ jobs[Owner[t]][j] \in JobConfig
      BY ThreadsAssumption DEF TypeOK
    <3>3. QED
      BY <3>1, <3>2
  <2>2. is(j) \in SchedulerJob
    BY <2>1, RowType
  <2>3. QED
    BY <2>1, <2>2, TornType
<1> HIDE DEF is
<1>3. db' \in [Jobs -> SchedulerJob]
  BY <1>1, <1>2 DEF TypeOK
<1>4. ASSUME NEW j \in Jobs
      PROVE  \/ db'[j] = db[j]
             \/ /\ \E n \in 0..5 : db'[j] = Torn(table[t][j], is(j), n)
                /\ db'[j] \in {table[t][j], is(j)} \/ "torn" \in mishaps'
  <2>1. CASE j \in saved
    <3>1. db'[j] = Torn(table[t][j], is(j), read[j]) /\ read[j] \in 0..5
      BY <1>1, <2>1
    <3>2. db'[j] \in {table[t][j], is(j)} \/ "torn" \in mishaps'
      BY <1>1, <2>1, <3>1
    <3>3. QED
      BY <3>1, <3>2
  <2>2. CASE j \notin saved
    BY <1>1, <2>2
  <2>3. QED
    BY <2>1, <2>2
<1>5. mishaps' \in {mishaps, mishaps \cup {"torn"}}
  BY <1>1
<1>6. QED
  BY <1>1, <1>3, <1>4, <1>5 DEF is

\* The counters of what is bounded stay numbers.
LEMMA UseType ==
    ASSUME TypeOK, NEW k \in Kinds, Use(k)
    PROVE  used' \in [Kinds -> Nat]
BY DEF TypeOK, Use

\* A step that changes one job of a process keeps the tables typed.
LEMMA OneJobType ==
    ASSUME TypeOK, NEW w \in Workers, NEW j, NEW c \in JobConfig,
           jobs' = [jobs EXCEPT ![w][j] = c]
    PROVE  jobs' \in [Workers -> [Jobs -> JobConfig]]
BY DEF TypeOK

\* So does a step that sets the record of a thread's job.
LEMMA SetJobType ==
    ASSUME TypeOK, NEW t \in Threads, NEW c \in JobConfig, SetJob(t, c)
    PROVE  jobs' \in [Workers -> [Jobs -> JobConfig]]
BY ThreadsAssumption, OneJobType DEF SetJob

\* The record of the job a thread is at.
LEMMA ConfigType ==
    ASSUME TypeOK, NEW t \in Threads, pos[t] <= Len(JobSeq)
    PROVE  Config(t) \in JobConfig
<1>1. pos[t] \in 1..(Len(JobSeq) + 1)
  BY DEF TypeOK
<1>2. JobSeq[pos[t]] \in Jobs
  BY <1>1, JobAtPosition
<1>3. QED
  BY <1>2, ThreadsAssumption DEF TypeOK, Config, JobOf

\* Replacing the table of one process by a typed one keeps the tables typed.
LEMMA TableType ==
    ASSUME TypeOK, NEW w \in Workers, NEW listed \in [Jobs -> JobConfig],
           jobs' = [jobs EXCEPT ![w] = listed]
    PROVE  jobs' \in [Workers -> [Jobs -> JobConfig]]
BY DEF TypeOK

\* What a process keeps when a tick of one of its threads is over.
LEMMA ExitType ==
    ASSUME TypeOK, NEW t \in Threads, ExitAfterTick(t)
    PROVE  /\ jobs' \in [Workers -> [Jobs -> JobConfig]]
           /\ ticks' \in [Workers -> Nat]
           /\ life' \in [Workers -> {"down", "booting", "up"}]
           /\ ran' \in [Workers -> [Jobs -> Nat \cup {Never}]]
<1>1. CASE Owner[t] \in Cli
  <2>1. [j \in Jobs |-> FreshJob] \in [Jobs -> JobConfig]
    BY RowType
  <2>2. jobs' \in [Workers -> [Jobs -> JobConfig]]
    BY <1>1, <2>1, ThreadsAssumption, TableType DEF ExitAfterTick
  <2>3. ticks' \in [Workers -> Nat]
    <3>1. ticks' = [ticks EXCEPT ![Owner[t]] = 0]
      BY <1>1 DEF ExitAfterTick
    <3>2. QED
      BY <3>1 DEF TypeOK
  <2>4. life' \in [Workers -> {"down", "booting", "up"}]
    <3>1. life' = [life EXCEPT ![Owner[t]] = "down"]
      BY <1>1 DEF ExitAfterTick
    <3>2. QED
      BY <3>1 DEF TypeOK
  <2>5. ran' \in [Workers -> [Jobs -> Nat \cup {Never}]]
    <3>1. [j \in Jobs |-> Never] \in [Jobs -> Nat \cup {Never}]
      OBVIOUS
    <3>2. ran' = [ran EXCEPT ![Owner[t]] = [j \in Jobs |-> Never]]
      BY <1>1 DEF ExitAfterTick
    <3>3. QED
      BY <3>1, <3>2 DEF TypeOK
  <2>6. QED
    BY <2>2, <2>3, <2>4, <2>5
<1>2. CASE Owner[t] \notin Cli
  <2>1. life' = life /\ jobs' = jobs /\ ticks' = ticks /\ ran' = ran
    BY <1>2 DEF ExitAfterTick
  <2>2. QED
    BY <2>1 DEF TypeOK
<1>3. QED
  BY <1>1, <1>2

\* A thread that goes on to the next job has not left the table.
LEMMA NextJobType ==
    ASSUME TypeOK, NEW t \in Threads, pc[t] \in {"run", "judge"}, NextJob(t)
    PROVE  /\ pc' \in [Threads -> Labels]
           /\ pos' \in [Threads -> 1..(Len(JobSeq) + 1)]
           /\ \A u \in Threads : pc'[u] \in {"run", "judge", "force"} => pos'[u] <= Len(JobSeq)
<1>1. pos[t] \in 1..(Len(JobSeq) + 1) /\ pos[t] <= Len(JobSeq)
  BY DEF TypeOK
<1>2. pos[t] + 1 \in 1..(Len(JobSeq) + 1)
  BY <1>1, JobsAssumption
<1>3. QED
  BY <1>1, <1>2 DEF TypeOK, NextJob, Goto, Labels

\* A handler's end leaves a typed table.
LEMMA TypeHandlerEnds ==
    ASSUME TypeOK, NEW t \in Threads,
           \/ JobSucceeds(t) \/ JobFailsTransient(t) \/ JobFailsConfig(t)
           \/ JobFailsFatal(t) \/ JobFailsOther(t) \/ JudgeErrors(t)
    PROVE  TypeOK'
<1>1. pc[t] \in {"run", "judge"} /\ pos[t] <= Len(JobSeq) /\ Owner[t] \in Workers
  BY ThreadsAssumption
  DEF TypeOK, HandlerEnds, JobSucceeds, JobFailsTransient, JobFailsConfig, JobFailsFatal,
      JobFailsOther, JudgeErrors
<1>2. Config(t) \in JobConfig /\ now[t] \in Nat /\ ticks[Owner[t]] \in Nat
  BY <1>1, ConfigType DEF TypeOK
<1>r. ASSUME NEW outcome, HandlerEnds(t, outcome) PROVE ran' \in [Workers -> [Jobs -> Nat \cup {Never}]]
  <2>1. PICK time \in Nat \cup {Never, ran[Owner[t]][JobOf(t)]} :
          ran' = [ran EXCEPT ![Owner[t]][JobOf(t)] = time]
    BY <1>2, <1>r DEF HandlerEnds
  <2>2. JobOf(t) \in Jobs
    BY <1>1, JobAtPosition DEF JobOf, TypeOK
  <2>3. ran \in [Workers -> [Jobs -> Nat \cup {Never}]]
    BY DEF TypeOK
  <2>4. time \in Nat \cup {Never}
    BY <1>1, <2>1, <2>2, <2>3
  <2>5. QED
    BY <1>1, <2>1, <2>2, <2>3, <2>4
<1>3. ASSUME jobs' \in [Workers -> [Jobs -> JobConfig]], NextJob(t),
             UNCHANGED <<clock, procVars, db, table, lockVars, now, used, mishaps>>,
             ran' \in [Workers -> [Jobs -> Nat \cup {Never}]]
      PROVE  TypeOK'
  BY <1>1, <1>3, NextJobType DEF TypeOK, procVars, lockVars
<1>4. CASE JobSucceeds(t)
  <2>1. [Config(t) EXCEPT !.last = now[t], !.runs = @ + 1, !.consec = 0] \in JobConfig
    BY <1>2, FieldTypes
  <2>2. QED
    BY <1>r, <1>3, <1>4, <2>1, SetJobType DEF JobSucceeds, HandlerEnds
<1>5. CASE JobFailsTransient(t)
  <2>1. [Config(t) EXCEPT !.errors = @ + 1] \in JobConfig
    BY <1>2, FieldTypes
  <2>2. QED
    BY <1>r, <1>3, <1>5, <2>1, SetJobType DEF JobFailsTransient, HandlerEnds
<1>6. CASE JobFailsConfig(t)
  <2>1. [Config(t) EXCEPT !.errors = @ + 1, !.consec = @ + 1, !.enabled = FALSE,
                          !.reason = "config_error", !.why = "config"] \in JobConfig
    BY <1>2, FieldTypes
  <2>2. QED
    BY <1>r, <1>3, <1>6, <2>1, SetJobType DEF JobFailsConfig, HandlerEnds
<1>7. CASE JobFailsFatal(t)
  <2> DEFINE counted == [jobs[Owner[t]] EXCEPT ![JobOf(t)].errors = @ + 1]
             listed == [j \in Jobs |-> IF j \in Expensive
                          THEN Halted(counted[j], ticks[Owner[t]]) ELSE counted[j]]
  <2>1. counted \in [Jobs -> JobConfig]
    <3>1. jobs[Owner[t]] \in [Jobs -> JobConfig]
      BY <1>1 DEF TypeOK
    <3>2. \A c \in JobConfig : [c EXCEPT !.errors = @ + 1] \in JobConfig
      BY FieldTypes
    <3>3. QED
      BY <3>1, <3>2
  <2>2. \A c \in JobConfig : Halted(c, ticks[Owner[t]]) \in JobConfig
    BY <1>2, FieldTypes
  <2>3. listed \in [Jobs -> JobConfig]
    BY <2>1, <2>2
  <2>4. jobs' = [jobs EXCEPT ![Owner[t]] = listed]
    BY <1>7 DEF JobFailsFatal
  <2>5. jobs' \in [Workers -> [Jobs -> JobConfig]]
    <3> HIDE DEF listed
    <3>1. QED
      BY <1>1, <2>3, <2>4, TableType
  <2>6. QED
    BY <1>r, <1>3, <1>7, <2>5 DEF JobFailsFatal, HandlerEnds
<1>8. CASE JobFailsOther(t)
  <2>1. [Config(t) EXCEPT !.errors = @ + 1, !.consec = @ + 1] \in JobConfig
    BY <1>2, FieldTypes
  <2>2. jobs' \in [Workers -> [Jobs -> JobConfig]]
    BY <1>8, <2>1, SetJobType DEF JobFailsOther
  <2>3. QED
    BY <1>r, <1>1, <1>8, <2>2 DEF JobFailsOther, HandlerEnds, Goto, TypeOK, Labels, procVars, lockVars
<1>9. CASE JudgeErrors(t)
  <2>1. [Config(t) EXCEPT !.enabled = FALSE, !.disabledAt = ticks[Owner[t]],
           !.why = IF @ \in HardCauses THEN @ ELSE "errors"] \in JobConfig
    BY <1>2, FieldTypes
  <2>2. jobs' \in [Workers -> [Jobs -> JobConfig]]
    BY <1>9, <2>1, SetJobType DEF JudgeErrors, TypeOK
  <2>3. QED
    BY <1>3, <1>9, <2>2 DEF JudgeErrors, ghosts, TypeOK
<1>10. QED
  BY <1>4, <1>5, <1>6, <1>7, <1>8, <1>9

\* A thread's own progress keeps the types.
LEMMA TypeProceed ==
    ASSUME TypeOK, NEW t \in Threads, Proceed(t)
    PROVE  TypeOK'
<1> USE ThreadsAssumption
<1>0. Owner[t] \in Workers /\ jobs[Owner[t]] \in [Jobs -> JobConfig]
  BY DEF TypeOK
<1>1. CASE StartRead(t)
  <2>1. table' \in [Threads -> [Jobs -> SchedulerJob]] /\ mishaps' \subseteq {"lock", "load", "torn"}
    BY <1>1 DEF StartRead, Mishap, TypeOK
  <2>2. QED
    BY <1>1, <2>1 DEF StartRead, Goto, TypeOK, Labels, lockVars
<1>a. CASE StartApply(t)
  <2>1. [j \in Jobs |-> Restore(jobs[Owner[t]][j], table[t][j])] \in [Jobs -> JobConfig]
    BY <1>0, RestoreType DEF TypeOK
  <2>2. jobs' = [jobs EXCEPT ![Owner[t]] = [j \in Jobs |-> Restore(jobs[Owner[t]][j], table[t][j])]]
    BY <1>a DEF StartApply
  <2>3. jobs' \in [Workers -> [Jobs -> JobConfig]]
    BY <1>0, <2>1, <2>2, TableType
  <2>4. table' \in [Threads -> [Jobs -> SchedulerJob]] /\ ran' \in [Workers -> [Jobs -> Nat \cup {Never}]]
    BY <1>a, RowType DEF StartApply, TypeOK
  <2>5. QED
    BY <1>a, <2>3, <2>4 DEF StartApply, Goto, TypeOK, Labels, lockVars, procVars
<1>2. CASE StartStagger(t)
  <2> DEFINE listed == [j \in Jobs |->
                  IF j \notin Immediate /\ Overdue(jobs[Owner[t]][j], clock)
                  THEN [jobs[Owner[t]][j] EXCEPT !.last = clock] ELSE jobs[Owner[t]][j]]
  <2>1. \A c \in JobConfig : [c EXCEPT !.last = clock] \in JobConfig
    BY FieldTypes DEF TypeOK
  <2>2. listed \in [Jobs -> JobConfig]
    BY <1>0, <2>1
  <2>3. jobs' = [jobs EXCEPT ![Owner[t]] = listed]
    BY <1>2 DEF StartStagger
  <2>4. jobs' \in [Workers -> [Jobs -> JobConfig]]
    <3> HIDE DEF listed
    <3>1. QED
      BY <1>0, <2>2, <2>3, TableType
  <2>5. QED
    BY <1>2, <2>4 DEF StartStagger, Goto, TypeOK, Labels, lockVars, ghosts
<1>b. CASE ReadTable(t)
  <2>1. [j \in Jobs |-> Row(jobs[Owner[t]][j])] \in [Jobs -> SchedulerJob]
    BY <1>0, RowType
  <2>2. table' \in [Threads -> [Jobs -> SchedulerJob]]
    BY <1>b, <2>1 DEF ReadTable, TypeOK
  <2>3. QED
    BY <1>b, <2>2 DEF ReadTable, Goto, TypeOK, Labels, lockVars, procVars, ghosts
<1>c. ASSUME CommitRows(t)
      PROVE  /\ db' \in [Jobs -> SchedulerJob] /\ table' \in [Threads -> [Jobs -> SchedulerJob]]
             /\ mishaps' \subseteq {"lock", "load", "torn"}
  BY <1>c, CommitMoves, RowType DEF TypeOK
<1>3. CASE StartPersist(t)
  BY <1>c, <1>3 DEF StartPersist, TypeOK, Labels, lockVars
<1>d. CASE SaveTick(t)
  BY <1>c, <1>d DEF SaveTick, Goto, TypeOK, Labels, lockVars, procVars
<1>4. CASE StopReturns(t)
  BY <1>4 DEF StopReturns, Goto, TypeOK, Labels, procVars, lockVars, ghosts
<1>5. CASE SkipJob(t)
  <2>1. pos[t] \in 1..(Len(JobSeq) + 1) /\ pos[t] <= Len(JobSeq)
    BY <1>5 DEF SkipJob, AtJob, TypeOK
  <2>2. pos[t] + 1 \in 1..(Len(JobSeq) + 1)
    BY <2>1, JobsAssumption
  <2>3. QED
    BY <1>5, <2>2 DEF SkipJob, AtJob, TypeOK, procVars, lockVars, ghosts
<1>6. CASE StartJob(t)
  BY <1>6 DEF StartJob, AtJob, Goto, TypeOK, Labels, procVars, lockVars, ghosts
<1>7. CASE ReEnable(t)
  <2> DEFINE listed == [j \in Jobs |->
                  IF CooledDown(jobs[Owner[t]][j], ticks[Owner[t]])
                  THEN Enabled(jobs[Owner[t]][j]) ELSE jobs[Owner[t]][j]]
  <2>1. \A c \in JobConfig :
           Enabled(c) \in JobConfig
    BY FieldTypes
  <2>2. listed \in [Jobs -> JobConfig]
    BY <1>0, <2>1
  <2>3. jobs' = [jobs EXCEPT ![Owner[t]] = listed]
    BY <1>7 DEF ReEnable
  <2>4. jobs' \in [Workers -> [Jobs -> JobConfig]]
    <3> HIDE DEF listed
    <3>1. QED
      BY <1>0, <2>2, <2>3, TableType
  <2>5. QED
    BY <1>7, <2>4 DEF ReEnable, Goto, TypeOK, Labels, procVars, lockVars, ghosts
<1>8. CASE EndTick(t)
  <2>1. holder' \in Threads \cup {NoThread} /\ leaked' \subseteq Workers
    BY <1>0, <1>8 DEF EndTick, Unlock, lockVars, TypeOK
  <2>2. /\ jobs' \in [Workers -> [Jobs -> JobConfig]]
        /\ ticks' \in [Workers -> Nat]
        /\ life' \in [Workers -> {"down", "booting", "up"}]
        /\ ran' \in [Workers -> [Jobs -> Nat \cup {Never}]]
    BY <1>8, ExitType DEF EndTick
  <2>3. 1 \in 1..(Len(JobSeq) + 1)
    BY JobsAssumption
  <2>4. QED
    BY <1>8, <2>1, <2>2, <2>3 DEF EndTick, AfterTick, Goto, TypeOK, Labels
<1>9. ASSUME ForceEnds(t), jobs' \in [Workers -> [Jobs -> JobConfig]] PROVE TypeOK'
  <2>1. 1 \in 1..(Len(JobSeq) + 1)
    BY JobsAssumption
  <2>2. QED
    BY <1>9, <2>1 DEF ForceEnds, Goto, TypeOK, Labels, procVars, lockVars, ghosts
<1>10. CASE ForceSucceeds(t)
  <2>1. Config(t) \in JobConfig
    BY <1>10, ConfigType DEF ForceSucceeds, ForceEnds, TypeOK
  <2>2. [Config(t) EXCEPT !.last = clock, !.runs = @ + 1] \in JobConfig
    BY <2>1, FieldTypes DEF TypeOK
  <2>3. QED
    BY <1>9, <1>10, <2>2, SetJobType DEF ForceSucceeds
<1>11. CASE ForceFails(t)
  BY <1>9, <1>11 DEF ForceFails, TypeOK
<1>12. QED
  BY <1>1, <1>a, <1>2, <1>b, <1>3, <1>d, <1>4, <1>5, <1>6, <1>7, <1>8, <1>10, <1>11, TypeHandlerEnds
  DEF Proceed

\* What operators do keeps the types.
LEMMA TypeOperator ==
    ASSUME TypeOK, NEW t \in Threads, Operator(t)
    PROVE  TypeOK'
<1> USE ThreadsAssumption
<1>1. CASE StartCall(t)
  <2>1. used' \in [Kinds -> Nat]
    BY <1>1, UseType DEF StartCall, Kinds
  <2>2. QED
    BY <1>1, <2>1 DEF StartCall, Goto, TypeOK, Labels, procVars, lockVars, ghosts
<1>2. CASE Stop(t)
  <2>1. used' \in [Kinds -> Nat]
    BY <1>2, UseType DEF Stop, Kinds
  <2>2. QED
    BY <1>2, <2>1 DEF Stop, Goto, TypeOK, Labels, lockVars, ghosts
<1>3. CASE ForceStart(t)
  <2>1. used' \in [Kinds -> Nat]
    BY <1>3, UseType DEF ForceStart, Kinds
  <2>2. PICK i \in 1..Len(JobSeq) : pos' = [pos EXCEPT ![t] = i]
    BY <1>3 DEF ForceStart
  <2>3. i \in 1..(Len(JobSeq) + 1) /\ i <= Len(JobSeq)
    BY JobsAssumption
  <2>4. QED
    BY <1>3, <2>1, <2>2, <2>3 DEF ForceStart, Goto, TypeOK, Labels, procVars, lockVars, ghosts
<1>4. ASSUME NEW j \in Jobs, PauseJob(t, j) \/ ResumeJob(t, j) PROVE TypeOK'
  <2>1. used' \in [Kinds -> Nat]
    BY <1>4, UseType DEF PauseJob, ResumeJob, Kinds
  <2>2. jobs[Owner[t]][j] \in JobConfig
    BY DEF TypeOK
  <2>3. Paused(jobs[Owner[t]][j]) \in JobConfig /\ Enabled(jobs[Owner[t]][j]) \in JobConfig
    <3>1. 0 \in Nat
      OBVIOUS
    <3>2. QED
      BY <2>2, <3>1, FieldTypes
  <2>4. CASE PauseJob(t, j)
    <3>1. jobs' = [jobs EXCEPT ![Owner[t]][j] = Paused(jobs[Owner[t]][j])]
      BY <2>4 DEF PauseJob
    <3>2. QED
      BY <2>1, <2>3, <2>4, <3>1, OneJobType
      DEF PauseJob, TypeOK, procVars, threadVars, lockVars, ghosts
  <2>5. CASE ResumeJob(t, j)
    <3>1. jobs' = [jobs EXCEPT ![Owner[t]][j] = Enabled(jobs[Owner[t]][j])]
      BY <2>5 DEF ResumeJob
    <3>2. QED
      BY <2>1, <2>3, <2>5, <3>1, OneJobType
      DEF ResumeJob, TypeOK, procVars, threadVars, lockVars, ghosts
  <2>6. QED
    BY <1>4, <2>4, <2>5
<1>5. QED
  BY <1>1, <1>2, <1>3, <1>4 DEF Operator

\* Every step keeps the types.
LEMMA TypeNext == TypeOK /\ [Next]_vars => TypeOK'
<1> SUFFICES ASSUME TypeOK, [Next]_vars PROVE TypeOK'
  OBVIOUS
<1> USE ThreadsAssumption, NumbersAssumption
<1>1. CASE UNCHANGED vars
  BY <1>1 DEF TypeOK, vars, procVars, threadVars, lockVars, ghosts
<1>2. CASE Advance
  BY <1>2 DEF TypeOK, Advance, procVars, threadVars, lockVars, ghosts
<1>3. CASE LoseConnection \/ Recycle
  BY <1>3 DEF TypeOK, LoseConnection, Recycle, Mishap, procVars, threadVars, ghosts
<1>4. ASSUME NEW w \in Workers, Crash(w) PROVE TypeOK'
  <2>1. used' \in [Kinds -> Nat]
    BY <1>4, UseType DEF Crash, Kinds
  <2>2. jobs' \in [Workers -> [Jobs -> JobConfig]]
    <3>1. [j \in Jobs |-> FreshJob] \in [Jobs -> JobConfig]
      BY RowType
    <3>2. QED
      BY <1>4, <3>1 DEF Crash, TypeOK
  <2>3. pos' \in [Threads -> 1..(Len(JobSeq) + 1)]
    BY <1>4, JobsAssumption DEF Crash, TypeOK
  <2>4. table' \in [Threads -> [Jobs -> SchedulerJob]] /\ ran' \in [Workers -> [Jobs -> Nat \cup {Never}]]
    BY <1>4, RowType DEF Crash, TypeOK
  <2>5. QED
    BY <1>4, <2>1, <2>2, <2>3, <2>4 DEF Crash, TypeOK, Labels
<1>5. ASSUME NEW t \in Threads, Boot(t) PROVE TypeOK'
  <2>1. used' \in [Kinds -> Nat]
    BY <1>5, UseType DEF Boot, Kinds
  <2>2. QED
    BY <1>5, <2>1 DEF Boot, Goto, TypeOK, Labels, lockVars, ghosts
<1>6. ASSUME NEW t \in Threads, LoopExit(t) PROVE TypeOK'
  BY <1>6 DEF LoopExit, Goto, TypeOK, Labels, procVars, lockVars, ghosts
<1>7. ASSUME NEW t \in Threads, Tick(t) PROVE TypeOK'
  <2>1. ASSUME BeginTick(t), holder' \in Threads \cup {NoThread}, leaked' = leaked,
               mishaps' \subseteq {"lock", "load", "torn"}
        PROVE  TypeOK'
    <3>1. 1 \in 1..(Len(JobSeq) + 1)
      BY JobsAssumption
    <3>2. QED
      BY <2>1, <3>1 DEF BeginTick, Goto, TypeOK, Labels
  <2>2. CASE TickAsLeader(t)
    BY <2>1, <2>2 DEF TickAsLeader, TypeOK
  <2>3. CASE TickWithoutLock(t)
    BY <2>1, <2>3 DEF TickWithoutLock, Mishap, lockVars, TypeOK
  <2>4. CASE TickAsFollower(t)
    <3>1. jobs' \in [Workers -> [Jobs -> JobConfig]] /\ ticks' \in [Workers -> Nat]
          /\ life' \in [Workers -> {"down", "booting", "up"}]
          /\ ran' \in [Workers -> [Jobs -> Nat \cup {Never}]]
      BY <2>4, ExitType DEF TickAsFollower
    <3>2. QED
      BY <2>4, <3>1 DEF TickAsFollower, threadVars, lockVars, TypeOK
  <2>5. QED
    BY <1>7, <2>2, <2>3, <2>4 DEF Tick
<1>8. ASSUME NEW t \in Threads, Proceed(t) PROVE TypeOK'
  BY <1>8, TypeProceed
<1>9. ASSUME NEW t \in Threads, Operator(t) PROVE TypeOK'
  BY <1>9, TypeOperator
<1>10. QED
  BY <1>1, <1>2, <1>3, <1>4, <1>5, <1>6, <1>7, <1>8, <1>9 DEF Next

\* Types hold in every state of every behaviour.
THEOREM TypeCorrect == Spec => []TypeOK
<1>1. Init => TypeOK
  BY TypeInit
<1>2. TypeOK /\ [Next]_vars => TypeOK'
  BY TypeNext
<1>3. QED
  BY <1>1, <1>2, PTL DEF Spec

-----------------------------------------------------------------------------
(* Mutual exclusion of ticks.  TickMutex is not inductive: that a thread    *)
(* can enter _do_tick only when no other is there follows from what the     *)
(* lock tells about it, so the invariant says who holds the lock.           *)

LeaderHoldsLock == \A t \in Threads : InTick(t) => holder = t

\* What has gone wrong stays so.
LEMMA MishapsGrow == ASSUME TypeOK, [Next]_vars PROVE mishaps \subseteq mishaps'
<1>1. CASE mishaps' = mishaps
  BY <1>1
<1>2. CASE UNCHANGED vars \/ Advance \/ LoseConnection \/ Recycle
  BY <1>2 DEF vars, Advance, LoseConnection, Recycle, Mishap, ghosts
<1>3. ASSUME NEW w \in Workers, Crash(w) PROVE mishaps \subseteq mishaps'
  BY <1>3 DEF Crash
<1>4. ASSUME NEW t \in Threads, Boot(t) \/ LoopExit(t) \/ Tick(t) \/ Operator(t)
      PROVE  mishaps \subseteq mishaps'
  BY <1>4 DEF Boot, LoopExit, Tick, TickAsLeader, TickWithoutLock, TickAsFollower, Mishap,
              Operator, StartCall, Stop, ForceStart, PauseJob, ResumeJob, ghosts
<1>5. ASSUME NEW t \in Threads, Proceed(t) PROVE mishaps \subseteq mishaps'
  <2>1. CASE StartPersist(t) \/ SaveTick(t)
    BY <2>1, CommitMoves DEF StartPersist, SaveTick
  <2>2. CASE StartRead(t)
    BY <2>2 DEF StartRead, Mishap
  <2>3. CASE mishaps' = mishaps
    BY <2>3
  <2>4. QED
    BY <1>5, <2>1, <2>2, <2>3
    DEF Proceed, StartApply, StartStagger, ReadTable, StopReturns, SkipJob, StartJob,
        JobSucceeds, JobFailsTransient, JobFailsConfig, JobFailsFatal, JobFailsOther,
        HandlerEnds, JudgeErrors, ReEnable, EndTick, ForceSucceeds, ForceFails, ForceEnds, ghosts
<1>6. QED
  BY <1>2, <1>3, <1>4, <1>5 DEF Next

\* A step of thread t that neither brings it into a tick nor touches the lock.
LEMMA LeaderFrame ==
    ASSUME TypeOK, LeaderHoldsLock, NEW t \in Threads, NEW label,
           Goto(t, label), UNCHANGED holder,
           InTick(t) \/ label \notin {"check", "run", "judge", "sync", "commit", "unlock"}
    PROVE  LeaderHoldsLock'
BY DEF TypeOK, LeaderHoldsLock, InTick, Goto

\* A thread that is in no tick does not enter one by its own progress.
LEMMA LeaderProceed ==
    ASSUME TypeOK, LeaderHoldsLock, NEW t \in Threads, Proceed(t)
    PROVE  LeaderHoldsLock'
<1>1. CASE StartRead(t) \/ StartApply(t)
  BY <1>1, LeaderFrame DEF StartRead, StartApply, lockVars
<1>2. CASE StartStagger(t)
  BY <1>2, LeaderFrame DEF StartStagger, lockVars
<1>a. CASE ReadTable(t)
  BY <1>a, LeaderFrame DEF ReadTable, lockVars, InTick
<1>3. CASE StartPersist(t)
  BY <1>3 DEF StartPersist, TypeOK, LeaderHoldsLock, InTick, lockVars
<1>b. CASE SaveTick(t)
  BY <1>b, LeaderFrame DEF SaveTick, lockVars, InTick
<1>4. CASE StopReturns(t)
  BY <1>4, LeaderFrame DEF StopReturns, lockVars
<1>5. CASE SkipJob(t)
  BY <1>5 DEF SkipJob, LeaderHoldsLock, InTick, lockVars
<1>6. CASE StartJob(t)
  BY <1>6, LeaderFrame DEF StartJob, AtJob, InTick, lockVars
<1>7. ASSUME HandlerEnds(t, "ok") \/ HandlerEnds(t, "transient") \/ HandlerEnds(t, "config")
             \/ HandlerEnds(t, "fatal") \/ JudgeErrors(t),
             NextJob(t)
      PROVE  LeaderHoldsLock'
  BY <1>7, LeaderFrame DEF HandlerEnds, JudgeErrors, NextJob, InTick, lockVars
<1>8. CASE JobSucceeds(t) \/ JobFailsTransient(t) \/ JobFailsConfig(t) \/ JobFailsFatal(t)
  BY <1>7, <1>8 DEF JobSucceeds, JobFailsTransient, JobFailsConfig, JobFailsFatal
<1>9. CASE JobFailsOther(t)
  BY <1>9, LeaderFrame DEF JobFailsOther, HandlerEnds, InTick, lockVars
<1>10. CASE JudgeErrors(t)
  BY <1>7, <1>10 DEF JudgeErrors
<1>11. CASE ReEnable(t)
  BY <1>11, LeaderFrame DEF ReEnable, InTick, lockVars
<1>12. CASE EndTick(t)
  <2>1. holder = t
    BY <1>12 DEF EndTick, LeaderHoldsLock, InTick
  <2>2. AfterTick(t) \notin {"check", "run", "judge", "sync", "commit", "unlock"}
    BY DEF AfterTick
  <2>3. \A u \in Threads \ {t} : ~InTick(u)
    BY <2>1 DEF LeaderHoldsLock
  <2>4. QED
    BY <1>12, <2>2, <2>3 DEF EndTick, Goto, TypeOK, LeaderHoldsLock, InTick
<1>13. CASE ForceSucceeds(t) \/ ForceFails(t)
  BY <1>13, LeaderFrame DEF ForceSucceeds, ForceFails, ForceEnds, lockVars
<1>14. QED
  BY <1>1, <1>2, <1>a, <1>3, <1>b, <1>4, <1>5, <1>6, <1>8, <1>9, <1>10, <1>11, <1>12, <1>13
  DEF Proceed

\* Every step that finds or loses no lock amiss keeps it with the leader that is
\* inside the tick.
LEMMA LeaderNext ==
    ASSUME TypeOK, LeaderHoldsLock, [Next]_vars, "lock" \notin mishaps'
    PROVE  LeaderHoldsLock'
<1>1. CASE UNCHANGED vars
  BY <1>1 DEF vars, threadVars, LeaderHoldsLock, InTick, lockVars
<1>2. CASE Advance \/ Recycle
  BY <1>2 DEF Advance, Recycle, threadVars, LeaderHoldsLock, InTick, lockVars
<1>3. CASE LoseConnection
  BY <1>3 DEF LoseConnection, Mishap, threadVars, LeaderHoldsLock, InTick
<1>4. ASSUME NEW w \in Workers, Crash(w) PROVE LeaderHoldsLock'
  BY <1>4 DEF Crash, LeaderHoldsLock, InTick
<1>5. ASSUME NEW t \in Threads, Boot(t) PROVE LeaderHoldsLock'
  BY <1>5, LeaderFrame DEF Boot, LeaderHoldsLock, InTick, lockVars
<1>6. ASSUME NEW t \in Threads, LoopExit(t) PROVE LeaderHoldsLock'
  BY <1>6, LeaderFrame DEF LoopExit, lockVars
<1>7. ASSUME NEW t \in Threads, Tick(t) PROVE LeaderHoldsLock'
  <2>1. CASE TickAsLeader(t)
    <3>1. \A u \in Threads : ~InTick(u)
      BY <2>1, ThreadsAssumption DEF TickAsLeader, LockFree, LeaderHoldsLock
    <3>2. QED
      BY <2>1, <3>1 DEF TickAsLeader, BeginTick, Goto, TypeOK, LeaderHoldsLock, InTick
  <2>2. CASE TickWithoutLock(t)
    BY <2>2 DEF TickWithoutLock, Mishap
  <2>3. CASE TickAsFollower(t)
    BY <2>3 DEF TickAsFollower, threadVars, LeaderHoldsLock, InTick, lockVars
  <2>4. QED
    BY <1>7, <2>1, <2>2, <2>3 DEF Tick
<1>8. ASSUME NEW t \in Threads, Proceed(t) PROVE LeaderHoldsLock'
  BY <1>8, LeaderProceed
<1>9. ASSUME NEW t \in Threads, Operator(t) PROVE LeaderHoldsLock'
  <2>1. CASE StartCall(t) \/ Stop(t) \/ ForceStart(t)
    BY <2>1, LeaderFrame DEF StartCall, Stop, ForceStart, lockVars
  <2>2. ASSUME NEW j \in Jobs, PauseJob(t, j) \/ ResumeJob(t, j) PROVE LeaderHoldsLock'
    BY <2>2 DEF PauseJob, ResumeJob, threadVars, LeaderHoldsLock, InTick, lockVars
  <2>3. QED
    BY <1>9, <2>1, <2>2 DEF Operator
<1>10. QED
  BY <1>1, <1>2, <1>3, <1>4, <1>5, <1>6, <1>7, <1>8, <1>9 DEF Next

\* As long as every tick has had the lock and kept it.
Leading == "lock" \notin mishaps => LeaderHoldsLock

\* Every step keeps that.
LEMMA LeadingNext == ASSUME TypeOK, Leading, [Next]_vars PROVE Leading'
BY LeaderNext, MishapsGrow DEF Leading

\* It holds at the start.
LEMMA LeadingInit == Init => Leading
BY DEF Init, Leading, LeaderHoldsLock, InTick

\* As long as every tick has had the lock and kept it, no two threads of any
\* processes are in a tick at once.
THEOREM TicksExclude == Spec => []TickMutex
<1>1. TypeOK /\ Leading /\ [Next]_vars => Leading'
  BY LeadingNext
<1>2. Leading => TickMutex
  BY DEF Leading, LeaderHoldsLock, TickMutex
<1>3. QED
  BY <1>1, <1>2, LeadingInit, TypeCorrect, PTL DEF Spec

-----------------------------------------------------------------------------
(* What a step can do to one job of one process: nothing, to begin it       *)
(* afresh with a process that goes down, or what one thread of the process  *)
(* writes.  Every property of the job table starts from this.               *)

Before(t, j) == jobs[Owner[t]][j]
After(t, j)  == jobs'[Owner[t]][j]

\* By the handlers and the forced runs, of the job that t is at ...
WritesItsJob(t) ==
    LET d == After(t, JobOf(t)) IN
    \/ JobSucceeds(t) /\ d = [Config(t) EXCEPT !.last = now[t], !.runs = @ + 1, !.consec = 0]
    \/ JobFailsTransient(t) /\ d = [Config(t) EXCEPT !.errors = @ + 1]
    \/ JobFailsConfig(t)
       /\ d = [Config(t) EXCEPT !.errors = @ + 1, !.consec = @ + 1, !.enabled = FALSE,
                                !.reason = "config_error", !.why = "config"]
    \/ JobFailsOther(t) /\ d = [Config(t) EXCEPT !.errors = @ + 1, !.consec = @ + 1]
    \/ JudgeErrors(t) /\ Config(t).consec >= MaxConsecutive
       /\ d = [Config(t) EXCEPT !.enabled = FALSE, !.disabledAt = ticks[Owner[t]],
                                !.why = IF @ \in HardCauses THEN @ ELSE "errors"]
    \/ ForceSucceeds(t) /\ d = [Config(t) EXCEPT !.last = clock, !.runs = @ + 1]

\* ... and by what changes any job of the process.
WritesAnyJob(t, j) ==
    \/ StartApply(t) /\ After(t, j) = Restore(Before(t, j), table[t][j]) /\ ran'[Owner[t]][j] = Never
    \/ StartStagger(t) /\ j \notin Immediate /\ Overdue(Before(t, j), clock)
       /\ After(t, j) = [Before(t, j) EXCEPT !.last = clock]
    \/ JobFailsFatal(t) /\ \E e \in {Before(t, j), [Before(t, j) EXCEPT !.errors = @ + 1]} :
          After(t, j) \in {e, Halted(e, ticks[Owner[t]])}
    \/ ReEnable(t) /\ CooledDown(Before(t, j), ticks[Owner[t]]) /\ After(t, j) = Enabled(Before(t, j))
    \/ PauseJob(t, j) /\ After(t, j) = Paused(Before(t, j))
    \/ ResumeJob(t, j) /\ After(t, j) = Enabled(Before(t, j))

Writes(t, j) == (j = JobOf(t) /\ WritesItsJob(t)) \/ WritesAnyJob(t, j)

JobStep(w, j) ==
    \/ jobs'[w][j] = jobs[w][j]
    \/ jobs'[w][j] = FreshJob /\ life'[w] = "down" /\ ran'[w][j] = Never
    \/ \E t \in Threads : Owner[t] = w /\ Writes(t, j)

\* A step of a thread that changes one job changes that job and no other.
LEMMA OneJobMoves ==
    ASSUME TypeOK, NEW t \in Threads, NEW i \in Jobs, NEW d,
           jobs' = [jobs EXCEPT ![Owner[t]][i] = d],
           After(t, i) = d => Writes(t, i),
           NEW w \in Workers, NEW j \in Jobs
    PROVE  JobStep(w, j)
<1>1. Owner[t] \in Workers
  BY ThreadsAssumption
<1>2. CASE w = Owner[t]
  <2>1. jobs[w] \in [Jobs -> JobConfig] /\ jobs'[w] = [jobs[w] EXCEPT ![i] = d]
    BY <1>1, <1>2 DEF TypeOK
  <2>2. CASE j = i
    BY <1>2, <2>1, <2>2 DEF JobStep, After
  <2>3. CASE j # i
    BY <2>1, <2>3 DEF JobStep
  <2>4. QED
    BY <2>2, <2>3
<1>3. CASE w # Owner[t]
  <2>1. jobs'[w] = jobs[w]
    BY <1>1, <1>3 DEF TypeOK
  <2>2. QED
    BY <2>1 DEF JobStep
<1>4. QED
  BY <1>2, <1>3

\* So the step of a thread at its job is one of those of WritesItsJob.
LEMMA ItsJobMoves ==
    ASSUME TypeOK, NEW t \in Threads, pos[t] <= Len(JobSeq), NEW d, SetJob(t, d),
           After(t, JobOf(t)) = d => WritesItsJob(t),
           NEW w \in Workers, NEW j \in Jobs
    PROVE  JobStep(w, j)
<1>1. JobOf(t) \in Jobs
  BY JobAtPosition DEF TypeOK, JobOf
<1>2. jobs' = [jobs EXCEPT ![Owner[t]][JobOf(t)] = d]
  BY DEF SetJob, JobOf
<1>3. QED
  BY <1>1, <1>2, OneJobMoves DEF Writes

\* A new table of one process is its table, and the others keep theirs.
LEMMA TableMoves ==
    ASSUME TypeOK, NEW t \in Threads, NEW listed, jobs' = [jobs EXCEPT ![Owner[t]] = listed],
           NEW w \in Workers, NEW j \in Jobs,
           After(t, j) = listed[j] => WritesAnyJob(t, j) \/ listed[j] = Before(t, j)
    PROVE  JobStep(w, j)
<1>1. Owner[t] \in Workers
  BY ThreadsAssumption
<1>2. jobs'[w] = IF w = Owner[t] THEN listed ELSE jobs[w]
  BY <1>1 DEF TypeOK
<1>3. CASE w = Owner[t]
  BY <1>2, <1>3 DEF JobStep, Writes, Before, After
<1>4. CASE w # Owner[t]
  BY <1>2, <1>4 DEF JobStep
<1>5. QED
  BY <1>3, <1>4

\* The end of a tick leaves the table, or takes it down with the process.
LEMMA ExitChanges ==
    ASSUME TypeOK, NEW t \in Threads, ExitAfterTick(t), NEW w \in Workers, NEW j \in Jobs
    PROVE  \/ jobs'[w][j] = jobs[w][j]
           \/ jobs'[w][j] = FreshJob /\ life'[w] = "down" /\ ran'[w][j] = Never
<1>1. CASE Owner[t] \in Cli /\ w = Owner[t]
  BY <1>1 DEF TypeOK, ExitAfterTick
<1>2. CASE Owner[t] \in Cli /\ w # Owner[t]
  BY <1>2 DEF TypeOK, ExitAfterTick
<1>3. CASE Owner[t] \notin Cli
  BY <1>3 DEF ExitAfterTick
<1>4. QED
  BY <1>1, <1>2, <1>3

\* What a thread's own progress does to a job.
LEMMA ProceedMoves ==
    ASSUME TypeOK, NEW t \in Threads, Proceed(t), NEW w \in Workers, NEW j \in Jobs
    PROVE  JobStep(w, j)
<1> USE ThreadsAssumption
<1>0. Owner[t] \in Workers /\ jobs[Owner[t]] \in [Jobs -> JobConfig]
  BY DEF TypeOK
<1>1. CASE StartApply(t)
  <2> DEFINE listed == [i \in Jobs |-> Restore(jobs[Owner[t]][i], table[t][i])]
  <2>1. jobs' = [jobs EXCEPT ![Owner[t]] = listed] /\ ran'[Owner[t]][j] = Never
    BY <1>1, <1>0 DEF StartApply, TypeOK
  <2>2. After(t, j) = listed[j] => WritesAnyJob(t, j) \/ listed[j] = Before(t, j)
    BY <1>1, <2>1 DEF WritesAnyJob, Before
  <2> HIDE DEF listed
  <2>3. QED
    BY <2>1, <2>2, TableMoves
<1>2. CASE StartStagger(t)
  <2> DEFINE listed == [i \in Jobs |->
                  IF i \notin Immediate /\ Overdue(jobs[Owner[t]][i], clock)
                  THEN [jobs[Owner[t]][i] EXCEPT !.last = clock] ELSE jobs[Owner[t]][i]]
  <2>1. After(t, j) = listed[j] => WritesAnyJob(t, j) \/ listed[j] = Before(t, j)
    BY <1>2 DEF WritesAnyJob, Before
  <2>2. jobs' = [jobs EXCEPT ![Owner[t]] = listed]
    BY <1>2 DEF StartStagger
  <2> HIDE DEF listed
  <2>3. QED
    BY <2>1, <2>2, TableMoves
<1>3. CASE \/ StartRead(t) \/ ReadTable(t) \/ StartPersist(t) \/ SaveTick(t) \/ StopReturns(t)
           \/ SkipJob(t) \/ StartJob(t) \/ ForceFails(t)
  BY <1>3
  DEF StartRead, ReadTable, StartPersist, SaveTick, StopReturns, SkipJob, StartJob, ForceFails, JobStep
<1>4. CASE JobSucceeds(t)
  <2>1. pos[t] <= Len(JobSeq)
    BY <1>4 DEF JobSucceeds, HandlerEnds, TypeOK
  <2> DEFINE d == [Config(t) EXCEPT !.last = now[t], !.runs = @ + 1, !.consec = 0]
  <2>2. After(t, JobOf(t)) = d => WritesItsJob(t)
    BY <1>4 DEF WritesItsJob
  <2>3. SetJob(t, d)
    BY <1>4 DEF JobSucceeds
  <2>4. QED
    BY <2>1, <2>2, <2>3, ItsJobMoves
<1>5. CASE JobFailsTransient(t)
  <2>1. pos[t] <= Len(JobSeq)
    BY <1>5 DEF JobFailsTransient, HandlerEnds, TypeOK
  <2> DEFINE d == [Config(t) EXCEPT !.errors = @ + 1]
  <2>2. After(t, JobOf(t)) = d => WritesItsJob(t)
    BY <1>5 DEF WritesItsJob
  <2>3. SetJob(t, d)
    BY <1>5 DEF JobFailsTransient
  <2>4. QED
    BY <2>1, <2>2, <2>3, ItsJobMoves
<1>6. CASE JobFailsConfig(t)
  <2>1. pos[t] <= Len(JobSeq)
    BY <1>6 DEF JobFailsConfig, HandlerEnds, TypeOK
  <2> DEFINE d == [Config(t) EXCEPT !.errors = @ + 1, !.consec = @ + 1, !.enabled = FALSE,
                                   !.reason = "config_error", !.why = "config"]
  <2>2. After(t, JobOf(t)) = d => WritesItsJob(t)
    BY <1>6 DEF WritesItsJob
  <2>3. SetJob(t, d)
    BY <1>6 DEF JobFailsConfig
  <2>4. QED
    BY <2>1, <2>2, <2>3, ItsJobMoves
<1>7. CASE JobFailsFatal(t)
  <2> DEFINE counted == [jobs[Owner[t]] EXCEPT ![JobOf(t)].errors = @ + 1]
             listed == [i \in Jobs |-> IF i \in Expensive
                          THEN Halted(counted[i], ticks[Owner[t]]) ELSE counted[i]]
  <2>1. counted[j] \in {jobs[Owner[t]][j], [jobs[Owner[t]][j] EXCEPT !.errors = @ + 1]}
    BY <1>0
  <2>2. jobs' = [jobs EXCEPT ![Owner[t]] = listed]
    BY <1>7 DEF JobFailsFatal
  <2>3. listed[j] \in {counted[j], Halted(counted[j], ticks[Owner[t]])}
    OBVIOUS
  <2> HIDE DEF listed, counted
  <2>4. After(t, j) = listed[j] => WritesAnyJob(t, j) \/ listed[j] = Before(t, j)
    BY <1>7, <2>1, <2>3 DEF WritesAnyJob, Before
  <2>5. QED
    BY <2>2, <2>4, TableMoves
<1>8. CASE JobFailsOther(t)
  <2>1. pos[t] <= Len(JobSeq)
    BY <1>8 DEF JobFailsOther, HandlerEnds, TypeOK
  <2> DEFINE d == [Config(t) EXCEPT !.errors = @ + 1, !.consec = @ + 1]
  <2>2. After(t, JobOf(t)) = d => WritesItsJob(t)
    BY <1>8 DEF WritesItsJob
  <2>3. SetJob(t, d)
    BY <1>8 DEF JobFailsOther
  <2>4. QED
    BY <2>1, <2>2, <2>3, ItsJobMoves
<1>9. CASE JudgeErrors(t)
  <2>1. pos[t] <= Len(JobSeq)
    BY <1>9 DEF JudgeErrors, TypeOK
  <2>2. CASE Config(t).consec >= MaxConsecutive
    <3> DEFINE d == [Config(t) EXCEPT !.enabled = FALSE, !.disabledAt = ticks[Owner[t]],
                                      !.why = IF @ \in HardCauses THEN @ ELSE "errors"]
    <3>1. After(t, JobOf(t)) = d => WritesItsJob(t)
      BY <1>9, <2>2 DEF WritesItsJob
    <3>2. SetJob(t, d)
      BY <1>9, <2>2 DEF JudgeErrors
    <3>3. QED
      BY <2>1, <3>1, <3>2, ItsJobMoves
  <2>3. CASE ~(Config(t).consec >= MaxConsecutive)
    BY <1>9, <2>3 DEF JudgeErrors, JobStep
  <2>4. QED
    BY <2>2, <2>3
<1>10. CASE ReEnable(t)
  <2> DEFINE listed == [i \in Jobs |->
                  IF CooledDown(jobs[Owner[t]][i], ticks[Owner[t]])
                  THEN Enabled(jobs[Owner[t]][i]) ELSE jobs[Owner[t]][i]]
  <2>1. After(t, j) = listed[j] => WritesAnyJob(t, j) \/ listed[j] = Before(t, j)
    BY <1>10 DEF WritesAnyJob, Before
  <2>2. jobs' = [jobs EXCEPT ![Owner[t]] = listed]
    BY <1>10 DEF ReEnable
  <2> HIDE DEF listed
  <2>3. QED
    BY <2>1, <2>2, TableMoves
<1>11. CASE EndTick(t)
  BY <1>11, ExitChanges DEF EndTick, JobStep
<1>12. CASE ForceSucceeds(t)
  <2>1. pos[t] <= Len(JobSeq)
    BY <1>12 DEF ForceSucceeds, ForceEnds, TypeOK
  <2> DEFINE d == [Config(t) EXCEPT !.last = clock, !.runs = @ + 1]
  <2>2. After(t, JobOf(t)) = d => WritesItsJob(t)
    BY <1>12 DEF WritesItsJob
  <2>3. SetJob(t, d)
    BY <1>12 DEF ForceSucceeds
  <2>4. QED
    BY <2>1, <2>2, <2>3, ItsJobMoves
<1>13. QED
  BY <1>1, <1>2, <1>3, <1>4, <1>5, <1>6, <1>7, <1>8, <1>9, <1>10, <1>11, <1>12 DEF Proceed

\* What any step does to a job.
LEMMA JobMoves ==
    ASSUME TypeOK, [Next]_vars, NEW w \in Workers, NEW j \in Jobs
    PROVE  JobStep(w, j)
<1> USE ThreadsAssumption
<1>1. CASE UNCHANGED vars
  BY <1>1 DEF vars, JobStep
<1>2. CASE Advance \/ LoseConnection \/ Recycle
  BY <1>2 DEF Advance, LoseConnection, Recycle, JobStep
<1>3. ASSUME NEW v \in Workers, Crash(v) PROVE JobStep(w, j)
  BY <1>3 DEF Crash, JobStep, TypeOK
<1>4. ASSUME NEW t \in Threads, Boot(t) \/ LoopExit(t) PROVE JobStep(w, j)
  BY <1>4 DEF Boot, LoopExit, JobStep
<1>5. ASSUME NEW t \in Threads, Tick(t) PROVE JobStep(w, j)
  <2>1. CASE TickAsLeader(t) \/ TickWithoutLock(t)
    BY <2>1 DEF TickAsLeader, TickWithoutLock, BeginTick, JobStep
  <2>2. CASE TickAsFollower(t)
    BY <2>2, ExitChanges DEF TickAsFollower, JobStep
  <2>3. QED
    BY <1>5, <2>1, <2>2 DEF Tick
<1>6. ASSUME NEW t \in Threads, Proceed(t) PROVE JobStep(w, j)
  BY <1>6, ProceedMoves
<1>7. ASSUME NEW t \in Threads, Operator(t) PROVE JobStep(w, j)
  <2>1. CASE StartCall(t) \/ Stop(t) \/ ForceStart(t)
    BY <2>1 DEF StartCall, Stop, ForceStart, JobStep
  <2>2. ASSUME NEW i \in Jobs, PauseJob(t, i) PROVE JobStep(w, j)
    <3>1. jobs' = [jobs EXCEPT ![Owner[t]][i] = Paused(Before(t, i))]
      BY <2>2 DEF PauseJob, Before
    <3>2. QED
      BY <2>2, <3>1, OneJobMoves DEF Writes, WritesAnyJob
  <2>3. ASSUME NEW i \in Jobs, ResumeJob(t, i) PROVE JobStep(w, j)
    <3>1. jobs' = [jobs EXCEPT ![Owner[t]][i] = Enabled(Before(t, i))]
      BY <2>3 DEF ResumeJob, Before
    <3>2. QED
      BY <2>3, <3>1, OneJobMoves DEF Writes, WritesAnyJob
  <2>4. QED
    BY <1>7, <2>1, <2>2, <2>3 DEF Operator
<1>8. QED
  BY <1>1, <1>2, <1>3, <1>4, <1>5, <1>6, <1>7 DEF Next

-----------------------------------------------------------------------------
(* What a step can do to one thread, and to the life of one web process.    *)

Starting == {"start", "apply", "stagger", "persist", "spawn"}

Unmoved(u) == pc'[u] = pc[u] /\ now'[u] = now[u] /\ (pc[u] = "check" \/ pos'[u] = pos[u])

\* A thread that waits, answers a request or ends a tick.
Idles(u) ==
    /\ pc[u] \in {"off", "rest", "join", "unlock", "force"} /\ pc'[u] \in {"off", "rest", "join"}
    /\ pc[u] = "off" => life[Owner[u]] = "up"

LabelStep(u) ==
    \/ Unmoved(u)
    \/ Crash(Owner[u]) /\ pc'[u] = "off"
    \/ Boot(u) /\ Owner[u] \notin Cli /\ pc'[u] = "start"
    \/ StartCall(u) /\ pc'[u] = "start"
    \/ StartRead(u) /\ pc'[u] \in {"apply", "stagger"} /\ (pc'[u] = "stagger" => "load" \in mishaps')
    \/ StartApply(u) /\ pc'[u] = "stagger"
    \/ StartStagger(u) /\ pc'[u] = "persist"
    \/ ReadTable(u) /\ pc[u] = "persist" /\ pc'[u] = "spawn"
    \/ StartPersist(u) /\ pc'[u] = "off"
    \/ \E t \in Threads : StartPersist(t) /\ Owner[t] = Owner[u] /\ pc[u] = "off" /\ pc'[u] = "rest"
    \/ Idles(u)
    \/ MayTick(u) /\ BeginTick(u) /\ pc'[u] = "check" /\ now'[u] = clock
    \/ InTick(u) /\ InTick(u)' /\ now'[u] = now[u]
       /\ (pc[u] = "judge" => JudgeErrors(u)) /\ (pc'[u] = "commit" => ReadTable(u))
    \/ ForceStart(u) /\ pc'[u] = "force"

LifeStep(w) ==
    \/ life'[w] = life[w]
    \/ Crash(w) /\ life'[w] = "down"
    \/ \E t \in Threads : Owner[t] = w /\ Boot(t) /\ life'[w] = "booting"
    \/ \E t \in Threads : Owner[t] = w /\ StartPersist(t) /\ life'[w] = "up"

\* A step of thread t that only changes its label leaves the other threads.
LEMMA OtherLabels ==
    ASSUME TypeOK, NEW t \in Threads, NEW label, Goto(t, label), UNCHANGED now,
           pos' = pos \/ (\E p : pos' = [pos EXCEPT ![t] = p]),
           NEW u \in Threads
    PROVE  IF u = t THEN pc'[u] = label /\ now'[u] = now[u] ELSE Unmoved(u)
BY DEF TypeOK, Goto, Unmoved

\* What a thread's own progress does to a thread.
LEMMA ProceedLabels ==
    ASSUME TypeOK, NEW t \in Threads, Proceed(t), NEW u \in Threads
    PROVE  LabelStep(u)
<1>1. CASE StartRead(t)
  <2>1. CASE Goto(t, "apply")
    <3>1. IF u = t THEN pc'[u] = "apply" ELSE Unmoved(u)
      BY <1>1, <2>1, OtherLabels DEF StartRead
    <3>2. QED
      BY <1>1, <3>1 DEF LabelStep
  <2>2. CASE Goto(t, "stagger") /\ "load" \in mishaps'
    BY <1>1, <2>2, OtherLabels DEF StartRead, LabelStep
  <2>3. QED
    BY <1>1, <2>1, <2>2 DEF StartRead, Mishap
<1>a. CASE StartApply(t)
  BY <1>a, OtherLabels DEF StartApply, LabelStep
<1>b. CASE ReadTable(t)
  <2>1. CASE pc[t] = "persist" /\ Goto(t, "spawn")
    BY <1>b, <2>1, OtherLabels DEF ReadTable, LabelStep
  <2>2. CASE pc[t] = "sync" /\ Goto(t, "commit")
    BY <1>b, <2>2, OtherLabels DEF ReadTable, LabelStep, InTick
  <2>3. QED
    BY <1>b, <2>1, <2>2 DEF ReadTable
<1>c. CASE SaveTick(t)
  BY <1>c, OtherLabels DEF SaveTick, LabelStep, InTick
<1>2. CASE StartStagger(t)
  BY <1>2, OtherLabels DEF StartStagger, LabelStep
<1>3. CASE StartPersist(t)
  <2>1. PICK l \in Loops : Owner[l] = Owner[t] /\ pc[l] = "off"
                           /\ pc' = [pc EXCEPT ![t] = "off", ![l] = "rest"]
    BY <1>3 DEF StartPersist
  <2>2. pc[t] = "spawn" /\ now' = now /\ pos' = pos
    BY <1>3 DEF StartPersist
  <2>3. CASE u = l
    BY <1>3, <2>1, <2>3 DEF LabelStep, TypeOK
  <2>4. CASE u = t
    BY <1>3, <2>1, <2>2, <2>4 DEF LabelStep, TypeOK
  <2>5. CASE u # l /\ u # t
    BY <2>1, <2>2, <2>5 DEF LabelStep, Unmoved, TypeOK
  <2>6. QED
    BY <2>3, <2>4, <2>5
<1>4. CASE StopReturns(t)
  BY <1>4, OtherLabels DEF StopReturns, LabelStep, Idles
<1>5. CASE SkipJob(t)
  BY <1>5 DEF SkipJob, AtJob, LabelStep, Unmoved, TypeOK
<1>6. CASE StartJob(t)
  BY <1>6, OtherLabels DEF StartJob, AtJob, LabelStep, InTick
<1>7. ASSUME pc[t] = "run" \/ JudgeErrors(t), now' = now, NextJob(t)
      PROVE  LabelStep(u)
  <2>1. IF u = t THEN pc'[u] = "check" /\ now'[u] = now[u] ELSE Unmoved(u)
    BY <1>7, OtherLabels DEF NextJob
  <2>2. QED
    BY <1>7, <2>1 DEF LabelStep, InTick, JudgeErrors
<1>8. CASE JobSucceeds(t) \/ JobFailsTransient(t) \/ JobFailsConfig(t) \/ JobFailsFatal(t)
           \/ JudgeErrors(t)
  BY <1>7, <1>8
  DEF JobSucceeds, JobFailsTransient, JobFailsConfig, JobFailsFatal, HandlerEnds, JudgeErrors
<1>9. CASE JobFailsOther(t)
  BY <1>9, OtherLabels DEF JobFailsOther, HandlerEnds, LabelStep, InTick
<1>10. CASE ReEnable(t)
  BY <1>10, OtherLabels DEF ReEnable, LabelStep, InTick
<1>11. CASE EndTick(t)
  <2>1. CASE u = t
    BY <1>11, <2>1 DEF EndTick, AfterTick, Goto, LabelStep, Idles, TypeOK
  <2>2. CASE u # t
    BY <1>11, <2>2 DEF EndTick, Goto, LabelStep, Unmoved, TypeOK
  <2>3. QED
    BY <2>1, <2>2
<1>12. CASE ForceSucceeds(t) \/ ForceFails(t)
  BY <1>12, OtherLabels DEF ForceSucceeds, ForceFails, ForceEnds, LabelStep, Idles
<1>13. QED
  BY <1>1, <1>a, <1>2, <1>b, <1>3, <1>c, <1>4, <1>5, <1>6, <1>8, <1>9, <1>10, <1>11, <1>12
  DEF Proceed

\* What any step does to a thread.
LEMMA LabelMoves ==
    ASSUME TypeOK, [Next]_vars, NEW u \in Threads
    PROVE  LabelStep(u)
<1>1. CASE UNCHANGED <<pc, now, pos>>
  BY <1>1 DEF LabelStep, Unmoved
<1>2. CASE UNCHANGED vars \/ Advance \/ LoseConnection \/ Recycle
  BY <1>1, <1>2 DEF vars, Advance, LoseConnection, Recycle, threadVars
<1>3. ASSUME NEW w \in Workers, Crash(w) PROVE LabelStep(u)
  <2>1. CASE Owner[u] = w
    BY <1>3, <2>1 DEF Crash, LabelStep
  <2>2. CASE Owner[u] # w
    BY <1>3, <2>2 DEF Crash, LabelStep, Unmoved
  <2>3. QED
    BY <2>1, <2>2
<1>4. ASSUME NEW t \in Threads, Boot(t) PROVE LabelStep(u)
  <2>1. CASE Owner[t] \in Cli
    BY <1>1, <1>4, <2>1 DEF Boot
  <2>2. CASE Owner[t] \notin Cli
    BY <1>4, <2>2, OtherLabels DEF Boot, LabelStep
  <2>3. QED
    BY <2>1, <2>2
<1>5. ASSUME NEW t \in Threads, LoopExit(t) PROVE LabelStep(u)
  BY <1>5, OtherLabels DEF LoopExit, LabelStep, Idles
<1>6. ASSUME NEW t \in Threads, Tick(t) PROVE LabelStep(u)
  <2>1. CASE MayTick(t) /\ BeginTick(t)
    <3>1. CASE u = t
      BY <2>1, <3>1 DEF BeginTick, Goto, LabelStep, TypeOK
    <3>2. CASE u # t
      BY <2>1, <3>2 DEF BeginTick, Goto, LabelStep, Unmoved, TypeOK
    <3>3. QED
      BY <3>1, <3>2
  <2>2. CASE TickAsFollower(t)
    BY <1>1, <2>2 DEF TickAsFollower, threadVars
  <2>3. QED
    BY <1>6, <2>1, <2>2 DEF Tick, TickAsLeader, TickWithoutLock
<1>7. ASSUME NEW t \in Threads, Proceed(t) PROVE LabelStep(u)
  BY <1>7, ProceedLabels
<1>8. ASSUME NEW t \in Threads, Operator(t) PROVE LabelStep(u)
  <2>1. CASE StartCall(t)
    BY <2>1, OtherLabels DEF StartCall, LabelStep
  <2>2. CASE Stop(t)
    BY <2>2, OtherLabels DEF Stop, Serving, LabelStep, Idles
  <2>3. CASE ForceStart(t)
    <3>1. PICK i : pos' = [pos EXCEPT ![t] = i]
      BY <2>3 DEF ForceStart
    <3>2. QED
      BY <2>3, <3>1, OtherLabels DEF ForceStart, LabelStep
  <2>4. ASSUME NEW j \in Jobs, PauseJob(t, j) \/ ResumeJob(t, j) PROVE LabelStep(u)
    BY <1>1, <2>4 DEF PauseJob, ResumeJob, threadVars
  <2>5. QED
    BY <1>8, <2>1, <2>2, <2>3, <2>4 DEF Operator
<1>9. QED
  BY <1>2, <1>3, <1>4, <1>5, <1>6, <1>7, <1>8 DEF Next

\* What any step does to the life of a web process.
LEMMA LifeMoves ==
    ASSUME TypeOK, [Next]_vars, NEW w \in Workers \ Cli
    PROVE  LifeStep(w)
<1> USE ThreadsAssumption
<1>1. CASE UNCHANGED life
  BY <1>1 DEF LifeStep
<1>2. CASE UNCHANGED vars \/ Advance \/ LoseConnection \/ Recycle
  BY <1>1, <1>2 DEF vars, Advance, LoseConnection, Recycle, procVars
<1>3. ASSUME NEW v \in Workers, Crash(v) PROVE LifeStep(w)
  BY <1>3 DEF Crash, LifeStep, TypeOK
<1>4. ASSUME NEW t \in Threads, Boot(t) PROVE LifeStep(w)
  BY <1>4 DEF Boot, LifeStep, TypeOK
<1>5. ASSUME NEW t \in Threads, ExitAfterTick(t) PROVE LifeStep(w)
  BY <1>5 DEF ExitAfterTick, LifeStep, TypeOK
<1>6. ASSUME NEW t \in Threads, Tick(t) PROVE LifeStep(w)
  BY <1>1, <1>5, <1>6
  DEF Tick, TickAsLeader, TickWithoutLock, BeginTick, TickAsFollower
<1>7. ASSUME NEW t \in Threads, Proceed(t) PROVE LifeStep(w)
  <2>1. CASE StartPersist(t)
    BY <2>1 DEF StartPersist, LifeStep, TypeOK
  <2>2. CASE EndTick(t)
    BY <1>5, <2>2 DEF EndTick
  <2>3. CASE UNCHANGED life
    BY <1>1, <2>3
  <2>4. QED
    BY <1>7, <2>1, <2>2, <2>3
    DEF Proceed, StartRead, StartApply, StartStagger, ReadTable, StopReturns, SkipJob, StartJob, JobSucceeds,
        JobFailsTransient, JobFailsConfig, JobFailsFatal, JobFailsOther, HandlerEnds,
        JudgeErrors, ReEnable, SaveTick, ForceSucceeds, ForceFails, ForceEnds, procVars
<1>8. ASSUME NEW t \in Threads, LoopExit(t) \/ Operator(t) PROVE LifeStep(w)
  BY <1>1, <1>8 DEF LoopExit, Operator, StartCall, Stop, ForceStart, PauseJob, ResumeJob, procVars
<1>9. QED
  BY <1>2, <1>3, <1>4, <1>6, <1>7, <1>8 DEF Next

\* What has not been used by a step was not used before it.
LEMMA UsedGrows ==
    ASSUME TypeOK, [Next]_vars, NEW k \in Kinds, used'[k] = 0
    PROVE  used[k] = 0
<1>1. CASE used' = used
  BY <1>1
<1>2. ASSUME NEW i \in Kinds, Use(i) PROVE used[k] = 0
  BY <1>2 DEF Use, TypeOK
<1> HIDE DEF Kinds
<1>3. "boot" \in Kinds /\ "crash" \in Kinds /\ "force" \in Kinds /\ "admin" \in Kinds
      /\ "restart" \in Kinds
  BY DEF Kinds
<1>4. CASE UNCHANGED vars \/ Advance \/ LoseConnection \/ Recycle
  BY <1>1, <1>4 DEF vars, Advance, LoseConnection, Recycle
<1>5. ASSUME NEW w \in Workers, Crash(w) PROVE used[k] = 0
  BY <1>2, <1>3, <1>5 DEF Crash
<1>6. ASSUME NEW t \in Threads, Boot(t) PROVE used[k] = 0
  BY <1>2, <1>3, <1>6 DEF Boot
<1>7. ASSUME NEW t \in Threads, LoopExit(t) \/ Tick(t) PROVE used[k] = 0
  BY <1>1, <1>7 DEF LoopExit, Tick, TickAsLeader, TickWithoutLock, TickAsFollower, BeginTick
<1>8. ASSUME NEW t \in Threads, Proceed(t) PROVE used[k] = 0
  BY <1>1, <1>8
  DEF Proceed, StartRead, StartApply, StartStagger, ReadTable, StartPersist, StopReturns, SkipJob, StartJob, JobSucceeds,
      JobFailsTransient, JobFailsConfig, JobFailsFatal, JobFailsOther, HandlerEnds,
      JudgeErrors, ReEnable, SaveTick, EndTick, ForceSucceeds, ForceFails, ForceEnds
<1>9. ASSUME NEW t \in Threads, Operator(t) PROVE used[k] = 0
  BY <1>2, <1>3, <1>9 DEF Operator, StartCall, Stop, ForceStart, PauseJob, ResumeJob
<1>10. QED
  BY <1>4, <1>5, <1>6, <1>7, <1>8, <1>9 DEF Next

\* The two steps that commit what _sync_to_db has read.
Saves(t) == StartPersist(t) \/ SaveTick(t)

\* What a thread has read or is about to write: the rows, or the jobs.
LEMMA ReadMoves ==
    ASSUME TypeOK, [Next]_vars, NEW t \in Threads
    PROVE  \/ table'[t] = table[t] /\ ~Saves(t)
           \/ table'[t] = NoRows /\ (Crash(Owner[t]) \/ StartApply(t) \/ Saves(t))
           \/ StartRead(t) /\ table'[t] = db
           \/ ReadTable(t) /\ table'[t] = [j \in Jobs |-> Row(jobs[Owner[t]][j])]
<1> DEFINE Kept == \/ table'[t] = table[t] /\ ~Saves(t)
                   \/ table'[t] = NoRows /\ (Crash(Owner[t]) \/ StartApply(t) \/ Saves(t))
                   \/ StartRead(t) /\ table'[t] = db
                   \/ ReadTable(t) /\ table'[t] = [j \in Jobs |-> Row(jobs[Owner[t]][j])]
<1>0. Saves(t) => table'[t] = NoRows
  BY CommitMoves DEF Saves, StartPersist, SaveTick, TypeOK
<1>1. CASE table'[t] = table[t]
  BY <1>0, <1>1
<1>2. CASE UNCHANGED vars \/ Advance \/ LoseConnection \/ Recycle
  BY <1>1, <1>2 DEF vars, Advance, LoseConnection, Recycle
<1>3. ASSUME NEW w \in Workers, Crash(w) PROVE Kept
  BY <1>1, <1>3 DEF Crash, TypeOK
<1>4. ASSUME NEW u \in Threads, Boot(u) \/ LoopExit(u) \/ Tick(u) \/ Operator(u) PROVE Kept
  BY <1>1, <1>4 DEF Boot, LoopExit, Tick, TickAsLeader, TickWithoutLock, TickAsFollower, BeginTick,
              Operator, StartCall, Stop, ForceStart, PauseJob, ResumeJob
<1>5. ASSUME NEW u \in Threads, Proceed(u) PROVE Kept
  <2>1. CASE Saves(u)
    <3>1. table' = [table EXCEPT ![u] = NoRows]
      BY <2>1, CommitMoves DEF Saves, StartPersist, SaveTick
    <3>2. table'[t] = table[t] \/ (u = t /\ table'[t] = NoRows)
      BY <3>1 DEF TypeOK
    <3>3. QED
      BY <1>1, <2>1, <3>2
  <2>2. CASE StartRead(u)
    <3>1. table'[t] = table[t] \/ (u = t /\ table'[t] = db)
      BY <2>2 DEF StartRead, TypeOK
    <3>2. QED
      BY <1>1, <2>2, <3>1
  <2>3. CASE ReadTable(u)
    <3>1. table' = [table EXCEPT ![u] = [j \in Jobs |-> Row(jobs[Owner[u]][j])]]
      BY <2>3 DEF ReadTable
    <3>2. table'[t] = table[t] \/ (u = t /\ table'[t] = [j \in Jobs |-> Row(jobs[Owner[t]][j])])
      BY <3>1 DEF TypeOK
    <3>3. QED
      BY <1>1, <2>3, <3>2
  <2>4. CASE StartApply(u)
    <3>1. table'[t] = table[t] \/ (u = t /\ table'[t] = NoRows)
      BY <2>4 DEF StartApply, TypeOK
    <3>2. QED
      BY <1>1, <2>4, <3>1
  <2>5. CASE table' = table
    BY <1>1, <2>5
  <2>6. QED
    BY <1>5, <2>1, <2>2, <2>3, <2>4, <2>5
    DEF Proceed, Saves, StartStagger, StopReturns, SkipJob, StartJob, JobSucceeds,
        JobFailsTransient, JobFailsConfig, JobFailsFatal, JobFailsOther, HandlerEnds,
        JudgeErrors, ReEnable, EndTick, ForceSucceeds, ForceFails, ForceEnds
<1>6. QED
  BY <1>2, <1>3, <1>4, <1>5 DEF Next

\* What a step writes in scheduler_jobs are rows of the jobs of one process,
\* of a thread that starts the daemon or ends a tick, and as that thread read
\* them: before, or at the end, or torn.
LEMMA RowMoves ==
    ASSUME TypeOK, [Next]_vars, NEW j \in Jobs
    PROVE  \/ db'[j] = db[j]
           \/ \E t \in Threads :
                 /\ Saves(t)
                 /\ \E n \in 0..5 : db'[j] = Torn(table[t][j], Row(jobs[Owner[t]][j]), n)
                 /\ db'[j] \in {table[t][j], Row(jobs[Owner[t]][j])} \/ "torn" \in mishaps'
<1>1. CASE UNCHANGED db
  BY <1>1
<1>2. ASSUME NEW t \in Threads, Saves(t)
      PROVE  \/ db'[j] = db[j]
             \/ /\ \E n \in 0..5 : db'[j] = Torn(table[t][j], Row(jobs[Owner[t]][j]), n)
                /\ db'[j] \in {table[t][j], Row(jobs[Owner[t]][j])} \/ "torn" \in mishaps'
  <2>1. CommitRows(t)
    BY <1>2 DEF Saves, StartPersist, SaveTick
  <2>2. QED
    BY <2>1, CommitMoves
<1>3. CASE UNCHANGED vars \/ Advance \/ LoseConnection \/ Recycle
  BY <1>1, <1>3 DEF vars, Advance, LoseConnection, Recycle
<1>4. ASSUME NEW w \in Workers, Crash(w) PROVE UNCHANGED db
  BY <1>4 DEF Crash
<1>5. ASSUME NEW t \in Threads, Boot(t) \/ LoopExit(t) \/ Tick(t) \/ Operator(t) PROVE UNCHANGED db
  BY <1>5 DEF Boot, LoopExit, Tick, TickAsLeader, TickWithoutLock, TickAsFollower, BeginTick,
              Operator, StartCall, Stop, ForceStart, PauseJob, ResumeJob
<1>6. ASSUME NEW t \in Threads, Proceed(t) PROVE Saves(t) \/ UNCHANGED db
  BY <1>6
  DEF Proceed, Saves, StartRead, StartApply, StartStagger, ReadTable, StopReturns, SkipJob, StartJob,
      JobSucceeds, JobFailsTransient, JobFailsConfig, JobFailsFatal, JobFailsOther, HandlerEnds,
      JudgeErrors, ReEnable, EndTick, ForceSucceeds, ForceFails, ForceEnds
<1>7. QED
  BY <1>1, <1>2, <1>3, <1>4, <1>5, <1>6 DEF Next

\* What a step does to the record of who ran what: a run of a thread's tick.
LEMMA RanMoves ==
    ASSUME TypeOK, [Next]_vars, NEW w \in Workers, NEW j \in Jobs
    PROVE  \/ ran'[w][j] = ran[w][j] \/ ran'[w][j] = Never
           \/ \E t \in Threads : /\ Owner[t] = w /\ pc[t] = "run"
                                 /\ JobSucceeds(t) /\ JobOf(t) = j /\ ran'[w][j] = now[t]
<1> DEFINE Kept == \/ ran'[w][j] = ran[w][j] \/ ran'[w][j] = Never
                   \/ \E t \in Threads : /\ Owner[t] = w /\ pc[t] = "run"
                                         /\ JobSucceeds(t) /\ JobOf(t) = j /\ ran'[w][j] = now[t]
<1>0. ran \in [Workers -> [Jobs -> Nat \cup {Never}]]
  BY DEF TypeOK
<1>1. CASE ran' = ran
  BY <1>1
<1>2. CASE UNCHANGED vars \/ Advance \/ LoseConnection \/ Recycle
  BY <1>1, <1>2 DEF vars, Advance, LoseConnection, Recycle, ghosts
<1>3. ASSUME NEW v \in Workers, Crash(v) PROVE Kept
  BY <1>0, <1>3 DEF Crash
<1>e. ASSUME NEW t \in Threads, ExitAfterTick(t) PROVE Kept
  BY <1>0, <1>e DEF ExitAfterTick
<1>4. ASSUME NEW t \in Threads, Boot(t) \/ LoopExit(t) \/ Tick(t) \/ Operator(t) PROVE Kept
  BY <1>1, <1>e, <1>4 DEF Boot, LoopExit, Tick, TickAsLeader, TickWithoutLock, TickAsFollower, BeginTick,
              Operator, StartCall, Stop, ForceStart, PauseJob, ResumeJob, ghosts
<1>5. ASSUME NEW t \in Threads, Proceed(t) PROVE Kept
  <2>1. CASE StartApply(t)
    BY <1>0, <2>1 DEF StartApply
  <2>2. CASE EndTick(t)
    BY <1>e, <2>2 DEF EndTick
  <2>3. ASSUME NEW outcome, HandlerEnds(t, outcome), outcome = "ok" => JobSucceeds(t) PROVE Kept
    <3>1. ran' = [ran EXCEPT ![Owner[t]][JobOf(t)] =
                    IF outcome = "ok" /\ now[t] > @ THEN now[t] ELSE @]
      BY <2>3 DEF HandlerEnds
    <3>2. ran'[w][j] = ran[w][j] \/ (Owner[t] = w /\ JobOf(t) = j /\ outcome = "ok" /\ ran'[w][j] = now[t])
      BY <1>0, <3>1
    <3>3. QED
      BY <2>3, <3>2 DEF HandlerEnds
  <2>4. CASE JobSucceeds(t) \/ JobFailsTransient(t) \/ JobFailsConfig(t) \/ JobFailsFatal(t)
             \/ JobFailsOther(t)
    BY <2>3, <2>4 DEF JobSucceeds, JobFailsTransient, JobFailsConfig, JobFailsFatal, JobFailsOther
  <2>5. QED
    BY <1>1, <1>5, <2>1, <2>2, <2>4
    DEF Proceed, StartRead, StartStagger, ReadTable, StartPersist, SaveTick, StopReturns, SkipJob,
        StartJob, JudgeErrors, ReEnable, ForceSucceeds, ForceFails, ForceEnds, ghosts
<1>6. QED
  BY <1>2, <1>3, <1>4, <1>5 DEF Next

\* The start of a process that warm-up is measured from.
LEMMA WarmAtMoves ==
    ASSUME TypeOK, [Next]_vars, NEW w \in Workers
    PROVE  \/ warmAt'[w] = warmAt[w]
           \/ Crash(w) /\ warmAt'[w] = 0
           \/ \E t \in Threads : StartStagger(t) /\ Owner[t] = w /\ warmAt'[w] = clock
<1>1. CASE UNCHANGED warmAt
  BY <1>1
<1>2. CASE UNCHANGED vars \/ Advance \/ LoseConnection \/ Recycle
  BY <1>1, <1>2 DEF vars, Advance, LoseConnection, Recycle, procVars
<1>3. ASSUME NEW v \in Workers, Crash(v)
      PROVE  warmAt'[w] = warmAt[w] \/ (Crash(w) /\ warmAt'[w] = 0)
  BY <1>3 DEF Crash, TypeOK
<1>4. ASSUME NEW t \in Threads, Boot(t) \/ LoopExit(t) \/ Tick(t) \/ Operator(t)
      PROVE  UNCHANGED warmAt
  BY <1>4 DEF Boot, LoopExit, Tick, TickAsLeader, TickWithoutLock, TickAsFollower, BeginTick,
              Operator, StartCall, Stop, ForceStart, PauseJob, ResumeJob, procVars
<1>5. ASSUME NEW t \in Threads, Proceed(t) PROVE StartStagger(t) \/ UNCHANGED warmAt
  BY <1>5
  DEF Proceed, StartRead, StartApply, ReadTable, StartPersist, StopReturns, SkipJob, StartJob, JobSucceeds,
      JobFailsTransient, JobFailsConfig, JobFailsFatal, JobFailsOther, HandlerEnds,
      JudgeErrors, ReEnable, SaveTick, EndTick, ForceSucceeds, ForceFails, ForceEnds, procVars
<1>6. ASSUME NEW t \in Threads, StartStagger(t)
      PROVE  warmAt'[w] = warmAt[w] \/ (Owner[t] = w /\ warmAt'[w] = clock)
  BY <1>6 DEF StartStagger, TypeOK
<1>7. QED
  BY <1>1, <1>2, <1>3, <1>4, <1>5, <1>6 DEF Next

\* Only time passing moves the clock, forward.
LEMMA ClockMoves == ASSUME TypeOK, [Next]_vars PROVE clock' \in Nat /\ clock <= clock'
<1>1. CASE clock' = clock
  BY <1>1 DEF TypeOK
<1>2. CASE Advance
  BY <1>2 DEF Advance, TypeOK
<1>3. CASE UNCHANGED vars \/ LoseConnection \/ Recycle
  BY <1>1, <1>3 DEF vars, LoseConnection, Recycle
<1>4. ASSUME NEW w \in Workers, Crash(w) PROVE clock' = clock
  BY <1>4 DEF Crash
<1>5. ASSUME NEW t \in Threads, Boot(t) \/ LoopExit(t) \/ Tick(t) \/ Operator(t)
      PROVE  clock' = clock
  BY <1>5 DEF Boot, LoopExit, Tick, TickAsLeader, TickWithoutLock, TickAsFollower, BeginTick,
              Operator, StartCall, Stop, ForceStart, PauseJob, ResumeJob
<1>6. ASSUME NEW t \in Threads, Proceed(t) PROVE clock' = clock
  BY <1>6
  DEF Proceed, StartRead, StartApply, StartStagger, ReadTable, StartPersist, StopReturns, SkipJob, StartJob, JobSucceeds,
      JobFailsTransient, JobFailsConfig, JobFailsFatal, JobFailsOther, HandlerEnds,
      JudgeErrors, ReEnable, SaveTick, EndTick, ForceSucceeds, ForceFails, ForceEnds
<1>7. QED
  BY <1>1, <1>2, <1>3, <1>4, <1>5, <1>6 DEF Next

-----------------------------------------------------------------------------
(* The life of a process and the places of its threads.  A process that is  *)
(* down has no thread anywhere, one that boots has the one thread that      *)
(* starts it, and, unless an operator restarts the daemon, nobody else      *)
(* starts it.                                                               *)

Lives ==
    /\ \A w \in Workers \ Cli :
          /\ life[w] = "down" => \A t \in Threads : Owner[t] = w => pc[t] = "off"
          /\ life[w] = "booting" =>
                \E t \in Threads : /\ Owner[t] = w /\ pc[t] \in Starting
                                   /\ \A u \in Threads \ {t} : Owner[u] = w => pc[u] = "off"
    /\ \A t \in Threads : pc[t] \in Starting => Owner[t] \notin Cli

Quiet == used["restart"] = 0 => \A t \in Threads : pc[t] \in Starting => life[Owner[t]] = "booting"

\* The threads of a process that is down stay where they are.
LEMMA DownStaysOff ==
    ASSUME TypeOK, [Next]_vars, NEW w \in Workers \ Cli, NEW u \in Threads, Owner[u] = w,
           life[w] = "down", pc[u] = "off", life'[w] = "down"
    PROVE  pc'[u] = "off"
<1>1. LabelStep(u)
  BY LabelMoves
<1>2. ~StartCall(u) /\ ~Idles(u) /\ ~MayTick(u) /\ ~ForceStart(u)
  BY DEF StartCall, Serving, Idles, MayTick, ForceStart
<1>3. ~Boot(u)
  BY DEF Boot, TypeOK
<1>4. \A t \in Threads : Owner[t] = w => ~StartPersist(t)
  BY DEF StartPersist, TypeOK
<1>5. QED
  BY <1>1, <1>2, <1>3, <1>4 DEF LabelStep, Unmoved, InTick, StartRead, StartApply, StartStagger, ReadTable, StartPersist

\* So do the others of a process that boots, and the one that starts it goes on.
LEMMA BootingAlone ==
    ASSUME TypeOK, [Next]_vars, NEW w \in Workers \ Cli, NEW t \in Threads, Owner[t] = w,
           life[w] = "booting", life'[w] = "booting", pc[t] \in Starting,
           \A u \in Threads \ {t} : Owner[u] = w => pc[u] = "off"
    PROVE  pc'[t] \in Starting /\ \A u \in Threads \ {t} : Owner[u] = w => pc'[u] = "off"
<1>1. \A v \in Threads : Owner[v] = w => ~StartPersist(v)
  BY DEF StartPersist, TypeOK
<1>2. ~Crash(w)
  BY DEF Crash, TypeOK
<1>3. LabelStep(t)
  BY LabelMoves
<1>4. pc'[t] \in Starting
  <2>1. ~Idles(t) /\ ~InTick(t) /\ ~ForceStart(t) /\ ~MayTick(t) /\ pc[t] # "off"
    BY DEF Idles, InTick, ForceStart, Serving, Starting, MayTick
  <2>2. QED
    BY <1>1, <1>2, <1>3, <2>1 DEF LabelStep, Unmoved, Starting
<1>5. ASSUME NEW u \in Threads \ {t}, Owner[u] = w PROVE pc'[u] = "off"
  <2>1. pc[u] = "off" /\ LabelStep(u)
    BY <1>5, LabelMoves
  <2>2. ~StartCall(u) /\ ~Idles(u) /\ ~MayTick(u) /\ ~ForceStart(u) /\ ~Boot(u)
    BY <1>5 DEF StartCall, Serving, Idles, MayTick, ForceStart, Boot
  <2>3. ~StartRead(u) /\ ~StartApply(u) /\ ~StartStagger(u) /\ pc[u] # "persist" /\ ~InTick(u)
    BY <2>1 DEF StartRead, StartApply, StartStagger, InTick
  <2>4. QED
    BY <1>1, <1>2, <1>5, <2>1, <2>2, <2>3 DEF LabelStep, Unmoved
<1>6. QED
  BY <1>4, <1>5

\* Every step keeps what is said of the life of a process.
LEMMA LivesNext == ASSUME TypeOK, Lives, [Next]_vars PROVE Lives'
<1>1. ASSUME NEW w \in Workers \ Cli, life'[w] = "down", NEW u \in Threads, Owner[u] = w
      PROVE  pc'[u] = "off"
  <2>1. CASE life'[w] = life[w]
    BY <1>1, <2>1, DownStaysOff DEF Lives
  <2>2. CASE Crash(w)
    BY <1>1, <2>2 DEF Crash
  <2>3. QED
    BY <1>1, <2>1, <2>2, LifeMoves DEF LifeStep
<1>2. ASSUME NEW w \in Workers \ Cli, life'[w] = "booting"
      PROVE  \E t \in Threads : /\ Owner[t] = w /\ pc'[t] \in Starting
                                /\ \A u \in Threads \ {t} : Owner[u] = w => pc'[u] = "off"
  <2>1. CASE life'[w] = life[w]
    <3>1. PICK t \in Threads : /\ Owner[t] = w /\ pc[t] \in Starting
                               /\ \A u \in Threads \ {t} : Owner[u] = w => pc[u] = "off"
      BY <1>2, <2>1 DEF Lives
    <3>2. QED
      BY <1>2, <2>1, <3>1, BootingAlone
  <2>2. ASSUME NEW t \in Threads, Owner[t] = w, Boot(t)
        PROVE  pc'[t] \in Starting /\ \A u \in Threads \ {t} : Owner[u] = w => pc'[u] = "off"
    BY <2>2 DEF Boot, Goto, Lives, Starting, TypeOK
  <2>3. QED
    BY <1>2, <2>1, <2>2, LifeMoves DEF LifeStep
<1>3. ASSUME NEW t \in Threads, pc'[t] \in Starting PROVE Owner[t] \notin Cli
  <2>1. LabelStep(t)
    BY LabelMoves
  <2>2. QED
    BY <1>3, <2>1
    DEF LabelStep, Unmoved, Idles, InTick, Starting, Lives, StartCall, Serving,
        StartRead, StartApply, StartStagger
<1>4. QED
  BY <1>1, <1>2, <1>3 DEF Lives

\* A thread of a web process that is past its start is so in a process that is up.
LEMMA BusyIsUp ==
    ASSUME TypeOK, Lives, NEW t \in Threads, Owner[t] \notin Cli, pc[t] \notin Starting \cup {"off"}
    PROVE  life[Owner[t]] = "up"
<1>1. Owner[t] \in Workers \ Cli
  BY ThreadsAssumption
<1>2. life[Owner[t]] # "down"
  BY <1>1 DEF Lives
<1>3. life[Owner[t]] # "booting"
  BY <1>1 DEF Lives
<1>4. QED
  BY <1>1, <1>2, <1>3 DEF TypeOK

\* Every step keeps that nobody restarts a daemon that no operator restarts.
LEMMA QuietNext == ASSUME TypeOK, Lives, Quiet, [Next]_vars PROVE Quiet'
<1> SUFFICES ASSUME used'["restart"] = 0, NEW t \in Threads, pc'[t] \in Starting
             PROVE  life'[Owner[t]] = "booting"
  BY DEF Quiet
<1> DEFINE w == Owner[t]
<1>1. used["restart"] = 0
  BY UsedGrows DEF Kinds
<1>2. ~StartCall(t)
  BY DEF StartCall, Use, TypeOK, Kinds
<1>3. Boot(t) /\ Owner[t] \notin Cli => life'[Owner[t]] = "booting"
  BY ThreadsAssumption DEF Boot, TypeOK
<1>4. LabelStep(t)
  BY LabelMoves
<1>5. CASE pc[t] \in Starting /\ pc'[t] \in Starting
  <2>1. life[w] = "booting" /\ w \in Workers \ Cli
    BY <1>1, <1>5, ThreadsAssumption DEF Quiet, Lives
  <2>2. ASSUME NEW u \in Threads, Owner[u] = w, StartPersist(u) PROVE FALSE
    <3>1. pc[u] # "off"
      BY <2>2 DEF StartPersist
    <3>2. u = t
      BY <1>5, <2>1, <2>2, <3>1 DEF Lives, Starting
    <3>3. QED
      BY <1>5, <2>2, <3>2 DEF StartPersist, Starting, TypeOK
  <2>3. ~Crash(w)
    BY <1>5 DEF Crash, Starting
  <2>4. \A u \in Threads : Owner[u] = w => ~Boot(u)
    BY <2>1 DEF Boot
  <2>5. QED
    BY <2>1, <2>2, <2>3, <2>4, LifeMoves DEF LifeStep
<1>6. QED
  BY <1>2, <1>3, <1>4, <1>5 DEF LabelStep, Unmoved, Idles, InTick, Starting,
                                     StartRead, StartApply, StartStagger

-----------------------------------------------------------------------------
(* Time.  No time that is kept anywhere is in the future.                   *)

Past ==
    /\ \A w \in Workers :
          warmAt[w] <= clock /\ \A j \in Jobs : jobs[w][j].last <= clock /\ ran[w][j] <= clock
    /\ \A j \in Jobs : db[j].last <= clock
    /\ \A t \in Threads : now[t] <= clock /\ \A j \in Jobs : table[t][j].last <= clock

\* What a thread writes as last_run: the time, the time its tick began, or
\* what the row of the job says.
LEMMA LastWritten ==
    ASSUME TypeOK, NEW t \in Threads, NEW j \in Jobs, Writes(t, j)
    PROVE  \/ After(t, j).last = Before(t, j).last
           \/ StartApply(t) /\ table[t][j].last # Never /\ After(t, j).last = table[t][j].last
           \/ StartStagger(t) /\ After(t, j).last = clock
           \/ pc[t] = "run" /\ After(t, j).last = now[t]
           \/ pc[t] = "force" /\ After(t, j).last = clock
<1>1. Before(t, j) \in JobConfig /\ table[t][j] \in SchedulerJob
  BY ThreadsAssumption DEF TypeOK, Before
<1>2. CASE j = JobOf(t) /\ WritesItsJob(t)
  <2>1. Config(t) = Before(t, j)
    BY <1>2 DEF Config, Before
  <2>2. Config(t) \in JobConfig
    BY <1>1, <2>1
  <2>3. \/ JobSucceeds(t) /\ After(t, j).last = now[t]
        \/ ForceSucceeds(t) /\ After(t, j).last = clock
        \/ After(t, j).last = Config(t).last
    BY <1>2, <2>2 DEF WritesItsJob, JobConfig
  <2>4. QED
    BY <2>1, <2>3 DEF JobSucceeds, HandlerEnds, ForceSucceeds, ForceEnds
<1>3. CASE WritesAnyJob(t, j)
  <2>1. CASE StartApply(t) /\ After(t, j) = Restore(Before(t, j), table[t][j])
    BY <1>1, <2>1 DEF Restore, JobConfig, SchedulerJob
  <2>2. CASE StartStagger(t) /\ After(t, j) = [Before(t, j) EXCEPT !.last = clock]
    BY <1>1, <2>2 DEF JobConfig
  <2>3. ASSUME NEW e \in {Before(t, j), [Before(t, j) EXCEPT !.errors = @ + 1]},
               After(t, j) \in {e, Halted(e, ticks[Owner[t]])}
        PROVE  After(t, j).last = Before(t, j).last
    <3>1. e.last = Before(t, j).last /\ e \in JobConfig
      <4>1. Before(t, j).errors + 1 \in Nat
        BY <1>1 DEF JobConfig
      <4>2. QED
        BY <1>1, <4>1 DEF JobConfig
    <3>2. QED
      BY <2>3, <3>1 DEF Halted, JobConfig
  <2>4. CASE After(t, j) = Enabled(Before(t, j)) \/ After(t, j) = Paused(Before(t, j))
    BY <1>1, <2>4 DEF Enabled, Paused, JobConfig
  <2>5. QED
    BY <1>3, <2>1, <2>2, <2>3, <2>4 DEF WritesAnyJob
<1>4. QED
  BY <1>2, <1>3 DEF Writes

\* Where `now` comes from.
LEMMA NowMoves ==
    ASSUME TypeOK, [Next]_vars, NEW t \in Threads
    PROVE  now'[t] \in {now[t], clock, 0}
<1>1. CASE UNCHANGED now
  BY <1>1
<1>2. CASE UNCHANGED vars \/ Advance \/ LoseConnection \/ Recycle
  BY <1>1, <1>2 DEF vars, Advance, LoseConnection, Recycle, threadVars
<1>3. ASSUME NEW w \in Workers, Crash(w) PROVE now'[t] \in {now[t], clock, 0}
  BY <1>3 DEF Crash
<1>4. ASSUME NEW u \in Threads, Boot(u) \/ LoopExit(u) \/ Tick(u) \/ Operator(u)
      PROVE  now'[t] \in {now[t], clock, 0}
  BY <1>4 DEF Boot, LoopExit, Tick, TickAsLeader, TickWithoutLock, TickAsFollower, BeginTick,
              Operator, StartCall, Stop, ForceStart, PauseJob, ResumeJob, threadVars, TypeOK
<1>5. ASSUME NEW u \in Threads, Proceed(u) PROVE now'[t] \in {now[t], clock, 0}
  BY <1>5
  DEF Proceed, StartRead, StartApply, StartStagger, ReadTable, StartPersist, StopReturns, SkipJob, StartJob, JobSucceeds,
      JobFailsTransient, JobFailsConfig, JobFailsFatal, JobFailsOther, HandlerEnds,
      JudgeErrors, ReEnable, SaveTick, EndTick, ForceSucceeds, ForceFails, ForceEnds, TypeOK
<1>6. QED
  BY <1>2, <1>3, <1>4, <1>5 DEF Next

\* Every step keeps every time it remembers in the past.
LEMMA PastNext == ASSUME TypeOK, Past, [Next]_vars PROVE Past'
<1> USE ThreadsAssumption
<1>0. clock \in Nat /\ clock' \in Nat /\ clock <= clock'
  BY ClockMoves DEF TypeOK
<1>1. ASSUME NEW w \in Workers PROVE warmAt'[w] <= clock'
  <2>1. warmAt[w] <= clock /\ warmAt[w] \in Nat
    BY DEF Past, TypeOK
  <2>2. QED
    BY <1>0, <2>1, WarmAtMoves
<1>2. ASSUME NEW w \in Workers, NEW j \in Jobs PROVE jobs'[w][j].last <= clock'
  <2>1. jobs[w][j].last <= clock /\ jobs[w][j].last \in Nat \cup {Never}
    BY DEF Past, TypeOK, JobConfig
  <2>2. FreshJob.last <= clock'
    BY <1>0 DEF FreshJob, Never
  <2>3. ASSUME NEW t \in Threads, Owner[t] = w, Writes(t, j) PROVE jobs'[w][j].last <= clock
    <3>1. now[t] <= clock /\ table[t][j].last <= clock
      BY DEF Past
    <3>2. QED
      BY <1>0, <2>1, <2>3, <3>1, LastWritten DEF Before, After
  <2>4. CASE jobs'[w][j] = jobs[w][j]
    BY <1>0, <2>1, <2>4 DEF Never
  <2>5. ASSUME NEW t \in Threads, Owner[t] = w, Writes(t, j) PROVE jobs'[w][j].last <= clock'
    <3>1. jobs'[w][j] \in JobConfig
      BY TypeNext DEF TypeOK
    <3>2. jobs'[w][j].last \in Nat \cup {Never}
      BY <3>1 DEF JobConfig
    <3>3. QED
      BY <1>0, <2>3, <2>5, <3>2 DEF Never
  <2>6. QED
    BY <2>2, <2>4, <2>5, JobMoves DEF JobStep
<1>3. ASSUME NEW j \in Jobs PROVE db'[j].last <= clock'
  <2>1. db[j].last <= clock /\ db[j].last \in Nat \cup {Never}
    BY DEF Past, TypeOK, SchedulerJob
  <2>2. ASSUME NEW t \in Threads, NEW n \in 0..5, db'[j] = Torn(table[t][j], Row(jobs[Owner[t]][j]), n)
        PROVE  db'[j].last <= clock /\ db'[j].last \in Nat \cup {Never}
    <3>1. jobs[Owner[t]][j].last <= clock /\ jobs[Owner[t]][j].last \in Nat \cup {Never}
      BY DEF Past, TypeOK, JobConfig
    <3>2. table[t][j].last <= clock /\ table[t][j].last \in Nat \cup {Never}
      BY DEF Past, TypeOK, SchedulerJob
    <3>3. db'[j].last \in {table[t][j].last, jobs[Owner[t]][j].last}
      BY <2>2 DEF Torn, Row
    <3>4. QED
      BY <3>1, <3>2, <3>3
  <2>3. db'[j].last <= clock /\ db'[j].last \in Nat \cup {Never}
    BY <2>1, <2>2, RowMoves
  <2>4. QED
    BY <1>0, <2>3 DEF Never
<1>5. ASSUME NEW w \in Workers, NEW j \in Jobs PROVE ran'[w][j] <= clock'
  <2>1. ran[w][j] <= clock /\ ran[w][j] \in Nat \cup {Never}
    BY DEF Past, TypeOK
  <2>2. \A t \in Threads : now[t] <= clock /\ now[t] \in Nat
    BY DEF Past, TypeOK
  <2>3. QED
    BY <1>0, <2>1, <2>2, RanMoves DEF Never
<1>6. ASSUME NEW t \in Threads, NEW j \in Jobs PROVE table'[t][j].last <= clock'
  <2>1. table[t][j].last <= clock /\ table[t][j].last \in Nat \cup {Never}
    BY DEF Past, TypeOK, SchedulerJob
  <2>2. db[j].last <= clock /\ db[j].last \in Nat \cup {Never}
    BY DEF Past, TypeOK, SchedulerJob
  <2>3. jobs[Owner[t]][j].last <= clock /\ jobs[Owner[t]][j].last \in Nat \cup {Never}
    BY DEF Past, TypeOK, JobConfig
  <2>4. table'[t][j].last \in {table[t][j].last, Never, db[j].last, jobs[Owner[t]][j].last}
    <3>1. CASE table'[t] = NoRows
      BY <3>1 DEF NoRows, Row, FreshJob
    <3>2. CASE table'[t] = [i \in Jobs |-> Row(jobs[Owner[t]][i])]
      BY <3>2 DEF Row
    <3>3. CASE table'[t] \in {table[t], db}
      BY <3>3
    <3>4. QED
      BY <3>1, <3>2, <3>3, ReadMoves
  <2>5. QED
    BY <1>0, <2>1, <2>2, <2>3, <2>4 DEF Never
<1>4. ASSUME NEW t \in Threads PROVE now'[t] <= clock'
  <2>1. now[t] <= clock /\ now[t] \in Nat
    BY DEF Past, TypeOK
  <2>2. QED
    BY <1>0, <2>1, NowMoves
<1>7. QED
  BY <1>1, <1>2, <1>3, <1>4, <1>5, <1>6 DEF Past

-----------------------------------------------------------------------------
(* Warm-up.  It holds because of what is known of a staggered job in a      *)
(* process whose start is over: its last_run is less than an interval       *)
(* before the start, and no tick of the process is older than the start.    *)

Warm ==
    used["restart"] = 0 =>
       /\ \A t \in Threads : InTick(t) /\ Owner[t] \notin Cli => warmAt[Owner[t]] <= now[t]
       /\ \A w \in Workers \ Cli :
             life[w] = "up" \/ (\E t \in Threads : Owner[t] = w /\ pc[t] \in {"persist", "spawn"})
                => \A j \in Jobs \ Immediate :
                      jobs[w][j].last # Never /\ warmAt[w] - jobs[w][j].last < Interval

\* A thread that is in a tick was in it before the step or begins it now.
LEMMA InTickMoves ==
    ASSUME TypeOK, [Next]_vars, NEW t \in Threads, InTick(t)'
    PROVE  \/ InTick(t) /\ now'[t] = now[t]
           \/ MayTick(t) /\ BeginTick(t) /\ now'[t] = clock
BY LabelMoves DEF LabelStep, Unmoved, Idles, InTick

\* A thread that starts its process is the only one of it, and the process boots.
LEMMA StartsAlone ==
    ASSUME TypeOK, Lives, Quiet, used["restart"] = 0, NEW t \in Threads, pc[t] \in Starting
    PROVE  /\ Owner[t] \in Workers \ Cli /\ life[Owner[t]] = "booting"
           /\ \A u \in Threads : Owner[u] = Owner[t] /\ pc[u] # "off" => u = t
<1>1. Owner[t] \in Workers \ Cli /\ life[Owner[t]] = "booting"
  BY ThreadsAssumption DEF Lives, Quiet
<1>2. PICK v \in Threads : /\ Owner[v] = Owner[t] /\ pc[v] \in Starting
                           /\ \A u \in Threads \ {v} : Owner[u] = Owner[t] => pc[u] = "off"
  BY <1>1 DEF Lives
<1>3. QED
  BY <1>1, <1>2 DEF Starting

\* No tick of a web process began before the process started.
LEMMA WarmTicks ==
    ASSUME TypeOK, Lives, Quiet, Past, Warm, [Next]_vars, used'["restart"] = 0,
           NEW t \in Threads, InTick(t)', Owner[t] \notin Cli
    PROVE  warmAt'[Owner[t]] <= now'[t]
<1>1. used["restart"] = 0 /\ Owner[t] \in Workers
  BY UsedGrows, ThreadsAssumption DEF Kinds
<1>2. warmAt[Owner[t]] <= clock /\ warmAt[Owner[t]] \in Nat /\ now'[t] \in Nat
  BY <1>1, TypeNext DEF Past, TypeOK
<1>3. now'[t] = clock \/ (InTick(t) /\ now'[t] = now[t] /\ warmAt[Owner[t]] <= now[t])
  BY <1>1, InTickMoves DEF Warm
<1>4. ASSUME NEW u \in Threads, StartStagger(u), Owner[u] = Owner[t] PROVE FALSE
  <2>1. pc[u] = "stagger" /\ pc'[u] = "persist"
    BY <1>4 DEF StartStagger, Goto, TypeOK
  <2>2. pc[t] # "off" => t = u
    BY <1>1, <1>4, <2>1, StartsAlone DEF Starting
  <2>3. t # u
    BY <2>1 DEF InTick
  <2>4. pc'[t] = pc[t]
    BY <1>4, <2>3 DEF StartStagger, Goto, TypeOK
  <2>5. QED
    BY <2>2, <2>3, <2>4 DEF InTick
<1>5. QED
  BY <1>1, <1>2, <1>3, <1>4, WarmAtMoves

\* A staggered job of a web process that has started is not overdue at the start.
LEMMA WarmJobs ==
    ASSUME TypeOK, Lives, Quiet, Past, Warm, [Next]_vars, used'["restart"] = 0,
           NEW w \in Workers \ Cli,
           life'[w] = "up" \/ (\E t \in Threads : Owner[t] = w /\ pc'[t] \in {"persist", "spawn"}),
           NEW j \in Jobs \ Immediate
    PROVE  jobs'[w][j].last # Never /\ warmAt'[w] - jobs'[w][j].last < Interval
<1> DEFINE On == life[w] = "up" \/ (\E t \in Threads : Owner[t] = w /\ pc[t] \in {"persist", "spawn"})
<1> USE NumbersAssumption
<1>0. used["restart"] = 0 /\ clock \in Nat /\ jobs[w][j] \in JobConfig /\ warmAt[w] \in Nat
  <2>1. used["restart"] = 0
    BY UsedGrows DEF Kinds
  <2>2. clock \in Nat /\ jobs[w][j] \in JobConfig /\ warmAt[w] \in Nat
    BY DEF TypeOK
  <2>3. QED
    BY <2>1, <2>2
<1>1. CASE \E t \in Threads : StartStagger(t) /\ Owner[t] = w
  <2>1. PICK t \in Threads : StartStagger(t) /\ Owner[t] = w
    BY <1>1
  <2>2. jobs'[w][j] = IF Overdue(jobs[w][j], clock)
                      THEN [jobs[w][j] EXCEPT !.last = clock] ELSE jobs[w][j]
    BY <2>1 DEF StartStagger, TypeOK
  <2>3. warmAt'[w] = clock
    BY <2>1 DEF StartStagger, TypeOK
  <2>4. QED
    BY <1>0, <2>2, <2>3 DEF Overdue, JobConfig, Never
<1>2. CASE ~\E t \in Threads : StartStagger(t) /\ Owner[t] = w
  <2>1. ~Crash(w)
    BY DEF Crash, TypeOK
  <2>2. On
    <3>1. CASE life'[w] = "up"
      <4>1. ASSUME NEW t \in Threads, Owner[t] = w, StartPersist(t) PROVE On
        BY <4>1 DEF StartPersist
      <4>2. QED
        BY <2>1, <3>1, <4>1, LifeMoves DEF LifeStep
    <3>2. ASSUME NEW t \in Threads, Owner[t] = w, pc'[t] \in {"persist", "spawn"}
          PROVE  pc[t] \in {"persist", "spawn"}
      BY <1>2, <3>2, LabelMoves DEF LabelStep, Unmoved, Idles, InTick
    <3>3. QED
      BY <3>1, <3>2
  <2>3. jobs[w][j].last # Never /\ warmAt[w] - jobs[w][j].last < Interval
    BY <1>0, <2>2 DEF Warm
  <2>4. warmAt'[w] = warmAt[w] /\ warmAt[w] <= clock
    BY <1>2, <2>1, WarmAtMoves DEF Past
  <2>5. ~(jobs'[w][j] = FreshJob /\ life'[w] = "down")
    <3>1. life'[w] = "down" => \A t \in Threads : Owner[t] = w => pc'[t] = "off"
      BY LivesNext DEF Lives
    <3>2. QED
      BY <3>1
  <2>6. ASSUME NEW t \in Threads, Owner[t] = w, Writes(t, j)
        PROVE  jobs'[w][j].last \in {jobs[w][j].last, clock}
               \/ (jobs'[w][j].last = now[t] /\ now[t] \in Nat /\ warmAt[w] <= now[t])
    <3>1. ~StartApply(t)
      <4>1. ASSUME StartApply(t) PROVE FALSE
        <5>1. pc[t] = "apply"
          BY <4>1 DEF StartApply
        <5>2. life[w] = "booting" /\ \A u \in Threads : Owner[u] = w /\ pc[u] # "off" => u = t
          BY <1>0, <2>6, <5>1, StartsAlone DEF Starting
        <5>3. QED
          BY <2>2, <5>1, <5>2
      <4>2. QED
        BY <4>1
    <3>2. pc[t] = "run" => warmAt[w] <= now[t]
      BY <1>0, <2>6 DEF Warm, InTick
    <3>3. QED
      BY <2>6, <3>1, <3>2, LastWritten DEF Before, After, TypeOK
  <2>7. QED
    BY <1>0, <2>3, <2>4, <2>5, <2>6, JobMoves DEF JobStep, JobConfig, Never
<1>3. QED
  BY <1>1, <1>2

\* Every step keeps the two facts that warm-up follows from.
LEMMA WarmNext == ASSUME TypeOK, Lives, Quiet, Past, Warm, [Next]_vars PROVE Warm'
BY WarmTicks, WarmJobs DEF Warm

\* What holds of lives, restarts and times at the start.
LEMMA StandingInit == Init => Lives /\ Quiet /\ Past /\ Warm
<1> SUFFICES ASSUME Init PROVE Lives /\ Quiet /\ Past /\ Warm
  OBVIOUS
<1>1. Lives /\ Quiet
  BY ThreadsAssumption DEF Init, Lives, Quiet, Starting
<1>2. Past
  BY DEF Init, Past, NoRows, FreshJob, Row, Never
<1>3. Warm
  BY DEF Init, Warm, InTick
<1>4. QED
  BY <1>1, <1>2, <1>3

\* A job that start() has staggered is run by no tick of the same moment: a
\* deploy or a crash is never followed by a burst of overdue expensive jobs.
THEOREM NoBurstAtStart == Spec => WarmUp
<1> DEFINE Inv == TypeOK /\ Lives /\ Quiet /\ Past /\ Warm
<1>1. Init => Inv
  BY TypeInit, StandingInit
<1>2. Inv /\ [Next]_vars => Inv'
  BY TypeNext, LivesNext, QuietNext, PastNext, WarmNext
<1>3. ASSUME Inv, NEW t \in Threads, StartJob(t), Owner[t] \notin Cli,
             JobOf(t) \notin Immediate, used["restart"] = 0
      PROVE  now[t] > warmAt[Owner[t]]
  <2>1. Owner[t] \in Workers \ Cli /\ JobOf(t) \in Jobs \ Immediate
    BY <1>3, ThreadsAssumption, JobAtPosition DEF StartJob, AtJob, JobOf, TypeOK
  <2>2. life[Owner[t]] = "up"
    BY <1>3, BusyIsUp DEF StartJob, AtJob, Starting
  <2>3. /\ Config(t).last # Never
        /\ warmAt[Owner[t]] - Config(t).last < Interval
    BY <1>3, <2>1, <2>2 DEF Warm, Config
  <2>4. Config(t).last = Never \/ now[t] - Config(t).last >= Interval
    BY <1>3 DEF StartJob, IsDue, Overdue
  <2>5. Config(t).last \in Nat \cup {Never} /\ now[t] \in Nat /\ warmAt[Owner[t]] \in Nat
    BY <1>3, <2>1 DEF TypeOK, Config, JobConfig
  <2>6. QED
    BY <2>3, <2>4, <2>5, NumbersAssumption
<1>4. Inv => [\A t \in Threads :
          StartJob(t) /\ Owner[t] \notin Cli /\ JobOf(t) \notin Immediate /\ used["restart"] = 0
             => now[t] > warmAt[Owner[t]]]_vars
  BY <1>3
<1>5. QED
  BY <1>1, <1>2, <1>4, PTL DEF Spec, WarmUp

-----------------------------------------------------------------------------
(* last_run.  A tick writes the `now` of its beginning when the handler has *)
(* ended.  That does not fall behind a tick that has run the job before,    *)
(* because the lock keeps any other tick out; a forced run in between has   *)
(* written a later time, but is no tick.                                    *)

Ordered ==
    "lock" \notin mishaps =>
       /\ \A t \in Threads, j \in Jobs : InTick(t) => ran[Owner[t]][j] <= now[t]
       /\ \A w \in Workers, j \in Jobs : jobs[w][j].last >= ran[w][j]

\* No tick of a process that goes on is older than a run of the process.
LEMMA TicksOrdered ==
    ASSUME TypeOK, Past, Leading, Ordered, [Next]_vars, "lock" \notin mishaps,
           NEW t \in Threads, NEW j \in Jobs, InTick(t)'
    PROVE  ran'[Owner[t]][j] <= now'[t]
<1> DEFINE w == Owner[t]
<1>1. w \in Workers /\ clock \in Nat /\ now[t] \in Nat /\ ran[w][j] \in Nat \cup {Never}
  BY ThreadsAssumption DEF TypeOK
<1>2. ran[w][j] <= clock
  BY <1>1 DEF Past
<1>3. now'[t] \in Nat
  BY TypeNext DEF TypeOK
<1>4. CASE InTick(t) /\ now'[t] = now[t]
  <2>1. ran[w][j] <= now[t]
    BY <1>4 DEF Ordered
  <2>2. ASSUME NEW u \in Threads, pc[u] = "run" PROVE u = t
    BY <1>4, <2>2 DEF Leading, LeaderHoldsLock, InTick
  <2>3. QED
    BY <1>1, <1>3, <1>4, <2>1, <2>2, RanMoves DEF Never
<1>5. CASE now'[t] = clock
  <2>1. \A u \in Threads : now[u] <= clock
    BY DEF Past
  <2>2. QED
    BY <1>1, <1>2, <1>5, <2>1, RanMoves DEF Never
<1>6. QED
  BY <1>4, <1>5, InTickMoves

\* And no last_run falls behind such a run.
LEMMA LastOrdered ==
    ASSUME TypeOK, Past, Ordered, [Next]_vars, "lock" \notin mishaps,
           NEW w \in Workers, NEW j \in Jobs
    PROVE  jobs'[w][j].last >= ran'[w][j]
<1>1. /\ jobs[w][j].last \in Nat \cup {Never} /\ ran[w][j] \in Nat \cup {Never}
      /\ clock \in Nat
  BY DEF TypeOK, JobConfig
<1>2. jobs'[w][j].last \in Nat \cup {Never}
  <2>1. jobs'[w][j] \in JobConfig
    BY TypeNext DEF TypeOK
  <2>2. QED
    BY <2>1 DEF JobConfig
<1>3. jobs[w][j].last >= ran[w][j] /\ ran[w][j] <= clock
  BY DEF Ordered, Past
<1>4. ASSUME NEW t \in Threads, Owner[t] = w, JobSucceeds(t), JobOf(t) = j
      PROVE  jobs'[w][j].last = now[t]
  <2>1. jobs' = [jobs EXCEPT ![w][j] = [jobs[w][j] EXCEPT !.last = now[t], !.runs = @ + 1, !.consec = 0]]
    BY <1>4 DEF JobSucceeds, SetJob, Config, JobOf
  <2>2. jobs'[w][j] = [jobs[w][j] EXCEPT !.last = now[t], !.runs = @ + 1, !.consec = 0]
    BY <2>1 DEF TypeOK
  <2>3. jobs[w][j] \in JobConfig
    BY DEF TypeOK
  <2>4. QED
    BY <2>2, <2>3 DEF JobConfig
<1>5. CASE ran'[w][j] = Never
  BY <1>2, <1>5 DEF Never
<1>6. CASE ran'[w][j] = ran[w][j]
  <2>1. CASE jobs'[w][j] = jobs[w][j]
    BY <1>3, <1>6, <2>1
  <2>2. ASSUME NEW t \in Threads, Owner[t] = w, Writes(t, j), ran'[w][j] # Never
        PROVE  jobs'[w][j].last >= ran[w][j]
    <3>1. ~StartApply(t)
      BY <2>2, ThreadsAssumption DEF StartApply, TypeOK
    <3>2. pc[t] = "run" => ran[w][j] <= now[t] /\ now[t] \in Nat
      BY <2>2 DEF Ordered, InTick, TypeOK
    <3>3. \/ After(t, j).last = Before(t, j).last \/ After(t, j).last = clock
          \/ pc[t] = "run" /\ After(t, j).last = now[t]
      BY <2>2, <3>1, LastWritten
    <3>4. QED
      BY <1>1, <1>3, <2>2, <3>2, <3>3 DEF Before, After, Never
  <2>3. QED
    BY <1>5, <1>6, <2>1, <2>2, JobMoves DEF JobStep
<1>7. ASSUME NEW t \in Threads, Owner[t] = w, JobSucceeds(t), JobOf(t) = j, ran'[w][j] = now[t]
      PROVE  jobs'[w][j].last >= ran'[w][j]
  BY <1>4, <1>7 DEF TypeOK
<1>8. QED
  BY <1>5, <1>6, <1>7, RanMoves

\* Every step keeps the ticks and what they have run in order.
LEMMA OrderedNext == ASSUME TypeOK, Past, Leading, Ordered, [Next]_vars PROVE Ordered'
BY TicksOrdered, LastOrdered, MishapsGrow DEF Ordered

\* As long as every tick has had the lock and kept it, last_run never falls
\* behind the latest tick that ran the job, whatever is forced, restarted,
\* killed or restored meanwhile.
THEOREM LastRunStays == Spec => []LastRunHolds
<1> DEFINE Inv == TypeOK /\ Past /\ Leading /\ Ordered
<1>1. Init => Inv
  <2>1. Init => Ordered
    BY DEF Init, Ordered, InTick, FreshJob, Never
  <2>2. QED
    BY <2>1, TypeInit, StandingInit, LeadingInit
<1>2. Inv /\ [Next]_vars => Inv'
  BY TypeNext, PastNext, LeadingNext, OrderedNext
<1>3. Inv => LastRunHolds
  BY DEF Ordered, LastRunHolds
<1>4. QED
  BY <1>1, <1>2, <1>3, PTL DEF Spec

-----------------------------------------------------------------------------
(* Consecutive errors.  A burst is judged in a second critical section, so  *)
(* a job may be saved, and restored by another process, before it is: the   *)
(* lock keeps the one tick that saves out of the tick that has to judge.    *)

Clean == used["restart"] = 0 /\ mishaps \cap {"lock", "torn"} = {}

RowJudged(row) == row.enabled /\ row.last # Never => row.consec < MaxConsecutive

RowsJudged ==
    Clean => \A j \in Jobs : RowJudged(db[j]) /\ \A t \in Threads : RowJudged(table[t][j])

\* What has not gone wrong after a step had not before it.
LEMMA StaysClean == ASSUME TypeOK, [Next]_vars, Clean' PROVE Clean
BY UsedGrows, MishapsGrow DEF Clean, Kinds

\* A thread that is to judge a job stays at it until it has judged it.
LEMMA JudgeMoves ==
    ASSUME TypeOK, Lives, [Next]_vars, NEW t \in Threads, pc[t] = "judge"
    PROVE  (pc'[t] = "judge" /\ pos'[t] = pos[t]) \/ JudgeErrors(t) \/ Crash(Owner[t])
<1>1. LabelStep(t)
  BY LabelMoves
<1>2. ~StartCall(t) /\ ~StartRead(t) /\ ~StartApply(t)
      /\ ~StartStagger(t) /\ ~StartPersist(t) /\ ~ForceStart(t)
      /\ ~MayTick(t) /\ ~Idles(t) /\ pc[t] # "persist"
  BY DEF StartCall, Serving, StartRead, StartApply, StartStagger, StartPersist, ForceStart, MayTick, Idles
<1>3. ~(Boot(t) /\ Owner[t] \notin Cli)
  BY BusyIsUp DEF Boot, Starting
<1>4. QED
  BY <1>1, <1>2, <1>3 DEF LabelStep, Unmoved

\* A burst of errors of an enabled job is judged before a row of it is read to be saved.
LEMMA SavedIsJudged ==
    ASSUME TypeOK, Lives, Quiet, ErrorBurstDisables, Leading, Clean,
           NEW t \in Threads, Saves(t) \/ ReadTable(t), NEW j \in Jobs
    PROVE  RowJudged(Row(jobs[Owner[t]][j]))
<1> DEFINE c == jobs[Owner[t]][j]
<1>0. Owner[t] \in Workers /\ c \in JobConfig
  BY ThreadsAssumption DEF TypeOK
<1> SUFFICES ASSUME c.enabled, c.consec >= MaxConsecutive PROVE FALSE
  BY <1>0, NumbersAssumption DEF RowJudged, Row, JobConfig
<1>1. PICK u \in Threads : Owner[u] = Owner[t] /\ pc[u] = "judge"
  BY <1>0 DEF ErrorBurstDisables, Clean
<1>2. CASE pc[t] \in {"persist", "spawn"}
  <2>1. u = t
    BY <1>1, <1>2, StartsAlone DEF Starting, Clean
  <2>2. QED
    BY <1>1, <1>2, <2>1
<1>3. CASE pc[t] \in {"sync", "commit"}
  <2>1. u = t
    BY <1>1, <1>3 DEF Clean, Leading, LeaderHoldsLock, InTick
  <2>2. QED
    BY <1>1, <1>3, <2>1
<1>4. QED
  BY <1>2, <1>3 DEF Saves, StartPersist, SaveTick, ReadTable

\* So what is read, and saved, of an enabled job is below the threshold.
LEMMA RowsJudgedNext ==
    ASSUME TypeOK, Lives, Quiet, RowsJudged, ErrorBurstDisables, Leading, [Next]_vars
    PROVE  RowsJudged'
<1> SUFFICES ASSUME Clean', NEW j \in Jobs
             PROVE  RowJudged(db[j])' /\ \A t \in Threads : RowJudged(table[t][j])'
  BY DEF RowsJudged
<1>1. Clean /\ "torn" \notin mishaps'
  <2>1. Clean
    BY StaysClean
  <2>2. QED
    BY <2>1 DEF Clean
<1>2. RowJudged(db[j]) /\ \A t \in Threads : RowJudged(table[t][j])
  BY <1>1 DEF RowsJudged
<1>3. ASSUME NEW t \in Threads, Saves(t) \/ ReadTable(t) PROVE RowJudged(Row(jobs[Owner[t]][j]))
  BY <1>1, <1>3, SavedIsJudged
<1>4. RowJudged(Row(FreshJob))
  BY NumbersAssumption DEF RowJudged, Row, FreshJob
<1>5. \/ db'[j] = db[j]
      \/ \E t \in Threads : Saves(t) /\ db'[j] \in {table[t][j], Row(jobs[Owner[t]][j])}
  BY <1>1, RowMoves
<1>6. RowJudged(db'[j])
  BY <1>2, <1>3, <1>5
<1>7. ASSUME NEW t \in Threads PROVE RowJudged(table'[t][j])
  <2>1. CASE table'[t] = NoRows
    BY <1>4, <2>1 DEF NoRows
  <2>2. CASE ReadTable(t) /\ table'[t] = [i \in Jobs |-> Row(jobs[Owner[t]][i])]
    BY <1>3, <2>2
  <2>3. CASE table'[t] \in {table[t], db}
    BY <1>2, <2>3
  <2>4. QED
    BY <2>1, <2>2, <2>3, ReadMoves
<1>8. QED
  BY <1>6, <1>7 DEF RowJudged

\* What a step does to the consecutive errors of a job.
LEMMA ConsecWritten ==
    ASSUME TypeOK, NEW t \in Threads, NEW j \in Jobs, Writes(t, j), After(t, j).enabled
    PROVE  \/ Before(t, j).enabled /\ After(t, j).consec = Before(t, j).consec /\ ~JudgeErrors(t)
           \/ After(t, j).consec = 0
           \/ JobFailsOther(t) /\ j = JobOf(t)
           \/ table[t][j].enabled /\ table[t][j].last # Never /\ After(t, j).consec = table[t][j].consec
<1>1. Before(t, j) \in JobConfig /\ table[t][j] \in SchedulerJob
  BY ThreadsAssumption DEF TypeOK, Before
<1>2. CASE j = JobOf(t) /\ WritesItsJob(t)
  <2>1. Config(t) = Before(t, j) /\ Config(t) \in JobConfig
    BY <1>1, <1>2 DEF Config, Before
  <2>2. \/ JobSucceeds(t) /\ After(t, j).consec = 0
        \/ JobFailsTransient(t) /\ After(t, j).enabled = Config(t).enabled
           /\ After(t, j).consec = Config(t).consec
        \/ JobFailsOther(t)
        \/ ForceSucceeds(t) /\ After(t, j).enabled = Config(t).enabled
           /\ After(t, j).consec = Config(t).consec
    BY <1>2, <2>1 DEF WritesItsJob, JobConfig
  <2>3. ~(JobFailsTransient(t) /\ JudgeErrors(t)) /\ ~(ForceSucceeds(t) /\ JudgeErrors(t))
    BY DEF JobFailsTransient, HandlerEnds, ForceSucceeds, ForceEnds, JudgeErrors
  <2>4. QED
    BY <1>2, <2>1, <2>2, <2>3
<1>3. CASE WritesAnyJob(t, j)
  <2>1. CASE StartApply(t) /\ After(t, j) = Restore(Before(t, j), table[t][j])
    BY <1>1, <2>1 DEF Restore, JobConfig, SchedulerJob, StartApply, JudgeErrors
  <2>2. CASE StartStagger(t) /\ After(t, j) = [Before(t, j) EXCEPT !.last = clock]
    BY <1>1, <2>2 DEF JobConfig, StartStagger, JudgeErrors
  <2>3. ASSUME JobFailsFatal(t), NEW e \in {Before(t, j), [Before(t, j) EXCEPT !.errors = @ + 1]},
               After(t, j) \in {e, Halted(e, ticks[Owner[t]])}
        PROVE  Before(t, j).enabled /\ After(t, j).consec = Before(t, j).consec /\ ~JudgeErrors(t)
    <3>1. e.consec = Before(t, j).consec /\ e.enabled = Before(t, j).enabled /\ e \in JobConfig
      <4>1. Before(t, j).errors + 1 \in Nat
        BY <1>1 DEF JobConfig
      <4>2. QED
        BY <1>1, <4>1 DEF JobConfig
    <3>2. After(t, j) = e
      BY <2>3, <3>1 DEF Halted, JobConfig
    <3>3. QED
      BY <2>3, <3>1, <3>2 DEF JobFailsFatal, HandlerEnds, JudgeErrors
  <2>4. CASE After(t, j) = Enabled(Before(t, j)) \/ After(t, j) = Paused(Before(t, j))
    BY <1>1, <2>4 DEF Enabled, Paused, JobConfig
  <2>5. QED
    BY <1>3, <2>1, <2>2, <2>3, <2>4 DEF WritesAnyJob
<1>4. QED
  BY <1>2, <1>3 DEF Writes

\* Every step leaves the bursts of errors judged or about to be.
LEMMA JudgedNext ==
    ASSUME TypeOK, Lives, RowsJudged, ErrorBurstDisables, [Next]_vars
    PROVE  ErrorBurstDisables'
<1> SUFFICES ASSUME Clean', NEW w \in Workers, NEW j \in Jobs,
                    jobs'[w][j].enabled, jobs'[w][j].consec >= MaxConsecutive
             PROVE  \E t \in Threads : Owner[t] = w /\ pc'[t] = "judge" /\ JobSeq[pos'[t]] = j
  BY DEF Clean, ErrorBurstDisables, JobOf
<1>1. Clean /\ jobs[w][j] \in JobConfig /\ MaxConsecutive \in Nat \ {0}
  <2>1. Clean
    BY StaysClean
  <2>2. QED
    BY <2>1, NumbersAssumption DEF TypeOK
<1>2. jobs'[w][j] # FreshJob
  BY <1>1 DEF FreshJob
<1>3. ASSUME NEW t \in Threads, Owner[t] = w, JobFailsOther(t), j = JobOf(t)
      PROVE  pc'[t] = "judge" /\ JobSeq[pos'[t]] = j
  BY <1>3 DEF JobFailsOther, HandlerEnds, Goto, JobOf, TypeOK
<1>4. ASSUME jobs[w][j].enabled, jobs[w][j].consec >= MaxConsecutive,
             \A t \in Threads : Owner[t] = w => ~(JudgeErrors(t) /\ JobOf(t) = j)
      PROVE  \E t \in Threads : Owner[t] = w /\ pc'[t] = "judge" /\ JobSeq[pos'[t]] = j
  <2>1. PICK t \in Threads : Owner[t] = w /\ pc[t] = "judge" /\ JobSeq[pos[t]] = j
    BY <1>1, <1>4 DEF Clean, ErrorBurstDisables, JobOf
  <2>2. ~Crash(w)
    BY <1>2 DEF Crash, TypeOK
  <2>3. ~JudgeErrors(t)
    BY <1>4, <2>1 DEF JobOf
  <2>4. QED
    BY <2>1, <2>2, <2>3, JudgeMoves
<1>5. ASSUME NEW t \in Threads, Owner[t] = w, JudgeErrors(t), JobOf(t) = j,
             jobs[w][j].consec >= MaxConsecutive
      PROVE  ~jobs'[w][j].enabled
  <2>1. Config(t).consec >= MaxConsecutive /\ Config(t) \in JobConfig
    BY <1>1, <1>5 DEF Config
  <2>2. jobs' = [jobs EXCEPT ![w][j] = [Config(t) EXCEPT !.enabled = FALSE,
                      !.disabledAt = ticks[Owner[t]],
                      !.why = IF @ \in HardCauses THEN @ ELSE "errors"]]
    BY <1>5, <2>1 DEF JudgeErrors, SetJob, JobOf
  <2>3. jobs'[w][j] = [Config(t) EXCEPT !.enabled = FALSE,
                      !.disabledAt = ticks[Owner[t]],
                      !.why = IF @ \in HardCauses THEN @ ELSE "errors"]
    BY <2>2 DEF TypeOK
  <2>4. QED
    BY <2>1, <2>3 DEF JobConfig
<1>6. CASE jobs'[w][j] = jobs[w][j]
  BY <1>4, <1>5, <1>6
<1>7. ASSUME NEW t \in Threads, Owner[t] = w, Writes(t, j)
      PROVE  \E u \in Threads : Owner[u] = w /\ pc'[u] = "judge" /\ JobSeq[pos'[u]] = j
  <2>1. CASE Before(t, j).enabled /\ After(t, j).consec = Before(t, j).consec
    BY <1>4, <1>5, <1>7, <2>1 DEF Before, After
  <2>2. CASE JobFailsOther(t) /\ j = JobOf(t)
    BY <1>3, <1>7, <2>2
  <2>3. ~(table[t][j].enabled /\ table[t][j].last # Never /\ After(t, j).consec = table[t][j].consec)
    <3>1. table[t][j].consec \in Nat
      BY DEF TypeOK, SchedulerJob
    <3>2. QED
      BY <1>1, <1>7, <3>1 DEF RowsJudged, RowJudged, After
  <2>4. After(t, j).consec # 0
    BY <1>1, <1>7 DEF After
  <2>5. QED
    BY <1>7, <2>1, <2>2, <2>3, <2>4, ConsecWritten DEF After
<1>8. QED
  BY <1>2, <1>6, <1>7, JobMoves DEF JobStep

\* Unless an operator restarts the daemon, ticks overlap or a row was read while
\* it changed, a job that failed as often in a row as disables it is disabled
\* or about to be, in whatever process and after whatever crashes, restores,
\* pauses, resumes and resets.
THEOREM BurstIsJudged == Spec => []ErrorBurstDisables
<1> DEFINE Inv == TypeOK /\ Lives /\ Quiet /\ Leading /\ RowsJudged /\ ErrorBurstDisables
<1>1. Init => Inv
  <2>1. Init => RowsJudged
    BY NumbersAssumption DEF Init, RowsJudged, RowJudged, NoRows, Row, FreshJob
  <2>2. Init => ErrorBurstDisables
    BY NumbersAssumption DEF Init, ErrorBurstDisables, FreshJob
  <2>3. QED
    BY <2>1, <2>2, TypeInit, StandingInit, LeadingInit
<1>2. Inv /\ [Next]_vars => Inv'
  BY TypeNext, LivesNext, QuietNext, LeadingNext, RowsJudgedNext, JudgedNext
<1>3. QED
  BY <1>1, <1>2, PTL DEF Spec

-----------------------------------------------------------------------------
(* run_count.  A process that is alone has at least the runs that the rows  *)
(* say from when it has loaded the table, and saves the table only then.    *)

\* The process has loaded the table: it is up, or its start is past the load.
Loaded(w) ==
    life[w] = "up" \/ \E t \in Threads : Owner[t] = w /\ pc[t] \in {"stagger", "persist", "spawn"}

Undisturbed == Alone /\ used["restart"] = 0 /\ mishaps = {}

FirstRuns ==
    /\ \A w \in Workers, j \in Jobs : jobs[w][j].last = Never => jobs[w][j].runs = 0
    /\ "torn" \notin mishaps => \A j \in Jobs :
          /\ db[j].last = Never => db[j].runs = 0
          /\ \A t \in Threads : table[t][j].last = Never => table[t][j].runs = 0

RunsKept ==
    Undisturbed => \A j \in Jobs :
       /\ \A w \in Workers : Loaded(w) => jobs[w][j].runs >= db[j].runs
       /\ \A t \in Threads :
             /\ pc[t] = "apply" => table[t][j] = db[j]
             /\ pc[t] \in {"commit", "spawn"} =>
                   db[j].runs <= table[t][j].runs /\ table[t][j].runs <= jobs[Owner[t]][j].runs

\* What a thread writes as run_count: one more of what was there, or what the
\* row says; only a job that has run has a last_run.
LEMMA RunsWritten ==
    ASSUME TypeOK, NEW t \in Threads, NEW j \in Jobs, Writes(t, j)
    PROVE  \/ After(t, j).runs = Before(t, j).runs /\ After(t, j).last = Before(t, j).last
           \/ StartStagger(t) /\ After(t, j).runs = Before(t, j).runs /\ After(t, j).last # Never
           \/ StartApply(t) /\ table[t][j].last # Never
              /\ After(t, j).runs = table[t][j].runs /\ After(t, j).last = table[t][j].last
           \/ pc[t] \in {"run", "force"} /\ After(t, j).runs = Before(t, j).runs + 1
              /\ After(t, j).last # Never
<1>1. Before(t, j) \in JobConfig /\ table[t][j] \in SchedulerJob /\ clock \in Nat /\ now[t] \in Nat
  BY ThreadsAssumption DEF TypeOK, Before
<1>2. CASE j = JobOf(t) /\ WritesItsJob(t)
  <2>1. Config(t) = Before(t, j) /\ Config(t) \in JobConfig
    BY <1>1, <1>2 DEF Config, Before
  <2>2. \/ After(t, j).runs = Config(t).runs /\ After(t, j).last = Config(t).last
        \/ (JobSucceeds(t) \/ ForceSucceeds(t)) /\ After(t, j).runs = Config(t).runs + 1
           /\ After(t, j).last # Never
    <3> DEFINE c == Config(t)
               d == After(t, JobOf(t))
    <3>1. CASE JobSucceeds(t) /\ d = [c EXCEPT !.last = now[t], !.runs = @ + 1, !.consec = 0]
      BY <1>1, <1>2, <2>1, <3>1 DEF JobConfig, Never
    <3>2. CASE ForceSucceeds(t) /\ d = [c EXCEPT !.last = clock, !.runs = @ + 1]
      BY <1>1, <1>2, <2>1, <3>2 DEF JobConfig, Never
    <3>3. CASE \/ d = [c EXCEPT !.errors = @ + 1]
               \/ d = [c EXCEPT !.errors = @ + 1, !.consec = @ + 1, !.enabled = FALSE,
                                !.reason = "config_error", !.why = "config"]
               \/ d = [c EXCEPT !.errors = @ + 1, !.consec = @ + 1]
               \/ d = [c EXCEPT !.enabled = FALSE, !.disabledAt = ticks[Owner[t]],
                                !.why = IF @ \in HardCauses THEN @ ELSE "errors"]
      BY <1>2, <2>1, <3>3 DEF JobConfig
    <3>4. QED
      BY <1>2, <3>1, <3>2, <3>3 DEF WritesItsJob
  <2>3. QED
    BY <2>1, <2>2 DEF JobSucceeds, HandlerEnds, ForceSucceeds, ForceEnds
<1>3. CASE WritesAnyJob(t, j)
  <2>1. CASE StartApply(t) /\ After(t, j) = Restore(Before(t, j), table[t][j])
    BY <1>1, <2>1 DEF Restore, JobConfig, SchedulerJob
  <2>2. CASE StartStagger(t) /\ After(t, j) = [Before(t, j) EXCEPT !.last = clock]
    BY <1>1, <2>2 DEF JobConfig, Never
  <2>3. ASSUME NEW e \in {Before(t, j), [Before(t, j) EXCEPT !.errors = @ + 1]},
               After(t, j) \in {e, Halted(e, ticks[Owner[t]])}
        PROVE  After(t, j).runs = Before(t, j).runs /\ After(t, j).last = Before(t, j).last
    <3>1. e.runs = Before(t, j).runs /\ e.last = Before(t, j).last /\ e \in JobConfig
      <4>1. Before(t, j).errors + 1 \in Nat
        BY <1>1 DEF JobConfig
      <4>2. QED
        BY <1>1, <4>1 DEF JobConfig
    <3>2. QED
      BY <2>3, <3>1 DEF Halted, JobConfig
  <2>4. CASE After(t, j) = Enabled(Before(t, j)) \/ After(t, j) = Paused(Before(t, j))
    BY <1>1, <2>4 DEF Enabled, Paused, JobConfig
  <2>5. QED
    BY <1>3, <2>1, <2>2, <2>3, <2>4 DEF WritesAnyJob
<1>4. QED
  BY <1>2, <1>3 DEF Writes

\* No job has runs before its first last_run, nor does its row.
LEMMA FirstRunsNext == ASSUME TypeOK, FirstRuns, [Next]_vars PROVE FirstRuns'
<1>1. ASSUME NEW w \in Workers, NEW j \in Jobs, jobs'[w][j].last = Never PROVE jobs'[w][j].runs = 0
  <2>1. jobs[w][j].last = Never => jobs[w][j].runs = 0
    BY DEF FirstRuns
  <2>2. ASSUME NEW t \in Threads, Owner[t] = w, Writes(t, j) PROVE jobs'[w][j].runs = 0
    BY <1>1, <2>1, <2>2, RunsWritten DEF Before, After
  <2>3. QED
    BY <1>1, <2>1, <2>2, JobMoves DEF JobStep, FreshJob
<1> DEFINE First(row) == row.last = Never => row.runs = 0
<1>2. ASSUME "torn" \notin mishaps', NEW j \in Jobs
      PROVE  First(db'[j]) /\ \A t \in Threads : First(table'[t][j])
  <2>1. "torn" \notin mishaps
    BY <1>2, MishapsGrow
  <2>2. First(db[j]) /\ \A t \in Threads : First(table[t][j]) /\ First(Row(jobs[Owner[t]][j]))
    BY <2>1, ThreadsAssumption DEF FirstRuns, Row
  <2>3. First(Row(FreshJob))
    BY DEF Row, FreshJob
  <2>4. \/ db'[j] = db[j]
        \/ \E t \in Threads : db'[j] \in {table[t][j], Row(jobs[Owner[t]][j])}
    BY <1>2, RowMoves
  <2>5. ASSUME NEW t \in Threads PROVE First(table'[t][j])
    <3>1. CASE table'[t] = NoRows
      BY <2>3, <3>1 DEF NoRows
    <3>2. CASE table'[t] = [i \in Jobs |-> Row(jobs[Owner[t]][i])]
      BY <2>2, <3>2
    <3>3. CASE table'[t] \in {table[t], db}
      BY <2>2, <3>3
    <3>4. QED
      BY <3>1, <3>2, <3>3, ReadMoves
  <2>6. QED
    BY <2>2, <2>4, <2>5
<1>3. QED
  BY <1>1, <1>2 DEF FirstRuns

\* What disturbs the counts has not happened before a step after which it has not.
LEMMA StaysUndisturbed == ASSUME TypeOK, [Next]_vars, Undisturbed' PROVE Undisturbed
BY UsedGrows, MishapsGrow DEF Undisturbed, Alone, Kinds

\* Whoever saves is the only thread that starts the process or is in a tick.
LEMMA SavesAlone ==
    ASSUME TypeOK, Lives, Quiet, Leading, Undisturbed, NEW t \in Threads, Saves(t),
           NEW u \in Threads, pc[u] \in {"apply", "commit", "spawn"}
    PROVE  u = t
<1>1. Owner[u] = Owner[t] /\ "lock" \notin mishaps
  BY ThreadsAssumption DEF Undisturbed, Alone
<1>2. pc[t] \in {"spawn", "commit"}
  BY DEF Saves, StartPersist, SaveTick
<1>3. CASE pc[t] = "spawn"
  BY <1>1, <1>3, StartsAlone DEF Starting, Undisturbed
<1>4. CASE pc[t] = "commit" /\ pc[u] = "commit"
  BY <1>1, <1>4 DEF Leading, LeaderHoldsLock, InTick
<1>5. CASE pc[t] = "commit" /\ pc[u] # "commit"
  BY <1>1, <1>5, StartsAlone DEF Starting, Undisturbed
<1>6. QED
  BY <1>2, <1>3, <1>4, <1>5

\* No save takes back runs that were saved before, nor saves more than there are.
LEMMA RowsKeepRuns ==
    ASSUME TypeOK, Lives, Quiet, Leading, RunsKept, Undisturbed', [Next]_vars, NEW j \in Jobs
    PROVE  /\ db'[j].runs >= db[j].runs
           /\ \A w \in Workers : Loaded(w) => jobs[w][j].runs >= db'[j].runs
<1>1. Undisturbed /\ db[j] \in SchedulerJob /\ "torn" \notin mishaps'
  BY StaysUndisturbed DEF TypeOK, Undisturbed
<1>2. \A w \in Workers : Loaded(w) => jobs[w][j].runs >= db[j].runs
  BY <1>1 DEF RunsKept
<1>3. CASE db'[j] = db[j]
  BY <1>1, <1>2, <1>3 DEF SchedulerJob
<1>4. ASSUME NEW t \in Threads, Saves(t), db'[j] \in {table[t][j], Row(jobs[Owner[t]][j])}
      PROVE  db'[j].runs >= db[j].runs /\ jobs[Owner[t]][j].runs >= db'[j].runs
  <2>1. db[j].runs <= table[t][j].runs /\ table[t][j].runs <= jobs[Owner[t]][j].runs
    BY <1>1, <1>4 DEF RunsKept, Saves, StartPersist, SaveTick
  <2>2. table[t][j] \in SchedulerJob /\ jobs[Owner[t]][j] \in JobConfig
    BY ThreadsAssumption DEF TypeOK
  <2>3. /\ table[t][j].runs \in Nat /\ jobs[Owner[t]][j].runs \in Nat /\ db[j].runs \in Nat
        /\ Row(jobs[Owner[t]][j]).runs = jobs[Owner[t]][j].runs
    BY <1>1, <2>2 DEF SchedulerJob, JobConfig, Row
  <2>4. QED
    BY <1>4, <2>1, <2>3
<1>5. \A t \in Threads, w \in Workers : Owner[t] = w
  BY <1>1, ThreadsAssumption DEF Undisturbed, Alone
<1>6. QED
  BY <1>1, <1>3, <1>4, <1>5, RowMoves

\* The runs in memory never become fewer in a process that goes on.
LEMMA RunsGrow ==
    ASSUME TypeOK, FirstRuns, RunsKept, Undisturbed, [Next]_vars,
           NEW w \in Workers, life'[w] # "down", NEW j \in Jobs
    PROVE  \/ jobs'[w][j].runs >= jobs[w][j].runs
           \/ \E t \in Threads : StartApply(t)
<1>1. jobs[w][j] \in JobConfig
  BY DEF TypeOK
<1>2. ASSUME NEW t \in Threads, Owner[t] = w, Writes(t, j), ~StartApply(t)
      PROVE  jobs'[w][j].runs >= jobs[w][j].runs
  BY <1>1, <1>2, RunsWritten DEF Before, After, JobConfig
<1>3. CASE jobs'[w][j] = jobs[w][j]
  BY <1>1, <1>3 DEF JobConfig
<1>4. QED
  BY <1>2, <1>3, JobMoves DEF JobStep

\* A start leaves in memory at least the runs that the rows say.
LEMMA AppliedRuns ==
    ASSUME TypeOK, FirstRuns, RunsKept, Undisturbed, NEW t \in Threads, StartApply(t), NEW j \in Jobs
    PROVE  db' = db /\ jobs'[Owner[t]][j].runs >= db'[j].runs
<1>1. jobs' = [jobs EXCEPT ![Owner[t]] = [i \in Jobs |-> Restore(jobs[Owner[t]][i], table[t][i])]]
      /\ db' = db
  BY DEF StartApply
<1>2. Owner[t] \in Workers
  BY ThreadsAssumption
<1>3. jobs'[Owner[t]][j] = Restore(jobs[Owner[t]][j], table[t][j])
  BY <1>1, <1>2 DEF TypeOK
<1>4. jobs[Owner[t]][j] \in JobConfig /\ db[j] \in SchedulerJob
  BY <1>2 DEF TypeOK
<1>5. table[t][j] = db[j]
  BY DEF RunsKept, StartApply
<1>6. db[j].last = Never => db[j].runs = 0
  BY DEF FirstRuns, Undisturbed
<1>7. ASSUME NEW c \in JobConfig, NEW row \in SchedulerJob
      PROVE  Restore(c, row).runs = IF row.last = Never THEN c.runs ELSE row.runs
  BY <1>7 DEF Restore, JobConfig
<1>8. jobs[Owner[t]][j].runs \in Nat /\ db[j].runs \in Nat
  BY <1>4 DEF JobConfig, SchedulerJob
<1>9. QED
  BY <1>1, <1>3, <1>4, <1>5, <1>6, <1>7, <1>8

\* Who saves the table, or reads it to save it, has loaded it.
LEMMA SaversLoaded ==
    ASSUME TypeOK, Lives, Cli = {}, NEW t \in Threads, Saves(t) \/ ReadTable(t)
    PROVE  Loaded(Owner[t])
<1>1. CASE pc[t] \in {"persist", "spawn"}
  BY <1>1 DEF Loaded
<1>2. CASE pc[t] \in {"sync", "commit"}
  BY <1>2, BusyIsUp DEF Loaded, Starting
<1>3. QED
  BY <1>1, <1>2 DEF Saves, StartPersist, SaveTick, ReadTable

\* Every step keeps the runs of a loaded table at what the rows say or above ...
LEMMA LoadedNext ==
    ASSUME TypeOK, Lives, Quiet, Leading, FirstRuns, RunsKept, [Next]_vars, Undisturbed',
           NEW w \in Workers, Loaded(w)', NEW j \in Jobs
    PROVE  jobs'[w][j].runs >= db'[j].runs
<1>1. Undisturbed /\ \A t \in Threads : Owner[t] = w
  BY StaysUndisturbed, ThreadsAssumption DEF Undisturbed, Alone
<1>2. CASE \E t \in Threads : StartApply(t)
  BY <1>1, <1>2, AppliedRuns
<1>3. CASE ~\E t \in Threads : StartApply(t)
  <2>1. w \notin Cli /\ "load" \notin mishaps'
    BY <1>1 DEF Undisturbed, Alone
  <2>2. life'[w] # "down"
    BY <2>1, LivesNext DEF Lives, Loaded
  <2>3. ~Crash(w)
    BY <2>2 DEF Crash, TypeOK
  <2>4. Loaded(w)
    <3>1. ASSUME NEW t \in Threads, Owner[t] = w, pc'[t] \in {"stagger", "persist", "spawn"}
          PROVE  pc[t] \in {"stagger", "persist", "spawn"}
      BY <1>3, <2>1, <3>1, LabelMoves DEF LabelStep, Unmoved, Idles, InTick, StartStagger
    <3>2. CASE life'[w] = "up"
      <4>1. ASSUME NEW t \in Threads, Owner[t] = w, StartPersist(t) PROVE Loaded(w)
        BY <4>1 DEF StartPersist, Loaded
      <4>2. QED
        BY <2>1, <2>3, <3>2, <4>1, LifeMoves DEF LifeStep, Loaded
    <3>3. QED
      BY <3>1, <3>2 DEF Loaded
  <2>5. jobs[w][j].runs >= db'[j].runs
    BY <2>4, RowsKeepRuns
  <2>6. jobs'[w][j].runs >= jobs[w][j].runs
    BY <1>1, <1>3, <2>2, RunsGrow
  <2>7. jobs[w][j] \in JobConfig /\ jobs'[w][j] \in JobConfig /\ db'[j] \in SchedulerJob
    BY TypeNext DEF TypeOK
  <2>8. jobs[w][j].runs \in Nat /\ jobs'[w][j].runs \in Nat /\ db'[j].runs \in Nat
    BY <2>7 DEF JobConfig, SchedulerJob
  <2>9. QED
    BY <2>5, <2>6, <2>8
<1>4. QED
  BY <1>2, <1>3

\* ... and what a thread has read in step with the rows and the jobs.
LEMMA ReadNext ==
    ASSUME TypeOK, Lives, Quiet, Leading, FirstRuns, RunsKept, [Next]_vars, Undisturbed',
           NEW t \in Threads, NEW j \in Jobs
    PROVE  /\ pc'[t] = "apply" => table'[t][j] = db'[j]
           /\ pc'[t] \in {"commit", "spawn"} =>
                 db'[j].runs <= table'[t][j].runs /\ table'[t][j].runs <= jobs'[Owner[t]][j].runs
<1>0. Undisturbed /\ \A u \in Threads : Owner[u] = Owner[t]
  BY StaysUndisturbed, ThreadsAssumption DEF Undisturbed, Alone
<1>1. Owner[t] \in Workers /\ Owner[t] \notin Cli
  BY <1>0, ThreadsAssumption DEF Undisturbed, Alone
<1>2. ASSUME pc[t] \in {"apply", "commit", "spawn"}, pc'[t] = pc[t]
      PROVE  db' [j] = db[j] /\ table'[t] = table[t] /\ ~\E u \in Threads : StartApply(u)
  <2>1. ~Saves(t) /\ ~Crash(Owner[t]) /\ ~StartApply(t) /\ ~StartRead(t) /\ ~ReadTable(t)
    <3>1. ~Crash(Owner[t])
      BY <1>2 DEF Crash, TypeOK
    <3>2. ~StartApply(t) /\ ~StartRead(t)
      BY <1>2 DEF StartApply, StartRead, Goto, TypeOK
    <3>3. ~ReadTable(t)
      BY <1>2 DEF ReadTable, Goto, TypeOK
    <3>4. ~SaveTick(t)
      BY <1>2 DEF SaveTick, Goto, TypeOK
    <3>5. ~StartPersist(t)
      <4>1. ASSUME StartPersist(t), NEW l \in Loops, pc[l] = "off", pc' = [pc EXCEPT ![t] = "off", ![l] = "rest"]
            PROVE  FALSE
        BY <1>2, <4>1 DEF TypeOK, StartPersist
      <4>2. QED
        BY <4>1 DEF StartPersist
    <3>6. QED
      BY <3>1, <3>2, <3>3, <3>4, <3>5 DEF Saves
  <2>2. db'[j] = db[j]
    BY <1>0, <1>2, <2>1, SavesAlone, RowMoves
  <2>3. ASSUME NEW u \in Threads, StartApply(u) PROVE FALSE
    <3>1. pc[u] = "apply"
      BY <2>3 DEF StartApply
    <3>2. t = u
      BY <1>0, <1>2, <3>1, StartsAlone DEF Starting, Undisturbed
    <3>3. QED
      BY <2>1, <2>3, <3>2
  <2>4. QED
    BY <2>1, <2>2, <2>3, ReadMoves
<1>3. CASE pc'[t] = "apply"
  <2>1. CASE pc[t] = "apply"
    BY <1>0, <1>2, <1>3, <2>1 DEF RunsKept
  <2>2. CASE StartRead(t)
    BY <1>3, <2>2 DEF StartRead, Goto, TypeOK
  <2>3. QED
    BY <1>3, <2>1, <2>2, LabelMoves DEF LabelStep, Unmoved, Idles, InTick
<1>4. CASE pc'[t] \in {"commit", "spawn"}
  <2>1. CASE pc[t] = pc'[t]
    <3>1. db[j].runs <= table[t][j].runs /\ table[t][j].runs <= jobs[Owner[t]][j].runs
      BY <1>0, <1>4, <2>1 DEF RunsKept
    <3>2. life'[Owner[t]] # "down"
      BY <1>1, <1>4, LivesNext DEF Lives
    <3>3. jobs'[Owner[t]][j].runs >= jobs[Owner[t]][j].runs
      BY <1>0, <1>1, <1>2, <1>4, <2>1, <3>2, RunsGrow
    <3>4. jobs[Owner[t]][j] \in JobConfig /\ jobs'[Owner[t]][j] \in JobConfig /\ table[t][j] \in SchedulerJob
      BY <1>1, TypeNext DEF TypeOK
    <3>5. jobs[Owner[t]][j].runs \in Nat /\ jobs'[Owner[t]][j].runs \in Nat /\ table[t][j].runs \in Nat
      BY <3>4 DEF JobConfig, SchedulerJob
    <3>6. QED
      BY <1>2, <1>4, <2>1, <3>1, <3>3, <3>5
  <2>2. CASE ReadTable(t)
    <3>1. db' = db /\ jobs' = jobs /\ table'[t] = [i \in Jobs |-> Row(jobs[Owner[t]][i])]
      BY <2>2 DEF ReadTable, TypeOK
    <3>2. Loaded(Owner[t])
      BY <1>0, <2>2, SaversLoaded DEF Undisturbed, Alone
    <3>3. jobs[Owner[t]][j].runs >= db[j].runs
      BY <1>0, <1>1, <3>2 DEF RunsKept
    <3>4. jobs[Owner[t]][j].runs \in Nat /\ db[j].runs \in Nat
      <4>1. jobs[Owner[t]][j] \in JobConfig /\ db[j] \in SchedulerJob
        BY <1>1 DEF TypeOK
      <4>2. QED
        BY <4>1 DEF JobConfig, SchedulerJob
    <3>5. table'[t][j].runs = jobs[Owner[t]][j].runs
      BY <3>1 DEF Row
    <3>6. db'[j] = db[j] /\ jobs'[Owner[t]][j] = jobs[Owner[t]][j]
      BY <3>1
    <3>7. QED
      BY <1>4, <3>3, <3>4, <3>5, <3>6
  <2>3. QED
    BY <1>4, <2>1, <2>2, LabelMoves DEF LabelStep, Unmoved, Idles, InTick, Starting
<1>5. QED
  BY <1>3, <1>4

\* So every step keeps both.
LEMMA RunsKeptNext ==
    ASSUME TypeOK, Lives, Quiet, Leading, FirstRuns, RunsKept, [Next]_vars
    PROVE  RunsKept'
<1> SUFFICES ASSUME Undisturbed', NEW j \in Jobs
             PROVE  /\ \A w \in Workers : Loaded(w)' => jobs'[w][j].runs >= db'[j].runs
                    /\ \A t \in Threads :
                          /\ pc'[t] = "apply" => table'[t][j] = db'[j]
                          /\ pc'[t] \in {"commit", "spawn"} =>
                                /\ db'[j].runs <= table'[t][j].runs
                                /\ table'[t][j].runs <= jobs'[Owner[t]][j].runs
  BY DEF RunsKept
<1>1. ASSUME NEW w \in Workers, Loaded(w)' PROVE jobs'[w][j].runs >= db'[j].runs
  BY <1>1, LoadedNext
<1>2. QED
  BY <1>1, ReadNext

\* Where one web process is alone, run_count in the database never goes back:
\* not by a crash and reboot, a forced run beside a tick, a save that reads the
\* table while it changes, or a row whose savepoint is rolled back.
THEOREM AloneKeepsRuns == Spec => RunCountNeverLost
<1> DEFINE Inv == TypeOK /\ Lives /\ Quiet /\ Leading /\ FirstRuns /\ RunsKept
           Kept == Alone /\ used'["restart"] = 0 /\ mishaps' = {}
                      => \A j \in Jobs : db'[j].runs >= db[j].runs
<1>1. Init => Inv
  <2>1. Init => FirstRuns
    BY DEF Init, FirstRuns, NoRows, FreshJob, Row
  <2>2. Init => RunsKept
    BY DEF Init, RunsKept, FreshJob, Row
  <2>3. QED
    BY <2>1, <2>2, TypeInit, StandingInit, LeadingInit
<1>2. Inv /\ [Next]_vars => Inv'
  BY TypeNext, LivesNext, QuietNext, LeadingNext, FirstRunsNext, RunsKeptNext
<1>3. Inv /\ [Next]_vars => [Kept]_vars
  BY RowsKeepRuns DEF Undisturbed, Alone
<1>4. QED
  BY <1>1, <1>2, <1>3, PTL DEF Spec, RunCountNeverLost

=============================================================================
