------------------------------ MODULE Scheduler ------------------------------
(***************************************************************************)
(* The scheduler daemon of src/core/scheduler/daemon.py: every worker      *)
(* process holds a table of jobs, loop threads and web requests tick it,   *)
(* a Postgres advisory lock is meant to keep ticks apart, and the table is *)
(* saved to and restored from scheduler_jobs.  The table's own lock is     *)
(* held for one step at a time, and neither while rows are read nor while  *)
(* they are written.  Time is counted in units of which every job interval *)
(* is Interval; durations, texts and statistics are left out.              *)
(***************************************************************************)
EXTENDS Integers, Sequences

CONSTANTS
    Workers,     \* processes that own a SchedulerDaemon
    Cli,         \* those that are `scheduler tick` commands, not web workers
    Loops,       \* slots for threads that run _run_loop
    Requests,    \* slots for threads that serve a web request or a command
    NoThread,    \* no thread: advisory lock 42 is free
    Owner,       \* the process of each thread
    JobSeq,      \* the registered jobs, sorted by priority
    Expensive,   \* jobs of priority >= 4, which a FatalError disables
    Immediate,   \* the jobs that start() does not stagger
    Interval,    \* interval_seconds of a job, in units of the clock
    MaxConsecutive,  \* consecutive errors that disable a job (20)
    Cooldown,    \* ticks before a job is enabled again (10)
    Postgres,    \* whether the engine is PostgreSQL
    Faults,      \* the faults of the database that may happen
    Outcomes,    \* the ways a handler may end
    MaxTime,     \* bound on the clock
    MaxTicks,    \* bound on the ticks of one process
    Limit        \* bounds on what operators and failures do, by kind

Threads == Loops \cup Requests
Jobs    == {JobSeq[i] : i \in 1..Len(JobSeq)}
Kinds   == {"boot", "crash", "force", "admin", "restart"}
Never   == -1

ASSUME ThreadsAssumption ==
    /\ Cli \subseteq Workers
    /\ Loops \cap Requests = {} /\ NoThread \notin Threads
    /\ Owner \in [Threads -> Workers]
ASSUME JobsAssumption ==
    /\ Len(JobSeq) \in Nat /\ DOMAIN JobSeq = 1..Len(JobSeq)
    /\ Expensive \subseteq Jobs
    /\ Immediate \subseteq Jobs
ASSUME NumbersAssumption ==
    /\ Interval \in Nat \ {0} /\ MaxConsecutive \in Nat \ {0} /\ Cooldown \in Nat
    /\ MaxTime \in Nat /\ MaxTicks \in Nat /\ Limit \in [Kinds -> Nat]
ASSUME SettingsAssumption ==
    /\ Postgres \in BOOLEAN
    /\ Faults \subseteq {"lock_query", "connection", "unlock", "load", "row_write"}
    /\ Outcomes \subseteq {"ok", "transient", "config", "fatal", "other"}

VARIABLES
    clock,      \* datetime.now(UTC)
    life,       \* life[w]: the process is down, booting or up
    running,    \* running[w]: _running, which _stop_event contradicts
    jobs,       \* jobs[w][j]: the JobConfig of j in process w
    ticks,      \* ticks[w]: _tick_count
    warmAt,     \* warmAt[w]: the `now` of the last start(), kept for WarmUp
    db,         \* db[j]: the scheduler_jobs row of j
    table,      \* table[t]: the rows thread t has read, or is about to write
    holder,     \* the thread whose connection holds advisory lock 42
    leaked,     \* processes whose pool has a connection that still holds it
    pc,         \* pc[t]: where thread t is
    now,        \* now[t]: the `now` of the tick thread t is in
    pos,        \* pos[t]: index in JobSeq of the job t is at
    used,       \* used[k]: how often operations of kind k have happened
    ran,        \* ran[w][j]: the latest `now` of a tick of w that ran j, and
    mishaps     \* what has gone wrong so far; both are kept for the properties

procVars   == <<life, running, ticks, warmAt>>
threadVars == <<pc, now, pos>>
lockVars   == <<holder, leaked>>
ghosts     == <<ran, mishaps>>
vars == <<clock, procVars, jobs, db, table, lockVars, threadVars, used, ghosts>>

-----------------------------------------------------------------------------
(* A job in memory, and the part of it that a row keeps.  `why` is not a   *)
(* field of the code: it remembers what last disabled the job, which the   *)
(* code keeps only in part (reason) and loses at a restart.                *)

Causes == {"none", "config", "fatal", "errors", "paused"}
HardCauses  == {"config", "fatal"}
HardReasons == {"config_error", "fatal_error"}

JobConfig ==
    [enabled: BOOLEAN, last: Nat \cup {Never}, runs: Nat, errors: Nat,
     consec: Nat, why: Causes, reason: HardReasons \cup {"none"}, disabledAt: Nat]

SchedulerJob ==
    [enabled: BOOLEAN, last: Nat \cup {Never}, runs: Nat, errors: Nat,
     consec: Nat, why: Causes]

FreshJob ==
    [enabled |-> TRUE, last |-> Never, runs |-> 0, errors |-> 0,
     consec |-> 0, why |-> "none", reason |-> "none", disabledAt |-> 0]

Row(c) ==
    [enabled |-> c.enabled, last |-> c.last, runs |-> c.runs, errors |-> c.errors,
     consec |-> c.consec, why |-> c.why]

\* A mutant: run_count is forgotten.
RestoreLastRunOnly(c, row) ==
    IF row.last = Never THEN c
    ELSE [c EXCEPT !.enabled = row.enabled, !.last = row.last, !.why = row.why]

Restore(c, row) ==
    IF row.last = Never THEN c
    ELSE [c EXCEPT !.enabled = row.enabled, !.last = row.last, !.runs = row.runs,
                   !.errors = row.errors, !.consec = row.consec, !.why = row.why]

NoRows == [j \in Jobs |-> Row(FreshJob)]

\* _sync_to_db reads the fields of a job one after the other without _lock: the
\* first n as they were, the others as they are.
Torn(was, is, n) ==
    [last    |-> IF n > 0 THEN was.last ELSE is.last,
     runs    |-> IF n > 1 THEN was.runs ELSE is.runs,
     errors  |-> IF n > 2 THEN was.errors ELSE is.errors,
     consec  |-> IF n > 3 THEN was.consec ELSE is.consec,
     enabled |-> IF n > 4 THEN was.enabled ELSE is.enabled,
     why     |-> IF n > 4 THEN was.why ELSE is.why]

Overdue(c, time) == c.last = Never \/ time - c.last >= Interval

Init ==
    /\ clock = 0
    /\ life = [w \in Workers |-> "down"]
    /\ running = [w \in Workers |-> FALSE]
    /\ jobs = [w \in Workers |-> [j \in Jobs |-> FreshJob]]
    /\ ticks = [w \in Workers |-> 0]
    /\ warmAt = [w \in Workers |-> 0]
    /\ db = [j \in Jobs |-> Row(FreshJob)]
    /\ table = [t \in Threads |-> NoRows]
    /\ holder = NoThread /\ leaked = {}
    /\ pc = [t \in Threads |-> "off"]
    /\ now = [t \in Threads |-> 0]
    /\ pos = [t \in Threads |-> 1]
    /\ used = [k \in Kinds |-> 0]
    /\ ran = [w \in Workers |-> [j \in Jobs |-> Never]]
    /\ mishaps = {}

-----------------------------------------------------------------------------
(* Helpers.                                                                *)

Use(k) == used[k] < Limit[k] /\ used' = [used EXCEPT ![k] = @ + 1]

Goto(t, label) == pc' = [pc EXCEPT ![t] = label]

Serving(t) ==
    /\ t \in Requests /\ pc[t] = "off"
    /\ life[Owner[t]] = "up" /\ Owner[t] \notin Cli

\* Where a thread is after a tick: a loop waits, a request is answered.
AfterTick(t) == IF t \in Loops THEN "rest" ELSE "off"

\* `scheduler tick` ends with its tick, and its memory with it.
ExitAfterTick(t) ==
    IF Owner[t] \in Cli
    THEN /\ life' = [life EXCEPT ![Owner[t]] = "down"]
         /\ jobs' = [jobs EXCEPT ![Owner[t]] = [j \in Jobs |-> FreshJob]]
         /\ ticks' = [ticks EXCEPT ![Owner[t]] = 0]
         /\ ran' = [ran EXCEPT ![Owner[t]] = [j \in Jobs |-> Never]]
    ELSE UNCHANGED <<life, jobs, ticks, ran>>

Mishap(kind, happens) == mishaps' = IF happens THEN mishaps \cup {kind} ELSE mishaps

\* The end of _sync_to_db: the fields not read yet are, and one transaction
\* writes every row, but for those whose savepoint is rolled back.
CommitRows(t) ==
    \E read \in [Jobs -> 0..5],
       saved \in (IF "row_write" \in Faults THEN SUBSET Jobs ELSE {Jobs}) :
      LET is(j)  == Row(jobs[Owner[t]][j])
          row(j) == Torn(table[t][j], is(j), read[j])
      IN /\ db' = [j \in Jobs |-> IF j \in saved THEN row(j) ELSE db[j]]
         /\ table' = [table EXCEPT ![t] = NoRows]
         /\ Mishap("torn", \E j \in saved : row(j) \notin {table[t][j], is(j)})

SetJob(t, c) == jobs' = [jobs EXCEPT ![Owner[t]][JobSeq[pos[t]]] = c]

-----------------------------------------------------------------------------
(* Time, processes and their start.                                        *)

Advance ==
    /\ clock < MaxTime
    /\ clock' = clock + 1
    /\ UNCHANGED <<procVars, jobs, db, table, lockVars, threadVars, used, ghosts>>

\* create_app() in a web worker constructs a daemon and calls start() before
\* any request is served; `scheduler tick` constructs one and only ticks.
Boot(t) ==
    /\ t \in Requests /\ life[Owner[t]] = "down"
    /\ Use("boot")
    /\ IF Owner[t] \in Cli
         THEN life' = [life EXCEPT ![Owner[t]] = "up"] /\ UNCHANGED pc
         ELSE life' = [life EXCEPT ![Owner[t]] = "booting"] /\ Goto(t, "start")
    /\ UNCHANGED <<clock, running, ticks, warmAt, jobs, db, table, lockVars, now, pos, ghosts>>

\* The process dies: its memory, its threads and its connections are gone.
Crash(w) ==
    /\ life[w] # "down"
    /\ Use("crash")
    /\ life' = [life EXCEPT ![w] = "down"]
    /\ running' = [running EXCEPT ![w] = FALSE]
    /\ jobs' = [jobs EXCEPT ![w] = [j \in Jobs |-> FreshJob]]
    /\ ticks' = [ticks EXCEPT ![w] = 0]
    /\ warmAt' = [warmAt EXCEPT ![w] = 0]
    /\ pc' = [t \in Threads |-> IF Owner[t] = w THEN "off" ELSE pc[t]]
    /\ now' = [t \in Threads |-> IF Owner[t] = w THEN 0 ELSE now[t]]
    /\ pos' = [t \in Threads |-> IF Owner[t] = w THEN 1 ELSE pos[t]]
    /\ table' = [t \in Threads |-> IF Owner[t] = w THEN NoRows ELSE table[t]]
    /\ holder' = IF \E t \in Threads : t = holder /\ Owner[t] = w THEN NoThread ELSE holder
    /\ leaked' = leaked \ {w}
    /\ ran' = [ran EXCEPT ![w] = [j \in Jobs |-> Never]]
    /\ UNCHANGED <<clock, db, mishaps>>

\* start() on a running daemon returns at once; nothing locks this check.
StartCall(t) ==
    /\ Serving(t) /\ ~running[Owner[t]]
    /\ Use("restart")
    /\ Goto(t, "start")
    /\ UNCHANGED <<clock, procVars, jobs, db, table, lockVars, now, pos, ghosts>>

\* _running is set, _stop_event cleared and the rows are read by _sync_from_db,
\* whose failure is logged and leaves the table as it is.
StartRead(t) ==
    /\ pc[t] = "start"
    /\ running' = [running EXCEPT ![Owner[t]] = TRUE]
    /\ \/ table' = [table EXCEPT ![t] = db] /\ Goto(t, "apply") /\ UNCHANGED mishaps
       \/ "load" \in Faults /\ Mishap("load", TRUE) /\ Goto(t, "stagger") /\ UNCHANGED table
    /\ UNCHANGED <<clock, life, ticks, warmAt, jobs, db, lockVars, now, pos, used, ran>>

\* The rows are applied under _lock, whatever has happened since they were read.
StartApply(t) ==
    /\ pc[t] = "apply"
    /\ jobs' = [jobs EXCEPT ![Owner[t]] = [j \in Jobs |-> Restore(@[j], table[t][j])]]
    /\ ran' = [ran EXCEPT ![Owner[t]] = [j \in Jobs |-> Never]]
    /\ table' = [table EXCEPT ![t] = NoRows]
    /\ Goto(t, "stagger")
    /\ UNCHANGED <<clock, procVars, db, lockVars, now, pos, used, mishaps>>

\* A mutant: only jobs that never ran are put off.
StaggerNewJobs(t) ==
    /\ pc[t] = "stagger"
    /\ jobs' = [jobs EXCEPT ![Owner[t]] = [j \in Jobs |->
                  IF j \notin Immediate /\ @[j].last = Never
                  THEN [@[j] EXCEPT !.last = clock] ELSE @[j]]]
    /\ warmAt' = [warmAt EXCEPT ![Owner[t]] = clock]
    /\ Goto(t, "persist")
    /\ UNCHANGED <<clock, life, running, ticks, db, table, lockVars, now, pos, used, ghosts>>

\* Overdue jobs are put off as if they had just run.
StartStagger(t) ==
    /\ pc[t] = "stagger"
    /\ jobs' = [jobs EXCEPT ![Owner[t]] = [j \in Jobs |->
                  IF j \notin Immediate /\ Overdue(@[j], clock)
                  THEN [@[j] EXCEPT !.last = clock] ELSE @[j]]]
    /\ warmAt' = [warmAt EXCEPT ![Owner[t]] = clock]
    /\ Goto(t, "persist")
    /\ UNCHANGED <<clock, life, running, ticks, db, table, lockVars, now, pos, used, ghosts>>

\* _sync_to_db begins to read the table, for start() or for a tick.
ReadTable(t) ==
    /\ \/ pc[t] = "persist" /\ Goto(t, "spawn")
       \/ pc[t] = "sync" /\ Goto(t, "commit")
    /\ table' = [table EXCEPT ![t] = [j \in Jobs |-> Row(jobs[Owner[t]][j])]]
    /\ UNCHANGED <<clock, procVars, jobs, db, lockVars, now, pos, used, ghosts>>

\* The table is saved and a loop thread is spawned.
StartPersist(t) ==
    /\ pc[t] = "spawn"
    /\ CommitRows(t)
    /\ \E l \in Loops :
          /\ Owner[l] = Owner[t] /\ pc[l] = "off"
          /\ pc' = [pc EXCEPT ![t] = "off", ![l] = "rest"]
    /\ life' = [life EXCEPT ![Owner[t]] = "up"]
    /\ UNCHANGED <<clock, running, ticks, warmAt, jobs, lockVars, now, pos, used, ran>>

\* stop() clears _running, sets _stop_event and joins the loop thread ...
Stop(t) ==
    /\ Serving(t) /\ running[Owner[t]]
    /\ Use("restart")
    /\ running' = [running EXCEPT ![Owner[t]] = FALSE]
    /\ Goto(t, "join")
    /\ UNCHANGED <<clock, life, ticks, warmAt, jobs, db, table, lockVars, now, pos, ghosts>>

\* ... for ten seconds: a loop that rests is woken and gone by then, one that
\* is in a tick may go on.
StopReturns(t) ==
    /\ pc[t] = "join"
    /\ \A l \in Loops : Owner[l] = Owner[t] => pc[l] # "rest"
    /\ Goto(t, "off")
    /\ UNCHANGED <<clock, procVars, jobs, db, table, lockVars, now, pos, used, ghosts>>

LoopExit(t) ==
    /\ t \in Loops /\ pc[t] = "rest" /\ ~running[Owner[t]]
    /\ Goto(t, "off")
    /\ UNCHANGED <<clock, procVars, jobs, db, table, lockVars, now, pos, used, ghosts>>

-----------------------------------------------------------------------------
(* One tick.                                                               *)

MayTick(t) ==
    \/ t \in Loops /\ pc[t] = "rest" /\ running[Owner[t]]
    \/ t \in Requests /\ pc[t] = "off" /\ life[Owner[t]] = "up"

\* The head of _do_tick: the tick is counted and `now` is taken once.
BeginTick(t) ==
    /\ ticks[Owner[t]] < MaxTicks
    /\ ticks' = [ticks EXCEPT ![Owner[t]] = @ + 1]
    /\ now' = [now EXCEPT ![t] = clock]
    /\ pos' = [pos EXCEPT ![t] = 1]
    /\ Goto(t, "check")
    /\ UNCHANGED <<clock, life, running, warmAt, jobs, db, table, used, ran>>

\* No session of another process or thread holds advisory lock 42; the same
\* session may take it once more.
LockFree(t) == holder = NoThread /\ leaked \subseteq {Owner[t]}

\* A mutant: the lock is taken and given back in the same call.
TickAfterLocking(t) ==
    /\ MayTick(t) /\ Postgres /\ LockFree(t)
    /\ BeginTick(t)
    /\ UNCHANGED <<lockVars, mishaps>>

\* pg_try_advisory_lock(42) answers true.
TickAsLeader(t) ==
    /\ MayTick(t) /\ Postgres /\ LockFree(t)
    /\ holder' = t
    /\ BeginTick(t)
    /\ UNCHANGED <<leaked, mishaps>>

\* A mutant: the answer of the lock is not looked at.
TickRegardless(t) ==
    /\ MayTick(t)
    /\ BeginTick(t)
    /\ UNCHANGED <<lockVars, mishaps>>

\* No Postgres, or the lock could not be asked for: the tick runs anyway.
TickWithoutLock(t) ==
    /\ MayTick(t)
    /\ ~Postgres \/ "lock_query" \in Faults
    /\ BeginTick(t)
    /\ Mishap("lock", TRUE)
    /\ UNCHANGED lockVars

\* pg_try_advisory_lock(42) answers false: tick() returns [].
TickAsFollower(t) ==
    /\ MayTick(t) /\ Postgres /\ (holder # NoThread \/ leaked # {})
    /\ ExitAfterTick(t)
    /\ UNCHANGED <<clock, running, warmAt, db, table, lockVars, threadVars, used, mishaps>>

AtJob(t) == pc[t] = "check" /\ pos[t] <= Len(JobSeq)
JobOf(t) == JobSeq[pos[t]]
Config(t) == jobs[Owner[t]][JobOf(t)]
IsDue(t) == Config(t).enabled /\ Overdue(Config(t), now[t])

SkipJob(t) ==
    /\ AtJob(t) /\ ~IsDue(t)
    /\ pos' = [pos EXCEPT ![t] = @ + 1]
    /\ UNCHANGED <<clock, procVars, jobs, db, table, lockVars, pc, now, used, ghosts>>

\* The handler runs without _lock; what was just checked may change.
StartJob(t) ==
    /\ AtJob(t) /\ IsDue(t)
    /\ Goto(t, "run")
    /\ UNCHANGED <<clock, procVars, jobs, db, table, lockVars, now, pos, used, ghosts>>

\* The handler of t ends with an outcome; the tick goes on to the next job.
HandlerEnds(t, outcome) ==
    /\ pc[t] = "run" /\ outcome \in Outcomes
    /\ ran' = [ran EXCEPT ![Owner[t]][JobOf(t)] =
                 IF outcome = "ok" /\ now[t] > @ THEN now[t] ELSE @]
    /\ UNCHANGED <<clock, procVars, db, table, lockVars, now, used, mishaps>>

NextJob(t) == Goto(t, "check") /\ pos' = [pos EXCEPT ![t] = @ + 1]

JobSucceeds(t) ==
    /\ HandlerEnds(t, "ok")
    /\ SetJob(t, [Config(t) EXCEPT !.last = now[t], !.runs = @ + 1, !.consec = 0])
    /\ NextJob(t)

JobFailsTransient(t) ==
    /\ HandlerEnds(t, "transient")
    /\ SetJob(t, [Config(t) EXCEPT !.errors = @ + 1])
    /\ NextJob(t)

JobFailsConfig(t) ==
    /\ HandlerEnds(t, "config")
    /\ SetJob(t, [Config(t) EXCEPT !.errors = @ + 1, !.consec = @ + 1, !.enabled = FALSE,
                                   !.reason = "config_error", !.why = "config"])
    /\ NextJob(t)

\* A FatalError disables every expensive job, not the one that raised it.
Halted(c, tick) ==
    [c EXCEPT !.enabled = FALSE, !.reason = "fatal_error", !.disabledAt = tick, !.why = "fatal"]

\* A mutant: the error leaves tick() past the release of the lock.
FatalLeavesTick(t) ==
    /\ HandlerEnds(t, "fatal")
    /\ SetJob(t, [Config(t) EXCEPT !.errors = @ + 1])
    /\ Goto(t, AfterTick(t))
    /\ UNCHANGED pos

JobFailsFatal(t) ==
    /\ HandlerEnds(t, "fatal")
    /\ LET counted == [jobs[Owner[t]] EXCEPT ![JobOf(t)].errors = @ + 1]
       IN jobs' = [jobs EXCEPT ![Owner[t]] = [j \in Jobs |->
                     IF j \in Expensive THEN Halted(counted[j], ticks[Owner[t]]) ELSE counted[j]]]
    /\ NextJob(t)

\* A mutant: the tick is at the next job before the errors are judged.
JudgedAtNextJob(t) ==
    /\ HandlerEnds(t, "other")
    /\ SetJob(t, [Config(t) EXCEPT !.errors = @ + 1, !.consec = @ + 1])
    /\ Goto(t, "judge")
    /\ pos' = [pos EXCEPT ![t] = @ + 1]

\* Any other exception is counted under _lock ...
JobFailsOther(t) ==
    /\ HandlerEnds(t, "other")
    /\ SetJob(t, [Config(t) EXCEPT !.errors = @ + 1, !.consec = @ + 1])
    /\ Goto(t, "judge")
    /\ UNCHANGED pos

\* ... and judged when _lock is taken again.  The old reason stays.
JudgeErrors(t) ==
    /\ pc[t] = "judge"
    /\ IF Config(t).consec >= MaxConsecutive
         THEN SetJob(t, [Config(t) EXCEPT !.enabled = FALSE, !.disabledAt = ticks[Owner[t]],
                            !.why = IF @ \in HardCauses THEN @ ELSE "errors"])
         ELSE UNCHANGED jobs
    /\ NextJob(t)
    /\ UNCHANGED <<clock, procVars, db, table, lockVars, now, used, ghosts>>

\* Enabled again: by the cool-down or by an operator.  The reason stays.
Enabled(c) == [c EXCEPT !.enabled = TRUE, !.consec = 0, !.why = "none"]

CooledDown(c, tick) ==
    ~c.enabled /\ c.reason \notin HardReasons /\ tick - c.disabledAt >= Cooldown

\* A mutant: the consecutive errors stay.
ReEnableUncleared(t) ==
    /\ pc[t] = "check" /\ pos[t] > Len(JobSeq)
    /\ jobs' = [jobs EXCEPT ![Owner[t]] = [j \in Jobs |->
                  IF CooledDown(@[j], ticks[Owner[t]])
                  THEN [@[j] EXCEPT !.enabled = TRUE, !.why = "none"] ELSE @[j]]]
    /\ Goto(t, "sync")
    /\ UNCHANGED <<clock, procVars, db, table, lockVars, now, pos, used, ghosts>>

\* After the last job, the disabled jobs whose cool-down is over are enabled.
ReEnable(t) ==
    /\ pc[t] = "check" /\ pos[t] > Len(JobSeq)
    /\ jobs' = [jobs EXCEPT ![Owner[t]] = [j \in Jobs |->
                  IF CooledDown(@[j], ticks[Owner[t]])
                  THEN Enabled(@[j]) ELSE @[j]]]
    /\ Goto(t, "sync")
    /\ UNCHANGED <<clock, procVars, db, table, lockVars, now, pos, used, ghosts>>

\* _sync_to_db, the last of _do_tick.
SaveTick(t) ==
    /\ pc[t] = "commit"
    /\ CommitRows(t)
    /\ Goto(t, "unlock")
    /\ UNCHANGED <<clock, procVars, jobs, lockVars, now, pos, used, ran>>

\* _release_tick_lock in the `finally` of tick().  If the unlock fails on a
\* connection that lives, it goes back to the pool with the lock.
Unlock(t) ==
    /\ holder' = NoThread
    /\ \/ UNCHANGED leaked
       \/ "unlock" \in Faults /\ Owner[t] \notin Cli /\ leaked' = leaked \cup {Owner[t]}

EndTick(t) ==
    /\ pc[t] = "unlock"
    /\ IF holder = t THEN Unlock(t) ELSE UNCHANGED lockVars
    /\ Goto(t, AfterTick(t))
    /\ ExitAfterTick(t)
    /\ now' = [now EXCEPT ![t] = 0] /\ pos' = [pos EXCEPT ![t] = 1]
    /\ UNCHANGED <<clock, running, warmAt, db, table, used, mishaps>>

\* The server drops the connection that holds the lock, in mid-tick or in a pool.
LoseConnection ==
    /\ "connection" \in Faults /\ (holder # NoThread \/ leaked # {})
    /\ holder' = NoThread /\ leaked' = {}
    /\ Mishap("lock", holder # NoThread)
    /\ UNCHANGED <<clock, procVars, jobs, db, table, threadVars, used, ran>>

\* The pool replaces a connection of five minutes (pool_recycle).
Recycle ==
    /\ holder = NoThread /\ leaked # {}
    /\ leaked' = {}
    /\ UNCHANGED <<clock, procVars, jobs, db, table, holder, threadVars, used, ghosts>>

-----------------------------------------------------------------------------
(* What operators do through web/routes/scheduler.py.                      *)

\* force_run looks at neither `enabled`, nor the interval, nor the tick lock.
ForceStart(t) ==
    /\ Serving(t)
    /\ Use("force")
    /\ \E i \in 1..Len(JobSeq) : pos' = [pos EXCEPT ![t] = i]
    /\ Goto(t, "force")
    /\ UNCHANGED <<clock, procVars, jobs, db, table, lockVars, now, ghosts>>

ForceEnds(t) ==
    /\ pc[t] = "force"
    /\ Goto(t, "off") /\ pos' = [pos EXCEPT ![t] = 1]
    /\ UNCHANGED <<clock, procVars, db, table, lockVars, now, used, ghosts>>

ForceSucceeds(t) ==
    /\ ForceEnds(t) /\ "ok" \in Outcomes
    /\ SetJob(t, [Config(t) EXCEPT !.last = clock, !.runs = @ + 1])

ForceFails(t) ==
    /\ ForceEnds(t) /\ Outcomes # {"ok"}
    /\ UNCHANGED jobs

Paused(c) == [c EXCEPT !.enabled = FALSE, !.why = IF @ = "none" THEN "paused" ELSE @]

PauseJob(t, j) ==
    /\ Serving(t)
    /\ Use("admin")
    /\ jobs' = [jobs EXCEPT ![Owner[t]][j] = Paused(@)]
    /\ UNCHANGED <<clock, procVars, db, table, lockVars, threadVars, ghosts>>

ResumeJob(t, j) ==
    /\ Serving(t)
    /\ Use("admin")
    /\ jobs' = [jobs EXCEPT ![Owner[t]][j] = Enabled(@)]
    /\ UNCHANGED <<clock, procVars, db, table, lockVars, threadVars, ghosts>>

-----------------------------------------------------------------------------

\* A thread's own progress once it has begun something.
Proceed(t) ==
    \/ StartRead(t) \/ StartApply(t) \/ StartStagger(t) \/ ReadTable(t) \/ StartPersist(t)
    \/ StopReturns(t)
    \/ SkipJob(t) \/ StartJob(t)
    \/ JobSucceeds(t) \/ JobFailsTransient(t) \/ JobFailsConfig(t)
    \/ JobFailsFatal(t) \/ JobFailsOther(t) \/ JudgeErrors(t)
    \/ ReEnable(t) \/ SaveTick(t) \/ EndTick(t)
    \/ ForceSucceeds(t) \/ ForceFails(t)

Tick(t) == TickAsLeader(t) \/ TickWithoutLock(t) \/ TickAsFollower(t)

Operator(t) ==
    \/ StartCall(t) \/ Stop(t) \/ ForceStart(t)
    \/ \E j \in Jobs : PauseJob(t, j) \/ ResumeJob(t, j)

Next ==
    \/ Advance \/ LoseConnection \/ Recycle
    \/ \E w \in Workers : Crash(w)
    \/ \E t \in Threads :
          Boot(t) \/ LoopExit(t) \/ Tick(t) \/ Proceed(t) \/ Operator(t)

Spec == Init /\ [][Next]_vars

\* Threads get processor time, handlers return, loops come round again, and pools
\* hand out their old connections.
FairSpec ==
    /\ Spec
    /\ \A t \in Threads : WF_vars(Proceed(t))
    /\ \A t \in Loops : WF_vars(Tick(t))
    /\ SF_vars(Recycle)

-----------------------------------------------------------------------------
(* Properties.                                                             *)

Labels == {"off", "rest", "start", "apply", "stagger", "persist", "spawn", "join",
           "check", "run", "judge", "sync", "commit", "unlock", "force"}

\* Every variable has its type, and a thread at a job is at one that exists.
TypeOK ==
    /\ clock \in Nat
    /\ life \in [Workers -> {"down", "booting", "up"}]
    /\ running \in [Workers -> BOOLEAN]
    /\ jobs \in [Workers -> [Jobs -> JobConfig]]
    /\ ticks \in [Workers -> Nat]
    /\ warmAt \in [Workers -> Nat]
    /\ db \in [Jobs -> SchedulerJob]
    /\ table \in [Threads -> [Jobs -> SchedulerJob]]
    /\ holder \in Threads \cup {NoThread}
    /\ leaked \subseteq Workers
    /\ pc \in [Threads -> Labels]
    /\ now \in [Threads -> Nat]
    /\ pos \in [Threads -> 1..(Len(JobSeq) + 1)]
    /\ used \in [Kinds -> Nat]
    /\ ran \in [Workers -> [Jobs -> Nat \cup {Never}]]
    /\ mishaps \subseteq {"lock", "load", "torn"}
    /\ \A t \in Threads : pc[t] \in {"run", "judge", "force"} => pos[t] <= Len(JobSeq)

InTick(t) == pc[t] \in {"check", "run", "judge", "sync", "commit", "unlock"}

\* As long as no tick had to go without the lock or lost its connection, no two
\* threads of any process are inside tick() at the same time: not the loops and
\* requests of several workers, and not the loop that stop() gave up on and the
\* one that start() spawned beside it.
TickMutex ==
    "lock" \notin mishaps => \A t1, t2 \in Threads : InTick(t1) /\ InTick(t2) => t1 = t2

\* And last_run never falls behind the latest tick that ran the job, although a
\* tick writes the `now` of its beginning when the handler has ended, and
\* forced runs, which ask for no lock, end in between.
LastRunHolds ==
    "lock" \notin mishaps => \A w \in Workers, j \in Jobs : jobs[w][j].last >= ran[w][j]

\* A job that a ConfigError or a FatalError disabled is enabled again by a
\* human's resume only: by no later tick, cool-down, restore or restart.
HardDisableSticks ==
    [][\A w \in Workers, j \in Jobs :
          jobs[w][j].why \in HardCauses /\ jobs'[w][j].enabled /\ life'[w] # "down"
             => \E t \in Threads : Owner[t] = w /\ ResumeJob(t, j)]_vars

\* A job with as many consecutive errors as disable it is disabled, or the
\* thread that counted the last one is about to disable it; also where the
\* table was restored from rows of another process.  Excepted are a daemon
\* that an operator restarts, ticks that overlap, and a row that was read
\* while it changed.
ErrorBurstDisables ==
    used["restart"] = 0 /\ mishaps \cap {"lock", "torn"} = {} =>
        \A w \in Workers, j \in Jobs :
            jobs[w][j].enabled /\ jobs[w][j].consec >= MaxConsecutive
               => \E t \in Threads : Owner[t] = w /\ pc[t] = "judge" /\ JobOf(t) = j

Alone == Cli = {} /\ \A v, w \in Workers : v = w

\* A web process that is alone, that could load its rows and that nobody
\* restarts from within never takes a run that was saved in scheduler_jobs out
\* of run_count again: across kills and reboots, forced runs and rows that fail
\* to be written.  (A start beside the tick of a loop that stop() gave up on
\* applies rows that the tick has outdated.)
RunCountNeverLost ==
    [][Alone /\ used'["restart"] = 0 /\ mishaps' = {}
         => \A j \in Jobs : db'[j].runs >= db[j].runs]_vars

\* A job that start() staggers is not run at the moment of the start, however
\* late the previous process was killed: no burst of overdue expensive jobs.
\* (Where an operator has stopped the daemon, a tick that stop() has not waited
\* for may put last_run back after start() has staggered.)
WarmUp ==
    [][\A t \in Threads :
          StartJob(t) /\ Owner[t] \notin Cli /\ JobOf(t) \notin Immediate /\ used["restart"] = 0
             => now[t] > warmAt[Owner[t]]]_vars

\* Whoever holds the tick lock gives it back, whatever its handlers raise and
\* whether or not the unlock succeeds, so that other processes get it.
LockComesBack == \A t \in Threads : holder = t ~> (holder = NoThread /\ leaked = {})

=============================================================================
