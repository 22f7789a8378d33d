------------------------------ MODULE Directives ------------------------------
(***************************************************************************)
(* The execution of directives: DirectiveManager.execute_directive of      *)
(* src/core/directives/manager.py, run by any number of threads, and those *)
(* who call it: the background threads of src/web/routes/api.py, which a   *)
(* semaphore counts and which cancel what fails, and the requests of       *)
(* web/routes/directives.py and god_panel.py, which do neither.            *)
(*                                                                         *)
(* A plan is the sequence of waves that the War Room or its fallback comes *)
(* up with, a wave a set of tasks; what a task yields, its cost and its    *)
(* quality are left out.  There is one process.                            *)
(***************************************************************************)
EXTENDS Naturals, Sequences, FiniteSets

CONSTANTS
    Directives,     \* the identifiers of directives
    Background,     \* slots for the threads that api_execute_directive starts
    Foreground,     \* slots for those that call execute_directive themselves
    Tasks,
    Plans,          \* the plans that planning may yield
    MaxConcurrent,  \* permits of _directive_semaphore (5)
    Parallel,       \* max_parallel_tasks (5)
    Faults,         \* what may fail: "thread", "run", "cancel", "row"
    MaxRuns,        \* bound on the executions
    MaxCrashes      \* bound on the crashes of the process

Threads == Background \cup Foreground

ASSUME ThreadsAssumption ==
    /\ Background \cap Foreground = {} /\ IsFiniteSet(Background)
ASSUME PlansAssumption == Plans \subseteq Seq(SUBSET Tasks)
ASSUME BoundsAssumption ==
    /\ MaxConcurrent \in Nat /\ Parallel \in Nat \ {0}
    /\ MaxRuns \in Nat /\ MaxCrashes \in Nat

VARIABLES
    status,     \* status[d] of the row of d, "absent" before it is created
    rows,       \* rows[d]: the rows of d in `tasks`, as <<run, wave, task>>
    permits,    \* the value of _directive_semaphore
    pc,         \* pc[t]: where thread t is
    target,     \* target[t]: its directive
    run,        \* run[t]: the number of its execution
    plan,       \* plan[t]: unified_plan["waves"]
    wave,       \* wave[t]: the wave it is at, as an index into the plan
    queued,     \* queued[t]: the tasks of the wave that wait for the pool
    active,     \* active[t]: those that run, as <<wave, task>>
    results,    \* results[t]: those that have returned, as <<wave, task>>
    unsaved,    \* unsaved[t]: the part of task_records that is to be written
    begun,      \* executions so far
    crashes,    \* crashes so far
    lost,       \* permits of threads that could not be started
    lossy,      \* the threads that have lost rows of their run
    abandoned   \* the directives that a run has left as they were

\* lost, lossy and abandoned are not in the code: the properties speak of them.

rowVars  == <<status, rows>>
runVars  == <<target, run, plan, wave>>
poolVars == <<queued, active, results, unsaved>>
history  == <<lost, lossy, abandoned>>
vars == <<rowVars, permits, pc, runVars, poolVars, begun, crashes, history>>

Init ==
    /\ status = [d \in Directives |-> "absent"]
    /\ rows = [d \in Directives |-> {}]
    /\ permits = MaxConcurrent
    /\ pc = [t \in Threads |-> "off"]
    /\ target \in [Threads -> Directives]
    /\ run = [t \in Threads |-> 0]
    /\ plan = [t \in Threads |-> << >>]
    /\ wave = [t \in Threads |-> 1]
    /\ queued = [t \in Threads |-> {}] /\ active = [t \in Threads |-> {}]
    /\ results = [t \in Threads |-> {}] /\ unsaved = [t \in Threads |-> {}]
    /\ begun = 0 /\ crashes = 0
    /\ lost = 0 /\ lossy = {} /\ abandoned = {}

Goto(t, label) == pc' = [pc EXCEPT ![t] = label]

\* The local variables of threads that are gone.
Forget(gone) ==
    /\ run' = [t \in Threads |-> IF t \in gone THEN 0 ELSE run[t]]
    /\ plan' = [t \in Threads |-> IF t \in gone THEN << >> ELSE plan[t]]
    /\ wave' = [t \in Threads |-> IF t \in gone THEN 1 ELSE wave[t]]
    /\ queued' = [t \in Threads |-> IF t \in gone THEN {} ELSE queued[t]]
    /\ active' = [t \in Threads |-> IF t \in gone THEN {} ELSE active[t]]
    /\ results' = [t \in Threads |-> IF t \in gone THEN {} ELSE results[t]]
    /\ unsaved' = [t \in Threads |-> IF t \in gone THEN {} ELSE unsaved[t]]
    /\ lossy' = lossy \ gone

Write(d, value) == status' = [status EXCEPT ![d] = value]

-----------------------------------------------------------------------------
(* Directives and those who have them executed.                            *)

Create(d) ==
    /\ status[d] = "absent"
    /\ Write(d, "pending")
    /\ UNCHANGED <<rows, permits, pc, runVars, poolVars, begun, crashes, history>>

\* cancel_directive by an operator: whatever the status is.
Cancel(d) ==
    /\ status[d] # "absent"
    /\ Write(d, "cancelled")
    /\ UNCHANGED <<rows, permits, pc, runVars, poolVars, begun, crashes, history>>

\* A new execution in a free slot, for any directive in any status.
Launch(t) ==
    /\ pc[t] = "off" /\ begun < MaxRuns
    /\ begun' = begun + 1
    /\ \E d \in Directives : target' = [target EXCEPT ![t] = d]
    /\ run' = [run EXCEPT ![t] = begun + 1]
    /\ Goto(t, "begin")
    /\ UNCHANGED <<rowVars, plan, wave, poolVars, crashes, history>>

\* api_execute_directive: a permit is taken, or the request is refused (429).
Accept(t) ==
    /\ t \in Background /\ permits > 0
    /\ permits' = permits - 1
    /\ Launch(t)

\* thread.start() raises after the permit has been taken.
AcceptInVain ==
    /\ "thread" \in Faults /\ permits > 0
    /\ permits' = permits - 1 /\ lost' = lost + 1
    /\ UNCHANGED <<rowVars, pc, runVars, poolVars, begun, crashes, lossy, abandoned>>

Serve(t) == t \in Foreground /\ Launch(t) /\ UNCHANGED permits

\* The process dies, its threads and its semaphore with it; the rows stay.
Crash ==
    /\ crashes < MaxCrashes
    /\ crashes' = crashes + 1
    /\ abandoned' = abandoned \cup {target[t] : t \in {u \in Threads : pc[u] # "off"}}
    /\ pc' = [t \in Threads |-> "off"]
    /\ permits' = MaxConcurrent /\ lost' = 0
    /\ Forget(Threads)
    /\ UNCHANGED <<rowVars, target, begun>>

-----------------------------------------------------------------------------
(* execute_directive.                                                      *)

\* start_directive, whatever the status is; a directive that does not exist is
\* answered with an error.
Begin(t) ==
    /\ pc[t] = "begin"
    /\ \/ /\ status[target[t]] = "absent"
          /\ Goto(t, "end")
          /\ UNCHANGED <<status, abandoned>>
       \/ /\ status[target[t]] # "absent"
          /\ Write(target[t], "planning")
          /\ abandoned' = abandoned \ {target[t]}
          /\ Goto(t, "planning")
    /\ UNCHANGED <<rows, permits, runVars, poolVars, begun, crashes, lost, lossy>>

\* The War Room is over, or the LLM fallback of it; the status is written again.
Execute(t) ==
    /\ pc[t] = "planning"
    /\ Write(target[t], "executing")
    /\ \E p \in Plans : plan' = [plan EXCEPT ![t] = p]
    /\ Goto(t, "wave")
    /\ UNCHANGED <<rows, permits, target, run, wave, poolVars, begun, crashes, history>>

\* A wave begins.  A task for which there is no lieutenant goes no further than
\* one that raises in the pool, and is modelled as such.
BeginWave(t) ==
    /\ pc[t] = "wave" /\ wave[t] <= Len(plan[t])
    /\ queued' = [queued EXCEPT ![t] = plan[t][wave[t]]]
    /\ Goto(t, "pool")
    /\ UNCHANGED <<rowVars, permits, runVars, active, results, unsaved, begun, crashes, history>>

\* A worker of the pool takes up a task.
StartTask(t) ==
    /\ pc[t] = "pool" /\ Cardinality(active[t]) < Parallel
    /\ \E k \in queued[t] :
          /\ queued' = [queued EXCEPT ![t] = @ \ {k}]
          /\ active' = [active EXCEPT ![t] = @ \cup {<<wave[t], k>>}]
    /\ UNCHANGED <<rowVars, permits, pc, runVars, results, unsaved, begun, crashes, history>>

\* lt.execute_task returns a result, or raises, which leaves nothing to record.
EndTask(t) ==
    /\ pc[t] = "pool"
    /\ \E a \in active[t] :
          /\ active' = [active EXCEPT ![t] = @ \ {a}]
          /\ \/ /\ results' = [results EXCEPT ![t] = @ \cup {a}]
                /\ unsaved' = [unsaved EXCEPT ![t] = @ \cup {a}]
             \/ UNCHANGED <<results, unsaved>>
    /\ UNCHANGED <<rowVars, permits, pc, runVars, queued, begun, crashes, history>>

\* A mutant: the pool is not waited for.
LeavePoolEarly(t) ==
    /\ pc[t] = "pool" /\ queued[t] = {}
    /\ Goto(t, "save")
    /\ UNCHANGED <<rowVars, permits, runVars, poolVars, begun, crashes, history>>

\* The pool is left when the last of its tasks has ended.
LeavePool(t) ==
    /\ pc[t] = "pool" /\ queued[t] = {} /\ active[t] = {}
    /\ Goto(t, "save")
    /\ UNCHANGED <<rowVars, permits, runVars, poolVars, begun, crashes, history>>

\* Each result has a session, and a commit, of its own.
SaveRow(t) ==
    /\ pc[t] = "save"
    /\ \E a \in unsaved[t] :
          /\ unsaved' = [unsaved EXCEPT ![t] = @ \ {a}]
          /\ rows' = [rows EXCEPT ![target[t]] = @ \cup {<<run[t], a[1], a[2]>>}]
    /\ UNCHANGED <<status, permits, pc, runVars, queued, active, results, begun, crashes, history>>

\* A row cannot be committed: it is lost, and those after it with it.
LoseRows(t) ==
    /\ "row" \in Faults
    /\ pc[t] = "save" /\ unsaved[t] # {}
    /\ unsaved' = [unsaved EXCEPT ![t] = {}]
    /\ lossy' = lossy \cup {t}
    /\ UNCHANGED <<rowVars, permits, pc, runVars, queued, active, results, begun, crashes,
                   lost, abandoned>>

\* A mutant: the rows are left to the next wave.
EndWaveUnsaved(t) ==
    /\ pc[t] = "save"
    /\ wave' = [wave EXCEPT ![t] = @ + 1]
    /\ Goto(t, "wave")
    /\ UNCHANGED <<rowVars, permits, target, run, plan, poolVars, begun, crashes, history>>

EndWave(t) ==
    /\ pc[t] = "save" /\ unsaved[t] = {}
    /\ wave' = [wave EXCEPT ![t] = @ + 1]
    /\ Goto(t, "wave")
    /\ UNCHANGED <<rowVars, permits, target, run, plan, poolVars, begun, crashes, history>>

\* After the retrospective, whose errors are caught, "completed" is written,
\* whatever the status has become in the meantime.
Complete(t) ==
    /\ pc[t] = "wave" /\ wave[t] > Len(plan[t])
    /\ Write(target[t], "completed")
    /\ Goto(t, "end")
    /\ UNCHANGED <<rows, permits, runVars, poolVars, begun, crashes, history>>

\* Anything else that goes wrong outside the pool leaves execute_directive.
Raise(t) ==
    /\ "run" \in Faults /\ pc[t] \in {"begin", "planning", "wave"}
    /\ Goto(t, "raised")
    /\ UNCHANGED <<rowVars, permits, runVars, poolVars, begun, crashes, history>>

\* A mutant: the thread ends without cancelling.
HandleByLogging(t) ==
    /\ pc[t] = "raised"
    /\ UNCHANGED <<status, abandoned>>
    /\ Goto(t, "end")
    /\ UNCHANGED <<rows, permits, runVars, poolVars, begun, crashes, lost, lossy>>

\* A background thread cancels the directive, if the database lets it; the
\* others answer 500.
Handle(t) ==
    /\ pc[t] = "raised"
    /\ \/ /\ t \in Background
          /\ status' = IF status[target[t]] = "absent" THEN status
                       ELSE [status EXCEPT ![target[t]] = "cancelled"]
          /\ UNCHANGED abandoned
       \/ /\ t \in Foreground \/ "cancel" \in Faults
          /\ abandoned' = abandoned \cup {target[t]}
          /\ UNCHANGED status
    /\ Goto(t, "end")
    /\ UNCHANGED <<rows, permits, runVars, poolVars, begun, crashes, lost, lossy>>

\* A mutant: a run that has been cancelled keeps its permit.
EndKeepingPermit(t) ==
    /\ pc[t] = "end"
    /\ permits' = IF t \in Background /\ status[target[t]] # "cancelled" THEN permits + 1 ELSE permits
    /\ Goto(t, "off") /\ Forget({t})
    /\ UNCHANGED <<rowVars, target, begun, crashes, lost, abandoned>>

\* A mutant: every thread gives back a permit.
EndOfAnyThread(t) ==
    /\ pc[t] = "end"
    /\ permits' = permits + 1
    /\ Goto(t, "off") /\ Forget({t})
    /\ UNCHANGED <<rowVars, target, begun, crashes, lost, abandoned>>

\* A background thread gives back its permit in a `finally`.
End(t) ==
    /\ pc[t] = "end"
    /\ permits' = IF t \in Background THEN permits + 1 ELSE permits
    /\ Goto(t, "off") /\ Forget({t})
    /\ UNCHANGED <<rowVars, target, begun, crashes, lost, abandoned>>

Proceed(t) ==
    \/ Begin(t) \/ Execute(t) \/ BeginWave(t) \/ StartTask(t) \/ EndTask(t) \/ LeavePool(t)
    \/ SaveRow(t) \/ LoseRows(t) \/ EndWave(t) \/ Complete(t) \/ Raise(t) \/ Handle(t) \/ End(t)

Next ==
    \/ AcceptInVain \/ Crash
    \/ \E d \in Directives : Create(d) \/ Cancel(d)
    \/ \E t \in Threads : Accept(t) \/ Serve(t) \/ Proceed(t)

Spec == Init /\ [][Next]_vars

\* Threads are scheduled, and every call to a model or a database returns.
FairSpec == Spec /\ \A t \in Threads : WF_vars(Proceed(t))

-----------------------------------------------------------------------------

Statuses == {"absent", "pending", "planning", "executing", "completed", "cancelled"}
Labels   == {"off", "begin", "planning", "wave", "pool", "save", "raised", "end"}

\* Every variable has its type, and only what is in a pool or has left it counts.
TypeOK ==
    /\ status \in [Directives -> Statuses]
    /\ rows \in [Directives -> SUBSET (Nat \X Nat \X Tasks)]
    /\ permits \in 0..MaxConcurrent
    /\ pc \in [Threads -> Labels]
    /\ target \in [Threads -> Directives]
    /\ run \in [Threads -> Nat] /\ wave \in [Threads -> Nat \ {0}]
    /\ plan \in [Threads -> Plans \cup {<< >>}]
    /\ queued \in [Threads -> SUBSET Tasks]
    /\ active \in [Threads -> SUBSET (Nat \X Tasks)]
    /\ results \in [Threads -> SUBSET (Nat \X Tasks)]
    /\ unsaved \in [Threads -> SUBSET (Nat \X Tasks)]
    /\ begun \in Nat /\ crashes \in Nat /\ lost \in Nat
    /\ lossy \subseteq Threads /\ abandoned \subseteq Directives

Running(t) == pc[t] \notin {"off", "end"}
Unsettled(d) == status[d] \in {"planning", "executing"}
Permitted == {t \in Background : pc[t] # "off"}

\* Every permit is in the semaphore, with a background thread that runs, or
\* lost with a thread that could not be started: none is given back twice or
\* kept by a run that failed, so at most MaxConcurrent directives run there.
PermitsAccounted == permits + Cardinality(Permitted) + lost = MaxConcurrent

\* A directive in planning or executing is being executed, unless a run has
\* abandoned it: by a crash, by an error in a request or in the cancellation.
\* No other interleaving of executions and cancellations strands it.
NeverStranded ==
    \A d \in Directives :
        Unsettled(d) => d \in abandoned \/ \E t \in Threads : Running(t) /\ target[t] = d

\* When a task starts, no task of another wave of its execution is running:
\* waves build on one another.
WavesInOrder ==
    \A t \in Threads : \A a, b \in active[t] : a[1] = b[1]

\* The tasks of the waves an execution has finished are on disk, so that a crash
\* costs no more than the wave in progress, unless a row could not be written.
WavesRecorded ==
    \A t \in Threads : t \notin lossy =>
        \A a \in results[t] : a[1] < wave[t] => <<run[t], a[1], a[2]>> \in rows[target[t]]

\* A directive that has been cancelled is not executed any more, until somebody
\* has it executed again.
CancelSticks ==
    [][\A d \in Directives :
          status[d] = "cancelled" /\ status'[d] # "cancelled"
             => \E t \in Threads : target[t] = d /\ Begin(t)]_vars

\* Planning and executing come to an end, unless the directive is abandoned.
Settles == \A d \in Directives : Unsettled(d) ~> ~Unsettled(d) \/ d \in abandoned

\* Plans of a small instance: one wave of two tasks, or two waves of one.
SmallPlans == {<<{"x", "y"}>>, <<{"x"}, {"x"}>>}

=============================================================================
