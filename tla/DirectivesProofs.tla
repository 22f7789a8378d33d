--------------------------- MODULE DirectivesProofs ---------------------------
(* Proofs about Directives for any directives, plans, threads and bounds.   *)
EXTENDS Directives, FiniteSetTheorems, TLAPS

\* TypeOK, but for the bound on permits that PermitsAccounted implies.
Types ==
    /\ status \in [Directives -> Statuses]
    /\ rows \in [Directives -> SUBSET (Nat \X Nat \X Tasks)]
    /\ permits \in Nat
    /\ pc \in [Threads -> Labels]
    /\ target \in [Threads -> Directives]
    /\ run \in [Threads -> Nat] /\ wave \in [Threads -> Nat \ {0}]
    /\ plan \in [Threads -> Plans \cup {<< >>}]
    /\ queued \in [Threads -> SUBSET Tasks]
    /\ active \in [Threads -> SUBSET (Nat \X Tasks)]
    /\ results \in [Threads -> SUBSET (Nat \X Tasks)]
    /\ unsaved \in [Threads -> SUBSET (Nat \X Tasks)]
    /\ begun \in Nat /\ crashes \in Nat /\ lost \in Nat
    /\ lossy \subseteq Threads /\ abandoned \subseteq Directives

\* The pool holds tasks of the wave the thread is at, and nothing outside it.
PoolInStep ==
    \A t \in Threads :
       /\ pc[t] # "pool" => active[t] = {}
       /\ \A a \in active[t] : a[1] = wave[t]

\* What has returned is saved, lost, or waits to be saved in the wave it is of.
ResultsKept ==
    \A t \in Threads :
       /\ pc[t] \notin {"pool", "save"} => unsaved[t] = {}
       /\ pc[t] = "off" => results[t] = {}
       /\ \A a \in unsaved[t] : a[1] = wave[t]
       /\ t \notin lossy => \A a \in results[t] :
             a \in unsaved[t] \/ <<run[t], a[1], a[2]>> \in rows[target[t]]

-----------------------------------------------------------------------------
(* Types.                                                                   *)

\* Every variable has its type at the start.
LEMMA InitTypes == Init => Types
BY BoundsAssumption DEF Init, Types, Statuses, Labels

\* A wave of a plan is a set of tasks.
LEMMA WaveOfTasks ==
    ASSUME Types, NEW t \in Threads, wave[t] <= Len(plan[t])
    PROVE  plan[t][wave[t]] \in SUBSET Tasks
<1>1. plan[t] \in Seq(SUBSET Tasks)
  BY PlansAssumption DEF Types
<1>2. wave[t] \in 1..Len(plan[t])
  BY <1>1 DEF Types
<1> QED  BY <1>1, <1>2

\* Forgetting the variables of threads that are gone keeps their types.
LEMMA ForgetTypes ==
    ASSUME Types, NEW gone \in SUBSET Threads, Forget(gone)
    PROVE  /\ run' \in [Threads -> Nat] /\ wave' \in [Threads -> Nat \ {0}]
           /\ plan' \in [Threads -> Plans \cup {<< >>}]
           /\ queued' \in [Threads -> SUBSET Tasks]
           /\ active' \in [Threads -> SUBSET (Nat \X Tasks)]
           /\ results' \in [Threads -> SUBSET (Nat \X Tasks)]
           /\ unsaved' \in [Threads -> SUBSET (Nat \X Tasks)]
           /\ lossy' \subseteq Threads
BY DEF Types, Forget

\* Every step of a thread, an operator or the process keeps the types.
LEMMA NextTypes == Types /\ [Next]_vars => Types'
<1> SUFFICES ASSUME Types, [Next]_vars PROVE Types'
  OBVIOUS
<1> USE DEF rowVars, runVars, poolVars, history, Goto, Write
<1>1. CASE UNCHANGED vars
  BY <1>1 DEF vars, Types
<1>2. CASE AcceptInVain
  BY <1>2 DEF AcceptInVain, Types
<1>3. CASE Crash
  <2>1. Forget(Threads)
    BY <1>3 DEF Crash
  <2>2. abandoned' \subseteq Directives
    BY <1>3 DEF Crash, Types
  <2>3. pc' \in [Threads -> Labels]
    BY <1>3 DEF Crash, Labels
  <2>4. /\ status' = status /\ rows' = rows /\ target' = target /\ begun' = begun
        /\ permits' \in Nat /\ lost' \in Nat /\ crashes' \in Nat
    BY <1>3, BoundsAssumption DEF Crash, Types
  <2> HIDE DEF Forget
  <2> QED  BY <2>1, <2>2, <2>3, <2>4, ForgetTypes DEF Types
<1>4. ASSUME NEW d \in Directives, Create(d) \/ Cancel(d) PROVE Types'
  BY <1>4 DEF Create, Cancel, Types, Statuses
<1>5. ASSUME NEW t \in Threads, Accept(t) \/ Serve(t) PROVE Types'
  <2>1. permits' \in Nat
    BY <1>5 DEF Accept, Serve, Types
  <2>2. Launch(t)
    BY <1>5 DEF Accept, Serve
  <2> QED  BY <2>1, <2>2 DEF Launch, Types, Labels
<1>6. ASSUME NEW t \in Threads, Proceed(t) PROVE Types'
  <2>1. CASE Begin(t)
    BY <2>1 DEF Begin, Types, Statuses, Labels
  <2>2. CASE Execute(t)
    BY <2>2 DEF Execute, Types, Statuses, Labels
  <2>3. CASE BeginWave(t)
    <3>1. plan[t][wave[t]] \in SUBSET Tasks
      BY <2>3, WaveOfTasks DEF BeginWave
    <3> QED  BY <2>3, <3>1 DEF BeginWave, Types, Labels
  <2>4. CASE StartTask(t)
    BY <2>4 DEF StartTask, Types
  <2>5. CASE EndTask(t)
    <3>1. PICK a \in active[t] :
             /\ active' = [active EXCEPT ![t] = @ \ {a}]
             /\ \/ /\ results' = [results EXCEPT ![t] = @ \cup {a}]
                   /\ unsaved' = [unsaved EXCEPT ![t] = @ \cup {a}]
                \/ UNCHANGED <<results, unsaved>>
      BY <2>5 DEF EndTask
    <3>2. a \in Nat \X Tasks
      BY DEF Types
    <3>3. active' \in [Threads -> SUBSET (Nat \X Tasks)]
      BY <3>1 DEF Types
    <3>4. results[t] \cup {a} \in SUBSET (Nat \X Tasks) /\ unsaved[t] \cup {a} \in SUBSET (Nat \X Tasks)
      BY <3>2 DEF Types
    <3>5. /\ results' \in [Threads -> SUBSET (Nat \X Tasks)]
          /\ unsaved' \in [Threads -> SUBSET (Nat \X Tasks)]
      <4>1. CASE UNCHANGED <<results, unsaved>>  BY <4>1 DEF Types
      <4>2. CASE results' = [results EXCEPT ![t] = @ \cup {a}] /\ unsaved' = [unsaved EXCEPT ![t] = @ \cup {a}]
        BY <4>2, <3>4 DEF Types
      <4> QED  BY <3>1, <4>1, <4>2
    <3> QED  BY <2>5, <3>3, <3>5 DEF EndTask, Types
  <2>6. CASE LeavePool(t)
    BY <2>6 DEF LeavePool, Types, Labels
  <2>7. CASE SaveRow(t)
    <3>1. PICK a \in unsaved[t] :
             /\ unsaved' = [unsaved EXCEPT ![t] = @ \ {a}]
             /\ rows' = [rows EXCEPT ![target[t]] = @ \cup {<<run[t], a[1], a[2]>>}]
      BY <2>7 DEF SaveRow
    <3>2. <<run[t], a[1], a[2]>> \in Nat \X Nat \X Tasks
      BY DEF Types
    <3> QED  BY <2>7, <3>1, <3>2 DEF SaveRow, Types
  <2>8. CASE LoseRows(t)
    BY <2>8 DEF LoseRows, Types
  <2>9. CASE EndWave(t)
    BY <2>9 DEF EndWave, Types, Labels
  <2>10. CASE Complete(t)
    BY <2>10 DEF Complete, Types, Statuses, Labels
  <2>11. CASE Raise(t)
    BY <2>11 DEF Raise, Types, Labels
  <2>12. CASE Handle(t)
    BY <2>12 DEF Handle, Types, Statuses, Labels
  <2>13. CASE End(t)
    <3>1. Forget({t})
      BY <2>13 DEF End
    <3>2. permits' \in Nat
      BY <2>13 DEF End, Types
    <3> QED  BY <2>13, <3>1, <3>2, ForgetTypes DEF End, Types, Labels
  <2> QED  BY <1>6, <2>1, <2>2, <2>3, <2>4, <2>5, <2>6, <2>7, <2>8, <2>9, <2>10, <2>11,
              <2>12, <2>13 DEF Proceed
<1> QED  BY <1>1, <1>2, <1>3, <1>4, <1>5, <1>6 DEF Next

-----------------------------------------------------------------------------
(* The permits.                                                             *)

\* A background thread that starts is one more, and one that ends one less.
LEMMA OneMore ==
    ASSUME NEW t \in Background, pc[t] = "off", Permitted' = Permitted \cup {t}
    PROVE  Cardinality(Permitted') = Cardinality(Permitted) + 1
<1>1. IsFiniteSet(Permitted) /\ t \notin Permitted
  BY ThreadsAssumption, FS_Subset DEF Permitted
<1> QED  BY <1>1, FS_AddElement

\* A thread that ends is one background thread less.
LEMMA OneLess ==
    ASSUME NEW t \in Background, pc[t] # "off", Permitted' = Permitted \ {t}
    PROVE  Cardinality(Permitted') = Cardinality(Permitted) - 1
<1>1. IsFiniteSet(Permitted) /\ t \in Permitted
  BY ThreadsAssumption, FS_Subset DEF Permitted
<1> QED  BY <1>1, FS_RemoveElement

\* The background threads that run can be counted.
LEMMA PermittedCounted == Cardinality(Permitted) \in Nat
<1>1. IsFiniteSet(Permitted)
  BY ThreadsAssumption, FS_Subset DEF Permitted
<1> QED  BY <1>1, FS_CardinalityType

\* All permits are in the semaphore at the start.
LEMMA InitPermits == Init => PermitsAccounted
<1> SUFFICES ASSUME Init PROVE PermitsAccounted
  OBVIOUS
<1>1. Permitted = {}
  BY DEF Init, Permitted, Threads
<1> QED  BY <1>1, FS_EmptySet, BoundsAssumption DEF Init, PermitsAccounted

\* A permit changes hands only with a thread that starts, ends or cannot start.
LEMMA NextPermits ==
    ASSUME Types, PermitsAccounted, [Next]_vars
    PROVE  PermitsAccounted'
<1> USE DEF rowVars, runVars, poolVars, history, Goto
<1>0. ASSUME UNCHANGED <<permits, lost, Permitted>> PROVE PermitsAccounted'
  BY <1>0 DEF PermitsAccounted
<1>1. CASE UNCHANGED vars
  <2>1. UNCHANGED <<permits, lost, Permitted>>
    BY <1>1 DEF vars, Permitted
  <2> QED  BY <1>0, <2>1
<1>2. CASE AcceptInVain
  <2>1. permits' = permits - 1 /\ lost' = lost + 1 /\ Permitted' = Permitted
    BY <1>2 DEF AcceptInVain, Permitted
  <2> QED  BY <2>1, PermittedCounted, BoundsAssumption DEF PermitsAccounted, Types
<1>3. CASE Crash
  <2>1. permits' = MaxConcurrent /\ lost' = 0 /\ Permitted' = {}
    BY <1>3 DEF Crash, Permitted, Threads
  <2> QED  BY <2>1, FS_EmptySet, BoundsAssumption DEF PermitsAccounted
<1>4. ASSUME NEW d \in Directives, Create(d) \/ Cancel(d) PROVE PermitsAccounted'
  <2>1. UNCHANGED <<permits, lost, Permitted>>
    BY <1>4 DEF Create, Cancel, Permitted
  <2> QED  BY <1>0, <2>1
<1>5. ASSUME NEW t \in Threads, Accept(t) PROVE PermitsAccounted'
  <2>1. t \in Background /\ pc[t] = "off" /\ permits' = permits - 1 /\ lost' = lost
        /\ pc' = [pc EXCEPT ![t] = "begin"]
    BY <1>5 DEF Accept, Launch
  <2>2. Permitted' = Permitted \cup {t}
    BY <2>1 DEF Permitted, Threads, Types
  <2>3. Cardinality(Permitted') = Cardinality(Permitted) + 1
    BY <2>1, <2>2, OneMore
  <2> QED  BY <2>1, <2>3, PermittedCounted, BoundsAssumption DEF PermitsAccounted, Types
<1>6. ASSUME NEW t \in Threads, Serve(t) PROVE PermitsAccounted'
  <2>1. UNCHANGED <<permits, lost, Permitted>>
    BY <1>6, ThreadsAssumption DEF Serve, Launch, Permitted, Types, Threads
  <2> QED  BY <1>0, <2>1
<1>7. ASSUME NEW t \in Threads, End(t) PROVE PermitsAccounted'
  <2>1. pc[t] = "end" /\ pc' = [pc EXCEPT ![t] = "off"] /\ lost' = lost
        /\ permits' = IF t \in Background THEN permits + 1 ELSE permits
    BY <1>7 DEF End
  <2>2. CASE t \notin Background
    <3>1. UNCHANGED <<permits, lost, Permitted>>
      BY <2>1, <2>2 DEF Permitted, Types, Threads
    <3> QED  BY <1>0, <3>1
  <2>3. CASE t \in Background
    <3>1. Permitted' = Permitted \ {t}
      BY <2>1 DEF Permitted, Threads, Types
    <3>2. Cardinality(Permitted') = Cardinality(Permitted) - 1
      BY <2>1, <2>3, <3>1, OneLess
    <3> QED  BY <2>1, <2>3, <3>2, PermittedCounted, BoundsAssumption DEF PermitsAccounted, Types
  <2> QED  BY <2>2, <2>3
<1>8. ASSUME NEW t \in Threads, Proceed(t), ~End(t) PROVE PermitsAccounted'
  <2>1. permits' = permits /\ lost' = lost
    BY <1>8 DEF Proceed, Begin, Execute, BeginWave, StartTask, EndTask, LeavePool, SaveRow,
                LoseRows, EndWave, Complete, Raise, Handle
  <2>2. pc' = pc \/ (pc[t] # "off" /\ \E label \in Labels \ {"off"} : pc' = [pc EXCEPT ![t] = label])
    BY <1>8 DEF Proceed, Begin, Execute, BeginWave, StartTask, EndTask, LeavePool, SaveRow,
                LoseRows, EndWave, Complete, Raise, Handle, Labels
  <2>3. Permitted' = Permitted
    BY <2>2 DEF Permitted, Types, Threads
  <2> QED  BY <1>0, <2>1, <2>3
<1> QED  BY <1>1, <1>2, <1>3, <1>4, <1>5, <1>6, <1>7, <1>8 DEF Next

\* Every permit of the semaphore is accounted for, so that never more than
\* MaxConcurrent directives are executed by background threads.
THEOREM PermitsNeverLeak == Spec => []PermitsAccounted
<1>1. Types /\ PermitsAccounted /\ [Next]_vars => Types' /\ PermitsAccounted'
  BY NextTypes, NextPermits
<1> QED  BY <1>1, InitTypes, InitPermits, PTL DEF Spec

\* Every variable has its type in every reachable state.
THEOREM TypeCorrect == Spec => []TypeOK
<1>1. Types /\ PermitsAccounted /\ [Next]_vars => Types' /\ PermitsAccounted'
  BY NextTypes, NextPermits
<1>2. Types /\ PermitsAccounted => TypeOK
  <2> SUFFICES ASSUME Types, PermitsAccounted PROVE TypeOK
    OBVIOUS
  <2>1. permits \in 0..MaxConcurrent
    BY PermittedCounted, BoundsAssumption DEF PermitsAccounted, Types
  <2> QED  BY <2>1 DEF Types, TypeOK
<1> QED  BY <1>1, <1>2, InitTypes, InitPermits, PTL DEF Spec

-----------------------------------------------------------------------------
(* Stranded directives.                                                     *)

\* No step leaves a directive in planning or executing without somebody to go on,
\* or to have abandoned it.
LEMMA NextStranded ==
    ASSUME Types, NeverStranded, [Next]_vars
    PROVE  NeverStranded'
<1> USE DEF rowVars, runVars, poolVars, history, Goto, Write
<1> SUFFICES ASSUME NEW d \in Directives, Unsettled(d)', d \notin abandoned'
             PROVE  \E t \in Threads : (Running(t) /\ target[t] = d)'
  BY DEF NeverStranded
<1>0. ASSUME UNCHANGED <<status, abandoned>>,
             \A t \in Threads : Running(t) => Running(t)' /\ target'[t] = target[t]
      PROVE  \E t \in Threads : (Running(t) /\ target[t] = d)'
  BY <1>0 DEF NeverStranded, Unsettled
<1>1. CASE UNCHANGED vars
  BY <1>1, <1>0 DEF vars, Running
<1>2. CASE AcceptInVain
  BY <1>2, <1>0 DEF AcceptInVain, Running
<1>3. CASE Crash
  BY <1>3 DEF Crash, NeverStranded, Unsettled, Running
<1>4. ASSUME NEW e \in Directives, Create(e) \/ Cancel(e)
      PROVE  \E t \in Threads : (Running(t) /\ target[t] = d)'
  <2>1. d # e
    BY <1>4 DEF Create, Cancel, Unsettled, Types
  <2>2. Unsettled(d) /\ d \notin abandoned /\ UNCHANGED <<pc, target>>
    BY <1>4, <2>1 DEF Create, Cancel, Unsettled, Types
  <2> QED  BY <2>2 DEF NeverStranded, Running
<1>5. ASSUME NEW t \in Threads, Accept(t) \/ Serve(t)
      PROVE  \E u \in Threads : (Running(u) /\ target[u] = d)'
  <2>1. Launch(t)
    BY <1>5 DEF Accept, Serve
  <2>2. UNCHANGED <<status, abandoned>> /\ pc[t] = "off"
    BY <2>1 DEF Launch
  <2>3. \A u \in Threads : Running(u) => Running(u)' /\ target'[u] = target[u]
    BY <2>1, <2>2 DEF Launch, Running, Types
  <2> QED  BY <2>2, <2>3, <1>0
<1>6. ASSUME NEW t \in Threads, Proceed(t)
      PROVE  \E u \in Threads : (Running(u) /\ target[u] = d)'
  <2>0. target' = target
    BY <1>6 DEF Proceed, Begin, Execute, BeginWave, StartTask, EndTask, LeavePool, SaveRow,
                LoseRows, EndWave, Complete, Raise, Handle, End
  <2>1. CASE Begin(t)
    <3>1. CASE target[t] = d /\ status[d] # "absent"
      BY <2>0, <2>1, <3>1 DEF Begin, Running, Types
    <3>2. CASE target[t] = d /\ status[d] = "absent"
      BY <2>1, <3>2 DEF Begin, Unsettled
    <3>3. CASE target[t] # d
      <4>1. Unsettled(d) /\ d \notin abandoned
        BY <2>1, <3>3 DEF Begin, Unsettled, Types
      <4>2. PICK u \in Threads : Running(u) /\ target[u] = d
        BY <4>1 DEF NeverStranded
      <4> QED  BY <2>0, <2>1, <3>3, <4>2 DEF Begin, Running, Types
    <3> QED  BY <3>1, <3>2, <3>3
  <2>2. CASE Execute(t)
    <3>1. CASE target[t] = d
      BY <2>0, <2>2, <3>1 DEF Execute, Running, Types
    <3>2. CASE target[t] # d
      <4>1. Unsettled(d) /\ d \notin abandoned
        BY <2>2, <3>2 DEF Execute, Unsettled, Types
      <4>2. PICK u \in Threads : Running(u) /\ target[u] = d
        BY <4>1 DEF NeverStranded
      <4> QED  BY <2>0, <2>2, <3>2, <4>2 DEF Execute, Running, Types
    <3> QED  BY <3>1, <3>2
  <2>3. CASE BeginWave(t) \/ LeavePool(t) \/ EndWave(t) \/ Raise(t)
    <3>1. UNCHANGED <<status, abandoned>>
          /\ \E label \in Labels \ {"off", "end"} : pc' = [pc EXCEPT ![t] = label]
      BY <2>3 DEF BeginWave, LeavePool, EndWave, Raise, Labels
    <3> QED  BY <1>0, <2>0, <3>1 DEF Running, Types
  <2>4. CASE StartTask(t) \/ EndTask(t) \/ SaveRow(t) \/ LoseRows(t)
    <3>1. UNCHANGED <<status, abandoned, pc>>
      BY <2>4 DEF StartTask, EndTask, SaveRow, LoseRows
    <3> QED  BY <1>0, <2>0, <3>1 DEF Running
  <2>5. CASE Complete(t) \/ Handle(t)
    <3>1. d # target[t]
      BY <2>5 DEF Complete, Handle, Unsettled, Types
    <3>2. Unsettled(d) /\ d \notin abandoned /\ pc' = [pc EXCEPT ![t] = "end"]
      BY <2>5, <3>1 DEF Complete, Handle, Unsettled, Types
    <3>3. PICK u \in Threads : Running(u) /\ target[u] = d
      BY <3>2 DEF NeverStranded
    <3> QED  BY <2>0, <3>1, <3>2, <3>3 DEF Running, Types
  <2>6. CASE End(t)
    <3>1. UNCHANGED <<status, abandoned>> /\ pc[t] = "end" /\ pc' = [pc EXCEPT ![t] = "off"]
      BY <2>6 DEF End
    <3> QED  BY <1>0, <2>0, <3>1 DEF Running, Types
  <2> QED  BY <1>6, <2>1, <2>2, <2>3, <2>4, <2>5, <2>6 DEF Proceed
<1> QED  BY <1>1, <1>2, <1>3, <1>4, <1>5, <1>6 DEF Next

\* However executions, cancellations and errors interleave, a directive left in
\* planning or executing is being executed or has been abandoned.
THEOREM NoneStranded == Spec => []NeverStranded
<1>1. Init => NeverStranded
  BY DEF Init, NeverStranded, Unsettled
<1>2. Types /\ NeverStranded /\ [Next]_vars => Types' /\ NeverStranded'
  BY NextTypes, NextStranded
<1> QED  BY <1>1, <1>2, InitTypes, PTL DEF Spec

-----------------------------------------------------------------------------
(* Waves: what runs is of the wave at hand, what has returned is kept.      *)

\* No pool has anything at the start.
LEMMA InitWaves == Init => PoolInStep /\ ResultsKept
BY DEF Init, PoolInStep, ResultsKept

\* A step that leaves the pools, their waves and the threads in them alone.
LEMMA OthersKeepPools ==
    ASSUME Types, PoolInStep, ResultsKept,
           NEW t \in Threads, NEW label \in Labels \ {"off"},
           pc' = [pc EXCEPT ![t] = label],
           label \in {"pool", "save"} \/ (active[t] = {} /\ unsaved[t] = {}),
           label # "pool" => active[t] = {},
           UNCHANGED <<run, wave, target, rows, active, results, unsaved, lossy>>
    PROVE  PoolInStep' /\ ResultsKept'
<1>1. PoolInStep'
  BY DEF PoolInStep, Types
<1>2. ResultsKept'
  BY DEF ResultsKept, Types
<1> QED  BY <1>1, <1>2

\* Every step keeps the pools at the wave in hand, and what they have returned.
LEMMA NextWaves ==
    ASSUME Types, PoolInStep, ResultsKept, [Next]_vars
    PROVE  PoolInStep' /\ ResultsKept'
<1> USE DEF rowVars, runVars, poolVars, history, Goto, Write
<1>1. ASSUME UNCHANGED <<pc, run, wave, target, rows, active, results, unsaved, lossy>>
      PROVE  PoolInStep' /\ ResultsKept'
  BY <1>1 DEF PoolInStep, ResultsKept
<1>2. CASE UNCHANGED vars \/ AcceptInVain \/ \E d \in Directives : Create(d) \/ Cancel(d)
  BY <1>1, <1>2 DEF vars, AcceptInVain, Create, Cancel
<1>3. CASE Crash
  BY <1>3 DEF Crash, Forget, PoolInStep, ResultsKept
<1>4. ASSUME NEW t \in Threads, Accept(t) \/ Serve(t) PROVE PoolInStep' /\ ResultsKept'
  <2>1. /\ pc[t] = "off" /\ pc' = [pc EXCEPT ![t] = "begin"]
        /\ \A u \in Threads \ {t} : run'[u] = run[u] /\ target'[u] = target[u]
        /\ UNCHANGED <<wave, rows, active, results, unsaved, lossy>>
    BY <1>4 DEF Accept, Serve, Launch, Types
  <2>2. PoolInStep'
    BY <2>1 DEF PoolInStep, Types
  <2>3. results[t] = {} /\ unsaved[t] = {}
    BY <2>1 DEF ResultsKept
  <2>4. ResultsKept'
    BY <2>1, <2>3 DEF ResultsKept, Types
  <2> QED  BY <2>2, <2>4
<1>5. ASSUME NEW t \in Threads, Proceed(t) PROVE PoolInStep' /\ ResultsKept'
  <2>1. CASE Begin(t) \/ Execute(t) \/ BeginWave(t) \/ Complete(t) \/ Raise(t) \/ Handle(t)
    <3>1. /\ pc[t] \notin {"off", "pool", "save"}
          /\ \E label \in Labels \ {"off", "save"} : pc' = [pc EXCEPT ![t] = label]
          /\ UNCHANGED <<run, wave, target, rows, active, results, unsaved, lossy>>
      BY <2>1 DEF Begin, Execute, BeginWave, Complete, Raise, Handle, Labels
    <3>2. active[t] = {} /\ unsaved[t] = {}
      BY <3>1 DEF PoolInStep, ResultsKept
    <3>3. PICK label \in Labels \ {"off", "save"} : pc' = [pc EXCEPT ![t] = label]
      BY <3>1
    <3> QED  BY <3>1, <3>2, <3>3, OthersKeepPools
  <2>2. CASE LeavePool(t)
    <3>1. pc' = [pc EXCEPT ![t] = "save"] /\ active[t] = {}
          /\ UNCHANGED <<run, wave, target, rows, active, results, unsaved, lossy>>
      BY <2>2 DEF LeavePool
    <3> QED  BY <3>1, OthersKeepPools DEF Labels
  <2>3. CASE StartTask(t)
    <3>1. PICK k \in queued[t] : active' = [active EXCEPT ![t] = @ \cup {<<wave[t], k>>}]
      BY <2>3 DEF StartTask
    <3>2. pc[t] = "pool" /\ UNCHANGED <<pc, run, wave, target, rows, results, unsaved, lossy>>
      BY <2>3 DEF StartTask
    <3>3. PoolInStep'
      BY <3>1, <3>2 DEF PoolInStep, Types
    <3>4. ResultsKept'
      BY <3>2 DEF ResultsKept
    <3> QED  BY <3>3, <3>4
  <2>4. CASE EndTask(t)
    <3>1. PICK a \in active[t] :
             /\ active' = [active EXCEPT ![t] = @ \ {a}]
             /\ \/ /\ results' = [results EXCEPT ![t] = @ \cup {a}]
                   /\ unsaved' = [unsaved EXCEPT ![t] = @ \cup {a}]
                \/ UNCHANGED <<results, unsaved>>
      BY <2>4 DEF EndTask
    <3>2. pc[t] = "pool" /\ UNCHANGED <<pc, run, wave, target, rows, lossy>>
      BY <2>4 DEF EndTask
    <3>3. a[1] = wave[t]
      BY DEF PoolInStep
    <3>4. PoolInStep'
      BY <3>1, <3>2 DEF PoolInStep, Types
    <3>5. CASE UNCHANGED <<results, unsaved>>
      BY <3>2, <3>4, <3>5 DEF ResultsKept
    <3>6. CASE /\ results' = [results EXCEPT ![t] = @ \cup {a}]
               /\ unsaved' = [unsaved EXCEPT ![t] = @ \cup {a}]
      <4>1. ASSUME NEW u \in Threads
            PROVE  /\ unsaved'[u] = IF u = t THEN unsaved[u] \cup {a} ELSE unsaved[u]
                   /\ results'[u] = IF u = t THEN results[u] \cup {a} ELSE results[u]
        BY <3>6 DEF Types
      <4>2. ResultsKept'
        <5> SUFFICES ASSUME NEW u \in Threads
                     PROVE  /\ pc[u] \notin {"pool", "save"} => unsaved'[u] = {}
                            /\ pc[u] = "off" => results'[u] = {}
                            /\ \A b \in unsaved'[u] : b[1] = wave[u]
                            /\ u \notin lossy => \A b \in results'[u] :
                                  b \in unsaved'[u] \/ <<run[u], b[1], b[2]>> \in rows[target[u]]
          BY <3>2 DEF ResultsKept
        <5>1. CASE u # t
          <6>1. unsaved'[u] = unsaved[u] /\ results'[u] = results[u]
            BY <4>1, <5>1
          <6> QED  BY <6>1 DEF ResultsKept
        <5>2. CASE u = t
          <6>1. unsaved'[u] = unsaved[u] \cup {a} /\ results'[u] = results[u] \cup {a}
            BY <4>1, <5>2
          <6>2. \A b \in unsaved[u] : b[1] = wave[u]
            BY DEF ResultsKept
          <6>3. u \notin lossy => \A b \in results[u] :
                      b \in unsaved[u] \/ <<run[u], b[1], b[2]>> \in rows[target[u]]
            BY DEF ResultsKept
          <6>4. pc[u] = "pool" /\ a[1] = wave[u]
            BY <3>2, <3>3, <5>2
          <6> QED  BY <6>1, <6>2, <6>3, <6>4
        <5> QED  BY <5>1, <5>2
      <4> QED  BY <3>4, <4>2
    <3> QED  BY <3>1, <3>5, <3>6
  <2>5. CASE SaveRow(t)
    <3>1. PICK a \in unsaved[t] :
             /\ unsaved' = [unsaved EXCEPT ![t] = @ \ {a}]
             /\ rows' = [rows EXCEPT ![target[t]] = @ \cup {<<run[t], a[1], a[2]>>}]
      BY <2>5 DEF SaveRow
    <3>2. pc[t] = "save" /\ UNCHANGED <<pc, run, wave, target, active, results, lossy>>
      BY <2>5 DEF SaveRow
    <3>3. PoolInStep'
      BY <3>2 DEF PoolInStep
    <3>4. \A d \in Directives : rows[d] \subseteq rows'[d]
      BY <3>1 DEF Types
    <3>5. <<run[t], a[1], a[2]>> \in rows'[target[t]]
      BY <3>1 DEF Types
    <3>6. \A u \in Threads : unsaved'[u] = IF u = t THEN unsaved[u] \ {a} ELSE unsaved[u]
      BY <3>1 DEF Types
    <3>7. \A u \in Threads : target[u] \in Directives
      BY DEF Types
    <3>8. ResultsKept'
      <4> SUFFICES ASSUME NEW u \in Threads
                   PROVE  /\ pc[u] \notin {"pool", "save"} => unsaved'[u] = {}
                          /\ pc[u] = "off" => results[u] = {}
                          /\ \A b \in unsaved'[u] : b[1] = wave[u]
                          /\ u \notin lossy => \A b \in results[u] :
                                b \in unsaved'[u] \/ <<run[u], b[1], b[2]>> \in rows'[target[u]]
        BY <3>2 DEF ResultsKept
      <4>1. /\ pc[u] \notin {"pool", "save"} => unsaved'[u] = {}
            /\ pc[u] = "off" => results[u] = {}
            /\ \A b \in unsaved'[u] : b[1] = wave[u]
        <5>1. unsaved'[u] \subseteq unsaved[u]
          BY <3>6
        <5>2. pc[u] \notin {"pool", "save"} => unsaved[u] = {}
          BY DEF ResultsKept
        <5> QED  BY <5>1, <5>2 DEF ResultsKept
      <4>2. ASSUME u \notin lossy, NEW b \in results[u]
            PROVE  b \in unsaved'[u] \/ <<run[u], b[1], b[2]>> \in rows'[target[u]]
        <5>1. CASE <<run[u], b[1], b[2]>> \in rows[target[u]]
          BY <3>4, <3>7, <5>1
        <5>2. CASE b \in unsaved[u] /\ ~(u = t /\ b = a)
          BY <3>6, <5>2
        <5>3. CASE u = t /\ b = a
          BY <3>5, <5>3
        <5> QED  BY <4>2, <5>1, <5>2, <5>3 DEF ResultsKept
      <4> QED  BY <4>1, <4>2
    <3> QED  BY <3>3, <3>8
  <2>6. CASE LoseRows(t)
    <3>1. /\ unsaved' = [unsaved EXCEPT ![t] = {}] /\ lossy' = lossy \cup {t}
          /\ UNCHANGED <<pc, run, wave, target, rows, active, results>>
      BY <2>6 DEF LoseRows
    <3> QED  BY <3>1 DEF PoolInStep, ResultsKept, Types
  <2>7. CASE EndWave(t)
    <3>1. /\ pc[t] = "save" /\ unsaved[t] = {} /\ pc' = [pc EXCEPT ![t] = "wave"]
          /\ wave' = [wave EXCEPT ![t] = @ + 1]
          /\ UNCHANGED <<run, target, rows, active, results, unsaved, lossy>>
      BY <2>7 DEF EndWave
    <3>2. active[t] = {}
      BY <3>1 DEF PoolInStep
    <3>3. PoolInStep'
      BY <3>1, <3>2 DEF PoolInStep, Types
    <3>4. ResultsKept'
      BY <3>1 DEF ResultsKept, Types
    <3> QED  BY <3>3, <3>4
  <2>8. CASE End(t)
    <3>1. /\ pc[t] = "end" /\ pc' = [pc EXCEPT ![t] = "off"]
          /\ Forget({t}) /\ UNCHANGED <<target, rows>>
      BY <2>8 DEF End
    <3>2. ASSUME NEW u \in Threads
          PROVE  /\ u = t => active'[u] = {} /\ unsaved'[u] = {} /\ results'[u] = {}
                 /\ u # t => /\ pc'[u] = pc[u] /\ wave'[u] = wave[u] /\ run'[u] = run[u]
                             /\ active'[u] = active[u] /\ results'[u] = results[u]
                             /\ unsaved'[u] = unsaved[u] /\ (u \in lossy' <=> u \in lossy)
      BY <3>1 DEF Forget, Types
    <3>3. PoolInStep'
      BY <3>1, <3>2 DEF PoolInStep
    <3>4. ResultsKept'
      BY <3>1, <3>2 DEF ResultsKept
    <3> QED  BY <3>3, <3>4
  <2> QED  BY <1>5, <2>1, <2>2, <2>3, <2>4, <2>5, <2>6, <2>7, <2>8 DEF Proceed
<1> QED  BY <1>2, <1>3, <1>4, <1>5 DEF Next

\* The pools are in step, and results are kept, in every reachable state.
LEMMA WavesInvariant == Spec => [](Types /\ PoolInStep /\ ResultsKept)
<1>1. Types /\ PoolInStep /\ ResultsKept /\ [Next]_vars
        => Types' /\ PoolInStep' /\ ResultsKept'
  BY NextTypes, NextWaves
<1> QED  BY <1>1, InitTypes, InitWaves, PTL DEF Spec

\* No task runs beside one of another wave of its execution.
THEOREM WavesOrdered == Spec => []WavesInOrder
<1>1. Types /\ PoolInStep => WavesInOrder
  BY DEF PoolInStep, WavesInOrder
<1> QED  BY <1>1, WavesInvariant, PTL

\* The waves that are over are on disk, but for the rows that could not be written.
THEOREM WavesOnDisk == Spec => []WavesRecorded
<1>1. Types /\ ResultsKept => WavesRecorded
  BY DEF Types, ResultsKept, WavesRecorded
<1> QED  BY <1>1, WavesInvariant, PTL

=============================================================================
