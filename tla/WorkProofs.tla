------------------------------ MODULE WorkProofs ------------------------------
(***************************************************************************)
(* The inductive invariants of parts of EmpireWork, proved for each part   *)
(* by itself, with the names it has there.  EmpireWorkProofs puts them     *)
(* together; what a part needs of the constants is assumed by its lemmas.  *)
(***************************************************************************)
EXTENDS Integers, Sequences, FiniteSets, FiniteSetTheorems, WellFoundedInduction, TLAPS

CONSTANTS
    Workers, MaxIterations, MinQuality, Scores,
    Operators, LastVersion, Resting, MaxMigrations,
    Lts, Seasoned, Runners, Scheduler, MaxCycles,
    Proposals, HighRisk, MaxOrders, MaxChanges,
    Orders, Servers, MaxCached,
    Hosts, Lieutenants, MaxRooms, MaxFleet,
    Debaters, MaxRounds, Positions, MaxFinds,
    Threads, Names, Types, Reports, Floor, PruneBelow, DeleteUpTo, Penalty, MaxEntities,
    MaxRelations,
    Deepeners, Pipelines, Subjects, Found, InCluster, MinCluster, MaxDepth, Fresh, Cooldown,
    MaxPasses,
    Readers, MaxFailures

VARIABLES
    pc, job, answers, verdicts, logged, lost, row, copy, importance, counted, overlapped,
    store, versions, built, tool, started, torn,
    backend, rows, cycles, recent, runner, prompts, failed, overlap, cut,
    marked, learned, applied, order, judged, given,
    commands, caches,
    fleet, notes, rooms, minutes, lessons, opened, changed,
    debate, current, sweep, source, left, looking, kept, skipped,
    entities, relations, at, dirty, known,
    zoned, nodes, digger, passes, passed, taken,
    cached, stored, reader, failures

\* Of a set of numbers one is the least.
LEMMA LeastOf ==
    ASSUME NEW S, S \subseteq Nat, S # {}
    PROVE  \E n \in S : \A k \in S : n <= k
<1>1. PICK n \in S : \A k \in S : ~(<<k, n>> \in OpToRel(<, Nat))
  BY Zenon, NatLessThanWellFounded, WFMin
<1>2. \A k \in S : ~(k < n)
  BY Zenon, <1>1 DEF OpToRel
<1>3. QED
  BY <1>2

-----------------------------------------------------------------------------
(* Tasks of one lieutenant.                                                 *)

Tsk == INSTANCE Tasks

Labels == {"plan", "run", "judge", "feedback", "read", "write", "done"}

TaskJobs ==
    [iteration : 1..MaxIterations, text : Tsk!Texts, judged : Tsk!Texts \cup {Tsk!None},
     score : 0..100, hints : BOOLEAN, success : BOOLEAN, cost : Nat]

Judgements == [score : (0..100) \cup {Tsk!None}, hints : BOOLEAN, cost : {0}]

Rows == [completed : Nat, failed : Nat, cost : Nat]

TasksTyped ==
    /\ pc \in [Workers -> Labels] /\ job \in [Workers -> TaskJobs]
    /\ answers \in [Workers -> [Tsk!Texts \cup {Tsk!Plain} -> Tsk!Texts \cup {Tsk!None}]]
    /\ verdicts \in [Workers -> [Tsk!Texts -> Judgements]]
    /\ \A w \in Workers, t \in Tsk!Texts : verdicts[w][t] # Tsk!NoVerdict => verdicts[w][t].score \in 0..100
    /\ logged \in Nat /\ lost \in BOOLEAN /\ row \in Rows /\ copy \in [Workers -> Rows]
    /\ importance \in 10..100 /\ counted \subseteq Workers /\ overlapped \in BOOLEAN

\* Who has succeeded did so at its last verdict, and only the books follow that.
Accepted ==
    \A w \in Workers : job[w].success =>
        /\ pc[w] \in {"feedback", "read", "write", "done"}
        /\ job[w].text # 0 /\ job[w].judged = job[w].text /\ job[w].score >= Tsk!Reduced

\* The log covers what was charged, and the row as it is, or was read, what is counted.
Good(W) == {w \in W : job[w].success}
Bad(W) == {w \in W : ~job[w].success}

Within(r) == r.completed + r.failed <= Cardinality(counted) /\ r.cost <= Cardinality(Tsk!Units(counted))

Exact(r) ==
    /\ r.completed = Cardinality(Good(counted)) /\ r.failed = Cardinality(Bad(counted))
    /\ r.cost = Cardinality(Tsk!Units(counted))

Booked ==
    /\ IsFiniteSet(Tsk!Units(Workers)) /\ (~lost => Cardinality(Tsk!Units(Workers)) <= logged)
    /\ \A w \in counted : pc[w] = "done"
    /\ Within(row) /\ (~overlapped => Exact(row))
    /\ \A w \in Workers : pc[w] = "write" =>
          /\ Within(copy[w])
          /\ ~overlapped => copy[w] = row /\ \A v \in Workers : pc[v] = "write" => v = w

TasksInv == TasksTyped /\ Accepted /\ Booked

\* What the constants of tasks are.
LEMMA TaskNumbers ==
    ASSUME Tsk!TasksAssumption
    PROVE
    /\ MaxIterations \in Nat \ {0} /\ MinQuality \in 1..100 /\ Scores \subseteq 0..100
    /\ IsFiniteSet(Workers)
    /\ Tsk!Texts = 0..MaxIterations /\ Tsk!None = -1 /\ Tsk!Plain = -1
<1>1. Tsk!IsFiniteSet(Workers) = IsFiniteSet(Workers)
  BY DEF Tsk!IsFiniteSet, IsFiniteSet
<1>2. QED
  BY <1>1 DEF Tsk!TasksAssumption, Tsk!Texts, Tsk!None, Tsk!Plain

\* The tasks count as this module does.
LEMMA TasksCount == \A S : Tsk!Cardinality(S) = Cardinality(S)
BY DEF Tsk!Cardinality, Cardinality

\* At first there is nothing in the books.
LEMMA TasksStart ==
    ASSUME Tsk!TasksAssumption, Tsk!Init
    PROVE  TasksInv
<1>1. Tsk!Init
  OBVIOUS
<1>2. 1 \in 1..MaxIterations /\ 0 \in Tsk!Texts /\ 0 \in 0..100 /\ 50 \in 10..100
  BY TaskNumbers
<1>3. Tsk!NewJob \in TaskJobs
  BY <1>2 DEF Tsk!NewJob, TaskJobs
<1>4. /\ Tsk!NoAnswers \in [Tsk!Texts \cup {Tsk!Plain} -> Tsk!Texts \cup {Tsk!None}]
      /\ Tsk!NoVerdict \in Judgements /\ Tsk!NoVerdicts \in [Tsk!Texts -> Judgements]
      /\ \A t \in Tsk!Texts : Tsk!NoVerdicts[t] = Tsk!NoVerdict
  BY DEF Tsk!NoAnswers, Tsk!NoVerdict, Tsk!NoVerdicts, Judgements
<1>5. row = [completed |-> 0, failed |-> 0, cost |-> 0] /\ row \in Rows
  BY <1>1 DEF Tsk!Init, Rows
<1>6. TasksTyped
  <2>1. pc \in [Workers -> Labels] /\ job \in [Workers -> TaskJobs]
    BY <1>1, <1>3 DEF Tsk!Init, Labels
  <2>2. /\ answers \in [Workers -> [Tsk!Texts \cup {Tsk!Plain} -> Tsk!Texts \cup {Tsk!None}]]
        /\ verdicts \in [Workers -> [Tsk!Texts -> Judgements]]
        /\ \A w \in Workers, t \in Tsk!Texts : verdicts[w][t] = Tsk!NoVerdict
    BY <1>1, <1>4 DEF Tsk!Init
  <2>3. logged \in Nat /\ importance \in 10..100 /\ counted \subseteq Workers /\ copy \in [Workers -> Rows]
    BY <1>1, <1>2, <1>5 DEF Tsk!Init
  <2>4. lost \in BOOLEAN /\ overlapped \in BOOLEAN
    BY <1>1, Zenon DEF Tsk!Init
  <2>5. QED
    BY <1>5, <2>1, <2>2, <2>3, <2>4 DEF TasksTyped
<1>7. Accepted
  BY <1>1 DEF Tsk!Init, Tsk!NewJob, Accepted
<1>8. Tsk!Units(Workers) = {} /\ Tsk!Units(counted) = {} /\ counted = {}
  <2>1. \A w \in Workers : 1..job[w].cost = {}
    BY <1>1 DEF Tsk!Init, Tsk!NewJob
  <2>2. counted = {}
    BY <1>1 DEF Tsk!Init
  <2>3. QED
    BY <2>1, <2>2 DEF Tsk!Units
<1>9. Good(counted) = {} /\ Bad(counted) = {}
  BY <1>8 DEF Good, Bad
<1>10. Cardinality({}) = 0 /\ IsFiniteSet({})
  BY FS_EmptySet
<1>11. Within(row) /\ Exact(row)
  BY <1>5, <1>8, <1>9, <1>10 DEF Within, Exact
<1>12. Booked
  BY <1>1, <1>8, <1>10, <1>11 DEF Tsk!Init, Booked
<1>13. QED
  BY <1>6, <1>7, <1>12 DEF TasksInv

\* The units of workers whose costs stay are the same.
LEMMA UnitsStay ==
    ASSUME NEW V, \A w \in V : job'[w].cost = job[w].cost
    PROVE  Tsk!Units(V)' = Tsk!Units(V)
<1>1. \A w \in V : {w} \X (1..job'[w].cost) = {w} \X (1..job[w].cost)
  OBVIOUS
<1>2. UNION {{w} \X (1..job'[w].cost) : w \in V} = UNION {{w} \X (1..job[w].cost) : w \in V}
  BY <1>1
<1>3. QED
  BY <1>2 DEF Tsk!Units

\* The units of V, one by one.
LEMMA UnitOf ==
    ASSUME NEW V
    PROVE  /\ \A u : u \in Tsk!Units(V) <=> \E w \in V : \E i \in 1..job[w].cost : u = <<w, i>>
           /\ \A u : u \in Tsk!Units(V)' <=> \E w \in V : \E i \in 1..job'[w].cost : u = <<w, i>>
<1>1. ASSUME NEW u PROVE u \in Tsk!Units(V) <=> \E w \in V : \E i \in 1..job[w].cost : u = <<w, i>>
  BY DEF Tsk!Units
<1>2. ASSUME NEW u PROVE u \in Tsk!Units(V)' <=> \E w \in V : \E i \in 1..job'[w].cost : u = <<w, i>>
  BY DEF Tsk!Units
<1>3. QED
  BY <1>1, <1>2

\* One element more is one more, or none.
LEMMA OneMoreElement ==
    ASSUME NEW S, IsFiniteSet(S), NEW x
    PROVE  /\ IsFiniteSet(S \cup {x}) /\ Cardinality(S) \in Nat
           /\ Cardinality(S \cup {x}) \in Nat /\ Cardinality(S \cup {x}) <= Cardinality(S) + 1
           /\ x \notin S => Cardinality(S \cup {x}) = Cardinality(S) + 1
<1>1. Cardinality(S) \in Nat
  BY FS_CardinalityType
<1>2. /\ IsFiniteSet(S \cup {x})
      /\ Cardinality(S \cup {x}) = IF x \in S THEN Cardinality(S) ELSE Cardinality(S) + 1
  BY FS_AddElement
<1>3. QED
  BY <1>1, <1>2

\* A charge of one worker is one unit more, or none.
LEMMA OneUnitMore ==
    ASSUME NEW w \in Workers, NEW c \in {0, 1}, job \in [Workers -> TaskJobs],
           job'[w].cost = job[w].cost + c, \A v \in Workers \ {w} : job'[v].cost = job[v].cost,
           IsFiniteSet(Tsk!Units(Workers))
    PROVE  /\ IsFiniteSet(Tsk!Units(Workers)') /\ Cardinality(Tsk!Units(Workers)') \in Nat
           /\ Cardinality(Tsk!Units(Workers)') <= Cardinality(Tsk!Units(Workers)) + c
           /\ Cardinality(Tsk!Units(Workers)) \in Nat
<1>1. PICK n \in Nat : n = job[w].cost
  BY DEF TaskJobs
<1>2. CASE c = 0
  <2>1. \A v \in Workers : job'[v].cost = job[v].cost
    BY <1>1, <1>2
  <2>2. Tsk!Units(Workers)' = Tsk!Units(Workers)
    BY <2>1, UnitsStay
  <2>3. Cardinality(Tsk!Units(Workers)) \in Nat
    BY FS_CardinalityType
  <2>4. QED
    BY <1>2, <2>2, <2>3
<1>3. CASE c = 1
  <2>1. job'[w].cost = n + 1
    BY <1>1, <1>3
  <2>2. ASSUME NEW u, u \in Tsk!Units(Workers)' PROVE u \in Tsk!Units(Workers) \cup {<<w, n + 1>>}
    <3>1. PICK v, i : v \in Workers /\ i \in 1..job'[v].cost /\ u = <<v, i>>
      BY <2>2, UnitOf
    <3>2. CASE v # w
      BY <3>1, <3>2, UnitOf
    <3>3. CASE v = w
      <4>1. i \in 1..n \/ i = n + 1
        BY <2>1, <3>1, <3>3
      <4>2. QED
        BY <1>1, <3>1, <3>3, <4>1, UnitOf
    <3>4. QED
      BY <3>2, <3>3
  <2>3. ASSUME NEW u, u \in Tsk!Units(Workers) \cup {<<w, n + 1>>} PROVE u \in Tsk!Units(Workers)'
    <3>1. CASE u = <<w, n + 1>>
      <4>1. n + 1 \in 1..job'[w].cost
        BY <2>1
      <4>2. QED
        BY <3>1, <4>1, UnitOf
    <3>2. CASE u \in Tsk!Units(Workers)
      <4>1. PICK v, i : v \in Workers /\ i \in 1..job[v].cost /\ u = <<v, i>>
        BY <3>2, UnitOf
      <4>2. CASE v # w
        BY <4>1, <4>2, UnitOf
      <4>3. CASE v = w
        <5>1. i \in 1..job'[v].cost
          BY <1>1, <2>1, <4>1, <4>3
        <5>2. QED
          BY <4>1, <5>1, UnitOf
      <4>4. QED
        BY <4>2, <4>3
    <3>3. QED
      BY <2>3, <3>1, <3>2
  <2>4. Tsk!Units(Workers)' = Tsk!Units(Workers) \cup {<<w, n + 1>>}
    BY <2>2, <2>3
  <2>5. QED
    BY <1>3, <2>4, OneMoreElement
<1>4. QED
  BY <1>2, <1>3

\* Who is counted adds what it cost.
LEMMA OneCountedMore ==
    ASSUME TasksTyped, IsFiniteSet(Tsk!Units(Workers)), NEW V, V \subseteq Workers, NEW w \in Workers \ V
    PROVE  /\ Cardinality(Tsk!Units(V)) \in Nat
           /\ Cardinality(Tsk!Units(V \cup {w})) = Cardinality(Tsk!Units(V)) + job[w].cost
<1>1. PICK n \in Nat : n = job[w].cost
  BY DEF TasksTyped, TaskJobs
<1>2. Tsk!Units(V) \in SUBSET Tsk!Units(Workers)
  BY DEF Tsk!Units
<1>3. IsFiniteSet(Tsk!Units(V))
  BY <1>2, FS_Subset
<1>4. IsFiniteSet({w} \X (1..n)) /\ Cardinality({w} \X (1..n)) = n
  <2>1. IsFiniteSet(1..n) /\ Cardinality(1..n) = n
    BY FS_Interval
  <2>2. IsFiniteSet({w}) /\ Cardinality({w}) = 1
    BY FS_Singleton
  <2>3. /\ IsFiniteSet({w} \X (1..n))
        /\ Cardinality({w} \X (1..n)) = Cardinality({w}) * Cardinality(1..n)
    BY <2>1, <2>2, FS_Product, Zenon
  <2>4. QED
    BY <2>1, <2>2, <2>3
<1>5. Tsk!Units(V \cup {w}) = Tsk!Units(V) \cup ({w} \X (1..n))
  BY <1>1 DEF Tsk!Units
<1>6. Tsk!Units(V) \cap ({w} \X (1..n)) = {}
  BY DEF Tsk!Units
<1>7. Cardinality(Tsk!Units(V)) \in Nat
  BY <1>3, FS_CardinalityType
<1>8. Cardinality(Tsk!Units(V \cup {w})) = Cardinality(Tsk!Units(V)) + n - Cardinality({})
  BY <1>3, <1>4, <1>5, <1>6, FS_Union
<1>9. QED
  BY <1>1, <1>7, <1>8, FS_EmptySet

\* What is said of a row stays true while nobody is counted.
LEMMA RowsStand ==
    ASSUME TasksTyped, UNCHANGED <<row, copy, counted>>,
           \A v \in counted : job'[v] = job[v]
    PROVE  /\ Tsk!Units(counted)' = Tsk!Units(counted)
           /\ Good(counted)' = Good(counted) /\ Bad(counted)' = Bad(counted)
           /\ Within(row)' <=> Within(row)
           /\ Exact(row)' <=> Exact(row)
           /\ \A v \in Workers : Within(copy[v])' <=> Within(copy[v])
<1>1. PICK K : K = counted
  OBVIOUS
<1>2. Tsk!Units(K)' = Tsk!Units(K)
  <2>1. \A w \in K : job'[w].cost = job[w].cost
    BY <1>1
  <2>2. QED
    BY <2>1, UnitsStay
<1>3. Tsk!Units(counted)' = Tsk!Units(counted)
  <2>1. Tsk!Units(counted)' = Tsk!Units(K)'
    BY <1>1 DEF Tsk!Units
  <2>2. QED
    BY <1>1, <1>2, <2>1
<1>4. Good(counted)' = Good(counted) /\ Bad(counted)' = Bad(counted)
  BY DEF Good, Bad
<1>5. QED
  BY <1>3, <1>4 DEF Within, Exact

\* A worker that plans, executes or is judged charges one unit at most, and is not in the
\* books yet.
LEMMA WorkKeeps ==
    ASSUME TasksInv, NEW w \in Workers, pc[w] \in {"plan", "run", "judge"},
           NEW j \in TaskJobs, NEW c \in {0, 1}, NEW label \in {"run", "judge", "feedback"},
           job' = [job EXCEPT ![w] = j], pc' = [pc EXCEPT ![w] = label],
           j.cost = job[w].cost + c, c = 1 => Tsk!Charge, Tsk!Charge \/ Tsk!Free,
           j.success => /\ label = "feedback"
                        /\ j.text # 0 /\ j.judged = j.text /\ j.score >= Tsk!Reduced,
           answers' \in [Workers -> [Tsk!Texts \cup {Tsk!Plain} -> Tsk!Texts \cup {Tsk!None}]],
           verdicts' \in [Workers -> [Tsk!Texts -> Judgements]],
           \A v \in Workers, t \in Tsk!Texts :
              verdicts'[v][t] # Tsk!NoVerdict => verdicts'[v][t].score \in 0..100,
           UNCHANGED <<row, copy, counted, overlapped, importance>>
    PROVE  TasksInv'
<1>1. TasksTyped /\ Accepted /\ Booked
  BY DEF TasksInv
<1>2. /\ job \in [Workers -> TaskJobs] /\ pc \in [Workers -> Labels] /\ logged \in Nat /\ lost \in BOOLEAN
      /\ counted \subseteq Workers
  BY <1>1 DEF TasksTyped
<1>3. job' \in [Workers -> TaskJobs] /\ pc' \in [Workers -> Labels] /\ label \in Labels
  BY <1>2 DEF Labels
<1>4. logged' \in Nat /\ lost' \in BOOLEAN
  <2>1. logged' \in Nat
    BY <1>2 DEF Tsk!Charge, Tsk!Free, Tsk!books
  <2>2. lost' \in BOOLEAN
    BY <1>2, Zenon DEF Tsk!Charge, Tsk!Free, Tsk!books
  <2>3. QED
    BY <2>1, <2>2
<1>5. TasksTyped'
  <2>1. Tsk!NoVerdict' = Tsk!NoVerdict
    BY DEF Tsk!NoVerdict
  <2>2. QED
    BY <1>1, <1>3, <1>4, <2>1 DEF TasksTyped
<1>6. \A v \in Workers \ {w} : job'[v] = job[v] /\ pc'[v] = pc[v]
  BY <1>2
<1>7. job'[w] = j /\ pc'[w] = label
  BY <1>2
<1>8. Accepted'
  <2> SUFFICES ASSUME NEW v \in Workers, job'[v].success
      PROVE  /\ pc'[v] \in {"feedback", "read", "write", "done"}
             /\ job'[v].text # 0 /\ job'[v].judged = job'[v].text /\ job'[v].score >= Tsk!Reduced
    BY DEF Accepted, Tsk!Reduced
  <2>1. CASE v = w
    BY <1>7, <2>1
  <2>2. CASE v # w
    BY <1>1, <1>6, <2>2 DEF Accepted
  <2>3. QED
    BY <2>1, <2>2
<1>9. w \notin counted
  BY <1>1 DEF Booked
<1>10. \A v \in counted : job'[v] = job[v] /\ pc'[v] = pc[v]
  BY <1>2, <1>6, <1>9
<1>11. /\ Within(row)' <=> Within(row)
       /\ Exact(row)' <=> Exact(row)
       /\ \A v \in Workers : Within(copy[v])' <=> Within(copy[v])
  BY <1>1, <1>10, RowsStand
<1>12. IsFiniteSet(Tsk!Units(Workers)') /\ (~lost' => Cardinality(Tsk!Units(Workers)') <= logged')
  <2>1. job'[w].cost = job[w].cost + c /\ \A v \in Workers \ {w} : job'[v].cost = job[v].cost
    BY <1>6, <1>7
  <2>2. IsFiniteSet(Tsk!Units(Workers)) /\ (~lost => Cardinality(Tsk!Units(Workers)) <= logged)
    BY <1>1 DEF Booked
  <2>3. /\ IsFiniteSet(Tsk!Units(Workers)')
        /\ Cardinality(Tsk!Units(Workers)') <= Cardinality(Tsk!Units(Workers)) + c
        /\ Cardinality(Tsk!Units(Workers)) \in Nat /\ Cardinality(Tsk!Units(Workers)') \in Nat
    BY <1>2, <2>1, <2>2, OneUnitMore
  <2>4. PICK x \in Nat, y \in Nat : x = Cardinality(Tsk!Units(Workers)) /\ y = Cardinality(Tsk!Units(Workers)')
                                    /\ y <= x + c /\ (~lost => x <= logged)
    BY <2>2, <2>3
  <2>5. ~lost' => ~lost /\ (logged' = logged + 1 \/ (c = 0 /\ logged' = logged))
    BY DEF Tsk!Charge, Tsk!Free, Tsk!books
  <2>6. ~lost' => y <= logged'
    BY <1>2, <2>4, <2>5
  <2>7. QED
    BY <2>3, <2>4, <2>6
<1>13. \A v \in Workers : pc'[v] = "write" => pc[v] = "write" /\ v # w
  BY <1>6, <1>7
<1>14. Tsk!Units(Workers)' = Tsk!Units(Workers)'
  OBVIOUS
<1>15. Booked'
  <2>1. /\ \A v \in counted : pc[v] = "done"
        /\ Within(row) /\ (~overlapped => Exact(row))
        /\ \A v \in Workers : pc[v] = "write" =>
              /\ Within(copy[v])
              /\ ~overlapped => copy[v] = row /\ \A u \in Workers : pc[u] = "write" => u = v
    BY <1>1 DEF Booked
  <2>2. \A v \in counted' : pc'[v] = "done"
    BY <1>10, <2>1
  <2>3. Within(row)' /\ (~overlapped' => Exact(row)')
    BY <1>11, <2>1
  <2>4. \A v \in Workers : pc'[v] = "write" =>
              /\ Within(copy[v])'
              /\ ~overlapped' => copy'[v] = row' /\ \A u \in Workers : pc'[u] = "write" => u = v
    BY <1>11, <1>13, <2>1
  <2>5. QED
    BY <1>12, <2>2, <2>3, <2>4 DEF Booked
<1>16. QED
  BY <1>5, <1>8, <1>15 DEF TasksInv

\* A plan is charged or not.
LEMMA PlanKeeps == ASSUME Tsk!TasksAssumption, TasksInv, NEW w \in Workers, Tsk!Plan(w) PROVE TasksInv'
<1>1. job \in [Workers -> TaskJobs] /\ job[w] \in TaskJobs /\ TasksTyped /\ Accepted
  BY DEF TasksInv, TasksTyped
<1>2. ~job[w].success
  BY <1>1 DEF Accepted, Tsk!Plan
<1>3. PICK n \in Nat : n = job[w].cost
  BY <1>1 DEF TaskJobs
<1>4. PICK c \in {0, 1} : /\ job' = [job EXCEPT ![w] = [job[w] EXCEPT !.cost = n + c]]
                          /\ c = 1 => Tsk!Charge
                          /\ Tsk!Charge \/ Tsk!Free
  <2>1. CASE Tsk!Free /\ job' = job
    <3>1. [job[w] EXCEPT !.cost = n + 0] = job[w]
      BY <1>1, <1>3 DEF TaskJobs
    <3>2. [job EXCEPT ![w] = [job[w] EXCEPT !.cost = n + 0]] = job
      BY <1>1, <3>1
    <3>3. QED
      BY <2>1, <3>2
  <2>2. CASE Tsk!Charge /\ job' = [job EXCEPT ![w].cost = @ + 1]
    <3>1. job' = [job EXCEPT ![w] = [job[w] EXCEPT !.cost = n + 1]]
      BY <1>1, <1>3, <2>2 DEF TaskJobs
    <3>2. QED
      BY <2>2, <3>1
  <2>3. QED
    BY <2>1, <2>2 DEF Tsk!Plan
<1> DEFINE j == [job[w] EXCEPT !.cost = n + c]
<1>5. /\ j \in TaskJobs /\ j.cost = job[w].cost + c /\ (j.success <=> job[w].success)
      /\ job' = [job EXCEPT ![w] = j]
  BY <1>1, <1>3, <1>4 DEF TaskJobs
<1> HIDE DEF j
<1>6. /\ pc[w] = "plan" /\ pc' = [pc EXCEPT ![w] = "run"]
      /\ UNCHANGED <<answers, verdicts, row, copy, counted, overlapped, importance>>
  BY DEF Tsk!Plan, Tsk!Goto, Tsk!cache, Tsk!stats
<1>7. Tsk!NoVerdict' = Tsk!NoVerdict
  BY DEF Tsk!NoVerdict
<1>8. QED
  BY <1>1, <1>2, <1>4, <1>5, <1>6, <1>7, WorkKeeps DEF TasksTyped

\* A text that is made new, from the cache or empty replaces the old one.
LEMMA RunKeeps == ASSUME Tsk!TasksAssumption, TasksInv, NEW w \in Workers, Tsk!Run(w) PROVE TasksInv'
<1>1. /\ job \in [Workers -> TaskJobs] /\ job[w] \in TaskJobs /\ TasksTyped /\ Accepted
      /\ answers \in [Workers -> [Tsk!Texts \cup {Tsk!Plain} -> Tsk!Texts \cup {Tsk!None}]]
  BY DEF TasksInv, TasksTyped
<1>2. ~job[w].success
  BY <1>1 DEF Accepted, Tsk!Run
<1>3. PICK n \in Nat : n = job[w].cost
  BY <1>1 DEF TaskJobs
<1>4. /\ job[w].iteration \in Tsk!Texts /\ 0 \in Tsk!Texts
      /\ Tsk!Prompt(w) \in Tsk!Texts \cup {Tsk!Plain}
  BY <1>1, TaskNumbers DEF TaskJobs, Tsk!Prompt
<1>5. PICK c \in {0, 1}, t \in Tsk!Texts, m \in Nat :
         /\ job' = [job EXCEPT ![w] = [job[w] EXCEPT !.text = t, !.cost = m]]
         /\ (c = 0 /\ m = n /\ Tsk!Free) \/ (c = 1 /\ m = n + 1 /\ Tsk!Charge)
  <2>1. ASSUME NEW t \in Tsk!Texts, job' = [job EXCEPT ![w].text = t], Tsk!Free
        PROVE  job' = [job EXCEPT ![w] = [job[w] EXCEPT !.text = t, !.cost = n]]
    <3>1. job' = [job EXCEPT ![w] = [job[w] EXCEPT !.text = t]]
      BY <1>1, <2>1
    <3>2. [job[w] EXCEPT !.text = t, !.cost = n] = [job[w] EXCEPT !.text = t]
      BY <1>1, <1>3 DEF TaskJobs
    <3>3. QED
      BY <3>1, <3>2
  <2>2. CASE answers[w][Tsk!Prompt(w)] # Tsk!None /\ Tsk!Free
             /\ job' = [job EXCEPT ![w].text = answers[w][Tsk!Prompt(w)]]
    <3>1. answers[w][Tsk!Prompt(w)] \in Tsk!Texts
      BY <1>1, <1>4, <2>2
    <3>2. job' = [job EXCEPT ![w] = [job[w] EXCEPT !.text = answers[w][Tsk!Prompt(w)], !.cost = n]]
      BY <2>1, <2>2, <3>1
    <3>3. QED
      BY <2>2, <3>1, <3>2
  <2>3. CASE Tsk!Charge /\ job' = [job EXCEPT ![w].text = job[w].iteration, ![w].cost = @ + 1]
    <3>1. n + 1 \in Nat /\ job[w].cost + 1 = n + 1
      BY <1>3
    <3>2. job' = [job EXCEPT ![w] = [job[w] EXCEPT !.text = job[w].iteration, !.cost = n + 1]]
      BY <1>1, <1>3, <2>3 DEF TaskJobs
    <3>3. QED
      BY <1>4, <2>3, <3>1, <3>2
  <2>4. CASE Tsk!Free /\ job' = [job EXCEPT ![w].text = 0]
    <3>1. job' = [job EXCEPT ![w] = [job[w] EXCEPT !.text = 0, !.cost = n]]
      BY <1>4, <2>1, <2>4
    <3>2. QED
      BY <1>4, <2>4, <3>1
  <2>5. QED
    BY <2>2, <2>3, <2>4 DEF Tsk!Run
<1> DEFINE j == [job[w] EXCEPT !.text = t, !.cost = m]
<1>6. /\ j \in TaskJobs /\ j.cost = job[w].cost + c /\ (j.success <=> job[w].success)
      /\ job' = [job EXCEPT ![w] = j]
  <2>1. j \in TaskJobs /\ j.cost = m
    BY <1>1, <1>5 DEF TaskJobs
  <2>2. j.success = job[w].success
    BY <1>1 DEF TaskJobs
  <2>3. QED
    BY <1>3, <1>5, <2>1, <2>2
<1> HIDE DEF j
<1>7. /\ pc[w] = "run" /\ pc' = [pc EXCEPT ![w] = "judge"] /\ verdicts' = verdicts
      /\ UNCHANGED <<row, copy, counted, overlapped, importance>>
  BY DEF Tsk!Run, Tsk!Goto, Tsk!stats
<1>8. answers' \in [Workers -> [Tsk!Texts \cup {Tsk!Plain} -> Tsk!Texts \cup {Tsk!None}]]
  <2>1. CASE answers' = answers
    BY <1>1, <2>1
  <2>2. CASE answers' = [answers EXCEPT ![w][Tsk!Prompt(w)] = job[w].iteration]
    <3>1. answers[w] \in [Tsk!Texts \cup {Tsk!Plain} -> Tsk!Texts \cup {Tsk!None}]
      BY <1>1
    <3>2. [answers[w] EXCEPT ![Tsk!Prompt(w)] = job[w].iteration]
             \in [Tsk!Texts \cup {Tsk!Plain} -> Tsk!Texts \cup {Tsk!None}]
      BY <1>4, <3>1
    <3>3. answers' = [answers EXCEPT ![w] = [answers[w] EXCEPT ![Tsk!Prompt(w)] = job[w].iteration]]
      BY <1>1, <2>2
    <3>4. QED
      BY <1>1, <3>2, <3>3
  <2>3. QED
    BY <2>1, <2>2 DEF Tsk!Run
<1>9. Tsk!NoVerdict' = Tsk!NoVerdict
  BY DEF Tsk!NoVerdict
<1>10. (c = 1 => Tsk!Charge) /\ (Tsk!Charge \/ Tsk!Free)
  BY <1>5
<1>11. QED
  BY <1>1, <1>2, <1>6, <1>7, <1>8, <1>9, <1>10, WorkKeeps DEF TasksTyped

\* A verdict ends the loop or has the text executed again; an empty text is not accepted.
LEMMA JudgeKeeps ==
    ASSUME Tsk!TasksAssumption, TasksInv, NEW w \in Workers, pc[w] = "judge",
           NEW v, NEW memos, memos \subseteq BOOLEAN,
           v.score \in 0..100, v.hints \in BOOLEAN, v.cost \in {0, 1}, v = Tsk!Verdict(v.score, v.hints, v.cost),
           job[w].text = 0 => v.score = 0,
           v.cost = 1 => Tsk!Charge, Tsk!Charge \/ Tsk!Free,
           Tsk!Judge(w, v, memos),
           UNCHANGED <<row, copy, counted, overlapped, importance>>
    PROVE  TasksInv'
<1>1. /\ job \in [Workers -> TaskJobs] /\ job[w] \in TaskJobs /\ TasksTyped
      /\ answers \in [Workers -> [Tsk!Texts \cup {Tsk!Plain} -> Tsk!Texts \cup {Tsk!None}]]
      /\ verdicts \in [Workers -> [Tsk!Texts -> Judgements]]
      /\ \A u \in Workers, x \in Tsk!Texts : verdicts[u][x] # Tsk!NoVerdict => verdicts[u][x].score \in 0..100
  BY DEF TasksInv, TasksTyped
<1>2. PICK n \in Nat, c \in {0, 1}, s \in 0..100, t \in Tsk!Texts, i \in 1..MaxIterations :
         n = job[w].cost /\ c = v.cost /\ s = v.score /\ t = job[w].text /\ i = job[w].iteration
  <2>1. job[w].cost \in Nat /\ job[w].text \in Tsk!Texts /\ job[w].iteration \in 1..MaxIterations
    BY <1>1 DEF TaskJobs
  <2>2. QED
    BY <2>1
<1>10. PICK m \in Nat : m = n + c
  BY <1>2
<1> DEFINE seen == [job[w] EXCEPT !.judged = t, !.score = s, !.hints = v.hints, !.cost = m]
<1>3. /\ seen \in TaskJobs /\ seen.cost = m /\ seen.text = t /\ seen.judged = t
      /\ seen.score = s /\ seen.iteration = i
  BY <1>1, <1>2 DEF TaskJobs
<1>4. seen = [job[w] EXCEPT !.judged = job[w].text, !.score = v.score, !.hints = v.hints,
                            !.cost = job[w].cost + v.cost]
  BY <1>2, <1>10
<1>5. (seen.success <=> job[w].success) /\ (pc[w] = "judge" => ~job[w].success)
  BY <1>1 DEF TasksInv, Accepted, TaskJobs
<1> HIDE DEF seen
<1>6. \/ /\ \E b \in BOOLEAN : /\ b => s > 0 /\ s >= Tsk!Reduced
                               /\ job' = [job EXCEPT ![w] = [seen EXCEPT !.hints = FALSE, !.iteration = MaxIterations,
                                                                         !.success = b]]
         /\ answers' = [answers EXCEPT ![w] = Tsk!NoAnswers]
         /\ verdicts' = [verdicts EXCEPT ![w] = Tsk!NoVerdicts]
         /\ pc' = [pc EXCEPT ![w] = "feedback"]
      \/ /\ i < MaxIterations
         /\ job' = [job EXCEPT ![w] = [seen EXCEPT !.iteration = i + 1]]
         /\ \/ verdicts' = verdicts
            \/ verdicts' = [verdicts EXCEPT ![w][t] = [v EXCEPT !.cost = 0]]
         /\ pc' = [pc EXCEPT ![w] = "run"] /\ answers' = answers
  <2>1. CASE /\ job' = [job EXCEPT ![w] = [seen EXCEPT !.hints = FALSE, !.iteration = MaxIterations,
                                                   !.success = v.score > 0 /\ v.score >= Tsk!Reduced]]
             /\ answers' = [answers EXCEPT ![w] = Tsk!NoAnswers]
             /\ verdicts' = [verdicts EXCEPT ![w] = Tsk!NoVerdicts]
             /\ pc' = [pc EXCEPT ![w] = "feedback"]
    <3>1. (v.score > 0 /\ v.score >= Tsk!Reduced) \in BOOLEAN
      OBVIOUS
    <3>2. PICK b \in BOOLEAN : b = (v.score > 0 /\ v.score >= Tsk!Reduced)
      BY <3>1
    <3>3. QED
      BY <1>2, <2>1, <3>2
  <2>2. CASE /\ ~(seen.iteration = MaxIterations)
             /\ job' = [job EXCEPT ![w] = [seen EXCEPT !.iteration = seen.iteration + 1]]
             /\ \E memo \in memos :
                   verdicts' = IF memo THEN [verdicts EXCEPT ![w][job[w].text] = [v EXCEPT !.cost = 0]]
                               ELSE verdicts
             /\ pc' = [pc EXCEPT ![w] = "run"] /\ answers' = answers
    <3>1. i < MaxIterations
      BY <1>2, <1>3, <2>2, TaskNumbers
    <3>2. QED
      BY <1>2, <1>3, <2>2, <3>1
  <2>3. QED
    BY <1>4, <2>1, <2>2 DEF Tsk!Judge, Tsk!Goto
<1>7. CASE /\ \E b \in BOOLEAN : /\ b => s > 0 /\ s >= Tsk!Reduced
                               /\ job' = [job EXCEPT ![w] = [seen EXCEPT !.hints = FALSE, !.iteration = MaxIterations,
                                                                         !.success = b]]
           /\ answers' = [answers EXCEPT ![w] = Tsk!NoAnswers]
           /\ verdicts' = [verdicts EXCEPT ![w] = Tsk!NoVerdicts]
           /\ pc' = [pc EXCEPT ![w] = "feedback"]
  <2>1. PICK b \in BOOLEAN : /\ b => s > 0 /\ s >= Tsk!Reduced
                             /\ job' = [job EXCEPT ![w] = [seen EXCEPT !.hints = FALSE, !.iteration = MaxIterations,
                                                                       !.success = b]]
    BY <1>7
  <2> DEFINE j == [seen EXCEPT !.hints = FALSE, !.iteration = MaxIterations, !.success = b]
  <2>2. /\ j \in TaskJobs /\ j.cost = m /\ j.text = t /\ j.judged = t /\ j.score = s
        /\ job' = [job EXCEPT ![w] = j]
    <3>1. MaxIterations \in 1..MaxIterations /\ FALSE \in BOOLEAN
      BY TaskNumbers
    <3>2. QED
      BY <1>3, <2>1, <3>1 DEF TaskJobs
  <2>3. j.success <=> b
    BY <1>3 DEF TaskJobs
  <2> HIDE DEF j
  <2>4. j.success => j.text # 0 /\ j.judged = j.text /\ j.score >= Tsk!Reduced
    BY <1>2, <2>1, <2>2, <2>3
  <2>5. answers' \in [Workers -> [Tsk!Texts \cup {Tsk!Plain} -> Tsk!Texts \cup {Tsk!None}]]
    <3>1. Tsk!NoAnswers \in [Tsk!Texts \cup {Tsk!Plain} -> Tsk!Texts \cup {Tsk!None}]
      BY DEF Tsk!NoAnswers
    <3>2. QED
      BY <1>1, <1>7, <3>1
  <2>6. Tsk!NoVerdicts \in [Tsk!Texts -> Judgements] /\ \A x \in Tsk!Texts : Tsk!NoVerdicts[x] = Tsk!NoVerdict
    BY DEF Tsk!NoVerdicts, Tsk!NoVerdict, Judgements
  <2>7. /\ verdicts' \in [Workers -> [Tsk!Texts -> Judgements]]
        /\ \A u \in Workers, x \in Tsk!Texts : verdicts'[u][x] # Tsk!NoVerdict => verdicts'[u][x].score \in 0..100
    BY <1>1, <1>7, <2>6
  <2>8. QED
    BY <1>2, <1>10, <1>7, <2>2, <2>4, <2>5, <2>7, WorkKeeps
<1>8. CASE /\ i < MaxIterations
           /\ job' = [job EXCEPT ![w] = [seen EXCEPT !.iteration = i + 1]]
           /\ \/ verdicts' = verdicts
              \/ verdicts' = [verdicts EXCEPT ![w][t] = [v EXCEPT !.cost = 0]]
           /\ pc' = [pc EXCEPT ![w] = "run"] /\ answers' = answers
  <2> DEFINE j == [seen EXCEPT !.iteration = i + 1]
  <2>1. i + 1 \in 1..MaxIterations
    BY <1>8, TaskNumbers
  <2>2. /\ j \in TaskJobs /\ j.cost = m /\ (j.success <=> seen.success)
        /\ job' = [job EXCEPT ![w] = j]
    BY <1>3, <1>8, <2>1 DEF TaskJobs
  <2> HIDE DEF j
  <2>3. /\ verdicts' \in [Workers -> [Tsk!Texts -> Judgements]]
        /\ \A u \in Workers, x \in Tsk!Texts : verdicts'[u][x] # Tsk!NoVerdict => verdicts'[u][x].score \in 0..100
    <3>1. CASE verdicts' = verdicts
      BY <1>1, <3>1
    <3>2. CASE verdicts' = [verdicts EXCEPT ![w][t] = [v EXCEPT !.cost = 0]]
      <4> DEFINE e == [v EXCEPT !.cost = 0]
                 f == [verdicts[w] EXCEPT ![t] = e]
      <4>1. e \in Judgements /\ e.score = s
        <5>1. v = [score |-> s, hints |-> v.hints, cost |-> c]
          BY <1>2 DEF Tsk!Verdict
        <5>2. e = [score |-> s, hints |-> v.hints, cost |-> 0]
          BY <5>1
        <5>3. QED
          BY <5>2 DEF Judgements
      <4> HIDE DEF e
      <4>2. f \in [Tsk!Texts -> Judgements] /\ f[t] = e /\ \A x \in Tsk!Texts \ {t} : f[x] = verdicts[w][x]
        BY <1>1, <4>1
      <4>3. verdicts' = [verdicts EXCEPT ![w] = f]
        BY <1>1, <3>2 DEF e
      <4> HIDE DEF f
      <4>4. verdicts'[w] = f /\ \A u \in Workers \ {w} : verdicts'[u] = verdicts[u]
        BY <1>1, <4>3
      <4>5. verdicts' \in [Workers -> [Tsk!Texts -> Judgements]]
        BY <1>1, <4>2, <4>3
      <4>6. ASSUME NEW u \in Workers, NEW x \in Tsk!Texts, verdicts'[u][x] # Tsk!NoVerdict
            PROVE  verdicts'[u][x].score \in 0..100
        <5>1. CASE u = w /\ x = t
          BY <4>1, <4>2, <4>4, <5>1
        <5>2. CASE u = w /\ x # t
          BY <1>1, <4>2, <4>4, <4>6, <5>2
        <5>3. CASE u # w
          BY <1>1, <4>4, <4>6, <5>3
        <5>4. QED
          BY <5>1, <5>2, <5>3
      <4>7. QED
        BY <4>5, <4>6
    <3>3. QED
      BY <1>8, <3>1, <3>2
  <2>4. ~j.success
    BY <1>5, <2>2
  <2>5. QED
    BY <1>1, <1>2, <1>10, <1>8, <2>2, <2>3, <2>4, WorkKeeps
<1>9. QED
  BY <1>6, <1>7, <1>8

\* A verdict comes from the cache or from the model, or is given without asking it.
LEMMA CriticKeeps == ASSUME Tsk!TasksAssumption, TasksInv, NEW w \in Workers, Tsk!Critic(w) PROVE TasksInv'
<1>1. /\ verdicts \in [Workers -> [Tsk!Texts -> Judgements]] /\ job[w] \in TaskJobs
      /\ \A t \in Tsk!Texts : verdicts[w][t] # Tsk!NoVerdict => verdicts[w][t].score \in 0..100
  BY DEF TasksInv, TasksTyped
<1>2. pc[w] = "judge" /\ UNCHANGED <<row, copy, counted, overlapped, importance>>
  BY DEF Tsk!Critic, Tsk!stats
<1>3. job[w].text \in Tsk!Texts
  BY <1>1 DEF TaskJobs
<1>4. {FALSE} \subseteq BOOLEAN /\ BOOLEAN \subseteq BOOLEAN
  OBVIOUS
<1>5. ASSUME NEW s \in 0..100, NEW h \in BOOLEAN, NEW c \in {0, 1}
      PROVE  /\ Tsk!Verdict(s, h, c).score \in 0..100 /\ Tsk!Verdict(s, h, c).hints \in BOOLEAN
             /\ Tsk!Verdict(s, h, c).cost \in {0, 1} /\ Tsk!Verdict(s, h, c).score = s
             /\ Tsk!Verdict(s, h, c).cost = c
             /\ Tsk!Verdict(s, h, c) = Tsk!Verdict(Tsk!Verdict(s, h, c).score, Tsk!Verdict(s, h, c).hints,
                                                   Tsk!Verdict(s, h, c).cost)
  BY DEF Tsk!Verdict
<1>6. 0 \in 0..100 /\ 40 \in 0..100 /\ 50 \in 0..100
  OBVIOUS
<1>7. CASE job[w].text = 0 /\ Tsk!Judge(w, Tsk!Verdict(0, TRUE, 0), {FALSE}) /\ Tsk!Free
  <2> DEFINE v == Tsk!Verdict(0, TRUE, 0)
  <2>1. /\ v.score \in 0..100 /\ v.hints \in BOOLEAN /\ v.cost \in {0, 1} /\ v.score = 0 /\ v.cost = 0
        /\ v = Tsk!Verdict(v.score, v.hints, v.cost)
    BY DEF Tsk!Verdict
  <2>0. Tsk!Judge(w, v, {FALSE})
    BY <1>7
  <2> HIDE DEF v
  <2>2. ~(v.cost = 1)
    BY <2>1
  <2>3. QED
    BY <1>2, <1>4, <1>7, <2>0, <2>1, <2>2, JudgeKeeps
<1>8. CASE /\ job[w].text # 0 /\ verdicts[w][job[w].text] # Tsk!NoVerdict
           /\ Tsk!Judge(w, verdicts[w][job[w].text], {FALSE}) /\ Tsk!Free
  <2>1. PICK v : v = verdicts[w][job[w].text]
    OBVIOUS
  <2>2. /\ v \in Judgements /\ v.score \in 0..100
    BY <1>1, <1>3, <1>8, <2>1
  <2>3. v.hints \in BOOLEAN /\ v.cost = 0 /\ v = Tsk!Verdict(v.score, v.hints, v.cost)
    BY <2>2 DEF Judgements, Tsk!Verdict
  <2>4. ~(v.cost = 1) /\ v.cost \in {0, 1} /\ ~(job[w].text = 0)
    BY <1>8, <2>3
  <2>5. Tsk!Judge(w, v, {FALSE})
    BY <1>8, <2>1
  <2>6. QED
    BY <1>2, <1>4, <1>8, <2>2, <2>3, <2>4, <2>5, JudgeKeeps
<1>9. ASSUME NEW v \in Tsk!NewVerdicts, job[w].text # 0, Tsk!Judge(w, v, BOOLEAN), Tsk!Charge
      PROVE  TasksInv'
  <2>1. \E s \in 0..100, h \in BOOLEAN, c \in {0, 1} : v = Tsk!Verdict(s, h, c)
    <3>1. CASE \E s \in Scores : \E h \in BOOLEAN : v = Tsk!Verdict(s, h, 1)
      BY <3>1, TaskNumbers
    <3>2. CASE v = Tsk!Verdict(50, FALSE, 1)
      BY <1>6, <3>2
    <3>3. CASE v = Tsk!Verdict(40, FALSE, 0)
      BY <1>6, <3>3
    <3> DEFINE read == {Tsk!Verdict(s, h, 1) : s \in Scores, h \in BOOLEAN}
    <3>4. \/ v \in read
          \/ v = Tsk!Verdict(50, FALSE, 1)
          \/ v = Tsk!Verdict(40, FALSE, 0)
      BY <1>9 DEF Tsk!NewVerdicts, Tsk!Verdict
    <3>5. v \in read
          => \E s \in Scores : \E h \in BOOLEAN : v = Tsk!Verdict(s, h, 1)
      BY SMT
    <3> HIDE DEF read
    <3>6. QED
      BY <3>1, <3>2, <3>3, <3>4, <3>5
  <2>2. PICK s \in 0..100, h \in BOOLEAN, c \in {0, 1} : v = Tsk!Verdict(s, h, c)
    BY <2>1
  <2>3. /\ v.score \in 0..100 /\ v.hints \in BOOLEAN /\ v.cost \in {0, 1}
        /\ v = Tsk!Verdict(v.score, v.hints, v.cost)
    <3>1. v.score = s /\ v.hints = h /\ v.cost = c
      BY <2>2 DEF Tsk!Verdict
    <3>2. QED
      BY <2>2, <3>1, Zenon
  <2>4. QED
    BY <1>2, <1>4, <1>9, <2>3, JudgeKeeps
<1>10. CASE job[w].text # 0 /\ Tsk!Judge(w, Tsk!Verdict(40, FALSE, 0), {FALSE}) /\ Tsk!Free
  <2> DEFINE v == Tsk!Verdict(40, FALSE, 0)
  <2>1. /\ v.score \in 0..100 /\ v.hints \in BOOLEAN /\ v.cost \in {0, 1} /\ v.cost = 0
        /\ v = Tsk!Verdict(v.score, v.hints, v.cost) /\ Tsk!Judge(w, v, {FALSE})
    BY <1>5, <1>6, <1>10
  <2> HIDE DEF v
  <2>2. ~(v.cost = 1)
    BY <2>1
  <2>3. QED
    BY <1>2, <1>4, <1>10, <2>1, <2>2, JudgeKeeps
<1>11. QED
  BY <1>7, <1>8, <1>9, <1>10 DEF Tsk!Critic

\* A step to a label that is not of the work, on which nothing but the worker's place and a
\* memory's importance changes.
LEMMA PlaceKeeps ==
    ASSUME TasksInv, NEW w \in Workers, pc[w] \in {"feedback", "write"}, NEW label \in {"read", "done"},
           pc' = [pc EXCEPT ![w] = label], importance' \in 10..100,
           UNCHANGED <<job, answers, verdicts, logged, lost, row, copy, counted, overlapped>>
    PROVE  TasksInv'
<1>1. TasksTyped /\ Accepted /\ Booked
  BY DEF TasksInv
<1>2. pc \in [Workers -> Labels] /\ counted \subseteq Workers
  BY <1>1 DEF TasksTyped
<1>3. pc' \in [Workers -> Labels] /\ pc'[w] = label /\ \A v \in Workers \ {w} : pc'[v] = pc[v]
  BY <1>2 DEF Labels
<1>4. Tsk!NoVerdict' = Tsk!NoVerdict
  BY DEF Tsk!NoVerdict
<1>5. TasksTyped'
  BY <1>1, <1>3, <1>4 DEF TasksTyped
<1>6. Accepted'
  <2> SUFFICES ASSUME NEW v \in Workers, job[v].success
      PROVE  /\ pc'[v] \in {"feedback", "read", "write", "done"}
             /\ job[v].text # 0 /\ job[v].judged = job[v].text /\ job[v].score >= Tsk!Reduced
    BY DEF Accepted, Tsk!Reduced
  <2>1. CASE v = w
    BY <1>1, <1>3, <2>1 DEF Accepted
  <2>2. CASE v # w
    BY <1>1, <1>3, <2>2 DEF Accepted
  <2>3. QED
    BY <2>1, <2>2
<1>7. w \notin counted
  BY <1>1 DEF Booked
<1>8. /\ Within(row)' <=> Within(row)
      /\ Exact(row)' <=> Exact(row)
      /\ \A v \in Workers : Within(copy[v])' <=> Within(copy[v])
  BY <1>1, RowsStand
<1>9. Tsk!Units(Workers)' = Tsk!Units(Workers)
  BY UnitsStay
<1>10. \A v \in Workers : pc'[v] = "write" => pc[v] = "write"
  BY <1>3
<1>11. Booked'
  <2>1. /\ IsFiniteSet(Tsk!Units(Workers)) /\ (~lost => Cardinality(Tsk!Units(Workers)) <= logged)
        /\ \A v \in counted : pc[v] = "done"
        /\ Within(row) /\ (~overlapped => Exact(row))
        /\ \A v \in Workers : pc[v] = "write" =>
              /\ Within(copy[v])
              /\ ~overlapped => copy[v] = row /\ \A u \in Workers : pc[u] = "write" => u = v
    BY <1>1 DEF Booked
  <2>2. IsFiniteSet(Tsk!Units(Workers)') /\ (~lost' => Cardinality(Tsk!Units(Workers)') <= logged')
    BY <1>9, <2>1
  <2>3. \A v \in counted' : pc'[v] = "done"
    BY <1>2, <1>3, <1>7, <2>1
  <2>4. Within(row)' /\ (~overlapped' => Exact(row)')
    BY <1>8, <2>1
  <2>5. \A v \in Workers : pc'[v] = "write" =>
              /\ Within(copy[v])'
              /\ ~overlapped' => copy'[v] = row' /\ \A u \in Workers : pc'[u] = "write" => u = v
    BY <1>8, <1>10, <2>1
  <2>6. QED
    BY <2>2, <2>3, <2>4, <2>5 DEF Booked
<1>12. QED
  BY <1>5, <1>6, <1>11 DEF TasksInv

\* The importance of a memory stays within its bounds.
LEMMA FeedbackKeeps == ASSUME TasksInv, NEW w \in Workers, Tsk!Feedback(w) PROVE TasksInv'
<1>1. importance \in 10..100
  BY DEF TasksInv, TasksTyped
<1>2. PICK b \in {-3, 0, 2, 5} : b = Tsk!Boost(job[w])
  BY DEF Tsk!Boost
<1>3. Tsk!Clamp(importance + b) \in 10..100
  BY <1>1, <1>2 DEF Tsk!Clamp
<1>4. importance' \in 10..100
  BY <1>1, <1>2, <1>3 DEF Tsk!Feedback
<1>5. /\ pc[w] = "feedback" /\ pc' = [pc EXCEPT ![w] = "read"]
      /\ UNCHANGED <<job, answers, verdicts, logged, lost, row, copy, counted, overlapped>>
  BY DEF Tsk!Feedback, Tsk!Goto, Tsk!cache, Tsk!books, Tsk!stats
<1>6. QED
  BY <1>4, <1>5, PlaceKeeps

\* What is read is the row as it is, and says whether another update is under way.
LEMMA ReadRowKeeps == ASSUME TasksInv, NEW w \in Workers, Tsk!ReadRow(w) PROVE TasksInv'
<1>1. TasksTyped /\ Accepted /\ Booked
  BY DEF TasksInv
<1>2. /\ pc \in [Workers -> Labels] /\ counted \subseteq Workers /\ row \in Rows
      /\ copy \in [Workers -> Rows] /\ overlapped \in BOOLEAN
  BY <1>1 DEF TasksTyped
<1>3. /\ pc[w] = "read" /\ pc' = [pc EXCEPT ![w] = "write"] /\ copy' = [copy EXCEPT ![w] = row]
      /\ overlapped' = (overlapped \/ \E v \in Workers : pc[v] = "write")
      /\ UNCHANGED <<job, answers, verdicts, logged, lost, row, counted, importance>>
  BY DEF Tsk!ReadRow, Tsk!Goto, Tsk!cache, Tsk!books
<1>4. pc' \in [Workers -> Labels] /\ pc'[w] = "write" /\ \A v \in Workers \ {w} : pc'[v] = pc[v]
  BY <1>2, <1>3 DEF Labels
<1>5. copy' \in [Workers -> Rows] /\ copy'[w] = row /\ \A v \in Workers \ {w} : copy'[v] = copy[v]
  BY <1>2, <1>3
<1>6. overlapped' \in BOOLEAN
  BY <1>3, Zenon
<1>7. Tsk!NoVerdict' = Tsk!NoVerdict
  BY DEF Tsk!NoVerdict
<1>8. TasksTyped'
  BY <1>1, <1>3, <1>4, <1>5, <1>6, <1>7 DEF TasksTyped
<1>9. Accepted'
  <2> SUFFICES ASSUME NEW v \in Workers, job'[v].success
      PROVE  /\ pc'[v] \in {"feedback", "read", "write", "done"}
             /\ job'[v].text # 0 /\ job'[v].judged = job'[v].text /\ job'[v].score >= Tsk!Reduced
    BY DEF Accepted, Tsk!Reduced
  <2>1. CASE v = w
    BY <1>1, <1>3, <1>4, <2>1 DEF Accepted
  <2>2. CASE v # w
    BY <1>1, <1>3, <1>4, <2>2 DEF Accepted
  <2>3. QED
    BY <2>1, <2>2
<1>10. w \notin counted
  BY <1>1, <1>3 DEF Booked
<1>11. /\ Tsk!Units(counted)' = Tsk!Units(counted) /\ Tsk!Units(Workers)' = Tsk!Units(Workers)
       /\ Good(counted)' = Good(counted) /\ Bad(counted)' = Bad(counted)
  BY <1>3 DEF Tsk!Units, Good, Bad
<1>12. Booked'
  <2>1. /\ IsFiniteSet(Tsk!Units(Workers)) /\ (~lost => Cardinality(Tsk!Units(Workers)) <= logged)
        /\ \A v \in counted : pc[v] = "done"
        /\ Within(row) /\ (~overlapped => Exact(row))
        /\ \A v \in Workers : pc[v] = "write" =>
              /\ Within(copy[v])
              /\ ~overlapped => copy[v] = row /\ \A u \in Workers : pc[u] = "write" => u = v
    BY <1>1 DEF Booked
  <2>2. IsFiniteSet(Tsk!Units(Workers)') /\ (~lost' => Cardinality(Tsk!Units(Workers)') <= logged')
    BY <1>3, <1>11, <2>1
  <2>3. \A v \in counted' : pc'[v] = "done"
    BY <1>2, <1>3, <1>4, <1>10, <2>1
  <2>4. ~overlapped' => ~overlapped /\ \A v \in Workers : pc[v] # "write"
    BY <1>3
  <2>5. Within(row)' /\ (~overlapped' => Exact(row)')
    BY <1>3, <1>11, <2>1, <2>4 DEF Within, Exact
  <2>6. ASSUME NEW v \in Workers, pc'[v] = "write"
        PROVE  /\ Within(copy[v])'
               /\ ~overlapped' => copy'[v] = row' /\ \A u \in Workers : pc'[u] = "write" => u = v
    <3>1. CASE v = w
      <4>1. Within(copy[v])'
        BY <1>3, <1>5, <1>11, <2>1, <3>1 DEF Within
      <4>2. ~overlapped' => copy'[v] = row' /\ \A u \in Workers : pc'[u] = "write" => u = v
        BY <1>3, <1>4, <1>5, <2>4, <3>1
      <4>3. QED
        BY <4>1, <4>2
    <3>2. CASE v # w
      <4>1. pc[v] = "write" /\ copy'[v] = copy[v] /\ overlapped'
        BY <1>3, <1>4, <1>5, <2>6, <3>2
      <4>2. Within(copy[v])'
        BY <1>3, <1>11, <2>1, <4>1 DEF Within
      <4>3. QED
        BY <4>1, <4>2
    <3>3. QED
      BY <3>1, <3>2
  <2>7. QED
    BY <2>2, <2>3, <2>5, <2>6 DEF Booked
<1>13. QED
  BY <1>8, <1>9, <1>12 DEF TasksInv

\* What was read is written with the task added, or nothing is.
LEMMA WriteRowKeeps == ASSUME Tsk!TasksAssumption, TasksInv, NEW w \in Workers, Tsk!WriteRow(w) PROVE TasksInv'
<1>1. TasksTyped /\ Accepted /\ Booked
  BY DEF TasksInv
<1>2. /\ pc \in [Workers -> Labels] /\ counted \subseteq Workers /\ row \in Rows
      /\ copy \in [Workers -> Rows] /\ job \in [Workers -> TaskJobs] /\ importance \in 10..100
  BY <1>1 DEF TasksTyped
<1>3. /\ pc[w] = "write" /\ pc' = [pc EXCEPT ![w] = "done"]
      /\ UNCHANGED <<job, answers, verdicts, logged, lost, copy, overlapped, importance>>
  BY DEF Tsk!WriteRow, Tsk!Goto, Tsk!cache, Tsk!books
<1>4. CASE UNCHANGED <<row, counted>>
  BY <1>2, <1>3, <1>4, PlaceKeeps
<1>5. CASE row' = Tsk!Updated(copy[w], job[w]) /\ counted' = counted \cup {w}
  <2>1. pc' \in [Workers -> Labels] /\ pc'[w] = "done" /\ \A v \in Workers \ {w} : pc'[v] = pc[v]
    BY <1>2, <1>3 DEF Labels
  <2>2. /\ IsFiniteSet(Tsk!Units(Workers)) /\ (~lost => Cardinality(Tsk!Units(Workers)) <= logged)
        /\ \A v \in counted : pc[v] = "done"
        /\ Within(row) /\ (~overlapped => Exact(row))
        /\ \A v \in Workers : pc[v] = "write" =>
              /\ Within(copy[v])
              /\ ~overlapped => copy[v] = row /\ \A u \in Workers : pc[u] = "write" => u = v
    BY <1>1 DEF Booked
  <2>3. w \notin counted
    BY <1>3, <2>2
  <2>4. PICK a \in Nat, b \in Nat, d \in Nat, e \in Nat :
           a = copy[w].completed /\ b = copy[w].failed /\ d = copy[w].cost /\ e = job[w].cost
    BY <1>2 DEF Rows, TaskJobs
  <2>5. /\ row'.completed = a + (IF job[w].success THEN 1 ELSE 0)
        /\ row'.failed = b + (IF job[w].success THEN 0 ELSE 1) /\ row'.cost = d + e
    BY <1>5, <2>4 DEF Tsk!Updated
  <2>6. row' \in Rows
    <3>1. /\ a + (IF job[w].success THEN 1 ELSE 0) \in Nat /\ b + (IF job[w].success THEN 0 ELSE 1) \in Nat
          /\ d + e \in Nat
      BY <2>4
    <3>2. QED
      BY <1>5, <2>4, <3>1 DEF Tsk!Updated, Rows
  <2>7. Tsk!NoVerdict' = Tsk!NoVerdict
    BY DEF Tsk!NoVerdict
  <2>8. TasksTyped'
    BY <1>1, <1>2, <1>3, <1>5, <2>1, <2>6, <2>7 DEF TasksTyped
  <2>9. Accepted'
    <3> SUFFICES ASSUME NEW v \in Workers, job'[v].success
        PROVE  /\ pc'[v] \in {"feedback", "read", "write", "done"}
               /\ job'[v].text # 0 /\ job'[v].judged = job'[v].text /\ job'[v].score >= Tsk!Reduced
      BY DEF Accepted, Tsk!Reduced
    <3>1. CASE v = w
      BY <1>1, <1>3, <2>1, <3>1 DEF Accepted
    <3>2. CASE v # w
      BY <1>1, <1>3, <2>1, <3>2 DEF Accepted
    <3>3. QED
      BY <3>1, <3>2
  <2>10. PICK x \in Nat, y \in Nat :
            /\ x = Cardinality(counted) /\ x + 1 = Cardinality(counted')
            /\ y = Cardinality(Tsk!Units(counted)) /\ y + e = Cardinality(Tsk!Units(counted)')
    <3>1. IsFiniteSet(counted)
      BY <1>2, TaskNumbers, FS_Subset
    <3>2. Cardinality(counted) \in Nat /\ Cardinality(counted \cup {w}) = Cardinality(counted) + 1
      BY <2>3, <3>1, OneMoreElement
    <3>3. /\ Cardinality(Tsk!Units(counted)) \in Nat
          /\ Cardinality(Tsk!Units(counted \cup {w})) = Cardinality(Tsk!Units(counted)) + job[w].cost
      BY <1>1, <1>2, <2>2, <2>3, OneCountedMore
    <3>4. Tsk!Units(counted)' = Tsk!Units(counted \cup {w})
      BY <1>3, <1>5 DEF Tsk!Units
    <3>5. QED
      BY <1>5, <2>4, <3>2, <3>3, <3>4
  <2>11. PICK g \in Nat, f \in Nat :
            /\ g = Cardinality(Good(counted)) /\ f = Cardinality(Bad(counted))
            /\ g + (IF job[w].success THEN 1 ELSE 0) = Cardinality(Good(counted)')
            /\ f + (IF job[w].success THEN 0 ELSE 1) = Cardinality(Bad(counted)')
    <3>1. IsFiniteSet(counted)
      BY <1>2, TaskNumbers, FS_Subset
    <3>2. Good(counted) \in SUBSET counted /\ Bad(counted) \in SUBSET counted
      BY DEF Good, Bad
    <3>3. IsFiniteSet(Good(counted)) /\ IsFiniteSet(Bad(counted))
      BY <3>1, <3>2, FS_Subset
    <3>4. /\ Cardinality(Good(counted)) \in Nat /\ Cardinality(Bad(counted)) \in Nat
          /\ Cardinality(Good(counted) \cup {w}) = Cardinality(Good(counted)) + 1
          /\ Cardinality(Bad(counted) \cup {w}) = Cardinality(Bad(counted)) + 1
      BY <2>3, <3>2, <3>3, OneMoreElement
    <3>5. CASE job[w].success
      <4>1. Good(counted)' = Good(counted) \cup {w} /\ Bad(counted)' = Bad(counted)
        BY <1>3, <1>5, <3>5 DEF Good, Bad
      <4>2. QED
        BY <3>4, <3>5, <4>1
    <3>6. CASE ~job[w].success
      <4>1. Good(counted)' = Good(counted) /\ Bad(counted)' = Bad(counted) \cup {w}
        BY <1>3, <1>5, <3>6 DEF Good, Bad
      <4>2. QED
        BY <3>4, <3>6, <4>1
    <3>7. QED
      BY <3>5, <3>6
  <2>12. Within(row)'
    <3>1. a + b <= x /\ d <= y
      BY <1>3, <2>2, <2>4, <2>10 DEF Within
    <3>2. row'.completed + row'.failed <= x + 1 /\ row'.cost <= y + e
      BY <2>4, <2>5, <2>10, <3>1
    <3>3. QED
      BY <2>10, <3>2 DEF Within
  <2>13. ~overlapped' => Exact(row)'
    <3>1. HAVE ~overlapped'
    <3>2. a = g /\ b = f /\ d = y
      BY <1>3, <2>2, <2>4, <2>10, <2>11, <3>1 DEF Exact
    <3>3. QED
      BY <2>5, <2>10, <2>11, <3>2 DEF Exact
  <2>14. ASSUME NEW v \in Workers, pc'[v] = "write"
         PROVE  /\ Within(copy[v])'
                /\ ~overlapped' => copy'[v] = row' /\ \A u \in Workers : pc'[u] = "write" => u = v
    <3>1. v # w /\ pc[v] = "write" /\ overlapped
      BY <1>3, <2>1, <2>2, <2>14
    <3>2. PICK k \in Nat, l \in Nat : k = copy[v].completed + copy[v].failed /\ l = copy[v].cost
      BY <1>2 DEF Rows
    <3>3. k <= x /\ l <= y
      BY <2>2, <2>10, <3>1, <3>2 DEF Within
    <3>4. k <= x + 1 /\ l <= y + e
      BY <2>4, <2>10, <3>3
    <3>5. Within(copy[v])'
      BY <1>3, <2>10, <3>2, <3>4 DEF Within
    <3>6. QED
      BY <1>3, <3>1, <3>5
  <2>15. Tsk!Units(Workers)' = Tsk!Units(Workers)
    BY <1>3, UnitsStay
  <2>16. IsFiniteSet(Tsk!Units(Workers)') /\ (~lost' => Cardinality(Tsk!Units(Workers)') <= logged')
    BY <1>3, <2>2, <2>15
  <2>17. \A v \in counted' : pc'[v] = "done"
    BY <1>2, <1>5, <2>1, <2>2
  <2>18. Booked'
    BY <2>12, <2>13, <2>14, <2>16, <2>17 DEF Booked
  <2>19. QED
    BY <2>8, <2>9, <2>18 DEF TasksInv
<1>6. QED
  BY <1>4, <1>5 DEF Tsk!WriteRow

\* Every step of the tasks keeps what is claimed of them.
LEMMA TasksStep == ASSUME Tsk!TasksAssumption, TasksInv, [Tsk!Next]_(Tsk!vars) PROVE TasksInv'
<1>1. CASE Tsk!Next
  BY <1>1, PlanKeeps, RunKeeps, CriticKeeps, FeedbackKeeps, ReadRowKeeps, WriteRowKeeps DEF Tsk!Next, Tsk!Step
<1>2. CASE UNCHANGED Tsk!vars
  <2>1. UNCHANGED <<pc, job, answers, verdicts, logged, lost, row, copy, importance, counted, overlapped>>
    BY <1>2 DEF Tsk!vars, Tsk!work, Tsk!cache, Tsk!books, Tsk!stats
  <2>2. TasksTyped'
    BY <2>1 DEF TasksInv, TasksTyped, Tsk!NoVerdict
  <2>3. Accepted'
    BY <2>1 DEF TasksInv, Accepted, Tsk!Reduced
  <2>4. Booked'
    BY <2>1 DEF TasksInv, Booked, Within, Exact, Good, Bad, Tsk!Units
  <2>5. QED
    BY <2>2, <2>3, <2>4 DEF TasksInv
<1>3. QED
  BY <1>1, <1>2

\* What is kept is what the run checks of the tasks.
LEMMA TasksMean ==
    ASSUME Tsk!TasksAssumption, TasksInv
    PROVE  Tsk!AcceptedWasJudged /\ Tsk!BooksAgree /\ Tsk!TypeOK
<1>1. Tsk!AcceptedWasJudged
  BY DEF TasksInv, Accepted, Tsk!AcceptedWasJudged
<1>2. Tsk!LogCoversCosts
  BY TasksCount DEF TasksInv, Booked, Tsk!LogCoversCosts, Tsk!Cost
<1>3. Tsk!RowExact
  BY TasksCount DEF TasksInv, Booked, Within, Exact, Good, Bad, Tsk!RowExact, Tsk!Cost
<1>4. Tsk!TypeOK
  <2>1. TasksTyped
    BY DEF TasksInv
  <2>2. \A w \in Workers : job[w] \in TaskJobs
    BY <2>1 DEF TasksTyped
  <2>3. \A w \in Workers : job[w].text \in Tsk!Texts /\ job[w].score \in 0..100
                           /\ job[w].iteration \in 1..MaxIterations
    BY <2>2 DEF TaskJobs
  <2>4. \A w \in Workers, p \in Tsk!Texts \cup {Tsk!Plain} : answers[w][p] \in Tsk!Texts \cup {Tsk!None}
    BY <2>1 DEF TasksTyped
  <2>5. QED
    BY <2>1, <2>3, <2>4 DEF TasksTyped, Labels, Tsk!TypeOK
<1>5. QED
  BY <1>1, <1>2, <1>3, <1>4 DEF Tsk!BooksAgree

-----------------------------------------------------------------------------
(* Sweeps.                                                                  *)

Swe == INSTANCE Sweeps

SweepNumbers == [checked : Nat, found : Nat, novel : Nat, facts : Nat, entities : Nat, errors : SUBSET (1..5)]

SweepsTyped ==
    /\ sweep \in SweepNumbers /\ source \in 1..6 /\ left \in 0..MaxFinds
    /\ looking \in {"ask", "look", "store", "relate"}
    /\ kept \in [facts : Nat, entities : Nat] /\ skipped \in [known : Nat, unseen : Nat]

\* The sources before the one that is asked were checked or are in errors.
SourcesCounted ==
    /\ \A s \in sweep.errors : s < source
    /\ source - 1 + (IF looking = "ask" THEN 0 ELSE 1) <= sweep.checked + Cardinality(sweep.errors)
    /\ looking # "ask" => source < 6 /\ left > 0
    /\ looking = "ask" => left = 0

\* What was found was novel, known or unseen, or is still to be looked at.
FindsCounted ==
    /\ sweep.found = sweep.novel + skipped.known + skipped.unseen
                        + (IF looking \in {"store", "relate"} THEN left - 1 ELSE left)
    /\ sweep.errors = {} => skipped.unseen = 0
    /\ sweep.facts = kept.facts /\ sweep.entities = kept.entities
    /\ kept.facts + (IF looking = "store" THEN 1 ELSE 0) <= sweep.novel

SweepsInv == SweepsTyped /\ SourcesCounted /\ FindsCounted

\* A sweep counts as this module does.
LEMMA SweepsCount == \A S : Swe!Cardinality(S) = Cardinality(S)
BY DEF Swe!Cardinality, Cardinality, Swe!IsFiniteSet, IsFiniteSet

\* There are five sources.
LEMMA FiveSources == Len(Swe!Sources) = 5 /\ DOMAIN Swe!Sources = 1..5
BY DEF Swe!Sources

\* At first no source is asked.
LEMMA SweepsStart == Swe!SweepsAssumption /\ Swe!Init => SweepsInv
<1>1. Cardinality({}) = 0
  BY FS_EmptySet
<1>2. ASSUME Swe!SweepsAssumption, Swe!Init PROVE SweepsInv
  <2>1. SweepsTyped
    BY <1>2 DEF Swe!Init, SweepsTyped, SweepNumbers, Swe!SweepsAssumption
  <2>2. SourcesCounted /\ FindsCounted
    BY <1>1, <1>2 DEF Swe!Init, SourcesCounted, FindsCounted
  <2>3. QED
    BY <2>1, <2>2 DEF SweepsInv
<1>3. QED
  BY <1>2

\* An error more counts for the source that is asked, which has none yet.
LEMMA OneMoreError ==
    ASSUME NEW E \in SUBSET (1..5), NEW s \in 1..5, \A e \in E : e < s
    PROVE  /\ E \cup {s} \in SUBSET (1..5) /\ Cardinality(E) \in Nat
           /\ Cardinality(E \cup {s}) = Cardinality(E) + 1
<1>1. IsFiniteSet(E)
  <2>1. IsFiniteSet(1..5)
    BY FS_Interval, 1 \in Int, 5 \in Int, Zenon
  <2>2. QED
    BY <2>1, FS_Subset, Zenon
<1>2. s \notin E
  OBVIOUS
<1>3. QED
  BY <1>1, <1>2, FS_AddElement, FS_CardinalityType

\* The sources in errors are finitely many.
LEMMA ErrorsCount == ASSUME SweepsTyped PROVE Cardinality(sweep.errors) \in Nat
<1>1. IsFiniteSet(1..5)
  BY FS_Interval, 1 \in Int, 5 \in Int, Zenon
<1>2. sweep.errors \in SUBSET (1..5)
  BY DEF SweepsTyped, SweepNumbers
<1>3. QED
  BY <1>1, <1>2, FS_Subset, FS_CardinalityType, Zenon

\* An error ends the source that is asked, and what was left of it is unseen.
LEMMA RaisesKeeps ==
    ASSUME Swe!SweepsAssumption, SweepsInv, source < 6, Swe!Raises, kept' = kept,
           skipped' = [skipped EXCEPT !.unseen = @ + left], looking \in {"ask", "look"}
    PROVE  SweepsInv'
<1>1. /\ sweep.errors \in SUBSET (1..5) /\ \A e \in sweep.errors : e < source
      /\ source \in 1..5 /\ source \in Nat /\ left \in Nat
  BY DEF SweepsInv, SweepsTyped, SourcesCounted, SweepNumbers, Swe!SweepsAssumption
<1>2. PICK E : E = sweep.errors \cup {source}
  OBVIOUS
<1>3. E \in SUBSET (1..5) /\ Cardinality(sweep.errors) \in Nat /\ Cardinality(E) = Cardinality(sweep.errors) + 1
  BY <1>1, <1>2, OneMoreError
<1>4. sweep' = [sweep EXCEPT !.errors = E]
  BY <1>2 DEF Swe!Raises
<1>5. /\ sweep' \in SweepNumbers /\ sweep'.errors = E /\ sweep'.checked = sweep.checked
      /\ sweep'.found = sweep.found /\ sweep'.novel = sweep.novel
      /\ sweep'.facts = sweep.facts /\ sweep'.entities = sweep.entities
  BY <1>3, <1>4 DEF SweepsInv, SweepsTyped, SweepNumbers
<1>6. skipped' \in [known : Nat, unseen : Nat] /\ skipped'.known = skipped.known /\ skipped'.unseen = skipped.unseen + left
  BY <1>1 DEF SweepsInv, SweepsTyped
<1>7. SweepsTyped'
  BY <1>1, <1>5, <1>6 DEF SweepsInv, SweepsTyped, Swe!Raises, Swe!SweepsAssumption
<1>8. SourcesCounted'
  <2>1. looking' = "ask" /\ left' = 0 /\ source' = source + 1
    BY DEF Swe!Raises
  <2>2. \A s \in sweep'.errors : s < source'
    BY <1>1, <1>2, <1>5, <2>1
  <2>3. source' - 1 + 0 <= sweep'.checked + Cardinality(sweep'.errors)
    BY <1>1, <1>3, <1>5, <2>1 DEF SweepsInv, SweepsTyped, SweepNumbers, SourcesCounted
  <2>4. (IF looking' = "ask" THEN 0 ELSE 1) = 0 /\ ~(looking' # "ask")
    BY <2>1
  <2>5. QED
    BY <2>1, <2>2, <2>3, <2>4, Zenon DEF SourcesCounted
<1>9. FindsCounted'
  <2>1. looking' = "ask" /\ left' = 0 /\ E # {}
    BY <1>2 DEF Swe!Raises
  <2>2. QED
    BY <1>1, <1>5, <1>6, <2>1 DEF SweepsInv, SweepsTyped, SweepNumbers, FindsCounted
<1>10. QED
  BY <1>7, <1>8, <1>9 DEF SweepsInv

\* What a step that raises nothing has to add up to.
LEMMA SweepAddsUp ==
    ASSUME SweepsInv, sweep' \in SweepNumbers, sweep'.errors = sweep.errors, SweepsTyped',
           looking' # "ask" => source' < 6 /\ left' > 0,
           looking' = "ask" => left' = 0,
           source <= source',
           source' - 1 + (IF looking' = "ask" THEN 0 ELSE 1) - sweep'.checked
               <= source - 1 + (IF looking = "ask" THEN 0 ELSE 1) - sweep.checked,
           FindsCounted'
    PROVE  SweepsInv'
<1>1. Cardinality(sweep.errors) \in Nat
  BY ErrorsCount DEF SweepsInv
<1>2. SourcesCounted'
  BY <1>1 DEF SweepsInv, SourcesCounted, SweepsTyped, SweepNumbers
<1>3. QED
  BY <1>2 DEF SweepsInv

\* A source answers, or raises.
LEMMA SweepAskKeeps == ASSUME Swe!SweepsAssumption, SweepsInv, Swe!Ask PROVE SweepsInv'
<1>0. ~(source > 5)
  BY FiveSources DEF Swe!Ask, Swe!Swept
<1>1. source \in 1..5 /\ source < 6 /\ left = 0 /\ kept' = kept /\ skipped' = skipped /\ looking = "ask"
  <2>1. kept' = kept /\ skipped' = skipped /\ looking = "ask"
    BY DEF Swe!Ask
  <2>2. source \in 1..6 /\ left = 0
    BY <2>1 DEF SweepsInv, SweepsTyped, SourcesCounted
  <2>3. QED
    BY <1>0, <2>1, <2>2
<1>2. CASE Swe!Raises
  <2>1. skipped' = [skipped EXCEPT !.unseen = @ + left]
    BY <1>1 DEF SweepsInv, SweepsTyped
  <2>2. QED
    BY <1>1, <1>2, <2>1, RaisesKeeps
<1>3. ASSUME NEW n \in 0..MaxFinds,
             sweep' = [sweep EXCEPT !.checked = @ + 1, !.found = @ + n], left' = n,
             IF n = 0 THEN source' = source + 1 /\ UNCHANGED looking
             ELSE looking' = "look" /\ UNCHANGED source
      PROVE  SweepsInv'
  <2>1. /\ sweep' \in SweepNumbers /\ sweep'.errors = sweep.errors /\ sweep'.checked = sweep.checked + 1
        /\ sweep'.found = sweep.found + n /\ sweep'.novel = sweep.novel
        /\ sweep'.facts = sweep.facts /\ sweep'.entities = sweep.entities
    <3>1. sweep \in SweepNumbers /\ n \in Nat /\ sweep.checked + 1 \in Nat /\ sweep.found + n \in Nat
      BY <1>3 DEF SweepsInv, SweepsTyped, SweepNumbers, Swe!SweepsAssumption
    <3>2. PICK a, b : a = sweep.checked + 1 /\ b = sweep.found + n
      OBVIOUS
    <3>3. sweep' = [sweep EXCEPT !.checked = a, !.found = b]
      BY <1>3, <3>2
    <3>4. QED
      BY <3>1, <3>2, <3>3 DEF SweepNumbers
  <2>2. SweepsTyped'
    BY <1>1, <1>3, <2>1 DEF SweepsInv, SweepsTyped
  <2>3. FindsCounted'
    BY <1>1, <1>3, <2>1 DEF SweepsInv, SweepsTyped, SweepNumbers, FindsCounted, Swe!SweepsAssumption
  <2>4. QED
    BY <1>1, <1>3, <2>1, <2>2, <2>3, SweepAddsUp DEF SweepsInv, SweepsTyped, SweepNumbers, Swe!SweepsAssumption
<1>4. QED
  BY <1>2, <1>3 DEF Swe!Ask

\* A discovery is new, known, or not looked at.
LEMMA LookKeeps == ASSUME Swe!SweepsAssumption, SweepsInv, Swe!Look PROVE SweepsInv'
<1>1. source \in 1..5 /\ source < 6 /\ left > 0 /\ left \in Nat /\ kept' = kept /\ looking = "look"
  BY DEF Swe!Look, SweepsInv, SweepsTyped, SourcesCounted, Swe!SweepsAssumption
<1>2. CASE Swe!Raises /\ skipped' = [skipped EXCEPT !.unseen = @ + left]
  BY <1>1, <1>2, RaisesKeeps
<1>3. CASE sweep' = [sweep EXCEPT !.novel = @ + 1] /\ looking' = "store" /\ UNCHANGED <<source, left, skipped>>
  <2>1. /\ sweep' \in SweepNumbers /\ sweep'.errors = sweep.errors /\ sweep'.checked = sweep.checked
        /\ sweep'.found = sweep.found /\ sweep'.novel = sweep.novel + 1
        /\ sweep'.facts = sweep.facts /\ sweep'.entities = sweep.entities
    BY <1>3 DEF SweepsInv, SweepsTyped, SweepNumbers
  <2>2. SweepsTyped'
    BY <1>1, <1>3, <2>1 DEF SweepsInv, SweepsTyped
  <2>3. FindsCounted'
    BY <1>1, <1>3, <2>1 DEF SweepsInv, SweepsTyped, SweepNumbers, FindsCounted
  <2>4. QED
    BY <1>1, <1>3, <2>1, <2>2, <2>3, SweepAddsUp DEF SweepsInv, SweepsTyped, SweepNumbers
<1>4. CASE Swe!Onward /\ skipped' = [skipped EXCEPT !.known = @ + 1] /\ UNCHANGED sweep
  <2>1. /\ skipped' \in [known : Nat, unseen : Nat] /\ skipped'.known = skipped.known + 1
        /\ skipped'.unseen = skipped.unseen
    BY <1>4 DEF SweepsInv, SweepsTyped
  <2>2. SweepsTyped'
    BY <1>1, <1>4, <2>1 DEF SweepsInv, SweepsTyped, Swe!Onward, Swe!SweepsAssumption
  <2>3. FindsCounted'
    BY <1>1, <1>4, <2>1 DEF SweepsInv, SweepsTyped, SweepNumbers, FindsCounted, Swe!Onward
  <2>4. QED
    BY <1>1, <1>4, <2>1, <2>2, <2>3, SweepAddsUp DEF SweepsInv, SweepsTyped, SweepNumbers, Swe!Onward
<1>5. QED
  BY <1>2, <1>3, <1>4 DEF Swe!Look

\* What is stored is counted, one by one.
LEMMA StoreKeeps == ASSUME Swe!SweepsAssumption, SweepsInv, Swe!Store \/ Swe!Relate PROVE SweepsInv'
<1>1. source \in 1..5 /\ source < 6 /\ left > 0 /\ left \in Nat /\ skipped' = skipped /\ looking \in {"store", "relate"}
  BY DEF Swe!Store, Swe!Relate, SweepsInv, SweepsTyped, SourcesCounted, Swe!SweepsAssumption
<1>2. \/ Swe!Onward
      \/ looking = "store" /\ looking' = "relate" /\ UNCHANGED <<left, source>>
  BY DEF Swe!Store, Swe!Relate
<1>3. /\ sweep' \in SweepNumbers /\ sweep'.errors = sweep.errors /\ sweep'.checked = sweep.checked
      /\ sweep'.found = sweep.found /\ sweep'.novel = sweep.novel
      /\ sweep'.facts = kept'.facts /\ sweep'.entities = kept'.entities
      /\ kept' \in [facts : Nat, entities : Nat]
      /\ kept'.facts <= kept.facts + (IF looking = "store" THEN 1 ELSE 0)
  BY DEF Swe!Store, Swe!Relate, SweepsInv, SweepsTyped, SweepNumbers, FindsCounted
<1>4. SweepsTyped'
  BY <1>1, <1>2, <1>3 DEF SweepsInv, SweepsTyped, Swe!Onward, Swe!SweepsAssumption
<1>5. FindsCounted'
  BY <1>1, <1>2, <1>3 DEF SweepsInv, SweepsTyped, SweepNumbers, FindsCounted, Swe!Onward
<1>6. QED
  BY <1>1, <1>2, <1>3, <1>4, <1>5, SweepAddsUp DEF SweepsInv, SweepsTyped, SweepNumbers, Swe!Onward

\* The steps of a sweep.
LEMMA SweepsStep == Swe!SweepsAssumption /\ SweepsInv /\ [Swe!Next]_(Swe!vars) => SweepsInv'
<1>1. ASSUME Swe!SweepsAssumption, SweepsInv, Swe!Next PROVE SweepsInv'
  BY <1>1, SweepAskKeeps, LookKeeps, StoreKeeps DEF Swe!Next
<1>2. ASSUME SweepsInv, UNCHANGED Swe!vars PROVE SweepsInv'
  BY <1>2 DEF Swe!vars, SweepsInv, SweepsTyped, SourcesCounted, FindsCounted
<1>3. QED
  BY <1>1, <1>2

\* What is kept is what the run checks of a sweep.
LEMMA SweepsMean == Swe!SweepsAssumption /\ SweepsInv => Swe!SweepsTold /\ Swe!TypeOK
<1>1. ASSUME Swe!SweepsAssumption, SweepsInv PROVE Swe!SweepsTold
  <2>1. Cardinality(sweep.errors) \in Nat
    BY <1>1, ErrorsCount DEF SweepsInv
  <2>2. Swe!Swept => source = 6 /\ looking = "ask" /\ left = 0
    BY <1>1, FiveSources DEF Swe!Swept, SweepsInv, SweepsTyped, SourcesCounted
  <2>3. QED
    BY <1>1, <2>1, <2>2, FiveSources, SweepsCount DEF Swe!SweepsTold, SweepsInv, SweepsTyped, SweepNumbers, SourcesCounted, FindsCounted
<1>2. ASSUME SweepsInv PROVE Swe!TypeOK
  BY <1>2, FiveSources DEF Swe!TypeOK, SweepsInv, SweepsTyped, SweepNumbers
<1>3. QED
  BY <1>1, <1>2

-----------------------------------------------------------------------------
(* The knowledge graph.                                                     *)

Kno == INSTANCE Knowledge

KnoLabels == {"idle", "find", "merge", "relate", "decay", "prune", "delete", "audit"}
KnoRows == [name : Names, type : Types, confidence : Nat]
NoSeen == <<>>
SomeIds == (SUBSET Nat) \cup (Nat \X Nat) \cup {NoSeen}
SomeSeen == (UNION {[S -> Nat] : S \in SUBSET Nat}) \cup {NoSeen}
KnoJobs ==
    [pc : KnoLabels, name : Names \cup {"none"}, confidence : Nat, ids : SomeIds, seen : SomeSeen]

KnoTyped ==
    /\ entities \in Seq(KnoRows \cup {Kno!Deleted})
    /\ relations \subseteq Kno!Live \X Kno!Live
    /\ at \in [Threads -> KnoJobs] /\ dirty \in [Threads -> SUBSET Kno!Ids]

\* What a thread has read of which entities, and of those that nobody changed since, that
\* it is so still.
ReadIds(t) ==
    /\ at[t].pc \in {"merge", "decay", "delete", "audit"} =>
          at[t].ids \in SUBSET Kno!Ids /\ at[t].seen \in [at[t].ids -> Nat]
    /\ at[t].pc = "relate" => at[t].ids \in Nat \X Nat
    /\ at[t].pc \in {"find", "merge"} => at[t].name \in Names
    /\ at[t].pc = "merge" => at[t].ids # {}

StillSo(t) ==
    at[t].pc \in {"merge", "delete", "audit"} =>
        \A i \in at[t].ids \ dirty[t] :
            /\ i \in Kno!Live /\ entities[i].confidence = at[t].seen[i]
            /\ at[t].pc = "merge" => entities[i].name = at[t].name
            /\ at[t].pc = "delete" => entities[i].confidence < PruneBelow /\ Kno!Relations(i) = {}

KnoInv ==
    /\ KnoTyped /\ \A t \in Threads : ReadIds(t) /\ StillSo(t)
    /\ known \subseteq [name : Names, confidence : Nat] /\ Kno!ReportsStick

\* A thread at rest, and one that has a report in hand.
LEMMA KnoAtRest ==
    /\ Kno!Idle \in KnoJobs /\ Kno!Idle.pc = "idle"
    /\ \A label \in KnoLabels : /\ [Kno!Idle EXCEPT !.pc = label] \in KnoJobs
                               /\ [Kno!Idle EXCEPT !.pc = label].pc = label
<1>1. Kno!Idle = [pc |-> "idle", name |-> "none", confidence |-> 0, ids |-> NoSeen, seen |-> NoSeen]
  BY DEF Kno!Idle, NoSeen
<1>2. NoSeen \in SomeIds /\ NoSeen \in SomeSeen
  BY Zenon DEF SomeIds, SomeSeen
<1>3. QED
  BY <1>1, <1>2 DEF KnoJobs, KnoLabels

\* A thread that has a report in hand.
LEMMA KnoInHand ==
    ASSUME NEW n \in Names, NEW c \in Nat, NEW doing,
           doing = [Kno!Idle EXCEPT !.pc = "find", !.name = n, !.confidence = c]
    PROVE  doing \in KnoJobs /\ doing.pc = "find" /\ doing.name = n
<1>1. doing = [pc |-> "find", name |-> n, confidence |-> c, ids |-> NoSeen, seen |-> NoSeen]
  BY DEF Kno!Idle, NoSeen
<1>2. NoSeen \in SomeIds /\ NoSeen \in SomeSeen
  BY Zenon DEF SomeIds, SomeSeen
<1>3. QED
  BY <1>1, <1>2 DEF KnoJobs, KnoLabels

\* The graph is empty at first.
LEMMA KnoStart == Kno!Init => KnoInv
<1> SUFFICES ASSUME Kno!Init PROVE KnoInv
  OBVIOUS
<1>1. entities = <<>> /\ relations = {} /\ known = {} /\ dirty = [t \in Threads |-> {}]
      /\ at = [t \in Threads |-> Kno!Idle]
  BY DEF Kno!Init
<1>2. KnoTyped
  <2>1. entities \in Seq(KnoRows \cup {Kno!Deleted})
    BY <1>1
  <2>2. at \in [Threads -> KnoJobs]
    BY <1>1, KnoAtRest
  <2>3. dirty \in [Threads -> SUBSET Kno!Ids] /\ relations \subseteq Kno!Live \X Kno!Live
    BY <1>1
  <2>4. QED
    BY <2>1, <2>2, <2>3 DEF KnoTyped
<1>3. \A t \in Threads : ReadIds(t) /\ StillSo(t)
  BY <1>1, KnoAtRest DEF ReadIds, StillSo
<1>4. QED
  BY <1>1, <1>2, <1>3 DEF KnoInv, Kno!ReportsStick

\* A row that is there, in parts.
LEMMA KnoRow ==
    ASSUME KnoTyped, NEW i \in Kno!Live
    PROVE  i \in Kno!Ids /\ i \in Nat /\ entities[i] \in KnoRows
BY DEF KnoTyped, Kno!Live, Kno!Ids

\* A row of an entity is not a deleted one.
LEMMA KnoRowThere == ASSUME Kno!KnowledgeAssumption, NEW r \in KnoRows PROVE r # Kno!Deleted
BY DEF Kno!KnowledgeAssumption, KnoRows, Kno!Deleted

\* What another thread has read holds beyond a change of S.
LEMMA KnoOthers ==
    ASSUME KnoInv, NEW u \in Threads, NEW S, at'[u] = at[u],
           dirty'[u] = dirty[u] \cup (S \cap Kno!Watched(u)),
           Kno!Ids \subseteq Kno!Ids',
           \A i \in Kno!Ids \ S : entities'[i] = entities[i] /\ Kno!Relations(i)' \subseteq Kno!Relations(i)
    PROVE  ReadIds(u)' /\ StillSo(u)'
<1>1. ReadIds(u) /\ StillSo(u)
  BY DEF KnoInv
<1>2. ReadIds(u)'
  BY <1>1 DEF ReadIds
<1>3. ASSUME at[u].pc \in {"merge", "delete", "audit"}, NEW i \in at[u].ids \ dirty'[u]
      PROVE  /\ i \in Kno!Live' /\ entities'[i].confidence = at[u].seen[i]
             /\ at[u].pc = "merge" => entities'[i].name = at[u].name
             /\ at[u].pc = "delete" => entities'[i].confidence < PruneBelow /\ Kno!Relations(i)' = {}
  <2>1. i \in at[u].ids \ dirty[u] /\ i \notin S
    BY <1>3 DEF Kno!Watched
  <2>2. i \in Kno!Ids
    BY <1>1, <1>3 DEF ReadIds
  <2>3. entities'[i] = entities[i] /\ Kno!Relations(i)' \subseteq Kno!Relations(i)
    BY <2>1, <2>2
  <2>4. i \in Kno!Live /\ i \in Kno!Live'
    BY <1>1, <1>3, <2>1, <2>2, <2>3 DEF StillSo, Kno!Live
  <2>5. QED
    BY <1>1, <1>3, <2>1, <2>3, <2>4 DEF StillSo
<1>4. QED
  BY <1>2, <1>3 DEF StillSo

\* Rows that are written over keep their places.
LEMMA KnoWritten ==
    ASSUME KnoTyped, entities' \in [Kno!Ids -> KnoRows \cup {Kno!Deleted}]
    PROVE  entities' \in Seq(KnoRows \cup {Kno!Deleted}) /\ Kno!Ids' = Kno!Ids
<1>1. Len(entities) \in Nat /\ Kno!Ids = 1..Len(entities)
  BY DEF KnoTyped, Kno!Ids
<1>2. entities' \in Seq(KnoRows \cup {Kno!Deleted}) /\ Len(entities') = Len(entities)
  BY <1>1
<1>3. QED
  BY <1>1, <1>2 DEF Kno!Ids

\* What Changed says of each thread.
LEMMA KnoChanged ==
    ASSUME KnoInv, NEW t \in Threads, NEW S, Kno!Changed(t, S), Kno!Ids \subseteq Kno!Ids'
    PROVE  /\ dirty' \in [Threads -> SUBSET Kno!Ids'] /\ dirty'[t] = {}
           /\ \A u \in Threads \ {t} : dirty'[u] = dirty[u] \cup (S \cap Kno!Watched(u))
<1>1. \A u \in Threads : dirty[u] \subseteq Kno!Ids
  BY DEF KnoInv, KnoTyped
<1>2. \A u \in Threads : Kno!Watched(u) \subseteq Kno!Ids
  BY DEF KnoInv, ReadIds, Kno!Watched
<1>3. dirty' = [u \in Threads |-> IF u = t THEN {} ELSE dirty[u] \cup (S \cap Kno!Watched(u))]
  BY DEF Kno!Changed
<1>4. QED
  BY <1>1, <1>2, <1>3

\* What Read says: what it reads is of entities that are there.
LEMMA KnoReads ==
    ASSUME KnoInv, NEW t \in Threads, NEW label \in KnoLabels, NEW S \in SUBSET Kno!Live,
           Kno!Read(t, label, S), UNCHANGED entities
    PROVE  /\ at' \in [Threads -> KnoJobs] /\ dirty' \in [Threads -> SUBSET Kno!Ids]
           /\ at'[t].pc = label /\ at'[t].name = at[t].name /\ at'[t].ids = S
           /\ at'[t].seen = [i \in S |-> entities[i].confidence] /\ at'[t].seen \in [S -> Nat]
           /\ S \subseteq Kno!Ids /\ dirty'[t] = {}
           /\ \A u \in Threads \ {t} : at'[u] = at[u] /\ dirty'[u] = dirty[u]
<1> DEFINE seen == [i \in S |-> entities[i].confidence]
<1>1. S \subseteq Kno!Ids /\ S \in SUBSET Nat /\ \A i \in S : entities[i].confidence \in Nat
  BY KnoRow DEF KnoInv, KnoRows
<1>2. seen \in [S -> Nat]
  BY <1>1
<1>3. seen \in UNION {[R -> Nat] : R \in SUBSET Nat}
  BY <1>1, <1>2
<1>4. at' = [at EXCEPT ![t].pc = label, ![t].ids = S, ![t].seen = seen]
  BY DEF Kno!Read
<1>5. at \in [Threads -> KnoJobs] /\ dirty \in [Threads -> SUBSET Kno!Ids]
  BY DEF KnoInv, KnoTyped
<1> HIDE DEF seen
<1>9. S \in SomeIds /\ seen \in SomeSeen
  BY <1>1, <1>3 DEF SomeIds, SomeSeen
<1>6. at' \in [Threads -> KnoJobs] /\ at'[t].pc = label /\ at'[t].ids = S
      /\ at'[t].name = at[t].name /\ at'[t].seen = seen /\ \A u \in Threads \ {t} : at'[u] = at[u]
  BY <1>4, <1>5, <1>9 DEF KnoJobs
<1>7. dirty' = [dirty EXCEPT ![t] = {}]
  BY DEF Kno!Read
<1>8. QED
  BY <1>1, <1>2, <1>5, <1>6, <1>7 DEF seen

\* A report is held where no entity of its name became weaker.
LEMMA KnownStill ==
    ASSUME KnoInv, NEW S,
           \A i \in Kno!Live \ S : /\ i \in Kno!Live' /\ entities'[i].name = entities[i].name
                                   /\ entities'[i].confidence >= entities[i].confidence
                                   /\ entities'[i].confidence \in Nat,
           NEW k \in known, k.name \notin Kno!NamesOf(S)
    PROVE  \E i \in Kno!Named(k.name)' : entities'[i].confidence >= k.confidence
<1>1. PICK i \in Kno!Named(k.name) : entities[i].confidence >= k.confidence
  BY DEF KnoInv, Kno!ReportsStick
<1>2. i \in Kno!Live /\ entities[i].name = k.name
  BY <1>1 DEF Kno!Named
<1>3. i \notin S
  BY <1>2 DEF Kno!NamesOf
<1>4. i \in Kno!Named(k.name)'
  BY <1>2, <1>3 DEF Kno!Named
<1>5. entities[i].confidence \in Nat /\ k.confidence \in Nat
  BY <1>2, KnoRow DEF KnoInv, KnoRows
<1>6. QED
  BY <1>1, <1>2, <1>3, <1>4, <1>5

\* The invariant after a step of t that changes the entities in S.
LEMMA KnoTogether ==
    ASSUME KnoInv, KnoTyped', NEW t \in Threads, ReadIds(t)', StillSo(t)', NEW S,
           \A u \in Threads \ {t} : /\ at'[u] = at[u]
                                    /\ dirty'[u] = dirty[u] \cup (S \cap Kno!Watched(u)),
           Kno!Ids \subseteq Kno!Ids',
           \A i \in Kno!Ids \ S : entities'[i] = entities[i] /\ Kno!Relations(i)' \subseteq Kno!Relations(i),
           known' \subseteq [name : Names, confidence : Nat], Kno!ReportsStick'
    PROVE  KnoInv'
<1>1. \A u \in Threads \ {t} : ReadIds(u)' /\ StillSo(u)'
  BY KnoOthers
<1>2. QED
  BY <1>1 DEF KnoInv

\* A thread that is through has read nothing.
LEMMA KnoIdle == ASSUME NEW t \in Threads, at'[t] = Kno!Idle PROVE ReadIds(t)' /\ StillSo(t)'
BY DEF Kno!Idle, ReadIds, StillSo

\* An action that fails changes nothing.
LEMMA KnoFail == ASSUME KnoInv, NEW t \in Threads, Kno!Fail(t) PROVE KnoInv'
<1>1. UNCHANGED <<entities, relations, known>> /\ at' = [at EXCEPT ![t] = Kno!Idle]
      /\ Kno!Changed(t, {})
  BY DEF Kno!Fail, Kno!Finish, Kno!tables
<1>2. Kno!Ids' = Kno!Ids /\ Kno!Live' = Kno!Live
  BY <1>1 DEF Kno!Ids, Kno!Live
<1>3. /\ dirty' \in [Threads -> SUBSET Kno!Ids] /\ dirty'[t] = {}
      /\ \A u \in Threads \ {t} : dirty'[u] = dirty[u] \cup ({} \cap Kno!Watched(u))
  BY <1>1, <1>2, KnoChanged
<1>4. at \in [Threads -> KnoJobs] /\ Kno!Idle \in KnoJobs
  BY KnoAtRest DEF KnoInv, KnoTyped
<1>5. at' \in [Threads -> KnoJobs] /\ at'[t] = Kno!Idle /\ \A u \in Threads \ {t} : at'[u] = at[u]
  BY <1>1, <1>4
<1>6. KnoTyped'
  BY <1>1, <1>2, <1>3, <1>5 DEF KnoInv, KnoTyped
<1>7. \A i : entities'[i] = entities[i] /\ Kno!Relations(i)' \subseteq Kno!Relations(i)
  BY <1>1 DEF Kno!Relations
<1>8. Kno!ReportsStick' /\ known' \subseteq [name : Names, confidence : Nat]
  BY <1>1, <1>2 DEF KnoInv, Kno!ReportsStick, Kno!Named
<1>9. ReadIds(t)' /\ StillSo(t)'
  BY <1>5, KnoIdle
<1>10. \A u \in Threads \ {t} : at'[u] = at[u] /\ dirty'[u] = dirty[u] \cup ({} \cap Kno!Watched(u))
  BY <1>3, <1>5
<1>11. Kno!Ids \subseteq Kno!Ids'
  BY <1>2
<1>12. QED
  BY <1>6, <1>7, <1>8, <1>9, <1>10, <1>11, KnoTogether

\* An action that reads, when it writes nothing and what it has read is as it should be.
LEMMA KnoOnlyReads ==
    ASSUME KnoInv, NEW t \in Threads, entities' = entities, relations' = relations, known' = known,
           at' \in [Threads -> KnoJobs], dirty' \in [Threads -> SUBSET Kno!Ids],
           \A u \in Threads \ {t} : at'[u] = at[u] /\ dirty'[u] = dirty[u],
           ReadIds(t)', StillSo(t)'
    PROVE  KnoInv'
<1>1. Kno!Ids' = Kno!Ids /\ Kno!Live' = Kno!Live
  BY DEF Kno!Ids, Kno!Live
<1>2. KnoTyped'
  BY <1>1 DEF KnoInv, KnoTyped
<1>3. \A i : entities'[i] = entities[i] /\ Kno!Relations(i)' \subseteq Kno!Relations(i)
  BY DEF Kno!Relations
<1>4. Kno!ReportsStick' /\ known' \subseteq [name : Names, confidence : Nat]
  BY <1>1 DEF KnoInv, Kno!ReportsStick, Kno!Named
<1>5. PICK none : none = {}
  OBVIOUS
<1>6. \A u \in Threads \ {t} : /\ at'[u] = at[u]
                                /\ dirty'[u] = dirty[u] \cup (none \cap Kno!Watched(u))
  BY <1>5
<1>7. Kno!Ids \subseteq Kno!Ids'
  BY <1>1
<1>8. ReadIds(t)' /\ StillSo(t)'
  OBVIOUS
<1>9. known' \subseteq [name : Names, confidence : Nat]
  BY <1>4
<1>10. Kno!ReportsStick'
  BY <1>4
<1>11. \A i \in Kno!Ids \ none : entities'[i] = entities[i] /\ Kno!Relations(i)' \subseteq Kno!Relations(i)
  BY <1>3
<1>12. QED
  BY <1>2, <1>11, <1>6, <1>7, <1>8, <1>9, <1>10, KnoTogether

\* A report that is new, or for a row that is there.
LEMMA KnoInsertKeeps ==
    ASSUME Kno!KnowledgeAssumption, KnoInv, NEW t \in Threads, Kno!Insert(t) PROVE KnoInv'
<1>1. PICK new \in Kno!Reported :
          \/ /\ entities' = Append(entities, new) /\ known' = known \cup Kno!Acknowledged(new)
             /\ UNCHANGED at
          \/ /\ at' = [at EXCEPT ![t] = [Kno!Idle EXCEPT !.pc = "find", !.name = new.name,
                                                         !.confidence = new.confidence]]
             /\ UNCHANGED <<entities, known>>
  BY DEF Kno!Insert
<1>2. UNCHANGED <<relations, dirty>> /\ at[t].pc = "idle"
  BY DEF Kno!Insert
<1>3. new \in KnoRows
  BY DEF Kno!Reported, KnoRows, Kno!KnowledgeAssumption
<1>4. KnoTyped /\ entities \in Seq(KnoRows \cup {Kno!Deleted}) /\ Len(entities) \in Nat
      /\ at \in [Threads -> KnoJobs] /\ dirty \in [Threads -> SUBSET Kno!Ids]
  BY DEF KnoInv, KnoTyped
<1>5. CASE /\ entities' = Append(entities, new) /\ known' = known \cup Kno!Acknowledged(new)
           /\ UNCHANGED at
  <2>1. /\ entities' \in Seq(KnoRows \cup {Kno!Deleted}) /\ Len(entities') = Len(entities) + 1
        /\ entities'[Len(entities) + 1] = new
        /\ \A i \in 1..Len(entities) : entities'[i] = entities[i]
    BY <1>3, <1>4, <1>5
  <2>2. Kno!Ids \subseteq Kno!Ids' /\ Len(entities) + 1 \in Kno!Ids'
        /\ \A i \in Kno!Ids : entities'[i] = entities[i]
    BY <1>4, <2>1 DEF Kno!Ids
  <2>3. Kno!Live \subseteq Kno!Live' /\ Len(entities) + 1 \in Kno!Live'
    BY <1>3, <2>1, <2>2, KnoRowThere DEF Kno!Live
  <2>4. KnoTyped'
    BY <1>2, <1>4, <1>5, <2>1, <2>2, <2>3 DEF KnoTyped
  <2>5. \A i \in Kno!Live \ {} : /\ i \in Kno!Live' /\ entities'[i].name = entities[i].name
                                 /\ entities'[i].confidence >= entities[i].confidence
                                 /\ entities'[i].confidence \in Nat
    <3>1. \A i \in Kno!Live : i \in Kno!Ids /\ entities[i].confidence \in Nat
      BY <1>4, KnoRow DEF KnoRows
    <3>2. QED
      BY <2>2, <2>3, <3>1
  <2>6. ASSUME NEW k \in known PROVE \E i \in Kno!Named(k.name)' : entities'[i].confidence >= k.confidence
    <3>1. k.name \notin Kno!NamesOf({})
      BY DEF Kno!NamesOf
    <3>2. QED
      BY <2>5, <3>1, KnownStill
  <2>7. ASSUME NEW k \in Kno!Acknowledged(new)
        PROVE  /\ k \in [name : Names, confidence : Nat]
               /\ \E i \in Kno!Named(k.name)' : entities'[i].confidence >= k.confidence
    <3>1. k = [name |-> new.name, confidence |-> new.confidence]
      BY <2>7 DEF Kno!Acknowledged
    <3>2. new.name \in Names /\ new.confidence \in Nat
      BY <1>3 DEF KnoRows
    <3>3. Len(entities) + 1 \in Kno!Named(k.name)'
      BY <2>1, <2>3, <3>1 DEF Kno!Named
    <3>4. QED
      BY <2>1, <3>1, <3>2, <3>3
  <2>8. Kno!ReportsStick' /\ known' \subseteq [name : Names, confidence : Nat]
    BY <1>5, <2>6, <2>7 DEF Kno!ReportsStick, KnoInv
  <2>9. ReadIds(t)' /\ StillSo(t)'
    BY <1>2, <1>5 DEF ReadIds, StillSo
  <2>10. \A i \in Kno!Ids \ {} : entities'[i] = entities[i] /\ Kno!Relations(i)' \subseteq Kno!Relations(i)
    BY <1>2, <2>2 DEF Kno!Relations
  <2>11. \A u \in Threads \ {t} : /\ at'[u] = at[u]
                                  /\ dirty'[u] = dirty[u] \cup ({} \cap Kno!Watched(u))
    BY <1>2, <1>5
  <2>12. QED
    BY <2>2, <2>4, <2>8, <2>9, <2>10, <2>11, KnoTogether
<1>6. CASE /\ at' = [at EXCEPT ![t] = [Kno!Idle EXCEPT !.pc = "find", !.name = new.name,
                                                       !.confidence = new.confidence]]
           /\ UNCHANGED <<entities, known>>
  <2>1. new.name \in Names /\ new.confidence \in Nat
    BY <1>3 DEF KnoRows
  <2>2. at' \in [Threads -> KnoJobs] /\ at'[t].pc = "find" /\ at'[t].name \in Names
        /\ \A u \in Threads \ {t} : at'[u] = at[u]
    <3> DEFINE doing == [Kno!Idle EXCEPT !.pc = "find", !.name = new.name, !.confidence = new.confidence]
    <3>1. doing \in KnoJobs /\ doing.pc = "find" /\ doing.name = new.name
      BY <2>1, KnoInHand
    <3>2. at' = [at EXCEPT ![t] = doing]
      BY <1>6
    <3> HIDE DEF doing
    <3>3. QED
      BY <1>4, <2>1, <3>1, <3>2
  <2>3. ReadIds(t)' /\ StillSo(t)'
    BY <2>2 DEF ReadIds, StillSo
  <2>4. QED
    BY <1>2, <1>4, <1>6, <2>2, <2>3, KnoOnlyReads
<1>7. QED
  BY <1>1, <1>5, <1>6
\* The row a report is for is looked up by its name.
LEMMA FindKeeps == ASSUME KnoInv, NEW t \in Threads, Kno!Find(t) PROVE KnoInv'
<1>1. at[t].pc = "find" /\ UNCHANGED <<entities, relations, known>> /\ at[t].name \in Names
  BY DEF Kno!Find, Kno!tables, KnoInv, ReadIds
<1>2. CASE Kno!ByName(at[t].name) = {}
  <2>1. Kno!Fail(t)
    BY <1>1, <1>2 DEF Kno!Find, Kno!Fail, Kno!tables
  <2>2. QED
    BY <2>1, KnoFail
<1>3. CASE Kno!ByName(at[t].name) # {}
  <2> DEFINE S == Kno!ByName(at[t].name)
  <2>1. Kno!Read(t, "merge", S)
    BY <1>3 DEF Kno!Find
  <2>2. S \in SUBSET Kno!Live /\ \A i \in S : entities[i].name = at[t].name
    BY DEF Kno!ByName, Kno!Named
  <2>3. S # {}
    BY <1>3
  <2> HIDE DEF S
  <2>4. /\ at' \in [Threads -> KnoJobs] /\ dirty' \in [Threads -> SUBSET Kno!Ids]
        /\ at'[t].pc = "merge" /\ at'[t].name = at[t].name /\ at'[t].ids = S
        /\ at'[t].seen = [i \in S |-> entities[i].confidence] /\ at'[t].seen \in [S -> Nat]
        /\ S \subseteq Kno!Ids /\ dirty'[t] = {}
        /\ \A u \in Threads \ {t} : at'[u] = at[u] /\ dirty'[u] = dirty[u]
    BY <1>1, <2>1, <2>2, KnoReads DEF KnoLabels
  <2>5. Kno!Ids' = Kno!Ids /\ Kno!Live' = Kno!Live
    BY <1>1 DEF Kno!Ids, Kno!Live
  <2>6. ReadIds(t)'
    BY <1>1, <2>3, <2>4, <2>5 DEF ReadIds
  <2>7. StillSo(t)'
    BY <1>1, <2>2, <2>4, <2>5 DEF StillSo
  <2>8. QED
    BY <1>1, <2>4, <2>6, <2>7, KnoOnlyReads
<1>4. QED
  BY <1>2, <1>3

\* The ends of a relation are looked up.
LEMMA ResolveKeeps == ASSUME KnoInv, NEW t \in Threads, Kno!ResolveEnds(t) PROVE KnoInv'
<1>1. PICK i \in Kno!Live, j \in Kno!Live :
        at' = [at EXCEPT ![t].pc = "relate", ![t].ids = <<i, j>>]
  BY DEF Kno!ResolveEnds
<1>2. UNCHANGED <<entities, relations, known>> /\ UNCHANGED dirty
  BY DEF Kno!ResolveEnds, Kno!tables
<1>3. at \in [Threads -> KnoJobs] /\ dirty \in [Threads -> SUBSET Kno!Ids]
  BY DEF KnoInv, KnoTyped
<1>4. <<i, j>> \in Nat \X Nat
  BY KnoRow DEF KnoInv
<1>5. <<i, j>> \in SomeIds
  BY <1>4 DEF SomeIds
<1>6. at' \in [Threads -> KnoJobs] /\ at'[t].pc = "relate" /\ at'[t].ids = <<i, j>>
      /\ \A u \in Threads \ {t} : at'[u] = at[u]
  BY <1>1, <1>3, <1>5 DEF KnoJobs, KnoLabels
<1>7. ReadIds(t)' /\ StillSo(t)'
  BY <1>4, <1>6 DEF ReadIds, StillSo
<1>8. QED
  BY <1>2, <1>3, <1>6, <1>7, KnoOnlyReads

\* The maintenance, the pruning and the audit read the entities that they will change.
LEMMA KnoStartKeeps ==
    ASSUME KnoInv, NEW t \in Threads, NEW label \in {"decay", "delete", "audit"},
           NEW S \in SUBSET Kno!Live, Kno!Read(t, label, S), UNCHANGED <<entities, relations, known>>,
           label = "delete" => S \subseteq Kno!Prunable
    PROVE  KnoInv'
<1>1. /\ at' \in [Threads -> KnoJobs] /\ dirty' \in [Threads -> SUBSET Kno!Ids]
      /\ at'[t].pc = label /\ at'[t].ids = S
      /\ at'[t].seen = [i \in S |-> entities[i].confidence] /\ at'[t].seen \in [S -> Nat]
      /\ S \subseteq Kno!Ids /\ dirty'[t] = {}
      /\ \A u \in Threads \ {t} : at'[u] = at[u] /\ dirty'[u] = dirty[u]
  BY KnoReads DEF KnoLabels
<1>2. Kno!Ids' = Kno!Ids /\ Kno!Live' = Kno!Live /\ \A i : Kno!Relations(i)' \subseteq Kno!Relations(i)
  BY DEF Kno!Ids, Kno!Live, Kno!Relations
<1>3. ReadIds(t)'
  BY <1>1, <1>2 DEF ReadIds
<1>4. label = "delete" => \A i \in S : entities[i].confidence < PruneBelow /\ Kno!Relations(i) = {}
  BY DEF Kno!Prunable
<1>5. StillSo(t)'
  BY <1>1, <1>2, <1>4 DEF StillSo
<1>6. UNCHANGED entities /\ UNCHANGED relations /\ UNCHANGED known
  OBVIOUS
<1>7. QED
  BY <1>1, <1>3, <1>5, <1>6, KnoOnlyReads

\* A relation is stored between two entities that are there.
LEMMA RelateKeeps == ASSUME KnoInv, NEW t \in Threads, Kno!Relate(t) PROVE KnoInv'
<1> DEFINE new == at[t].ids
           S == {new[1], new[2]}
<1>1. CASE Kno!Fail(t)
  BY <1>1, KnoFail
<1>2. CASE /\ new \notin relations /\ {new[1], new[2]} \subseteq Kno!Live
           /\ relations' = relations \cup {new} /\ Kno!Finish(t, {new[1], new[2]})
           /\ UNCHANGED <<entities, known>>
  <2>1. at[t].pc = "relate" /\ new \in Nat \X Nat
    BY DEF Kno!Relate, KnoInv, ReadIds
  <2>2. new \in Kno!Live \X Kno!Live
    BY <1>2, <2>1
  <2>3. Kno!Ids' = Kno!Ids /\ Kno!Live' = Kno!Live
    BY <1>2 DEF Kno!Ids, Kno!Live
  <2>4. at \in [Threads -> KnoJobs] /\ Kno!Idle \in KnoJobs /\ at' = [at EXCEPT ![t] = Kno!Idle]
    BY <1>2, KnoAtRest DEF KnoInv, KnoTyped, Kno!Finish
  <2>5. at' \in [Threads -> KnoJobs] /\ at'[t] = Kno!Idle /\ \A u \in Threads \ {t} : at'[u] = at[u]
    BY <2>4
  <2>6. Kno!Changed(t, S)
    BY <1>2 DEF Kno!Finish
  <2>7. /\ dirty' \in [Threads -> SUBSET Kno!Ids'] /\ dirty'[t] = {}
        /\ \A u \in Threads \ {t} : dirty'[u] = dirty[u] \cup (S \cap Kno!Watched(u))
    BY <2>3, <2>6, KnoChanged
  <2>8. KnoTyped'
    BY <1>2, <2>2, <2>3, <2>5, <2>7 DEF KnoInv, KnoTyped
  <2>9. \A i \in Kno!Ids \ S : entities'[i] = entities[i] /\ Kno!Relations(i)' \subseteq Kno!Relations(i)
    <3>1. ASSUME NEW i \in Kno!Ids \ S PROVE Kno!Relations(i)' \subseteq Kno!Relations(i)
      BY <1>2 DEF Kno!Relations
    <3>2. QED
      BY <1>2, <3>1
  <2>10. Kno!ReportsStick' /\ known' \subseteq [name : Names, confidence : Nat]
    BY <1>2, <2>3 DEF KnoInv, Kno!ReportsStick, Kno!Named
  <2>11. ReadIds(t)' /\ StillSo(t)'
    BY <2>5, KnoIdle
  <2>12. \A u \in Threads \ {t} : /\ at'[u] = at[u]
                                  /\ dirty'[u] = dirty[u] \cup (S \cap Kno!Watched(u))
    BY <2>5, <2>7
  <2> HIDE DEF S
  <2>13. QED
    BY <2>3, <2>8, <2>9, <2>10, <2>11, <2>12, KnoTogether
<1>3. QED
  BY <1>1, <1>2 DEF Kno!Relate

\* A step that writes over the entities in S, and only loses relations.
LEMMA KnoWrites ==
    ASSUME KnoInv, NEW t \in Threads, NEW S \in SUBSET Kno!Ids,
           NEW doing \in KnoJobs, doing.pc \in {"idle", "prune"},
           at' = [at EXCEPT ![t] = doing], Kno!Changed(t, S),
           entities' \in [Kno!Ids -> KnoRows \cup {Kno!Deleted}],
           \A i \in Kno!Ids \ S : entities'[i] = entities[i],
           relations' \subseteq relations,
           \A r \in relations' : entities'[r[1]] # Kno!Deleted /\ entities'[r[2]] # Kno!Deleted,
           known' \subseteq [name : Names, confidence : Nat], Kno!ReportsStick'
    PROVE  KnoInv'
<1>1. KnoTyped
  BY DEF KnoInv
<1>2. entities' \in Seq(KnoRows \cup {Kno!Deleted}) /\ Kno!Ids' = Kno!Ids
  BY <1>1, KnoWritten
<1>3. relations' \subseteq Kno!Live' \X Kno!Live'
  <2>1. ASSUME NEW r \in relations' PROVE r \in Kno!Live' \X Kno!Live'
    <3>1. r \in Kno!Live \X Kno!Live
      BY <1>1 DEF KnoTyped
    <3>2. r[1] \in Kno!Live' /\ r[2] \in Kno!Live'
      BY <1>2, <3>1 DEF Kno!Live
    <3>3. QED
      BY <3>1, <3>2
  <2>2. QED
    BY <2>1
<1>4. at' \in [Threads -> KnoJobs] /\ at'[t] = doing /\ \A u \in Threads \ {t} : at'[u] = at[u]
  BY <1>1 DEF KnoTyped
<1>5. /\ dirty' \in [Threads -> SUBSET Kno!Ids'] /\ dirty'[t] = {}
      /\ \A u \in Threads \ {t} : dirty'[u] = dirty[u] \cup (S \cap Kno!Watched(u))
  BY <1>2, KnoChanged
<1>6. KnoTyped'
  BY <1>2, <1>3, <1>4, <1>5 DEF KnoTyped
<1>7. ReadIds(t)' /\ StillSo(t)'
  BY <1>4 DEF ReadIds, StillSo
<1>8. \A i : Kno!Relations(i)' \subseteq Kno!Relations(i)
  BY DEF Kno!Relations
<1>9. \A u \in Threads \ {t} : /\ at'[u] = at[u]
                                /\ dirty'[u] = dirty[u] \cup (S \cap Kno!Watched(u))
  BY <1>4, <1>5
<1>10. \A i \in Kno!Ids \ S : entities'[i] = entities[i] /\ Kno!Relations(i)' \subseteq Kno!Relations(i)
  BY <1>8
<1>11. Kno!Ids \subseteq Kno!Ids'
  BY <1>2
<1>12. QED
  BY <1>6, <1>7, <1>9, <1>10, <1>11, KnoTogether

\* When rows in S become others or weaker, the reports that are not excused hold.
LEMMA KnoExcused ==
    ASSUME KnoInv, NEW S,
           \A i \in Kno!Live \ S : /\ i \in Kno!Live' /\ entities'[i].name = entities[i].name
                                   /\ entities'[i].confidence >= entities[i].confidence
                                   /\ entities'[i].confidence \in Nat,
           known' = Kno!Excuse(Kno!NamesOf(S))
    PROVE  known' \subseteq [name : Names, confidence : Nat] /\ Kno!ReportsStick'
<1>1. known' \subseteq known /\ \A k \in known' : k.name \notin Kno!NamesOf(S)
  BY DEF Kno!Excuse
<1>2. \A k \in known' : \E i \in Kno!Named(k.name)' : entities'[i].confidence >= k.confidence
  BY <1>1, KnownStill
<1>3. QED
  BY <1>1, <1>2 DEF KnoInv, Kno!ReportsStick

\* What a report or a decay makes of a row that is there.
LEMMA KnoRaised ==
    ASSUME NEW r \in KnoRows, NEW c \in Nat
    PROVE  /\ [r EXCEPT !.confidence = c] \in KnoRows /\ [r EXCEPT !.confidence = c].name = r.name
           /\ [r EXCEPT !.confidence = c].confidence = c
BY DEF KnoRows

\* What is merged with a row is not weaker than what was read of it, nor than the report.
LEMMA MergeKeeps ==
    ASSUME Kno!KnowledgeAssumption, KnoInv, NEW t \in Threads, Kno!Merge(t) PROVE KnoInv'
<1> DEFINE me == at[t]
           weaker == {i \in me.ids : entities'[i].confidence < entities[i].confidence} \cap dirty[t]
<1>1. CASE Kno!Fail(t)
  BY <1>1, KnoFail
<1>2. CASE /\ me.ids \subseteq Kno!Live
           /\ entities' = [i \in Kno!Ids |-> IF i \in me.ids /\ Kno!Raised(me.seen[i], me.confidence)
                                             THEN [entities[i] EXCEPT !.confidence = me.confidence]
                                             ELSE entities[i]]
           /\ known' = (IF dirty[t] = {} THEN Kno!Acknowledged(me) ELSE {})
                       \cup Kno!Excuse(Kno!NamesOf(weaker))
           /\ Kno!Finish(t, me.ids) /\ relations' = relations
  <2>1. /\ me.pc = "merge" /\ me.ids \in SUBSET Kno!Ids /\ me.seen \in [me.ids -> Nat]
        /\ me.name \in Names /\ me.ids # {} /\ me.confidence \in Nat /\ me \in KnoJobs
    BY DEF Kno!Merge, KnoInv, KnoTyped, ReadIds, KnoJobs
  <2>2. \A i \in Kno!Ids : entities[i] \in KnoRows \cup {Kno!Deleted}
    BY DEF KnoInv, KnoTyped, Kno!Ids
  <2>3. \A i \in Kno!Live : i \in Kno!Ids /\ entities[i] \in KnoRows
    BY KnoRow DEF KnoInv
  <2>4. ASSUME NEW i \in Kno!Ids
        PROVE  /\ entities'[i] \in KnoRows \cup {Kno!Deleted}
               /\ i \notin me.ids => entities'[i] = entities[i]
               /\ i \in Kno!Live => /\ entities'[i] \in KnoRows
                                    /\ entities'[i].name = entities[i].name
               /\ i \in me.ids => \/ entities'[i] = entities[i] /\ me.confidence <= me.seen[i]
                                  \/ entities'[i].confidence = me.confidence /\ me.confidence > me.seen[i]
    <3>1. CASE i \in me.ids /\ Kno!Raised(me.seen[i], me.confidence)
      <4>1. entities[i] \in KnoRows
        BY <1>2, <2>3, <3>1
      <4>2. entities'[i] = [entities[i] EXCEPT !.confidence = me.confidence]
        BY <1>2, <3>1
      <4>3. QED
        BY <2>1, <3>1, <4>1, <4>2, KnoRaised DEF Kno!Raised
    <3>2. CASE ~(i \in me.ids /\ Kno!Raised(me.seen[i], me.confidence))
      <4>1. entities'[i] = entities[i]
        BY <1>2, <3>2
      <4>2. i \in me.ids => me.seen[i] \in Nat
        BY <2>1
      <4>3. QED
        BY <2>1, <2>2, <2>3, <3>2, <4>1, <4>2 DEF Kno!Raised
    <3>3. QED
      BY <3>1, <3>2
  <2>5. entities' \in [Kno!Ids -> KnoRows \cup {Kno!Deleted}]
    BY <1>2, <2>4
  <2>6. Kno!Ids' = Kno!Ids
    BY <2>5, KnoWritten DEF KnoInv
  <2>7. \A i \in Kno!Live : i \in Kno!Live' /\ entities'[i] # Kno!Deleted
    BY <2>3, <2>4, <2>6, KnoRowThere DEF Kno!Live
  <2>8. \A r \in relations' : entities'[r[1]] # Kno!Deleted /\ entities'[r[2]] # Kno!Deleted
    BY <1>2, <2>7 DEF KnoInv, KnoTyped
  <2>9. \A i \in Kno!Live \ weaker : /\ i \in Kno!Live' /\ entities'[i].name = entities[i].name
                                     /\ entities'[i].confidence >= entities[i].confidence
                                     /\ entities'[i].confidence \in Nat
    <3>1. ASSUME NEW i \in Kno!Live \ weaker
          PROVE  entities'[i].confidence >= entities[i].confidence
      <4>1. entities[i].confidence \in Nat /\ entities'[i].confidence \in Nat
        BY <2>3, <2>4 DEF KnoRows
      <4>2. CASE i \notin me.ids
        BY <2>3, <2>4, <4>1, <4>2
      <4>3. CASE i \in me.ids /\ i \in dirty[t]
        BY <4>1, <4>3
      <4>4. CASE i \in me.ids /\ i \notin dirty[t]
        <5>1. entities[i].confidence = me.seen[i]
          BY <2>1, <4>4 DEF KnoInv, StillSo
        <5>2. QED
          BY <2>1, <2>3, <2>4, <4>1, <4>4, <5>1
      <4>5. QED
        BY <4>2, <4>3, <4>4
    <3>2. QED
      BY <2>3, <2>4, <2>7, <3>1 DEF KnoRows
  <2>10. ASSUME NEW k \in known', k \notin Kno!Excuse(Kno!NamesOf(weaker))
         PROVE  /\ k \in [name : Names, confidence : Nat]
                /\ \E i \in Kno!Named(k.name)' : entities'[i].confidence >= k.confidence
    <3>1. dirty[t] = {} /\ k = [name |-> me.name, confidence |-> me.confidence]
      BY <1>2, <2>10 DEF Kno!Acknowledged
    <3>2. PICK i \in me.ids : TRUE
      BY <2>1
    <3>3. i \in Kno!Live /\ entities[i].confidence = me.seen[i] /\ entities[i].name = me.name
      BY <2>1, <3>1, <3>2 DEF KnoInv, StillSo
    <3>4. i \in Kno!Named(k.name)'
      BY <2>3, <2>4, <2>7, <3>1, <3>3 DEF Kno!Named
    <3>5. entities'[i].confidence >= k.confidence
      BY <2>1, <2>3, <2>4, <3>1, <3>2, <3>3
    <3>6. QED
      BY <2>1, <3>1, <3>4, <3>5
  <2> HIDE DEF weaker
  <2>11. \A k \in Kno!Excuse(Kno!NamesOf(weaker)) :
            k \in known /\ \E i \in Kno!Named(k.name)' : entities'[i].confidence >= k.confidence
    BY <2>9, KnownStill DEF Kno!Excuse
  <2>12. known' \subseteq [name : Names, confidence : Nat] /\ Kno!ReportsStick'
    BY <2>10, <2>11 DEF KnoInv, Kno!ReportsStick
  <2>13. Kno!Changed(t, me.ids) /\ at' = [at EXCEPT ![t] = Kno!Idle]
    BY <1>2 DEF Kno!Finish
  <2>14. Kno!Idle \in KnoJobs /\ Kno!Idle.pc \in {"idle", "prune"}
    BY KnoAtRest
  <2>15. \A i \in Kno!Ids \ me.ids : entities'[i] = entities[i]
    BY <2>4
  <2>16. relations' \subseteq relations
    BY <1>2
  <2> HIDE DEF me
  <2>17. QED
    BY <2>1, <2>5, <2>8, <2>12, <2>13, <2>14, <2>15, <2>16, KnoWrites
<1>3. QED
  BY <1>1, <1>2 DEF Kno!Merge

\* What decay and audits make of a confidence.
LEMMA KnoWeaker ==
    ASSUME Kno!KnowledgeAssumption, NEW c \in Nat, NEW by \in Nat PROVE Kno!Weaker(c, by) \in Nat
BY DEF Kno!KnowledgeAssumption, Kno!Weaker

\* Decay weakens rows, whose names are excused.
LEMMA DecayKeeps ==
    ASSUME Kno!KnowledgeAssumption, KnoInv, NEW t \in Threads, Kno!Decay(t) PROVE KnoInv'
<1> DEFINE me == at[t]
<1>1. CASE Kno!Fail(t)
  BY <1>1, KnoFail
<1>2. CASE /\ me.ids \subseteq Kno!Live
           /\ entities' = [i \in Kno!Ids |-> IF i \in me.ids
                  THEN [entities[i] EXCEPT !.confidence = Kno!Weaker(me.seen[i], 1)] ELSE entities[i]]
           /\ known' = Kno!Excuse(Kno!NamesOf(me.ids))
           /\ \/ Kno!Finish(t, me.ids)
              \/ at' = [at EXCEPT ![t] = [Kno!Idle EXCEPT !.pc = "prune"]] /\ Kno!Changed(t, me.ids)
           /\ relations' = relations
  <2>1. me.pc = "decay" /\ me.ids \in SUBSET Kno!Ids /\ me.seen \in [me.ids -> Nat]
    BY DEF Kno!Decay, KnoInv, ReadIds
  <2>2. \A i \in Kno!Ids : entities[i] \in KnoRows \cup {Kno!Deleted}
    BY DEF KnoInv, KnoTyped, Kno!Ids
  <2>3. \A i \in Kno!Live : i \in Kno!Ids /\ entities[i] \in KnoRows
    BY KnoRow DEF KnoInv
  <2>4. ASSUME NEW i \in Kno!Ids
        PROVE  /\ entities'[i] \in KnoRows \cup {Kno!Deleted}
               /\ i \notin me.ids => entities'[i] = entities[i]
               /\ i \in Kno!Live => entities'[i] \in KnoRows
    <3>1. CASE i \in me.ids
      <4>1. entities[i] \in KnoRows /\ Kno!Weaker(me.seen[i], 1) \in Nat
        BY <1>2, <2>1, <2>3, <3>1, KnoWeaker
      <4>2. entities'[i] = [entities[i] EXCEPT !.confidence = Kno!Weaker(me.seen[i], 1)]
        BY <1>2, <3>1
      <4>3. QED
        BY <3>1, <4>1, <4>2, KnoRaised
    <3>2. CASE i \notin me.ids
      BY <1>2, <2>2, <2>3, <3>2
    <3>3. QED
      BY <3>1, <3>2
  <2>5. entities' \in [Kno!Ids -> KnoRows \cup {Kno!Deleted}]
    BY <1>2, <2>4
  <2>6. Kno!Ids' = Kno!Ids
    BY <2>5, KnoWritten DEF KnoInv
  <2>7. \A i \in Kno!Live : i \in Kno!Live' /\ entities'[i] # Kno!Deleted
    BY <2>3, <2>4, <2>6, KnoRowThere DEF Kno!Live
  <2>8. \A r \in relations' : entities'[r[1]] # Kno!Deleted /\ entities'[r[2]] # Kno!Deleted
    BY <1>2, <2>7 DEF KnoInv, KnoTyped
  <2>9. \A i \in Kno!Live \ me.ids : /\ i \in Kno!Live' /\ entities'[i].name = entities[i].name
                                     /\ entities'[i].confidence >= entities[i].confidence
                                     /\ entities'[i].confidence \in Nat
    BY <2>3, <2>4, <2>7 DEF KnoRows
  <2>10. PICK doing \in KnoJobs : doing.pc \in {"idle", "prune"} /\ at' = [at EXCEPT ![t] = doing]
    <3>1. "prune" \in KnoLabels
      BY DEF KnoLabels
    <3>2. QED
      BY <1>2, <3>1, KnoAtRest DEF Kno!Finish
  <2>11. Kno!Changed(t, me.ids)
    BY <1>2 DEF Kno!Finish
  <2>12. known' = Kno!Excuse(Kno!NamesOf(me.ids)) /\ relations' \subseteq relations
    BY <1>2
  <2>13. \A i \in Kno!Ids \ me.ids : entities'[i] = entities[i]
    BY <2>4
  <2> HIDE DEF me
  <2>14. known' \subseteq [name : Names, confidence : Nat] /\ Kno!ReportsStick'
    BY <2>9, <2>12, KnoExcused
  <2>15. QED
    BY <2>1, <2>5, <2>8, <2>10, <2>11, <2>12, <2>13, <2>14, KnoWrites
<1>3. QED
  BY <1>1, <1>2 DEF Kno!Decay

\* What is pruned is excused, and takes its relations with it.
LEMMA PruneKeeps ==
    ASSUME Kno!KnowledgeAssumption, KnoInv, NEW t \in Threads, Kno!Prune(t) PROVE KnoInv'
<1> DEFINE S == at[t].ids
<1>1. S \in SUBSET Kno!Ids
  BY DEF Kno!Prune, KnoInv, ReadIds
<1>2. /\ entities' = [i \in Kno!Ids |-> IF i \in S THEN Kno!Deleted ELSE entities[i]]
      /\ relations' = {r \in relations : r[1] \notin S /\ r[2] \notin S}
      /\ known' = Kno!Excuse(Kno!NamesOf(S)) /\ Kno!Changed(t, S)
      /\ at' = [at EXCEPT ![t] = Kno!Idle]
  BY DEF Kno!Prune, Kno!Without, Kno!Unrelated, Kno!Finish
<1> HIDE DEF S
<1>3. \A i \in Kno!Ids : entities[i] \in KnoRows \cup {Kno!Deleted}
  BY DEF KnoInv, KnoTyped, Kno!Ids
<1>4. \A i \in Kno!Live : i \in Kno!Ids /\ entities[i] \in KnoRows /\ entities[i] # Kno!Deleted
  BY KnoRow DEF KnoInv, Kno!Live
<1>5. entities' \in [Kno!Ids -> KnoRows \cup {Kno!Deleted}]
      /\ \A i \in Kno!Ids \ S : entities'[i] = entities[i]
  BY <1>2, <1>3
<1>6. Kno!Ids' = Kno!Ids
  BY <1>5, KnoWritten DEF KnoInv
<1>7. \A i \in Kno!Live \ S : i \in Kno!Live' /\ entities'[i] # Kno!Deleted
  BY <1>4, <1>5, <1>6 DEF Kno!Live
<1>8. relations' \subseteq relations
      /\ \A r \in relations' : entities'[r[1]] # Kno!Deleted /\ entities'[r[2]] # Kno!Deleted
  BY <1>2, <1>7 DEF KnoInv, KnoTyped
<1>9. \A i \in Kno!Live \ S : /\ i \in Kno!Live' /\ entities'[i].name = entities[i].name
                              /\ entities'[i].confidence >= entities[i].confidence
                              /\ entities'[i].confidence \in Nat
  BY <1>4, <1>5, <1>7 DEF KnoRows
<1>10. known' \subseteq [name : Names, confidence : Nat] /\ Kno!ReportsStick'
  BY <1>2, <1>9, KnoExcused
<1>11. Kno!Idle \in KnoJobs /\ Kno!Idle.pc \in {"idle", "prune"}
  BY KnoAtRest
<1>12. QED
  BY <1>1, <1>2, <1>5, <1>8, <1>10, <1>11, KnoWrites

\* What an audit deletes or weakens is excused.
LEMMA AuditKeeps ==
    ASSUME Kno!KnowledgeAssumption, KnoInv, NEW t \in Threads, Kno!Audit(t) PROVE KnoInv'
<1> DEFINE me == at[t]
           doomed == Kno!Doomed(me.seen)
           weak == me.ids \ doomed
<1>1. CASE Kno!Fail(t)
  BY <1>1, KnoFail
<1>2. CASE /\ weak \subseteq Kno!Live
           /\ entities' = [i \in Kno!Ids |-> IF i \in weak
                  THEN [entities[i] EXCEPT !.confidence = Kno!Weaker(me.seen[i], Penalty)]
                  ELSE Kno!Without(doomed)[i]]
           /\ relations' = Kno!Unrelated(doomed)
           /\ known' = Kno!Excuse(Kno!NamesOf(me.ids))
           /\ Kno!Finish(t, me.ids)
  <2>1. me.pc = "audit" /\ me.ids \in SUBSET Kno!Ids /\ me.seen \in [me.ids -> Nat]
    BY DEF Kno!Audit, KnoInv, ReadIds
  <2>2. \A i \in Kno!Ids : entities[i] \in KnoRows \cup {Kno!Deleted}
    BY DEF KnoInv, KnoTyped, Kno!Ids
  <2>3. \A i \in Kno!Live : i \in Kno!Ids /\ entities[i] \in KnoRows /\ entities[i] # Kno!Deleted
    BY KnoRow DEF KnoInv, Kno!Live
  <2>4. doomed \subseteq me.ids
    BY <2>1 DEF Kno!Doomed
  <2>5. ASSUME NEW i \in Kno!Ids
        PROVE  /\ entities'[i] \in KnoRows \cup {Kno!Deleted}
               /\ i \notin me.ids => entities'[i] = entities[i]
               /\ i \in Kno!Live \ doomed => entities'[i] \in KnoRows /\ entities'[i] # Kno!Deleted
    <3>1. CASE i \in weak
      <4>1. entities[i] \in KnoRows /\ Kno!Weaker(me.seen[i], Penalty) \in Nat
        <5>1. Penalty \in Nat /\ me.seen[i] \in Nat
          BY <2>1, <3>1 DEF Kno!KnowledgeAssumption
        <5>2. QED
          BY <1>2, <2>3, <3>1, <5>1, KnoWeaker
      <4>2. entities'[i] = [entities[i] EXCEPT !.confidence = Kno!Weaker(me.seen[i], Penalty)]
        BY <1>2, <3>1
      <4>3. QED
        BY <3>1, <4>1, <4>2, KnoRaised, KnoRowThere
    <3>2. CASE i \notin weak
      <4>1. entities'[i] = IF i \in doomed THEN Kno!Deleted ELSE entities[i]
        BY <1>2, <3>2 DEF Kno!Without
      <4>2. QED
        BY <2>2, <2>3, <2>4, <4>1
    <3>3. QED
      BY <3>1, <3>2
  <2>6. entities' \in [Kno!Ids -> KnoRows \cup {Kno!Deleted}]
    BY <1>2, <2>5
  <2>7. Kno!Ids' = Kno!Ids
    BY <2>6, KnoWritten DEF KnoInv
  <2>8. relations' \subseteq relations
        /\ \A r \in relations' : entities'[r[1]] # Kno!Deleted /\ entities'[r[2]] # Kno!Deleted
    <3>1. \A r \in relations' : r \in relations /\ r[1] \notin doomed /\ r[2] \notin doomed
      BY <1>2 DEF Kno!Unrelated
    <3>2. QED
      BY <2>3, <2>5, <3>1 DEF KnoInv, KnoTyped
  <2>9. \A i \in Kno!Live \ me.ids : /\ i \in Kno!Live' /\ entities'[i].name = entities[i].name
                                     /\ entities'[i].confidence >= entities[i].confidence
                                     /\ entities'[i].confidence \in Nat
    BY <2>3, <2>5, <2>7 DEF KnoRows, Kno!Live
  <2>10. Kno!Idle \in KnoJobs /\ Kno!Idle.pc \in {"idle", "prune"}
    BY KnoAtRest
  <2>11. /\ Kno!Changed(t, me.ids) /\ at' = [at EXCEPT ![t] = Kno!Idle]
         /\ known' = Kno!Excuse(Kno!NamesOf(me.ids))
    BY <1>2 DEF Kno!Finish
  <2>12. \A i \in Kno!Ids \ me.ids : entities'[i] = entities[i]
    BY <2>5
  <2> HIDE DEF me
  <2>13. known' \subseteq [name : Names, confidence : Nat] /\ Kno!ReportsStick'
    BY <2>9, <2>11, KnoExcused
  <2>14. QED
    BY <2>1, <2>6, <2>8, <2>10, <2>11, <2>12, <2>13, KnoWrites
<1>3. QED
  BY <1>1, <1>2 DEF Kno!Audit

\* A step of the graph, or one in which it rests.
LEMMA KnoStep ==
    ASSUME Kno!KnowledgeAssumption, KnoInv, [Kno!Next]_(Kno!vars) PROVE KnoInv'
<1>1. ASSUME NEW t \in Threads, Kno!Step(t) PROVE KnoInv'
  <2>1. CASE Kno!StartMaintenance(t)
    <3>1. PICK S \in SUBSET Kno!Live : Kno!Read(t, "decay", S) /\ UNCHANGED <<entities, relations, known>>
      BY <2>1 DEF Kno!StartMaintenance, Kno!tables
    <3>2. QED
      BY <3>1, KnoStartKeeps
  <2>2. CASE Kno!StartPrune(t)
    <3>1. Kno!Prunable \in SUBSET Kno!Live /\ Kno!Read(t, "delete", Kno!Prunable)
          /\ UNCHANGED <<entities, relations, known>>
      BY <2>2 DEF Kno!StartPrune, Kno!tables, Kno!Prunable
    <3> DEFINE S == Kno!Prunable
    <3>2. S \in SUBSET Kno!Live /\ S \subseteq Kno!Prunable /\ Kno!Read(t, "delete", S)
      BY <3>1
    <3> HIDE DEF S
    <3>3. QED
      BY <3>1, <3>2, KnoStartKeeps
  <2>3. CASE Kno!StartAudit(t)
    <3>1. PICK S \in SUBSET Kno!Live : Kno!Read(t, "audit", S) /\ UNCHANGED <<entities, relations, known>>
      BY <2>3 DEF Kno!StartAudit, Kno!tables
    <3>2. QED
      BY <3>1, KnoStartKeeps
  <2>4. QED
    BY <1>1, <2>1, <2>2, <2>3, KnoInsertKeeps, FindKeeps, MergeKeeps, ResolveKeeps, RelateKeeps,
       DecayKeeps, PruneKeeps, AuditKeeps DEF Kno!Step
<1>2. CASE UNCHANGED Kno!vars
  <2>1. UNCHANGED <<entities, relations, at, dirty, known>>
    BY <1>2 DEF Kno!vars, Kno!tables
  <2>2. Kno!Ids' = Kno!Ids /\ Kno!Live' = Kno!Live /\ \A i : Kno!Relations(i)' = Kno!Relations(i)
    BY <2>1 DEF Kno!Ids, Kno!Live, Kno!Relations
  <2>3. KnoTyped'
    BY <2>1, <2>2 DEF KnoInv, KnoTyped
  <2>4. \A t \in Threads : ReadIds(t)' /\ StillSo(t)'
    BY <2>1, <2>2 DEF KnoInv, ReadIds, StillSo
  <2>5. Kno!ReportsStick' /\ known' \subseteq [name : Names, confidence : Nat]
    BY <2>1, <2>2 DEF KnoInv, Kno!ReportsStick, Kno!Named
  <2>6. QED
    BY <2>3, <2>4, <2>5 DEF KnoInv
<1>3. QED
  BY <1>1, <1>2 DEF Kno!Next

\* What the invariant says of what is asked of the graph.
LEMMA KnoMeans == KnoInv => Kno!ReportsStick /\ Kno!TypeOK
<1> SUFFICES ASSUME KnoInv PROVE Kno!ReportsStick /\ Kno!TypeOK
  OBVIOUS
<1>1. KnoTyped /\ Kno!ReportsStick
  BY DEF KnoInv
<1>2. entities \in Seq([name : Names, type : Types, confidence : Nat] \cup {Kno!Deleted})
  BY <1>1 DEF KnoTyped, KnoRows
<1>3. QED
  BY <1>1, <1>2 DEF KnoTyped, Kno!TypeOK

\* Only what was weak is deleted, and only an audit deletes what has a relation, as far as the
\* deleter knew.
LEMMA OnlyTheWeak ==
    ASSUME Kno!KnowledgeAssumption, KnoInv, [Kno!Next]_(Kno!vars), NEW t \in Threads, NEW i \in Kno!Ids,
           at[t].pc # "idle", at[t]' = Kno!Idle,
           i \in Kno!Live, entities'[i] = Kno!Deleted, i \notin dirty[t]
    PROVE  /\ entities[i].confidence <= DeleteUpTo
           /\ at[t].pc = "delete" => Kno!Relations(i) = {}
<1>1. entities[i] \in KnoRows /\ entities[i] # Kno!Deleted
  BY KnoRow DEF KnoInv, Kno!Live
<1>2. PICK u \in Threads : Kno!Step(u)
  <2>1. entities' # entities
    BY <1>1
  <2>2. QED
    BY <2>1 DEF Kno!Next, Kno!vars, Kno!tables
<1>3. u = t
  <2>1. at \in [Threads -> KnoJobs] /\ at[t] # Kno!Idle
    BY DEF KnoInv, KnoTyped, Kno!Idle
  <2>2. \E doing : at' = at \/ at' = [at EXCEPT ![u] = doing]
    BY <1>2 DEF Kno!Step, Kno!Insert, Kno!Find, Kno!Merge, Kno!ResolveEnds, Kno!Relate,
       Kno!StartMaintenance, Kno!Decay, Kno!StartPrune, Kno!Prune, Kno!StartAudit, Kno!Audit,
       Kno!Fail, Kno!Finish, Kno!Read
  <2>3. QED
    BY <2>1, <2>2
<1>4. \A c : [entities[i] EXCEPT !.confidence = c] # Kno!Deleted
  <2>1. ASSUME NEW c PROVE [entities[i] EXCEPT !.confidence = c] # Kno!Deleted
    <3>1. [entities[i] EXCEPT !.confidence = c].name \in Names
      BY <1>1 DEF KnoRows
    <3>2. Kno!Deleted.name \notin Names
      BY DEF Kno!Deleted, Kno!KnowledgeAssumption
    <3>3. QED
      BY <3>1, <3>2
  <2>2. QED
    BY <2>1
<1>5. entities' # entities
  BY <1>1
<1>6. CASE Kno!Prune(t)
  <2>1. at[t].pc = "delete" /\ i \in at[t].ids
    BY <1>1, <1>6 DEF Kno!Prune, Kno!Without
  <2>2. entities[i].confidence < PruneBelow /\ Kno!Relations(i) = {}
    BY <2>1 DEF KnoInv, StillSo
  <2>3. entities[i].confidence \in Nat
    BY <1>1 DEF KnoRows
  <2>4. QED
    BY <2>2, <2>3 DEF Kno!KnowledgeAssumption
<1>7. CASE Kno!Audit(t)
  <2>1. at[t].pc = "audit" /\ at[t].seen \in [at[t].ids -> Nat]
    BY <1>7 DEF Kno!Audit, KnoInv, ReadIds
  <2>2. i \in Kno!Doomed(at[t].seen)
    BY <1>1, <1>4, <1>5, <1>7 DEF Kno!Audit, Kno!Without, Kno!Fail, Kno!tables
  <2>3. i \in at[t].ids /\ at[t].seen[i] <= DeleteUpTo
    BY <2>1, <2>2 DEF Kno!Doomed
  <2>4. entities[i].confidence = at[t].seen[i]
    BY <2>1, <2>3 DEF KnoInv, StillSo
  <2>5. QED
    BY <2>1, <2>3, <2>4
<1>8. CASE Kno!Merge(t)
  BY <1>1, <1>4, <1>5, <1>8 DEF Kno!Merge, Kno!Fail, Kno!tables
<1>9. CASE Kno!Decay(t)
  BY <1>1, <1>4, <1>5, <1>9 DEF Kno!Decay, Kno!Fail, Kno!tables
<1>10. ~Kno!Insert(t)
  BY DEF Kno!Insert
<1>11. QED
  BY <1>2, <1>3, <1>5, <1>6, <1>7, <1>8, <1>9, <1>10
     DEF Kno!Step, Kno!Find, Kno!ResolveEnds, Kno!Relate, Kno!StartMaintenance, Kno!StartPrune,
         Kno!StartAudit, Kno!Fail, Kno!tables

-----------------------------------------------------------------------------
(* Migrations of the schema.                                                *)

Mig == INSTANCE Migrations

Paces == {"idle", "up", "record", "down", "undo"}

Tools == [pc : Paces, todo : SUBSET Mig!All]

MigrationsTyped ==
    /\ store \in {"sqlite", "postgresql"}
    /\ versions \in [Mig!All -> {"absent", "current", "rolled_back"}]
    /\ built \subseteq Mig!All
    /\ tool \in [Operators -> Tools]
    /\ \A o \in Operators : tool[o].pc # "idle" => tool[o].todo # {}
    /\ started \in Nat /\ torn \in BOOLEAN

\* The current versions are the first ones and are built, but for one that is being undone.
Recorded ==
    \A v \in Mig!Applied :
       /\ \A u \in 1..v : u \in Mig!Applied
       /\ \/ v \in built
          \/ \E o \in Operators : tool[o].pc = "undo" /\ Mig!Highest(o) = v

\* Who goes forward has the versions left that follow, and has built what it records.
Forward ==
    \A o \in Operators : tool[o].pc \in {"up", "record"} =>
       /\ \A v \in tool[o].todo : \A u \in 1..v : u \in tool[o].todo \/ u \in Mig!Applied
       /\ tool[o].pc = "record" => Mig!Lowest(o) \in built

\* Who goes back is alone and has the last of the current versions left.
Back ==
    \A o \in Operators : tool[o].pc \in {"down", "undo"} =>
       /\ tool[o].todo \subseteq Mig!Applied
       /\ \A v \in tool[o].todo : \A u \in Mig!Applied : u >= v => u \in tool[o].todo
       /\ \A p \in Operators \ {o} : tool[p].pc = "idle"

MigrationsInv == MigrationsTyped /\ (~torn => Recorded /\ Forward /\ Back)

\* The lowest and the highest version left are left, and the others are beyond.
LEMMA LowestHighest ==
    ASSUME Mig!MigrationsAssumption, NEW o \in Operators, tool[o].todo \subseteq Mig!All, tool[o].todo # {}
    PROVE  /\ Mig!Lowest(o) \in tool[o].todo /\ Mig!Highest(o) \in tool[o].todo
           /\ \A v \in tool[o].todo : v \in Nat /\ Mig!Lowest(o) <= v /\ v <= Mig!Highest(o)
<1>1. LastVersion \in Nat /\ Mig!All = 1..LastVersion
  BY DEF Mig!MigrationsAssumption, Mig!All
<1>2. \E n \in tool[o].todo : \A k \in tool[o].todo : n <= k
  BY <1>1, LeastOf
<1>3. \E n \in tool[o].todo : \A k \in tool[o].todo : n >= k
  <2> DEFINE R == {LastVersion - k : k \in tool[o].todo}
  <2>1. R \subseteq Nat /\ R # {}
    BY <1>1
  <2>2. PICK r \in R : \A s \in R : r <= s
    BY <2>1, LeastOf
  <2>3. PICK n \in tool[o].todo : r = LastVersion - n
    BY <2>2
  <2>4. \A k \in tool[o].todo : LastVersion - n <= LastVersion - k
    BY <2>2, <2>3
  <2>5. QED
    BY <1>1, <2>4
<1>4. Mig!Lowest(o) \in tool[o].todo /\ \A k \in tool[o].todo : Mig!Lowest(o) <= k
  BY <1>2, Zenon DEF Mig!Lowest, Mig!Min
<1>5. Mig!Highest(o) \in tool[o].todo /\ \A k \in tool[o].todo : Mig!Highest(o) >= k
  BY <1>3, Zenon DEF Mig!Highest, Mig!Max
<1>6. QED
  BY <1>1, <1>4, <1>5

\* At first nothing is made.
LEMMA MigrationsStart == ASSUME Mig!Init PROVE MigrationsInv
<1>1. MigrationsTyped
  <2>1. Mig!Unused \in Tools /\ Mig!Unused.pc = "idle"
    BY DEF Mig!Unused, Tools, Paces
  <2>2. torn \in BOOLEAN
    BY Zenon DEF Mig!Init
  <2>3. QED
    BY <2>1, <2>2 DEF Mig!Init, MigrationsTyped
<1>2. Mig!Applied = {}
  BY DEF Mig!Init, Mig!Applied
<1>3. \A o \in Operators : tool[o].pc = "idle"
  BY DEF Mig!Init, Mig!Unused
<1>4. QED
  BY <1>1, <1>2, <1>3 DEF MigrationsInv, Recorded, Forward, Back

\* One runner goes on: the others are where they were.
LEMMA ToolsStay ==
    ASSUME MigrationsTyped, NEW o \in Operators, NEW x \in Tools, x.pc # "idle" => x.todo # {},
           tool' = [tool EXCEPT ![o] = x]
    PROVE  /\ tool' \in [Operators -> Tools] /\ tool'[o] = x
           /\ \A p \in Operators \ {o} : tool'[p] = tool[p]
           /\ \A p \in Operators : tool'[p].pc # "idle" => tool'[p].todo # {}
BY DEF MigrationsTyped

\* What a runner has left when one version is done.
LEMMA Left ==
    ASSUME MigrationsTyped, NEW o \in Operators, NEW v, NEW pace \in Paces, Mig!Done(o, v, pace)
    PROVE  \E x \in Tools :
              /\ tool' = [tool EXCEPT ![o] = x] /\ (x.pc # "idle" => x.todo # {})
              /\ x.pc \in {"idle", pace}
              /\ x.pc # "idle" => x.todo = tool[o].todo \ {v}
<1>1. tool[o].todo \subseteq Mig!All
  BY DEF MigrationsTyped, Tools
<1>2. CASE tool[o].todo \ {v} = {}
  <2>1. Mig!Unused \in Tools /\ Mig!Unused.pc = "idle"
    BY DEF Mig!Unused, Tools, Paces
  <2>2. tool' = [tool EXCEPT ![o] = Mig!Unused]
    BY <1>2 DEF Mig!Done
  <2>3. QED
    BY <2>1, <2>2
<1>3. CASE tool[o].todo \ {v} # {}
  <2> DEFINE x == [pc |-> pace, todo |-> tool[o].todo \ {v}]
  <2>1. x \in Tools /\ x.pc = pace /\ x.todo = tool[o].todo \ {v}
    BY <1>1 DEF Tools
  <2>2. tool' = [tool EXCEPT ![o] = x]
    BY <1>3 DEF Mig!Done
  <2> HIDE DEF x
  <2>3. QED
    BY <1>3, <2>1, <2>2
<1>4. QED
  BY <1>2, <1>3

\* Who fails or is interrupted has nothing left.
LEMMA Failed ==
    ASSUME MigrationsTyped, NEW o \in Operators, Mig!Fail(o)
    PROVE  /\ tool' \in [Operators -> Tools] /\ tool'[o].pc = "idle"
           /\ \A p \in Operators \ {o} : tool'[p] = tool[p]
           /\ \A p \in Operators : tool'[p].pc # "idle" => tool'[p].todo # {}
<1>1. Mig!Unused \in Tools /\ Mig!Unused.pc = "idle"
  BY DEF Mig!Unused, Tools, Paces
<1>2. QED
  BY <1>1, ToolsStay DEF Mig!Fail

\* While nobody goes back, what is current stays and is built.
LEMMA StillRecorded ==
    ASSUME Recorded, Mig!Applied' = Mig!Applied, built \subseteq built',
           \A o \in Operators : tool[o].pc # "undo"
    PROVE  Recorded'
BY DEF Recorded

\* A start of the program makes missing tables.
LEMMA InitDbKeeps == ASSUME Mig!MigrationsAssumption, MigrationsInv, Mig!InitDb PROVE MigrationsInv'
<1>1. /\ built' = built \cup {1} /\ UNCHANGED <<store, versions, tool, started, torn>>
      /\ 1 \in Mig!All
  BY DEF Mig!InitDb, Mig!MigrationsAssumption, Mig!All
<1>2. MigrationsTyped'
  BY <1>1 DEF MigrationsInv, MigrationsTyped, Tools, Mig!All
<1>3. ASSUME ~torn' PROVE Recorded' /\ Forward' /\ Back'
  <2>1. Recorded /\ Forward /\ Back
    BY <1>1, <1>3 DEF MigrationsInv
  <2>2. Mig!Applied' = Mig!Applied
    BY <1>1 DEF Mig!Applied, Mig!All
  <2>3. \A o \in Operators : /\ tool'[o] = tool[o]
                             /\ Mig!Highest(o)' = Mig!Highest(o) /\ Mig!Lowest(o)' = Mig!Lowest(o)
    BY <1>1 DEF Mig!Highest, Mig!Lowest
  <2>4. Recorded'
    BY <1>1, <2>1, <2>2, <2>3 DEF Recorded
  <2>5. Forward'
    BY <1>1, <2>1, <2>2, <2>3 DEF Forward
  <2>6. Back'
    BY <1>1, <2>1, <2>2, <2>3 DEF Back
  <2>7. QED
    BY <2>4, <2>5, <2>6
<1>4. QED
  BY <1>2, <1>3 DEF MigrationsInv

\* Who begins to migrate has all that is missing left.
LEMMA MigrateKeeps ==
    ASSUME Mig!MigrationsAssumption, MigrationsInv, NEW o \in Operators, NEW target \in 0..LastVersion,
           Mig!Migrate(o, target)
    PROVE  MigrationsInv'
<1> DEFINE due == {v \in Mig!All \ Mig!Applied : v <= target}
<1>1. /\ tool[o].pc = "idle" /\ started' = started + 1 /\ UNCHANGED <<store, versions, built>>
      /\ tool' = [tool EXCEPT ![o] = IF due = {} THEN Mig!Unused ELSE [pc |-> "up", todo |-> due]]
      /\ torn' = (torn \/ Mig!Overlaps(o, {"down", "undo"}))
  BY DEF Mig!Migrate, Mig!Take, Mig!Busy
<1>2. PICK x \in Tools : /\ tool' = [tool EXCEPT ![o] = x] /\ (x.pc # "idle" => x.todo # {})
                         /\ x.pc \in {"idle", "up"} /\ (x.pc # "idle" => x.todo = due)
  <2>1. CASE due = {}
    <3>1. Mig!Unused \in Tools /\ Mig!Unused.pc = "idle"
      BY DEF Mig!Unused, Tools, Paces
    <3>2. QED
      BY <1>1, <2>1, <3>1
  <2>2. CASE due # {}
    <3>1. [pc |-> "up", todo |-> due] \in Tools
      BY DEF Tools, Paces
    <3>2. QED
      BY <1>1, <2>2, <3>1
  <2>3. QED
    BY <2>1, <2>2
<1>3. /\ tool' \in [Operators -> Tools] /\ tool'[o] = x
      /\ \A p \in Operators \ {o} : tool'[p] = tool[p]
      /\ \A p \in Operators : tool'[p].pc # "idle" => tool'[p].todo # {}
  BY <1>2, ToolsStay DEF MigrationsInv
<1>7. torn' \in BOOLEAN
  BY <1>1, Zenon
<1>4. MigrationsTyped'
  BY <1>1, <1>3, <1>7 DEF MigrationsInv, MigrationsTyped, Mig!All
<1>5. ASSUME ~torn' PROVE Recorded' /\ Forward' /\ Back'
  <2>1. ~torn /\ \A p \in Operators \ {o} : tool[p].pc \notin {"down", "undo"}
    BY <1>1, <1>5, Zenon DEF Mig!Overlaps
  <2>2. Recorded /\ Forward /\ Back
    BY <2>1 DEF MigrationsInv
  <2>3. Mig!Applied' = Mig!Applied
    BY <1>1 DEF Mig!Applied, Mig!All
  <2>4. Recorded'
    BY <1>1, <2>1, <2>2, <2>3, StillRecorded
  <2>5. ASSUME NEW p \in Operators, tool'[p].pc \in {"up", "record"}
        PROVE  /\ \A v \in tool'[p].todo : \A u \in 1..v : u \in tool'[p].todo \/ u \in Mig!Applied'
               /\ tool'[p].pc = "record" => Mig!Lowest(p)' \in built'
    <3>1. CASE p = o
      <4>1. \A v \in due : \A u \in 1..v : u \in due \/ u \in Mig!Applied
        BY DEF Mig!All, Mig!MigrationsAssumption
      <4>2. QED
        BY <1>2, <1>3, <2>3, <2>5, <3>1, <4>1
    <3>2. CASE p # o
      <4>1. tool'[p] = tool[p] /\ Mig!Lowest(p)' = Mig!Lowest(p)
        BY <1>3, <3>2 DEF Mig!Lowest
      <4>2. QED
        BY <1>1, <2>2, <2>3, <2>5, <4>1 DEF Forward
    <3>3. QED
      BY <3>1, <3>2
  <2>6. Forward'
    BY <2>5 DEF Forward
  <2>7. \A p \in Operators : tool'[p].pc \notin {"down", "undo"}
    BY <1>2, <1>3, <2>1
  <2>8. QED
    BY <2>4, <2>6, <2>7 DEF Back
<1>6. QED
  BY <1>4, <1>5 DEF MigrationsInv

\* Who begins to go back has the last of the current versions left, and is alone.
LEMMA RollbackKeeps ==
    ASSUME Mig!MigrationsAssumption, MigrationsInv, NEW o \in Operators, NEW target \in 0..LastVersion,
           Mig!Rollback(o, target)
    PROVE  MigrationsInv'
<1> DEFINE due == {v \in Mig!Applied : v > target}
<1>1. /\ tool[o].pc = "idle" /\ started' = started + 1 /\ UNCHANGED <<store, versions, built>>
      /\ tool' = [tool EXCEPT ![o] = IF due = {} THEN Mig!Unused ELSE [pc |-> "down", todo |-> due]]
      /\ torn' = (torn \/ Mig!Overlaps(o, {"up", "record", "down", "undo"}))
  BY DEF Mig!Rollback, Mig!Take, Mig!Busy
<1>2. PICK x \in Tools : /\ tool' = [tool EXCEPT ![o] = x] /\ (x.pc # "idle" => x.todo # {})
                         /\ x.pc \in {"idle", "down"} /\ (x.pc # "idle" => x.todo = due)
  <2>1. CASE due = {}
    <3>1. Mig!Unused \in Tools /\ Mig!Unused.pc = "idle"
      BY DEF Mig!Unused, Tools, Paces
    <3>2. QED
      BY <1>1, <2>1, <3>1
  <2>2. CASE due # {}
    <3>1. [pc |-> "down", todo |-> due] \in Tools
      BY DEF Tools, Paces, Mig!Applied
    <3>2. QED
      BY <1>1, <2>2, <3>1
  <2>3. QED
    BY <2>1, <2>2
<1>3. /\ tool' \in [Operators -> Tools] /\ tool'[o] = x
      /\ \A p \in Operators \ {o} : tool'[p] = tool[p]
      /\ \A p \in Operators : tool'[p].pc # "idle" => tool'[p].todo # {}
  BY <1>2, ToolsStay DEF MigrationsInv
<1>7. torn' \in BOOLEAN
  BY <1>1, Zenon
<1>4. MigrationsTyped'
  BY <1>1, <1>3, <1>7 DEF MigrationsInv, MigrationsTyped, Mig!All
<1>5. ASSUME ~torn' PROVE Recorded' /\ Forward' /\ Back'
  <2>1. ~torn /\ \A p \in Operators \ {o} : tool[p].pc \notin {"up", "record", "down", "undo"}
    BY <1>1, <1>5, Zenon DEF Mig!Overlaps
  <2>2. \A p \in Operators \ {o} : tool[p].pc = "idle" /\ tool'[p].pc = "idle"
    BY <1>3, <2>1 DEF MigrationsInv, MigrationsTyped, Tools, Paces
  <2>3. Recorded
    BY <2>1 DEF MigrationsInv
  <2>4. Mig!Applied' = Mig!Applied
    BY <1>1 DEF Mig!Applied, Mig!All
  <2>5. Recorded'
    BY <1>1, <2>2, <2>3, <2>4, StillRecorded
  <2>6. \A p \in Operators : tool'[p].pc \notin {"up", "record"}
    BY <1>2, <1>3, <2>2
  <2>7. /\ due \subseteq Mig!Applied
        /\ \A v \in due : \A u \in Mig!Applied : u >= v => u \in due
    BY DEF Mig!Applied, Mig!All, Mig!MigrationsAssumption
  <2>8. Back'
    BY <1>2, <1>3, <2>2, <2>4, <2>7 DEF Back
  <2>9. QED
    BY <2>5, <2>6, <2>8 DEF Forward
<1>6. QED
  BY <1>4, <1>5 DEF MigrationsInv

\* A run that fails, or is interrupted while nothing is half undone, leaves all as it is.
LEMMA FailKeeps ==
    ASSUME MigrationsInv, NEW o \in Operators, Mig!Fail(o), tool[o].pc # "idle",
           UNCHANGED <<store, versions, built, started>>,
           torn' \in BOOLEAN, ~torn' => ~torn /\ tool[o].pc # "undo"
    PROVE  MigrationsInv'
<1>1. /\ tool' \in [Operators -> Tools] /\ tool'[o].pc = "idle"
      /\ \A p \in Operators \ {o} : tool'[p] = tool[p]
      /\ \A p \in Operators : tool'[p].pc # "idle" => tool'[p].todo # {}
  BY Failed DEF MigrationsInv
<1>2. MigrationsTyped'
  BY <1>1 DEF MigrationsInv, MigrationsTyped, Mig!All
<1>3. ASSUME ~torn' PROVE Recorded' /\ Forward' /\ Back'
  <2>1. Recorded /\ Forward /\ Back
    BY <1>3 DEF MigrationsInv
  <2>2. Mig!Applied' = Mig!Applied
    BY DEF Mig!Applied, Mig!All
  <2>3. \A p \in Operators : tool[p].pc # "undo"
    BY <1>3, <2>1 DEF Back
  <2>4. Recorded'
    BY <2>1, <2>2, <2>3, StillRecorded
  <2>5. \A p \in Operators \ {o} : Mig!Lowest(p)' = Mig!Lowest(p)
    BY <1>1 DEF Mig!Lowest
  <2>6. Forward'
    BY <1>1, <2>1, <2>2, <2>5 DEF Forward
  <2>7. Back'
    BY <1>1, <2>1, <2>2 DEF Back
  <2>8. QED
    BY <2>4, <2>6, <2>7
<1>4. QED
  BY <1>2, <1>3 DEF MigrationsInv

\* The schema of the next version is built, with its row or before it.
LEMMA BuildKeeps == ASSUME Mig!MigrationsAssumption, MigrationsInv, NEW o \in Operators, Mig!Build(o) PROVE MigrationsInv'
<1> DEFINE v == Mig!Lowest(o)
<1>1. MigrationsTyped /\ tool[o].pc = "up" /\ UNCHANGED <<store, versions, started, torn>>
  BY DEF Mig!Build, MigrationsInv
<1>2. tool[o] \in Tools /\ v \in tool[o].todo /\ v \in Mig!All
  <2>1. tool[o].todo \subseteq Mig!All /\ tool[o].todo # {} /\ tool[o] \in Tools
    BY <1>1 DEF MigrationsTyped, Tools
  <2>2. QED
    BY <2>1, LowestHighest
<1>3. CASE built' = built \cup {v} /\ tool' = [tool EXCEPT ![o].pc = "record"]
  <2> DEFINE x == [tool[o] EXCEPT !.pc = "record"]
  <2>1. x \in Tools /\ x.pc = "record" /\ x.todo = tool[o].todo /\ tool' = [tool EXCEPT ![o] = x]
    BY <1>1, <1>2, <1>3 DEF Tools, Paces, MigrationsTyped
  <2> HIDE DEF x
  <2>2. /\ tool' \in [Operators -> Tools] /\ tool'[o] = x
        /\ \A p \in Operators \ {o} : tool'[p] = tool[p]
        /\ \A p \in Operators : tool'[p].pc # "idle" => tool'[p].todo # {}
    BY <1>1, <1>2, <2>1, ToolsStay
  <2>3. MigrationsTyped'
    BY <1>1, <1>2, <1>3, <2>2 DEF MigrationsTyped, Mig!All
  <2>4. ASSUME ~torn' PROVE Recorded' /\ Forward' /\ Back'
    <3>1. Recorded /\ Forward /\ Back
      BY <1>1, <2>4 DEF MigrationsInv
    <3>2. Mig!Applied' = Mig!Applied
      BY <1>1 DEF Mig!Applied, Mig!All
    <3>3. \A p \in Operators : tool[p].pc # "down" /\ tool[p].pc # "undo"
      BY <1>1, <3>1 DEF Back
    <3>4. Recorded'
      BY <1>3, <3>1, <3>2, <3>3, StillRecorded
    <3>5. \A p \in Operators : tool'[p].todo = tool[p].todo /\ Mig!Lowest(p)' = Mig!Lowest(p)
      BY <2>1, <2>2 DEF Mig!Lowest
    <3>6. \A p \in Operators : tool'[p].pc = "record" => Mig!Lowest(p) \in built'
      BY <1>3, <2>2, <3>1 DEF Forward
    <3>7. \A p \in Operators : tool'[p].pc \in {"up", "record"} => tool[p].pc \in {"up", "record"}
      BY <1>1, <2>2
    <3>8. Forward'
      BY <3>1, <3>2, <3>5, <3>6, <3>7 DEF Forward
    <3>9. \A p \in Operators : tool'[p].pc \notin {"down", "undo"}
      BY <2>1, <2>2, <3>3
    <3>10. QED
      BY <3>4, <3>8, <3>9 DEF Back
  <2>5. QED
    BY <2>3, <2>4 DEF MigrationsInv
<1>4. CASE Mig!Fail(o) /\ built' = built
  BY <1>1, <1>4, FailKeeps DEF MigrationsTyped
<1>5. QED
  BY <1>3, <1>4 DEF Mig!Build

\* A version that follows the current ones, and is built, becomes one of them.
LEMMA RecordedKeeps ==
    ASSUME Mig!MigrationsAssumption, MigrationsInv, NEW o \in Operators, tool[o].pc \in {"up", "record"},
           versions' = [versions EXCEPT ![Mig!Lowest(o)] = "current"], Mig!Done(o, Mig!Lowest(o), "up"),
           built \subseteq built', built' \subseteq Mig!All, Mig!Lowest(o) \in built',
           UNCHANGED <<store, started, torn>>
    PROVE  MigrationsInv'
<1>1. MigrationsTyped
  BY DEF MigrationsInv
<1>2. PICK v : v = Mig!Lowest(o)
  OBVIOUS
<1>3. /\ tool[o].todo \subseteq Mig!All /\ v \in tool[o].todo /\ v \in Mig!All
      /\ \A u \in tool[o].todo : u \in Nat /\ v <= u
  <2>1. tool[o].todo \subseteq Mig!All /\ tool[o].todo # {}
    BY <1>1 DEF MigrationsTyped, Tools
  <2>2. QED
    BY <1>2, <2>1, LowestHighest
<1>4. PICK x \in Tools : /\ tool' = [tool EXCEPT ![o] = x] /\ (x.pc # "idle" => x.todo # {})
                         /\ x.pc \in {"idle", "up"}
                         /\ x.pc # "idle" => x.todo = tool[o].todo \ {v}
  BY <1>1, <1>2, Left DEF Paces
<1>5. /\ tool' \in [Operators -> Tools] /\ tool'[o] = x
      /\ \A p \in Operators \ {o} : tool'[p] = tool[p]
      /\ \A p \in Operators : tool'[p].pc # "idle" => tool'[p].todo # {}
  BY <1>1, <1>4, ToolsStay
<1>6. versions' \in [Mig!All -> {"absent", "current", "rolled_back"}] /\ Mig!Applied' = Mig!Applied \cup {v}
  BY <1>1, <1>2, <1>3 DEF MigrationsTyped, Mig!Applied, Mig!All
<1>7. MigrationsTyped'
  BY <1>1, <1>5, <1>6 DEF MigrationsTyped, Mig!All
<1>8. ASSUME ~torn' PROVE Recorded' /\ Forward' /\ Back'
  <2>1. Recorded /\ Forward /\ Back
    BY <1>8 DEF MigrationsInv
  <2>2. \A p \in Operators : tool[p].pc # "down" /\ tool[p].pc # "undo"
    BY <2>1 DEF Back
  <2>3. \A w \in Mig!Applied : w \in built' /\ \A u \in 1..w : u \in Mig!Applied
    BY <2>1, <2>2 DEF Recorded
  <2>4. \A u \in 1..v : u \in Mig!Applied \cup {v}
    <3>1. \A u \in 1..v : u \in tool[o].todo \/ u \in Mig!Applied
      BY <1>3, <2>1 DEF Forward
    <3>2. \A u \in 1..v : u \in tool[o].todo => u = v
      BY <1>3
    <3>3. QED
      BY <3>1, <3>2
  <2>5. Recorded'
    BY <1>2, <1>6, <2>3, <2>4 DEF Recorded
  <2>6. ASSUME NEW p \in Operators, tool'[p].pc \in {"up", "record"}
        PROVE  /\ \A w \in tool'[p].todo : \A u \in 1..w : u \in tool'[p].todo \/ u \in Mig!Applied'
               /\ tool'[p].pc = "record" => Mig!Lowest(p)' \in built'
    <3>1. CASE p = o
      <4>1. \A w \in tool[o].todo : \A u \in 1..w : u \in tool[o].todo \/ u \in Mig!Applied
        BY <2>1 DEF Forward
      <4>2. QED
        BY <1>4, <1>5, <1>6, <2>6, <3>1, <4>1
    <3>2. CASE p # o
      <4>1. tool'[p] = tool[p] /\ Mig!Lowest(p)' = Mig!Lowest(p)
        BY <1>5, <3>2 DEF Mig!Lowest
      <4>2. QED
        BY <1>6, <2>1, <2>6, <4>1 DEF Forward
    <3>3. QED
      BY <3>1, <3>2
  <2>7. Forward'
    BY <2>6 DEF Forward
  <2>8. \A p \in Operators : tool'[p].pc \notin {"down", "undo"}
    BY <1>4, <1>5, <2>2
  <2>9. QED
    BY <2>5, <2>7, <2>8 DEF Back
<1>9. QED
  BY <1>7, <1>8 DEF MigrationsInv

\* A row is inserted after its schema was built.
LEMMA RecordKeeps == ASSUME Mig!MigrationsAssumption, MigrationsInv, NEW o \in Operators, Mig!Record(o) PROVE MigrationsInv'
<1>1. tool[o].pc = "record" /\ UNCHANGED <<store, built, started, torn>> /\ MigrationsTyped
  BY DEF Mig!Record, MigrationsInv
<1>2. CASE versions' = [versions EXCEPT ![Mig!Lowest(o)] = "current"] /\ Mig!Done(o, Mig!Lowest(o), "up")
  <2>1. CASE Mig!Lowest(o) \in built
    BY <1>1, <1>2, <2>1, RecordedKeeps DEF MigrationsTyped
  <2>2. CASE Mig!Lowest(o) \notin built
    <3>1. torn
      BY <1>1, <2>2 DEF MigrationsInv, Forward
    <3>2. tool[o].todo \subseteq Mig!All /\ tool[o].todo # {}
      BY <1>1 DEF MigrationsTyped, Tools
    <3>3. Mig!Lowest(o) \in Mig!All
      BY <3>2, LowestHighest
    <3>4. PICK x \in Tools : tool' = [tool EXCEPT ![o] = x] /\ (x.pc # "idle" => x.todo # {})
      BY <1>1, <1>2, Left DEF Paces
    <3>5. /\ tool' \in [Operators -> Tools]
          /\ \A p \in Operators : tool'[p].pc # "idle" => tool'[p].todo # {}
      BY <1>1, <3>4, ToolsStay
    <3>6. versions' \in [Mig!All -> {"absent", "current", "rolled_back"}]
      BY <1>1, <1>2, <3>3 DEF MigrationsTyped
    <3>7. MigrationsTyped'
      BY <1>1, <3>5, <3>6 DEF MigrationsTyped, Mig!All
    <3>8. QED
      BY <1>1, <3>1, <3>7 DEF MigrationsInv
  <2>3. QED
    BY <2>1, <2>2
<1>3. CASE Mig!Fail(o) /\ versions' = versions
  BY <1>1, <1>3, FailKeeps DEF MigrationsTyped
<1>4. QED
  BY <1>2, <1>3 DEF Mig!Record

\* Schema and row in one transaction, or neither.
LEMMA ApplyKeeps == ASSUME Mig!MigrationsAssumption, MigrationsInv, NEW o \in Operators, Mig!Apply(o) PROVE MigrationsInv'
<1>1. tool[o].pc = "up" /\ UNCHANGED <<store, started, torn>> /\ MigrationsTyped
  BY DEF Mig!Apply, MigrationsInv
<1>2. CASE /\ built' = built \cup {Mig!Lowest(o)}
           /\ versions' = [versions EXCEPT ![Mig!Lowest(o)] = "current"] /\ Mig!Done(o, Mig!Lowest(o), "up")
  <2>1. tool[o].todo \subseteq Mig!All /\ tool[o].todo # {}
    BY <1>1 DEF MigrationsTyped, Tools
  <2>2. Mig!Lowest(o) \in Mig!All
    BY <2>1, LowestHighest
  <2>3. QED
    BY <1>1, <1>2, <2>2, RecordedKeeps DEF MigrationsTyped
<1>3. CASE Mig!Fail(o) /\ UNCHANGED <<built, versions>>
  BY <1>1, <1>3, FailKeeps DEF MigrationsTyped
<1>4. QED
  BY <1>2, <1>3 DEF Mig!Apply

\* Who is on the way back undoes the last of the current versions.
LEMMA LastUndone ==
    ASSUME Mig!MigrationsAssumption, MigrationsInv, ~torn, NEW o \in Operators, tool[o].pc \in {"down", "undo"},
           NEW v, v = Mig!Highest(o)
    PROVE  /\ v \in tool[o].todo /\ v \in Mig!Applied /\ v \in Nat
           /\ \A u \in Mig!Applied : u \in Nat /\ u <= v
           /\ \A u \in tool[o].todo : u \in Nat /\ u <= v
<1>1. tool[o].todo \subseteq Mig!All /\ tool[o].todo # {}
  BY DEF MigrationsInv, MigrationsTyped, Tools
<1>2. v \in tool[o].todo /\ \A u \in tool[o].todo : u \in Nat /\ u <= v
  BY <1>1, LowestHighest
<1>3. Back
  BY DEF MigrationsInv
<1>4. \A u \in Mig!Applied : u >= v => u \in tool[o].todo
  BY <1>2, <1>3 DEF Back
<1>5. v \in Mig!Applied /\ \A u \in Mig!Applied : u \in Nat
  BY <1>2, <1>3 DEF Back, Mig!Applied, Mig!All
<1>6. QED
  BY <1>2, <1>4, <1>5

\* The schema is dropped before the row.
LEMMA DropKeeps == ASSUME Mig!MigrationsAssumption, MigrationsInv, NEW o \in Operators, Mig!Drop(o) PROVE MigrationsInv'
<1>1. PICK v : v = Mig!Highest(o)
  OBVIOUS
<1>2. /\ tool[o].pc = "down" /\ UNCHANGED <<store, versions, started, torn>> /\ MigrationsTyped
      /\ built' = Mig!Dropped(v) /\ tool' = [tool EXCEPT ![o].pc = "undo"]
  BY <1>1 DEF Mig!Drop, Mig!Undone, MigrationsInv
<1> DEFINE x == [tool[o] EXCEPT !.pc = "undo"]
<1>3. x \in Tools /\ x.pc = "undo" /\ x.todo = tool[o].todo /\ tool' = [tool EXCEPT ![o] = x] /\ x.todo # {}
  BY <1>2 DEF Tools, Paces, MigrationsTyped
<1> HIDE DEF x
<1>4. /\ tool' \in [Operators -> Tools] /\ tool'[o] = x
      /\ \A p \in Operators \ {o} : tool'[p] = tool[p]
      /\ \A p \in Operators : tool'[p].pc # "idle" => tool'[p].todo # {}
  BY <1>2, <1>3, ToolsStay
<1>5. built' \subseteq built
  BY <1>2 DEF Mig!Dropped
<1>6. MigrationsTyped'
  BY <1>2, <1>4, <1>5 DEF MigrationsTyped, Mig!All
<1>7. ASSUME ~torn' PROVE Recorded' /\ Forward' /\ Back'
  <2>1. Recorded /\ Forward /\ Back /\ ~torn
    BY <1>2, <1>7 DEF MigrationsInv
  <2>2. \A p \in Operators \ {o} : tool[p].pc = "idle" /\ tool'[p].pc = "idle"
    BY <1>2, <1>4, <2>1 DEF Back
  <2>3. Mig!Applied' = Mig!Applied
    BY <1>2 DEF Mig!Applied, Mig!All
  <2>4. /\ v \in tool[o].todo /\ v \in Mig!Applied /\ v \in Nat
        /\ \A u \in Mig!Applied : u \in Nat /\ u <= v
    BY <1>1, <1>2, <2>1, LastUndone
  <2>5. Mig!Highest(o)' = v
    BY <1>1, <1>3, <1>4 DEF Mig!Highest
  <2>6. ASSUME NEW w \in Mig!Applied, w # v PROVE w \in built'
    <3>1. w \in built
      BY <1>2, <2>1, <2>2, <2>6 DEF Recorded
    <3>2. w \in Mig!All /\ w < v
      BY <2>4, <2>6 DEF Mig!Applied
    <3>3. v # 1
      BY <2>4, <3>2 DEF Mig!All
    <3>4. QED
      BY <1>2, <2>6, <3>1, <3>3 DEF Mig!Dropped
  <2>7. tool'[o].pc = "undo"
    BY <1>3, <1>4
  <2>8. Recorded'
    BY <2>1, <2>3, <2>5, <2>6, <2>7 DEF Recorded
  <2>9. \A p \in Operators : tool'[p].pc \notin {"up", "record"}
    BY <2>2, <2>7
  <2>10. Back'
    BY <1>2, <1>3, <1>4, <2>1, <2>2, <2>3 DEF Back
  <2>11. QED
    BY <2>8, <2>9, <2>10 DEF Forward
<1>8. QED
  BY <1>6, <1>7 DEF MigrationsInv

\* The last of the current versions is not current any more.
LEMMA UndoneKeeps ==
    ASSUME Mig!MigrationsAssumption, MigrationsInv, NEW o \in Operators, tool[o].pc \in {"down", "undo"},
           versions' = [versions EXCEPT ![Mig!Highest(o)] = "rolled_back"], Mig!Done(o, Mig!Highest(o), "down"),
           \/ tool[o].pc = "undo" /\ built' = built
           \/ Mig!Highest(o) # 1 /\ built' = built \ {Mig!Highest(o)},
           UNCHANGED <<store, started, torn>>
    PROVE  MigrationsInv'
<1>1. MigrationsTyped /\ built' \subseteq built
  BY DEF MigrationsInv
<1>2. PICK v : v = Mig!Highest(o)
  OBVIOUS
<1>3. tool[o].todo \subseteq Mig!All /\ v \in tool[o].todo /\ v \in Mig!All
  <2>1. tool[o].todo \subseteq Mig!All /\ tool[o].todo # {}
    BY <1>1 DEF MigrationsTyped, Tools
  <2>2. QED
    BY <1>2, <2>1, LowestHighest
<1>4. PICK x \in Tools : /\ tool' = [tool EXCEPT ![o] = x] /\ (x.pc # "idle" => x.todo # {})
                         /\ x.pc \in {"idle", "down"}
                         /\ x.pc # "idle" => x.todo = tool[o].todo \ {v}
  BY <1>1, <1>2, Left DEF Paces
<1>5. /\ tool' \in [Operators -> Tools] /\ tool'[o] = x
      /\ \A p \in Operators \ {o} : tool'[p] = tool[p]
      /\ \A p \in Operators : tool'[p].pc # "idle" => tool'[p].todo # {}
  BY <1>1, <1>4, ToolsStay
<1>6. versions' \in [Mig!All -> {"absent", "current", "rolled_back"}] /\ Mig!Applied' = Mig!Applied \ {v}
  BY <1>1, <1>2, <1>3 DEF MigrationsTyped, Mig!Applied, Mig!All
<1>7. MigrationsTyped'
  BY <1>1, <1>5, <1>6 DEF MigrationsTyped, Mig!All
<1>8. ASSUME ~torn' PROVE Recorded' /\ Forward' /\ Back'
  <2>1. Recorded /\ Forward /\ Back /\ ~torn
    BY <1>8 DEF MigrationsInv
  <2>2. \A p \in Operators \ {o} : tool[p].pc = "idle" /\ tool'[p].pc = "idle"
    BY <1>5, <2>1 DEF Back
  <2>3. /\ v \in tool[o].todo /\ v \in Mig!Applied /\ v \in Nat
        /\ \A u \in Mig!Applied : u \in Nat /\ u <= v
        /\ \A u \in tool[o].todo : u \in Nat /\ u <= v
    BY <1>2, <2>1, LastUndone
  <2>4. ASSUME NEW w \in Mig!Applied, w # v PROVE w \in built' /\ \A u \in 1..w : u \in Mig!Applied \ {v}
    <3>1. w \in built
      BY <1>2, <2>1, <2>2, <2>4 DEF Recorded
    <3>2. w < v /\ w \in Nat
      BY <2>3, <2>4
    <3>3. \A u \in 1..w : u \in Mig!Applied /\ u # v
      BY <2>1, <2>3, <3>2 DEF Recorded
    <3>4. QED
      BY <1>2, <2>4, <3>1, <3>3
  <2>5. Recorded'
    BY <1>6, <2>4 DEF Recorded
  <2>6. \A p \in Operators : tool'[p].pc \notin {"up", "record"}
    BY <1>4, <1>5, <2>2
  <2>7. Back'
    <3>1. /\ tool[o].todo \subseteq Mig!Applied
          /\ \A t \in tool[o].todo : \A u \in Mig!Applied : u >= t => u \in tool[o].todo
      BY <2>1 DEF Back
    <3>2. tool'[o].pc # "idle" => /\ tool'[o].todo \subseteq Mig!Applied'
                                  /\ \A t \in tool'[o].todo : \A u \in Mig!Applied' : u >= t => u \in tool'[o].todo
      BY <1>4, <1>5, <1>6, <3>1
    <3>3. QED
      BY <2>2, <3>2 DEF Back
  <2>8. QED
    BY <2>5, <2>6, <2>7 DEF Forward
<1>9. QED
  BY <1>7, <1>8 DEF MigrationsInv

\* The steps of the migrations.
LEMMA MigrationsStep ==
    ASSUME Mig!MigrationsAssumption, MigrationsInv, [Mig!Next]_(Mig!vars)
    PROVE  MigrationsInv'
<1>1. ASSUME NEW o \in Operators, Mig!Undo(o) PROVE MigrationsInv'
  <2>1. /\ tool[o].pc = "undo" /\ versions' = [versions EXCEPT ![Mig!Highest(o)] = "rolled_back"]
        /\ Mig!Done(o, Mig!Highest(o), "down") /\ UNCHANGED <<store, built, started, torn>>
    BY <1>1 DEF Mig!Undo, Mig!Undone
  <2>2. QED
    BY <2>1, UndoneKeeps
<1>2. ASSUME NEW o \in Operators, Mig!RollBack(o) PROVE MigrationsInv'
  <2>1. /\ tool[o].pc = "down" /\ Mig!Highest(o) # 1
        /\ versions' = [versions EXCEPT ![Mig!Highest(o)] = "rolled_back"]
        /\ Mig!Done(o, Mig!Highest(o), "down") /\ UNCHANGED <<store, started, torn>>
        /\ built' = built \ {Mig!Highest(o)}
    BY <1>2 DEF Mig!RollBack, Mig!Undone, Mig!Dropped
  <2>2. QED
    BY <2>1, UndoneKeeps
<1>3. ASSUME NEW o \in Operators, Mig!Interrupt(o) PROVE MigrationsInv'
  <2>1. /\ tool[o].pc # "idle" /\ Mig!Fail(o) /\ UNCHANGED <<store, versions, built, started>>
        /\ torn' = (torn \/ tool[o].pc = "undo" \/ (tool[o].pc = "down" /\ store = "sqlite"))
    BY <1>3 DEF Mig!Interrupt, Mig!Busy
  <2>2. torn' \in BOOLEAN /\ (~torn' => ~torn /\ tool[o].pc # "undo")
    BY <2>1, Zenon
  <2>3. QED
    BY <2>1, <2>2, FailKeeps
<1>4. CASE UNCHANGED Mig!vars
  <2>1. UNCHANGED <<store, versions, built, tool, started, torn>>
    BY <1>4 DEF Mig!vars
  <2>2. MigrationsTyped'
    BY <2>1 DEF MigrationsInv, MigrationsTyped, Mig!All
  <2>3. Mig!Applied' = Mig!Applied
    BY <2>1 DEF Mig!Applied, Mig!All
  <2>4. \A o \in Operators : Mig!Highest(o)' = Mig!Highest(o) /\ Mig!Lowest(o)' = Mig!Lowest(o)
    BY <2>1 DEF Mig!Highest, Mig!Lowest
  <2>5. ~torn' => Recorded' /\ Forward' /\ Back'
    BY <2>1, <2>3, <2>4 DEF MigrationsInv, Recorded, Forward, Back
  <2>6. QED
    BY <2>2, <2>5 DEF MigrationsInv
<1>5. QED
  BY <1>1, <1>2, <1>3, <1>4, InitDbKeeps, MigrateKeeps, RollbackKeeps, BuildKeeps, RecordKeeps, ApplyKeeps,
     DropKeeps DEF Mig!Next

\* What is kept is what the runs check of the migrations.
LEMMA MigrationsMean ==
    ASSUME MigrationsInv
    PROVE  Mig!SchemaAsRecorded /\ Mig!TypeOK
<1>1. Mig!SchemaAsRecorded
  <2> SUFFICES ASSUME ~torn PROVE /\ \A v \in Mig!Applied : 1..v \subseteq Mig!Applied
                                  /\ \A v \in Mig!Applied : v \in built \/ Mig!Undoing(v)
    BY DEF Mig!SchemaAsRecorded
  <2>1. QED
    BY DEF MigrationsInv, Recorded, Mig!Undoing, Mig!Undone
<1>2. Mig!TypeOK
  BY DEF MigrationsInv, MigrationsTyped, Tools, Mig!TypeOK, Mig!Busy
<1>3. QED
  BY <1>1, <1>2

\* What was rolled back is in the way of its own return.
LEMMA BackStays ==
    ASSUME MigrationsInv, [Mig!Next]_(Mig!vars)
    PROVE  \A v \in Mig!All : versions[v] = "rolled_back" => versions'[v] = "rolled_back"
<1>1. versions \in [Mig!All -> {"absent", "current", "rolled_back"}]
  BY DEF MigrationsInv, MigrationsTyped
<1>2. ASSUME NEW v, versions[v] = "absent", versions' = [versions EXCEPT ![v] = "current"]
      PROVE  \A u \in Mig!All : versions[u] = "rolled_back" => versions'[u] = "rolled_back"
  BY <1>1, <1>2
<1>3. ASSUME NEW v, versions' = [versions EXCEPT ![v] = "rolled_back"]
      PROVE  \A u \in Mig!All : versions[u] = "rolled_back" => versions'[u] = "rolled_back"
  BY <1>1, <1>3
<1>4. ASSUME NEW o \in Operators, Mig!Record(o) \/ Mig!Apply(o) \/ Mig!Undo(o) \/ Mig!RollBack(o)
      PROVE  \A u \in Mig!All : versions[u] = "rolled_back" => versions'[u] = "rolled_back"
  BY <1>2, <1>3, <1>4 DEF Mig!Record, Mig!Apply, Mig!Undo, Mig!RollBack, Mig!CanRecord
<1>5. CASE versions' = versions
  BY <1>5
<1>6. QED
  BY <1>4, <1>5 DEF Mig!Next, Mig!vars, Mig!InitDb, Mig!Build, Mig!Drop, Mig!Interrupt, Mig!Migrate, Mig!Rollback

-----------------------------------------------------------------------------
(* Deepening of research.                                                   *)

Dee == INSTANCE Deepening

Ages == 0..Fresh
DeeTopics == Subjects \cup {"none"}
DeeNodes == [there : BOOLEAN, created : Ages, updated : Ages, topic : DeeTopics, depth : 0..MaxDepth]
DeeTodo == [topic : Subjects, depth : 0..(MaxDepth - 1)]
DeeJobs ==
    [pc : {"idle", "cycle", "deepen", "extract", "synthesize"}, todo : SUBSET DeeTodo,
     topic : DeeTopics, depth : 0..MaxDepth]

DeeTyped ==
    /\ nodes \in [Found -> DeeNodes] /\ digger \in [Deepeners \cup Pipelines -> DeeJobs]
    /\ passed \in [Subjects -> Ages]
    /\ \A e \in Found : nodes[e].updated <= nodes[e].created
    /\ \A d \in Deepeners \cup Pipelines : digger[d].pc = "idle" => digger[d].todo = {}

\* Of a topic of which something was found some entity tells since when, unless one of its
\* entities was claimed for another.
Told(t) ==
    passed[t] < Fresh => \E e \in Found : /\ nodes[e].there /\ nodes[e].topic = t
                                          /\ nodes[e].updated <= passed[t]

DeeInv == DeeTyped /\ \A t \in Subjects \ taken : Told(t)

\* At first there is nothing.
LEMMA DeeStart == Dee!DeepeningAssumption /\ Dee!Init => DeeInv
<1> SUFFICES ASSUME Dee!DeepeningAssumption, Dee!Init PROVE DeeInv
  OBVIOUS
<1>1. Dee!AtRest \in DeeJobs /\ Dee!Absent \in DeeNodes
  BY DEF Dee!AtRest, Dee!Absent, DeeJobs, DeeNodes, Ages, DeeTopics, Dee!DeepeningAssumption
<1>2. /\ nodes = [e \in Found |-> Dee!Absent] /\ passed = [t \in Subjects |-> Fresh]
      /\ digger = [d \in Deepeners \cup Pipelines |-> Dee!AtRest]
  BY DEF Dee!Init
<1>3. Fresh \in Nat
  BY DEF Dee!DeepeningAssumption
<1>4. DeeTyped
  BY <1>1, <1>2, <1>3 DEF DeeTyped, Dee!Absent, Dee!AtRest, Ages
<1>5. \A t \in Subjects : Told(t)
  BY <1>2, <1>3 DEF Told
<1>6. QED
  BY <1>4, <1>5 DEF DeeInv

\* What is stored of an entity.
LEMMA DeeStored ==
    ASSUME Dee!DeepeningAssumption, DeeTyped, NEW e \in Found, NEW t \in DeeTopics, NEW n \in 0..MaxDepth
    PROVE  /\ Dee!Stored(e, t, n) \in DeeNodes /\ Dee!Stored(e, t, n).there
           /\ Dee!Stored(e, t, n).topic = t /\ Dee!Stored(e, t, n).updated = 0
<1>1. nodes[e] \in DeeNodes
  BY DEF DeeTyped
<1>2. 0 \in Ages
  BY DEF Ages, Dee!DeepeningAssumption
<1>3. QED
  BY <1>1, <1>2 DEF DeeNodes, Dee!Stored

\* The types after an entity was stored.
LEMMA DeeStores ==
    ASSUME Dee!DeepeningAssumption, DeeTyped, NEW e \in Found, NEW t \in DeeTopics, NEW n \in 0..MaxDepth,
           nodes' = [nodes EXCEPT ![e] = Dee!Stored(e, t, n)]
    PROVE  /\ nodes' \in [Found -> DeeNodes] /\ \A f \in Found : nodes'[f].updated <= nodes'[f].created
           /\ nodes'[e].there /\ nodes'[e].topic = t /\ nodes'[e].updated = 0
           /\ \A f \in Found \ {e} : nodes'[f] = nodes[f]
<1>1. nodes \in [Found -> DeeNodes] /\ \A f \in Found : nodes[f].updated <= nodes[f].created
  BY DEF DeeTyped
<1>2. PICK new \in DeeNodes : /\ new = Dee!Stored(e, t, n) /\ new.there /\ new.topic = t
                              /\ new.updated = 0
  BY DeeStored
<1>3. nodes' = [nodes EXCEPT ![e] = new]
  BY <1>2
<1>4. new.updated <= new.created
  BY <1>2 DEF DeeNodes, Ages
<1>5. QED
  BY <1>1, <1>2, <1>3, <1>4

\* Whoever reports an entity only makes it younger.
LEMMA ReportKeepsDee ==
    ASSUME Dee!DeepeningAssumption, DeeInv, NEW e \in Found, Dee!Report(e) PROVE DeeInv'
<1>1. nodes[e] \in DeeNodes /\ nodes[e].topic \in DeeTopics /\ nodes[e].depth \in 0..MaxDepth /\ DeeTyped
  BY DEF DeeInv, DeeTyped, DeeNodes
<1>2. nodes' = [nodes EXCEPT ![e] = Dee!Stored(e, nodes[e].topic, nodes[e].depth)]
  BY <1>1 DEF Dee!Report, DeeTyped
<1>3. UNCHANGED <<digger, passed, taken>>
  BY DEF Dee!Report
<1>4. /\ nodes' \in [Found -> DeeNodes] /\ \A f \in Found : nodes'[f].updated <= nodes'[f].created
      /\ nodes'[e].there /\ nodes'[e].topic = nodes[e].topic /\ nodes'[e].updated = 0
      /\ \A f \in Found \ {e} : nodes'[f] = nodes[f]
  BY <1>1, <1>2, DeeStores
<1>5. ASSUME NEW t \in Subjects, Told(t) PROVE Told(t)'
  <2> SUFFICES ASSUME passed[t] < Fresh
               PROVE  \E f \in Found : /\ nodes'[f].there /\ nodes'[f].topic = t
                                       /\ nodes'[f].updated <= passed[t]
    BY <1>3 DEF Told
  <2>1. PICK f \in Found : nodes[f].there /\ nodes[f].topic = t /\ nodes[f].updated <= passed[t]
    BY <1>5 DEF Told
  <2>2. 0 <= passed[t]
    BY <1>1 DEF DeeTyped, Ages
  <2>3. QED
    BY <1>4, <2>1, <2>2
<1>6. DeeTyped'
  BY <1>1, <1>3, <1>4 DEF DeeTyped
<1>7. QED
  BY <1>3, <1>5, <1>6 DEF DeeInv

\* What a pass finds tells that it was there, and what it takes from others is taken.
LEMMA FindKeepsDee ==
    ASSUME Dee!DeepeningAssumption, DeeInv, NEW d \in Deepeners \cup Pipelines, NEW e \in Found,
           Dee!Find(d, e)
    PROVE  DeeInv'
<1> DEFINE r == digger[d]
<1>1. r \in DeeJobs /\ r.topic \in DeeTopics /\ r.depth \in 0..MaxDepth /\ DeeTyped
  BY DEF DeeInv, DeeTyped, DeeJobs
<1>2. /\ nodes' = [nodes EXCEPT ![e] = Dee!Stored(e, r.topic, r.depth)]
      /\ passed' = [passed EXCEPT ![r.topic] = 0]
      /\ taken' = (taken \cup {nodes[e].topic}) \ {r.topic, "none"} /\ UNCHANGED digger
  BY DEF Dee!Find
<1>3. /\ nodes' \in [Found -> DeeNodes] /\ \A f \in Found : nodes'[f].updated <= nodes'[f].created
      /\ nodes'[e].there /\ nodes'[e].topic = r.topic /\ nodes'[e].updated = 0
      /\ \A f \in Found \ {e} : nodes'[f] = nodes[f]
  BY <1>1, <1>2, DeeStores
<1>4. 0 \in Ages /\ "none" \notin Subjects
  BY DEF Ages, Dee!DeepeningAssumption
<1>5. passed' \in [Subjects -> Ages] /\ \A t \in Subjects : passed'[t] = IF t = r.topic THEN 0 ELSE passed[t]
  BY <1>1, <1>2, <1>4 DEF DeeTyped
<1>6. DeeTyped'
  BY <1>1, <1>2, <1>3, <1>5 DEF DeeTyped
<1>7. ASSUME NEW t \in Subjects \ taken' PROVE Told(t)'
  <2>1. CASE t = r.topic
    BY <1>3, <1>5, <2>1 DEF Told
  <2>2. CASE t # r.topic
    <3>1. t \notin taken /\ nodes[e].topic # t
      BY <1>2, <1>4, <2>2
    <3>2. Told(t)
      BY <3>1 DEF DeeInv
    <3>3. QED
      BY <1>3, <1>5, <2>2, <3>1, <3>2 DEF Told
  <2>3. QED
    BY <2>1, <2>2
<1>8. QED
  BY <1>6, <1>7 DEF DeeInv

\* Time passes for all alike.
LEMMA TickKeepsDee == ASSUME Dee!DeepeningAssumption, DeeInv, Dee!Tick PROVE DeeInv'
<1>1. /\ nodes' = [e \in Found |-> [nodes[e] EXCEPT !.created = Dee!Older(@), !.updated = Dee!Older(@)]]
      /\ passed' = [t \in Subjects |-> Dee!Older(passed[t])] /\ UNCHANGED <<digger, taken>>
  BY DEF Dee!Tick
<1>2. Fresh \in Nat /\ DeeTyped
  BY DEF Dee!DeepeningAssumption, DeeInv
<1>3. \A a \in Ages, b \in Ages :
         /\ Dee!Older(a) \in Ages /\ (a <= b => Dee!Older(a) <= Dee!Older(b))
         /\ a <= Dee!Older(a)
  BY <1>2 DEF Dee!Older, Ages
<1>4. ASSUME NEW e \in Found
      PROVE  /\ nodes'[e] \in DeeNodes /\ nodes'[e].updated <= nodes'[e].created
             /\ nodes'[e].there = nodes[e].there /\ nodes'[e].topic = nodes[e].topic
             /\ nodes'[e].updated = Dee!Older(nodes[e].updated)
  <2>1. nodes[e] \in DeeNodes /\ nodes[e].updated <= nodes[e].created
    BY <1>2 DEF DeeTyped
  <2>2. PICK c, u : c = Dee!Older(nodes[e].created) /\ u = Dee!Older(nodes[e].updated)
    OBVIOUS
  <2>3. c \in Ages /\ u \in Ages /\ u <= c
    BY <1>3, <2>1, <2>2 DEF DeeNodes
  <2>4. nodes'[e] = [nodes[e] EXCEPT !.created = c, !.updated = u]
    BY <1>1, <2>2
  <2>5. QED
    BY <2>1, <2>2, <2>3, <2>4 DEF DeeNodes
<1>5. nodes' \in [Found -> DeeNodes]
  BY <1>1, <1>4
<1>6. passed' \in [Subjects -> Ages] /\ \A t \in Subjects : passed'[t] = Dee!Older(passed[t])
  BY <1>1, <1>2, <1>3 DEF DeeTyped
<1>7. DeeTyped'
  BY <1>1, <1>2, <1>4, <1>5, <1>6 DEF DeeTyped
<1>8. ASSUME NEW t \in Subjects \ taken PROVE Told(t)'
  <2> SUFFICES ASSUME passed'[t] < Fresh PROVE Told(t)'
    BY DEF Told
  <2>1. passed[t] \in Ages /\ passed[t] < Fresh
    <3>1. passed[t] \in Ages
      BY <1>2 DEF DeeTyped
    <3>2. passed[t] <= passed'[t] /\ passed'[t] \in Ages
      BY <1>3, <1>6, <3>1
    <3>3. QED
      BY <1>2, <3>1, <3>2 DEF Ages
  <2>2. PICK e \in Found : nodes[e].there /\ nodes[e].topic = t /\ nodes[e].updated <= passed[t]
    BY <2>1 DEF DeeInv, Told
  <2>3. nodes[e].updated \in Ages
    BY <1>2 DEF DeeTyped, DeeNodes
  <2>4. nodes'[e].there /\ nodes'[e].topic = t /\ nodes'[e].updated <= passed'[t]
    BY <1>3, <1>4, <1>6, <2>1, <2>2, <2>3
  <2>5. QED
    BY <2>4 DEF Told
<1>9. QED
  BY <1>1, <1>7, <1>8 DEF DeeInv

\* How deep a topic that qualifies is.
LEMMA DeeDepth ==
    ASSUME Dee!DeepeningAssumption, DeeTyped, NEW t \in Subjects, Dee!Qualifies(t)
    PROVE  Dee!CurrentDepth(t) \in 0..(MaxDepth - 1)
<1> DEFINE D == {nodes[e].depth : e \in Dee!Cluster(t)}
<1>1. Dee!Cluster(t) # {}
  <2>1. Dee!Cardinality({}) = 0
    BY FS_EmptySet, Zenon DEF Dee!Cardinality, Cardinality
  <2>2. QED
    BY <2>1 DEF Dee!Qualifies, Dee!DeepeningAssumption
<1>2. MaxDepth \in Nat /\ D # {} /\ \A k \in D : k \in Nat /\ k <= MaxDepth
  <2>1. \A e \in Dee!Cluster(t) : nodes[e].depth \in 0..MaxDepth
    BY DEF Dee!Cluster, Dee!Recent, Dee!There, DeeTyped, DeeNodes
  <2>2. QED
    BY <1>1, <2>1 DEF Dee!DeepeningAssumption
<1> HIDE DEF D
<1>3. \E n \in D : \A k \in D : n >= k
  <2> DEFINE R == {MaxDepth - k : k \in D}
  <2>1. R \subseteq Nat /\ R # {}
    BY <1>2
  <2>2. PICK r \in R : \A s \in R : r <= s
    BY <2>1, LeastOf
  <2>3. PICK n \in D : r = MaxDepth - n
    BY <2>2
  <2>4. \A k \in D : MaxDepth - n <= MaxDepth - k
    BY <2>2, <2>3
  <2>5. QED
    BY <1>2, <2>4
<1>4. Dee!Max(D) \in D
  BY <1>3, Zenon DEF Dee!Max
<1>5. Dee!CurrentDepth(t) \in D
  BY <1>4 DEF Dee!CurrentDepth, D
<1>6. Dee!CurrentDepth(t) < MaxDepth
  BY DEF Dee!Qualifies
<1>7. QED
  BY <1>2, <1>5, <1>6

\* A thread that moves on leaves what is known of topics.
LEMMA DeeMoves ==
    ASSUME DeeInv, UNCHANGED <<nodes, passed, taken>>, NEW d \in Deepeners \cup Pipelines,
           NEW doing \in DeeJobs, doing.pc = "idle" => doing.todo = {}, digger' = [digger EXCEPT ![d] = doing]
    PROVE  DeeInv'
<1>1. DeeTyped /\ digger \in [Deepeners \cup Pipelines -> DeeJobs]
  BY DEF DeeInv, DeeTyped
<1>2. /\ digger' \in [Deepeners \cup Pipelines -> DeeJobs]
      /\ \A u \in Deepeners \cup Pipelines : digger'[u].pc = "idle" => digger'[u].todo = {}
  BY <1>1 DEF DeeTyped
<1>3. QED
  BY <1>2 DEF DeeInv, DeeTyped, Told

\* A cycle takes up topics that qualify.
LEMMA DetectKeeps ==
    ASSUME Dee!DeepeningAssumption, DeeInv, NEW d \in Deepeners, Dee!Detect(d) PROVE DeeInv'
<1>1. PICK S \in SUBSET {t \in Subjects : Dee!Qualifies(t)} :
         digger' = [digger EXCEPT ![d] = [Dee!AtRest EXCEPT !.pc = "cycle",
                       !.todo = {[topic |-> t, depth |-> Dee!CurrentDepth(t)] : t \in S}]]
  BY DEF Dee!Detect
<1>2. UNCHANGED <<nodes, passed, taken>> /\ d \in Deepeners \cup Pipelines
  BY DEF Dee!Detect
<1>3. DeeTyped /\ MaxDepth \in Nat
  BY DEF DeeInv, Dee!DeepeningAssumption
<1>4. PICK todo : todo = {[topic |-> t, depth |-> Dee!CurrentDepth(t)] : t \in S}
  OBVIOUS
<1>5. todo \in SUBSET DeeTodo
  BY <1>3, <1>4, DeeDepth DEF DeeTodo
<1>6. PICK doing : doing = [Dee!AtRest EXCEPT !.pc = "cycle", !.todo = todo]
  OBVIOUS
<1>7. doing \in DeeJobs /\ doing.pc = "cycle"
  <2>1. doing = [pc |-> "cycle", todo |-> todo, topic |-> "none", depth |-> 0]
    BY <1>6 DEF Dee!AtRest
  <2>2. 0 \in 0..MaxDepth /\ "none" \in DeeTopics
    BY <1>3 DEF DeeTopics
  <2>3. QED
    BY <1>5, <2>1, <2>2 DEF DeeJobs
<1>8. digger' = [digger EXCEPT ![d] = doing]
  BY <1>1, <1>4, <1>6
<1>9. QED
  BY <1>2, <1>7, <1>8, DeeMoves

\* A step of the deepeners, or one in which they rest.
LEMMA DeeStep == ASSUME Dee!DeepeningAssumption, DeeInv, [Dee!Next]_(Dee!vars) PROVE DeeInv'
<1> DEFINE D == Deepeners \cup Pipelines
<1>1. /\ digger \in [D -> DeeJobs] /\ MaxDepth \in Nat \ {0}
      /\ Dee!AtRest \in DeeJobs /\ Dee!AtRest.topic \in DeeTopics /\ Dee!AtRest.todo = {}
      /\ Deepeners \subseteq D /\ Pipelines \subseteq D
  BY DEF DeeInv, DeeTyped, Dee!DeepeningAssumption, Dee!AtRest, DeeJobs, DeeTopics
<1>2. ASSUME NEW d \in Deepeners, Dee!Deepen(d) PROVE DeeInv'
  <2>1. PICK c \in digger[d].todo :
           digger' = [digger EXCEPT ![d] = [pc |-> "deepen", todo |-> digger[d].todo \ {c},
                                            topic |-> c.topic, depth |-> c.depth + 1]]
    BY <1>1, <1>2 DEF Dee!Deepen
  <2>2. digger[d].todo \in SUBSET DeeTodo /\ c \in DeeTodo
    BY <1>1 DEF DeeJobs
  <2>3. PICK doing : doing = [pc |-> "deepen", todo |-> digger[d].todo \ {c}, topic |-> c.topic,
                          depth |-> c.depth + 1]
    OBVIOUS
  <2>4. doing \in DeeJobs /\ doing.pc = "deepen"
    BY <1>1, <2>2, <2>3 DEF DeeJobs, DeeTodo, DeeTopics
  <2>5. digger' = [digger EXCEPT ![d] = doing] /\ UNCHANGED <<nodes, passed, taken>>
    BY <1>2, <2>1, <2>3 DEF Dee!Deepen
  <2>6. QED
    BY <1>1, <2>4, <2>5, DeeMoves
<1>3. ASSUME NEW d \in D, Dee!EndPass(d) PROVE DeeInv'
  <2>1. PICK doing : doing = IF d \in Pipelines THEN [digger[d] EXCEPT !.pc = "synthesize"]
                         ELSE [Dee!AtRest EXCEPT !.pc = "cycle", !.todo = digger[d].todo]
    OBVIOUS
  <2>2. doing \in DeeJobs /\ doing.pc # "idle"
    BY <1>1, <2>1 DEF DeeJobs, Dee!AtRest
  <2>3. digger' = [digger EXCEPT ![d] = doing] /\ UNCHANGED <<nodes, passed, taken>>
    BY <1>1, <1>3, <2>1 DEF Dee!EndPass
  <2>4. QED
    BY <2>2, <2>3, DeeMoves
<1>4. ASSUME NEW d \in Deepeners, Dee!EndCycle(d) PROVE DeeInv'
  BY <1>1, <1>4, DeeMoves DEF Dee!EndCycle
<1>5. ASSUME NEW d \in Pipelines, Dee!Search(d) PROVE DeeInv'
  <2>1. PICK t \in Subjects, next \in {"idle", "extract"} :
           digger' = [digger EXCEPT ![d] = [Dee!AtRest EXCEPT !.pc = next, !.topic = t]]
    BY <1>5 DEF Dee!Search
  <2>2. PICK doing : doing = [Dee!AtRest EXCEPT !.pc = next, !.topic = t]
    OBVIOUS
  <2>3. doing \in DeeJobs /\ doing.todo = {}
    BY <1>1, <2>2 DEF DeeJobs, DeeTopics, Dee!AtRest
  <2>4. digger' = [digger EXCEPT ![d] = doing] /\ UNCHANGED <<nodes, passed, taken>>
    BY <1>5, <2>1, <2>2 DEF Dee!Search
  <2>5. QED
    BY <1>1, <2>3, <2>4, DeeMoves
<1>6. ASSUME NEW d \in Pipelines, Dee!DeepenTopic(d) PROVE DeeInv'
  <2>1. digger[d] \in DeeJobs /\ UNCHANGED <<nodes, passed, taken>>
    BY <1>1, <1>6 DEF Dee!DeepenTopic
  <2>2. CASE digger' = [digger EXCEPT ![d] = [digger[d] EXCEPT !.pc = "deepen", !.depth = 1]]
    <3>1. PICK doing : doing = [digger[d] EXCEPT !.pc = "deepen", !.depth = 1]
      OBVIOUS
    <3>2. doing \in DeeJobs /\ doing.pc = "deepen"
      <4>1. 1 \in 0..MaxDepth
        BY <1>1
      <4>2. QED
        BY <2>1, <3>1, <4>1 DEF DeeJobs
    <3>3. digger' = [digger EXCEPT ![d] = doing]
      BY <2>2, <3>1
    <3>4. QED
      BY <1>1, <2>1, <3>2, <3>3, DeeMoves
  <2>3. CASE digger' = [digger EXCEPT ![d] = [digger[d] EXCEPT !.pc = "synthesize"]]
    <3>1. PICK doing : doing = [digger[d] EXCEPT !.pc = "synthesize"]
      OBVIOUS
    <3>2. doing \in DeeJobs /\ doing.pc = "synthesize"
      BY <2>1, <3>1 DEF DeeJobs
    <3>3. digger' = [digger EXCEPT ![d] = doing]
      BY <2>3, <3>1
    <3>4. QED
      BY <1>1, <2>1, <3>2, <3>3, DeeMoves
  <2>4. QED
    BY <1>1, <1>6, <2>2, <2>3 DEF Dee!DeepenTopic, Dee!Goto
<1>7. ASSUME NEW d \in Pipelines, Dee!Synthesize(d) PROVE DeeInv'
  BY <1>1, <1>7, DeeMoves DEF Dee!Synthesize
<1>8. CASE UNCHANGED Dee!vars
  BY <1>8 DEF Dee!vars, Dee!deepening, DeeInv, DeeTyped, Told
<1>9. QED
  BY <1>2, <1>3, <1>4, <1>5, <1>6, <1>7, <1>8, DetectKeeps, TickKeepsDee, ReportKeepsDee, FindKeepsDee
     DEF Dee!Next, Dee!FindMedium, Dee!FindDeep, Dee!Extract

\* What the invariant says of the types.
LEMMA DeeMeans == DeeInv => Dee!TypeOK
BY DEF DeeInv, DeeTyped, DeeNodes, DeeJobs, Dee!TypeOK

\* No cycle takes up a topic again soon, as far as entities can tell.
LEMMA NotTakenUpSoon ==
    ASSUME Dee!DeepeningAssumption, DeeInv, [Dee!Next]_(Dee!vars), NEW d \in Deepeners, NEW t \in Subjects,
           digger[d].pc = "idle", \E c \in digger'[d].todo : c.topic = t
    PROVE  passed[t] >= Cooldown \/ t \in taken
<1>1. digger \in [Deepeners \cup Pipelines -> DeeJobs] /\ passed[t] \in Ages
      /\ Cooldown \in Nat /\ Fresh \in Nat /\ Cooldown <= Fresh
  BY DEF DeeInv, DeeTyped, Dee!DeepeningAssumption
<1>2. digger[d].todo = {}
  BY DEF DeeInv, DeeTyped
<1>3. digger'[d].todo # {}
  OBVIOUS
<1>4. Dee!Detect(d)
  <2>1. ASSUME NEW u \in Deepeners \cup Pipelines, \E doing : digger' = [digger EXCEPT ![u] = doing],
               u # d
        PROVE  FALSE
    BY <1>1, <1>2, <1>3, <2>1
  <2>2. digger' # digger
    BY <1>2, <1>3
  <2>3. ~Dee!Tick /\ \A e \in Found : ~Dee!Report(e)
    BY <2>2 DEF Dee!Tick, Dee!Report
  <2>4. \A u \in Deepeners \cup Pipelines, e \in Found :
           ~Dee!FindMedium(u, e) /\ ~Dee!FindDeep(u, e) /\ ~Dee!Extract(u, e)
    BY <2>2 DEF Dee!FindMedium, Dee!FindDeep, Dee!Find, Dee!Extract, Dee!Report
  <2>5. ASSUME NEW u \in Pipelines, Dee!Search(u) \/ Dee!DeepenTopic(u) \/ Dee!Synthesize(u)
        PROVE  FALSE
    <3>1. \E doing : digger' = [digger EXCEPT ![u] = doing] /\ (u = d => doing.todo = {})
      BY <1>2, <2>5 DEF Dee!Search, Dee!DeepenTopic, Dee!Synthesize, Dee!Goto, Dee!AtRest
    <3>2. QED
      BY <1>1, <1>2, <1>3, <3>1
  <2>6. ASSUME NEW u \in Deepeners, Dee!Deepen(u) \/ Dee!EndCycle(u) PROVE FALSE
    <3>1. u # d
      BY <2>6 DEF Dee!Deepen, Dee!EndCycle
    <3>2. \E doing : digger' = [digger EXCEPT ![u] = doing]
      BY <2>6 DEF Dee!Deepen, Dee!EndCycle
    <3>3. QED
      BY <2>1, <3>1, <3>2
  <2>7. ASSUME NEW u \in Deepeners \cup Pipelines, Dee!EndPass(u) PROVE FALSE
    <3>1. u # d
      BY <2>7 DEF Dee!EndPass
    <3>2. \E doing : digger' = [digger EXCEPT ![u] = doing]
      BY <2>7 DEF Dee!EndPass
    <3>3. QED
      BY <2>1, <3>1, <3>2
  <2>8. ASSUME NEW u \in Deepeners, Dee!Detect(u) PROVE u = d
    <3>1. \E doing : digger' = [digger EXCEPT ![u] = doing]
      BY <2>8 DEF Dee!Detect
    <3>2. QED
      BY <2>1, <3>1
  <2>9. Dee!Next
    BY <2>2 DEF Dee!vars, Dee!deepening
  <2>10. QED
    BY <2>3, <2>4, <2>5, <2>6, <2>7, <2>8, <2>9 DEF Dee!Next
<1>5. PICK S \in SUBSET {s \in Subjects : Dee!Qualifies(s)} :
         digger' = [digger EXCEPT ![d] = [Dee!AtRest EXCEPT !.pc = "cycle",
                       !.todo = {[topic |-> s, depth |-> Dee!CurrentDepth(s)] : s \in S}]]
  BY <1>4 DEF Dee!Detect
<1>6. digger'[d].todo = {[topic |-> s, depth |-> Dee!CurrentDepth(s)] : s \in S}
  <2>1. PICK doing : doing = [Dee!AtRest EXCEPT !.pc = "cycle",
                             !.todo = {[topic |-> s, depth |-> Dee!CurrentDepth(s)] : s \in S}]
    OBVIOUS
  <2>2. doing.todo = {[topic |-> s, depth |-> Dee!CurrentDepth(s)] : s \in S}
    BY <2>1 DEF Dee!AtRest
  <2>3. QED
    BY <1>1, <1>5, <2>1, <2>2
<1>7. Dee!Qualifies(t)
  BY <1>5, <1>6
<1>8. ASSUME passed[t] < Cooldown, t \notin taken PROVE FALSE
  <2>1. PICK e \in Found : nodes[e].there /\ nodes[e].topic = t /\ nodes[e].updated <= passed[t]
    BY <1>1, <1>8 DEF DeeInv, Told, Ages
  <2>2. nodes[e].updated \in Ages
    BY DEF DeeInv, DeeTyped, DeeNodes
  <2>3. nodes[e].updated < Cooldown
    BY <1>1, <1>8, <2>1, <2>2 DEF Ages
  <2>4. QED
    BY <1>7, <2>1, <2>3 DEF Dee!Qualifies, Dee!RecentlyDeepened, Dee!There
<1>9. QED
  BY <1>1, <1>8 DEF Ages

-----------------------------------------------------------------------------
(* Pages that feeds and scrapers read.                                      *)

Pag == INSTANCE Pages

PagCounts == [fresh : Nat, expired : Nat]
PagJobs ==
    [pc : {"idle", "remember", "fetch", "drop", "insert", "keep"},
     text : {"none", "summary", "page"}, keep : BOOLEAN]

PagTyped ==
    /\ cached \in [Pag!Texts -> PagCounts] /\ reader \in [Readers -> PagJobs]
    /\ stored \subseteq {"entry", "summary", "page"} /\ failures \in 0..MaxFailures

\* A reader has a text in hand; a summary only for an entry that was stored, when it is about to
\* put it or to keep it.
InReading ==
    \A t \in Readers :
        /\ reader[t].pc \in {"drop", "insert", "keep"} => reader[t].text # "none"
        /\ reader[t].pc = "remember" => reader[t].text = "summary" /\ ~reader[t].keep
        /\ reader[t].pc = "fetch" => reader[t].text = "page"
        /\ reader[t].pc \in {"drop", "insert", "keep"} /\ reader[t].text = "summary" => "entry" \in stored

\* Those that are about to add a row have their place in the bound.
Inserting == {t \in Readers : reader[t].pc = "insert"}
AllRows == Pag!Rows("summary") + Pag!Rows("page")
RowsAhead == AllRows + Cardinality(Inserting) <= Cardinality(Readers) + failures

PagInv == PagTyped /\ InReading /\ Pag!SeenWasStored /\ RowsAhead

\* The cardinalities of the pages are the usual ones.
LEMMA PagesCount == \A S : Pag!Cardinality(S) = Cardinality(S)
BY DEF Pag!Cardinality, Cardinality, Pag!IsFiniteSet, IsFiniteSet

\* Those that insert are some of the readers.
LEMMA SomeInsert ==
    ASSUME IsFiniteSet(Readers)
    PROVE  /\ IsFiniteSet(Inserting) /\ Cardinality(Inserting) \in Nat /\ Cardinality(Readers) \in Nat
           /\ Cardinality(Inserting) <= Cardinality(Readers)
BY FS_Subset, FS_CardinalityType DEF Inserting

\* The rows are numbers.
LEMMA PagRows ==
    ASSUME cached \in [Pag!Texts -> PagCounts]
    PROVE  /\ AllRows \in Nat /\ Pag!Rows("summary") \in Nat /\ Pag!Rows("page") \in Nat
           /\ \A text \in Pag!Texts : cached[text].fresh \in Nat /\ cached[text].expired \in Nat
<1>1. \A text \in Pag!Texts : cached[text].fresh \in Nat /\ cached[text].expired \in Nat
  BY DEF PagCounts
<1>2. "summary" \in Pag!Texts /\ "page" \in Pag!Texts
  BY DEF Pag!Texts
<1>3. QED
  BY <1>1, <1>2 DEF AllRows, Pag!Rows

\* There are no rows at first, and after they were dropped.
LEMMA PagNoRows ==
    /\ Pag!NoRows \in [Pag!Texts -> PagCounts]
    /\ cached = Pag!NoRows => AllRows = 0 /\ Pag!Rows("summary") = 0
    /\ cached' = Pag!NoRows => AllRows' = 0 /\ Pag!Rows("summary")' = 0
<1>1. \A text \in Pag!Texts : Pag!NoRows[text] = [fresh |-> 0, expired |-> 0]
  BY DEF Pag!NoRows
<1>2. "summary" \in Pag!Texts /\ "page" \in Pag!Texts
  BY DEF Pag!Texts
<1>3. Pag!NoRows \in [Pag!Texts -> PagCounts]
  BY DEF Pag!NoRows, PagCounts
<1>4. QED
  BY <1>1, <1>2, <1>3 DEF AllRows, Pag!Rows

\* At first nothing is cached.
LEMMA PagStart == Pag!PagesAssumption /\ Pag!Init => PagInv
<1> SUFFICES ASSUME Pag!PagesAssumption, Pag!Init PROVE PagInv
  OBVIOUS
<1>1. cached = Pag!NoRows /\ stored = {} /\ reader = [t \in Readers |-> Pag!Unoccupied] /\ failures = 0
  BY DEF Pag!Init
<1>2. Pag!Unoccupied \in PagJobs
  BY DEF Pag!Unoccupied, PagJobs
<1>3. PagTyped
  BY <1>1, <1>2, PagNoRows DEF PagTyped, Pag!PagesAssumption
<1>4. InReading /\ Pag!SeenWasStored
  BY <1>1, PagNoRows DEF InReading, Pag!SeenWasStored, Pag!Unoccupied
<1>5. IsFiniteSet(Readers)
  BY DEF Pag!PagesAssumption, Pag!IsFiniteSet, IsFiniteSet
<1>6. RowsAhead
  <2>1. Inserting = {}
    BY <1>1 DEF Inserting, Pag!Unoccupied
  <2>2. QED
    BY <1>1, <1>5, <2>1, SomeInsert, PagNoRows, FS_EmptySet DEF RowsAhead
<1>7. QED
  BY <1>3, <1>4, <1>6 DEF PagInv

\* A reader that moves on, to insert only after a row was dropped or a failure counted.
LEMMA PagMoves ==
    ASSUME Pag!PagesAssumption, PagInv, NEW t \in Readers, NEW new \in PagJobs,
           reader' = [reader EXCEPT ![t] = new]
    PROVE  /\ reader' \in [Readers -> PagJobs] /\ reader'[t] = new
           /\ \A u \in Readers \ {t} : reader'[u] = reader[u]
           /\ new.pc # "insert" /\ reader[t].pc # "insert" => Cardinality(Inserting') = Cardinality(Inserting)
           /\ new.pc # "insert" /\ reader[t].pc = "insert" => Cardinality(Inserting') = Cardinality(Inserting) - 1
           /\ new.pc = "insert" /\ reader[t].pc # "insert" => Cardinality(Inserting') = Cardinality(Inserting) + 1
<1>1. reader' \in [Readers -> PagJobs] /\ reader'[t] = new
      /\ \A u \in Readers \ {t} : reader'[u] = reader[u]
  BY DEF PagInv, PagTyped
<1>2. IsFiniteSet(Inserting)
  BY SomeInsert DEF Pag!PagesAssumption, Pag!IsFiniteSet, IsFiniteSet
<1>3. new.pc # "insert" => Inserting' = Inserting \ {t}
  BY <1>1 DEF Inserting
<1>4. new.pc = "insert" => Inserting' = Inserting \cup {t}
  BY <1>1 DEF Inserting
<1>5. reader[t].pc = "insert" <=> t \in Inserting
  BY DEF Inserting
<1>6. QED
  BY <1>1, <1>2, <1>3, <1>4, <1>5, FS_AddElement, FS_RemoveElement

\* A reader that takes up or fetches a page, or remembers an entry, touches no row.
LEMMA ReadsKeep ==
    ASSUME Pag!PagesAssumption, PagInv, NEW t \in Readers,
           Pag!SeeEntry(t) \/ Pag!RememberEntry(t) \/ Pag!Scrape(t) \/ Pag!Fetch(t) \/ Pag!Keep(t)
    PROVE  PagInv'
<1>1. PagTyped /\ InReading /\ Pag!SeenWasStored /\ RowsAhead /\ reader \in [Readers -> PagJobs]
  BY DEF PagInv, PagTyped
<1>2. \A text \in Pag!Hits : text \in {"summary", "page"} /\ (text = "summary" => "entry" \in stored)
  <2>1. ASSUME "summary" \in Pag!Hits PROVE "entry" \in stored
    <3>1. Pag!Rows("summary") > 0
      BY <1>1, <2>1, PagRows DEF PagTyped, Pag!Hits, Pag!Rows
    <3>2. QED
      BY <1>1, <3>1 DEF Pag!SeenWasStored
  <2>2. QED
    BY <2>1 DEF Pag!Hits, Pag!Texts
<1>3. reader[t] \in PagJobs /\ Pag!Unoccupied \in PagJobs /\ Pag!Unoccupied.pc = "idle"
  BY <1>1 DEF Pag!Unoccupied, PagJobs
<1> DEFINE PagFits(doing) ==
             /\ doing \in PagJobs /\ doing.pc # "insert"
             /\ doing.pc \in {"drop", "keep"} => doing.text # "none"
             /\ doing.pc = "remember" => doing.text = "summary" /\ ~doing.keep
             /\ doing.pc = "fetch" => doing.text = "page"
             /\ doing.pc \in {"drop", "keep"} /\ doing.text = "summary" => "entry" \in stored'
<1>4. PICK new : PagFits(new) /\ reader' = [reader EXCEPT ![t] = new]
  <2>0. CASE Pag!Rest(t)
    <3>1. PagFits(Pag!Unoccupied)
      BY <1>3
    <3>2. QED
      BY <2>0, <3>1 DEF Pag!Rest
  <2>1. CASE Pag!SeeEntry(t)
    <3>1. PICK doing : doing = [Pag!Unoccupied EXCEPT !.pc = "remember", !.text = "summary"]
      OBVIOUS
    <3>2. PagFits(doing)
      BY <3>1 DEF Pag!Unoccupied, PagJobs
    <3>3. reader' = [reader EXCEPT ![t] = doing]
      BY <2>1, <3>1 DEF Pag!SeeEntry
    <3>4. QED
      BY <3>2, <3>3
  <2>2. CASE Pag!RememberEntry(t) /\ ~Pag!Rest(t)
    <3>1. PICK doing : doing = [reader[t] EXCEPT !.pc = "drop"]
      OBVIOUS
    <3>2. reader[t].pc = "remember" /\ reader[t].text = "summary" /\ "entry" \in stored'
      BY <1>1, <2>2 DEF Pag!RememberEntry, Pag!At, InReading
    <3>3. PagFits(doing)
      BY <1>3, <3>1, <3>2 DEF PagJobs
    <3>4. reader' = [reader EXCEPT ![t] = doing]
      BY <2>2, <3>1 DEF Pag!RememberEntry, Pag!Go
    <3>5. QED
      BY <3>3, <3>4
  <2>3. CASE Pag!Scrape(t)
    <3>1. PICK keep \in BOOLEAN :
             \/ reader' = [reader EXCEPT ![t] = [pc |-> "fetch", text |-> "page", keep |-> keep]]
             \/ \E text \in Pag!Hits : reader' = [reader EXCEPT ![t] = [pc |-> "keep", text |-> text, keep |-> TRUE]]
      BY <2>3 DEF Pag!Scrape
    <3>2. CASE reader' = [reader EXCEPT ![t] = [pc |-> "fetch", text |-> "page", keep |-> keep]]
      <4>1. PICK doing : doing = [pc |-> "fetch", text |-> "page", keep |-> keep]
        OBVIOUS
      <4>2. PagFits(doing)
        BY <4>1 DEF PagJobs
      <4>3. QED
        BY <3>2, <4>1, <4>2
    <3>3. CASE \E text \in Pag!Hits : reader' = [reader EXCEPT ![t] = [pc |-> "keep", text |-> text, keep |-> TRUE]]
      <4>1. PICK text \in Pag!Hits : reader' = [reader EXCEPT ![t] = [pc |-> "keep", text |-> text, keep |-> TRUE]]
        BY <3>3
      <4>2. PICK doing : doing = [pc |-> "keep", text |-> text, keep |-> TRUE]
        OBVIOUS
      <4>3. stored' = stored
        BY <2>3 DEF Pag!Scrape
      <4>4. PagFits(doing)
        BY <1>2, <4>2, <4>3 DEF PagJobs
      <4>5. QED
        BY <4>1, <4>2, <4>4
    <3>4. QED
      BY <3>1, <3>2, <3>3
  <2>4. CASE Pag!Fetch(t) /\ ~Pag!Rest(t)
    <3>1. PICK doing : doing = [reader[t] EXCEPT !.pc = "drop"]
      OBVIOUS
    <3>2. reader[t].pc = "fetch" /\ reader[t].text = "page"
      BY <1>1, <2>4 DEF Pag!Fetch, Pag!At, InReading
    <3>3. PagFits(doing)
      BY <1>3, <3>1, <3>2 DEF PagJobs
    <3>4. reader' = [reader EXCEPT ![t] = doing]
      BY <2>4, <3>1 DEF Pag!Fetch, Pag!Go
    <3>5. QED
      BY <3>3, <3>4
  <2>5. QED
    BY <2>0, <2>1, <2>2, <2>3, <2>4 DEF Pag!Keep
<1>5. UNCHANGED <<cached, failures>> /\ stored \subseteq stored'
  BY DEF Pag!SeeEntry, Pag!RememberEntry, Pag!Scrape, Pag!Fetch, Pag!Keep
<1>6. stored' \subseteq {"entry", "summary", "page"}
      /\ ("summary" \in stored' => "summary" \in stored \/ "entry" \in stored)
  <2>1. CASE stored' = stored \/ stored' = stored \cup {"entry"}
    BY <1>1, <2>1 DEF PagTyped
  <2>2. CASE Pag!Keep(t)
    <3>1. reader[t].text \in {"summary", "page"} /\ (reader[t].text = "summary" => "entry" \in stored)
      BY <1>1, <1>3, <2>2 DEF InReading, Pag!Keep, Pag!At, PagJobs
    <3>2. QED
      BY <1>1, <2>2, <3>1 DEF PagTyped, Pag!Keep
  <2>3. QED
    BY <2>1, <2>2 DEF Pag!SeeEntry, Pag!RememberEntry, Pag!Scrape, Pag!Fetch
<1>7. reader[t].pc # "insert"
  BY DEF Pag!At, Pag!SeeEntry, Pag!RememberEntry, Pag!Scrape, Pag!Fetch, Pag!Keep
<1>8. /\ reader' \in [Readers -> PagJobs] /\ reader'[t] = new
      /\ \A u \in Readers \ {t} : reader'[u] = reader[u]
      /\ Cardinality(Inserting') = Cardinality(Inserting)
  BY <1>4, <1>7, PagMoves
<1>9. PagTyped'
  BY <1>1, <1>5, <1>6, <1>8 DEF PagTyped
<1>10. InReading'
  <2>1. ASSUME NEW u \in Readers
        PROVE  /\ reader'[u].pc \in {"drop", "insert", "keep"} => reader'[u].text # "none"
               /\ reader'[u].pc = "remember" => reader'[u].text = "summary" /\ ~reader'[u].keep
               /\ reader'[u].pc = "fetch" => reader'[u].text = "page"
               /\ reader'[u].pc \in {"drop", "insert", "keep"} /\ reader'[u].text = "summary"
                     => "entry" \in stored'
    <3>1. CASE u = t
      BY <1>4, <1>8, <3>1
    <3>2. CASE u # t
      BY <1>1, <1>5, <1>8, <3>2 DEF InReading
    <3>3. QED
      BY <3>1, <3>2
  <2>2. QED
    BY <2>1 DEF InReading
<1>11. Pag!SeenWasStored'
  BY <1>1, <1>5, <1>6 DEF Pag!SeenWasStored, Pag!Rows
<1>12. RowsAhead'
  BY <1>1, <1>5, <1>8 DEF RowsAhead, AllRows, Pag!Rows
<1>13. QED
  BY <1>9, <1>10, <1>11, <1>12 DEF PagInv

\* Rows are dropped, or a failure to do so is counted, before one is added.
LEMMA PagDropKeeps ==
    ASSUME Pag!PagesAssumption, PagInv, NEW t \in Readers, Pag!Drop(t) PROVE PagInv'
<1>1. PagTyped /\ InReading /\ Pag!SeenWasStored /\ RowsAhead /\ reader \in [Readers -> PagJobs]
      /\ MaxFailures \in Nat /\ failures \in Nat
  BY DEF PagInv, PagTyped, Pag!PagesAssumption
<1>2. PICK new : new = [reader[t] EXCEPT !.pc = "insert"]
  OBVIOUS
<1>3. new \in PagJobs /\ new.pc = "insert" /\ new.text = reader[t].text
  BY <1>1, <1>2 DEF PagJobs
<1>4. reader[t].pc = "drop" /\ reader' = [reader EXCEPT ![t] = new] /\ stored' = stored
  BY <1>2 DEF Pag!Drop, Pag!At, Pag!Go
<1>5. /\ reader' \in [Readers -> PagJobs] /\ reader'[t] = new
      /\ \A u \in Readers \ {t} : reader'[u] = reader[u]
      /\ Cardinality(Inserting') = Cardinality(Inserting) + 1
  BY <1>3, <1>4, PagMoves
<1>6. InReading'
  BY <1>1, <1>3, <1>4, <1>5 DEF InReading
<1>7. \/ cached' = Pag!NoRows /\ failures' = failures
      \/ cached' = cached /\ failures' = failures + 1 /\ failures < MaxFailures
  BY DEF Pag!Drop
<1>8. PagTyped'
  <2>1. cached' \in [Pag!Texts -> PagCounts] /\ failures' \in 0..MaxFailures
    BY <1>1, <1>7, PagNoRows DEF PagTyped
  <2>2. QED
    BY <1>1, <1>4, <1>5, <2>1 DEF PagTyped
<1>9. Pag!SeenWasStored'
  <2>1. Pag!Rows("summary")' > 0 => Pag!Rows("summary") > 0
    BY <1>7, PagNoRows DEF Pag!Rows
  <2>2. QED
    BY <1>1, <1>4, <2>1 DEF Pag!SeenWasStored
<1>10. IsFiniteSet(Readers) /\ Inserting' \subseteq Readers
  BY DEF Pag!PagesAssumption, Pag!IsFiniteSet, IsFiniteSet, Inserting
<1>11. Cardinality(Inserting') <= Cardinality(Readers) /\ Cardinality(Readers) \in Nat
       /\ Cardinality(Inserting) \in Nat
  BY <1>10, SomeInsert, FS_Subset, FS_CardinalityType
<1>12. RowsAhead'
  <2>1. CASE cached' = Pag!NoRows /\ failures' = failures
    <3>1. AllRows' = 0
      BY <2>1, PagNoRows
    <3>2. QED
      BY <1>1, <1>5, <1>11, <2>1, <3>1 DEF RowsAhead
  <2>2. CASE cached' = cached /\ failures' = failures + 1
    <3>1. AllRows \in Nat /\ AllRows' = AllRows
      BY <1>1, <2>2, PagRows DEF PagTyped, AllRows, Pag!Rows
    <3>2. QED
      BY <1>1, <1>5, <1>11, <2>2, <3>1 DEF RowsAhead
  <2>3. QED
    BY <1>7, <2>1, <2>2
<1>13. QED
  BY <1>6, <1>8, <1>9, <1>12 DEF PagInv

\* A row is added, in the place that was kept for it.
LEMMA InsertKeepsPag ==
    ASSUME Pag!PagesAssumption, PagInv, NEW t \in Readers, Pag!Insert(t) PROVE PagInv'
<1>1. PagTyped /\ InReading /\ Pag!SeenWasStored /\ RowsAhead /\ reader \in [Readers -> PagJobs]
      /\ cached \in [Pag!Texts -> PagCounts] /\ failures \in Nat
  BY DEF PagInv, PagTyped
<1>2. PICK new : new = IF reader[t].keep THEN [reader[t] EXCEPT !.pc = "keep"] ELSE Pag!Unoccupied
  OBVIOUS
<1>3. new \in PagJobs /\ new.pc \in {"keep", "idle"} /\ (new.pc = "keep" => new.text = reader[t].text)
  BY <1>1, <1>2 DEF PagJobs, Pag!Unoccupied
<1>4. reader[t].pc = "insert" /\ reader' = [reader EXCEPT ![t] = new] /\ UNCHANGED <<stored, failures>>
  BY <1>2 DEF Pag!Insert, Pag!At, Pag!Go, Pag!Rest
<1>5. /\ reader' \in [Readers -> PagJobs] /\ reader'[t] = new
      /\ \A u \in Readers \ {t} : reader'[u] = reader[u]
      /\ Cardinality(Inserting') = Cardinality(Inserting) - 1
  BY <1>3, <1>4, PagMoves
<1>6. InReading'
  BY <1>1, <1>3, <1>4, <1>5 DEF InReading
<1>7. PICK text \in Pag!Texts : text = reader[t].text /\ (text = "summary" => "entry" \in stored)
  <2>1. reader[t] \in PagJobs /\ reader[t].text # "none"
    BY <1>1, <1>4 DEF InReading
  <2>2. QED
    BY <1>1, <1>4, <2>1 DEF PagJobs, InReading, Pag!Texts
<1>8. cached' = cached \/ cached' = [cached EXCEPT ![text].fresh = cached[text].fresh + 1]
  BY <1>1, <1>7 DEF Pag!Insert
<1>9. \A u \in Pag!Texts : cached[u].fresh \in Nat /\ cached[u].expired \in Nat
  BY <1>1, PagRows
<1>10. /\ cached' \in [Pag!Texts -> PagCounts]
       /\ \A u \in Pag!Texts : /\ cached'[u].expired = cached[u].expired
                               /\ u # text => cached'[u].fresh = cached[u].fresh
                               /\ cached'[u].fresh \in {cached[u].fresh, cached[u].fresh + 1}
  BY <1>1, <1>8, <1>9 DEF PagCounts
<1>16. "summary" \in Pag!Texts /\ "page" \in Pag!Texts /\ Pag!Texts = {"summary", "page"}
  BY DEF Pag!Texts
<1>17. AllRows' \in Nat /\ AllRows \in Nat /\ AllRows' <= AllRows + 1
  BY <1>9, <1>10, <1>16 DEF AllRows, Pag!Rows
<1>11. PagTyped'
  BY <1>1, <1>4, <1>5, <1>10 DEF PagTyped
<1>12. Pag!SeenWasStored'
  <2>1. Pag!Rows("summary")' > 0 => Pag!Rows("summary") > 0 \/ text = "summary"
    BY <1>9, <1>10, <1>16 DEF Pag!Rows
  <2>2. QED
    BY <1>1, <1>4, <1>7, <2>1 DEF Pag!SeenWasStored
<1>13. Cardinality(Inserting) \in Nat /\ Cardinality(Readers) \in Nat
  BY SomeInsert DEF Pag!PagesAssumption, Pag!IsFiniteSet, IsFiniteSet
<1>14. RowsAhead'
  BY <1>1, <1>4, <1>5, <1>17, <1>13 DEF RowsAhead
<1>15. QED
  BY <1>6, <1>11, <1>12, <1>14 DEF PagInv

\* Rows that expire or are cleaned up do not become more.
LEMMA ClockKeeps ==
    ASSUME Pag!PagesAssumption, PagInv, Pag!Expire \/ Pag!CleanUp PROVE PagInv'
<1>1. PagTyped /\ InReading /\ Pag!SeenWasStored /\ RowsAhead /\ cached \in [Pag!Texts -> PagCounts]
      /\ failures \in Nat
  BY DEF PagInv, PagTyped
<1>2. \A u \in Pag!Texts : cached[u].fresh \in Nat /\ cached[u].expired \in Nat
  BY <1>1, PagRows
<1>3. UNCHANGED <<stored, reader, failures>>
  BY DEF Pag!Expire, Pag!CleanUp
<1>4. /\ cached' \in [Pag!Texts -> PagCounts]
      /\ \A u \in Pag!Texts : cached'[u].fresh + cached'[u].expired <= cached[u].fresh + cached[u].expired
  <2>1. CASE Pag!Expire
    <3>1. PICK text \in Pag!Texts : cached[text].fresh > 0 /\
             cached' = [cached EXCEPT ![text].fresh = cached[text].fresh - 1,
                                      ![text].expired = cached[text].expired + 1]
      BY <1>1, <2>1 DEF Pag!Expire, Pag!Hits
    <3>2. PICK new : new = [fresh |-> cached[text].fresh - 1, expired |-> cached[text].expired + 1]
      OBVIOUS
    <3>3. new \in PagCounts /\ new.fresh + new.expired = cached[text].fresh + cached[text].expired
      BY <1>2, <3>1, <3>2 DEF PagCounts
    <3>4. /\ \A u \in Pag!Texts \ {text} : cached'[u] = cached[u]
          /\ cached'[text] \in PagCounts
          /\ cached'[text].fresh = new.fresh /\ cached'[text].expired = new.expired
      BY <1>1, <1>2, <3>1, <3>2 DEF PagCounts
    <3>6. cached' \in [Pag!Texts -> PagCounts]
      <4>1. cached' = [u \in Pag!Texts |-> cached'[u]]
        BY <1>1, <3>1
      <4>2. QED
        BY <1>1, <3>4, <4>1
    <3>5. QED
      BY <1>1, <1>2, <3>3, <3>4, <3>6
  <2>2. CASE Pag!CleanUp
    <3>1. cached' = [u \in Pag!Texts |-> [cached[u] EXCEPT !.expired = 0]]
      BY <2>2 DEF Pag!CleanUp
    <3>2. \A u \in Pag!Texts : cached'[u] \in PagCounts /\ cached'[u].fresh = cached[u].fresh /\ cached'[u].expired = 0
      BY <1>1, <1>2, <3>1 DEF PagCounts
    <3>3. QED
      BY <1>2, <3>1, <3>2
  <2>3. QED
    BY <2>1, <2>2
<1>5. "summary" \in Pag!Texts /\ "page" \in Pag!Texts
  BY DEF Pag!Texts
<1>6. \A u \in Pag!Texts : cached'[u].fresh \in Nat /\ cached'[u].expired \in Nat
  BY <1>4 DEF PagCounts
<1>7. AllRows' \in Nat /\ AllRows \in Nat /\ AllRows' <= AllRows
      /\ (Pag!Rows("summary")' > 0 => Pag!Rows("summary") > 0)
  BY <1>2, <1>4, <1>5, <1>6 DEF AllRows, Pag!Rows
<1>8. Cardinality(Inserting) \in Nat /\ Cardinality(Readers) \in Nat
  BY SomeInsert DEF Pag!PagesAssumption, Pag!IsFiniteSet, IsFiniteSet
<1>9. PagTyped' /\ InReading' /\ Inserting' = Inserting
  BY <1>1, <1>3, <1>4 DEF PagTyped, InReading, Inserting
<1>10. Pag!SeenWasStored' /\ RowsAhead'
  BY <1>1, <1>3, <1>7, <1>8, <1>9 DEF Pag!SeenWasStored, RowsAhead
<1>11. QED
  BY <1>9, <1>10 DEF PagInv

\* A step of the readers and the clock, or one in which they rest.
LEMMA PagStep == ASSUME Pag!PagesAssumption, PagInv, [Pag!Next]_(Pag!vars) PROVE PagInv'
<1>1. CASE UNCHANGED Pag!vars
  <2>1. UNCHANGED <<cached, stored, reader, failures>>
    BY <1>1 DEF Pag!vars
  <2>2. QED
    BY <2>1 DEF PagInv, PagTyped, InReading, Pag!SeenWasStored, RowsAhead, Inserting, AllRows, Pag!Rows
<1>2. QED
  BY <1>1, ReadsKeep, PagDropKeeps, InsertKeepsPag, ClockKeeps DEF Pag!Next, Pag!Step

\* What the invariant says: no entry is lost, and there are few rows.
LEMMA PagMeans == Pag!PagesAssumption /\ PagInv => Pag!PagesKept /\ Pag!TypeOK
<1> SUFFICES ASSUME Pag!PagesAssumption, PagInv PROVE Pag!PagesKept /\ Pag!TypeOK
  OBVIOUS
<1>1. PagTyped /\ Pag!SeenWasStored /\ RowsAhead /\ AllRows \in Nat /\ failures \in Nat
  BY PagRows DEF PagInv, PagTyped
<1>2. Cardinality(Inserting) \in Nat /\ Cardinality(Readers) \in Nat
  BY SomeInsert DEF Pag!PagesAssumption, Pag!IsFiniteSet, IsFiniteSet
<1>3. Pag!FewRows
  BY <1>1, <1>2, PagesCount DEF Pag!FewRows, RowsAhead, AllRows
<1>4. Pag!TypeOK
  BY <1>1 DEF PagTyped, Pag!TypeOK, PagCounts, Pag!Texts
<1>5. QED
  BY <1>1, <1>3, <1>4 DEF Pag!PagesKept

-----------------------------------------------------------------------------
(* Evolution cycles.                                                        *)

Evo == INSTANCE Evolution

Origins == [cycle : Nat, lt : 0..(Lts + 1)]

EvoRunners ==
    [pc : {"idle", "begin", "collect", "review", "execute", "prompts", "apply"}, cycle : Nat,
     lt : 0..(Lts + 1), found : Seq(Origins), seen : Origins]

EvoRows == [of : Origins, status : {"pending", "decided"}, by : Origins]

EvoCycles ==
    [number : Nat, status : {"collecting", "reviewing", "executing", "completed", "lost"}]

EvoNotes == [old : Origins, new : Origins]

Inner == {"collect", "review", "execute", "prompts", "apply"}

\* What may be said of one runner
Placed(x) ==
    /\ x.pc \in Inner => x.cycle \in 1..Len(cycles) /\ x.lt \in 1..(Lts + 1)
    /\ x.pc \notin Inner => x.cycle = 0
    /\ x.pc \notin {"collect", "review"} => x.found = <<>>
    /\ x.pc = "apply" => x.lt \in 1..Lts

EvoTyped ==
    /\ backend \in {"sqlite", "postgres"} /\ rows \in Seq(EvoRows) /\ cycles \in Seq(EvoCycles)
    /\ Len(cycles) <= MaxCycles /\ \A i \in 1..Len(cycles) : cycles[i].number \in 1..i
    /\ recent \subseteq Evo!Committed
    /\ runner \in [Runners -> EvoRunners] /\ \A r \in Runners : Placed(runner[r])
    /\ prompts \in [1..Lts -> Seq(EvoNotes)] /\ \A l \in 1..Lts : Len(prompts[l]) >= 1

EvoFlags == failed \in BOOLEAN /\ overlap \in BOOLEAN /\ cut \in BOOLEAN

\* Without an overlap, one runner is in a cycle.
Alone == ~overlap => \A r, q \in Runners : runner[r].pc \in Inner /\ runner[q].pc \in Inner => r = q

\* The proposals found, in their order, are those that are pending, after those decided upon.
Fits(f) ==
    /\ Len(f) <= Len(rows)
    /\ \A i \in 1..Len(rows) :
          \/ /\ i <= Len(rows) - Len(f)
             /\ rows[i].status = "decided" /\ rows[i].by = rows[i].of
          \/ /\ i > Len(rows) - Len(f)
             /\ rows[i].status = "pending" /\ rows[i].of = f[i - (Len(rows) - Len(f))]

InOrder ==
    ~failed /\ ~overlap /\ ~cut =>
       /\ \A r \in Runners : runner[r].pc \in Inner => Fits(runner[r].found)
       /\ (\A r \in Runners : runner[r].pc \notin Inner) => Fits(<<>>)

\* What is replaced was read, by the one who replaces it.
Chained == \A l \in 1..Lts : \A i \in 2..Len(prompts[l]) : prompts[l][i].old = prompts[l][i - 1].new

Read(x) == x.pc = "apply" => x.seen = prompts[x.lt][Len(prompts[x.lt])].new

Chains == ~overlap => Chained /\ \A r \in Runners : Read(runner[r])

EvoInv == EvoTyped /\ EvoFlags /\ Alone /\ InOrder /\ Chains

\* One more lieutenant, or the end of them
LEMMA NextOne ==
    ASSUME Evo!EvolutionAssumption, NEW l \in Nat
    PROVE  Evo!NextSeasoned(l) \in 1..(Lts + 1)
<1> DEFINE S == {n \in Seasoned : n > l} \cup {Lts + 1}
<1>1. Lts \in Nat \ {0} /\ Seasoned \subseteq 1..Lts
  BY DEF Evo!EvolutionAssumption
<1>2. S \subseteq 1..(Lts + 1) /\ S # {}
  <2>1. ASSUME NEW n \in S PROVE n \in 1..(Lts + 1)
    <3>1. n \in Seasoned \/ n = Lts + 1
      BY <2>1
    <3>2. QED
      BY <1>1, <3>1
  <2>2. Lts + 1 \in S
    OBVIOUS
  <2>3. QED
    BY <2>1, <2>2
<1>3. \E n \in S : \A k \in S : n <= k
  <2>1. S \subseteq Nat
    BY <1>1, <1>2
  <2>2. QED
    BY <1>2, <2>1, LeastOf
<1>4. Evo!NextSeasoned(l) = Evo!Min(S)
  BY DEF Evo!NextSeasoned
<1> HIDE DEF S
<1>5. Evo!Min(S) \in S
  BY <1>3, Zenon DEF Evo!Min
<1>6. QED
  BY <1>2, <1>4, <1>5

\* At first nobody is in a cycle, and nothing is stored.
LEMMA EvoStart == ASSUME Evo!EvolutionAssumption, Evo!Init PROVE EvoInv
<1>1. Lts \in Nat \ {0} /\ MaxCycles \in Nat
  BY DEF Evo!EvolutionAssumption
<1>2. Evo!First \in Origins
  BY <1>1 DEF Evo!First, Origins
<1>3. Evo!Nobody \in EvoRunners /\ Evo!Nobody.pc = "idle" /\ Evo!Nobody.cycle = 0 /\ Evo!Nobody.found = <<>>
  BY <1>1, <1>2 DEF Evo!Nobody, EvoRunners
<1>4. /\ runner = [r \in Runners |-> Evo!Nobody] /\ rows = <<>> /\ cycles = <<>> /\ recent = {}
      /\ prompts = [l \in 1..Lts |-> <<[old |-> Evo!First, new |-> Evo!First]>>]
      /\ backend \in {"sqlite", "postgres"}
  BY DEF Evo!Init
<1>5. \A r \in Runners : Placed(runner[r])
  BY <1>3, <1>4 DEF Placed, Inner
<1>6. \A l \in 1..Lts : prompts[l] \in Seq(EvoNotes) /\ Len(prompts[l]) = 1
  <2>1. [old |-> Evo!First, new |-> Evo!First] \in EvoNotes
    BY <1>2 DEF EvoNotes
  <2>2. QED
    BY <1>4, <2>1
<1>7. EvoTyped
  <2>1. rows \in Seq(EvoRows) /\ cycles \in Seq(EvoCycles) /\ Len(cycles) = 0
    BY <1>4
  <2>2. prompts \in [1..Lts -> Seq(EvoNotes)]
    BY <1>4, <1>6
  <2>3. runner \in [Runners -> EvoRunners]
    BY <1>3, <1>4
  <2>4. QED
    BY <1>1, <1>4, <1>5, <1>6, <2>1, <2>2, <2>3 DEF EvoTyped
<1>8. EvoFlags
  BY Zenon DEF Evo!Init, EvoFlags
<1>9. \A r \in Runners : runner[r].pc = "idle"
  BY <1>3, <1>4
<1>10. Alone
  BY <1>9 DEF Alone, Inner
<1>11. InOrder
  BY <1>4, <1>9 DEF InOrder, Fits, Inner
<1>12. Chains
  BY <1>6, <1>9 DEF Chains, Chained, Read
<1>13. QED
  BY <1>7, <1>8, <1>10, <1>11, <1>12 DEF EvoInv

\* A runner that is in a cycle goes on in it or leaves it.
LEMMA Goes ==
    ASSUME EvoInv, NEW r \in Runners, runner[r].pc \in Inner,
           NEW x \in EvoRunners, runner' = [runner EXCEPT ![r] = x],
           \/ x.pc \in Inner /\ x.cycle = runner[r].cycle /\ x.lt \in 1..(Lts + 1)
           \/ x.pc = "idle" /\ x.cycle = 0,
           x.pc \notin {"collect", "review"} => x.found = <<>>, x.pc = "apply" => x.lt \in 1..Lts,
           rows' \in Seq(EvoRows), cycles' \in Seq(EvoCycles), Len(cycles') = Len(cycles),
           \A i \in 1..Len(cycles) : cycles'[i].number = cycles[i].number,
           recent' \subseteq Evo!Committed',
           prompts' \in [1..Lts -> Seq(EvoNotes)], \A l \in 1..Lts : Len(prompts'[l]) >= 1,
           failed' \in BOOLEAN, UNCHANGED <<backend, overlap, cut>>, ~failed' => ~failed,
           NEW f, f = runner[r].found, NEW g, g = x.found, ~failed' /\ Fits(f) => Fits(g)',
           Chained /\ Read(runner[r]) =>
              /\ Chained'
              /\ x.pc = "apply" => x.seen = prompts'[x.lt][Len(prompts'[x.lt])].new
    PROVE  EvoInv'
<1>1. EvoTyped /\ EvoFlags /\ Alone /\ InOrder /\ Chains
  BY DEF EvoInv
<1>2. /\ runner' \in [Runners -> EvoRunners] /\ runner'[r] = x
      /\ \A q \in Runners \ {r} : runner'[q] = runner[q]
  BY <1>1 DEF EvoTyped
<1>3. ASSUME NEW q \in Runners PROVE Placed(runner[q])'
  <2>1. CASE q = r
    BY <1>1, <1>2, <2>1 DEF EvoTyped, Placed, Inner
  <2>2. CASE q # r
    BY <1>1, <1>2, <2>2 DEF EvoTyped, Placed
  <2>3. QED
    BY <2>1, <2>2
<1>4. EvoTyped'
  BY <1>1, <1>2, <1>3 DEF EvoTyped
<1>5. EvoFlags'
  BY <1>1 DEF EvoFlags
<1>6. \A q \in Runners : runner'[q].pc \in Inner => runner[q].pc \in Inner
  BY <1>2
<1>7. Alone'
  BY <1>1, <1>6 DEF Alone
<1>8. ASSUME ~overlap PROVE \A q \in Runners \ {r} : runner[q].pc \notin Inner /\ runner'[q].pc \notin Inner
  BY <1>1, <1>2, <1>8 DEF Alone
<1>9. InOrder'
  <2> SUFFICES ASSUME ~failed', ~overlap, ~cut
               PROVE  /\ \A q \in Runners : runner'[q].pc \in Inner => Fits(runner[q].found)'
                      /\ (\A q \in Runners : runner'[q].pc \notin Inner) => Fits(<<>>)'
    BY DEF InOrder
  <2>1. Fits(g)'
    BY <1>1 DEF InOrder
  <2>2. ASSUME NEW q \in Runners, runner'[q].pc \in Inner PROVE Fits(runner[q].found)'
    <3>1. runner'[q].found = g
      BY <1>2, <1>8, <2>2
    <3>2. QED
      BY <2>1, <3>1 DEF Fits
  <2>3. ASSUME \A q \in Runners : runner'[q].pc \notin Inner PROVE Fits(<<>>)'
    <3>1. g = <<>>
      BY <1>2, <2>3 DEF Inner
    <3>2. QED
      BY <2>1, <3>1
  <2>4. QED
    BY <2>2, <2>3
<1>10. Chains'
  <2> SUFFICES ASSUME ~overlap PROVE Chained' /\ \A q \in Runners : Read(runner[q])'
    BY DEF Chains
  <2>1. Chained' /\ (x.pc = "apply" => x.seen = prompts'[x.lt][Len(prompts'[x.lt])].new)
    BY <1>1 DEF Chains
  <2>2. ASSUME NEW q \in Runners PROVE Read(runner[q])'
    <3>1. CASE q = r
      BY <1>2, <2>1, <3>1 DEF Read
    <3>2. CASE q # r
      BY <1>8, <3>2 DEF Read, Inner
    <3>3. QED
      BY <3>1, <3>2
  <2>3. QED
    BY <2>1, <2>2
<1>11. QED
  BY <1>4, <1>5, <1>7, <1>9, <1>10 DEF EvoInv

\* What is known of a runner in a cycle.
LEMMA InCycle ==
    ASSUME EvoInv, NEW r \in Runners, runner[r].pc \in Inner
    PROVE  /\ runner[r] \in EvoRunners /\ runner[r].cycle \in 1..Len(cycles)
           /\ runner[r].cycle \in Nat /\ runner[r].lt \in 1..(Lts + 1)
           /\ runner[r].found \in Seq(Origins)
           /\ runner[r].pc \notin {"collect", "review"} => runner[r].found = <<>>
           /\ runner[r].pc = "apply" => runner[r].lt \in 1..Lts
<1>1. EvoTyped
  BY DEF EvoInv
<1>2. runner[r] \in EvoRunners /\ Placed(runner[r])
  BY <1>1 DEF EvoTyped
<1>3. runner[r].cycle \in Nat /\ runner[r].found \in Seq(Origins)
  BY <1>2 DEF EvoRunners
<1>4. QED
  BY <1>2, <1>3 DEF Placed

\* The status of a cycle is written: it is committed, and the others stay so.
LEMMA Marked ==
    ASSUME EvoTyped, NEW c \in 1..Len(cycles), NEW status \in {"reviewing", "executing", "completed"},
           cycles' = [cycles EXCEPT ![c].status = status]
    PROVE  /\ cycles' \in Seq(EvoCycles) /\ Len(cycles') = Len(cycles)
           /\ \A i \in 1..Len(cycles) : cycles'[i].number = cycles[i].number
           /\ Evo!Committed \subseteq Evo!Committed' /\ c \in Evo!Committed'
<1>1. cycles \in Seq(EvoCycles) /\ cycles[c] \in EvoCycles
  BY DEF EvoTyped
<1> DEFINE e == [cycles[c] EXCEPT !.status = status]
<1>2. e \in EvoCycles /\ e.number = cycles[c].number /\ e.status = status
  BY <1>1 DEF EvoCycles
<1>3. cycles' = [cycles EXCEPT ![c] = e]
  BY <1>1
<1> HIDE DEF e
<1>4. /\ cycles' \in Seq(EvoCycles) /\ Len(cycles') = Len(cycles) /\ cycles'[c] = e
      /\ \A i \in 1..Len(cycles) : i # c => cycles'[i] = cycles[i]
  BY <1>1, <1>2, <1>3
<1>5. \A i \in 1..Len(cycles) : cycles'[i].number = cycles[i].number
  BY <1>2, <1>4
<1>6. DOMAIN cycles = 1..Len(cycles) /\ DOMAIN cycles' = 1..Len(cycles)
  BY <1>1, <1>4
<1>7. Evo!Committed \subseteq Evo!Committed' /\ c \in Evo!Committed'
  BY <1>2, <1>4, <1>6 DEF Evo!Committed
<1>8. QED
  BY <1>4, <1>5, <1>7

\* Nobody is in no cycle.
LEMMA NobodyIsOut ==
    ASSUME Evo!EvolutionAssumption
    PROVE  /\ Evo!Nobody \in EvoRunners /\ Evo!Nobody.pc = "idle" /\ Evo!Nobody.cycle = 0
           /\ Evo!Nobody.found = <<>> /\ Evo!First \in Origins
<1>1. Evo!First \in Origins
  BY DEF Evo!First, Origins, Evo!EvolutionAssumption
<1>2. QED
  BY <1>1 DEF Evo!Nobody, EvoRunners, Evo!EvolutionAssumption

\* One lieutenant proposes or does not, and the proposal is stored or not.
LEMMA CollectKeeps == ASSUME Evo!EvolutionAssumption, EvoInv, NEW r \in Runners, Evo!Collect(r) PROVE EvoInv'
<1>1. /\ runner[r].pc = "collect" /\ runner[r].lt <= Lts /\ runner[r].pc \in Inner
      /\ UNCHANGED <<backend, cycles, recent, prompts, overlap, cut>>
  BY DEF Evo!Collect, Evo!At, Inner
<1>2. /\ runner[r] \in EvoRunners /\ runner[r].cycle \in 1..Len(cycles) /\ runner[r].cycle \in Nat
      /\ runner[r].lt \in 1..(Lts + 1) /\ runner[r].found \in Seq(Origins)
  BY <1>1, InCycle
<1>3. PICK c \in Nat, n \in 1..Lts, m \in 1..(Lts + 1), f \in Seq(Origins) :
         c = runner[r].cycle /\ n = runner[r].lt /\ m = n + 1 /\ f = runner[r].found
  <2>1. runner[r].lt \in 1..Lts /\ runner[r].lt + 1 \in 1..(Lts + 1)
    BY <1>1, <1>2 DEF Evo!EvolutionAssumption
  <2>2. \E f \in Seq(Origins) : f = runner[r].found
    BY <1>2
  <2>3. \E c \in Nat : c = runner[r].cycle
    BY <1>2
  <2>4. \E n \in 1..Lts, m \in 1..(Lts + 1) : n = runner[r].lt /\ m = n + 1
    BY <2>1
  <2>5. QED
    BY <2>2, <2>3, <2>4, Zenon
<1>4. PICK p \in Origins : p = [cycle |-> c, lt |-> n]
  <2>1. n \in 0..(Lts + 1)
    BY DEF Evo!EvolutionAssumption
  <2>2. [cycle |-> c, lt |-> n] \in Origins
    BY <2>1 DEF Origins
  <2>3. QED
    BY <2>2
<1>5. EvoTyped /\ EvoFlags
  BY DEF EvoInv
<1>6. recent \subseteq Evo!Committed'
  BY <1>1, <1>5 DEF EvoTyped, Evo!Committed
<1>7. Chained /\ Read(runner[r]) => Chained'
  BY <1>1 DEF Chained
<1>8. CASE runner' = [runner EXCEPT ![r].lt = @ + 1] /\ UNCHANGED <<rows, failed>>
  <2> DEFINE x == [runner[r] EXCEPT !.lt = m]
  <2>1. x \in EvoRunners /\ x.pc = "collect" /\ x.cycle = c /\ x.lt = m /\ x.found = f
    BY <1>1, <1>2, <1>3 DEF EvoRunners
  <2>2. runner' = [runner EXCEPT ![r] = x]
    BY <1>3, <1>5, <1>8 DEF EvoTyped
  <2> HIDE DEF x
  <2>3. Fits(f) => Fits(f)'
    BY <1>8 DEF Fits
  <2>4. /\ x.pc \in Inner /\ x.pc \notin {"idle", "execute", "prompts", "apply"}
    BY <2>1 DEF Inner
  <2>5. QED
    BY <1>1, <1>3, <1>5, <1>6, <1>7, <1>8, <2>1, <2>2, <2>3, <2>4, Goes DEF EvoTyped, EvoFlags
<1>9. ASSUME runner' = [runner EXCEPT ![r].lt = @ + 1, ![r].found = Append(@, p)],
             rows' \in Seq(EvoRows), failed' \in BOOLEAN, ~failed' => ~failed,
             ~failed' /\ Fits(f) => Fits(Append(f, p))'
      PROVE  EvoInv'
  <2>1. PICK g \in Seq(Origins) : g = Append(f, p)
    <3>1. Append(f, p) \in Seq(Origins)
      OBVIOUS
    <3>2. QED
      BY <3>1, Zenon
  <2> DEFINE x == [runner[r] EXCEPT !.lt = m, !.found = g]
  <2>2. x \in EvoRunners /\ x.pc = "collect" /\ x.cycle = c /\ x.lt = m /\ x.found = g
    <3>1. m \in 0..(Lts + 1)
      BY DEF Evo!EvolutionAssumption
    <3>2. x \in EvoRunners
      BY <1>2, <3>1 DEF EvoRunners
    <3>3. QED
      BY <1>1, <1>2, <1>3, <3>2 DEF EvoRunners
  <2>3. runner' = [runner EXCEPT ![r] = x]
    BY <1>3, <1>5, <1>9, <2>1 DEF EvoTyped
  <2> HIDE DEF x
  <2>4. ~failed' /\ Fits(f) => Fits(g)'
    BY <1>9, <2>1 DEF Fits
  <2>5. /\ x.pc \in Inner /\ x.pc \notin {"idle", "execute", "prompts", "apply"}
    BY <2>2 DEF Inner
  <2>6. QED
    BY <1>1, <1>3, <1>5, <1>6, <1>7, <1>9, <2>2, <2>3, <2>4, <2>5, Goes DEF EvoTyped, EvoFlags
<1>10. CASE /\ runner' = [runner EXCEPT ![r].lt = @ + 1, ![r].found = Append(@, p)]
            /\ rows' = Append(rows, [of |-> p, status |-> "pending", by |-> Evo!First])
            /\ UNCHANGED failed
  <2>1. PICK e \in EvoRows : e = [of |-> p, status |-> "pending", by |-> Evo!First]
    BY <1>4, NobodyIsOut DEF EvoRows
  <2>2. rows \in Seq(EvoRows) /\ rows' = Append(rows, e) /\ e.status = "pending" /\ e.of = p
    BY <1>5, <1>10, <2>1 DEF EvoTyped
  <2>3. Fits(f) => Fits(Append(f, p))'
    <3> SUFFICES ASSUME Fits(f) PROVE Fits(Append(f, p))'
      OBVIOUS
    <3>1. PICK q : q = p
      OBVIOUS
    <3>2. PICK h : h = Append(f, q)
      OBVIOUS
    <3>3. /\ Len(h) = Len(f) + 1 /\ Len(rows') = Len(rows) + 1 /\ h[Len(h)] = q
          /\ \A i \in 1..Len(f) : h[i] = f[i]
          /\ \A i \in 1..Len(rows) : rows'[i] = rows[i]
          /\ rows'[Len(rows) + 1] = e /\ Len(f) \in Nat /\ Len(rows) \in Nat
      BY <1>3, <2>2, <3>2
    <3>4. Fits(h)'
      <4>1. Len(h) <= Len(rows')
        BY <3>3 DEF Fits
      <4>2. ASSUME NEW i \in 1..Len(rows')
            PROVE  \/ /\ i <= Len(rows') - Len(h)
                      /\ rows'[i].status = "decided" /\ rows'[i].by = rows'[i].of
                   \/ /\ i > Len(rows') - Len(h)
                      /\ rows'[i].status = "pending" /\ rows'[i].of = h[i - (Len(rows') - Len(h))]
        <5>1. Len(rows') - Len(h) = Len(rows) - Len(f)
          BY <3>3
        <5>2. CASE i = Len(rows) + 1
          <6>1. i - (Len(rows) - Len(f)) = Len(h) /\ i > Len(rows) - Len(f)
            BY <3>3, <5>2
          <6>2. QED
            BY <2>2, <3>1, <3>3, <5>1, <5>2, <6>1
        <5>3. CASE i # Len(rows) + 1
          <6>1. i \in 1..Len(rows)
            BY <3>3, <5>3
          <6>2. CASE i <= Len(rows) - Len(f)
            BY <3>3, <5>1, <6>1, <6>2 DEF Fits
          <6>3. CASE i > Len(rows) - Len(f)
            <7>1. i - (Len(rows) - Len(f)) \in 1..Len(f)
              BY <3>3, <6>1, <6>3 DEF Fits
            <7>2. rows[i].status = "pending" /\ rows[i].of = f[i - (Len(rows) - Len(f))]
              BY <3>3, <6>1, <6>3 DEF Fits
            <7>3. QED
              BY <3>3, <5>1, <6>1, <6>3, <7>1, <7>2
          <6>4. QED
            BY <3>3, <6>1, <6>2, <6>3
        <5>4. QED
          BY <5>2, <5>3
      <4>3. QED
        BY <4>1, <4>2 DEF Fits
    <3>5. QED
      BY <3>1, <3>2, <3>4 DEF Fits
  <2>4. rows' \in Seq(EvoRows)
    BY <2>2
  <2>5. QED
    BY <1>5, <1>9, <1>10, <2>3, <2>4 DEF EvoFlags
<1>11. CASE /\ runner' = [runner EXCEPT ![r].lt = @ + 1, ![r].found = Append(@, p)]
            /\ Evo!Fails /\ UNCHANGED rows
  <2>1. failed' = TRUE /\ rows' \in Seq(EvoRows)
    BY <1>5, <1>11 DEF Evo!Fails, EvoTyped
  <2>2. QED
    BY <1>9, <1>11, <2>1
<1>12. QED
  BY <1>3, <1>4, <1>8, <1>10, <1>11 DEF Evo!Collect

\* A phase ends, and the cycle's row says so.
LEMMA AdvanceKeeps ==
    ASSUME EvoInv, NEW r \in Runners, NEW from \in {"collect", "review"}, NEW to \in {"review", "execute"},
           NEW status \in {"reviewing", "executing"}, Evo!Advance(r, from, to, status),
           to = "execute" => runner[r].found = <<>>
    PROVE  EvoInv'
<1>1. /\ runner[r].pc = from /\ cycles' = [cycles EXCEPT ![runner[r].cycle].status = status]
      /\ runner' = [runner EXCEPT ![r].pc = to]
      /\ UNCHANGED <<backend, rows, recent, prompts, failed, overlap, cut>>
  BY DEF Evo!Advance, Evo!At, Evo!ghosts
<1>2. runner[r].pc \in Inner /\ EvoTyped /\ EvoFlags
  BY <1>1 DEF Inner, EvoInv
<1>3. /\ runner[r] \in EvoRunners /\ runner[r].cycle \in 1..Len(cycles) /\ runner[r].lt \in 1..(Lts + 1)
      /\ runner[r].found \in Seq(Origins)
  BY <1>2, InCycle
<1> DEFINE x == [runner[r] EXCEPT !.pc = to]
<1>4. /\ x \in EvoRunners /\ x.pc = to /\ x.cycle = runner[r].cycle /\ x.lt = runner[r].lt
      /\ x.found = runner[r].found
  BY <1>3 DEF EvoRunners
<1>5. runner' = [runner EXCEPT ![r] = x]
  BY <1>1, <1>2 DEF EvoTyped
<1> HIDE DEF x
<1>6. /\ cycles' \in Seq(EvoCycles) /\ Len(cycles') = Len(cycles)
      /\ \A i \in 1..Len(cycles) : cycles'[i].number = cycles[i].number
      /\ Evo!Committed \subseteq Evo!Committed'
  BY <1>1, <1>2, <1>3, Marked
<1>7. PICK f : f = runner[r].found
  OBVIOUS
<1>8. Fits(f) => Fits(f)'
  BY <1>1 DEF Fits
<1>9. Chained => Chained'
  BY <1>1 DEF Chained
<1>10. x.pc \in Inner /\ x.pc # "apply" /\ (x.pc \notin {"collect", "review"} => x.found = <<>>)
  BY <1>4 DEF Inner
<1>11. recent' \subseteq Evo!Committed'
  BY <1>1, <1>2, <1>6 DEF EvoTyped
<1>12. QED
  BY <1>1, <1>2, <1>3, <1>4, <1>5, <1>6, <1>7, <1>8, <1>9, <1>10, <1>11, Goes DEF EvoTyped, EvoFlags

\* The first of what is pending is one of it.
LEMMA FirstIsPending ==
    ASSUME EvoTyped, Evo!Pending # {}
    PROVE  /\ Evo!FirstPending \in 1..Len(rows) /\ rows[Evo!FirstPending].status = "pending"
           /\ \A i \in 1..Len(rows) : rows[i].status = "pending" => Evo!FirstPending <= i
<1>1. DOMAIN rows = 1..Len(rows)
  BY DEF EvoTyped
<1>2. \E i \in Evo!Pending : \A j \in Evo!Pending : i <= j
  <2>1. Evo!Pending \subseteq Nat
    BY <1>1 DEF Evo!Pending
  <2>2. QED
    BY <2>1, LeastOf
<1>3. Evo!FirstPending \in Evo!Pending /\ \A j \in Evo!Pending : Evo!FirstPending <= j
  BY <1>2, Zenon DEF Evo!FirstPending
<1>4. QED
  BY <1>1, <1>3 DEF Evo!Pending

\* A verdict is for the first proposal found, and goes to the first that is pending.
LEMMA ReviewKeeps == ASSUME EvoInv, NEW r \in Runners, Evo!Review(r) PROVE EvoInv'
<1>1. /\ runner[r].pc = "review" /\ runner[r].found # <<>> /\ runner' = [runner EXCEPT ![r].found = Tail(@)]
      /\ UNCHANGED <<backend, cycles, recent, prompts, overlap, cut>>
  BY DEF Evo!Review, Evo!At
<1>2. runner[r].pc \in Inner /\ EvoTyped /\ EvoFlags
  BY <1>1 DEF Inner, EvoInv
<1>3. /\ runner[r] \in EvoRunners /\ runner[r].cycle \in 1..Len(cycles) /\ runner[r].lt \in 1..(Lts + 1)
      /\ runner[r].found \in Seq(Origins)
  BY <1>2, InCycle
<1>4. PICK f \in Seq(Origins) : f = runner[r].found
  BY <1>3
<1>5. PICK g \in Seq(Origins) : g = Tail(f)
  <2>1. f # <<>>
    BY <1>1, <1>4
  <2>2. Tail(f) \in Seq(Origins)
    BY <2>1
  <2>3. QED
    BY <2>2, Zenon
<1>6. /\ Len(f) \in Nat \ {0} /\ Len(g) = Len(f) - 1 /\ Head(f) = f[1] /\ f[1] \in Origins
      /\ \A i \in 1..Len(g) : g[i] = f[i + 1]
  BY <1>1, <1>4, <1>5
<1> DEFINE x == [runner[r] EXCEPT !.found = g]
<1>7. /\ x \in EvoRunners /\ x.pc = "review" /\ x.cycle = runner[r].cycle /\ x.lt = runner[r].lt
      /\ x.found = g
  BY <1>1, <1>3 DEF EvoRunners
<1>8. runner' = [runner EXCEPT ![r] = x]
  BY <1>1, <1>2, <1>4, <1>5 DEF EvoTyped
<1> HIDE DEF x
<1>9. ASSUME rows' \in Seq(EvoRows), failed' \in BOOLEAN, ~failed' => ~failed,
             ~failed' /\ Fits(f) => Fits(g)'
      PROVE  EvoInv'
  <2>1. x.pc \in Inner /\ x.pc \notin {"idle", "execute", "prompts", "apply"}
    BY <1>7 DEF Inner
  <2>2. Chained => Chained'
    BY <1>1 DEF Chained
  <2>3. recent' \subseteq Evo!Committed'
    BY <1>1, <1>2 DEF EvoTyped, Evo!Committed
  <2>4. QED
    BY <1>1, <1>2, <1>3, <1>4, <1>7, <1>8, <1>9, <2>1, <2>2, <2>3, Goes DEF EvoTyped, EvoFlags
<1>10. CASE Evo!Fails /\ UNCHANGED rows
  <2>1. failed' = TRUE /\ rows' \in Seq(EvoRows)
    BY <1>2, <1>10 DEF Evo!Fails, EvoTyped
  <2>2. QED
    BY <1>9, <2>1
<1>11. CASE rows' = rows /\ Evo!Pending = {} /\ UNCHANGED failed
  <2>1. ~Fits(f)
    <3>1. SUFFICES ASSUME Fits(f) PROVE FALSE
      OBVIOUS
    <3>2. Len(rows) \in Nat /\ DOMAIN rows = 1..Len(rows)
      BY <1>2 DEF EvoTyped
    <3>3. Len(rows) \in 1..Len(rows) /\ Len(rows) > Len(rows) - Len(f)
      BY <1>6, <3>1, <3>2 DEF Fits
    <3>4. rows[Len(rows)].status = "pending"
      BY <3>1, <3>3 DEF Fits
    <3>5. QED
      BY <1>11, <3>2, <3>3, <3>4 DEF Evo!Pending
  <2>2. rows' \in Seq(EvoRows)
    BY <1>2, <1>11 DEF EvoTyped
  <2>3. QED
    BY <1>2, <1>9, <1>11, <2>1, <2>2 DEF EvoFlags
<1>12. CASE /\ Evo!Pending # {} /\ UNCHANGED failed
            /\ rows' = [rows EXCEPT ![Evo!FirstPending].status = "decided",
                                    ![Evo!FirstPending].by = Head(runner[r].found)]
  <2>1. PICK k : k = Evo!FirstPending
    OBVIOUS
  <2>2. /\ k \in 1..Len(rows) /\ rows[k].status = "pending"
        /\ \A i \in 1..Len(rows) : rows[i].status = "pending" => k <= i
    BY <1>2, <1>12, <2>1, FirstIsPending
  <2> DEFINE e == [rows[k] EXCEPT !.status = "decided", !.by = f[1]]
  <2>3. rows \in Seq(EvoRows) /\ rows[k] \in EvoRows
    BY <1>2, <2>2 DEF EvoTyped
  <2>4. e \in EvoRows /\ e.status = "decided" /\ e.by = f[1] /\ e.of = rows[k].of
    BY <1>6, <2>3 DEF EvoRows
  <2>5. rows' = [rows EXCEPT ![k] = e]
    BY <1>4, <1>6, <1>12, <2>1, <2>2, <2>3
  <2> HIDE DEF e
  <2>6. /\ rows' \in Seq(EvoRows) /\ Len(rows') = Len(rows) /\ rows'[k] = e /\ Len(rows) \in Nat
        /\ \A i \in 1..Len(rows) : i # k => rows'[i] = rows[i]
    BY <2>2, <2>3, <2>4, <2>5
  <2>7. ASSUME Fits(f) PROVE Fits(g)'
    <3>1. PICK n \in Nat : n = Len(rows) - Len(f)
      <4>1. Len(f) <= Len(rows)
        BY <2>7 DEF Fits
      <4>2. Len(rows) - Len(f) \in Nat
        BY <1>6, <2>6, <4>1
      <4>3. QED
        BY <4>2
    <3>2. k = n + 1
      <4>1. n + 1 \in 1..Len(rows) /\ n + 1 > Len(rows) - Len(f)
        BY <1>6, <2>6, <3>1
      <4>2. rows[n + 1].status = "pending"
        BY <2>7, <3>1, <4>1 DEF Fits
      <4>3. k <= n + 1
        BY <2>2, <4>1, <4>2
      <4>4. ~(k <= n)
        BY <2>2, <2>7, <3>1 DEF Fits
      <4>5. QED
        BY <2>2, <2>6, <4>3, <4>4
    <3>3. rows[k].of = f[1]
      <4>1. k > Len(rows) - Len(f) /\ k - (Len(rows) - Len(f)) = 1
        BY <1>6, <2>6, <3>1, <3>2
      <4>2. ~(k <= Len(rows) - Len(f))
        BY <1>6, <2>2, <2>6, <4>1
      <4>3. QED
        BY <2>2, <2>7, <4>1, <4>2 DEF Fits
    <3>4. Len(rows') - Len(g) = n + 1 /\ Len(g) <= Len(rows')
      BY <1>6, <2>6, <2>7, <3>1 DEF Fits
    <3>5. ASSUME NEW i \in 1..Len(rows')
          PROVE  \/ /\ i <= Len(rows') - Len(g)
                    /\ rows'[i].status = "decided" /\ rows'[i].by = rows'[i].of
                 \/ /\ i > Len(rows') - Len(g)
                    /\ rows'[i].status = "pending" /\ rows'[i].of = g[i - (Len(rows') - Len(g))]
      <4>1. CASE i = k
        BY <2>4, <2>6, <3>2, <3>3, <3>4, <4>1
      <4>2. CASE i <= n
        <5>1. i # k /\ i \in 1..Len(rows)
          BY <2>6, <3>2, <4>2
        <5>2. rows[i].status = "decided" /\ rows[i].by = rows[i].of
          BY <2>7, <3>1, <4>2, <5>1 DEF Fits
        <5>3. QED
          BY <2>6, <3>4, <4>2, <5>1, <5>2
      <4>3. CASE i > n + 1
        <5>1. i # k /\ i \in 1..Len(rows)
          BY <2>6, <3>2, <4>3
        <5>2. rows[i].status = "pending" /\ rows[i].of = f[i - n]
          BY <2>7, <3>1, <4>3, <5>1 DEF Fits
        <5>3. i - (n + 1) \in 1..Len(g) /\ (i - (n + 1)) + 1 = i - n
          BY <1>6, <2>6, <3>1, <4>3, <5>1
        <5>4. g[i - (n + 1)] = f[i - n]
          BY <1>6, <5>3
        <5>5. QED
          BY <2>6, <3>4, <4>3, <5>1, <5>2, <5>4
      <4>4. QED
        BY <2>6, <3>2, <4>1, <4>2, <4>3
    <3>6. QED
      BY <3>4, <3>5 DEF Fits
  <2>8. QED
    BY <1>2, <1>9, <1>12, <2>6, <2>7 DEF EvoFlags
<1>13. QED
  BY <1>10, <1>11, <1>12 DEF Evo!Review

\* A step that changes the runner only, or the prompt of one lieutenant, when what was found
\* has been reviewed.
LEMMA QuietStep ==
    ASSUME EvoInv, NEW r \in Runners, runner[r].pc \in {"execute", "prompts", "apply"},
           NEW x \in EvoRunners, runner' = [runner EXCEPT ![r] = x],
           \/ x.pc \in {"prompts", "apply"} /\ x.cycle = runner[r].cycle /\ x.lt \in 1..(Lts + 1)
           \/ x.pc = "idle" /\ x.cycle = 0,
           x.found = <<>>, x.pc = "apply" => x.lt \in 1..Lts,
           cycles' \in Seq(EvoCycles), Len(cycles') = Len(cycles),
           \A i \in 1..Len(cycles) : cycles'[i].number = cycles[i].number,
           recent' \subseteq Evo!Committed',
           prompts' \in [1..Lts -> Seq(EvoNotes)], \A l \in 1..Lts : Len(prompts'[l]) >= 1,
           UNCHANGED <<backend, rows, failed, overlap, cut>>,
           Chained /\ Read(runner[r]) =>
              /\ Chained'
              /\ x.pc = "apply" => x.seen = prompts'[x.lt][Len(prompts'[x.lt])].new
    PROVE  EvoInv'
<1>1. runner[r].pc \in Inner /\ EvoTyped /\ EvoFlags
  BY DEF Inner, EvoInv
<1>2. runner[r].found = <<>>
  BY <1>1, InCycle
<1>3. PICK f : f = <<>>
  OBVIOUS
<1>4. Fits(f) => Fits(f)'
  BY DEF Fits
<1>5. \/ x.pc \in Inner /\ x.cycle = runner[r].cycle /\ x.lt \in 1..(Lts + 1)
      \/ x.pc = "idle" /\ x.cycle = 0
  BY DEF Inner
<1>6. QED
  BY <1>1, <1>2, <1>3, <1>4, <1>5, Goes DEF EvoTyped, EvoFlags

\* What was approved is applied, or the cycle ends there.
LEMMA ExecuteKeeps == ASSUME Evo!EvolutionAssumption, EvoInv, NEW r \in Runners, Evo!Execute(r) PROVE EvoInv'
<1>1. runner[r].pc = "execute" /\ UNCHANGED <<backend, rows, cycles, recent, prompts, failed, overlap, cut>>
  BY DEF Evo!Execute, Evo!At, Evo!tables, Evo!ghosts
<1>2. EvoTyped /\ runner[r].pc \in Inner
  BY <1>1 DEF EvoInv, Inner
<1>3. runner[r] \in EvoRunners /\ runner[r].found = <<>>
  BY <1>1, <1>2, InCycle
<1>4. /\ cycles' \in Seq(EvoCycles) /\ prompts' \in [1..Lts -> Seq(EvoNotes)]
      /\ recent' \subseteq Evo!Committed' /\ \A l \in 1..Lts : Len(prompts'[l]) >= 1
  BY <1>1, <1>2 DEF EvoTyped, Evo!Committed
<1>5. Chained => Chained'
  BY <1>1 DEF Chained
<1>6. CASE runner' = [runner EXCEPT ![r].pc = "prompts", ![r].lt = Evo!NextSeasoned(0)]
  <2>1. PICK n \in 1..(Lts + 1) : n = Evo!NextSeasoned(0)
    BY NextOne
  <2> DEFINE x == [runner[r] EXCEPT !.pc = "prompts", !.lt = n]
  <2>2. x \in EvoRunners /\ x.pc = "prompts" /\ x.cycle = runner[r].cycle /\ x.lt = n /\ x.found = <<>>
    <3>1. n \in 0..(Lts + 1)
      BY DEF Evo!EvolutionAssumption
    <3>2. x \in EvoRunners
      BY <1>3, <3>1 DEF EvoRunners
    <3>3. QED
      BY <1>3, <3>2 DEF EvoRunners
  <2>3. runner' = [runner EXCEPT ![r] = x]
    BY <1>2, <1>6, <2>1 DEF EvoTyped
  <2> HIDE DEF x
  <2>4. QED
    BY <1>1, <1>4, <1>5, <2>2, <2>3, QuietStep
<1>7. CASE runner' = [runner EXCEPT ![r] = Evo!Nobody]
  BY <1>1, <1>4, <1>5, <1>7, NobodyIsOut, QuietStep
<1>8. QED
  BY <1>6, <1>7 DEF Evo!Execute

\* A prompt is read.
LEMMA ReadPromptKeeps == ASSUME Evo!EvolutionAssumption, EvoInv, NEW r \in Runners, Evo!ReadPrompt(r) PROVE EvoInv'
<1>1. /\ runner[r].pc = "prompts" /\ runner[r].lt <= Lts
      /\ runner' = [runner EXCEPT ![r].pc = "apply", ![r].seen = prompts[runner[r].lt][Len(prompts[runner[r].lt])].new]
      /\ UNCHANGED <<backend, rows, cycles, recent, prompts, failed, overlap, cut>>
  BY DEF Evo!ReadPrompt, Evo!At, Evo!tables, Evo!ghosts
<1>2. EvoTyped /\ runner[r].pc \in Inner
  BY <1>1 DEF EvoInv, Inner
<1>3. runner[r] \in EvoRunners /\ runner[r].found = <<>> /\ runner[r].lt \in 1..(Lts + 1)
  BY <1>1, <1>2, InCycle
<1>4. /\ cycles' \in Seq(EvoCycles) /\ prompts' \in [1..Lts -> Seq(EvoNotes)]
      /\ recent' \subseteq Evo!Committed' /\ \A l \in 1..Lts : Len(prompts'[l]) >= 1
  BY <1>1, <1>2 DEF EvoTyped, Evo!Committed
<1>5. Chained => Chained'
  BY <1>1 DEF Chained
<1>6. runner[r].lt \in 1..Lts
  BY <1>1, <1>3 DEF Evo!EvolutionAssumption
<1>7. PICK n \in 1..Lts : n = runner[r].lt
  BY <1>6
<1>8. prompts[n] \in Seq(EvoNotes) /\ Len(prompts[n]) >= 1
  BY <1>2 DEF EvoTyped
<1>9. prompts[n][Len(prompts[n])] \in EvoNotes
  BY <1>8
<1>10. PICK o \in Origins : o = prompts[n][Len(prompts[n])].new
  BY <1>9 DEF EvoNotes
<1> DEFINE x == [runner[r] EXCEPT !.pc = "apply", !.seen = o]
<1>11. /\ x \in EvoRunners /\ x.pc = "apply" /\ x.cycle = runner[r].cycle /\ x.lt = n /\ x.found = <<>>
       /\ x.seen = o
  <2>1. x \in EvoRunners
    BY <1>3 DEF EvoRunners
  <2>2. QED
    BY <1>3, <1>7 DEF EvoRunners
<1>12. runner' = [runner EXCEPT ![r] = x]
  BY <1>1, <1>2, <1>7, <1>10 DEF EvoTyped
<1> HIDE DEF x
<1>13. x.lt \in 1..(Lts + 1)
  BY <1>11 DEF Evo!EvolutionAssumption
<1>14. x.seen = prompts'[x.lt][Len(prompts'[x.lt])].new
  BY <1>1, <1>10, <1>11
<1>15. QED
  BY <1>1, <1>4, <1>5, <1>11, <1>12, <1>13, <1>14, QuietStep

\* A prompt is replaced, or stays.
LEMMA ApplyPromptKeeps == ASSUME Evo!EvolutionAssumption, EvoInv, NEW r \in Runners, Evo!ApplyPrompt(r) PROVE EvoInv'
<1>1. /\ runner[r].pc = "apply" /\ UNCHANGED <<backend, rows, cycles, recent, failed, overlap, cut>>
      /\ runner' = [runner EXCEPT ![r].pc = "prompts", ![r].lt = Evo!NextSeasoned(@), ![r].seen = Evo!First]
      /\ prompts' \in {prompts, [prompts EXCEPT ![runner[r].lt] =
                           Append(@, [old |-> runner[r].seen, new |-> [cycle |-> runner[r].cycle, lt |-> runner[r].lt]])]}
  BY DEF Evo!ApplyPrompt, Evo!At, Evo!tables, Evo!ghosts
<1>2. EvoTyped /\ runner[r].pc \in Inner
  BY <1>1 DEF EvoInv, Inner
<1>3. runner[r] \in EvoRunners /\ runner[r].found = <<>> /\ runner[r].lt \in 1..Lts
  BY <1>1, <1>2, InCycle
<1>4. cycles' \in Seq(EvoCycles) /\ recent' \subseteq Evo!Committed'
  BY <1>1, <1>2 DEF EvoTyped, Evo!Committed
<1>5. PICK n \in 1..Lts : n = runner[r].lt
  BY <1>3
<1>6. PICK m \in 1..(Lts + 1) : m = Evo!NextSeasoned(n)
  <2>1. n \in Nat
    OBVIOUS
  <2>2. QED
    BY <2>1, NextOne
<1> DEFINE x == [runner[r] EXCEPT !.pc = "prompts", !.lt = m, !.seen = Evo!First]
<1>7. /\ x \in EvoRunners /\ x.pc = "prompts" /\ x.cycle = runner[r].cycle /\ x.lt = m /\ x.found = <<>>
  <2>1. m \in 0..(Lts + 1) /\ Evo!First \in Origins
    BY NobodyIsOut DEF Evo!EvolutionAssumption
  <2>2. x \in EvoRunners
    BY <1>3, <2>1 DEF EvoRunners
  <2>3. QED
    BY <1>3, <2>2 DEF EvoRunners
<1>8. runner' = [runner EXCEPT ![r] = x]
  BY <1>1, <1>2, <1>5, <1>6 DEF EvoTyped
<1> HIDE DEF x
<1>9. CASE prompts' = prompts
  <2>1. Chained => Chained'
    BY <1>9 DEF Chained
  <2>2. prompts' \in [1..Lts -> Seq(EvoNotes)] /\ \A l \in 1..Lts : Len(prompts'[l]) >= 1
    BY <1>2, <1>9 DEF EvoTyped
  <2>3. QED
    BY <1>1, <1>4, <1>7, <1>8, <2>1, <2>2, QuietStep
<1>10. CASE prompts' = [prompts EXCEPT ![runner[r].lt] =
              Append(@, [old |-> runner[r].seen, new |-> [cycle |-> runner[r].cycle, lt |-> runner[r].lt]])]
  <2>1. PICK e \in EvoNotes : e = [old |-> runner[r].seen, new |-> [cycle |-> runner[r].cycle, lt |-> runner[r].lt]]
    <3>1. runner[r].seen \in Origins /\ runner[r].cycle \in Nat /\ runner[r].lt \in 0..(Lts + 1)
      BY <1>3 DEF EvoRunners
    <3>2. [cycle |-> runner[r].cycle, lt |-> runner[r].lt] \in Origins
      BY <3>1 DEF Origins
    <3>3. [old |-> runner[r].seen, new |-> [cycle |-> runner[r].cycle, lt |-> runner[r].lt]] \in EvoNotes
      BY <3>1, <3>2 DEF EvoNotes
    <3>4. QED
      BY <3>3
  <2>2. e.old = runner[r].seen
    BY <2>1
  <2>3. PICK h \in Seq(EvoNotes) : h = prompts[n]
    BY <1>2 DEF EvoTyped
  <2>4. Len(h) \in Nat /\ Len(h) >= 1
    BY <1>2, <2>3 DEF EvoTyped
  <2>5. PICK k \in Seq(EvoNotes) : k = Append(h, e)
    <3>1. Append(h, e) \in Seq(EvoNotes)
      OBVIOUS
    <3>2. QED
      BY <3>1, Zenon
  <2>6. Len(k) = Len(h) + 1 /\ k[Len(h) + 1] = e /\ \A i \in 1..Len(h) : k[i] = h[i]
    BY <2>4, <2>5
  <2>7. prompts' = [prompts EXCEPT ![n] = k]
    BY <1>5, <1>10, <2>1, <2>3, <2>5
  <2>8. /\ prompts' \in [1..Lts -> Seq(EvoNotes)] /\ prompts'[n] = k
        /\ \A l \in 1..Lts : l # n => prompts'[l] = prompts[l]
    BY <1>2, <2>7 DEF EvoTyped
  <2>9. ASSUME NEW l \in 1..Lts PROVE Len(prompts'[l]) >= 1
    <3>1. CASE l = n
      BY <2>4, <2>6, <2>8, <3>1
    <3>2. CASE l # n
      BY <1>2, <2>8, <3>2 DEF EvoTyped
    <3>3. QED
      BY <3>1, <3>2
  <2>10. ASSUME Chained, Read(runner[r]) PROVE Chained'
    <3>1. e.old = h[Len(h)].new
      BY <1>1, <1>5, <2>2, <2>3, <2>10 DEF Read
    <3>2. ASSUME NEW l \in 1..Lts, NEW i \in 2..Len(prompts'[l])
          PROVE  prompts'[l][i].old = prompts'[l][i - 1].new
      <4>1. CASE l # n
        BY <2>8, <2>10, <3>2, <4>1 DEF Chained
      <4>2. CASE l = n /\ i = Len(h) + 1
        <5>1. prompts'[l][i] = e /\ i - 1 = Len(h) /\ i - 1 \in 1..Len(h)
          BY <2>4, <2>6, <2>8, <4>2
        <5>2. prompts'[l][i - 1] = h[Len(h)]
          BY <2>6, <2>8, <4>2, <5>1
        <5>3. QED
          BY <3>1, <5>1, <5>2
      <4>3. CASE l = n /\ i # Len(h) + 1
        <5>1. i \in 2..Len(h) /\ i \in 1..Len(h) /\ i - 1 \in 1..Len(h)
          BY <2>4, <2>6, <2>8, <4>3
        <5>2. prompts'[l][i] = h[i] /\ prompts'[l][i - 1] = h[i - 1]
          BY <2>6, <2>8, <4>3, <5>1
        <5>3. h[i].old = h[i - 1].new
          BY <2>3, <2>10, <5>1 DEF Chained
        <5>4. QED
          BY <5>2, <5>3
      <4>4. QED
        BY <4>1, <4>2, <4>3
    <3>3. QED
      BY <3>2 DEF Chained
  <2>11. QED
    BY <1>1, <1>4, <1>7, <1>8, <2>8, <2>9, <2>10, QuietStep
<1>11. QED
  BY <1>1, <1>9, <1>10

\* The last phase ends, and the cycle.
LEMMA CompleteKeeps == ASSUME Evo!EvolutionAssumption, EvoInv, NEW r \in Runners, Evo!Complete(r) PROVE EvoInv'
<1>1. /\ runner[r].pc = "prompts" /\ cycles' = [cycles EXCEPT ![runner[r].cycle].status = "completed"]
      /\ recent' = recent \cup {runner[r].cycle} /\ runner' = [runner EXCEPT ![r] = Evo!Nobody]
      /\ UNCHANGED <<backend, rows, prompts, failed, overlap, cut>>
  BY DEF Evo!Complete, Evo!At, Evo!ghosts
<1>2. EvoTyped /\ runner[r].pc \in Inner
  BY <1>1 DEF EvoInv, Inner
<1>3. runner[r].cycle \in 1..Len(cycles)
  BY <1>2, InCycle
<1>4. PICK c \in 1..Len(cycles) : c = runner[r].cycle
  BY <1>3
<1>5. /\ cycles' \in Seq(EvoCycles) /\ Len(cycles') = Len(cycles)
      /\ \A i \in 1..Len(cycles) : cycles'[i].number = cycles[i].number
      /\ Evo!Committed \subseteq Evo!Committed' /\ c \in Evo!Committed'
  BY <1>1, <1>2, <1>4, Marked
<1>6. recent' \subseteq Evo!Committed'
  BY <1>1, <1>2, <1>4, <1>5 DEF EvoTyped
<1>7. prompts' \in [1..Lts -> Seq(EvoNotes)] /\ \A l \in 1..Lts : Len(prompts'[l]) >= 1
  BY <1>1, <1>2 DEF EvoTyped
<1>8. Chained => Chained'
  BY <1>1 DEF Chained
<1>9. QED
  BY <1>1, <1>5, <1>6, <1>7, <1>8, NobodyIsOut, QuietStep

\* The first phases end.
LEMMA PhasesKeep ==
    ASSUME EvoInv, NEW r \in Runners, Evo!StartReviews(r) \/ Evo!StartExecution(r) PROVE EvoInv'
<1>1. CASE Evo!StartReviews(r)
  BY <1>1, AdvanceKeeps DEF Evo!StartReviews
<1>2. CASE Evo!StartExecution(r)
  BY <1>2, AdvanceKeeps DEF Evo!StartExecution
<1>3. QED
  BY <1>1, <1>2

\* The number of the next cycle is one more than there is room for at most.
LEMMA NextNumber ==
    ASSUME EvoTyped, Evo!Latest # {}
    PROVE  cycles[CHOOSE i \in Evo!Latest : TRUE].number + 1 \in 1..(Len(cycles) + 1)
<1>1. DOMAIN cycles = 1..Len(cycles) /\ Len(cycles) \in Nat
  BY DEF EvoTyped
<1>2. Evo!Latest \subseteq 1..Len(cycles)
  BY <1>1 DEF Evo!Latest, Evo!Committed
<1>3. PICK c : c = CHOOSE i \in Evo!Latest : TRUE
  OBVIOUS
<1>4. c \in Evo!Latest
  BY <1>3, Zenon
<1>5. c \in 1..Len(cycles) /\ cycles[c].number \in 1..c
  BY <1>2, <1>4 DEF EvoTyped
<1>6. cycles[c].number + 1 \in 1..(Len(cycles) + 1)
  BY <1>1, <1>5
<1>7. QED
  BY <1>3, <1>6

\* A cycle is begun by a runner that is in none.
LEMMA BeginKeeps == ASSUME Evo!EvolutionAssumption, EvoInv, NEW r \in Runners, Evo!Begin(r) PROVE EvoInv'
<1>1. /\ runner[r].pc \in {"idle", "begin"} /\ Len(cycles) < MaxCycles
      /\ runner' = [runner EXCEPT ![r] =
                       [Evo!Nobody EXCEPT !.pc = "collect", !.cycle = Len(cycles) + 1, !.lt = 1]]
      /\ UNCHANGED <<backend, rows, recent, prompts, failed, cut>>
  BY DEF Evo!Begin, Evo!At
<1>2. overlap' = (overlap \/ \E q \in Runners \ {r} : runner[q].pc # "idle" /\ runner[q].pc # "begin")
  BY Zenon DEF Evo!Begin, Evo!At
<1>3. EvoTyped /\ EvoFlags /\ Alone /\ InOrder /\ Chains
  BY DEF EvoInv
<1>4. PICK e \in EvoCycles : cycles' = Append(cycles, e) /\ e.number \in 1..(Len(cycles) + 1) /\ e.status = "collecting"
  <2>1. PICK n : n = IF Evo!Latest = {} THEN 1 ELSE cycles[CHOOSE i \in Evo!Latest : TRUE].number + 1
    OBVIOUS
  <2>2. Len(cycles) \in Nat
    BY <1>3 DEF EvoTyped
  <2>3. n \in 1..(Len(cycles) + 1) /\ n \in Nat
    BY <1>3, <2>1, <2>2, NextNumber
  <2>4. cycles' = Append(cycles, [number |-> n, status |-> "collecting"])
    BY <2>1 DEF Evo!Begin
  <2>5. [number |-> n, status |-> "collecting"] \in EvoCycles
    BY <2>3 DEF EvoCycles
  <2>6. QED
    BY <2>3, <2>4, <2>5
<1>5. /\ cycles \in Seq(EvoCycles) /\ cycles' \in Seq(EvoCycles) /\ Len(cycles) \in Nat
      /\ Len(cycles') = Len(cycles) + 1 /\ cycles'[Len(cycles) + 1] = e
      /\ \A i \in 1..Len(cycles) : cycles'[i] = cycles[i]
  BY <1>3, <1>4 DEF EvoTyped
<1>6. Evo!Committed \subseteq Evo!Committed'
  BY <1>5 DEF Evo!Committed
<1>7. PICK c \in Nat : c = Len(cycles) + 1
  BY <1>5
<1> DEFINE x == [Evo!Nobody EXCEPT !.pc = "collect", !.cycle = c, !.lt = 1]
<1>8. x \in EvoRunners /\ x.pc = "collect" /\ x.cycle = c /\ x.lt = 1 /\ x.found = <<>>
  <2>1. 1 \in 0..(Lts + 1)
    BY DEF Evo!EvolutionAssumption
  <2>2. x \in EvoRunners
    BY <2>1, NobodyIsOut DEF EvoRunners
  <2>3. QED
    BY <2>2, NobodyIsOut DEF EvoRunners
<1>9. runner' = [runner EXCEPT ![r] = x]
  BY <1>1, <1>7
<1> HIDE DEF x
<1>10. /\ runner' \in [Runners -> EvoRunners] /\ runner'[r] = x
       /\ \A q \in Runners \ {r} : runner'[q] = runner[q]
  BY <1>3, <1>8, <1>9 DEF EvoTyped
<1>11. ASSUME NEW q \in Runners PROVE Placed(runner[q])'
  <2>1. CASE q = r
    <3>1. 1 \in 1..(Lts + 1) /\ c \in 1..Len(cycles')
      BY <1>5, <1>7 DEF Evo!EvolutionAssumption
    <3>2. QED
      BY <1>8, <1>10, <2>1, <3>1 DEF Placed, Inner
  <2>2. CASE q # r
    <3>1. Placed(runner[q]) /\ runner'[q] = runner[q]
      BY <1>3, <1>10, <2>2 DEF EvoTyped
    <3>2. 1..Len(cycles) \subseteq 1..Len(cycles')
      BY <1>5
    <3>3. QED
      BY <3>1, <3>2 DEF Placed
  <2>3. QED
    BY <2>1, <2>2
<1>12. EvoTyped'
  <2>1. ASSUME NEW i \in 1..Len(cycles') PROVE cycles'[i].number \in 1..i
    <3>1. CASE i = Len(cycles) + 1
      BY <1>4, <1>5, <3>1
    <3>2. CASE i # Len(cycles) + 1
      <4>1. i \in 1..Len(cycles)
        BY <1>5, <3>2
      <4>2. QED
        BY <1>3, <1>5, <4>1 DEF EvoTyped
    <3>3. QED
      BY <3>1, <3>2
  <2>2. Len(cycles') <= MaxCycles
    BY <1>1, <1>5 DEF Evo!EvolutionAssumption
  <2>3. recent' \subseteq Evo!Committed'
    BY <1>1, <1>3, <1>6 DEF EvoTyped
  <2>4. /\ backend' \in {"sqlite", "postgres"} /\ rows' \in Seq(EvoRows)
        /\ prompts' \in [1..Lts -> Seq(EvoNotes)] /\ \A l \in 1..Lts : Len(prompts'[l]) >= 1
    BY <1>1, <1>3 DEF EvoTyped
  <2>5. QED
    BY <1>5, <1>10, <1>11, <2>1, <2>2, <2>3, <2>4 DEF EvoTyped
<1>13. EvoFlags'
  <2>1. overlap' \in BOOLEAN
    BY <1>2, <1>3, Zenon DEF EvoFlags
  <2>2. QED
    BY <1>1, <1>3, <2>1 DEF EvoFlags
<1>14. ASSUME ~overlap'
       PROVE  /\ ~overlap /\ \A q \in Runners : runner[q].pc \notin Inner
              /\ \A q \in Runners : runner'[q].pc \in Inner => q = r
  <2>1. ~overlap /\ \A q \in Runners \ {r} : runner[q].pc \in {"idle", "begin"}
    BY <1>2, <1>14, Zenon
  <2>2. \A q \in Runners : runner[q].pc \in {"idle", "begin"}
    BY <1>1, <2>1
  <2>3. QED
    BY <1>10, <2>1, <2>2 DEF Inner
<1>15. Alone'
  BY <1>14 DEF Alone
<1>16. InOrder'
  <2> SUFFICES ASSUME ~failed', ~overlap', ~cut'
               PROVE  /\ \A q \in Runners : runner'[q].pc \in Inner => Fits(runner[q].found)'
                      /\ (\A q \in Runners : runner'[q].pc \notin Inner) => Fits(<<>>)'
    BY DEF InOrder
  <2>1. ~failed /\ ~cut
    BY <1>1
  <2>2. Fits(<<>>)
    BY <1>3, <1>14, <2>1 DEF InOrder
  <2>3. Fits(<<>>)'
    BY <1>1, <2>2 DEF Fits
  <2>4. ASSUME NEW q \in Runners, runner'[q].pc \in Inner PROVE Fits(runner[q].found)'
    <3>1. runner'[q].found = <<>>
      BY <1>8, <1>10, <1>14, <2>4
    <3>2. QED
      BY <2>3, <3>1 DEF Fits
  <2>5. QED
    BY <2>3, <2>4
<1>17. Chains'
  <2> SUFFICES ASSUME ~overlap' PROVE Chained' /\ \A q \in Runners : Read(runner[q])'
    BY DEF Chains
  <2>1. Chained'
    BY <1>1, <1>3, <1>14 DEF Chains, Chained
  <2>2. ASSUME NEW q \in Runners PROVE Read(runner[q])'
    <3>1. runner'[q].pc # "apply"
      BY <1>8, <1>10, <1>14 DEF Inner
    <3>2. QED
      BY <3>1 DEF Read
  <2>3. QED
    BY <2>1, <2>2
<1>18. QED
  BY <1>12, <1>13, <1>15, <1>16, <1>17 DEF EvoInv

\* Runners stay in their cycles or leave them, and nothing else is changed but the state of
\* cycles that were not committed.
LEMMA LeaveKeeps ==
    ASSUME EvoInv, runner' \in [Runners -> EvoRunners],
           \A q \in Runners :
              \/ runner'[q] = runner[q]
              \/ runner'[q].pc \notin Inner /\ runner'[q].cycle = 0 /\ runner'[q].found = <<>>,
           cycles' \in Seq(EvoCycles), Len(cycles') = Len(cycles),
           \A i \in 1..Len(cycles) : cycles'[i].number = cycles[i].number,
           recent' \subseteq Evo!Committed', UNCHANGED <<backend, rows, prompts, failed, overlap>>,
           cut' \in BOOLEAN,
           ~cut' => ~cut /\ \A q \in Runners : runner[q].pc \in Inner => runner'[q] = runner[q]
    PROVE  EvoInv'
<1>1. EvoTyped /\ EvoFlags /\ Alone /\ InOrder /\ Chains
  BY DEF EvoInv
<1>2. ASSUME NEW q \in Runners PROVE Placed(runner[q])'
  <2>1. CASE runner'[q] = runner[q]
    BY <1>1, <2>1 DEF EvoTyped, Placed
  <2>2. CASE runner'[q].pc \notin Inner /\ runner'[q].cycle = 0 /\ runner'[q].found = <<>>
    BY <2>2 DEF Placed, Inner
  <2>3. QED
    BY <2>1, <2>2
<1>3. EvoTyped'
  BY <1>1, <1>2 DEF EvoTyped
<1>4. EvoFlags'
  BY <1>1 DEF EvoFlags
<1>5. \A q \in Runners : runner'[q].pc \in Inner => runner'[q] = runner[q] /\ runner[q].pc \in Inner
  OBVIOUS
<1>6. Alone'
  BY <1>1, <1>5 DEF Alone
<1>7. InOrder'
  <2> SUFFICES ASSUME ~failed', ~overlap', ~cut'
               PROVE  /\ \A q \in Runners : runner'[q].pc \in Inner => Fits(runner[q].found)'
                      /\ (\A q \in Runners : runner'[q].pc \notin Inner) => Fits(<<>>)'
    BY DEF InOrder
  <2>1. ~failed /\ ~overlap /\ ~cut
    OBVIOUS
  <2>2. ASSUME NEW q \in Runners, runner'[q].pc \in Inner PROVE Fits(runner[q].found)'
    <3>1. runner'[q] = runner[q] /\ Fits(runner[q].found)
      BY <1>1, <1>5, <2>1, <2>2 DEF InOrder
    <3>2. QED
      BY <3>1 DEF Fits
  <2>3. ASSUME \A q \in Runners : runner'[q].pc \notin Inner PROVE Fits(<<>>)'
    <3>1. \A q \in Runners : runner[q].pc \notin Inner
      BY <2>3
    <3>2. Fits(<<>>)
      BY <1>1, <2>1, <3>1 DEF InOrder
    <3>3. QED
      BY <3>2 DEF Fits
  <2>4. QED
    BY <2>2, <2>3
<1>8. Chains'
  <2> SUFFICES ASSUME ~overlap' PROVE Chained' /\ \A q \in Runners : Read(runner[q])'
    BY DEF Chains
  <2>1. Chained /\ \A q \in Runners : Read(runner[q])
    BY <1>1 DEF Chains
  <2>2. Chained'
    BY <2>1 DEF Chained
  <2>3. ASSUME NEW q \in Runners PROVE Read(runner[q])'
    BY <1>5, <2>1 DEF Read, Inner
  <2>4. QED
    BY <2>2, <2>3
<1>9. QED
  BY <1>3, <1>4, <1>6, <1>7, <1>8 DEF EvoInv

\* The scheduler asks, and is told to go on.
LEMMA AskKeeps == ASSUME Evo!EvolutionAssumption, EvoInv, NEW r \in Runners, Evo!Ask(r) PROVE EvoInv'
<1>1. /\ runner[r].pc = "idle" /\ runner' = [runner EXCEPT ![r].pc = "begin"]
      /\ UNCHANGED <<backend, rows, cycles, recent, prompts, failed, overlap, cut>>
  BY DEF Evo!Ask, Evo!At, Evo!tables, Evo!ghosts
<1>2. EvoTyped /\ EvoFlags
  BY DEF EvoInv
<1>3. runner[r] \in EvoRunners /\ runner[r].cycle = 0 /\ runner[r].found = <<>>
  BY <1>1, <1>2 DEF EvoTyped, Placed, Inner
<1> DEFINE x == [runner[r] EXCEPT !.pc = "begin"]
<1>4. x \in EvoRunners /\ x.pc = "begin" /\ x.cycle = 0 /\ x.found = <<>>
  BY <1>3 DEF EvoRunners
<1>5. runner' = [runner EXCEPT ![r] = x]
  BY <1>1, <1>2 DEF EvoTyped
<1> HIDE DEF x
<1>6. /\ runner' \in [Runners -> EvoRunners] /\ runner'[r] = x
      /\ \A q \in Runners \ {r} : runner'[q] = runner[q]
  BY <1>2, <1>4, <1>5 DEF EvoTyped
<1>7. ASSUME NEW q \in Runners
      PROVE  /\ \/ runner'[q] = runner[q]
                \/ runner'[q].pc \notin Inner /\ runner'[q].cycle = 0 /\ runner'[q].found = <<>>
             /\ runner[q].pc \in Inner => runner'[q] = runner[q]
  BY <1>1, <1>4, <1>6 DEF Inner
<1>8. recent' \subseteq Evo!Committed' /\ cycles' \in Seq(EvoCycles)
  BY <1>1, <1>2 DEF EvoTyped, Evo!Committed
<1>9. QED
  BY <1>1, <1>2, <1>6, <1>7, <1>8, LeaveKeeps DEF EvoFlags

\* Runners are stopped: cycles that were not committed are lost.
LEMMA StopKeeps ==
    ASSUME Evo!EvolutionAssumption, EvoInv, NEW R \in SUBSET Runners, Evo!Stop(R)
    PROVE  EvoInv' /\ Evo!Committed \subseteq Evo!Committed' /\ Evo!Active \subseteq Evo!Active'
<1>1. EvoTyped
  BY DEF EvoInv
<1>2. /\ runner' = [r \in Runners |-> IF r \in R THEN Evo!Nobody ELSE runner[r]]
      /\ cut' = TRUE /\ UNCHANGED <<backend, rows, recent, prompts, failed, overlap>>
  BY DEF Evo!Stop, Evo!ghosts
<1>3. /\ runner' \in [Runners -> EvoRunners]
      /\ \A q \in Runners :
            \/ runner'[q] = runner[q]
            \/ runner'[q].pc \notin Inner /\ runner'[q].cycle = 0 /\ runner'[q].found = <<>>
  BY <1>1, <1>2, NobodyIsOut DEF EvoTyped, Inner
<1>4. cycles \in Seq(EvoCycles) /\ DOMAIN cycles = 1..Len(cycles) /\ Len(cycles) \in Nat
  BY <1>1 DEF EvoTyped
<1> DEFINE Mine(i) == i \notin Evo!Committed /\ \E r \in R : runner[r].cycle = i
<1> DEFINE e(i) == IF Mine(i) THEN [cycles[i] EXCEPT !.status = "lost"] ELSE cycles[i]
<1>5. cycles' = [i \in 1..Len(cycles) |-> e(i)]
  BY <1>4 DEF Evo!Stop
<1>6. ASSUME NEW i \in 1..Len(cycles)
      PROVE  /\ e(i) \in EvoCycles /\ e(i).number = cycles[i].number
             /\ i \in Evo!Committed => e(i) = cycles[i]
  <2>1. cycles[i] \in EvoCycles
    BY <1>4
  <2>2. [cycles[i] EXCEPT !.status = "lost"] \in EvoCycles
    BY <2>1 DEF EvoCycles
  <2>3. [cycles[i] EXCEPT !.status = "lost"].number = cycles[i].number
    BY <2>1 DEF EvoCycles
  <2>4. CASE Mine(i)
    <3>1. i \notin Evo!Committed
      BY <2>4
    <3>2. e(i) = [cycles[i] EXCEPT !.status = "lost"]
      BY <2>4
    <3>3. QED
      BY <2>2, <2>3, <3>1, <3>2
  <2>5. CASE ~Mine(i)
    <3>1. e(i) = cycles[i]
      BY <2>5
    <3>2. QED
      BY <2>1, <3>1
  <2>6. QED
    BY <2>4, <2>5
<1> HIDE DEF e, Mine
<1>7. /\ cycles' \in Seq(EvoCycles) /\ Len(cycles') = Len(cycles) /\ DOMAIN cycles' = 1..Len(cycles)
      /\ \A i \in 1..Len(cycles) : cycles'[i] = e(i)
  BY <1>4, <1>5, <1>6
<1>8. \A i \in 1..Len(cycles) : cycles'[i].number = cycles[i].number
  BY <1>6, <1>7
<1>9. Evo!Committed \subseteq Evo!Committed'
  BY <1>4, <1>6, <1>7 DEF Evo!Committed
<1>10. Evo!Active \subseteq Evo!Active'
  <2>1. ASSUME NEW i \in Evo!Active PROVE i \in Evo!Active'
    <3>1. i \in Evo!Committed /\ i \in 1..Len(cycles) /\ cycles[i].status # "completed"
      BY <1>4 DEF Evo!Active, Evo!Committed
    <3>2. i \in Evo!Committed' /\ cycles'[i] = cycles[i]
      BY <1>6, <1>7, <1>9, <3>1
    <3>3. QED
      BY <3>1, <3>2 DEF Evo!Active
  <2>2. QED
    BY <2>1
<1>11. recent' \subseteq Evo!Committed'
  BY <1>1, <1>2, <1>9 DEF EvoTyped
<1>12. QED
  BY <1>2, <1>3, <1>7, <1>8, <1>9, <1>10, <1>11, LeaveKeeps

\* Completed cycles are no longer recent.
LEMMA CoolDownKeeps == ASSUME EvoInv, Evo!CoolDown PROVE EvoInv'
<1>1. recent' = {} /\ UNCHANGED <<backend, rows, cycles, runner, prompts, failed, overlap, cut>>
  BY DEF Evo!CoolDown, Evo!ghosts
<1>2. EvoTyped /\ EvoFlags
  BY DEF EvoInv
<1>3. runner' \in [Runners -> EvoRunners] /\ cycles' \in Seq(EvoCycles) /\ recent' \subseteq Evo!Committed'
  BY <1>1, <1>2 DEF EvoTyped
<1>4. QED
  BY <1>1, <1>2, <1>3, LeaveKeeps DEF EvoFlags

\* Every step of an evolution keeps the invariant.
LEMMA EvoStep == ASSUME Evo!EvolutionAssumption, EvoInv, [Evo!Next]_(Evo!vars) PROVE EvoInv'
<1>1. ASSUME NEW r \in Runners, Evo!Ask(r) \/ Evo!Cycle(r) \/ Evo!Raise(r) PROVE EvoInv'
  <2>1. CASE Evo!Ask(r)
    BY <2>1, AskKeeps
  <2>2. CASE Evo!Cycle(r)
    BY <2>2, BeginKeeps, CollectKeeps, PhasesKeep, ReviewKeeps, ExecuteKeeps, ReadPromptKeeps,
       ApplyPromptKeeps, CompleteKeeps DEF Evo!Cycle
  <2>3. CASE Evo!Raise(r)
    <3>1. {r} \in SUBSET Runners /\ Evo!Stop({r})
      BY <2>3 DEF Evo!Raise
    <3>2. QED
      BY <3>1, StopKeeps
  <2>4. QED
    BY <1>1, <2>1, <2>2, <2>3
<1>2. CASE Evo!Crash
  <2>1. Runners \in SUBSET Runners
    OBVIOUS
  <2>2. QED
    BY <1>2, <2>1, StopKeeps DEF Evo!Crash
<1>3. CASE UNCHANGED Evo!vars
  BY <1>3 DEF Evo!vars, Evo!tables, Evo!ghosts, EvoInv, EvoTyped, EvoFlags, Alone, InOrder, Chains, Chained,
     Placed, Fits, Read, Evo!Committed
<1>4. QED
  BY <1>1, <1>2, <1>3, CoolDownKeeps DEF Evo!Next

\* It is about what was written: verdicts where they belong, histories that name what was replaced.
LEMMA EvoMean == ASSUME Evo!EvolutionAssumption, EvoInv PROVE Evo!WrittenAsRead /\ Evo!TypeOK
<1>1. EvoTyped /\ EvoFlags /\ Alone /\ InOrder /\ Chains
  BY DEF EvoInv
<1>2. DOMAIN rows = 1..Len(rows) /\ DOMAIN cycles = 1..Len(cycles) /\ Len(cycles) \in Nat
  BY <1>1 DEF EvoTyped
<1>3. ASSUME ~failed, ~overlap, ~cut, NEW i \in DOMAIN rows, rows[i].status # "pending"
      PROVE  rows[i].by = rows[i].of
  <2>1. \E f : Fits(f)
    BY <1>1, <1>3 DEF InOrder
  <2>2. QED
    BY <1>2, <1>3, <2>1 DEF Fits
<1>4. Evo!OwnVerdict
  BY <1>3 DEF Evo!OwnVerdict
<1>5. Evo!HistoryChains
  BY <1>1 DEF Evo!HistoryChains, Chains, Chained
<1>6. ASSUME NEW i \in DOMAIN rows PROVE rows[i].status \in {"pending", "decided"}
  <2>1. rows[i] \in EvoRows
    BY <1>1 DEF EvoTyped
  <2>2. QED
    BY <2>1 DEF EvoRows
<1>7. ASSUME NEW i \in DOMAIN cycles
      PROVE  /\ cycles[i].number \in 1..MaxCycles
             /\ cycles[i].status \in {"collecting", "reviewing", "executing", "completed", "lost"}
  <2>1. cycles[i] \in EvoCycles /\ cycles[i].number \in 1..i /\ i \in 1..Len(cycles) /\ Len(cycles) <= MaxCycles
    BY <1>1, <1>2 DEF EvoTyped
  <2>2. cycles[i].number \in 1..MaxCycles
    BY <1>2, <2>1 DEF Evo!EvolutionAssumption
  <2>3. QED
    BY <2>1, <2>2 DEF EvoCycles
<1>8. ASSUME NEW r \in Runners PROVE runner[r].cycle \in 0..Len(cycles) /\ runner[r].lt \in 0..(Lts + 1)
  <2>1. runner[r] \in EvoRunners /\ Placed(runner[r])
    BY <1>1 DEF EvoTyped
  <2>2. runner[r].lt \in 0..(Lts + 1)
    BY <2>1 DEF EvoRunners
  <2>3. runner[r].cycle \in 1..Len(cycles) \/ runner[r].cycle = 0
    BY <2>1 DEF Placed
  <2>4. QED
    BY <1>2, <2>2, <2>3
<1>9. Evo!TypeOK
  BY <1>1, <1>6, <1>7, <1>8 DEF Evo!TypeOK, EvoTyped
<1>10. QED
  BY <1>4, <1>5, <1>9 DEF Evo!WrittenAsRead

\* What a step does to a cycle that is active and that nobody is in: nothing.
LEMMA ActiveStays ==
    ASSUME Evo!EvolutionAssumption, EvoInv, NEW i \in Evo!Active,
           NEW r \in Runners, runner[r].cycle # i, Evo!Cycle(r)
    PROVE  i \in Evo!Active' /\ \A q \in Runners : runner[q].cycle # i => runner'[q].cycle # i
<1>1. EvoTyped
  BY DEF EvoInv
<1>2. cycles \in Seq(EvoCycles) /\ DOMAIN cycles = 1..Len(cycles) /\ Len(cycles) \in Nat
  BY <1>1 DEF EvoTyped
<1>3. i \in 1..Len(cycles) /\ cycles[i].status \notin {"collecting", "lost", "completed"} /\ i # 0
  BY <1>2 DEF Evo!Active, Evo!Committed
<1>4. ASSUME cycles'[i] = cycles[i], i \in DOMAIN cycles' PROVE i \in Evo!Active'
  BY <1>3, <1>4 DEF Evo!Active, Evo!Committed
<1>5. runner \in [Runners -> EvoRunners]
  BY <1>1 DEF EvoTyped
<1>6. CASE Evo!Begin(r)
  <2>2. cycles'[i] = cycles[i] /\ i \in DOMAIN cycles'
    BY <1>2, <1>3, <1>6 DEF Evo!Begin
  <2>3. runner' = [runner EXCEPT ![r] =
                       [Evo!Nobody EXCEPT !.pc = "collect", !.cycle = Len(cycles) + 1, !.lt = 1]]
    BY <1>6 DEF Evo!Begin
  <2>4. runner'[r].cycle = Len(cycles) + 1
    BY <1>5, <2>3 DEF Evo!Nobody
  <2>5. \A q \in Runners \ {r} : runner'[q] = runner[q]
    BY <1>5, <2>3
  <2>6. QED
    BY <1>2, <1>3, <1>4, <2>2, <2>4, <2>5
<1>7. CASE Evo!StartReviews(r) \/ Evo!StartExecution(r) \/ Evo!Complete(r)
  <2>1. PICK s : cycles' = [cycles EXCEPT ![runner[r].cycle].status = s]
    BY <1>7 DEF Evo!StartReviews, Evo!StartExecution, Evo!Complete, Evo!Advance
  <2>2. cycles'[i] = cycles[i] /\ i \in DOMAIN cycles'
    BY <1>2, <1>3, <2>1
  <2>3. \A q \in Runners : runner'[q].cycle \in {0, runner[q].cycle}
    <3>1. CASE Evo!StartReviews(r)
      <4>1. runner' = [runner EXCEPT ![r].pc = "review"]
        BY <3>1 DEF Evo!StartReviews, Evo!Advance
      <4>2. QED
        BY <1>5, <4>1 DEF EvoRunners
    <3>2. CASE Evo!StartExecution(r)
      <4>1. runner' = [runner EXCEPT ![r].pc = "execute"]
        BY <3>2 DEF Evo!StartExecution, Evo!Advance
      <4>2. QED
        BY <1>5, <4>1 DEF EvoRunners
    <3>3. CASE Evo!Complete(r)
      <4>1. runner' = [runner EXCEPT ![r] = Evo!Nobody]
        BY <3>3 DEF Evo!Complete
      <4>2. QED
        BY <1>5, <4>1, NobodyIsOut
    <3>4. QED
      BY <1>7, <3>1, <3>2, <3>3
  <2>4. QED
    BY <1>3, <1>4, <2>2, <2>3
<1>8. CASE Evo!Collect(r) \/ Evo!Review(r) \/ Evo!Execute(r) \/ Evo!ReadPrompt(r) \/ Evo!ApplyPrompt(r)
  <2>1. cycles' = cycles
    BY <1>8 DEF Evo!Collect, Evo!Review, Evo!Execute, Evo!ReadPrompt, Evo!ApplyPrompt, Evo!tables
  <2>2. \A q \in Runners : runner'[q].cycle \in {0, runner[q].cycle}
    <3>1. CASE Evo!Collect(r)
      <4>1. CASE runner' = [runner EXCEPT ![r].lt = @ + 1]
        BY <1>5, <4>1 DEF EvoRunners
      <4>2. ASSUME NEW p, runner' = [runner EXCEPT ![r].lt = @ + 1, ![r].found = Append(@, p)]
            PROVE  \A q \in Runners : runner'[q].cycle \in {0, runner[q].cycle}
        BY <1>5, <4>2 DEF EvoRunners
      <4>3. QED
        BY <3>1, <4>1, <4>2 DEF Evo!Collect
    <3>2. CASE Evo!Review(r)
      BY <1>5, <3>2 DEF Evo!Review, EvoRunners
    <3>3. CASE Evo!Execute(r)
      <4>1. CASE runner' = [runner EXCEPT ![r] = Evo!Nobody]
        BY <1>5, <4>1, NobodyIsOut
      <4>2. ASSUME NEW n, runner' = [runner EXCEPT ![r].pc = "prompts", ![r].lt = n]
            PROVE  \A q \in Runners : runner'[q].cycle \in {0, runner[q].cycle}
        BY <1>5, <4>2 DEF EvoRunners
      <4>3. QED
        BY <3>3, <4>1, <4>2 DEF Evo!Execute
    <3>4. CASE Evo!ReadPrompt(r) \/ Evo!ApplyPrompt(r)
      <4>1. ASSUME NEW a, NEW o, runner' = [runner EXCEPT ![r].pc = a, ![r].seen = o]
            PROVE  \A q \in Runners : runner'[q].cycle \in {0, runner[q].cycle}
        BY <1>5, <4>1 DEF EvoRunners
      <4>2. ASSUME NEW a, NEW n, NEW o,
                   runner' = [runner EXCEPT ![r].pc = a, ![r].lt = n, ![r].seen = o]
            PROVE  \A q \in Runners : runner'[q].cycle \in {0, runner[q].cycle}
        BY <1>5, <4>2 DEF EvoRunners
      <4>3. CASE Evo!ReadPrompt(r)
        BY <4>1, <4>3 DEF Evo!ReadPrompt
      <4>4. CASE Evo!ApplyPrompt(r)
        <5>1. PICK n : n = Evo!NextSeasoned(runner[r].lt)
          OBVIOUS
        <5>2. runner' = [runner EXCEPT ![r].pc = "prompts", ![r].lt = n, ![r].seen = Evo!First]
          BY <4>4, <5>1 DEF Evo!ApplyPrompt
        <5>3. QED
          BY <4>2, <5>2
      <4>5. QED
        BY <3>4, <4>3, <4>4
    <3>5. QED
      BY <1>8, <3>1, <3>2, <3>3, <3>4
  <2>3. i \in DOMAIN cycles' /\ cycles'[i] = cycles[i]
    BY <1>2, <1>3, <2>1
  <2>4. QED
    BY <1>3, <1>4, <2>2, <2>3
<1>9. QED
  BY <1>6, <1>7, <1>8 DEF Evo!Cycle

\* A cycle that was interrupted stays so, and keeps the scheduler where it is.
LEMMA InterruptedStays ==
    ASSUME Evo!EvolutionAssumption, EvoInv, [Evo!Next]_(Evo!vars), Evo!Interrupted
    PROVE  Evo!Interrupted' /\ (runner[Scheduler].pc = "idle" => runner'[Scheduler].pc = "idle")
<1>1. PICK i \in Evo!Active : \A r \in Runners : runner[r].cycle # i
  BY DEF Evo!Interrupted
<1>2. EvoTyped /\ Scheduler \in Runners
  BY DEF EvoInv, Evo!EvolutionAssumption
<1>3. runner \in [Runners -> EvoRunners]
  BY <1>2 DEF EvoTyped
<1>4. i # 0
  BY <1>2 DEF EvoTyped, Evo!Active, Evo!Committed
<1>5. ASSUME i \in Evo!Active', \A r \in Runners : runner'[r].cycle # i PROVE Evo!Interrupted'
  BY <1>5 DEF Evo!Interrupted
<1>6. ASSUME NEW R \in SUBSET Runners, Evo!Stop(R)
      PROVE  Evo!Interrupted' /\ (runner[Scheduler].pc = "idle" => runner'[Scheduler].pc = "idle")
  <2>1. runner' = [r \in Runners |-> IF r \in R THEN Evo!Nobody ELSE runner[r]]
    BY <1>6 DEF Evo!Stop
  <2>2. i \in Evo!Active'
    BY <1>6, StopKeeps
  <2>3. \A r \in Runners : runner'[r].cycle # i
    BY <1>1, <1>4, <2>1, NobodyIsOut
  <2>4. runner[Scheduler].pc = "idle" => runner'[Scheduler].pc = "idle"
    BY <1>2, <2>1, NobodyIsOut
  <2>5. QED
    BY <1>5, <2>2, <2>3, <2>4
<1>7. ASSUME NEW r \in Runners, Evo!Ask(r) PROVE FALSE
  BY <1>1, <1>7 DEF Evo!Ask, Evo!ShouldRun
<1>8. ASSUME NEW r \in Runners, Evo!Cycle(r)
      PROVE  Evo!Interrupted' /\ (runner[Scheduler].pc = "idle" => runner'[Scheduler].pc = "idle")
  <2>1. i \in Evo!Active' /\ \A q \in Runners : runner'[q].cycle # i
    BY <1>1, <1>8, ActiveStays
  <2>2. ASSUME runner[Scheduler].pc = "idle" PROVE r # Scheduler
    BY <1>8, <2>2 DEF Evo!Cycle, Evo!Begin, Evo!Collect, Evo!StartReviews, Evo!Review, Evo!StartExecution,
       Evo!Execute, Evo!ReadPrompt, Evo!ApplyPrompt, Evo!Complete, Evo!Advance, Evo!At
  <2>3. ASSUME r # Scheduler PROVE runner'[Scheduler] = runner[Scheduler]
    <3>1. \A x, q : q # r => [runner EXCEPT ![r] = x][q] = runner[q]
      BY <1>3
    <3>2. CASE Evo!Begin(r) \/ Evo!Collect(r) \/ Evo!StartReviews(r) \/ Evo!Review(r) \/ Evo!StartExecution(r)
      BY <1>2, <1>3, <2>3, <3>2 DEF Evo!Begin, Evo!Collect, Evo!StartReviews, Evo!Review, Evo!StartExecution,
         Evo!Advance
    <3>3. CASE Evo!Execute(r) \/ Evo!ReadPrompt(r) \/ Evo!ApplyPrompt(r) \/ Evo!Complete(r)
      BY <1>2, <1>3, <2>3, <3>3 DEF Evo!Execute, Evo!ReadPrompt, Evo!ApplyPrompt, Evo!Complete
    <3>4. QED
      BY <1>8, <3>2, <3>3 DEF Evo!Cycle
  <2>4. QED
    BY <1>5, <2>1, <2>2, <2>3
<1>9. CASE UNCHANGED Evo!vars
  BY <1>9 DEF Evo!vars, Evo!tables, Evo!Interrupted, Evo!Active, Evo!Committed
<1>10. CASE Evo!CoolDown
  <2>1. UNCHANGED <<cycles, runner>>
    BY <1>10 DEF Evo!CoolDown
  <2>2. i \in Evo!Active'
    BY <2>1 DEF Evo!Active, Evo!Committed
  <2>3. QED
    BY <1>1, <1>5, <2>1, <2>2
<1>11. CASE Evo!Crash
  <2>1. Runners \in SUBSET Runners /\ Evo!Stop(Runners)
    BY <1>11 DEF Evo!Crash
  <2>2. QED
    BY <1>6, <2>1
<1>12. ASSUME NEW r \in Runners, Evo!Raise(r)
       PROVE  Evo!Interrupted' /\ (runner[Scheduler].pc = "idle" => runner'[Scheduler].pc = "idle")
  <2>1. {r} \in SUBSET Runners /\ Evo!Stop({r})
    BY <1>12 DEF Evo!Raise
  <2>2. QED
    BY <1>6, <2>1
<1>13. QED
  BY <1>7, <1>8, <1>9, <1>10, <1>11, <1>12 DEF Evo!Next

-----------------------------------------------------------------------------
(* Commands of the god panel.                                               *)

Com == INSTANCE Commands

Statuses == {"none", "accepted", "running", "completed", "failed"}

CommandLabels == {"unborn", "insert", "launch", "start", "start_row", "work", "end_row", "done", "cut"}

CommandRecords ==
    [pc : CommandLabels, home : Servers \cup {"none"}, result : Statuses, row : Statuses,
     lost : BOOLEAN, told : Statuses]

CachedEntries == [id : Orders, status : Statuses \ {"none"}]

On(w) == {caches[w][i] : i \in DOMAIN caches[w]}

CachesTyped ==
    /\ caches \in [Servers -> Seq(CachedEntries)]
    /\ \A w \in Servers :
          /\ Len(caches[w]) <= MaxCached
          /\ \A i, j \in DOMAIN caches[w] : caches[w][i].id = caches[w][j].id => i = j

\* What is cached of a command is so where its thread is.
Homed ==
    /\ \A w \in Servers : \A e \in On(w) : commands[e.id].home = w /\ commands[e.id].pc # "unborn"
    /\ \A c \in Orders : commands[c].pc # "unborn" => commands[c].home \in Servers

\* How far a command is that goes its way.
Reached(r) ==
    CASE r.pc = "unborn" -> "none"
      [] r.pc \in {"insert", "launch", "start"} -> "accepted"
      [] r.pc = "start_row" -> "running"
      [] r.pc = "work" -> r.row
      [] r.pc \in {"end_row", "done", "cut"} -> r.result

GoesOn(r) == ~r.lost /\ r.pc # "cut"

\* The row of such a command follows, and nobody was told more.
InStep(r) ==
    /\ r.pc \in {"unborn", "insert"} => r.row = "none"
    /\ r.pc \in {"launch", "start", "start_row"} => r.row = "accepted"
    /\ r.pc \in {"work", "end_row"} => r.row \in {"accepted", "running"}
    /\ r.pc = "done" => r.row = r.result
    /\ r.told = "none" \/ r.told = Reached(r) \/ Com!Ranks[r.told] < Com!Ranks[Reached(r)]

\* A row that says how a command ended is right, whatever was lost.
Right(r) ==
    /\ r.pc = "unborn" => r.row = "none"
    /\ r.row \in Com!Final => r.pc \in {"done", "cut"} /\ r.row = r.result
    /\ r.pc \in {"end_row", "done"} => r.result \in Com!Final
    /\ r.pc = "done" /\ ~r.lost => r.row = r.result

Commanded(r) == Right(r) /\ (GoesOn(r) => InStep(r))

PanelInv ==
    /\ commands \in [Orders -> CommandRecords] /\ CachesTyped /\ Homed
    /\ \A c \in Orders : Commanded(commands[c])
    /\ \A w \in Servers : \A e \in On(w) :
          GoesOn(commands[e.id]) => e.status = Reached(commands[e.id])

\* How far is how far.
LEMMA RanksAre ==
    /\ Com!Ranks["none"] = 0 /\ Com!Ranks["accepted"] = 1 /\ Com!Ranks["running"] = 2
    /\ Com!Ranks["completed"] = 3 /\ Com!Ranks["failed"] = 3 /\ DOMAIN Com!Ranks = Statuses
    /\ Com!Final = {"completed", "failed"}
BY DEF Com!Ranks, Statuses, Com!Final

\* What is cached are entries.
LEMMA EntriesAre == CachesTyped => \A w \in Servers : \A e \in On(w) : e \in CachedEntries
<1> SUFFICES ASSUME CachesTyped, NEW w \in Servers, NEW e \in On(w) PROVE e \in CachedEntries
  OBVIOUS
<1>1. PICK s : s = caches[w]
  OBVIOUS
<1>2. PICK i \in DOMAIN s : e = s[i]
  BY <1>1 DEF On
<1>3. s \in Seq(CachedEntries)
  BY <1>1 DEF CachesTyped
<1>4. QED
  BY <1>2, <1>3

\* At first there are no commands.
LEMMA PanelStart == Com!CommandsAssumption /\ Com!Init => PanelInv
<1> SUFFICES ASSUME Com!CommandsAssumption, Com!Init PROVE PanelInv
  OBVIOUS
<1>1. commands \in [Orders -> CommandRecords]
  BY DEF Com!Init, Com!New, CommandRecords, CommandLabels, Statuses
<1>2. CachesTyped /\ \A w \in Servers : On(w) = {}
  BY DEF Com!Init, CachesTyped, On, Com!CommandsAssumption
<1>3. \A c \in Orders : Commanded(commands[c]) /\ commands[c].pc = "unborn"
  BY RanksAre DEF Com!Init, Com!New, Commanded, Right, GoesOn, InStep, Reached
<1>4. QED
  BY <1>1, <1>2, <1>3 DEF PanelInv, Homed

\* One command takes a step.
LEMMA CommandKeeps ==
    ASSUME PanelInv, NEW c \in Orders, NEW r \in CommandRecords,
           commands' = [commands EXCEPT ![c] = r], CachesTyped',
           r.pc # "unborn", r.home \in Servers,
           \A w \in Servers : \A e \in On(w)' :
              \/ e \in On(w) /\ e.id # c
              \/ e.id = c /\ w = r.home /\ (GoesOn(r) => e.status = Reached(r)),
           Commanded(r)
    PROVE  PanelInv'
<1>1. commands'[c] = r /\ (\A d \in Orders : d # c => commands'[d] = commands[d]) /\ commands' \in [Orders -> CommandRecords]
  BY DEF PanelInv
<1>2. \A d \in Orders : Commanded(commands'[d])
  BY <1>1 DEF PanelInv
<1>3. \A w \in Servers : \A e \in On(w)' : e.id \in Orders
  <2>1. ASSUME NEW w \in Servers, NEW e \in On(w)' PROVE e.id \in Orders
    <3>1. PICK s : s = caches'[w]
      OBVIOUS
    <3>2. PICK i \in DOMAIN s : e = s[i]
      BY <2>1, <3>1 DEF On
    <3>3. s \in Seq(CachedEntries)
      BY <3>1 DEF CachesTyped
    <3>4. e \in CachedEntries
      BY <3>2, <3>3
    <3>5. QED
      BY <3>4 DEF CachedEntries
  <2>2. QED
    BY <2>1
<1>4. ASSUME NEW w \in Servers, NEW e \in On(w)'
      PROVE  /\ commands'[e.id].home = w /\ commands'[e.id].pc # "unborn"
             /\ GoesOn(commands'[e.id]) => e.status = Reached(commands'[e.id])
  <2>1. CASE e \in On(w) /\ e.id # c
    <3>1. commands'[e.id] = commands[e.id]
      BY <1>1, <1>3, <1>4, <2>1
    <3>2. QED
      BY <1>4, <2>1, <3>1 DEF PanelInv, Homed
  <2>2. CASE e.id = c /\ w = r.home /\ (GoesOn(r) => e.status = Reached(r))
    BY <1>1, <2>2
  <2>3. QED
    BY <1>4, <2>1, <2>2
<1>5. \A d \in Orders : commands'[d].pc # "unborn" => commands'[d].home \in Servers
  BY <1>1 DEF PanelInv, Homed
<1>6. \A w \in Servers : \A e \in On(w)' : commands'[e.id].home = w /\ commands'[e.id].pc # "unborn"
  BY <1>4
<1>7. \A w \in Servers : \A e \in On(w)' : GoesOn(commands'[e.id]) => e.status = Reached(commands'[e.id])
  BY <1>4
<1>8. Homed'
  BY <1>5, <1>6 DEF Homed
<1>9. \A d \in Orders : Commanded(commands'[d])
  BY <1>2
<1>10. QED
  BY <1>1, <1>7, <1>8, <1>9 DEF PanelInv

\* A command takes a step that the caches do not see.
LEMMA CommandRowKeeps ==
    ASSUME PanelInv, NEW c \in Orders, NEW r \in CommandRecords,
           commands' = [commands EXCEPT ![c] = r], caches' = caches,
           commands[c].pc # "unborn", r.pc # "unborn", r.home = commands[c].home,
           GoesOn(r) => GoesOn(commands[c]) /\ Reached(r) = Reached(commands[c]),
           Commanded(r)
    PROVE  PanelInv'
<1>1. CachesTyped' /\ \A w \in Servers : On(w)' = On(w)
  BY DEF PanelInv, CachesTyped, On
<1>2. r.home \in Servers
  BY DEF PanelInv, Homed
<1>3. ASSUME NEW w \in Servers, NEW e \in On(w)'
      PROVE  \/ e \in On(w) /\ e.id # c
             \/ e.id = c /\ w = r.home /\ (GoesOn(r) => e.status = Reached(r))
  BY <1>1, <1>3 DEF PanelInv, Homed
<1>4. QED
  BY <1>1, <1>2, <1>3, CommandKeeps

\* A status enters the cache where the command's thread is, if its entry is there.
LEMMA EntersRight ==
    ASSUME PanelInv, NEW c \in Orders, commands[c].pc # "unborn",
           NEW status \in Statuses \ {"none"}, Com!Enter(c, status)
    PROVE  /\ CachesTyped'
           /\ \A w \in Servers : \A e \in On(w)' :
                 \/ e \in On(w) /\ e.id # c
                 \/ e.id = c /\ w = commands[c].home /\ e.status = status
<1>1. PICK h : h = commands[c].home
  OBVIOUS
<1>2. h \in Servers /\ caches \in [Servers -> Seq(CachedEntries)] /\ caches[h] \in Seq(CachedEntries)
  BY <1>1 DEF PanelInv, Homed, CachesTyped
<1> DEFINE f == [i \in DOMAIN caches[h] |->
                    IF caches[h][i].id = c THEN [caches[h][i] EXCEPT !.status = status] ELSE caches[h][i]]
<1>3. caches' = [caches EXCEPT ![h] = f]
  BY <1>1 DEF Com!Enter
<1>4. f \in Seq(CachedEntries) /\ DOMAIN f = DOMAIN caches[h] /\ Len(f) = Len(caches[h])
  <2>1. ASSUME NEW i \in DOMAIN caches[h] PROVE f[i] \in CachedEntries
    <3>1. PICK e : e = caches[h][i]
      OBVIOUS
    <3>2. e \in CachedEntries /\ e = caches[h][i]
      BY <1>2, <3>1
    <3>3. [e EXCEPT !.status = status] \in CachedEntries
      BY <3>2 DEF CachedEntries
    <3>4. QED
      BY <3>2, <3>3
  <2>2. QED
    BY <1>2, <2>1
<1>5. \A i \in DOMAIN caches[h] :
         /\ f[i].id = caches[h][i].id
         /\ f[i].id = c => f[i].status = status
         /\ f[i].id # c => f[i] = caches[h][i]
  BY <1>2 DEF CachedEntries
<1> HIDE DEF f
<1>6. caches'[h] = f /\ (\A w \in Servers : w # h => caches'[w] = caches[w]) /\ caches' \in [Servers -> Seq(CachedEntries)]
  BY <1>2, <1>3, <1>4
<1>7. CachesTyped'
  <2>1. ASSUME NEW w \in Servers
        PROVE  /\ Len(caches'[w]) <= MaxCached
               /\ \A i, j \in DOMAIN caches'[w] : caches'[w][i].id = caches'[w][j].id => i = j
    <3>1. CASE w = h
      BY <1>2, <1>4, <1>5, <1>6, <3>1 DEF PanelInv, CachesTyped
    <3>2. CASE w # h
      BY <1>6, <3>2 DEF PanelInv, CachesTyped
    <3>3. QED
      BY <3>1, <3>2
  <2>2. QED
    BY <1>6, <2>1 DEF CachesTyped
<1>8. ASSUME NEW w \in Servers, NEW e \in On(w)'
      PROVE  \/ e \in On(w) /\ e.id # c
             \/ e.id = c /\ w = commands[c].home /\ e.status = status
  <2>1. PICK i \in DOMAIN caches'[w] : e = caches'[w][i]
    BY <1>8 DEF On
  <2>2. CASE w = h
    BY <1>1, <1>4, <1>5, <1>6, <2>1, <2>2 DEF On
  <2>3. CASE w # h
    <3>1. e \in On(w)
      BY <1>6, <2>1, <2>3 DEF On
    <3>2. commands[e.id].home = w
      BY <3>1 DEF PanelInv, Homed
    <3>3. QED
      BY <1>1, <2>3, <3>1, <3>2
  <2>4. QED
    BY <2>2, <2>3
<1>9. QED
  BY <1>7, <1>8

\* A new command goes into the cache, and the oldest may fall out of it.
LEMMA TrackKeeps ==
    ASSUME Com!CommandsAssumption, PanelInv, NEW c \in Orders, NEW w \in Servers, Com!Track(c, w)
    PROVE  PanelInv'
<1>1. PICK n : n = [id |-> c, status |-> "accepted"]
  OBVIOUS
<1>2. n \in CachedEntries /\ n.id = c /\ n.status = "accepted"
  BY <1>1 DEF CachedEntries, Statuses
<1>3. caches \in [Servers -> Seq(CachedEntries)] /\ caches[w] \in Seq(CachedEntries) /\ MaxCached \in Nat \ {0}
  BY DEF PanelInv, CachesTyped, Com!CommandsAssumption
<1>4. PICK log : log = Append(caches[w], n)
  OBVIOUS
<1>5. /\ log \in Seq(CachedEntries) /\ Len(log) = Len(caches[w]) + 1 /\ log[Len(log)] = n
      /\ \A i \in 1..Len(caches[w]) : log[i] = caches[w][i]
  BY <1>2, <1>3, <1>4
<1>6. PICK f : f = IF Len(log) > MaxCached THEN SubSeq(log, Len(log) - MaxCached + 1, Len(log)) ELSE log
  OBVIOUS
<1>7. caches' = [caches EXCEPT ![w] = f]
  BY <1>1, <1>4, <1>6 DEF Com!Track
<1>8. commands[c].pc = "unborn" /\ commands' = [commands EXCEPT ![c].pc = "insert", ![c].home = w]
  BY DEF Com!Track
<1>9. \A u \in Servers : \A e \in On(u) : e.id # c
  BY <1>8 DEF PanelInv, Homed
<1>10. PICK k : k = IF Len(log) > MaxCached THEN Len(log) - MaxCached ELSE 0
  OBVIOUS
<1>11. /\ k \in Nat /\ f \in Seq(CachedEntries) /\ Len(f) = Len(log) - k /\ Len(f) <= MaxCached
       /\ \A i \in 1..Len(f) : f[i] = log[i + k] /\ i + k \in 1..Len(log)
  <2>1. Len(log) \in Nat /\ Len(caches[w]) \in Nat
    BY <1>3, <1>5
  <2>2. CASE Len(log) > MaxCached
    <3>1. f = SubSeq(log, k + 1, Len(log)) /\ k \in Nat /\ Len(log) - k = MaxCached
      BY <1>3, <1>6, <1>10, <2>1, <2>2
    <3>2. QED
      BY <1>3, <1>5, <2>1, <3>1
  <2>3. CASE ~(Len(log) > MaxCached)
    BY <1>3, <1>5, <1>6, <1>10, <2>1, <2>3
  <2>4. QED
    BY <2>2, <2>3
<1>12. \A i, j \in 1..Len(log) : log[i].id = log[j].id => i = j
  <2>1. \A i \in 1..Len(caches[w]) : log[i].id # c
    BY <1>3, <1>5, <1>9 DEF On
  <2>2. \A i, j \in 1..Len(caches[w]) : log[i].id = log[j].id => i = j
    BY <1>3, <1>5 DEF PanelInv, CachesTyped
  <2>3. \A i \in 1..Len(log) : i \in 1..Len(caches[w]) \/ (i = Len(log) /\ log[i].id = c)
    BY <1>2, <1>3, <1>5
  <2>4. QED
    BY <2>1, <2>2, <2>3
<1>13. caches'[w] = f /\ (\A u \in Servers : u # w => caches'[u] = caches[u]) /\ caches' \in [Servers -> Seq(CachedEntries)]
  BY <1>3, <1>7, <1>11
<1>14. CachesTyped'
  <2>1. ASSUME NEW u \in Servers
        PROVE  /\ Len(caches'[u]) <= MaxCached
               /\ \A i, j \in DOMAIN caches'[u] : caches'[u][i].id = caches'[u][j].id => i = j
    <3>1. CASE u = w
      <4>1. DOMAIN f = 1..Len(f) /\ Len(f) \in Nat
        BY <1>11
      <4>2. ASSUME NEW i \in 1..Len(f), NEW j \in 1..Len(f), f[i].id = f[j].id
            PROVE  i = j
        <5>1. i + k = j + k
          BY <1>11, <1>12, <4>2
        <5>2. QED
          BY <1>11, <4>1, <5>1
      <4>3. QED
        BY <1>11, <1>13, <3>1, <4>1, <4>2
    <3>2. CASE u # w
      BY <1>13, <3>2 DEF PanelInv, CachesTyped
    <3>3. QED
      BY <3>1, <3>2
  <2>2. QED
    BY <1>13, <2>1 DEF CachesTyped
<1> DEFINE r == [commands[c] EXCEPT !.pc = "insert", !.home = w]
<1>15. commands[c] \in CommandRecords /\ Commanded(commands[c])
  BY DEF PanelInv
<1>16. /\ r \in CommandRecords /\ r.pc = "insert" /\ r.home = w /\ r.row = commands[c].row
       /\ r.lost = commands[c].lost /\ r.told = commands[c].told /\ r.result = commands[c].result
  BY <1>15 DEF CommandRecords, CommandLabels
<1>17. commands' = [commands EXCEPT ![c] = r]
  BY <1>8
<1> HIDE DEF r
<1>18. Reached(r) = "accepted" /\ Reached(commands[c]) = "none"
  BY <1>8, <1>16 DEF Reached
<1>19. Commanded(r)
  <2>1. Right(r)
    BY <1>8, <1>15, <1>16, RanksAre DEF Commanded, Right
  <2>2. ASSUME GoesOn(r) PROVE InStep(r)
    <3>1. InStep(commands[c])
      BY <1>8, <1>15, <1>16, <2>2 DEF Commanded, GoesOn
    <3>2. commands[c].told \in Statuses
      BY <1>15 DEF CommandRecords
    <3>3. r.told = "none"
      BY <1>16, <1>18, <3>1, <3>2, RanksAre DEF InStep, Statuses
    <3>4. QED
      BY <1>8, <1>16, <3>1, <3>3 DEF InStep
  <2>3. QED
    BY <2>1, <2>2 DEF Commanded
<1>20. ASSUME NEW u \in Servers, NEW e \in On(u)'
       PROVE  \/ e \in On(u) /\ e.id # c
              \/ e.id = c /\ u = r.home /\ (GoesOn(r) => e.status = Reached(r))
  <2>1. PICK i \in DOMAIN caches'[u] : e = caches'[u][i]
    BY <1>20 DEF On
  <2>2. CASE u = w
    <3>1. i \in 1..Len(f) /\ e = f[i]
      BY <1>11, <1>13, <2>1, <2>2
    <3>2. e = log[i + k] /\ i + k \in 1..Len(log)
      BY <1>11, <3>1
    <3>3. CASE i + k \in 1..Len(caches[w])
      <4>1. e \in On(w)
        BY <1>3, <1>5, <3>2, <3>3 DEF On
      <4>2. QED
        BY <1>9, <2>2, <4>1
    <3>4. CASE i + k = Len(log)
      BY <1>2, <1>5, <1>16, <1>18, <2>2, <3>2, <3>4
    <3>5. QED
      BY <1>3, <1>5, <3>2, <3>3, <3>4
  <2>3. CASE u # w
    <3>1. e \in On(u)
      BY <1>13, <2>1, <2>3 DEF On
    <3>2. QED
      BY <1>9, <3>1
  <2>4. QED
    BY <2>2, <2>3
<1>21. QED
  BY <1>14, <1>16, <1>17, <1>19, <1>20, CommandKeeps

\* The row of the command is inserted, or never will be.
LEMMA InsertKeeps == ASSUME PanelInv, NEW c \in Orders, Com!Insert(c) PROVE PanelInv'
<1>1. commands[c].pc = "insert" /\ caches' = caches
  BY DEF Com!Insert
<1>2. PICK o : o = commands[c]
  OBVIOUS
<1>3. o \in CommandRecords /\ Commanded(o) /\ o.pc = "insert"
  BY <1>1, <1>2 DEF PanelInv
<1>4. CASE commands' = [commands EXCEPT ![c].row = "accepted", ![c].pc = "launch"]
  <2> DEFINE r == [o EXCEPT !.row = "accepted", !.pc = "launch"]
  <2>1. commands' = [commands EXCEPT ![c] = r]
    BY <1>2, <1>4
  <2>2. /\ r \in CommandRecords /\ r.pc = "launch" /\ r.row = "accepted" /\ r.home = o.home
        /\ r.lost = o.lost /\ r.told = o.told /\ r.result = o.result
    BY <1>3 DEF CommandRecords, CommandLabels, Statuses
  <2> HIDE DEF r
  <2>3. Commanded(r) /\ Reached(r) = Reached(o) /\ (GoesOn(r) => GoesOn(o))
    BY <1>3, <2>2, RanksAre DEF Commanded, Right, GoesOn, InStep, Reached
  <2>4. QED
    BY <1>1, <1>2, <2>1, <2>2, <2>3, CommandRowKeeps
<1>5. CASE commands' = [commands EXCEPT ![c].lost = TRUE, ![c].pc = "launch"]
  <2> DEFINE r == [o EXCEPT !.lost = TRUE, !.pc = "launch"]
  <2>1. commands' = [commands EXCEPT ![c] = r]
    BY <1>2, <1>5
  <2>2. r \in CommandRecords /\ r.pc = "launch" /\ r.row = o.row /\ r.home = o.home /\ r.lost
    BY <1>3 DEF CommandRecords, CommandLabels
  <2> HIDE DEF r
  <2>3. Commanded(r) /\ ~GoesOn(r)
    BY <1>3, <2>2, RanksAre DEF Commanded, Right, GoesOn
  <2>4. QED
    BY <1>1, <1>2, <2>1, <2>2, <2>3, CommandRowKeeps
<1>6. QED
  BY <1>4, <1>5 DEF Com!Insert

\* A command goes to its thread, or ends in the request, or is cut off there.
LEMMA LaunchKeeps ==
    ASSUME PanelInv, NEW c \in Orders, Com!Launch(c) \/ Com!LaunchFixed(c) PROVE PanelInv'
<1>1. PICK o, next : o = commands[c] /\ next \in {"work", "start", "cut"} /\ Com!Goto(c, next)
  BY DEF Com!Launch, Com!LaunchFixed, Com!Planned
<1>2. o \in CommandRecords /\ Commanded(o) /\ o.pc = "launch" /\ caches' = caches /\ commands[c].pc = "launch"
  BY <1>1 DEF PanelInv, Com!Launch, Com!LaunchFixed
<1> DEFINE r == [o EXCEPT !.pc = next]
<1>3. commands' = [commands EXCEPT ![c] = r]
  BY <1>1 DEF Com!Goto
<1>4. /\ r \in CommandRecords /\ r.pc = next /\ r.row = o.row /\ r.home = o.home
      /\ r.lost = o.lost /\ r.told = o.told /\ r.result = o.result
  BY <1>1, <1>2 DEF CommandRecords, CommandLabels
<1> HIDE DEF r
<1>5. Right(r)
  BY <1>1, <1>2, <1>4, RanksAre DEF Commanded, Right
<1>6. GoesOn(r) => GoesOn(o) /\ Reached(r) = Reached(o) /\ InStep(r)
  <2>1. ASSUME GoesOn(r) PROVE GoesOn(o) /\ Reached(r) = Reached(o) /\ InStep(r)
    <3>1. GoesOn(o) /\ InStep(o) /\ r.pc \in {"work", "start"} /\ o.row = "accepted"
      BY <1>1, <1>2, <1>4, <2>1 DEF GoesOn, Commanded, InStep
    <3>2. Reached(r) = "accepted" /\ Reached(o) = "accepted"
      BY <1>2, <1>4, <3>1 DEF Reached
    <3>3. QED
      BY <1>2, <1>4, <3>1, <3>2 DEF InStep
  <2>2. QED
    BY <2>1
<1>7. QED
  BY <1>1, <1>2, <1>3, <1>4, <1>5, <1>6, CommandRowKeeps DEF Commanded

\* A status is written to the cache, and the command goes on to its row.
LEMMA CacheKeeps ==
    ASSUME PanelInv, NEW c \in Orders, NEW r \in CommandRecords, commands[c].pc # "unborn",
           NEW status \in Statuses \ {"none"}, Com!Enter(c, status),
           commands' = [commands EXCEPT ![c] = r], r.pc # "unborn", r.home = commands[c].home,
           Reached(r) = status, Commanded(r)
    PROVE  PanelInv'
<1>1. /\ CachesTyped'
      /\ \A w \in Servers : \A e \in On(w)' :
            \/ e \in On(w) /\ e.id # c
            \/ e.id = c /\ w = commands[c].home /\ e.status = status
  BY EntersRight
<1>2. r.home \in Servers
  BY DEF PanelInv, Homed
<1>3. \A w \in Servers : \A e \in On(w)' :
         \/ e \in On(w) /\ e.id # c
         \/ e.id = c /\ w = r.home /\ (GoesOn(r) => e.status = Reached(r))
  BY <1>1
<1>4. QED
  BY <1>1, <1>2, <1>3, CommandKeeps

\* The thread begins.
LEMMA StartKeeps == ASSUME PanelInv, NEW c \in Orders, Com!Start(c) PROVE PanelInv'
<1>1. PICK o : o = commands[c]
  OBVIOUS
<1>2. o \in CommandRecords /\ Commanded(o) /\ o.pc = "start" /\ Com!Enter(c, "running") /\ Com!Goto(c, "start_row")
  BY <1>1 DEF PanelInv, Com!Start
<1> DEFINE r == [o EXCEPT !.pc = "start_row"]
<1>3. commands' = [commands EXCEPT ![c] = r]
  BY <1>1, <1>2 DEF Com!Goto
<1>4. /\ r \in CommandRecords /\ r.pc = "start_row" /\ r.row = o.row /\ r.home = o.home
      /\ r.lost = o.lost /\ r.told = o.told /\ r.result = o.result
  BY <1>2 DEF CommandRecords, CommandLabels
<1> HIDE DEF r
<1>5. Reached(r) = "running" /\ Reached(o) = "accepted"
  BY <1>2, <1>4 DEF Reached
<1>6. Right(r)
  BY <1>2, <1>4, RanksAre DEF Commanded, Right
<1>7. ASSUME GoesOn(r) PROVE InStep(r)
  <2>1. InStep(o) /\ o.told \in Statuses
    BY <1>2, <1>4, <1>7 DEF Commanded, GoesOn, CommandRecords
  <2>2. o.told = "none" \/ Com!Ranks[o.told] < Com!Ranks["running"]
    BY <1>5, <2>1, RanksAre DEF InStep, Statuses
  <2>3. QED
    BY <1>2, <1>4, <1>5, <2>1, <2>2 DEF InStep
<1>8. "running" \in Statuses \ {"none"}
  BY DEF Statuses
<1>9. QED
  BY <1>1, <1>2, <1>3, <1>4, <1>5, <1>6, <1>7, <1>8, CacheKeeps DEF Commanded

\* What a command's action returned is written to the cache.
LEMMA CommandCompletes == ASSUME PanelInv, NEW c \in Orders, Com!Complete(c) PROVE PanelInv'
<1>1. PICK o, status : /\ o = commands[c] /\ status \in Com!Final /\ Com!Enter(c, status)
                       /\ commands' = [commands EXCEPT ![c].result = status, ![c].pc = "end_row"]
  BY DEF Com!Complete, Com!Outcomes
<1>2. o \in CommandRecords /\ Commanded(o) /\ o.pc = "work" /\ status \in {"completed", "failed"}
  BY <1>1, RanksAre DEF PanelInv, Com!Complete
<1> DEFINE r == [o EXCEPT !.result = status, !.pc = "end_row"]
<1>3. commands' = [commands EXCEPT ![c] = r]
  BY <1>1
<1>4. /\ r \in CommandRecords /\ r.pc = "end_row" /\ r.row = o.row /\ r.home = o.home
      /\ r.lost = o.lost /\ r.told = o.told /\ r.result = status
  BY <1>2 DEF CommandRecords, CommandLabels, Statuses
<1> HIDE DEF r
<1>5. Reached(r) = status /\ Reached(o) = o.row /\ Com!Ranks[status] = 3
  BY <1>2, <1>4, RanksAre DEF Reached
<1>6. Right(r)
  BY <1>2, <1>4, RanksAre DEF Commanded, Right
<1>7. ASSUME GoesOn(r) PROVE InStep(r)
  <2>1. InStep(o)
    BY <1>2, <1>4, <1>7 DEF Commanded, GoesOn
  <2>2. o.row \in {"accepted", "running"}
    BY <1>2, <2>1 DEF InStep
  <2>3. o.told = "none" \/ o.told = o.row \/ Com!Ranks[o.told] < Com!Ranks[o.row]
    BY <1>5, <2>1 DEF InStep
  <2>4. Com!Ranks[o.row] < 3
    BY <2>2, RanksAre
  <2>5. o.told \in Statuses
    BY <1>2 DEF CommandRecords
  <2>6. o.told = "none" \/ Com!Ranks[o.told] < 3
    BY <2>2, <2>3, <2>4, <2>5, RanksAre DEF Statuses
  <2>7. QED
    BY <1>4, <1>5, <2>2, <2>6 DEF InStep
<1>8. status \in Statuses \ {"none"}
  BY <1>2 DEF Statuses
<1>9. QED
  BY <1>1, <1>2, <1>3, <1>4, <1>5, <1>6, <1>7, <1>8, CacheKeeps DEF Commanded

\* The row takes a status or not.
LEMMA PersistKeeps ==
    ASSUME PanelInv, NEW c \in Orders, NEW status \in Statuses, NEW next \in {"work", "done"},
           Com!Persist(c, status, next), caches' = caches, status = Reached(commands[c]),
           \/ commands[c].pc = "start_row" /\ next = "work"
           \/ commands[c].pc = "end_row" /\ next = "done"
    PROVE  PanelInv'
<1>1. PICK o : o = commands[c]
  OBVIOUS
<1>2. /\ o \in CommandRecords /\ Commanded(o) /\ status = Reached(o)
      /\ \/ o.pc = "start_row" /\ next = "work"
         \/ o.pc = "end_row" /\ next = "done"
  BY <1>1 DEF PanelInv
<1>3. CASE o.row # "none" /\ commands' = [commands EXCEPT ![c].row = status, ![c].pc = next]
  <2> DEFINE r == [o EXCEPT !.row = status, !.pc = next]
  <2>1. commands' = [commands EXCEPT ![c] = r]
    BY <1>1, <1>3
  <2>2. /\ r \in CommandRecords /\ r.pc = next /\ r.row = status /\ r.home = o.home
        /\ r.lost = o.lost /\ r.told = o.told /\ r.result = o.result
    BY <1>2 DEF CommandRecords, CommandLabels
  <2> HIDE DEF r
  <2>3. Reached(r) = Reached(o) /\ (next = "work" => status = "running") /\ (next = "done" => status = o.result)
    BY <1>2, <2>2 DEF Reached
  <2>4. Right(r)
    BY <1>2, <2>2, <2>3, RanksAre DEF Commanded, Right
  <2>5. GoesOn(r) => GoesOn(o) /\ InStep(r)
    BY <1>2, <2>2, <2>3 DEF Commanded, InStep, GoesOn
  <2>6. QED
    BY <1>1, <1>2, <2>1, <2>2, <2>3, <2>4, <2>5, CommandRowKeeps DEF Commanded
<1>4. CASE commands' = [commands EXCEPT ![c].lost = TRUE, ![c].pc = next]
  <2> DEFINE r == [o EXCEPT !.lost = TRUE, !.pc = next]
  <2>1. commands' = [commands EXCEPT ![c] = r]
    BY <1>1, <1>4
  <2>2. r \in CommandRecords /\ r.pc = next /\ r.row = o.row /\ r.home = o.home /\ r.lost /\ r.result = o.result
    BY <1>2 DEF CommandRecords, CommandLabels
  <2> HIDE DEF r
  <2>3. ~GoesOn(r) /\ Right(r)
    BY <1>2, <2>2, RanksAre DEF Commanded, Right, GoesOn
  <2>4. QED
    BY <1>1, <1>2, <2>1, <2>2, <2>3, CommandRowKeeps DEF Commanded
<1>5. QED
  BY <1>1, <1>3, <1>4 DEF Com!Persist

\* A worker ends: what it ran is cut off, what it cached is gone.
LEMMA RecycleKeeps == ASSUME Com!CommandsAssumption, PanelInv, NEW w \in Servers, Com!Recycle(w) PROVE PanelInv'
<1>1. /\ caches' = [caches EXCEPT ![w] = <<>>]
      /\ commands' = [c \in Orders |->
            IF commands[c].home = w /\ commands[c].pc # "done"
            THEN [commands[c] EXCEPT !.pc = "cut"] ELSE commands[c]]
  BY DEF Com!Recycle
<1>2. ASSUME NEW c \in Orders
      PROVE  /\ commands'[c] \in CommandRecords /\ Commanded(commands'[c])
             /\ commands'[c].home = commands[c].home
             /\ commands'[c].pc \in {commands[c].pc, "cut"}
             /\ commands'[c].pc # commands[c].pc => commands[c].home = w
             /\ GoesOn(commands'[c]) => commands'[c] = commands[c]
  <2>1. PICK o : o = commands[c]
    OBVIOUS
  <2>2. o \in CommandRecords /\ Commanded(o) /\ o = commands[c]
    BY <2>1 DEF PanelInv
  <2>3. CASE ~(o.home = w /\ o.pc # "done")
    <3>1. commands'[c] = o
      BY <1>1, <2>2, <2>3
    <3>2. QED
      BY <2>2, <3>1
  <2>4. CASE o.home = w /\ o.pc # "done"
    <3> DEFINE r == [o EXCEPT !.pc = "cut"]
    <3>1. commands'[c] = r
      BY <1>1, <2>2, <2>4
    <3>2. r \in CommandRecords /\ r.pc = "cut" /\ r.row = o.row /\ r.home = o.home /\ r.result = o.result
      BY <2>2 DEF CommandRecords, CommandLabels
    <3> HIDE DEF r
    <3>3. Commanded(r) /\ ~GoesOn(r)
      BY <2>2, <2>4, <3>2 DEF Commanded, Right, GoesOn
    <3>4. QED
      BY <2>2, <2>4, <3>1, <3>2, <3>3
  <2>5. QED
    BY <2>3, <2>4
<1>3. commands' \in [Orders -> CommandRecords]
  BY <1>1, <1>2
<1>4. CachesTyped' /\ \A u \in Servers : On(u)' \subseteq On(u)
  <2>1. <<>> \in Seq(CachedEntries) /\ Len(<<>>) = 0 /\ DOMAIN <<>> = {}
    OBVIOUS
  <2>2. \A u \in Servers : caches'[u] = IF u = w THEN <<>> ELSE caches[u]
    BY <1>1 DEF PanelInv, CachesTyped
  <2>3. caches' \in [Servers -> Seq(CachedEntries)]
    BY <1>1, <2>1 DEF PanelInv, CachesTyped
  <2>4. ASSUME NEW u \in Servers
        PROVE  /\ Len(caches'[u]) <= MaxCached
               /\ \A i, j \in DOMAIN caches'[u] : caches'[u][i].id = caches'[u][j].id => i = j
               /\ On(u)' \subseteq On(u)
    <3>1. CASE u = w
      <4>1. caches'[u] = <<>> /\ Len(caches[u]) \in Nat /\ Len(caches[u]) <= MaxCached
        BY <2>2, <3>1 DEF PanelInv, CachesTyped
      <4>2. QED
        BY <2>1, <4>1 DEF On, Com!CommandsAssumption
    <3>2. CASE u # w
      BY <2>2, <3>2 DEF PanelInv, CachesTyped, On
    <3>3. QED
      BY <3>1, <3>2
  <2>5. QED
    BY <2>3, <2>4 DEF CachesTyped
<1>5. \A u \in Servers : \A e \in On(u) : e.id \in Orders
  BY EntriesAre DEF PanelInv, CachedEntries
<1>6. Homed'
  <2>1. \A u \in Servers : \A e \in On(u)' : commands'[e.id].home = u /\ commands'[e.id].pc # "unborn"
    BY <1>2, <1>4, <1>5 DEF PanelInv, Homed
  <2>2. \A c \in Orders : commands'[c].pc # "unborn" => commands'[c].home \in Servers
    BY <1>2 DEF PanelInv, Homed
  <2>3. QED
    BY <2>1, <2>2 DEF Homed
<1>7. \A u \in Servers : \A e \in On(u)' : GoesOn(commands'[e.id]) => e.status = Reached(commands'[e.id])
  BY <1>2, <1>4, <1>5 DEF PanelInv
<1>8. \A c \in Orders : Commanded(commands'[c])
  BY <1>2
<1>9. QED
  BY <1>3, <1>4, <1>6, <1>7, <1>8 DEF PanelInv

\* What the cache says of a command is one of its entries.
LEMMA StatusIs ==
    ASSUME PanelInv, NEW c \in Orders, NEW w \in Servers, Com!Cached(w, c)
    PROVE  /\ Com!Status(w, c) \in Statuses \ {"none"}
           /\ GoesOn(commands[c]) => Com!Status(w, c) = Reached(commands[c])
           /\ commands[c].pc # "unborn"
<1>1. PICK x : x = CHOOSE e \in On(w) : e.id = c
  OBVIOUS
<1>2. \E e \in On(w) : e.id = c
  BY DEF Com!Cached, On
<1>3. x \in On(w) /\ x.id = c
  BY <1>1, <1>2
<1>4. Com!Status(w, c) = x.status
  BY <1>1 DEF Com!Status, Com!Range, On
<1>5. x \in CachedEntries
  BY <1>3, EntriesAre DEF PanelInv
<1>6. QED
  BY <1>3, <1>4, <1>5 DEF CachedEntries, PanelInv, Homed

\* Polls and lists tell what the cache or the row says, and that is where the command is.
LEMMA Asked ==
    ASSUME PanelInv, NEW c \in Orders, NEW w \in Servers, Com!Poll(c, w) \/ Com!List(c, w)
    PROVE  \E status \in Statuses \ {"none"} :
              /\ Com!Tell(c, status)
              /\ status = commands[c].row \/ (Com!Cached(w, c) /\ status = Com!Status(w, c))
<1>1. Com!Cached(w, c) => Com!Status(w, c) \in Statuses \ {"none"}
  BY StatusIs
<1>2. commands[c].row \in Statuses
  BY DEF PanelInv, CommandRecords
<1>3. CASE Com!Tell(c, commands[c].row)
  BY <1>2, <1>3 DEF Com!Tell
<1>4. CASE Com!Cached(w, c) /\ Com!Tell(c, Com!Status(w, c))
  BY <1>1, <1>4
<1>5. QED
  BY <1>3, <1>4 DEF Com!Poll, Com!List

\* What is told of a command that is not behind is how far it is.
LEMMA ToldIs ==
    ASSUME PanelInv, NEW c \in Orders, NEW w \in Servers, NEW status \in Statuses \ {"none"},
           GoesOn(commands[c]),
           status = commands[c].row \/ (Com!Cached(w, c) /\ status = Com!Status(w, c))
    PROVE  /\ commands[c].pc # "unborn"
           /\ \/ status = Reached(commands[c])
              \/ commands[c].pc \in {"start_row", "end_row"} /\ Com!Ranks[status] < Com!Ranks[Reached(commands[c])]
<1>1. CASE Com!Cached(w, c) /\ status = Com!Status(w, c)
  BY <1>1, StatusIs
<1>2. CASE status = commands[c].row
  <2>1. /\ commands[c].pc \in CommandLabels /\ InStep(commands[c]) /\ Right(commands[c])
        /\ commands[c].row # "none"
    BY <1>2 DEF PanelInv, CommandRecords, Commanded
  <2>2. CASE commands[c].pc \in {"start_row", "end_row"}
    BY <1>2, <2>1, <2>2, RanksAre DEF InStep, Right, Reached
  <2>3. CASE commands[c].pc \in {"launch", "start", "work", "done"}
    BY <1>2, <2>1, <2>3 DEF InStep, Reached
  <2>4. QED
    BY <2>1, <2>2, <2>3 DEF InStep, CommandLabels, GoesOn
<1>3. QED
  BY <1>1, <1>2

\* A command that was told of is where it was.
LEMMA ToldKeeps ==
    ASSUME PanelInv, NEW c \in Orders, NEW w \in Servers, Com!Poll(c, w) \/ Com!List(c, w)
    PROVE  PanelInv'
<1>1. PICK status \in Statuses \ {"none"} :
              /\ Com!Tell(c, status)
              /\ status = commands[c].row \/ (Com!Cached(w, c) /\ status = Com!Status(w, c))
  BY Asked
<1>2. PICK o : o = commands[c]
  OBVIOUS
<1>3. o \in CommandRecords /\ Commanded(o)
  BY <1>2 DEF PanelInv
<1> DEFINE r == [o EXCEPT !.told = status]
<1>4. commands' = [commands EXCEPT ![c] = r] /\ caches' = caches
  BY <1>1, <1>2 DEF Com!Tell
<1>5. /\ r \in CommandRecords /\ r.pc = o.pc /\ r.row = o.row /\ r.home = o.home
      /\ r.lost = o.lost /\ r.told = status /\ r.result = o.result
  BY <1>3 DEF CommandRecords
<1> HIDE DEF r
<1>6. Reached(r) = Reached(o) /\ (GoesOn(r) <=> GoesOn(o)) /\ (Right(r) <=> Right(o))
  BY <1>5 DEF Reached, GoesOn, Right
<1>7. o.pc # "unborn"
  <2>1. ASSUME o.pc = "unborn" PROVE FALSE
    <3>1. ~Com!Cached(w, c)
      BY <1>2, <2>1, StatusIs
    <3>2. o.row = status /\ status \in Statuses \ {"none"}
      BY <1>1, <1>2, <3>1
    <3>3. QED
      BY <1>3, <2>1, <3>2 DEF Commanded, Right
  <2>2. QED
    BY <2>1
<1>8. GoesOn(r) => InStep(r)
  BY <1>1, <1>2, <1>3, <1>5, <1>6, ToldIs DEF Commanded, InStep
<1>9. QED
  BY <1>2, <1>3, <1>4, <1>5, <1>6, <1>7, <1>8, CommandRowKeeps DEF Commanded

\* The steps of the panel.
LEMMA PanelStep == Com!CommandsAssumption /\ PanelInv /\ [Com!Next]_(Com!vars) => PanelInv'
<1>1. ASSUME Com!CommandsAssumption, PanelInv, Com!Next PROVE PanelInv'
  <2>1. ASSUME NEW c \in Orders, Com!StartRow(c) PROVE PanelInv'
    <3>1. Com!Persist(c, "running", "work") /\ caches' = caches /\ commands[c].pc = "start_row"
      BY <2>1 DEF Com!StartRow
    <3>2. "running" = Reached(commands[c]) /\ "running" \in Statuses
      BY <3>1 DEF Reached, Statuses
    <3>3. QED
      BY <1>1, <3>1, <3>2, PersistKeeps
  <2>2. ASSUME NEW c \in Orders, Com!CompleteRow(c) PROVE PanelInv'
    <3>1. Com!Persist(c, commands[c].result, "done") /\ caches' = caches /\ commands[c].pc = "end_row"
      BY <2>2 DEF Com!CompleteRow
    <3>2. commands[c].result = Reached(commands[c]) /\ commands[c].result \in Statuses
      BY <1>1, <3>1 DEF Reached, PanelInv, CommandRecords
    <3>3. QED
      BY <1>1, <3>1, <3>2, PersistKeeps
  <2>3. QED
    BY <1>1, <2>1, <2>2, InsertKeeps, LaunchKeeps, StartKeeps, CommandCompletes, TrackKeeps, ToldKeeps, RecycleKeeps
    DEF Com!Next
<1>2. ASSUME PanelInv, UNCHANGED Com!vars PROVE PanelInv'
  BY <1>2 DEF Com!vars, PanelInv, CachesTyped, Homed, On
<1>3. QED
  BY <1>1, <1>2

\* What is kept is what the run checks of the panel.
LEMMA PanelMean == PanelInv => Com!RowsTrue /\ Com!TypeOK
<1>1. ASSUME PanelInv PROVE Com!RowsTrue
  BY <1>1 DEF PanelInv, Commanded, Right, Com!RowsTrue
<1>2. ASSUME PanelInv PROVE Com!TypeOK
  <2>1. \A c \in Orders : {commands[c].row, commands[c].told} \subseteq DOMAIN Com!Ranks
    BY <1>2, RanksAre DEF PanelInv, CommandRecords
  <2>2. ASSUME NEW w \in Servers
        PROVE  Com!IsInjective([i \in DOMAIN caches[w] |-> caches[w][i].id])
    BY <1>2 DEF PanelInv, CachesTyped, Com!IsInjective
  <2>3. QED
    BY <1>2, <2>1, <2>2 DEF Com!TypeOK, PanelInv, CachesTyped
<1>3. QED
  BY <1>1, <1>2

\* A poll tells no less than the one before, of a command that is not behind.
LEMMA ToldOn ==
    PanelInv /\ [Com!Next]_(Com!vars) =>
        \A c \in Orders :
            \/ commands[c].told = commands'[c].told
            \/ Com!Ranks[commands[c].told] < Com!Ranks[commands'[c].told]
            \/ Com!Behind(c)
<1> SUFFICES ASSUME PanelInv, [Com!Next]_(Com!vars), NEW c \in Orders, ~Com!Behind(c)
             PROVE  \/ commands[c].told = commands'[c].told
                    \/ Com!Ranks[commands[c].told] < Com!Ranks[commands'[c].told]
  OBVIOUS
<1>1. GoesOn(commands[c]) /\ ~(commands[c].pc \in {"start_row", "end_row"}) /\ commands[c] \in CommandRecords
  BY DEF Com!Behind, GoesOn, PanelInv
<1>2. ASSUME NEW w \in Servers, Com!Poll(c, w) \/ Com!List(c, w)
      PROVE  \/ commands[c].told = commands'[c].told
             \/ Com!Ranks[commands[c].told] < Com!Ranks[commands'[c].told]
  <2>1. PICK status \in Statuses \ {"none"} :
                /\ Com!Tell(c, status)
                /\ status = commands[c].row \/ (Com!Cached(w, c) /\ status = Com!Status(w, c))
    BY <1>2, Asked
  <2>2. status = Reached(commands[c])
    BY <1>1, <2>1, ToldIs
  <2>3. commands'[c].told = status
    BY <1>1, <2>1 DEF Com!Tell, PanelInv, CommandRecords
  <2>4. InStep(commands[c])
    BY <1>1 DEF PanelInv, Commanded
  <2>5. Com!Ranks[status] > 0
    BY RanksAre DEF Statuses
  <2>6. QED
    BY <2>2, <2>3, <2>4, <2>5, RanksAre DEF InStep
<1>3. ASSUME NEW d \in Orders, NEW w \in Servers, Com!Poll(d, w) \/ Com!List(d, w), d # c
      PROVE  commands'[c].told = commands[c].told
  BY <1>3 DEF Com!Poll, Com!List, Com!Tell, PanelInv
<1>4. ASSUME NEW d \in Orders,
             \/ Com!Insert(d) \/ Com!Launch(d) \/ Com!LaunchFixed(d) \/ Com!Start(d) \/ Com!StartRow(d)
             \/ Com!Complete(d) \/ Com!CompleteRow(d)
      PROVE  commands'[c].told = commands[c].told
  <2>1. commands \in [Orders -> CommandRecords]
    BY DEF PanelInv
  <2>2. CASE Com!Insert(d)
    BY <1>1, <2>1, <2>2 DEF Com!Insert, CommandRecords
  <2>3. CASE Com!Launch(d) \/ Com!LaunchFixed(d)
    BY <1>1, <2>1, <2>3 DEF Com!Launch, Com!LaunchFixed, Com!Goto, CommandRecords
  <2>4. CASE Com!Start(d)
    BY <1>1, <2>1, <2>4 DEF Com!Start, Com!Goto, CommandRecords
  <2>5. CASE Com!Complete(d)
    BY <1>1, <2>1, <2>5 DEF Com!Complete, CommandRecords
  <2>6. CASE Com!StartRow(d)
    BY <1>1, <2>1, <2>6 DEF Com!StartRow, Com!Persist, CommandRecords
  <2>7. CASE Com!CompleteRow(d)
    BY <1>1, <2>1, <2>7 DEF Com!CompleteRow, Com!Persist, CommandRecords
  <2>8. QED
    BY <1>4, <2>2, <2>3, <2>4, <2>5, <2>6, <2>7
<1>5. ASSUME NEW d \in Orders, NEW w \in Servers, Com!Track(d, w)
      PROVE  commands'[c].told = commands[c].told
  BY <1>1, <1>5 DEF PanelInv, Com!Track, CommandRecords
<1>6. ASSUME NEW w \in Servers, Com!Recycle(w)
      PROVE  commands'[c].told = commands[c].told
  BY <1>1, <1>6 DEF Com!Recycle, CommandRecords
<1>7. CASE UNCHANGED Com!vars
  BY <1>7 DEF Com!vars
<1>8. QED
  BY <1>2, <1>3, <1>4, <1>5, <1>6, <1>7 DEF Com!Next

-----------------------------------------------------------------------------
(* Debates.                                                                 *)

Deb == INSTANCE Debates

Crowd == Deb!Range(Debaters)

DebatePositions == Positions \cup {"none", "error"}

DebateArguments == [who : Crowd, position : DebatePositions, sure : BOOLEAN]

Agreements == [reached : BOOLEAN, position : DebatePositions, by : {"none", "model", "words"}]

DebateRecords ==
    [rounds : 0..MaxRounds, last : Seq(DebateArguments),
     status : {"active", "completed", "consensus_reached"}, consensus : Agreements]

RoundRecords ==
    [phase : {"arguments", "rebuttals", "scores", "consensus"}, arguments : Seq(DebateArguments),
     rebuttals : SUBSET Crowd, scored : {"none", "model", "words"}]

\* The first of the participants have argued, in their order; what is an error is sure.
InTurn(all) ==
    /\ Len(all) <= Len(Debaters)
    /\ \A i \in DOMAIN all : all[i].who = Debaters[i]
    /\ \A i \in DOMAIN all : all[i].position = "error" => all[i].sure

\* The round that is held has everybody heard when it comes to rebuttals.
Held ==
    /\ debate.status = "active" => debate.rounds < MaxRounds /\ ~debate.consensus.reached
                                   /\ debate.consensus.by = "none"
    /\ InTurn(current.arguments)
    /\ current.phase # "arguments" => Len(current.arguments) = Len(Debaters)

DebatesInv ==
    /\ debate \in DebateRecords /\ current \in RoundRecords /\ Held
    /\ Deb!EndsHeard /\ Deb!OutageAgrees

\* Debates count as this module does.
LEMMA DebatesCount == \A S : Deb!Cardinality(S) = Cardinality(S)
BY DEF Deb!Cardinality, Cardinality, Deb!IsFiniteSet, IsFiniteSet

\* What the participants are.
LEMMA CrowdIs ==
    ASSUME Deb!DebatesAssumption
    PROVE  /\ Debaters \in Seq(Crowd) /\ Len(Debaters) \in Nat /\ MaxRounds \in Nat \ {0}
           /\ "error" \notin Positions /\ "none" \notin Positions
BY DEF Deb!DebatesAssumption, Crowd

\* At first nobody has argued.
LEMMA DebatesStart == Deb!DebatesAssumption /\ Deb!Init => DebatesInv
<1> SUFFICES ASSUME Deb!DebatesAssumption, Deb!Init PROVE DebatesInv
  OBVIOUS
<1>1. debate \in DebateRecords /\ current \in RoundRecords
  BY CrowdIs DEF Deb!Init, Deb!NoConsensus, Deb!NewRound, DebateRecords, RoundRecords, Agreements, DebatePositions
<1>2. Held
  BY CrowdIs DEF Deb!Init, Deb!NoConsensus, Deb!NewRound, Held, InTurn
<1>3. Deb!EndsHeard /\ Deb!OutageAgrees
  BY DEF Deb!Init, Deb!NoConsensus, Deb!EndsHeard, Deb!OutageAgrees
<1>4. QED
  BY <1>1, <1>2, <1>3 DEF DebatesInv

\* The round goes on, and the debate is what it was.
LEMMA RoundKeeps ==
    ASSUME DebatesInv, NEW p \in {"arguments", "rebuttals", "scores", "consensus"}, NEW r \in RoundRecords,
           Deb!Step(p, r), InTurn(r.arguments), p # "arguments" => Len(r.arguments) = Len(Debaters)
    PROVE  DebatesInv'
<1> DEFINE q == [r EXCEPT !.phase = p]
<1>1. current' = q /\ debate' = debate
  BY DEF Deb!Step
<1>2. q \in RoundRecords /\ q.phase = p /\ q.arguments = r.arguments
  BY DEF RoundRecords
<1> HIDE DEF q
<1>3. Held'
  BY <1>1, <1>2 DEF DebatesInv, Held
<1>4. QED
  BY <1>1, <1>2, <1>3 DEF DebatesInv, Deb!EndsHeard, Deb!OutageAgrees, Deb!Consensus

\* The next participant argues, or an error does.
LEMMA ArgueKeeps == ASSUME Deb!DebatesAssumption, DebatesInv, Deb!Argue PROVE DebatesInv'
<1>1. PICK before : before = current.arguments
  OBVIOUS
<1>2. PICK who : who = Debaters[Len(before) + 1]
  OBVIOUS
<1>3. /\ before \in Seq(DebateArguments) /\ Len(before) \in Nat /\ InTurn(before) /\ Len(before) < Len(Debaters)
      /\ current \in RoundRecords
  BY <1>1 DEF DebatesInv, Held, RoundRecords, Deb!Argue
<1>4. who \in Crowd
  BY <1>2, <1>3, CrowdIs
<1>6. ASSUME NEW a \in DebateArguments, a.who = who, a.position = "error" => a.sure,
             Deb!Step("arguments", [current EXCEPT !.arguments = Append(@, a)])
      PROVE  DebatesInv'
  <2>1. PICK f : f = Append(before, a)
    OBVIOUS
  <2>2. /\ f \in Seq(DebateArguments) /\ Len(f) = Len(before) + 1 /\ DOMAIN f = 1..(Len(before) + 1)
        /\ f[Len(before) + 1] = a /\ \A i \in 1..Len(before) : f[i] = before[i]
    BY <1>3, <2>1
  <2>3. InTurn(f)
    <3>1. DOMAIN f = 1..(Len(before) + 1) /\ DOMAIN before = 1..Len(before) /\ Len(f) <= Len(Debaters)
      BY <1>3, <2>2, CrowdIs
    <3>2. ASSUME NEW i \in 1..(Len(before) + 1)
          PROVE  f[i].who = Debaters[i] /\ (f[i].position = "error" => f[i].sure)
      <4>1. CASE i = Len(before) + 1
        BY <1>2, <1>6, <2>2, <4>1
      <4>2. CASE i \in 1..Len(before)
        BY <1>3, <2>2, <3>1, <4>2 DEF InTurn
      <4>3. QED
        BY <1>3, <4>1, <4>2
    <3>3. QED
      BY <3>1, <3>2 DEF InTurn
  <2> DEFINE r == [current EXCEPT !.arguments = f]
  <2>4. r \in RoundRecords /\ r.arguments = f
    BY <1>3, <2>2 DEF RoundRecords
  <2>5. Deb!Step("arguments", r)
    BY <1>1, <1>6, <2>1
  <2> HIDE DEF r
  <2>6. QED
    BY <2>3, <2>4, <2>5, RoundKeeps
<1>7. ASSUME NEW p \in Positions \cup {"none"}, NEW b \in BOOLEAN
      PROVE  /\ Deb!Argument(who, p, b) \in DebateArguments /\ Deb!Argument(who, p, b).who = who
             /\ Deb!Argument(who, p, b).position # "error"
  BY <1>4, <1>7, CrowdIs DEF Deb!Argument, DebateArguments, DebatePositions
<1>8. /\ Deb!Argument(who, "error", TRUE) \in DebateArguments /\ Deb!Argument(who, "error", TRUE).who = who
      /\ Deb!Argument(who, "error", TRUE).sure
  BY <1>4 DEF Deb!Argument, DebateArguments, DebatePositions
<1>9. PICK a \in Deb!Arguments(who) : Deb!Step("arguments", [current EXCEPT !.arguments = Append(@, a)])
  BY <1>1, <1>2 DEF Deb!Argue
<1>10. \/ \E p \in Positions \cup {"none"} : \E b \in BOOLEAN : a = Deb!Argument(who, p, b)
       \/ a = Deb!Argument(who, "error", TRUE)
  <2> DEFINE told == {Deb!Argument(who, p, s) : p \in Positions \cup {"none"}, s \in BOOLEAN}
  <2>1. a \in told \cup {Deb!Argument(who, "error", TRUE)}
    BY <1>9 DEF Deb!Arguments, Deb!Argument
  <2>2. a \in told => \E p \in Positions \cup {"none"} : \E b \in BOOLEAN : a = Deb!Argument(who, p, b)
    BY SMT
  <2> HIDE DEF told
  <2>3. QED
    BY <2>1, <2>2
<1>11. a \in DebateArguments /\ a.who = who /\ (a.position = "error" => a.sure)
  BY <1>7, <1>8, <1>10
<1>12. QED
  BY <1>6, <1>9, <1>11

\* A phase of the round follows another.
LEMMA DebatePhasesKeep ==
    ASSUME Deb!DebatesAssumption, DebatesInv, Deb!Argued \/ Deb!Rebut \/ Deb!Score PROVE DebatesInv'
<1>1. current \in RoundRecords /\ InTurn(current.arguments)
  BY DEF DebatesInv, Held
<1>2. CASE Deb!Argued
  <2>1. PICK p : p = IF Deb!Number >= 2 THEN "rebuttals" ELSE "scores"
    OBVIOUS
  <2>2. p \in {"rebuttals", "scores"} /\ Deb!Step(p, current) /\ Len(current.arguments) = Len(Debaters)
    BY <1>2, <2>1 DEF Deb!Argued
  <2>3. QED
    BY <1>1, <2>2, RoundKeeps
<1>3. CASE Deb!Rebut
  <2>1. PICK R \in SUBSET Crowd : Deb!Step("scores", [current EXCEPT !.rebuttals = R])
    BY <1>3 DEF Deb!Rebut, Crowd
  <2>2. Len(current.arguments) = Len(Debaters)
    BY <1>3 DEF Deb!Rebut, Deb!Holding, DebatesInv, Held
  <2> DEFINE r == [current EXCEPT !.rebuttals = R]
  <2>3. r \in RoundRecords /\ r.arguments = current.arguments /\ Deb!Step("scores", r)
    BY <1>1, <2>1 DEF RoundRecords
  <2> HIDE DEF r
  <2>4. QED
    BY <1>1, <2>2, <2>3, RoundKeeps
<1>4. CASE Deb!Score
  <2>1. PICK by \in {"model", "words"} : Deb!Step("consensus", [current EXCEPT !.scored = by])
    BY <1>4 DEF Deb!Score
  <2>2. Len(current.arguments) = Len(Debaters)
    BY <1>4 DEF Deb!Score, Deb!Holding, DebatesInv, Held
  <2> DEFINE r == [current EXCEPT !.scored = by]
  <2>3. r \in RoundRecords /\ r.arguments = current.arguments /\ Deb!Step("consensus", r)
    BY <1>1, <2>1 DEF RoundRecords
  <2> HIDE DEF r
  <2>4. QED
    BY <1>1, <2>2, <2>3, RoundKeeps
<1>5. QED
  BY <1>2, <1>3, <1>4

\* What an estimate agrees on was said, and if all were errors it agrees on the error.
LEMMA ChecksSay ==
    ASSUME Deb!DebatesAssumption, NEW all \in Seq(DebateArguments), InTurn(all), Len(all) = Len(Debaters),
           NEW c \in Deb!Checks(all)
    PROVE  /\ c \in Agreements
           /\ c.reached /\ c.by = "words" => \E i \in DOMAIN all : all[i].position = c.position
           /\ /\ Len(Debaters) >= 2 /\ c.by = "words"
              /\ \A i \in DOMAIN all : all[i].position = "error"
              => c = Deb!Consensus(TRUE, "error", "words")
<1>1. PICK said : said = Deb!Voiced(all)
  OBVIOUS
<1>2. said \subseteq DOMAIN all /\ said \subseteq Nat /\ \A i \in DOMAIN all : i \in said <=> all[i].position # "none"
  BY <1>1 DEF Deb!Voiced
<1>3. CASE said = {}
  <2>1. c = Deb!NoConsensus
    BY <1>1, <1>3 DEF Deb!Checks
  <2>2. QED
    BY <2>1 DEF Deb!NoConsensus, Agreements, DebatePositions
<1>4. ASSUME NEW r \in BOOLEAN, NEW p \in Positions, c = Deb!Consensus(r, p, "model")
      PROVE  c \in Agreements /\ c.by = "model"
  BY <1>4 DEF Deb!Consensus, Agreements, DebatePositions
<1>5. PICK m : m = Deb!Min(said)
  OBVIOUS
<1>6. said # {} => m \in said
  <2>1. ASSUME said # {} PROVE \E n \in said : \A k \in said : n <= k
    BY <1>2, <2>1, LeastOf, Zenon
  <2>2. QED
    BY <1>5, <2>1, Zenon DEF Deb!Min
<1>7. ASSUME said # {}, NEW r \in Deb!Estimates(all), c = Deb!Consensus(r, all[m].position, "words")
      PROVE  /\ c \in Agreements
             /\ \E i \in DOMAIN all : all[i].position = all[m].position
             /\ c.reached => c.position = all[m].position
             /\ /\ Len(Debaters) >= 2
                /\ \A i \in DOMAIN all : all[i].position = "error"
                => c = Deb!Consensus(TRUE, "error", "words")
  <2>1. r \in BOOLEAN
    BY <1>7 DEF Deb!Estimates
  <2>2. m \in DOMAIN all /\ all[m].position \in DebatePositions
    <3>1. m \in DOMAIN all
      BY <1>2, <1>6, <1>7
    <3>2. all[m] \in DebateArguments
      BY <3>1
    <3>3. QED
      BY <3>1, <3>2 DEF DebateArguments
  <2>3. c \in Agreements /\ (c.reached => c.position = all[m].position)
    BY <1>7, <2>1, <2>2 DEF Deb!Consensus, Agreements, DebatePositions
  <2>4. ASSUME Len(Debaters) >= 2, \A i \in DOMAIN all : all[i].position = "error"
        PROVE  c = Deb!Consensus(TRUE, "error", "words")
    <3>1. said = 1..Len(Debaters) /\ DOMAIN all = 1..Len(Debaters) /\ Len(Debaters) \in Nat
      <4>1. DOMAIN all = 1..Len(Debaters) /\ Len(Debaters) \in Nat
        BY CrowdIs
      <4>2. DOMAIN all \subseteq said
        BY <1>2, <2>4
      <4>3. QED
        BY <1>2, <4>1, <4>2
    <3>2. Deb!Cardinality(said) >= 2
      <4>1. Len(Debaters) \in Int /\ 1 \in Int
        BY <3>1
      <4>2. Cardinality(1..Len(Debaters)) = IF 1 > Len(Debaters) THEN 0 ELSE Len(Debaters) - 1 + 1
        BY <4>1, FS_Interval, Zenon
      <4>3. Cardinality(said) = Len(Debaters)
        BY <2>4, <3>1, <4>2
      <4>4. QED
        BY <2>4, <3>1, <4>3, DebatesCount
    <3>3. \A i \in DOMAIN all : all[i].sure
      BY <2>4 DEF InTurn
    <3>4. \A i, j \in said : all[i].position = all[j].position
      BY <1>2, <2>4
    <3>5. r = TRUE
      BY <1>1, <1>7, <3>2, <3>3, <3>4 DEF Deb!Estimates
    <3>6. QED
      BY <1>7, <2>2, <2>4, <3>5
  <2>5. QED
    BY <2>2, <2>3, <2>4
<1>8. CASE said # {}
  <2>1. \/ \E r \in BOOLEAN : \E p \in Positions : c = Deb!Consensus(r, p, "model")
        \/ \E r \in Deb!Estimates(all) : c = Deb!Consensus(r, all[m].position, "words")
    BY <1>1, <1>5, <1>8 DEF Deb!Checks
  <2>2. CASE \E r \in BOOLEAN : \E p \in Positions : c = Deb!Consensus(r, p, "model")
    BY <1>4, <2>2
  <2>3. CASE \E r \in Deb!Estimates(all) : c = Deb!Consensus(r, all[m].position, "words")
    BY <1>7, <1>8, <2>3
  <2>4. QED
    BY <2>1, <2>2, <2>3
<1>9. QED
  BY <1>3, <1>8

\* A round is over: consensus, the next one, or the end.
LEMMA CheckKeeps == ASSUME Deb!DebatesAssumption, DebatesInv, Deb!Check PROVE DebatesInv'
<1>1. PICK all : all = current.arguments
  OBVIOUS
<1>2. /\ all \in Seq(DebateArguments) /\ InTurn(all) /\ Len(all) = Len(Debaters)
      /\ debate.rounds \in Nat /\ debate.rounds < MaxRounds /\ MaxRounds \in Nat \ {0}
      /\ current' = Deb!NewRound
  BY <1>1, CrowdIs DEF DebatesInv, Held, RoundRecords, DebateRecords, Deb!Check, Deb!Holding
<1>3. current' \in RoundRecords /\ InTurn(current'.arguments) /\ current'.phase = "arguments"
  BY <1>2, CrowdIs DEF Deb!NewRound, RoundRecords, InTurn
<1>4. ASSUME NEW status \in {"active", "completed", "consensus_reached"}, NEW c \in Agreements,
             Deb!Close(status, c),
             status = "active" => c = Deb!NoConsensus /\ Deb!Number < MaxRounds,
             status = "completed" => Deb!Number = MaxRounds,
             status = "consensus_reached" => Deb!Number >= 2 /\ c.reached,
             c.reached /\ c.by = "words" => \E i \in DOMAIN all : all[i].position = c.position,
             /\ Len(Debaters) >= 2 /\ c.by = "words"
             /\ \A i \in DOMAIN all : all[i].position = "error"
             => c = Deb!Consensus(TRUE, "error", "words")
      PROVE  DebatesInv'
  <2>1. PICK n : n = debate.rounds + 1
    OBVIOUS
  <2>2. debate' = [rounds |-> n, last |-> all, status |-> status, consensus |-> c] /\ n \in 0..MaxRounds
    BY <1>1, <1>2, <1>4, <2>1 DEF Deb!Close, Deb!Number
  <2>3. debate' \in DebateRecords
    BY <1>2, <1>4, <2>2 DEF DebateRecords
  <2>4. debate'.rounds = n /\ debate'.last = all /\ debate'.status = status /\ debate'.consensus = c
    BY <2>2
  <2>5. Held'
    BY <1>2, <1>3, <1>4, <2>1, <2>4 DEF Held, Deb!NoConsensus, Deb!Number
  <2>6. [i \in DOMAIN all |-> all[i].who] = Debaters
    BY <1>2, CrowdIs DEF InTurn
  <2>7. Deb!EndsHeard'
    BY <1>2, <1>4, <2>1, <2>4, <2>6 DEF Deb!EndsHeard, Deb!Number
  <2>8. Deb!OutageAgrees'
    BY <1>4, <2>4 DEF Deb!OutageAgrees, Deb!Consensus
  <2>9. QED
    BY <1>3, <2>3, <2>5, <2>7, <2>8 DEF DebatesInv
<1>5. CASE \E c \in Deb!Checks(current.arguments) :
             Deb!MayConclude /\ c.reached /\ Deb!Close("consensus_reached", c)
  <2>1. PICK c \in Deb!Checks(all) : Deb!MayConclude /\ c.reached /\ Deb!Close("consensus_reached", c)
    BY <1>1, <1>5
  <2>2. QED
    BY <1>2, <1>4, <2>1, ChecksSay DEF Deb!MayConclude
<1>6. CASE Deb!Number < MaxRounds /\ Deb!Close("active", Deb!NoConsensus)
  <2>1. PICK c : c = Deb!NoConsensus
    OBVIOUS
  <2>2. c \in Agreements /\ c.by = "none" /\ ~c.reached
    BY <2>1 DEF Deb!NoConsensus, Agreements, DebatePositions
  <2>3. QED
    BY <1>4, <1>6, <2>1, <2>2
<1>7. CASE ~(Deb!Number < MaxRounds) /\ \E c \in Deb!Checks(current.arguments) : Deb!Close("completed", c)
  <2>1. PICK c \in Deb!Checks(all) : Deb!Close("completed", c)
    BY <1>1, <1>7
  <2>2. Deb!Number = MaxRounds
    BY <1>2, <1>7 DEF Deb!Number
  <2>3. QED
    BY <1>2, <1>4, <2>1, <2>2, ChecksSay
<1>8. QED
  BY <1>5, <1>6, <1>7 DEF Deb!Check

\* The steps of a debate.
LEMMA DebatesStep == Deb!DebatesAssumption /\ DebatesInv /\ [Deb!Next]_(Deb!vars) => DebatesInv'
<1>1. ASSUME Deb!DebatesAssumption, DebatesInv, Deb!Next PROVE DebatesInv'
  BY <1>1, ArgueKeeps, DebatePhasesKeep, CheckKeeps DEF Deb!Next
<1>2. ASSUME DebatesInv, UNCHANGED Deb!vars PROVE DebatesInv'
  BY <1>2 DEF Deb!vars, DebatesInv, Held, Deb!EndsHeard, Deb!OutageAgrees, Deb!Consensus
<1>3. QED
  BY <1>1, <1>2

\* What is kept is what the run checks of debates.
LEMMA DebatesMean == Deb!DebatesAssumption /\ DebatesInv => Deb!DebatesEnd /\ Deb!TypeOK
<1>1. DebatesInv => Deb!DebatesEnd
  BY DEF DebatesInv, Deb!DebatesEnd
<1>2. ASSUME DebatesInv PROVE Deb!TypeOK
  BY <1>2 DEF DebatesInv, DebateRecords, RoundRecords, Crowd, Deb!TypeOK
<1>3. QED
  BY <1>1, <1>2

-----------------------------------------------------------------------------
(* War rooms.                                                               *)

War == INSTANCE WarRooms

RoomLabels ==
    {"idle", "debate", "speech", "plan", "waves", "retrospective", "close", "closed", "remember",
     "decisions"}

RoomKinds == {"none", "web", "forced", "auto", "directive"}

RoomRecords ==
    [pc : RoomLabels, kind : RoomKinds, n : Nat, members : Seq(Lieutenants), next : Nat \ {0},
     met : SUBSET Lieutenants, heard : Seq(Lieutenants), cost : Nat, charged : Nat,
     synthesis : {"none", "failed", "plain", "decided", "odd"}, items : BOOLEAN]

Kinds == {"synthesis", "decisions"}

\* How often one is listed, and how often before the n-th.
Listed(l, s) == Cardinality({i \in DOMAIN s : s[i] = l})
Before(l, s, n) == Cardinality({i \in DOMAIN s : i < n /\ s[i] = l})

\* Nobody was heard more often than it was called, and who is there was each time.
Listened(members, heard, n) ==
    \A l \in Lieutenants :
        /\ Listed(l, heard) <= Before(l, members, n)
        /\ l \in War!There => Listed(l, heard) = Before(l, members, n)

\* The members were there once.
Were(members) == \A i \in DOMAIN members : fleet[members[i]] # "none"

\* The costs are the room's, but for those of the speeches.
Charged(r) ==
    /\ r.kind = "directive" =>
          r.pc \in {"plan", "waves", "retrospective", "close", "closed"} /\ r.cost = r.charged
    /\ r.kind = "web" =>
          r.pc \in {"debate", "speech", "close", "closed"} /\ r.charged \in r.cost..(r.cost + Len(r.heard))

RoomRight(r) ==
    r.pc # "idle" =>
        /\ r.n \in 1..opened /\ r.kind # "none" /\ Were(r.members) /\ Listened(r.members, r.heard, r.next)
        /\ r.next <= Len(r.members) + 1
        /\ r.pc = "speech" => r.next <= Len(r.members)
        /\ r.pc \notin {"debate", "speech", "plan"} => r.next = Len(r.members) + 1
        /\ Charged(r)

MeetingTyped ==
    /\ fleet \in [Lieutenants -> {"none", "active", "inactive", "gone"}]
    /\ rooms \in [Hosts -> RoomRecords] /\ opened \in Nat
    /\ notes \subseteq War!There
    /\ \A x \in lessons : \E n \in 1..opened, k \in Kinds : x = <<n, k>>

MeetingInv ==
    /\ MeetingTyped
    /\ \A h \in Hosts : RoomRight(rooms[h])
    /\ \A m \in minutes : m \in RoomRecords /\ m.pc = "closed" /\ RoomRight(m)

\* War rooms count as this module does.
LEMMA RoomsCount == \A S : War!Cardinality(S) = Cardinality(S)
BY DEF War!Cardinality, Cardinality, War!IsFiniteSet, IsFiniteSet

\* Who is there was not unknown.
LEMMA ThereIs ==
    \A l : l \in War!There <=> l \in Lieutenants /\ fleet[l] \in {"active", "inactive"}
BY DEF War!There

\* Positions in a list are finitely many.
LEMMA PositionsCount ==
    ASSUME NEW s \in Seq(Lieutenants), NEW S \in SUBSET (DOMAIN s)
    PROVE  IsFiniteSet(S) /\ Cardinality(S) \in Nat
<1>1. Len(s) \in Int /\ 1 \in Int /\ DOMAIN s = 1..Len(s)
  OBVIOUS
<1>2. IsFiniteSet(1..Len(s))
  BY <1>1, FS_Interval, Zenon
<1>3. S \in SUBSET (1..Len(s))
  BY <1>1
<1>4. IsFiniteSet(S)
  BY <1>2, <1>3, FS_Subset, Zenon
<1>5. QED
  BY <1>4, FS_CardinalityType, Zenon

\* Both are numbers.
LEMMA CountsAre ==
    ASSUME NEW s \in Seq(Lieutenants), NEW l, NEW n
    PROVE  Listed(l, s) \in Nat /\ Before(l, s, n) \in Nat
<1>1. {i \in DOMAIN s : s[i] = l} \in SUBSET (DOMAIN s) /\ {i \in DOMAIN s : i < n /\ s[i] = l} \in SUBSET (DOMAIN s)
  OBVIOUS
<1>2. QED
  BY <1>1, PositionsCount, Zenon DEF Listed, Before

\* Who is heard once more is listed once more.
LEMMA ListedOneMore ==
    ASSUME NEW s \in Seq(Lieutenants), NEW x \in Lieutenants, NEW l
    PROVE  Listed(l, Append(s, x)) = Listed(l, s) + (IF x = l THEN 1 ELSE 0)
<1> DEFINE S == {i \in DOMAIN s : s[i] = l}
           f == Append(s, x)
           T == {i \in DOMAIN f : f[i] = l}
           n == Len(s) + 1
<1>1. IsFiniteSet(S) /\ Cardinality(S) \in Nat
  <2>1. S \in SUBSET (DOMAIN s)
    OBVIOUS
  <2> HIDE DEF S
  <2>2. QED
    BY <2>1, PositionsCount, Zenon
<1>2. T = (IF x = l THEN S \cup {n} ELSE S) /\ n \notin S
  OBVIOUS
<1>3. Listed(l, Append(s, x)) = Cardinality(T) /\ Listed(l, s) = Cardinality(S)
  BY DEF Listed
<1> HIDE DEF S, T, n
<1>4. Cardinality(S \cup {n}) = Cardinality(S) + 1
  BY <1>1, <1>2, FS_AddElement, Zenon
<1>5. QED
  BY <1>1, <1>2, <1>3, <1>4

\* Who is called was listed once more.
LEMMA BeforeOneMore ==
    ASSUME NEW s \in Seq(Lieutenants), NEW n \in 1..Len(s), NEW l
    PROVE  Before(l, s, n + 1) = Before(l, s, n) + (IF s[n] = l THEN 1 ELSE 0)
<1> DEFINE S == {i \in DOMAIN s : i < n /\ s[i] = l}
           T == {i \in DOMAIN s : i < n + 1 /\ s[i] = l}
<1>1. IsFiniteSet(S) /\ Cardinality(S) \in Nat
  <2>1. S \in SUBSET (DOMAIN s)
    OBVIOUS
  <2> HIDE DEF S
  <2>2. QED
    BY <2>1, PositionsCount, Zenon
<1>2. T = (IF s[n] = l THEN S \cup {n} ELSE S) /\ n \notin S
  OBVIOUS
<1>3. Before(l, s, n + 1) = Cardinality(T) /\ Before(l, s, n) = Cardinality(S)
  BY DEF Before
<1> HIDE DEF S, T
<1>4. Cardinality(S \cup {n}) = Cardinality(S) + 1
  BY <1>1, <1>2, FS_AddElement, Zenon
<1>5. QED
  BY <1>1, <1>2, <1>3, <1>4

\* Before the first nobody is listed, before the end everybody is.
LEMMA BeforeEnds ==
    ASSUME NEW s \in Seq(Lieutenants), NEW l
    PROVE  /\ Before(l, s, 1) = 0 /\ Before(l, s, Len(s) + 1) = Listed(l, s)
           /\ (\A i \in DOMAIN s : s[i] # l) => Listed(l, s) = 0 /\ \A n : Before(l, s, n) = 0
<1>1. Cardinality({}) = 0
  BY FS_EmptySet
<1>2. {i \in DOMAIN s : i < 1 /\ s[i] = l} = {}
  OBVIOUS
<1>3. {i \in DOMAIN s : i < Len(s) + 1 /\ s[i] = l} = {i \in DOMAIN s : s[i] = l}
  OBVIOUS
<1>4. Before(l, s, 1) = 0 /\ Before(l, s, Len(s) + 1) = Listed(l, s)
  BY <1>1, <1>2, <1>3 DEF Before, Listed
<1>5. ASSUME \A i \in DOMAIN s : s[i] # l
      PROVE  Listed(l, s) = 0 /\ \A n : Before(l, s, n) = 0
  <2>1. {i \in DOMAIN s : s[i] = l} = {}
    BY <1>5
  <2>2. ASSUME NEW n PROVE {i \in DOMAIN s : i < n /\ s[i] = l} = {}
    BY <1>5
  <2>3. QED
    BY <1>1, <2>1, <2>2 DEF Listed, Before
<1>6. QED
  BY <1>4, <1>5

\* Who is not there may be passed over.
LEMMA PassedOver ==
    ASSUME NEW s \in Seq(Lieutenants), NEW t \in Seq(Lieutenants), NEW n \in 1..Len(s), Listened(s, t, n),
           s[n] \notin War!There
    PROVE  Listened(s, t, n + 1)
<1> SUFFICES ASSUME NEW l \in Lieutenants
             PROVE  /\ Listed(l, t) <= Before(l, s, n + 1)
                    /\ l \in War!There => Listed(l, t) = Before(l, s, n + 1)
  BY DEF Listened
<1>1. Before(l, s, n + 1) = Before(l, s, n) + (IF s[n] = l THEN 1 ELSE 0)
  BY BeforeOneMore
<1>2. Listed(l, t) \in Nat /\ Before(l, s, n) \in Nat
  BY CountsAre
<1>3. Listed(l, t) <= Before(l, s, n) /\ (l \in War!There => Listed(l, t) = Before(l, s, n))
  BY DEF Listened
<1>4. QED
  BY <1>1, <1>2, <1>3

\* Who is called is heard.
LEMMA HeardOnce ==
    ASSUME NEW s \in Seq(Lieutenants), NEW t \in Seq(Lieutenants), NEW n \in 1..Len(s), Listened(s, t, n)
    PROVE  Listened(s, Append(t, s[n]), n + 1)
<1> SUFFICES ASSUME NEW l \in Lieutenants
             PROVE  /\ Listed(l, Append(t, s[n])) <= Before(l, s, n + 1)
                    /\ l \in War!There => Listed(l, Append(t, s[n])) = Before(l, s, n + 1)
  BY DEF Listened
<1>1. Before(l, s, n + 1) = Before(l, s, n) + (IF s[n] = l THEN 1 ELSE 0)
  BY BeforeOneMore
<1>2. s[n] \in Lieutenants
  OBVIOUS
<1>3. Listed(l, Append(t, s[n])) = Listed(l, t) + (IF s[n] = l THEN 1 ELSE 0)
  BY <1>2, ListedOneMore
<1>4. Listed(l, t) \in Nat /\ Before(l, s, n) \in Nat
  BY CountsAre
<1>5. Listed(l, t) <= Before(l, s, n) /\ (l \in War!There => Listed(l, t) = Before(l, s, n))
  BY DEF Listened
<1>6. QED
  BY <1>1, <1>3, <1>4, <1>5

\* At first nobody listens to anybody.
LEMMA MeetingStart == War!WarRoomsAssumption /\ War!Init => MeetingInv
<1> SUFFICES ASSUME War!WarRoomsAssumption, War!Init PROVE MeetingInv
  OBVIOUS
<1>1. War!NoRoom \in RoomRecords /\ War!NoRoom.pc = "idle"
  BY DEF War!NoRoom, RoomRecords, RoomLabels, RoomKinds
<1>2. MeetingTyped
  BY <1>1 DEF War!Init, MeetingTyped
<1>3. \A h \in Hosts : RoomRight(rooms[h])
  BY <1>1 DEF War!Init, RoomRight
<1>4. QED
  BY <1>2, <1>3 DEF MeetingInv, War!Init

\* Lieutenants come, rest and go.
LEMMA FleetKeeps ==
    ASSUME MeetingInv, NEW l \in Lieutenants,
           War!Create(l) \/ War!Activate(l) \/ War!Deactivate(l) \/ War!Delete(l)
    PROVE  MeetingInv'
<1>1. PICK from, to : /\ War!Change(l, from, to) /\ to \in {"active", "inactive", "gone"}
                      /\ fleet[l] \in {"none", "active", "inactive"}
                      /\ notes' = (IF to = "gone" THEN notes \ {l} ELSE notes)
                      /\ fleet[l] = "none" => to = "active"
  <2>1. CASE War!Create(l)
    BY <2>1 DEF War!Create, War!Change
  <2>2. CASE War!Activate(l)
    BY <2>2 DEF War!Activate, War!Change
  <2>3. CASE War!Deactivate(l)
    BY <2>3 DEF War!Deactivate, War!Change
  <2>4. CASE War!Delete(l)
    BY <2>4 DEF War!Delete, War!Change
  <2>5. QED
    BY <2>1, <2>2, <2>3, <2>4
<1>2. /\ fleet' = [fleet EXCEPT ![l] = to] /\ UNCHANGED <<rooms, minutes, lessons, opened>>
      /\ fleet \in [Lieutenants -> {"none", "active", "inactive", "gone"}]
  BY <1>1 DEF War!Change, MeetingInv, MeetingTyped
<1>3. /\ fleet'[l] = to /\ \A k \in Lieutenants : k # l => fleet'[k] = fleet[k]
      /\ fleet' \in [Lieutenants -> {"none", "active", "inactive", "gone"}]
  BY <1>1, <1>2
<1>4. \A k : k \in War!There' <=> k \in Lieutenants /\ fleet'[k] \in {"active", "inactive"}
  BY DEF War!There
<1>5. MeetingTyped'
  <2>1. notes' \subseteq War!There'
    BY <1>1, <1>3, <1>4, ThereIs DEF MeetingInv, MeetingTyped
  <2>2. QED
    BY <1>2, <1>3, <2>1 DEF MeetingInv, MeetingTyped
<1>6. ASSUME NEW r \in RoomRecords, RoomRight(r) PROVE RoomRight(r)'
  <2>1. CASE r.pc = "idle"
    BY <2>1 DEF RoomRight
  <2>2. CASE r.pc # "idle"
    <3>1. PICK s, t, n : s = r.members /\ t = r.heard /\ n = r.next
      OBVIOUS
    <3>2. s \in Seq(Lieutenants) /\ t \in Seq(Lieutenants) /\ Were(s) /\ Listened(s, t, n)
      BY <1>6, <2>2, <3>1 DEF RoomRight, RoomRecords
    <3>3. \A i \in DOMAIN s : s[i] \in Lieutenants /\ fleet'[s[i]] # "none"
      BY <1>1, <1>2, <3>2 DEF Were
    <3>4. ASSUME NEW k \in Lieutenants
          PROVE  /\ Listed(k, t) <= Before(k, s, n)
                 /\ k \in War!There' => Listed(k, t) = Before(k, s, n)
      <4>1. Listed(k, t) <= Before(k, s, n) /\ Listed(k, t) \in Nat /\ Before(k, s, n) \in Nat
        BY <3>2, CountsAre DEF Listened
      <4>2. CASE k \in War!There
        BY <3>2, <4>1, <4>2 DEF Listened
      <4>3. CASE fleet[k] = "none"
        <5>1. \A i \in DOMAIN s : s[i] # k
          BY <3>2, <4>3 DEF Were
        <5>2. Before(k, s, n) = 0
          BY <3>2, <5>1, BeforeEnds
        <5>3. QED
          BY <4>1, <5>2
      <4>4. CASE k \notin War!There /\ fleet[k] # "none"
        <5>1. k \notin War!There'
          BY <1>1, <1>3, <1>4, <4>4, ThereIs
        <5>2. QED
          BY <4>1, <5>1
      <4>5. QED
        BY <4>2, <4>3, <4>4
    <3>5. Were(s)' /\ Listened(s, t, n)'
      BY <3>3, <3>4 DEF Were, Listened
    <3>6. QED
      BY <1>2, <1>6, <2>2, <3>1, <3>5 DEF RoomRight, Charged
  <2>3. QED
    BY <2>1, <2>2
<1>7. ASSUME NEW h \in Hosts PROVE RoomRight(rooms[h])'
  <2>1. PICK r : r = rooms[h]
    OBVIOUS
  <2>2. r \in RoomRecords /\ RoomRight(r) /\ r = rooms'[h]
    BY <1>2, <2>1 DEF MeetingInv, MeetingTyped
  <2>3. RoomRight(r)'
    BY <1>6, <2>2
  <2>4. QED
    BY <2>2, <2>3 DEF RoomRight, Were, Listened, Charged
<1>8. ASSUME NEW m \in minutes PROVE m \in RoomRecords /\ m.pc = "closed" /\ RoomRight(m)'
  BY <1>6, <1>8 DEF MeetingInv
<1>9. QED
  BY <1>2, <1>5, <1>7, <1>8 DEF MeetingInv

\* A host goes on, and what it leaves is right.
LEMMA RoomKeeps ==
    ASSUME MeetingInv, NEW h \in Hosts, NEW r \in RoomRecords, RoomRight(r),
           rooms' = [rooms EXCEPT ![h] = r], fleet' = fleet, opened' = opened,
           notes' \subseteq War!There,
           \A x \in lessons' : x \in lessons \/ \E n \in 1..opened, k \in Kinds : x = <<n, k>>,
           \A m \in minutes' : m \in minutes \/ (m \in RoomRecords /\ m.pc = "closed" /\ RoomRight(m))
    PROVE  MeetingInv'
<1>1. War!There' = War!There
  BY DEF War!There
<1>2. \A x : RoomRight(x) => RoomRight(x)'
  BY <1>1 DEF RoomRight, Were, Listened, Charged
<1>3. /\ rooms' \in [Hosts -> RoomRecords] /\ rooms'[h] = r
      /\ \A g \in Hosts : g # h => rooms'[g] = rooms[g]
  BY DEF MeetingInv, MeetingTyped
<1>4. MeetingTyped'
  BY <1>1, <1>3 DEF MeetingInv, MeetingTyped
<1>5. ASSUME NEW g \in Hosts PROVE RoomRight(rooms[g])'
  <2>1. PICK q : q = rooms'[g]
    OBVIOUS
  <2>2. RoomRight(q)
    BY <1>3, <2>1 DEF MeetingInv
  <2>3. RoomRight(q)'
    BY <1>2, <2>2
  <2>4. QED
    BY <2>1, <2>3 DEF RoomRight, Were, Listened, Charged
<1>6. ASSUME NEW m \in minutes' PROVE m \in RoomRecords /\ m.pc = "closed" /\ RoomRight(m)'
  BY <1>2, <1>6 DEF MeetingInv
<1>7. QED
  BY <1>4, <1>5, <1>6 DEF MeetingInv

\* A set of lieutenants in some order is a list of them.
LEMMA InOrderIs ==
    ASSUME NEW S \in SUBSET Lieutenants, IsFiniteSet(S)
    PROVE  War!SetToSeq(S) \in Seq(S)
<1>1. Cardinality(S) \in Nat /\ ExistsBijection(1..Cardinality(S), S)
  BY FS_CardinalityType, Zenon
<1>2. PICK f : f \in Bijection(1..Cardinality(S), S)
  BY <1>1, Zenon DEF ExistsBijection
<1>3. f \in [1..Cardinality(S) -> S] /\ War!IsInjective(f)
  <2>1. f \in Injection(1..Cardinality(S), S)
    BY <1>2 DEF Bijection
  <2>2. f \in [1..Cardinality(S) -> S] /\ \A a, b \in DOMAIN f : f[a] = f[b] => a = b
    BY <2>1 DEF Injection, IsInjective
  <2>3. QED
    BY <2>2 DEF War!IsInjective
<1>4. War!SetToSeq(S) = CHOOSE g \in [1..Cardinality(S) -> S] : War!IsInjective(g)
  BY RoomsCount DEF War!SetToSeq
<1>5. War!SetToSeq(S) \in [1..Cardinality(S) -> S]
  BY <1>3, <1>4, Zenon
<1>6. QED
  BY <1>1, <1>5

\* Opening fills a room with lieutenants that are or were there.
LEMMA OpenKeeps ==
    ASSUME MeetingInv, NEW h \in Hosts, NEW kind \in {"web", "forced", "auto", "directive"},
           NEW members \in Seq(Lieutenants), Were(members), War!Open(h, kind, members)
    PROVE  MeetingInv'
<1>1. PICK label : label = IF kind = "directive" THEN "plan" ELSE "debate"
  OBVIOUS
<1>2. opened \in Nat /\ opened' = opened + 1 /\ UNCHANGED <<fleet, notes, minutes, lessons, changed>>
  BY DEF War!Open, MeetingInv, MeetingTyped
<1>3. PICK r, number : /\ number = opened + 1
                       /\ r = [War!NoRoom EXCEPT !.kind = kind, !.n = number, !.members = members, !.pc = label]
  OBVIOUS
<1>4. rooms' = [rooms EXCEPT ![h] = r]
  BY <1>1, <1>2, <1>3 DEF War!Open
<1>5. /\ r \in RoomRecords /\ r.kind = kind /\ r.n = opened + 1 /\ r.members = members /\ r.pc = label
      /\ r.next = 1 /\ r.heard = <<>> /\ r.cost = 0 /\ r.charged = 0
  <2>1. War!NoRoom \in RoomRecords
    BY DEF War!NoRoom, RoomRecords, RoomLabels, RoomKinds
  <2>2. number \in Nat /\ label \in RoomLabels /\ kind \in RoomKinds
    BY <1>1, <1>2, <1>3 DEF RoomLabels, RoomKinds
  <2>3. r \in RoomRecords
    BY <1>3, <2>1, <2>2 DEF RoomRecords
  <2>4. r.kind = kind /\ r.n = number /\ r.members = members /\ r.pc = label
    BY <1>3, <2>1, <2>2 DEF RoomRecords
  <2>5. r.next = 1 /\ r.heard = <<>> /\ r.cost = 0 /\ r.charged = 0
    BY <1>3 DEF War!NoRoom
  <2>6. QED
    BY <1>3, <2>3, <2>4, <2>5
<1>6. War!There' = War!There
  BY <1>2 DEF War!There
<1>7. Listened(members, <<>>, 1)
  <2>1. <<>> \in Seq(Lieutenants) /\ DOMAIN <<>> = {}
    OBVIOUS
  <2>2. \A l \in Lieutenants : Before(l, members, 1) = 0 /\ Listed(l, <<>>) = 0
    BY <2>1, BeforeEnds
  <2>3. QED
    BY <2>2 DEF Listened
<1>8. RoomRight(r)'
  <2>1. Were(members)' /\ Listened(members, <<>>, 1)'
    BY <1>2, <1>6, <1>7 DEF Were, Listened
  <2>2. Charged(r)
    BY <1>1, <1>5 DEF Charged
  <2>3. Len(members) \in Nat /\ opened' = opened + 1 /\ opened \in Nat /\ Len(<<>>) = 0
    BY <1>2
  <2>4. r.n \in 1..opened' /\ r.next <= Len(r.members) + 1 /\ r.pc \in {"debate", "plan"}
    BY <1>1, <1>5, <2>3
  <2>5. r.pc # "speech" /\ ~(r.pc \notin {"debate", "speech", "plan"})
    BY <2>4
  <2>6. Charged(r)'
    BY <2>2 DEF Charged
  <2>7. Were(r.members)' /\ Listened(r.members, r.heard, r.next)'
    BY <1>5, <2>1
  <2>8. QED
    BY <1>5, <2>4, <2>5, <2>6, <2>7 DEF RoomRight
<1>9. ASSUME NEW q \in RoomRecords, RoomRight(q) PROVE RoomRight(q)'
  BY <1>2, <1>6, <1>9 DEF RoomRight, Were, Listened, Charged
<1>10. /\ rooms' \in [Hosts -> RoomRecords] /\ rooms'[h] = r
      /\ \A g \in Hosts : g # h => rooms'[g] = rooms[g]
  BY <1>4, <1>5 DEF MeetingInv, MeetingTyped
<1>11. MeetingTyped'
  <2>1. \A x \in lessons : \E n \in 1..(opened + 1), k \in Kinds : x = <<n, k>>
    <3>1. \A n \in 1..opened : n \in 1..(opened + 1)
      BY <1>2
    <3>2. \A x \in lessons : \E n \in 1..opened, k \in Kinds : x = <<n, k>>
      BY DEF MeetingInv, MeetingTyped
    <3>3. QED
      BY <3>1, <3>2, Zenon
  <2>2. QED
    BY <1>2, <1>6, <1>10, <2>1 DEF MeetingInv, MeetingTyped
<1>12. ASSUME NEW g \in Hosts PROVE RoomRight(rooms[g])'
  <2>1. PICK q : q = rooms'[g]
    OBVIOUS
  <2>2. RoomRight(q)'
    <3>1. CASE g = h
      BY <1>8, <1>10, <2>1, <3>1 DEF RoomRight, Were, Listened, Charged
    <3>2. CASE g # h
      BY <1>9, <1>10, <2>1, <3>2 DEF MeetingInv, MeetingTyped
    <3>3. QED
      BY <3>1, <3>2
  <2>3. QED
    BY <2>1, <2>2 DEF RoomRight, Were, Listened, Charged
<1>13. ASSUME NEW m \in minutes' PROVE m \in RoomRecords /\ m.pc = "closed" /\ RoomRight(m)'
  BY <1>2, <1>9, <1>13 DEF MeetingInv
<1>14. QED
  BY <1>11, <1>12, <1>13 DEF MeetingInv

\* A room is opened by a request, a command, an autonomous debate or a directive.
LEMMA OpeningsKeep ==
    ASSUME War!WarRoomsAssumption, MeetingInv, NEW h \in Hosts,
           War!OpenWeb(h) \/ War!OpenForced(h) \/ War!OpenAuto(h) \/ War!OpenDirective(h)
    PROVE  MeetingInv'
<1>1. IsFiniteSet(Lieutenants)
  BY DEF War!WarRoomsAssumption, War!IsFiniteSet, IsFiniteSet
<1>2. ASSUME NEW S \in SUBSET War!Active, NEW kind \in {"forced", "auto", "directive"},
             War!Open(h, kind, War!SetToSeq(S))
      PROVE  MeetingInv'
  <2>1. PICK members : members = War!SetToSeq(S)
    OBVIOUS
  <2>2. S \in SUBSET Lieutenants /\ \A l \in S : fleet[l] = "active"
    BY DEF War!Active
  <2>3. IsFiniteSet(S)
    BY <1>1, <2>2, FS_Subset, Zenon
  <2>4. members \in Seq(S)
    BY <2>1, <2>2, <2>3, InOrderIs
  <2>5. members \in Seq(Lieutenants) /\ Were(members)
    BY <2>2, <2>4 DEF Were
  <2>6. QED
    BY <1>2, <2>1, <2>5, OpenKeeps
<1>3. ASSUME War!OpenWeb(h) PROVE MeetingInv'
  <2> DEFINE Known == {l \in Lieutenants : fleet[l] # "none"}
  <2>1. PICK members \in UNION {[1..k -> Known] : k \in 0..2} : War!Open(h, "web", members)
    BY <1>3 DEF War!OpenWeb
  <2>2. \E k \in 0..2 : members \in [1..k -> Known]
    BY <2>1
  <2>3. members \in Seq(Lieutenants)
    BY <2>2
  <2>4. Were(members)
    BY <2>2 DEF Were
  <2>5. QED
    BY <2>1, <2>3, <2>4, OpenKeeps
<1>4. QED
  BY <1>2, <1>3 DEF War!OpenForced, War!OpenAuto, War!OpenDirective

\* A room that goes to a later phase, or is left, is as right as it was.
LEMMA LaterKeeps ==
    ASSUME MeetingInv, NEW h \in Hosts, NEW r \in RoomRecords, War!Room(h, r),
           \/ r = War!NoRoom
           \/ /\ r.kind = rooms[h].kind /\ r.n = rooms[h].n /\ r.members = rooms[h].members
              /\ r.heard = rooms[h].heard /\ r.next = rooms[h].next
              /\ rooms[h].pc # "idle" /\ r.next = Len(r.members) + 1
              /\ r.pc \notin {"debate", "speech", "plan"} /\ Charged(r),
           notes' = notes,
           \A x \in lessons' : x \in lessons \/ \E n \in 1..opened, k \in Kinds : x = <<n, k>>,
           \A m \in minutes' : m \in minutes \/ (m \in RoomRecords /\ m.pc = "closed" /\ RoomRight(m))
    PROVE  MeetingInv'
<1>1. rooms[h] \in RoomRecords /\ RoomRight(rooms[h]) /\ Len(rooms[h].members) \in Nat
  BY DEF MeetingInv, MeetingTyped, RoomRecords
<1>2. RoomRight(r)
  <2>1. CASE r = War!NoRoom
    BY <2>1 DEF War!NoRoom, RoomRight
  <2>2. CASE r # War!NoRoom
    BY <1>1, <2>2 DEF RoomRight
  <2>3. QED
    BY <2>1, <2>2
<1>3. rooms' = [rooms EXCEPT ![h] = r] /\ fleet' = fleet /\ opened' = opened /\ notes' \subseteq War!There
  BY DEF War!Room, MeetingInv, MeetingTyped
<1>4. QED
  BY <1>2, <1>3, RoomKeeps

\* The next one is called, and found or passed over.
LEMMA CallKeeps == ASSUME MeetingInv, NEW h \in Hosts, War!Call(h) PROVE MeetingInv'
<1>1. PICK o, l, n : o = rooms[h] /\ l = War!Turn(h) /\ n = o.next
  OBVIOUS
<1>2. /\ o \in RoomRecords /\ RoomRight(o) /\ o.pc = "debate" /\ n \in 1..Len(o.members)
      /\ l = o.members[n] /\ l \in Lieutenants
      /\ o.members \in Seq(Lieutenants) /\ o.heard \in Seq(Lieutenants) /\ Listened(o.members, o.heard, n)
      /\ UNCHANGED <<notes, minutes, lessons>>
  BY <1>1 DEF MeetingInv, MeetingTyped, War!Call, War!MoreTurns, War!Turn, RoomRecords, RoomRight
<1>3. notes \subseteq War!There
  BY DEF MeetingInv, MeetingTyped
<1>4. CASE War!Meets(h, l) /\ War!Room(h, [o EXCEPT !.met = @ \cup {l}, !.pc = "speech"])
  <2>1. PICK met : met = o.met \cup {l}
    OBVIOUS
  <2>2. o \in RoomRecords /\ "speech" \in RoomLabels /\ met \in SUBSET Lieutenants
    BY <1>2, <2>1 DEF RoomLabels, RoomRecords
  <2> DEFINE r == [o EXCEPT !.met = met, !.pc = "speech"]
  <2>3. /\ r \in RoomRecords /\ r.pc = "speech" /\ r.kind = o.kind /\ r.n = o.n /\ r.members = o.members
        /\ r.heard = o.heard /\ r.next = n /\ r.cost = o.cost /\ r.charged = o.charged
    <3>1. r \in RoomRecords
      BY <2>2 DEF RoomRecords
    <3>2. QED
      BY <1>1, <2>2, <3>1 DEF RoomRecords
  <2>4. rooms' = [rooms EXCEPT ![h] = r] /\ fleet' = fleet /\ opened' = opened
    BY <1>4, <2>1 DEF War!Room
  <2> HIDE DEF r
  <2>5. RoomRight(r)
    BY <1>1, <1>2, <2>3 DEF RoomRight, Charged
  <2>6. QED
    BY <1>2, <1>3, <2>3, <2>4, <2>5, RoomKeeps
<1>5. CASE ~War!Meets(h, l) /\ War!Room(h, [o EXCEPT !.next = @ + 1])
  <2> DEFINE r == [o EXCEPT !.next = n + 1]
  <2>1. /\ r \in RoomRecords /\ r.pc = "debate" /\ r.kind = o.kind /\ r.n = o.n /\ r.members = o.members
        /\ r.heard = o.heard /\ r.next = n + 1 /\ r.cost = o.cost /\ r.charged = o.charged
    <3>1. o \in RoomRecords /\ n + 1 \in Nat \ {0}
      BY <1>2
    <3>2. r \in RoomRecords
      BY <3>1 DEF RoomRecords
    <3>3. QED
      BY <1>1, <1>2, <3>1, <3>2 DEF RoomRecords
  <2>2. rooms' = [rooms EXCEPT ![h] = r] /\ fleet' = fleet /\ opened' = opened
    BY <1>1, <1>5 DEF War!Room
  <2> HIDE DEF r
  <2>3. Listened(o.members, o.heard, n + 1)
    BY <1>1, <1>2, <1>5, PassedOver DEF RoomRight, War!Meets
  <2>4. RoomRight(r)
    BY <1>1, <1>2, <2>1, <2>3 DEF RoomRight, Charged
  <2>5. QED
    BY <1>2, <1>3, <2>1, <2>2, <2>4, RoomKeeps
<1>6. QED
  BY <1>1, <1>4, <1>5 DEF War!Call

\* Who was called speaks, and is remembered if it is there.
LEMMA SpeakKeeps == ASSUME MeetingInv, NEW h \in Hosts, War!Speak(h) PROVE MeetingInv'
<1>1. PICK o, l, n : o = rooms[h] /\ l = War!Turn(h) /\ n = o.next
  OBVIOUS
<1>2. /\ o \in RoomRecords /\ RoomRight(o) /\ o.pc = "speech"
      /\ n \in 1..Len(o.members) /\ l = o.members[n] /\ l \in Lieutenants
      /\ o.members \in Seq(Lieutenants) /\ o.heard \in Seq(Lieutenants) /\ Listened(o.members, o.heard, n)
      /\ UNCHANGED <<minutes, lessons>>
  BY <1>1 DEF MeetingInv, MeetingTyped, War!Speak, War!Turn, RoomRecords, RoomRight
<1>3. notes' \subseteq War!There
  BY <1>1 DEF MeetingInv, MeetingTyped, War!Speak
<1>4. PICK c \in {0, 1} : War!Room(h, [o EXCEPT !.pc = "debate", !.next = @ + 1, !.charged = @ + c,
                                                 !.heard = Append(@, l)])
  BY <1>1 DEF War!Speak
<1>5. PICK f : f = Append(o.heard, l)
  OBVIOUS
<1>6. f \in Seq(Lieutenants) /\ Len(f) = Len(o.heard) + 1 /\ o.heard \in Seq(Lieutenants) /\ Len(o.heard) \in Nat
  BY <1>2, <1>5 DEF RoomRecords
<1>7. PICK d : d = o.charged + c
  OBVIOUS
<1>8. o \in RoomRecords /\ n + 1 \in Nat \ {0} /\ d \in Nat /\ "debate" \in RoomLabels /\ f \in Seq(Lieutenants)
  BY <1>2, <1>6, <1>7 DEF RoomRecords, RoomLabels
<1> DEFINE r == [o EXCEPT !.pc = "debate", !.next = n + 1, !.charged = d, !.heard = f]
<1>9. rooms' = [rooms EXCEPT ![h] = r] /\ fleet' = fleet /\ opened' = opened
  BY <1>1, <1>4, <1>5, <1>7 DEF War!Room
<1>10. /\ r \in RoomRecords /\ r.pc = "debate" /\ r.kind = o.kind /\ r.n = o.n /\ r.members = o.members
      /\ r.heard = f /\ r.next = n + 1 /\ r.cost = o.cost /\ r.charged = o.charged + c
  <2>1. r \in RoomRecords
    BY <1>8 DEF RoomRecords
  <2>2. QED
    BY <1>7, <1>8, <2>1 DEF RoomRecords
<1> HIDE DEF r
<1>11. Listened(o.members, f, n + 1)
  BY <1>1, <1>2, <1>5, HeardOnce DEF RoomRight
<1>12. Charged(r)
  BY <1>2, <1>6, <1>10 DEF RoomRight, Charged, RoomRecords
<1>13. RoomRight(r)
  BY <1>1, <1>2, <1>10, <1>11, <1>12 DEF RoomRight
<1>14. QED
  BY <1>2, <1>3, <1>9, <1>10, <1>13, RoomKeeps

\* The next one plans, if it is there.
LEMMA ProposeKeeps == ASSUME MeetingInv, NEW h \in Hosts, War!Propose(h) PROVE MeetingInv'
<1>1. PICK o, l, n : o = rooms[h] /\ l = War!Turn(h) /\ n = o.next
  OBVIOUS
<1>2. /\ o \in RoomRecords /\ RoomRight(o) /\ o.pc = "plan" /\ n \in 1..Len(o.members)
      /\ l = o.members[n] /\ l \in Lieutenants
      /\ o.members \in Seq(Lieutenants) /\ o.heard \in Seq(Lieutenants) /\ Listened(o.members, o.heard, n)
      /\ UNCHANGED <<notes, minutes, lessons>>
  BY <1>1 DEF MeetingInv, MeetingTyped, War!Propose, War!MoreTurns, War!Turn, RoomRecords, RoomRight
<1>3. notes \subseteq War!There
  BY DEF MeetingInv, MeetingTyped
<1>4. ASSUME NEW c \in {0, 1},
             War!Room(h, [o EXCEPT !.next = @ + 1, !.cost = @ + c, !.charged = @ + c, !.heard = Append(@, l)])
      PROVE  MeetingInv'
  <2>1. PICK f : f = Append(o.heard, l)
    OBVIOUS
  <2>2. f \in Seq(Lieutenants) /\ Len(f) = Len(o.heard) + 1 /\ Len(o.heard) \in Nat
    BY <1>2, <2>1 DEF RoomRecords
  <2>3. PICK a, b : a = o.cost + c /\ b = o.charged + c
    OBVIOUS
  <2>4. o \in RoomRecords /\ n + 1 \in Nat \ {0} /\ a \in Nat /\ b \in Nat /\ f \in Seq(Lieutenants)
    BY <1>2, <2>2, <2>3 DEF RoomRecords
  <2> DEFINE r == [o EXCEPT !.next = n + 1, !.cost = a, !.charged = b, !.heard = f]
  <2>5. rooms' = [rooms EXCEPT ![h] = r] /\ fleet' = fleet /\ opened' = opened
    BY <1>1, <1>4, <2>1, <2>3 DEF War!Room
  <2>6. /\ r \in RoomRecords /\ r.pc = "plan" /\ r.kind = o.kind /\ r.n = o.n /\ r.members = o.members
        /\ r.heard = f /\ r.next = n + 1 /\ r.cost = o.cost + c /\ r.charged = o.charged + c
    <3>1. r \in RoomRecords
      BY <2>4 DEF RoomRecords
    <3>2. QED
      BY <1>2, <2>3, <2>4, <3>1 DEF RoomRecords
  <2> HIDE DEF r
  <2>7. Listened(o.members, f, n + 1)
    BY <1>1, <1>2, <2>1, HeardOnce DEF RoomRight
  <2>8. Charged(r)
    BY <1>2, <2>2, <2>6 DEF RoomRight, Charged, RoomRecords
  <2>9. RoomRight(r)
    BY <1>1, <1>2, <2>6, <2>7, <2>8 DEF RoomRight
  <2>10. QED
    BY <1>2, <1>3, <2>5, <2>6, <2>9, RoomKeeps
<1>5. CASE l \notin War!There /\ War!Room(h, [o EXCEPT !.next = @ + 1])
  <2> DEFINE r == [o EXCEPT !.next = n + 1]
  <2>1. /\ r \in RoomRecords /\ r.pc = "plan" /\ r.kind = o.kind /\ r.n = o.n /\ r.members = o.members
        /\ r.heard = o.heard /\ r.next = n + 1 /\ r.cost = o.cost /\ r.charged = o.charged
    <3>1. o \in RoomRecords /\ n + 1 \in Nat \ {0}
      BY <1>2
    <3>2. r \in RoomRecords
      BY <3>1 DEF RoomRecords
    <3>3. QED
      BY <1>1, <1>2, <3>1, <3>2 DEF RoomRecords
  <2>2. rooms' = [rooms EXCEPT ![h] = r] /\ fleet' = fleet /\ opened' = opened
    BY <1>1, <1>5 DEF War!Room
  <2> HIDE DEF r
  <2>3. Listened(o.members, o.heard, n + 1)
    BY <1>1, <1>2, <1>5, PassedOver DEF RoomRight
  <2>4. RoomRight(r)
    BY <1>1, <1>2, <2>1, <2>3 DEF RoomRight, Charged
  <2>5. QED
    BY <1>2, <1>3, <2>1, <2>2, <2>4, RoomKeeps
<1>6. QED
  BY <1>1, <1>4, <1>5 DEF War!Propose

\* What is over with the members: everybody was called.
LEMMA OverIs ==
    ASSUME MeetingInv, NEW h \in Hosts, rooms[h].pc \in {"waves", "retrospective", "close", "remember", "decisions"}
    PROVE  rooms[h].next = Len(rooms[h].members) + 1 /\ Charged(rooms[h]) /\ RoomRight(rooms[h])
BY DEF MeetingInv, RoomRight

\* A debate or a plan is put together, and the session goes on or is dropped.
LEMMA SynthesizeKeeps == ASSUME MeetingInv, NEW h \in Hosts, War!Synthesize(h) PROVE MeetingInv'
<1>1. PICK o : o = rooms[h]
  OBVIOUS
<1>2. /\ o \in RoomRecords /\ RoomRight(o) /\ o.pc \in {"debate", "plan"} /\ o.next > Len(o.members)
      /\ UNCHANGED <<notes, minutes, lessons>>
  BY <1>1 DEF War!Synthesize, MeetingInv, MeetingTyped
<1>3. PICK s \in War!Syntheses :
         War!Room(h, War!Leave([o EXCEPT !.synthesis = s[1], !.cost = @ + s[2], !.charged = @ + s[2]],
                               War!After(o.kind, s[1])))
  BY <1>1 DEF War!Synthesize
<1>4. PICK t, a, b : t = s[1] /\ a = o.cost + s[2] /\ b = o.charged + s[2]
  OBVIOUS
<1>5. t \in {"failed", "plain", "decided", "odd"} /\ s[2] \in {0, 1}
  BY <1>4 DEF War!Syntheses
<1>6. o.cost \in Nat /\ o.charged \in Nat /\ a \in Nat /\ b \in Nat /\ o.kind \in RoomKinds /\ Len(o.members) \in Nat
      /\ o.next \in Nat
  BY <1>2, <1>4, <1>5 DEF RoomRecords
<1>7. o.kind # "none" => War!After(o.kind, t) \in {"idle", "close", "remember", "waves"}
  BY <1>6 DEF War!After, RoomKinds
<1>8. PICK label : label = War!After(o.kind, t)
  OBVIOUS
<1>9. CASE label = "idle"
  <2>1. War!Room(h, War!NoRoom)
    BY <1>3, <1>4, <1>8, <1>9 DEF War!Leave
  <2>2. War!NoRoom \in RoomRecords
    BY DEF War!NoRoom, RoomRecords, RoomLabels, RoomKinds
  <2>3. QED
    BY <1>2, <2>1, <2>2, LaterKeeps
<1>10. CASE label # "idle"
  <2> DEFINE q == [o EXCEPT !.synthesis = t, !.cost = a, !.charged = b]
             r == [q EXCEPT !.pc = label]
  <2>1. War!Room(h, r)
    BY <1>3, <1>4, <1>8, <1>10 DEF War!Leave
  <2>2. label \in {"close", "remember", "waves"} /\ label \in RoomLabels
    <3>1. o.kind # "none"
      BY <1>2 DEF RoomRight
    <3>2. QED
      BY <1>7, <1>8, <1>10, <3>1 DEF RoomLabels
  <2>3. o \in RoomRecords /\ t \in {"none", "failed", "plain", "decided", "odd"} /\ a \in Nat /\ b \in Nat
    BY <1>2, <1>5, <1>6
  <2>4. /\ q \in RoomRecords /\ q.kind = o.kind /\ q.n = o.n /\ q.members = o.members
        /\ q.heard = o.heard /\ q.next = o.next /\ q.cost = a /\ q.charged = b
    <3>1. q \in RoomRecords
      BY <2>3 DEF RoomRecords
    <3>2. QED
      BY <2>3, <3>1 DEF RoomRecords
  <2> HIDE DEF q
  <2>5. /\ r \in RoomRecords /\ r.pc = label /\ r.kind = o.kind /\ r.n = o.n /\ r.members = o.members
        /\ r.heard = o.heard /\ r.next = o.next /\ r.cost = a /\ r.charged = b
    <3>1. r \in RoomRecords
      BY <2>2, <2>4 DEF RoomRecords
    <3>2. QED
      BY <2>2, <2>4, <3>1 DEF RoomRecords
  <2> HIDE DEF r
  <2>6. Charged(r)
    <3>1. o.kind = "directive" => label = "waves" /\ a = b
      BY <1>2, <1>4, <1>5, <1>6, <1>8, <1>10 DEF War!After, RoomRight, Charged
    <3>2. o.kind = "web" => label = "close"
      BY <1>8, <1>10 DEF War!After
    <3>3. o.kind = "web" => b \in a..(a + Len(o.heard))
      <4>1. Len(o.heard) \in Nat
        BY <1>2 DEF RoomRecords
      <4>2. o.kind = "web" => o.charged \in o.cost..(o.cost + Len(o.heard))
        BY <1>2 DEF RoomRight, Charged
      <4>3. QED
        BY <1>4, <1>5, <1>6, <4>1, <4>2
    <3>4. QED
      BY <2>5, <3>1, <3>2, <3>3 DEF Charged
  <2>7. r.next = Len(r.members) + 1
    BY <1>2, <1>6, <2>5 DEF RoomRight
  <2>8. r.pc \notin {"debate", "speech", "plan"}
    BY <2>2, <2>5
  <2>9. o.pc # "idle"
    BY <1>2
  <2>10. QED
    BY <1>1, <1>2, <2>1, <2>5, <2>6, <2>7, <2>8, <2>9, LaterKeeps
<1>11. QED
  BY <1>9, <1>10

\* The waves of a directive end or raise, and what is learned from them is looked back on.
LEMMA LookBackKeeps ==
    ASSUME MeetingInv, NEW h \in Hosts, War!Execute(h) \/ War!Retrospect(h) PROVE MeetingInv'
<1>1. PICK o : o = rooms[h]
  OBVIOUS
<1>2. /\ o \in RoomRecords /\ o.pc \in {"waves", "retrospective"} /\ o.next = Len(o.members) + 1
      /\ Charged(o) /\ UNCHANGED <<notes, minutes, lessons>> /\ o.cost \in Nat /\ o.charged \in Nat
      /\ Len(o.heard) \in Nat
  <2>1. /\ o \in RoomRecords /\ rooms[h].pc \in {"waves", "retrospective"}
        /\ UNCHANGED <<notes, minutes, lessons>>
    BY <1>1 DEF War!Execute, War!Retrospect, MeetingInv, MeetingTyped
  <2>2. o.next = Len(o.members) + 1 /\ Charged(o)
    BY <1>1, <2>1, OverIs
  <2>3. o.cost \in Nat /\ o.charged \in Nat /\ Len(o.heard) \in Nat
    BY <2>1 DEF RoomRecords
  <2>4. QED
    BY <1>1, <2>1, <2>2, <2>3
<1>3. CASE War!Room(h, War!NoRoom)
  <2>1. War!NoRoom \in RoomRecords
    BY DEF War!NoRoom, RoomRecords, RoomLabels, RoomKinds
  <2>2. QED
    BY <1>2, <1>3, <2>1, LaterKeeps
<1>4. ASSUME NEW label \in {"retrospective", "close"}, War!Room(h, [o EXCEPT !.pc = label]) PROVE MeetingInv'
  <2> DEFINE r == [o EXCEPT !.pc = label]
  <2>1. label \in RoomLabels
    BY DEF RoomLabels
  <2>2. /\ r \in RoomRecords /\ r.pc = label /\ r.kind = o.kind /\ r.n = o.n /\ r.members = o.members
        /\ r.heard = o.heard /\ r.next = o.next /\ r.cost = o.cost /\ r.charged = o.charged
    BY <1>2, <2>1 DEF RoomRecords
  <2>3. War!Room(h, r)
    BY <1>4
  <2> HIDE DEF r
  <2>4. Charged(r)
    BY <1>2, <2>2 DEF Charged
  <2>5. QED
    BY <1>1, <1>2, <2>2, <2>3, <2>4, LaterKeeps
<1>5. ASSUME NEW some \in BOOLEAN,
             War!Room(h, [[o EXCEPT !.cost = @ + 1, !.charged = @ + 1, !.items = some] EXCEPT !.pc = "close"])
      PROVE  MeetingInv'
  <2>1. PICK a, b : a = o.cost + 1 /\ b = o.charged + 1
    OBVIOUS
  <2>2. o \in RoomRecords /\ a \in Nat /\ b \in Nat /\ some \in BOOLEAN /\ "close" \in RoomLabels
    BY <1>2, <2>1 DEF RoomLabels
  <2> DEFINE q == [o EXCEPT !.cost = a, !.charged = b, !.items = some]
             r == [q EXCEPT !.pc = "close"]
  <2>3. /\ q \in RoomRecords /\ q.kind = o.kind /\ q.n = o.n /\ q.members = o.members
        /\ q.heard = o.heard /\ q.next = o.next /\ q.cost = a /\ q.charged = b
    <3>1. q \in RoomRecords
      BY <2>2 DEF RoomRecords
    <3>2. QED
      BY <2>2, <3>1 DEF RoomRecords
  <2>4. War!Room(h, r)
    BY <1>5, <2>1
  <2> HIDE DEF q
  <2>5. /\ r \in RoomRecords /\ r.pc = "close" /\ r.kind = o.kind /\ r.n = o.n /\ r.members = o.members
        /\ r.heard = o.heard /\ r.next = o.next /\ r.cost = a /\ r.charged = b
    <3>1. r \in RoomRecords
      BY <2>2, <2>3 DEF RoomRecords
    <3>2. QED
      BY <2>2, <2>3, <3>1 DEF RoomRecords
  <2> HIDE DEF r
  <2>6. Charged(r)
    BY <1>2, <2>1, <2>5 DEF Charged
  <2>7. QED
    BY <1>1, <1>2, <2>4, <2>5, <2>6, LaterKeeps
<1>6. CASE War!Execute(h)
  <2>1. PICK label \in {"retrospective", "idle"} : War!Room(h, War!Leave(o, label))
    BY <1>1, <1>6 DEF War!Execute
  <2>2. QED
    BY <1>3, <1>4, <2>1 DEF War!Leave
<1>7. CASE War!Retrospect(h)
  <2>1. \/ War!Room(h, War!Leave(o, "close"))
        \/ \E some \in BOOLEAN :
              War!Room(h, War!Leave([o EXCEPT !.cost = @ + 1, !.charged = @ + 1, !.items = some], "close"))
    BY <1>1, <1>7 DEF War!Retrospect
  <2>2. QED
    BY <1>4, <1>5, <2>1 DEF War!Leave
<1>8. QED
  BY <1>6, <1>7

\* A session is closed, and its row is written or not.
LEMMA CloseKeeps == ASSUME MeetingInv, NEW h \in Hosts, War!Close(h) PROVE MeetingInv'
<1>1. PICK o : o = rooms[h]
  OBVIOUS
<1> DEFINE m == [o EXCEPT !.pc = "closed", !.met = {}]
<1>2. /\ o \in RoomRecords /\ o.pc = "close" /\ o.next = Len(o.members) + 1 /\ Charged(o) /\ RoomRight(o)
      /\ UNCHANGED <<notes, lessons>> /\ War!Room(h, War!NoRoom) /\ minutes' \subseteq minutes \cup {m}
  BY <1>1, OverIs DEF War!Close, MeetingInv, MeetingTyped
<1>3. "closed" \in RoomLabels /\ {} \in SUBSET Lieutenants
  BY DEF RoomLabels
<1>4. /\ m \in RoomRecords /\ m.pc = "closed" /\ m.kind = o.kind /\ m.n = o.n /\ m.members = o.members
      /\ m.heard = o.heard /\ m.next = o.next /\ m.cost = o.cost /\ m.charged = o.charged
  <2>1. m \in RoomRecords
    BY <1>2, <1>3 DEF RoomRecords
  <2>2. QED
    BY <1>2, <1>3, <2>1 DEF RoomRecords
<1> HIDE DEF m
<1>5. RoomRight(m)
  <2>1. Charged(m)
    BY <1>2, <1>4 DEF Charged
  <2>2. Len(o.members) \in Nat
    BY <1>2 DEF RoomRecords
  <2>3. QED
    BY <1>2, <1>4, <2>1, <2>2 DEF RoomRight
<1>6. War!NoRoom \in RoomRecords
  BY DEF War!NoRoom, RoomRecords, RoomLabels, RoomKinds
<1>7. \A x \in minutes' : x \in minutes \/ (x \in RoomRecords /\ x.pc = "closed" /\ RoomRight(x))
  BY <1>2, <1>4, <1>5
<1>8. QED
  BY <1>2, <1>6, <1>7, LaterKeeps

\* What an autonomous debate came to is remembered.
LEMMA RememberKeeps ==
    ASSUME MeetingInv, NEW h \in Hosts, War!Remember(h) \/ War!Decide(h) PROVE MeetingInv'
<1>1. PICK o : o = rooms[h]
  OBVIOUS
<1>2. /\ o \in RoomRecords /\ o.pc \in {"remember", "decisions"} /\ o.next = Len(o.members) + 1 /\ Charged(o)
      /\ RoomRight(o) /\ UNCHANGED <<notes, minutes>>
  BY <1>1, OverIs DEF War!Remember, War!Decide, MeetingInv, MeetingTyped
<1>3. \A x \in lessons' : x \in lessons \/ \E n \in 1..opened, k \in Kinds : x = <<n, k>>
  <2>1. o.n \in 1..opened /\ "synthesis" \in Kinds /\ "decisions" \in Kinds
    BY <1>2 DEF RoomRight, Kinds
  <2>2. \A x \in lessons' : x \in lessons \/ x = <<o.n, "synthesis">> \/ x = <<o.n, "decisions">>
    BY <1>1 DEF War!Remember, War!Decide
  <2>3. QED
    BY <2>1, <2>2, Zenon
<1>4. War!NoRoom \in RoomRecords
  BY DEF War!NoRoom, RoomRecords, RoomLabels, RoomKinds
<1>5. CASE War!Room(h, War!NoRoom)
  BY <1>2, <1>3, <1>4, <1>5, LaterKeeps
<1>6. CASE War!Room(h, [o EXCEPT !.pc = "decisions"]) /\ o.pc = "remember"
  <2> DEFINE r == [o EXCEPT !.pc = "decisions"]
  <2>1. "decisions" \in RoomLabels
    BY DEF RoomLabels
  <2>2. /\ r \in RoomRecords /\ r.pc = "decisions" /\ r.kind = o.kind /\ r.n = o.n /\ r.members = o.members
        /\ r.heard = o.heard /\ r.next = o.next /\ r.cost = o.cost /\ r.charged = o.charged
    BY <1>2, <2>1 DEF RoomRecords
  <2>3. War!Room(h, r)
    BY <1>6
  <2> HIDE DEF r
  <2>4. Charged(r)
    BY <1>2, <1>6, <2>2 DEF Charged
  <2>5. QED
    BY <1>1, <1>2, <1>3, <2>2, <2>3, <2>4, LaterKeeps
<1>7. QED
  BY <1>1, <1>5, <1>6 DEF War!Remember, War!Decide, War!Leave

\* The steps of the war rooms.
LEMMA MeetingStep == War!WarRoomsAssumption /\ MeetingInv /\ [War!Next]_(War!vars) => MeetingInv'
<1>1. ASSUME War!WarRoomsAssumption, MeetingInv, War!Next PROVE MeetingInv'
  BY <1>1, FleetKeeps, OpeningsKeep, CallKeeps, SpeakKeeps, ProposeKeeps, SynthesizeKeeps, LookBackKeeps,
     CloseKeeps, RememberKeeps DEF War!Next
<1>2. ASSUME MeetingInv, UNCHANGED War!vars PROVE MeetingInv'
  BY <1>2 DEF War!vars, MeetingInv, MeetingTyped, RoomRight, Were, Listened, Charged, War!There
<1>3. QED
  BY <1>1, <1>2

\* What is kept is what the run checks of war rooms.
LEMMA MeetingMeans == War!WarRoomsAssumption /\ MeetingInv => War!RoomsKept /\ War!TypeOK
<1> SUFFICES ASSUME War!WarRoomsAssumption, MeetingInv PROVE War!RoomsKept /\ War!TypeOK
  OBVIOUS
<1>1. ASSUME NEW m \in minutes, NEW l \in Lieutenants
      PROVE  /\ War!Times(l, m.heard) <= War!Times(l, m.members)
             /\ l \in War!There => War!Times(l, m.heard) = War!Times(l, m.members)
  <2>1. PICK s, t : s = m.members /\ t = m.heard
    OBVIOUS
  <2>2. s \in Seq(Lieutenants) /\ t \in Seq(Lieutenants) /\ Listened(s, t, Len(s) + 1)
    BY <2>1 DEF MeetingInv, RoomRecords, RoomRight
  <2>3. Before(l, s, Len(s) + 1) = Listed(l, s)
    BY <2>2, BeforeEnds
  <2>4. War!Times(l, s) = Listed(l, s) /\ War!Times(l, t) = Listed(l, t)
    BY RoomsCount DEF War!Times, Listed
  <2>5. QED
    BY <2>1, <2>2, <2>3, <2>4 DEF Listened
<1>2. War!MinutesTrue
  BY DEF MeetingInv, RoomRight, Charged, War!MinutesTrue
<1>3. War!AllHeard
  BY <1>1 DEF War!AllHeard
<1>4. War!TypeOK
  BY DEF MeetingInv, MeetingTyped, War!TypeOK, War!There, Kinds
<1>5. QED
  BY <1>2, <1>3, <1>4 DEF War!RoomsKept, War!NotesOwned, MeetingInv, MeetingTyped

-----------------------------------------------------------------------------
(* Rollbacks.                                                               *)

Rol == INSTANCE Rollbacks

Stages == {"idle", "change", "record", "feed", "undo"}
Verdicts == {"none", "applied", "failed"}

Batches == [pc : Stages, queue : Seq(Proposals), begun : Seq(Proposals), ended : BOOLEAN]

RolTyped ==
    /\ marked \in [Proposals -> [applied : BOOLEAN, undone : BOOLEAN]]
    /\ learned \in [Proposals -> [changes : Nat, rules : Nat, undone : Nat]]
    /\ applied \subseteq Proposals /\ given \in Nat /\ given <= MaxOrders
    /\ order \in Batches /\ judged \in [Proposals -> Verdicts]

\* What is begun and what is to come are not in the batch twice; the last that was begun is
\* the one that is being done.
Distinct(o) ==
    /\ \A i, j \in 1..Len(o.queue) : i # j => o.queue[i] # o.queue[j]
    /\ \A i \in 1..Len(o.begun) : \A j \in 2..Len(o.queue) : o.begun[i] # o.queue[j]
    /\ \A i, j \in 1..Len(o.begun) : i # j => o.begun[i] # o.begun[j]

InBatch ==
    /\ order.pc \in {"change", "record", "feed"} =>
          /\ order.queue # <<>> /\ order.begun # <<>>
          /\ order.begun[Len(order.begun)] = order.queue[1] /\ Distinct(order)
    /\ order.pc = "undo" => order.queue # <<>> /\ order.begun = <<>>

\* What is being done was stored before it is recorded, and applied before it is undone.
Behind ==
    /\ order.pc \in {"record", "feed"} =>
          learned[order.queue[1]].rules < learned[order.queue[1]].changes
    /\ order.pc = "undo" => order.queue[1] \in applied /\ marked[order.queue[1]].undone

\* What is over was judged, and but for the end nothing failed that would have ended it.
Ended(i) == i < Len(order.begun) \/ order.pc = "idle"

BatchGoes ==
    \A i \in 1..Len(order.begun) : Ended(i) =>
       /\ judged[order.begun[i]] # "none"
       /\ judged[order.begun[i]] = "failed" /\ order.begun[i] \in HighRisk =>
             i = Len(order.begun) /\ order.ended

RolInv == RolTyped /\ InBatch /\ Behind /\ BatchGoes /\ Rol!BooksKept

\* At first nothing is applied.
LEMMA RolStart == ASSUME Rol!RollbacksAssumption, Rol!Init PROVE RolInv
<1>1. order = Rol!Idle /\ Rol!Idle \in Batches /\ order.pc = "idle" /\ order.begun = <<>>
  BY DEF Rol!Init, Rol!Idle, Batches, Stages
<1>2. RolTyped
  BY <1>1 DEF Rol!Init, Rol!RollbacksAssumption, RolTyped, Verdicts
<1>3. InBatch /\ Behind /\ BatchGoes
  BY <1>1 DEF InBatch, Behind, BatchGoes
<1>4. Rol!BooksKept
  BY DEF Rol!Init, Rol!BooksKept
<1>5. QED
  BY <1>2, <1>3, <1>4 DEF RolInv

\* What the books say of one proposal
Book(p) ==
    /\ marked[p].applied \/ marked[p].undone \/ p \in applied => learned[p].changes > 0
    /\ learned[p].undone + (IF p \in applied THEN 1 ELSE 0) <= learned[p].changes
    /\ learned[p].rules <= learned[p].changes
    /\ judged[p] = "applied" => learned[p].rules > 0
    /\ learned[p].undone > 0 => marked[p].undone

\* The books are kept if each is.
LEMMA BooksOfAll == Rol!BooksKept <=> \A p \in Proposals : Book(p)
BY DEF Rol!BooksKept, Book

\* A batch is a sequence without duplicates.
LEMMA BatchIsSequence ==
    ASSUME Rol!RollbacksAssumption, NEW P \in (SUBSET Proposals) \ {{}}, NEW q \in Rol!SetToSeqs(P)
    PROVE  /\ q \in Seq(Proposals) /\ Len(q) >= 1 /\ Head(q) = q[1] /\ q[1] \in Proposals
           /\ \A i, j \in 1..Len(q) : i # j => q[i] # q[j]
<1>1. IsFiniteSet(P) /\ Cardinality(P) \in Nat
  BY FS_Subset, FS_CardinalityType DEF Rol!RollbacksAssumption, Rol!IsFiniteSet, IsFiniteSet
<1>2. PICK n \in Nat : n = Cardinality(P)
  BY <1>1
<1>3. n >= 1
  <2>1. P # {}
    OBVIOUS
  <2>2. Cardinality(P) # 0
    BY <1>1, <2>1, FS_EmptySet, Zenon
  <2>3. QED
    BY <1>2, <2>2
<1>4. q \in [1..n -> P] /\ \A i, j \in 1..n : i # j => q[i] # q[j]
  BY <1>2 DEF Rol!SetToSeqs, Rol!Cardinality, Cardinality
<1>5. q \in Seq(Proposals) /\ Len(q) = n
  BY <1>4
<1>6. QED
  BY <1>3, <1>4, <1>5

\* The first of a queue is the one that is being done.
LEMMA CurrentIs ==
    ASSUME RolInv, order.pc # "idle"
    PROVE  /\ Rol!Current = order.queue[1] /\ Rol!Current \in Proposals /\ Len(order.queue) >= 1
           /\ order.queue \in Seq(Proposals) /\ order.begun \in Seq(Proposals)
<1>1. order \in Batches
  BY DEF RolInv, RolTyped
<1>2. order.queue \in Seq(Proposals) /\ order.begun \in Seq(Proposals) /\ order.pc \in Stages
  BY <1>1 DEF Batches
<1>3. order.queue # <<>>
  BY <1>2 DEF RolInv, InBatch, Stages
<1>4. QED
  BY <1>2, <1>3 DEF Rol!Current

\* A batch is given.
LEMMA OrderKeeps == ASSUME Rol!RollbacksAssumption, RolInv, Rol!Execute PROVE RolInv'
<1>1. PICK P \in (SUBSET Proposals) \ {{}} : \E q \in Rol!SetToSeqs(P) :
         order' = [pc |-> "change", queue |-> q, begun |-> <<Head(q)>>, ended |-> FALSE]
  BY DEF Rol!Execute
<1>2. PICK q \in Rol!SetToSeqs(P) :
         order' = [pc |-> "change", queue |-> q, begun |-> <<Head(q)>>, ended |-> FALSE]
  BY <1>1
<1>3. /\ q \in Seq(Proposals) /\ Len(q) >= 1 /\ Head(q) = q[1] /\ q[1] \in Proposals
      /\ \A i, j \in 1..Len(q) : i # j => q[i] # q[j]
  BY BatchIsSequence
<1>4. given' = given + 1 /\ given < MaxOrders /\ UNCHANGED <<marked, learned, applied, judged>>
  BY DEF Rol!Execute
<1>5. PICK b \in Seq(Proposals) : b = <<q[1]>> /\ Len(b) = 1 /\ b[1] = q[1]
  <2>1. PICK p \in Proposals : p = q[1]
    BY <1>3
  <2>2. <<p>> \in Seq(Proposals) /\ Len(<<p>>) = 1 /\ <<p>>[1] = p
    OBVIOUS
  <2>3. QED
    BY <2>1, <2>2
<1>6. order' = [pc |-> "change", queue |-> q, begun |-> b, ended |-> FALSE]
  BY <1>2, <1>3, <1>5
<1>7. order' \in Batches
  BY <1>3, <1>5, <1>6 DEF Batches, Stages
<1>8. RolTyped'
  BY <1>4, <1>7 DEF RolInv, RolTyped, Rol!RollbacksAssumption
<1>9. Distinct(order')
  BY <1>3, <1>5, <1>6 DEF Distinct
<1>10. InBatch'
  BY <1>3, <1>5, <1>6, <1>9 DEF InBatch, Distinct
<1>11. Behind'
  BY <1>6 DEF Behind
<1>12. BatchGoes'
  BY <1>5, <1>6 DEF BatchGoes, Ended
<1>13. Rol!BooksKept'
  BY <1>4 DEF RolInv, Rol!BooksKept
<1>14. QED
  BY <1>8, <1>10, <1>11, <1>12, <1>13 DEF RolInv

\* One proposal is judged: the batch goes on or ends.
LEMMA ReturnKeeps ==
    ASSUME RolInv, order.pc \in {"change", "record", "feed"}, NEW status \in {"applied", "failed"},
           Rol!Return(status)
    PROVE  /\ order' \in Batches /\ judged' \in [Proposals -> Verdicts] /\ InBatch' /\ BatchGoes'
           /\ order'.pc \in {"idle", "change"}
           /\ judged'[Rol!Current] = status
           /\ \A p \in Proposals : p # Rol!Current => judged'[p] = judged[p]
<1>1. PICK c \in Proposals : c = Rol!Current /\ c = order.queue[1]
  BY CurrentIs
<1>2. /\ order \in Batches /\ judged \in [Proposals -> Verdicts] /\ InBatch /\ BatchGoes
  BY DEF RolInv, RolTyped
<1>3. PICK q \in Seq(Proposals) : q = order.queue
  BY <1>2 DEF Batches
<1>4. PICK b \in Seq(Proposals) : b = order.begun
  BY <1>2 DEF Batches
<1>5. /\ q # <<>> /\ b # <<>> /\ Len(q) \in Nat \ {0} /\ Len(b) \in Nat \ {0} /\ b[Len(b)] = c /\ q[1] = c
      /\ \A i, j \in 1..Len(q) : i # j => q[i] # q[j]
      /\ \A i \in 1..Len(b) : \A j \in 2..Len(q) : b[i] # q[j]
      /\ \A i, j \in 1..Len(b) : i # j => b[i] # b[j]
  BY <1>1, <1>2, <1>3, <1>4 DEF InBatch, Distinct
<1>6. judged' = [judged EXCEPT ![c] = status]
  BY <1>1 DEF Rol!Return
<1>7. /\ judged' \in [Proposals -> Verdicts] /\ judged'[c] = status
      /\ \A p \in Proposals : p # c => judged'[p] = judged[p]
  BY <1>2, <1>6 DEF Verdicts
<1>8. PICK t \in Seq(Proposals) : t = Tail(q)
  <2>1. Tail(q) \in Seq(Proposals)
    BY <1>5
  <2>2. QED
    BY <2>1, Zenon
<1>9. Len(t) = Len(q) - 1 /\ \A i \in 1..Len(t) : t[i] = q[i + 1] /\ i + 1 \in 2..Len(q)
  BY <1>5, <1>8
\* of those before, each was judged, and not so that it would have ended the batch
<1>10. ASSUME NEW i \in 1..Len(b), i < Len(b)
       PROVE  /\ judged'[b[i]] # "none" /\ ~(judged'[b[i]] = "failed" /\ b[i] \in HighRisk)
  <2>1. b[i] # c /\ b[i] \in Proposals
    BY <1>5, <1>10
  <2>2. judged'[b[i]] = judged[b[i]]
    BY <1>7, <2>1
  <2>3. judged[b[i]] # "none" /\ ~(judged[b[i]] = "failed" /\ b[i] \in HighRisk)
    BY <1>2, <1>4, <1>5, <1>10 DEF BatchGoes, Ended
  <2>4. QED
    BY <2>2, <2>3
<1>11. ASSUME NEW e \in BOOLEAN, e <=> (status = "failed" /\ c \in HighRisk),
              order' = [pc |-> "idle", queue |-> <<>>, begun |-> b, ended |-> e]
       PROVE  order' \in Batches /\ InBatch' /\ BatchGoes' /\ order'.pc \in {"idle", "change"}
  <2>1. order' \in Batches
    BY <1>11 DEF Batches, Stages
  <2>2. InBatch'
    BY <1>11 DEF InBatch
  <2>3. ASSUME NEW i \in 1..Len(b)
        PROVE  /\ judged'[b[i]] # "none"
               /\ judged'[b[i]] = "failed" /\ b[i] \in HighRisk => i = Len(b) /\ e
    <3>1. CASE i = Len(b)
      BY <1>5, <1>7, <1>11, <3>1
    <3>2. CASE i # Len(b)
      BY <1>5, <1>10, <3>2
    <3>3. QED
      BY <3>1, <3>2
  <2>4. BatchGoes'
    BY <1>11, <2>3 DEF BatchGoes
  <2>5. QED
    BY <1>11, <2>1, <2>2, <2>4
<1>12. ASSUME ~(status = "failed" /\ c \in HighRisk), t # <<>>,
              order' = [order EXCEPT !.pc = "change", !.queue = t, !.begun = Append(@, Head(t))]
       PROVE  order' \in Batches /\ InBatch' /\ BatchGoes' /\ order'.pc \in {"idle", "change"}
  <2>1. PICK h \in Proposals : h = Head(t) /\ h = t[1] /\ h = q[2] /\ Len(t) >= 1 /\ 2 \in 1..Len(q)
    BY <1>5, <1>9, <1>12
  <2>2. PICK d \in Seq(Proposals) : d = Append(b, h)
    <3>1. Append(b, h) \in Seq(Proposals)
      OBVIOUS
    <3>2. QED
      BY <3>1, Zenon
  <2>3. Len(d) = Len(b) + 1 /\ d[Len(b) + 1] = h /\ \A i \in 1..Len(b) : d[i] = b[i]
    BY <2>2
  <2>4. order' = [order EXCEPT !.pc = "change", !.queue = t, !.begun = d]
    BY <1>4, <1>12, <2>1, <2>2
  <2>5. order' \in Batches /\ order'.pc = "change" /\ order'.queue = t /\ order'.begun = d
    BY <1>2, <2>4 DEF Batches, Stages
  <2>6. Distinct(order')
    <3>1. \A i, j \in 1..Len(t) : i # j => t[i] # t[j]
      BY <1>5, <1>9
    <3>2. ASSUME NEW i \in 1..Len(d), NEW j \in 2..Len(t) PROVE d[i] # t[j]
      <4>1. t[j] = q[j + 1] /\ j + 1 \in 2..Len(q) /\ j + 1 # 2
        BY <1>5, <1>9
      <4>2. CASE i = Len(b) + 1
        BY <1>5, <2>1, <2>3, <4>1, <4>2
      <4>3. CASE i # Len(b) + 1
        BY <1>5, <2>3, <4>1, <4>3
      <4>4. QED
        BY <4>2, <4>3
    <3>3. ASSUME NEW i \in 1..Len(d), NEW j \in 1..Len(d), i # j PROVE d[i] # d[j]
      <4>1. 2 \in 2..Len(q) /\ \A k \in 1..Len(b) : b[k] # h
        BY <1>5, <2>1
      <4>2. CASE i = Len(b) + 1
        BY <1>5, <2>3, <3>3, <4>1, <4>2
      <4>3. CASE j = Len(b) + 1
        BY <1>5, <2>3, <3>3, <4>1, <4>3
      <4>4. CASE i # Len(b) + 1 /\ j # Len(b) + 1
        <5>1. i \in 1..Len(b) /\ j \in 1..Len(b)
          BY <1>5, <2>3, <4>4
        <5>2. b[i] # b[j] /\ d[i] = b[i] /\ d[j] = b[j]
          BY <1>5, <2>3, <3>3, <5>1
        <5>3. QED
          BY <5>2
      <4>5. QED
        BY <4>2, <4>3, <4>4
    <3>4. QED
      BY <2>5, <3>1, <3>2, <3>3 DEF Distinct
  <2>7. InBatch'
    <3>1. t # <<>> /\ d # <<>> /\ d[Len(d)] = t[1]
      BY <1>5, <1>12, <2>1, <2>3
    <3>2. QED
      BY <2>5, <2>6, <3>1 DEF InBatch, Distinct
  <2>8. ASSUME NEW i \in 1..Len(d), i < Len(d)
        PROVE  judged'[d[i]] # "none" /\ ~(judged'[d[i]] = "failed" /\ d[i] \in HighRisk)
    <3>1. i \in 1..Len(b) /\ d[i] = b[i]
      BY <1>5, <2>3, <2>8
    <3>2. CASE i = Len(b)
      BY <1>5, <1>7, <1>12, <3>1, <3>2
    <3>3. CASE i # Len(b)
      BY <1>5, <1>10, <3>1, <3>3
    <3>4. QED
      BY <3>2, <3>3
  <2>9. BatchGoes'
    BY <2>5, <2>8 DEF BatchGoes, Ended
  <2>10. QED
    BY <2>5, <2>7, <2>9
<1>13. order' \in Batches /\ InBatch' /\ BatchGoes' /\ order'.pc \in {"idle", "change"}
  <2>1. CASE status = "failed" /\ c \in HighRisk
    <3>1. order' = [pc |-> "idle", queue |-> <<>>, begun |-> b, ended |-> TRUE]
      BY <1>1, <1>4, <2>1 DEF Rol!Return, Rol!Idle
    <3>2. QED
      BY <1>11, <2>1, <3>1
  <2>2. CASE ~(status = "failed" /\ c \in HighRisk) /\ t = <<>>
    <3>1. order' = [pc |-> "idle", queue |-> <<>>, begun |-> b, ended |-> FALSE]
      BY <1>1, <1>3, <1>4, <1>8, <2>2 DEF Rol!Return, Rol!Idle
    <3>2. QED
      BY <1>11, <2>2, <3>1
  <2>3. CASE ~(status = "failed" /\ c \in HighRisk) /\ t # <<>>
    <3>1. order' = [order EXCEPT !.pc = "change", !.queue = t, !.begun = Append(@, Head(t))]
      BY <1>1, <1>3, <1>8, <2>3 DEF Rol!Return
    <3>2. QED
      BY <1>12, <2>3, <3>1
  <2>4. QED
    BY <2>1, <2>2, <2>3
<1>14. QED
  BY <1>1, <1>7, <1>13

\* The counters of one proposal are records of numbers.
LEMMA Counters ==
    ASSUME RolInv, NEW p \in Proposals
    PROVE  /\ learned[p] \in [changes : Nat, rules : Nat, undone : Nat]
           /\ learned[p].changes \in Nat /\ learned[p].rules \in Nat /\ learned[p].undone \in Nat
           /\ marked[p] \in [applied : BOOLEAN, undone : BOOLEAN] /\ Book(p)
<1>1. learned[p] \in [changes : Nat, rules : Nat, undone : Nat] /\ marked[p] \in [applied : BOOLEAN, undone : BOOLEAN]
  BY DEF RolInv, RolTyped
<1>2. Book(p)
  BY BooksOfAll DEF RolInv
<1>3. QED
  BY <1>1, <1>2

\* A change is stored, or fails to be.
LEMMA ChangeKeeps == ASSUME RolInv, Rol!Apply PROVE RolInv'
<1>1. order.pc = "change" /\ UNCHANGED <<marked, given>>
  BY DEF Rol!Apply, Rol!At
<1>2. PICK c \in Proposals : c = Rol!Current /\ c = order.queue[1]
  BY <1>1, CurrentIs
<1>3. RolTyped /\ InBatch /\ Behind /\ BatchGoes /\ \A p \in Proposals : Book(p)
  BY BooksOfAll DEF RolInv
<1>4. CASE Rol!Remember("changes") /\ applied' = applied \cup {Rol!Current} /\ order' = [order EXCEPT !.pc = "record"]
           /\ UNCHANGED judged
  <2>1. learned[c] \in [changes : Nat, rules : Nat, undone : Nat]
    BY <1>3 DEF RolTyped
  <2>2. PICK m \in Nat : m = learned[c].changes + 1
    BY <2>1
  <2> DEFINE l == [learned[c] EXCEPT !.changes = m]
  <2>3. /\ l \in [changes : Nat, rules : Nat, undone : Nat] /\ l.changes = learned[c].changes + 1
        /\ l.rules = learned[c].rules /\ l.undone = learned[c].undone
    BY <2>1, <2>2
  <2>4. learned' = [learned EXCEPT ![c] = l]
    BY <1>2, <1>3, <1>4, <2>2 DEF Rol!Remember, RolTyped
  <2> HIDE DEF l
  <2>5. /\ learned' \in [Proposals -> [changes : Nat, rules : Nat, undone : Nat]] /\ learned'[c] = l
        /\ \A p \in Proposals : p # c => learned'[p] = learned[p]
    BY <1>3, <2>3, <2>4 DEF RolTyped
  <2>6. /\ order' \in Batches /\ order'.pc = "record" /\ order'.queue = order.queue /\ order'.begun = order.begun
        /\ order'.ended = order.ended
    BY <1>3, <1>4 DEF RolTyped, Batches, Stages
  <2>7. RolTyped'
    BY <1>1, <1>2, <1>3, <1>4, <2>5, <2>6 DEF RolTyped
  <2>8. InBatch'
    BY <1>1, <1>3, <2>6 DEF InBatch, Distinct
  <2>9. Book(c)'
    <3>1. Book(c) /\ c \in applied'
      BY <1>2, <1>3, <1>4
    <3>2. /\ learned[c].changes \in Nat /\ learned[c].rules \in Nat /\ learned[c].undone \in Nat
      BY <2>1
    <3>3. learned[c].undone <= learned[c].changes
      BY <3>1, <3>2 DEF Book
    <3>4. QED
      BY <1>1, <1>4, <2>3, <2>5, <3>1, <3>2, <3>3 DEF Book
  <2>10. ASSUME NEW p \in Proposals, p # c PROVE Book(p)'
    BY <1>1, <1>2, <1>3, <1>4, <2>5, <2>10 DEF Book
  <2>11. Behind'
    <3>1. learned[c].rules < learned[c].changes + 1
      BY <1>3, <2>1 DEF Book
    <3>2. QED
      BY <1>2, <2>3, <2>5, <2>6, <3>1 DEF Behind
  <2>12. BatchGoes'
    BY <1>1, <1>3, <1>4, <2>6 DEF BatchGoes, Ended
  <2>13. \A p \in Proposals : Book(p)'
    BY <2>9, <2>10
  <2>14. Rol!BooksKept'
    BY <2>13 DEF Book, Rol!BooksKept
  <2>15. QED
    BY <2>7, <2>8, <2>11, <2>12, <2>14 DEF RolInv
<1>5. CASE Rol!Return("failed") /\ UNCHANGED <<learned, applied>>
  <2>1. /\ order' \in Batches /\ judged' \in [Proposals -> Verdicts] /\ InBatch' /\ BatchGoes'
        /\ order'.pc \in {"idle", "change"} /\ judged'[c] = "failed"
        /\ \A p \in Proposals : p # c => judged'[p] = judged[p]
    BY <1>1, <1>2, <1>5, ReturnKeeps
  <2>2. RolTyped'
    BY <1>1, <1>3, <1>5, <2>1 DEF RolTyped
  <2>3. Behind'
    BY <2>1 DEF Behind
  <2>4. ASSUME NEW p \in Proposals PROVE Book(p)'
    <3>1. Book(p) /\ (judged'[p] = "applied" => judged[p] = "applied")
      BY <1>3, <2>1
    <3>2. QED
      BY <1>1, <1>5, <3>1 DEF Book
  <2>5. Rol!BooksKept'
    BY <2>4 DEF Book, Rol!BooksKept
  <2>6. QED
    BY <2>1, <2>2, <2>3, <2>5 DEF RolInv
<1>6. QED
  BY <1>4, <1>5 DEF Rol!Apply

\* The row of a proposal is written, or not.
LEMMA RowKeeps == ASSUME RolInv, Rol!Record PROVE RolInv'
<1>1. /\ order.pc = "record" /\ order' = [order EXCEPT !.pc = "feed"]
      /\ UNCHANGED <<learned, applied, judged, given>>
  BY DEF Rol!Record, Rol!At
<1>2. PICK c \in Proposals : c = Rol!Current /\ c = order.queue[1]
  BY <1>1, CurrentIs
<1>3. RolTyped /\ InBatch /\ Behind /\ BatchGoes /\ \A p \in Proposals : Book(p)
  BY BooksOfAll DEF RolInv
<1>4. /\ order' \in Batches /\ order'.pc = "feed" /\ order'.queue = order.queue /\ order'.begun = order.begun
      /\ order'.ended = order.ended
  BY <1>1, <1>3 DEF RolTyped, Batches, Stages
<1>5. learned[c].rules < learned[c].changes
  BY <1>1, <1>2, <1>3 DEF Behind
<1>6. /\ marked' \in [Proposals -> [applied : BOOLEAN, undone : BOOLEAN]]
      /\ \A p \in Proposals : marked'[p].undone = marked[p].undone
      /\ \A p \in Proposals : p # c => marked'[p] = marked[p]
  <2>1. CASE marked' = marked
    BY <1>3, <2>1 DEF RolTyped
  <2>2. CASE marked' = [marked EXCEPT ![c].applied = TRUE]
    BY <1>3, <2>2 DEF RolTyped
  <2>3. QED
    BY <1>2, <2>1, <2>2 DEF Rol!Record
<1>7. RolTyped'
  BY <1>1, <1>3, <1>4, <1>6 DEF RolTyped
<1>8. InBatch'
  BY <1>1, <1>3, <1>4 DEF InBatch, Distinct
<1>9. Behind'
  BY <1>1, <1>2, <1>4, <1>5 DEF Behind
<1>10. BatchGoes'
  BY <1>1, <1>3, <1>4 DEF BatchGoes, Ended
<1>11. ASSUME NEW p \in Proposals PROVE Book(p)'
  <2>1. learned[c].changes > 0
    BY <1>5, Counters
  <2>2. CASE p = c
    BY <1>1, <1>3, <1>6, <2>1, <2>2, Zenon DEF Book
  <2>3. CASE p # c
    BY <1>1, <1>3, <1>6, <2>3 DEF Book
  <2>4. QED
    BY <2>2, <2>3
<1>12. Rol!BooksKept'
  BY <1>11 DEF Book, Rol!BooksKept
<1>13. QED
  BY <1>7, <1>8, <1>9, <1>10, <1>12 DEF RolInv

\* A rule is made of it, or that fails.
LEMMA FeedBackKeeps == ASSUME RolInv, Rol!FeedBack PROVE RolInv'
<1>1. order.pc = "feed" /\ UNCHANGED <<marked, applied, given>>
  BY DEF Rol!FeedBack, Rol!At
<1>2. PICK c \in Proposals : c = Rol!Current /\ c = order.queue[1]
  BY <1>1, CurrentIs
<1>3. RolTyped /\ InBatch /\ Behind /\ BatchGoes /\ \A p \in Proposals : Book(p)
  BY BooksOfAll DEF RolInv
<1>4. /\ learned[c] \in [changes : Nat, rules : Nat, undone : Nat] /\ learned[c].rules < learned[c].changes
  BY <1>1, <1>2, <1>3 DEF RolTyped, Behind
<1>5. PICK status \in {"applied", "failed"} :
         /\ Rol!Return(status)
         /\ \/ status = "applied" /\ Rol!Remember("rules")
            \/ status = "failed" /\ UNCHANGED learned
  BY DEF Rol!FeedBack
<1>6. /\ order' \in Batches /\ judged' \in [Proposals -> Verdicts] /\ InBatch' /\ BatchGoes'
      /\ order'.pc \in {"idle", "change"} /\ judged'[c] = status
      /\ \A p \in Proposals : p # c => judged'[p] = judged[p]
  BY <1>1, <1>2, <1>5, ReturnKeeps
<1>7. /\ learned' \in [Proposals -> [changes : Nat, rules : Nat, undone : Nat]]
      /\ learned'[c].changes = learned[c].changes /\ learned'[c].undone = learned[c].undone
      /\ learned'[c].rules <= learned[c].changes /\ (status = "applied" => learned'[c].rules > 0)
      /\ \A p \in Proposals : p # c => learned'[p] = learned[p]
  <2>1. CASE learned' = learned /\ status = "failed"
    BY <1>3, <1>4, <2>1 DEF RolTyped
  <2>2. CASE Rol!Remember("rules") /\ status = "applied"
    <3>1. PICK m \in Nat : m = learned[c].rules + 1
      BY <1>4
    <3> DEFINE l == [learned[c] EXCEPT !.rules = m]
    <3>2. /\ l \in [changes : Nat, rules : Nat, undone : Nat] /\ l.changes = learned[c].changes
          /\ l.rules = m /\ l.undone = learned[c].undone
      BY <1>4, <3>1
    <3>3. learned' = [learned EXCEPT ![c] = l]
      BY <1>2, <1>3, <2>2, <3>1 DEF Rol!Remember, RolTyped
    <3>4. m <= learned[c].changes /\ m > 0
      BY <1>4, <3>1
    <3> HIDE DEF l
    <3>5. QED
      BY <1>3, <3>2, <3>3, <3>4 DEF RolTyped
  <2>3. QED
    BY <1>5, <2>1, <2>2
<1>8. RolTyped'
  BY <1>1, <1>3, <1>6, <1>7 DEF RolTyped
<1>9. Behind'
  BY <1>6 DEF Behind
<1>10. ASSUME NEW p \in Proposals PROVE Book(p)'
  <2>1. Book(p)
    BY <1>3
  <2>2. CASE p = c
    BY <1>1, <1>6, <1>7, <2>1, <2>2 DEF Book
  <2>3. CASE p # c
    BY <1>1, <1>6, <1>7, <2>1, <2>3 DEF Book
  <2>4. QED
    BY <2>2, <2>3
<1>11. Rol!BooksKept'
  BY <1>10 DEF Book, Rol!BooksKept
<1>12. QED
  BY <1>6, <1>8, <1>9, <1>11 DEF RolInv

\* A rollback begins: the row says so, or nothing does.
LEMMA UndoKeeps == ASSUME Rol!RollbacksAssumption, RolInv, Rol!Undo PROVE RolInv'
<1>1. /\ order.pc = "idle" /\ given < MaxOrders /\ given' = given + 1 /\ UNCHANGED <<learned, applied, judged>>
  BY DEF Rol!Undo, Rol!At
<1>2. RolTyped /\ InBatch /\ Behind /\ BatchGoes /\ \A p \in Proposals : Book(p)
  BY BooksOfAll DEF RolInv
<1>3. given' \in Nat /\ given' <= MaxOrders
  BY <1>1, <1>2 DEF RolTyped, Rol!RollbacksAssumption
<1>4. PICK c \in applied : \/ /\ marked' = [marked EXCEPT ![c].undone = TRUE]
                              /\ order' = [Rol!Idle EXCEPT !.pc = "undo", !.queue = <<c>>]
                           \/ UNCHANGED <<marked, order>>
  BY DEF Rol!Undo
<1>5. c \in Proposals
  BY <1>2 DEF RolTyped
<1>6. CASE UNCHANGED <<marked, order>>
  <2>1. RolTyped' /\ InBatch' /\ Behind' /\ BatchGoes'
    BY <1>1, <1>2, <1>3, <1>6 DEF RolTyped, InBatch, Distinct, Behind, BatchGoes, Ended
  <2>2. Rol!BooksKept'
    BY <1>1, <1>6 DEF RolInv, Rol!BooksKept
  <2>3. QED
    BY <2>1, <2>2 DEF RolInv
<1>7. CASE /\ marked' = [marked EXCEPT ![c].undone = TRUE]
           /\ order' = [Rol!Idle EXCEPT !.pc = "undo", !.queue = <<c>>]
  <2>1. /\ marked' \in [Proposals -> [applied : BOOLEAN, undone : BOOLEAN]] /\ marked'[c].undone
        /\ \A p \in Proposals : marked'[p].applied = marked[p].applied
        /\ \A p \in Proposals : p # c => marked'[p].undone = marked[p].undone
    BY <1>2, <1>5, <1>7 DEF RolTyped
  <2>2. order' = [pc |-> "undo", queue |-> <<c>>, begun |-> <<>>, ended |-> FALSE]
    BY <1>7 DEF Rol!Idle
  <2>3. <<c>> \in Seq(Proposals) /\ <<c>> # <<>> /\ <<c>>[1] = c
    BY <1>5
  <2>4. PICK q \in Seq(Proposals) : q = <<c>>
    BY <2>3
  <2>5. order' \in Batches /\ order'.pc = "undo" /\ order'.queue = q /\ order'.begun = <<>> /\ q # <<>> /\ q[1] = c
    BY <2>2, <2>3, <2>4 DEF Batches, Stages
  <2>6. RolTyped'
    BY <1>1, <1>2, <1>3, <2>1, <2>5 DEF RolTyped
  <2>7. InBatch' /\ Behind' /\ BatchGoes'
    BY <1>1, <2>1, <2>5 DEF InBatch, Behind, BatchGoes
  <2>8. ASSUME NEW p \in Proposals PROVE Book(p)'
    <3>1. Book(p) /\ (p = c => p \in applied)
      BY <1>2
    <3>2. CASE p = c
      <4>1. learned[p].changes > 0
        BY <3>1, <3>2 DEF Book
      <4>2. QED
        BY <1>1, <2>1, <3>1, <3>2, <4>1, Zenon DEF Book
    <3>3. CASE p # c
      BY <1>1, <2>1, <3>1, <3>3, Zenon DEF Book
    <3>4. QED
      BY <3>2, <3>3
  <2>9. Rol!BooksKept'
    BY <2>8 DEF Book, Rol!BooksKept
  <2>10. QED
    BY <2>6, <2>7, <2>9 DEF RolInv
<1>8. QED
  BY <1>4, <1>6, <1>7

\* The memory of a rollback is stored and it is forgotten, or neither.
LEMMA TellKeeps == ASSUME RolInv, Rol!Tell PROVE RolInv'
<1>1. order.pc = "undo" /\ order' = Rol!Idle /\ UNCHANGED <<marked, judged, given>>
  BY DEF Rol!Tell, Rol!At
<1>2. PICK c \in Proposals : c = Rol!Current /\ c = order.queue[1]
  BY <1>1, CurrentIs
<1>3. RolTyped /\ InBatch /\ Behind /\ BatchGoes /\ \A p \in Proposals : Book(p)
  BY BooksOfAll DEF RolInv
<1>4. /\ order' \in Batches /\ order'.pc = "idle" /\ order'.begun = <<>>
  BY <1>1 DEF Rol!Idle, Batches, Stages
<1>5. InBatch' /\ Behind' /\ BatchGoes'
  BY <1>4 DEF InBatch, Behind, BatchGoes
<1>6. CASE UNCHANGED <<learned, applied>>
  <2>1. RolTyped'
    BY <1>1, <1>3, <1>4, <1>6 DEF RolTyped
  <2>2. Rol!BooksKept'
    BY <1>1, <1>6 DEF RolInv, Rol!BooksKept
  <2>3. QED
    BY <1>5, <2>1, <2>2 DEF RolInv
<1>7. CASE Rol!Remember("undone") /\ applied' = applied \ {Rol!Current}
  <2>1. learned[c] \in [changes : Nat, rules : Nat, undone : Nat]
    BY <1>3 DEF RolTyped
  <2>2. PICK m \in Nat : m = learned[c].undone + 1
    BY <2>1
  <2> DEFINE l == [learned[c] EXCEPT !.undone = m]
  <2>3. /\ l \in [changes : Nat, rules : Nat, undone : Nat] /\ l.changes = learned[c].changes
        /\ l.rules = learned[c].rules /\ l.undone = learned[c].undone + 1
    BY <2>1, <2>2
  <2>4. learned' = [learned EXCEPT ![c] = l]
    BY <1>2, <1>3, <1>7, <2>2 DEF Rol!Remember, RolTyped
  <2> HIDE DEF l
  <2>5. /\ learned' \in [Proposals -> [changes : Nat, rules : Nat, undone : Nat]] /\ learned'[c] = l
        /\ \A p \in Proposals : p # c => learned'[p] = learned[p]
    BY <1>3, <2>3, <2>4 DEF RolTyped
  <2>6. RolTyped'
    BY <1>1, <1>3, <1>4, <1>7, <2>5 DEF RolTyped
  <2>7. ASSUME NEW p \in Proposals PROVE Book(p)'
    <3>1. Book(p) /\ c \in applied /\ marked[c].undone
      BY <1>1, <1>2, <1>3 DEF Behind
    <3>2. CASE p = c
      <4>1. c \notin applied' /\ c \in applied
        BY <1>2, <1>7, <3>1
      <4>2. learned[c].undone + 1 <= learned[c].changes /\ learned[c].changes > 0
        BY <3>1, <3>2 DEF Book
      <4>3. learned[c].changes \in Nat /\ learned[c].rules \in Nat /\ learned[c].undone \in Nat
        BY <2>1
      <4>4. QED
        BY <1>1, <2>3, <2>5, <3>1, <3>2, <4>1, <4>2, <4>3 DEF Book
    <3>3. CASE p # c
      <4>1. p \in applied' <=> p \in applied
        BY <1>2, <1>7, <3>3
      <4>2. QED
        BY <1>1, <2>5, <3>1, <3>3, <4>1 DEF Book
    <3>4. QED
      BY <3>2, <3>3
  <2>8. Rol!BooksKept'
    BY <2>7 DEF Book, Rol!BooksKept
  <2>9. QED
    BY <1>5, <2>6, <2>8 DEF RolInv
<1>8. QED
  BY <1>6, <1>7 DEF Rol!Tell

\* The process ends.
LEMMA EndKeeps == ASSUME RolInv, Rol!Crash PROVE RolInv'
<1>1. /\ order' = Rol!Idle /\ applied' = {} /\ judged' = [p \in Proposals |-> "none"]
      /\ UNCHANGED <<marked, learned, given>>
  BY DEF Rol!Crash
<1>2. RolTyped /\ \A p \in Proposals : Book(p)
  BY BooksOfAll DEF RolInv
<1>3. /\ order' \in Batches /\ order'.pc = "idle" /\ order'.begun = <<>>
  BY <1>1 DEF Rol!Idle, Batches, Stages
<1>4. RolTyped'
  BY <1>1, <1>2, <1>3 DEF RolTyped, Verdicts
<1>5. InBatch' /\ Behind' /\ BatchGoes'
  BY <1>3 DEF InBatch, Behind, BatchGoes
<1>6. ASSUME NEW p \in Proposals PROVE Book(p)'
  <2>1. Book(p) /\ learned[p] \in [changes : Nat, rules : Nat, undone : Nat] /\ p \notin applied'
    BY <1>1, <1>2 DEF RolTyped
  <2>2. learned[p].undone <= learned[p].changes
    BY <2>1 DEF Book
  <2>3. QED
    BY <1>1, <2>1, <2>2 DEF Book
<1>7. Rol!BooksKept'
  BY <1>6 DEF Book, Rol!BooksKept
<1>8. QED
  BY <1>4, <1>5, <1>7 DEF RolInv

\* Every step of the executor keeps the invariant.
LEMMA RolStep == ASSUME Rol!RollbacksAssumption, RolInv, [Rol!Next]_(Rol!vars) PROVE RolInv'
<1>1. CASE UNCHANGED Rol!vars
  BY <1>1 DEF Rol!vars, RolInv, RolTyped, InBatch, Distinct, Behind, BatchGoes, Ended, Rol!BooksKept
<1>2. QED
  BY <1>1, OrderKeeps, ChangeKeeps, RowKeeps, FeedBackKeeps, UndoKeeps, TellKeeps, EndKeeps DEF Rol!Next

\* It is about the books and the batches.
LEMMA RolMean == ASSUME RolInv PROVE Rol!RollbacksRight /\ Rol!TypeOK
<1>1. RolTyped /\ BatchGoes /\ Rol!BooksKept
  BY DEF RolInv
<1>2. order.begun \in Seq(Proposals) /\ order.pc \in Stages
  BY <1>1 DEF RolTyped, Batches
<1>3. PICK b \in Seq(Proposals) : b = order.begun
  BY <1>2
<1>4. DOMAIN b = 1..Len(b)
  OBVIOUS
<1>5. Rol!BatchStops
  BY <1>1, <1>3, <1>4 DEF Rol!BatchStops, BatchGoes, Ended, Rol!At
<1>6. Rol!TypeOK
  BY <1>1, <1>2 DEF Rol!TypeOK, RolTyped, Stages, Verdicts
<1>7. QED
  BY <1>1, <1>5, <1>6 DEF Rol!RollbacksRight

=============================================================================
