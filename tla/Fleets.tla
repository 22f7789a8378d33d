-------------------------------- MODULE Fleets --------------------------------
(***************************************************************************)
(* Who does the work: find_best_lieutenant of src/core/lieutenant/         *)
(* manager.py, asked by threads that each execute a task while others do   *)
(* and the fleet changes, and its learning cycles; and, beside them, the   *)
(* answers of the workload balancer of workload.py and of the registry of  *)
(* registry.py, which nothing asks.                                        *)
(*                                                                         *)
(* Scores are in hundredths, without rounding.  How well words match a     *)
(* description is given with the task.  No row ever says that a lieutenant *)
(* is busy: nothing calls set_current_task.                                *)
(***************************************************************************)
EXTENDS Integers, FiniteSets, FiniteSetsExt, SequencesExt

CONSTANTS
    Crew,           \* the lieutenants there may be
    Jobs,           \* kinds of tasks
    Match,          \* for each job, the points of each lieutenant for domain, specialties and type
    Grade,          \* the points of each for its performance
    Hands,          \* threads that execute tasks
    Home,           \* the empire of each
    MaxTasks,       \* bound on tasks
    MaxMoves,       \* bound on changes of the fleet
    MaxClasses      \* bound on learning cycles

FleetsAssumption ==
    /\ Match \in [Jobs -> [Crew -> 0..80]] /\ Grade \in [Crew -> 0..10]
    /\ {MaxTasks, MaxMoves, MaxClasses} \subseteq Nat /\ DOMAIN Home = Crew

VARIABLES
    staff,        \* the rows: status "none", "active" or "inactive", and finished tasks
    hand,         \* what each thread does: pc, its lieutenant, and the count it read
    tally,        \* tasks given, moves of the fleet; by lieutenant, tasks done, whether two at once
    school,       \* the learning cycle: pc, who is due, and the rows it has written
    learnt        \* whose last_learning_at is set; lessons each had, whose are lost; cycles, failed ones

vars == <<staff, hand, tally, school, learnt>>

Free == [pc |-> "idle", lt |-> {}, read |-> 0]
NoClass == [pc |-> "idle", due |-> {}, had |-> {}]

Init ==
    /\ staff = [l \in Crew |-> [status |-> "active", tasks |-> 0]]
    /\ hand = [h \in Hands |-> Free]
    /\ tally = [given |-> 0, moves |-> 0, done |-> [l \in Crew |-> 0], atOnce |-> {}]
    /\ school = NoClass
    /\ \E lite \in BOOLEAN :
          learnt = [lite |-> lite, set |-> {}, lessons |-> [l \in Crew |-> 0], lost |-> {},
                    failed |-> 0, classes |-> 0]

Active == {l \in Crew : staff[l].status = "active"}
Present(l) == staff[l].status # "none"

\* A learning cycle holds the rows it has written until it commits; on SQLite, all of them.
Locked(l) == IF learnt.lite THEN school.had # {} ELSE l \in school.had

-----------------------------------------------------------------------------
(* Tasks.                                                                  *)

Done == MapThenSumSet(LAMBDA l : staff[l].tasks, Active)

\* The score times the tasks of all, so that shares of the average are whole numbers: the
\* penalty of who has more than it, and the bonus of who has less than half of it
Score(job, l) ==
    LET n == Cardinality(Active)
        t == staff[l].tasks
        fit == Match[job][l] + Grade[l]
    IN IF Done = 0 THEN fit
       ELSE fit * Done - (IF t * n > Done THEN Min({40 * Done, 15 * (t * n - Done)}) ELSE 0)
                       + (IF 2 * t * n < Done THEN 15 * Done ELSE 0)

\* A mutant: the fittest, however much it has done
Fittest(job) == {l \in Active : \A m \in Active : Match[job][m] + Grade[m] <= Match[job][l] + Grade[l]}

\* find_best_lieutenant: the first of the best. Every score is above the one it begins with.
Best(job) == {l \in Active : \A m \in Active : Score(job, m) <= Score(job, l)}

\* _execute_task of a wave, which finds no one only in a fleet without active lieutenants; the
\* row of the best is read at once by get_lieutenant.
Find(h) ==
    /\ hand[h].pc = "idle" /\ tally.given < MaxTasks
    /\ \E job \in Jobs :
          \/ \E l \in Best(job) :
                /\ hand' = [hand EXCEPT ![h] = [pc |-> "works", lt |-> {l}, read |-> 0]]
                /\ tally' = [tally EXCEPT !.given = @ + 1,
                                !.atOnce = @ \cup UNION {{l} \cap hand[g].lt : g \in Hands}]
          \/ Active = {} /\ UNCHANGED hand /\ tally' = [tally EXCEPT !.given = @ + 1]
    /\ UNCHANGED <<staff, school, learnt>>

\* execute_task, at its end: the row is read,
Read(h) ==
    /\ hand[h].pc = "works"
    /\ \E l \in hand[h].lt :
          hand' = [hand EXCEPT ![h] = IF Present(l) THEN [@ EXCEPT !.pc = "counts", !.read = staff[l].tasks]
                                      ELSE Free]
    /\ UNCHANGED <<staff, tally, school, learnt>>

\* and written with one task more. An error is swallowed: the row is gone, or locked for too long.
Count(h) ==
    /\ hand[h].pc = "counts" /\ hand' = [hand EXCEPT ![h] = Free]
    /\ \E l \in hand[h].lt :
          IF Present(l) /\ ~Locked(l)
          THEN /\ staff' = [staff EXCEPT ![l].tasks = hand[h].read + 1]
               /\ tally' = [tally EXCEPT !.done[l] = @ + 1]
          ELSE UNCHANGED <<staff, tally>>
    /\ UNCHANGED <<school, learnt>>

\* activate_lieutenant, deactivate_lieutenant, delete_lieutenant
Move ==
    /\ tally.moves < MaxMoves /\ tally' = [tally EXCEPT !.moves = @ + 1]
    /\ \E l \in Crew, status \in {"none", "active", "inactive"} :
          /\ Present(l) /\ ~Locked(l) /\ status # staff[l].status
          /\ staff' = [staff EXCEPT ![l].status = status]
    /\ UNCHANGED <<hand, school, learnt>>

-----------------------------------------------------------------------------
(* Learning: one transaction around all the cycles.                        *)

\* run_all_learning_cycles: needs_learning
Convene ==
    /\ school.pc = "idle" /\ learnt.classes < MaxClasses
    /\ school' = [pc |-> "teach", due |-> Active \ learnt.set, had |-> {}]
    /\ learnt' = [learnt EXCEPT !.classes = @ + 1]
    /\ UNCHANGED <<staff, hand, tally>>

\* run_learning_cycle finds gaps and researches them, a task of its own, or finds none. What it
\* learns is stored in other sessions, whose errors are swallowed: on SQLite, all writes after the
\* first row the cycles have written. A row that has gone is passed over.
Teach ==
    /\ school.pc = "teach"
    /\ \E l \in school.due, gaps \in BOOLEAN :
          /\ school' = [school EXCEPT !.due = @ \ {l}, !.had = IF Present(l) THEN @ \cup {l} ELSE @]
          /\ IF Present(l) THEN learnt' = [learnt EXCEPT !.lessons[l] = @ + 1,
                                              !.lost = IF gaps /\ Locked(l) THEN @ \cup {l} ELSE @ \ {l}]
             ELSE UNCHANGED learnt
          /\ IF Present(l) /\ gaps /\ ~Locked(l)
             THEN /\ staff' = [staff EXCEPT ![l].tasks = @ + 1]
                  /\ tally' = [tally EXCEPT !.done[l] = @ + 1,
                                  !.atOnce = @ \cup UNION {{l} \cap hand[h].lt : h \in Hands}]
             ELSE UNCHANGED <<staff, tally>>
    /\ UNCHANGED hand

\* Anything else that raises ends them all, and what they marked is rolled back.
Break ==
    /\ school.pc = "teach" /\ school' = NoClass
    /\ learnt' = [learnt EXCEPT !.failed = @ + 1]
    /\ UNCHANGED <<staff, hand, tally>>

Dismiss ==
    /\ school.pc = "teach" /\ school.due = {} /\ school' = NoClass
    /\ learnt' = [learnt EXCEPT !.set = @ \cup school.had]
    /\ UNCHANGED <<staff, hand, tally>>

Next ==
    \/ \E h \in Hands : Find(h) \/ Read(h) \/ Count(h)
    \/ Move \/ Convene \/ Teach \/ Break \/ Dismiss

Spec == Init /\ [][Next]_vars

-----------------------------------------------------------------------------
(* The answers of the registry and of the balancer.                        *)

\* find_by_domain: by performance, in any order among equals
Ranked(entries) ==
    {order \in SetToAllKPermutations(entries) :
        Len(order) = Cardinality(entries)
        /\ \A i, j \in DOMAIN order : i < j => Grade[order[i]] >= Grade[order[j]]}

\* get_cross_empire_experts: each, unless another of its empire came before
Experts(order) == {order[i] : i \in {k \in DOMAIN order : \A j \in 1..(k - 1) : Home[order[j]] # Home[order[k]]}}

\* get_workload_state: five for each of today's tasks, up to half
Load(l) == Min({50, 5 * staff[l].tasks})

\* assign_task, in ten-thousandths: whom it may propose
Assigned(job) ==
    LET points(l) == Match[job][l] * 100 + Grade[l] * 250 + (100 - Load(l)) * 25
    IN {l \in Active : \A m \in Active : points(m) <= points(l)}

-----------------------------------------------------------------------------
(* Properties.                                                             *)

TypeOK ==
    /\ staff \in [Crew -> [status : {"none", "active", "inactive"}, tasks : 0..(MaxTasks + MaxClasses)]]
    /\ hand \in [Hands -> [pc : {"idle", "works", "counts"}, lt : SUBSET Crew, read : 0..(MaxTasks + MaxClasses)]]
    /\ \A h \in Hands : Cardinality(hand[h].lt) = (IF hand[h].pc = "idle" THEN 0 ELSE 1)
    /\ tally.given \in 0..MaxTasks /\ tally.moves \in 0..MaxMoves
    /\ school.pc \in {"idle", "teach"} /\ school.had \cup school.due \subseteq Crew
    /\ learnt.classes \in 0..MaxClasses /\ learnt.set \cup learnt.lost \subseteq Crew

Alike(l, m) == Grade[l] = Grade[m] /\ \A job \in Jobs : Match[job][l] = Match[job][m]

\* Work is counted once: no row counts more tasks than its lieutenant has done, and in a fleet
\* that stays as it is one counts less only after two threads worked for the same one at once
\* (execute_task reads the row and writes it back).
CountsExplained ==
    \A l \in Crew :
        /\ staff[l].tasks <= tally.done[l]
        /\ tally.moves = 0 /\ l \notin tally.atOnce => staff[l].tasks = tally.done[l]

\* Lieutenants that match alike share the work of a fleet of their own: one is at most as many
\* tasks ahead of another as threads decide at once (find_best_lieutenant sees only counted tasks).
WorkIsShared ==
    tally.moves = 0 /\ tally.atOnce = {} /\ learnt.classes = 0 /\ (\A l, m \in Crew : Alike(l, m))
        => \A l, m \in Crew : staff[l].tasks - staff[m].tasks <= Cardinality(Hands)

\* Who is marked as taught was taught, and only a failed cycle makes a lieutenant sit through
\* another; what it learned is not lost, or on SQLite, not what all of them learned
\* (run_all_learning_cycles marks all at its end, in the transaction that locks them out).
TaughtOnce ==
    /\ \A l \in Crew : learnt.lessons[l] <= learnt.failed + 1 /\ (l \in learnt.set => learnt.lessons[l] > 0)
    /\ IF learnt.lite THEN learnt.set # {} => ~(learnt.set \subseteq learnt.lost) ELSE learnt.lost = {}

\* Among any entries the experts are one of each empire, and none of its empire is better; the
\* balancer never proposes who is worse at all than another, and holds nobody for overloaded.
AdviceSound ==
    /\ \A entries \in SUBSET Crew : \A order \in Ranked(entries) :
          \A e \in {Home[l] : l \in entries} :
             \E l \in Experts(order) :
                /\ {m \in Experts(order) : Home[m] = e} = {l}
                /\ \A m \in entries : Home[m] = e => Grade[m] <= Grade[l]
    /\ \A job \in Jobs : \A l \in Assigned(job), m \in Active :
          Match[job][m] >= Match[job][l] /\ Grade[m] >= Grade[l] => Load(l) <= Load(m)
    /\ \A l \in Crew : Load(l) <= 80

FleetsRight == CountsExplained /\ WorkIsShared /\ TaughtOnce /\ AdviceSound

=============================================================================
