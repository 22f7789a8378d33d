-------------------------------- MODULE Waves --------------------------------
(***************************************************************************)
(* WaveExecutor of src/core/directives/waves.py: tasks with dependencies   *)
(* are planned into waves, and the waves executed one after the other, a   *)
(* failed task being tried once more beside siblings that succeeded.  The  *)
(* tasks of a wave are in no particular order; tasks are known by title.   *)
(* The Planner of core/ace/planner.py gives them levels in another way.    *)
(***************************************************************************)
EXTENDS Integers, Sequences, FiniteSets, SequencesExt, Relation

CONSTANTS
    Titles,      \* titles of tasks
    Inputs       \* what is to be planned: sequences of [title, deps]

WavesAssumption ==
    \A input \in Inputs : \A i \in DOMAIN input :
        input[i].title \in Titles /\ IsFiniteSet(input[i].deps)

VARIABLES
    listed,      \* the input
    remaining,   \* titles in no wave yet
    degree,      \* in_degree: unresolved dependencies
    waves,       \* the plan: a sequence of sets of titles
    wave,        \* the wave that is executed, 0 while planning
    outcome,     \* of each title: "none", "succeeded", "failed"
    tries        \* how often each was executed

vars == <<listed, remaining, degree, waves, wave, outcome, tries>>

Known(input) == {input[i].title : i \in DOMAIN input}

\* A title that several tasks have stands for the last of them (task_titles), but
\* the dependencies of all of them count.
Edges(input) ==
    UNION {{<<i, d>> : d \in (input[i].deps \cap Known(input)) \ {input[i].title}} :
           i \in DOMAIN input}
InDegree(input) ==
    [t \in Titles |-> Cardinality({e \in Edges(input) : input[e[1]].title = t})]

Init ==
    /\ listed \in Inputs
    /\ remaining = Known(listed) /\ degree = InDegree(listed)
    /\ waves = <<>> /\ wave = 0
    /\ outcome = [t \in Titles |-> "none"] /\ tries = [t \in Titles |-> 0]

-----------------------------------------------------------------------------

\* A mutant: what one task of a wave waits for no longer holds another back.
FreeTooEarly == {t \in remaining : degree[t] <= 1}

\* The tasks without an unresolved dependency; in a circle, all that remain
Free == {t \in remaining : degree[t] = 0}
NextWave == IF Free = {} THEN remaining ELSE Free

\* plan_waves, one round of its loop
Plan ==
    /\ wave = 0 /\ remaining # {}
    /\ LET new == NextWave
           resolved(t) == Cardinality({e \in Edges(listed) : listed[e[1]].title = t /\ e[2] \in new})
       IN /\ waves' = Append(waves, new)
          /\ remaining' = remaining \ new
          /\ degree' = [t \in Titles |-> IF degree[t] < resolved(t) THEN 0
                                         ELSE degree[t] - resolved(t)]
    /\ UNCHANGED <<listed, wave, outcome, tries>>

\* Planner.identify_dependencies: one level of its sort.  "queue" may hold a title that
\* several tasks have as often, and resolves what waits for it each time.
Waiting(input, d) ==
    LET who == SelectSeq([i \in DOMAIN input |-> i], LAMBDA i : d \in input[i].deps)
    IN [k \in DOMAIN who |-> input[who[k]].title]

Sort(input, s) ==
    LET freed == FoldLeft(LAMBDA r, t :
                             [deg |-> [r.deg EXCEPT ![t] = @ - 1],
                              queue |-> IF r.deg[t] = 1 THEN Append(r.queue, t) ELSE r.queue],
                          [deg |-> s.deg, queue |-> <<>>],
                          FlattenSeq([k \in DOMAIN s.queue |-> Waiting(input, s.queue[k])]))
    IN [deg |-> freed.deg, queue |-> freed.queue, level |-> s.level + 1,
        levels |-> [t \in Titles |-> IF t \in ToSet(s.queue) THEN s.level ELSE s.levels[t]]]

\* What is not sorted has level 0.
Levels(input) ==
    LET deg == [t \in Titles |-> Cardinality({p \in (DOMAIN input) \X Known(input) :
                                    input[p[1]].title = t /\ p[2] \in input[p[1]].deps})]
        titled == [i \in DOMAIN input |-> input[i].title]
        sorted[n \in 0..Len(input)] ==
            IF n = 0 THEN [deg |-> deg, level |-> 0, levels |-> [t \in Titles |-> 0],
                           queue |-> SelectSeq(titled, LAMBDA t : deg[t] = 0)]
            ELSE Sort(input, sorted[n - 1])
    IN sorted[Len(input)].levels

\* execute_all_waves
StartWaves ==
    /\ wave = 0 /\ remaining = {} /\ waves # <<>>
    /\ wave' = 1
    /\ UNCHANGED <<listed, remaining, degree, waves, outcome, tries>>

Running == IF wave \in DOMAIN waves THEN waves[wave] ELSE {}
With(result) == {t \in Running : outcome[t] = result}

\* _execute_task; an exception, or no lieutenant, is a failure.
Execute(t) ==
    /\ t \in With("none")
    /\ \E result \in {"succeeded", "failed"} : outcome' = [outcome EXCEPT ![t] = result]
    /\ tries' = [tries EXCEPT ![t] = @ + 1]
    /\ UNCHANGED <<listed, remaining, degree, waves, wave>>

\* Who is tried again: once all were executed, and some succeeded at first.
Retriable ==
    IF With("none") = {} /\ \E t \in With("succeeded") : tries[t] = 1
    THEN {t \in With("failed") : tries[t] = 1} ELSE {}

\* _retry_with_siblings; only a success replaces the first result.
Retry(t) ==
    /\ t \in Retriable
    /\ \E result \in {"succeeded", "failed"} : outcome' = [outcome EXCEPT ![t] = result]
    /\ tries' = [tries EXCEPT ![t] = @ + 1]
    /\ UNCHANGED <<listed, remaining, degree, waves, wave>>

EndWave ==
    /\ wave \in DOMAIN waves /\ With("none") = {} /\ Retriable = {}
    /\ wave' = wave + 1
    /\ UNCHANGED <<listed, remaining, degree, waves, outcome, tries>>

Next == Plan \/ StartWaves \/ EndWave \/ \E t \in Titles : Execute(t) \/ Retry(t)

Spec == Init /\ [][Next]_vars

-----------------------------------------------------------------------------

TypeOK ==
    /\ remaining \subseteq Titles /\ degree \in [Titles -> Nat]
    /\ wave \in 0..(Len(waves) + 1)
    /\ \A t \in Titles : outcome[t] = "none" <=> tries[t] = 0

\* What each title waits for, and whether it waits for itself in the end.
Before(t) == UNION {listed[i].deps : i \in {j \in DOMAIN listed : listed[j].title = t}}
                 \cap (Known(listed) \ {t})
Needs == [p \in Titles \X Titles |-> p[1] \in Known(listed) /\ p[2] \in Before(p[1])]
Beyond(t) == LET closure == TransitiveClosure(Needs, Titles) IN
    {u \in Titles : closure[t, u]}
Circular(t) == \E u \in {t} \cup Beyond(t) : u \in Beyond(u)
WaveOf(t) == CHOOSE k \in DOMAIN waves : t \in waves[k]

\* The plan has each title in one wave; a task that depends on no circle is in the
\* wave after the last one it depends on, and everything else shares the last.
PlanRight ==
    /\ \A j, k \in DOMAIN waves : j # k => waves[j] \cap waves[k] = {}
    /\ remaining = {} =>
          /\ UNION {waves[k] : k \in DOMAIN waves} = Known(listed)
          /\ \A t \in Known(listed) :
                WaveOf(t) = IF Circular(t) THEN Len(waves)
                            ELSE 1 + FoldSet(LAMBDA u, m : IF WaveOf(u) > m THEN WaveOf(u) ELSE m,
                                             0, Before(t))

\* On titles that differ the planner agrees but for circles, which it puts first.
PlannersAgree ==
    remaining = {} /\ wave = 0 /\ Cardinality(Known(listed)) = Len(listed) =>
        \A t \in Known(listed) :
            Levels(listed)[t] = IF Circular(t) THEN 0 ELSE WaveOf(t) - 1

\* When a task is executed all it depends on has been, twice if that failed beside
\* a success, unless they wait for each other in a circle (waves.py:190).
DependenciesFirst ==
    \A t \in Titles : tries[t] > 0 /\ ~Circular(t) =>
        \A u \in Before(t) :
            /\ outcome[u] = "succeeded" \/ tries[u] = 2
                   \/ \A s \in waves[WaveOf(u)] : outcome[s] = "failed" \/ tries[s] = 2

=============================================================================
