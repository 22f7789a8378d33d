-------------------------------- MODULE Stages --------------------------------
(***************************************************************************)
(* DirectivePipeline of src/core/directives/pipeline.py: the stages of a   *)
(* directive one after the other, each with its result and its stage in    *)
(* the directive's row, while get_status tells others from that row how    *)
(* far it is.  What a stage spends is known only if it ends well; what its *)
(* engines swallow (warroom/retrospective.py, warroom/synthesis.py) is a   *)
(* stage that ends well.  Hooks are left out: their errors are swallowed.  *)
(***************************************************************************)
EXTENDS Integers, Sequences, SequencesExt

CONSTANTS
    Skippable,     \* stages that a configuration may skip or switch off
    MaxWaves       \* bound on the waves of a plan

StagesAssumption == MaxWaves \in Nat \ {0}

VARIABLES
    config,      \* what is skipped, what is switched off, whether it can be taken in
    stage,       \* the stage that is run, as an index
    told,        \* the stage in the row, as an index; 0 for one of the other managers
    results,     \* the StageResults
    planned,     \* waves of the plan; what the executor finds in the context
    done,        \* waves executed
    remembered,  \* whether the lessons were stored: "no", "some", "all"
    spent        \* what the stages have spent in fact

vars == <<config, stage, told, results, planned, done, remembered, spent>>

StageNames == <<"intake", "planning", "execution", "review", "retrospective", "delivery">>
SwitchedOff == {"planning", "review", "retrospective"}
Result(success, skipped, cost) ==
    [stage |-> stage, success |-> success, skipped |-> skipped, cost |-> cost]

Init ==
    /\ \E skip \in SUBSET Skippable, off \in SUBSET (Skippable \cap SwitchedOff) :
          \E complete, assigned \in BOOLEAN :
             config = [skip |-> skip, off |-> off, complete |-> complete, assigned |-> assigned]
    /\ stage = 1 /\ told \in {0, Len(StageNames)} /\ results = <<>>    \* told by an earlier run
    /\ planned = 0 /\ done = 0 /\ remembered = "no" /\ spent = 0

-----------------------------------------------------------------------------

Running == stage \in DOMAIN StageNames
At(name) == Running /\ StageNames[stage] = name /\ name \notin config.skip

\* run: the directive is not there
NotFound ==
    /\ stage = 1 /\ results = <<>>
    /\ results' = <<Result(FALSE, FALSE, 0)>> /\ stage' = Len(StageNames) + 1
    /\ UNCHANGED <<config, told, planned, done, remembered, spent>>

\* run: what is to be skipped has a result and no stage in the row.
Skip ==
    /\ Running /\ StageNames[stage] \in config.skip
    /\ results' = Append(results, Result(TRUE, TRUE, 0)) /\ stage' = stage + 1
    /\ UNCHANGED <<config, told, planned, done, remembered, spent>>

\* The result of a stage, then its name in the row.  If that is not written, a result that
\* failed follows the first one.
Record(r) ==
    \/ /\ results' = Append(results, r) /\ told' = stage
       /\ stage' = IF r.success THEN stage + 1 ELSE Len(StageNames) + 1
    \/ /\ results' = results \o <<r, Result(FALSE, FALSE, 0)>> /\ stage' = Len(StageNames) + 1
       /\ UNCHANGED told

\* A mutant: a stage that failed is followed by the next one.
RecordAndGoOn(r) ==
    results' = Append(results, r) /\ told' = stage /\ stage' = stage + 1

Failed(c) == Record(Result(FALSE, FALSE, 0)) /\ spent' = spent + c
Ended(c) == Record(Result(TRUE, FALSE, c)) /\ spent' = spent + c

\* _stage_intake
Intake ==
    /\ At("intake")
    /\ IF config.complete THEN Ended(0) ELSE Failed(0)
    /\ UNCHANGED <<config, planned, done, remembered>>

SwitchedOffStage ==
    /\ Running /\ StageNames[stage] \in config.off \ config.skip
    /\ Record(Result(TRUE, TRUE, 0))
    /\ UNCHANGED <<config, planned, done, remembered, spent>>

\* _stage_planning: a war room; what it spent before it raised is not told.
Planning ==
    /\ At("planning") /\ "planning" \notin config.off
    /\ \/ \E c \in {0, 1}, k \in 0..MaxWaves : Ended(c) /\ planned' = k
       \/ \E c \in {0, 1} : Failed(c) /\ UNCHANGED planned
    /\ UNCHANGED <<config, done, remembered>>

\* _stage_execution: without a plan a single wave, of the directive itself.
PlannedWaves == IF planned = 0 THEN 1 ELSE planned

Execution ==
    /\ At("execution")
    /\ \/ Ended(PlannedWaves) /\ done' = PlannedWaves
       \/ \E k \in 0..PlannedWaves : Failed(k) /\ done' = k
    /\ UNCHANGED <<config, planned, remembered>>

\* _stage_review reads the results of the waves.
Review ==
    /\ At("review") /\ "review" \notin config.off
    /\ Ended(0)
    /\ UNCHANGED <<config, planned, done, remembered>>

\* _stage_retrospective: run_retrospective never raises, feed_back_to_memory may, after
\* it has stored some of the lessons for some of the lieutenants.
Retrospective ==
    /\ At("retrospective") /\ "retrospective" \notin config.off
    /\ \E c \in {0, 1} :
          IF ~config.assigned THEN Ended(c) /\ UNCHANGED remembered
          ELSE \/ Ended(c) /\ remembered' = "all"
               \/ Failed(c) /\ remembered' \in {"no", "some"}
    /\ UNCHANGED <<config, planned, done>>

\* _stage_delivery: create_executive_summary never raises.
Delivery ==
    /\ At("delivery")
    /\ \E c \in {0, 1} : Ended(c)
    /\ UNCHANGED <<config, planned, done, remembered>>

\* The manager of directives writes stages of its own to the row.
Other == Running /\ told' = 0
         /\ UNCHANGED <<config, stage, results, planned, done, remembered, spent>>

Next ==
    \/ NotFound \/ Skip \/ SwitchedOffStage \/ Other
    \/ Intake \/ Planning \/ Execution \/ Review \/ Retrospective \/ Delivery

Spec == Init /\ [][Next]_vars

-----------------------------------------------------------------------------

TypeOK ==
    /\ stage \in 1..(Len(StageNames) + 1) /\ told \in 0..Len(StageNames)
    /\ Len(results) <= Len(StageNames) + 1

Over == ~Running

\* run and get_status
Success == \A i \in DOMAIN results : results[i].success \/ results[i].skipped
Completed == 1..(told - 1)

\* Once the row's stage is of this run, what the status calls completed has a result that
\* is not a failure; no stage follows one that failed, and a run succeeds only with a
\* result for each (pipeline.py:173).
StatusTrue ==
    /\ (\E i \in DOMAIN results : results[i].stage = told) =>
          \A k \in Completed : \E i \in DOMAIN results :
              results[i].stage = k /\ (results[i].success \/ results[i].skipped)
    /\ \A i, j \in DOMAIN results : ~results[i].success => results[j].stage <= results[i].stage
    /\ Over /\ Success => Len(results) = Len(StageNames)

\* The costs of the results are what was spent, unless a stage failed.
CostsTold ==
    LET total == FoldLeft(LAMBDA n, r : n + r.cost, 0, results) IN
    /\ total <= spent
    /\ Success => total = spent

StagesTrue == StatusTrue /\ CostsTold

=============================================================================
