-------------------------------- MODULE Retries --------------------------------
(***************************************************************************)
(* The retry loop of src/core/retry/ralph_wiggum.py, which only tests use: *)
(* an attempt is told of the last errors, a stronger model is asked after  *)
(* the first attempts and the strongest at the end, and an error that will *)
(* not pass ends it.  One object runs task after task and counts.          *)
(*                                                                         *)
(* A model is its place on the ladder of escalation, 0 one that is not on  *)
(* it.  Costs are what attempts that returned charged, 1 each; a text of   *)
(* an error is its class; delays are left out.                             *)
(***************************************************************************)
EXTENDS Integers, Sequences, FiniteSets

CONSTANTS
    Strongest,       \* length of MODEL_ESCALATION (5)
    FirstModels,     \* models tasks begin with
    MaxRetries,      \* max_retries (5)
    EscalateAfter,   \* attempts by the first model (2)
    JumpFrom,        \* attempts before the strongest model is asked at once (4)
    Told,            \* errors the next attempt is told of (3)
    MaxRuns          \* bound on tasks

RetriesAssumption ==
    /\ {Strongest, MaxRetries} \subseteq Nat \ {0} /\ FirstModels \subseteq 0..Strongest
    /\ {EscalateAfter, JumpFrom, Told, MaxRuns} \subseteq Nat

VARIABLES
    attempts,     \* of the task in hand: model, how it ended, and what it was told of
    classes,      \* error_classes of the result
    charged,      \* total_cost of the result
    asking,       \* current_model
    ended,        \* "idle", "running", "success" or "failure"
    stats,        \* the object's counters
    runs          \* history: how many tasks were run, succeeded, and their attempts

result == <<attempts, classes, charged, asking>>
vars == <<attempts, classes, charged, asking, ended, stats, runs>>

Init ==
    /\ attempts = <<>> /\ classes = <<>> /\ charged = 0 /\ asking = 0 /\ ended = "idle"
    /\ stats = [retries |-> 0, late |-> 0, failures |-> 0, escalations |-> 0]
    /\ runs = [ended |-> 0, late |-> 0, failed |-> 0, attempts |-> 0, changes |-> 0]

-----------------------------------------------------------------------------

Start ==
    /\ ended # "running" /\ runs.ended < MaxRuns
    /\ ended' = "running" /\ asking' \in FirstModels
    /\ attempts' = <<>> /\ classes' = <<>> /\ charged' = 0
    /\ UNCHANGED <<stats, runs>>

Above(model) == IF model < Strongest THEN model + 1 ELSE Strongest

\* A mutant: one step up from the model the task began with.
StrongerThanFirst(model, n) ==
    IF n >= JumpFrom THEN Strongest
    ELSE Above(IF attempts = <<>> \/ attempts[1].model = 0 THEN 1 ELSE attempts[1].model)

\* _escalate_model: one step up, from the bottom if the model is not on the ladder
Stronger(model, n) ==
    IF n >= JumpFrom THEN Strongest ELSE Above(IF model = 0 THEN 1 ELSE model)

\* The model of the next attempt, when n came before
Escalated(n) == IF n >= EscalateAfter THEN Stronger(asking, n) ELSE asking

\* _classify_error. A text that is too poor and has no error counts as one that will pass.
Class(ending) ==
    CASE ending \in {"poor", "passing", "raised"} -> "transient"
      [] ending = "empty" -> "quality"
      [] ending \in {"permanent", "raised_permanent"} -> "permanent"

Raised == {"raised", "raised_permanent"}

\* _inject_error_context: the last of the errors so far
Errors(n) == {i \in 1..n : i > n - Told}

Changes == Cardinality({i \in 2..Len(attempts') : attempts'[i].model # attempts'[i - 1].model})

\* The loop is left: counters and history
Leave(end) ==
    /\ ended' = end
    /\ runs' = [ended |-> runs.ended + 1, attempts |-> runs.attempts + Len(attempts'),
                late |-> runs.late + (IF end = "success" /\ Len(attempts') > 1 THEN 1 ELSE 0),
                failed |-> runs.failed + (IF end = "failure" THEN 1 ELSE 0),
                changes |-> runs.changes + Changes]

Count(end, escalated) ==
    stats' = [retries |-> stats.retries + Len(attempts),
              late |-> stats.late + (IF end = "success" /\ attempts # <<>> THEN 1 ELSE 0),
              failures |-> stats.failures + (IF end = "failure" THEN 1 ELSE 0),
              escalations |-> stats.escalations + escalated]

\* One turn of the loop of execute_with_retry
Attempt ==
    /\ ended = "running"
    /\ LET n == Len(attempts)
           escalated == IF Escalated(n) # asking THEN 1 ELSE 0
       IN /\ asking' = Escalated(n)
          /\ \E ending \in {"good", "poor", "passing", "empty", "permanent"} \cup Raised :
             /\ attempts' = Append(attempts, [model |-> Escalated(n), ending |-> ending, told |-> Errors(n)])
             /\ charged' = charged + (IF ending \in Raised THEN 0 ELSE 1)
             /\ classes' = IF ending \in {"good"} \cup Raised THEN classes ELSE Append(classes, Class(ending))
             /\ \/ ending = "good" /\ Leave("success") /\ Count("success", escalated)
                \/ /\ ending # "good"
                   /\ Class(ending) = "permanent" \/ n + 1 = MaxRetries
                   /\ Leave("failure") /\ Count("failure", escalated)
                \/ /\ ending # "good" /\ Class(ending) # "permanent" /\ n + 1 < MaxRetries
                   /\ stats' = [stats EXCEPT !.escalations = @ + escalated]
                   /\ UNCHANGED <<ended, runs>>

Next == Start \/ Attempt

Spec == Init /\ [][Next]_vars

-----------------------------------------------------------------------------

TypeOK ==
    /\ Len(attempts) <= MaxRetries /\ asking \in 0..Strongest
    /\ ended \in {"idle", "running", "success", "failure"} /\ runs.ended <= MaxRuns

\* A task is tried until an attempt is good, an error will not pass or it was tried often
\* enough; once models change they get stronger, to the strongest at the end, though one
\* that is not on the ladder counts as the weakest (ralph_wiggum.py:263); and an
\* attempt is told of every error before it, or of the last few.
AttemptsRight ==
    LET last == attempts[Len(attempts)] IN
    /\ \A i \in DOMAIN attempts :
          /\ i < Len(attempts) => attempts[i].ending \notin {"good", "permanent", "raised_permanent"}
          /\ i <= EscalateAfter => attempts[i].model = attempts[1].model
          /\ i > 1 => /\ i - 1 \in attempts[i].told \/ Told = 0
                      /\ attempts[i].model >= attempts[i - 1].model
                      /\ i > EscalateAfter /\ attempts[i].model = attempts[i - 1].model
                            => attempts[i].model = Strongest
          /\ i <= Told + 1 => attempts[i].told = 1..(i - 1)
          /\ i > JumpFrom /\ JumpFrom >= EscalateAfter => attempts[i].model = Strongest
    /\ ended = "success" => last.ending = "good"
    /\ ended = "failure" => last.ending # "good"
                            /\ (Class(last.ending) = "permanent" \/ Len(attempts) = MaxRetries)

\* The counters are what happened, over all tasks that ended: but for the one in hand, whose
\* changes of the model are counted at once. If it changes before the first attempt, that
\* is counted too (ralph_wiggum.py:143).
CountersRight ==
    ended # "running" =>
        /\ stats.retries = runs.attempts - runs.ended
        /\ stats.late = runs.late /\ stats.failures = runs.failed
        /\ EscalateAfter > 0 => stats.escalations = runs.changes
        /\ charged = Cardinality({i \in DOMAIN attempts : attempts[i].ending \notin Raised})
        /\ Len(classes) = charged - (IF ended = "success" THEN 1 ELSE 0)

RetriesRight == AttemptsRight /\ CountersRight

=============================================================================
