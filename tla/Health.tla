-------------------------------- MODULE Health --------------------------------
(***************************************************************************)
(* The health checks of src/core/scheduler/health.py: eight checks, one    *)
(* after the other, while what they look at changes; the verdict on all of *)
(* them; and their rows.  The scheduler, the web, the god panel and the    *)
(* command line run them, each on its own.  Warnings are verdicts of       *)
(* healthy here as there, and no check says "unknown".  What is written on *)
(* a row is left out but for its length.                                   *)
(***************************************************************************)
EXTENDS Naturals, Sequences

CONSTANTS
    Checkers,      \* runs of the checks
    Narrow,        \* whether the database takes no message longer than its column (PostgreSQL)
    MaxWorldChanges

HealthAssumption == Narrow \in BOOLEAN /\ MaxWorldChanges \in Nat

VARIABLES
    world,         \* reachable: the database; circuit; over: budget; staffed: active lieutenants; full: disk
    troubles,      \* changes of it so far
    checkup,       \* each run: verdicts so far, overall verdict; always, ever: what was bad
    records        \* rows of each run

vars == <<world, troubles, checkup, records>>

\* run_all_checks
Checks == <<"database", "redis", "circuits", "budget", "lieutenants", "memory", "graph", "disk">>

\* "elapsed": open, and its timeout is over; whoever looks moves it to "half_open".
Circuits == {"closed", "open", "elapsed", "half_open"}

Bad(w) ==
    {s \in {"database", "circuits", "budget", "lieutenants", "disk"} :
        \/ s = "database" /\ ~w.reachable
        \/ s = "circuits" /\ w.circuit = "open"
        \/ s = "budget" /\ w.over
        \/ s = "lieutenants" /\ ~w.staffed
        \/ s = "disk" /\ w.full}

Started(w) == [verdicts |-> <<>>, overall |-> "none", always |-> Bad(w), ever |-> Bad(w)]

Init ==
    /\ world \in [reachable : BOOLEAN, circuit : {"closed", "open"}, over : BOOLEAN,
                  staffed : BOOLEAN, full : {FALSE}]
    /\ troubles = 0 /\ checkup = [c \in Checkers |-> Started(world)]
    /\ records = [c \in Checkers |-> <<>>]

-----------------------------------------------------------------------------

\* check_*: "failed" is unhealthy with the error for a message. A missing cache is only a
\* warning; the sums of the budget are 0 if their queries fail; the queries of the fleet and
\* the statistics of memory and graph are not caught before the check is.
DatabaseSeen == IF world.reachable THEN "healthy" ELSE "unhealthy"
RedisSeen == "healthy"
CircuitsSeen == IF world.circuit = "open" THEN "unhealthy" ELSE "healthy"
BudgetSeen == IF world.reachable /\ world.over THEN "unhealthy" ELSE "healthy"
FleetSeen == IF ~world.reachable THEN "failed" ELSE IF world.staffed THEN "healthy" ELSE "unhealthy"
MemorySeen == IF world.reachable THEN "healthy" ELSE "failed"
GraphSeen == IF world.reachable THEN "healthy" ELSE "failed"
DiskSeen == IF world.full THEN "unhealthy" ELSE "healthy"

Verdict(name) ==
    CASE name = "database" -> DatabaseSeen  [] name = "redis" -> RedisSeen
      [] name = "circuits" -> CircuitsSeen  [] name = "budget" -> BudgetSeen
      [] name = "lieutenants" -> FleetSeen  [] name = "memory" -> MemorySeen
      [] name = "graph" -> GraphSeen        [] name = "disk" -> DiskSeen

Upcoming(c) == Checks[Len(checkup[c].verdicts) + 1]

\* The state of a circuit is looked at, which is what lets a test request through.
Look(name) ==
    world' = IF name = "circuits" /\ world.circuit = "elapsed" THEN [world EXCEPT !.circuit = "half_open"]
             ELSE world

Check(c) ==
    /\ Len(checkup[c].verdicts) < Len(Checks)
    /\ checkup' = [checkup EXCEPT ![c].verdicts = Append(@, Verdict(Upcoming(c)))]
    /\ Look(Upcoming(c)) /\ UNCHANGED <<troubles, records>>

Overall(verdicts) ==
    IF \A i \in DOMAIN verdicts : verdicts[i] = "healthy" THEN "healthy" ELSE "unhealthy"

SomeFailed(verdicts) == \E i \in DOMAIN verdicts : verdicts[i] = "failed"

\* A mutant: each row is committed, up to the first that is refused.
StoreEach(c) ==
    records' = [records EXCEPT ![c] =
        LET v == checkup[c].verdicts IN
        IF ~world.reachable THEN <<>>
        ELSE IF Narrow /\ SomeFailed(v)
             THEN CHOOSE s \in {SubSeq(v, 1, n) : n \in 0..Len(v)} :
                     ~SomeFailed(s) /\ v[Len(s) + 1] = "failed"
        ELSE v]

\* _persist_checks: all rows in one transaction; what goes wrong is only logged.
Store(c) ==
    \/ world.reachable /\ records' = [records EXCEPT ![c] = checkup[c].verdicts]
    \/ /\ ~world.reachable \/ (Narrow /\ SomeFailed(checkup[c].verdicts))
       /\ UNCHANGED records

Persist(c) ==
    /\ Len(checkup[c].verdicts) = Len(Checks) /\ checkup[c].overall = "none"
    /\ checkup' = [checkup EXCEPT ![c].overall = Overall(checkup[c].verdicts)]
    /\ Store(c) /\ UNCHANGED <<world, troubles>>

\* Circuits open after failures, time passes, and tests succeed or fail; all else changes at will.
Moves(s) == CASE s = "closed" -> {"open"} [] s = "open" -> {"elapsed"} [] s = "elapsed" -> {}
              [] s = "half_open" -> {"open", "closed"}

Change ==
    /\ troubles < MaxWorldChanges /\ troubles' = troubles + 1
    /\ \/ world' = [world EXCEPT !.reachable = ~@]
       \/ world' = [world EXCEPT !.over = ~@]
       \/ world' = [world EXCEPT !.staffed = ~@]
       \/ world' = [world EXCEPT !.full = ~@]
       \/ \E s \in Moves(world.circuit) : world' = [world EXCEPT !.circuit = s]
    /\ checkup' = [c \in Checkers |->
                    IF checkup[c].overall # "none" THEN checkup[c]
                    ELSE [checkup[c] EXCEPT !.always = @ \cap Bad(world'), !.ever = @ \cup Bad(world')]]
    /\ UNCHANGED records

Next == Change \/ \E c \in Checkers : Check(c) \/ Persist(c)

Spec == Init /\ [][Next]_vars

-----------------------------------------------------------------------------

TypeOK ==
    /\ world.circuit \in Circuits /\ troubles \in 0..MaxWorldChanges
    /\ \A c \in Checkers : /\ Len(checkup[c].verdicts) <= Len(Checks)
                           /\ checkup[c].overall \in {"none", "healthy", "unhealthy"}

\* A report finds what was wrong all along, but not a budget whose sums could not be
\* read when it was looked at (budget.py:331), and finds nothing if nothing ever was.
\* Two bad states that take turns may both be missed.
VerdictRight ==
    \A c \in Checkers : LET k == checkup[c] IN
        /\ k.overall = "unhealthy" => k.ever # {}
        /\ k.overall = "healthy" => k.always \subseteq (IF "database" \in k.ever THEN {"budget"} ELSE {})

\* The rows of a report are the report or there are none; they are lost only if the database
\* was unreachable for a while (health.py:428).
RecordsRight ==
    \A c \in Checkers : LET k == checkup[c] IN
        /\ records[c] \in {<<>>, k.verdicts}
        /\ k.overall # "none" /\ "database" \notin k.ever => records[c] = k.verdicts

HealthRight == VerdictRight /\ RecordsRight

=============================================================================
