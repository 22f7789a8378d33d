--------------------------- MODULE EmpireServices ---------------------------
(***************************************************************************)
(* What the empire does with the world outside: MCP servers, research, its *)
(* costs and the rows of its tasks, the models a request reaches, the      *)
(* limits on web clients and those a client of a provider puts on itself;  *)
(* what its scheduler's checks tell of it; and the retry loop and the      *)
(* pipelines that were written to ask models and that nothing calls yet.   *)
(* These share no variable, and each property is about one of them: a      *)
(* behaviour explores one part while the others rest.                      *)
(***************************************************************************)
EXTENDS Naturals, Sequences, FiniteSets

CONSTANTS
    Callers, MaxClients, MaxRequests, Error,
    Cyclers, Gappers, DayLimit, MonthLimit, Earlier, Reserve, CycleLimit,
    Gaps, Questions, Scrapes, Domains, Rounds, PerRound,
    Researchers, MaxRows,
    Clients, Endpoints, Rpm, Rph, Minute, Hour, EvictEvery, MaxTracked,
    Askers, PerMinute, Window, MaxAttempts, MaxAnswers,
    Requesters, Catalog, Kinds, LastResort, Bench,
    Checkers, Narrow, MaxWorldChanges,
    Strongest, FirstModels, MaxRetries, EscalateAfter, JumpFrom, Told, MaxRuns,
    StageLists, Marks, Gates, GateNeeds, MinMark, MaxTries

VARIABLES
    part,
    kind, clients, current, mapped, at, number, asked, results, gaveUp,
    today, before, doing, beyond, days,
    rows, steps,
    minutes, hours, tracked, evicted, granted,
    stamps, calling, answered, calls, shared,
    keyed, errors, request,
    world, troubles, checkup, records,
    attempts, classes, charged, asking, ended, stats, runs,
    making, step, context, report, review

Mcps == INSTANCE Mcp
Money == INSTANCE Research
Tasks == INSTANCE ResearchTasks
Limits == INSTANCE RateLimits
Own == INSTANCE ClientCalls
Rou == INSTANCE Routing
Hea == INSTANCE Health
Ret == INSTANCE Retries
Age == INSTANCE Agents

ASSUME ServicesAssumption ==
    /\ Mcps!McpAssumption /\ Money!ResearchAssumption
    /\ Tasks!RowsAssumption /\ Limits!RateAssumption /\ Own!ClientAssumption
    /\ Rou!RoutingAssumption
    /\ Hea!HealthAssumption
    /\ Ret!RetriesAssumption
    /\ Age!AgentsAssumption

mcp == <<kind, clients, current, mapped, at, number, asked, results, gaveUp>>
money == <<today, before, doing, beyond, days>>
tasks == <<rows, steps>>
limits == <<minutes, hours, tracked, evicted, granted>>
own == <<stamps, calling, answered, calls, shared>>
routes == <<keyed, errors, request>>
checking == <<world, troubles, checkup, records>>
retrying == <<attempts, classes, charged, asking, ended, stats, runs>>
crafting == <<making, step, context, report, review>>
vars == <<part, mcp, money, tasks, limits, own, routes, checking, retrying, crafting>>

Init ==
    /\ part \in {"mcp", "money", "tasks", "limits", "own", "routes", "checks", "retries", "agents"}
    /\ Tasks!Init /\ Limits!Init /\ Own!Init /\ Ret!Init
    /\ Hea!Init /\ (part # "checks" => world.reachable /\ world.staffed /\ ~world.over
                                      /\ world.circuit = "closed")
    /\ Age!Init /\ (part # "agents" => making = "pipeline"
                                      /\ context.stages = CHOOSE s \in StageLists : TRUE)
    /\ Mcps!Init /\ (part # "mcp" => kind = "stdio")
    /\ Money!Init /\ (part # "money" => before = 0)
    /\ Rou!Init /\ (part # "routes" => keyed = {LastResort})

Rest(p) ==
    /\ IF p = "mcp" THEN TRUE ELSE UNCHANGED mcp
    /\ IF p = "money" THEN TRUE ELSE UNCHANGED money
    /\ IF p = "tasks" THEN TRUE ELSE UNCHANGED tasks
    /\ IF p = "limits" THEN TRUE ELSE UNCHANGED limits
    /\ IF p = "own" THEN TRUE ELSE UNCHANGED own
    /\ IF p = "routes" THEN TRUE ELSE UNCHANGED routes
    /\ IF p = "checks" THEN TRUE ELSE UNCHANGED checking
    /\ IF p = "retries" THEN TRUE ELSE UNCHANGED retrying
    /\ IF p = "agents" THEN TRUE ELSE UNCHANGED crafting

Next ==
    /\ UNCHANGED part
    /\ \/ part = "mcp" /\ Mcps!Next
       \/ part = "money" /\ Money!Next
       \/ part = "tasks" /\ Tasks!Next
       \/ part = "limits" /\ Limits!Next
       \/ part = "own" /\ Own!Next
       \/ part = "routes" /\ Rou!Next
       \/ part = "checks" /\ Hea!Next
       \/ part = "retries" /\ Ret!Next
       \/ part = "agents" /\ Age!Next
    /\ Rest(part)

\* A part that rests has nothing to be fair to.
Fairness == Mcps!Fairness /\ Tasks!Fairness

Spec == Init /\ [][Next]_vars /\ Fairness

-----------------------------------------------------------------------------

\* The parts are well typed.
ServicesTypeOK ==
    /\ part = "mcp" => Mcps!TypeOK
    /\ part = "money" => Money!TypeOK
    /\ part = "tasks" => Tasks!TypeOK
    /\ part = "limits" => Limits!TypeOK
    /\ part = "own" => Own!TypeOK
    /\ part = "routes" => Rou!TypeOK
    /\ part = "checks" => Hea!TypeOK
    /\ part = "retries" => Ret!TypeOK
    /\ part = "agents" => Age!TypeOK

\* To its callers an MCP server is what RemoteCalls promises (see Mcp).
IsRemoteCalls == Mcps!IsRemoteCalls

\* Research spends no more than one admission once a limit is reached, and its
\* tasks are counted once, as what their rows say (see Research, ResearchTasks).
\* The verdict on the empire's health is the worst of what was seen (see Health).
\* A task that is tried again is tried by models as strong at least (see Retries).
\* A pipeline reports what its stages did, and a critic what it saw (see Agents).
AccountsRight ==
    /\ part = "money" => Money!OverspendBounded
    /\ part = "tasks" => Tasks!CountedOnce
    /\ part = "checks" => Hea!HealthRight
    /\ part = "retries" => Ret!RetriesRight
    /\ part = "agents" => Age!AgentsRight

\* No web client gets more than an endpoint's limits, and no provider is asked
\* more than its client's limit, by calls that do not overlap (see RateLimits,
\* ClientCalls).
WithinLimits ==
    /\ part = "limits" => Limits!WithinLimits
    /\ part = "own" => Own!LimitKept

\* A call of an MCP server ends, and leaves nothing but late answers and abandoned
\* events behind; a research task ends, whoever dies; and a request to the models is
\* given up last of all (see Mcp, ResearchTasks, Routing).
EverythingSettles ==
    /\ Mcps!CallsEnd /\ Tasks!RowsSettle
    /\ [](part = "mcp" => Mcps!OnlyLateAnswersStay)
    /\ [](part = "routes" => Rou!GivenUpLast)
    /\ Rou!BenchedStays

=============================================================================
