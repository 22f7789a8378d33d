\* Two callers of a server that is connected twice at most, a cycle beside gap
\* research, two tasks, and two clients of a cheap and a costly endpoint;
\* two threads that share a provider's client, and two that share a router of three models.
SPECIFICATION Spec
CONSTANTS
    Callers = {c1, c2}
    MaxClients = 2
    MaxRequests = 4
    Error = error
    Cyclers = {cycler}
    Gappers = {gapper}
    DayLimit = 2
    MonthLimit = 3
    Earlier = {0, 2}
    Reserve = 2
    CycleLimit = 1
    Gaps = 1
    Questions = 2
    Scrapes = 1
    Domains = 1
    Rounds = 2
    PerRound = 2
    Researchers = {r1, r2}
    MaxRows = 2
    Clients = {u1, u2}
    Endpoints = {"cheap", "costly"}
    Rpm <- CheapAndCostlyRpm
    Rph <- CheapAndCostlyRph
    Minute = 2
    Hour = 4
    EvictEvery = 2
    MaxTracked = 1
    Askers = {a1, a2}
    PerMinute = 2
    Window = 2
    MaxAttempts = 2
    MaxAnswers = 4
    Requesters = {a1, a2}
    Catalog <- ThreeModels
    Kinds <- ThreeKinds
    LastResort = "anthropic"
    Bench = 2
    Checkers = {c1}
    Narrow = TRUE
    MaxWorldChanges = 2
    Strongest = 5
    FirstModels = {0, 3}
    MaxRetries = 4
    EscalateAfter = 2
    JumpFrom = 3
    Told = 2
    MaxRuns = 2
    StageLists <- ThreePipelines
    Marks = {2, 5, 7}
    Gates = {"content_length", "source_citation", "overall_score", "hallucination"}
    GateNeeds <- SevenOfTen
    MinMark = 6
    MaxTries = 2
INVARIANTS ServicesTypeOK  
PROPERTIES IsRemoteCalls 
\* Bounded numbers of requests and rows stop a behaviour.
CHECK_DEADLOCK FALSE
