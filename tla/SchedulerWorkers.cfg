\* A web worker with a loop and a request, and a `scheduler tick` command, on a
\* Postgres that fails to answer, to unlock and to keep its connections.
SPECIFICATION FairSpec
CONSTANTS
    Workers = {"a", "b"}
    Cli = {"b"}
    Loops = {"a_loop"}
    Requests = {"a_req", "b_req"}
    NoThread = NoThread
    Owner <- OwnerOf
    JobSeq <- CheapJob
    Expensive = {}
    Immediate = {"health_check"}
    Interval = 1
    MaxConsecutive = 1
    Cooldown = 1
    Postgres = TRUE
    Faults = {"load", "connection", "lock_query", "unlock"}
    Outcomes = {"ok", "transient", "config", "fatal"}
    MaxTime = 0
    MaxTicks = 2
    Limit <- WorkerBounds
INVARIANTS TickMutex
PROPERTIES LockComesBack
\* The bounds on time, ticks and operations stop every behaviour.
CHECK_DEADLOCK FALSE
