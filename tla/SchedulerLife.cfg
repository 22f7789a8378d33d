\* One worker: killed and restarted, stopped and started, with an operator who forces,
\* pauses and resumes, and a database that loses rows.
SPECIFICATION Spec
CONSTANTS
    Workers = {"a"}
    Cli = {}
    Loops = {"a_loop", "a_loop2"}
    Requests = {"a_req"}
    NoThread = NoThread
    Owner <- OwnerOf
    JobSeq <- OneJob
    Expensive = {"autonomous_research"}
    Immediate = {}
    Interval = 1
    MaxConsecutive = 2
    Cooldown = 1
    Postgres = TRUE
    Faults = {"row_write"}
    Outcomes = {"ok", "other"}
    MaxTime = 2
    MaxTicks = 2
    Limit <- LifeBounds
INVARIANTS TypeOK ErrorBurstDisables LastRunHolds
PROPERTIES  WarmUp
\* The bounds on time, ticks and operations stop every behaviour.
CHECK_DEADLOCK FALSE
