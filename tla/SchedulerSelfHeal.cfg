\* A job disabled by a ConfigError, across a restart of its process.
SPECIFICATION Spec
CONSTANTS
    Workers = {"a"}
    Cli = {}
    Loops = {"a_loop"}
    Requests = {"a_req"}
    NoThread = NoThread
    Owner <- OwnerOf
    JobSeq <- OneJob
    Expensive = {"autonomous_research"}
    Immediate = {}
    Interval = 1
    MaxConsecutive = 2
    Cooldown = 1
    Postgres = TRUE
    Faults = {}
    Outcomes = {"ok", "config"}
    MaxTime = 2
    MaxTicks = 3
    Limit <- OneCrash
PROPERTIES HardDisableSticks
\* The bounds on time, ticks and operations stop every behaviour.
CHECK_DEADLOCK FALSE
