\* Two API requests for one permit, and a request that executes by itself, on one
\* directive with a wave of two tasks or two waves of one.
SPECIFICATION FairSpec
CONSTANTS
    Directives = {d1}
    Background = {b1, b2}
    Foreground = {f1}
    Tasks = {"x", "y"}
    Plans <- SmallPlans
    MaxConcurrent = 1
    Parallel = 2
    Faults = {"thread", "run", "cancel", "row"}
    MaxRuns = 2
    MaxCrashes = 1
INVARIANTS TypeOK PermitsAccounted NeverStranded WavesInOrder WavesRecorded
PROPERTIES Settles
\* The bound on executions stops every behaviour.
CHECK_DEADLOCK FALSE
