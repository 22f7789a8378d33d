\* A directive that is cancelled while it is executed.
SPECIFICATION Spec
CONSTANTS
    Directives = {d1}
    Background = {b1}
    Foreground = {}
    Tasks = {"x", "y"}
    Plans <- SmallPlans
    MaxConcurrent = 1
    Parallel = 2
    Faults = {}
    MaxRuns = 1
    MaxCrashes = 0
PROPERTIES CancelSticks
\* The bound on executions stops every behaviour.
CHECK_DEADLOCK FALSE
