\* One caller who may come back while it is refused.
SPECIFICATION FairSpec
CONSTANTS
    Callers = {"c1"}
    Outage = 1
    FailureThreshold = 2
    SuccessThreshold = 2
    Timeout = 2
    HalfOpenMax = 5
PROPERTIES Recovers
