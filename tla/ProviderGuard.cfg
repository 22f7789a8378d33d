\* Two callers in any traffic; no bound is needed.
SPECIFICATION FairSpec
CONSTANTS
    Callers = {"c1", "c2"}
    Outage = 1
    FailureThreshold = 2
    SuccessThreshold = 2
    Timeout = 2
    HalfOpenMax = 2
INVARIANTS TypeOK CountersAgree
PROPERTIES ClosesOnEvidence StaysOpen PatientRecovers
