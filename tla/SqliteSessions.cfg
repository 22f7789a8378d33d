\* Every use of sessions by two threads.
SPECIFICATION Spec
CONSTANTS
    Threads = {t1, t2}
    NoOne = NoOne
SYMMETRY Symmetry
INVARIANTS TypeOK LockMatchesSessions SessionsCounted WritesSerialize
