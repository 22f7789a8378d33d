\* Two threads that store versions of one fact and compress, beside the scheduler.
SPECIFICATION Spec
CONSTANTS
    Threads = {t1, t2}
    Titles = {"x"}
    Full = 1
    MinCluster = 1
    MaxEntries = 3
INVARIANTS TypeOK ChainIsLinear SupersededByNewer ArchivedIsSummarized
