\* Two workers of one lieutenant, two runners of cycles over two lieutenants, two threads at
\* a graph of two entities of one name, three tasks to be planned into waves, two commands
\* given to two web workers, two runners of three migrations, and a cycle and a pipeline
\* that deepen two topics about the same two entities.
SPECIFICATION Spec
CONSTANTS
    Workers = {one, two}
    MaxIterations = 2
    MinQuality = 60
    Scores = {50, 70}
    Lts = 2
    Seasoned = {2}
    Runners = {sched, panel}
    Scheduler = sched
    MaxCycles = 2
    Threads = {one, two}
    Names = {"n"}
    Types = {"a", "b"}
    Reports = {2, 3}
    Floor = 1
    PruneBelow = 2
    DeleteUpTo = 2
    Penalty = 2
    MaxEntities = 2
    MaxRelations = 1
    Titles = {"a", "b", "c"}
    Inputs <- Plans
    Orders = {one, two}
    Servers = {one, two}
    MaxCached = 1
    Operators = {one, two}
    LastVersion = 3
    Resting = {2}
    MaxMigrations = 4
    Deepeners = {sched}
    Pipelines = {panel}
    Subjects = {"a", "b"}
    Found = {"e", "f"}
    InCluster <- AnyInAny
    MinCluster = 2
    MaxDepth = 2
    Fresh = 2
    Cooldown = 1
    MaxPasses = 2
    Hosts = {sched}
    Lieutenants = {"p", "q"}
    MaxRooms = 1
    MaxFleet = 2
    Skippable = {"planning", "review", "retrospective"}
    MaxWaves = 2
    Debaters <- Debating
    MaxRounds = 3
    Positions = {"for"}
    Readers = {one, two}
    MaxFailures = 1
    MaxFinds = 1
    Nodes = {"a", "b", "c", "d"}
    Foreign = {"d"}
    Links <- Drawn
    Origin = "a"
    Goal = "b"
    Depths = {1, 2}
    MaxWrites = 1
    Topics = {"x", "xy"}
    Containing <- ByPart
    Validities <- AlwaysOrOnce
    Grades = {1, 2}
    Moments = {2}
    HowMany = {1}
    CapFactor = 2
    TimelineLimit = 3
    MaxFacts = 3
    Tiers <- FactsAndEpisodes
    Shapes <- ThreeShapes
    Wanted = 2
    Budget = 2
    MaxMemories = 4
    Tellers = {t1, t2}
    Entities = {"e", "f"}
    MaxTold = 2
    Proposals = {"p", "q"}
    HighRisk = {"p"}
    MaxOrders = 3
    MaxChanges = 2
    Crew = {one, two}
    Jobs = {"j"}
    Match <- MatchAlike
    Grade <- GradedAlike
    Hands = {one, two}
    Home <- OneHome
    MaxTasks = 3
    MaxMoves = 1
    MaxClasses = 1
SYMMETRY Symmetry
INVARIANTS WorkTypeOK AcceptedWasJudged BooksAgree 
PROPERTIES EvolutionTraced   SchemaKept
\* Bounded numbers of tasks, cycles, entities, commands and migrations stop every behaviour.
CHECK_DEADLOCK FALSE
