----------------------------- MODULE EmpireWork -----------------------------
(***************************************************************************)
(* The work of the empire: the tasks of its lieutenants, who is found for  *)
(* them, the waves and stages they come in, the war rooms and debates they *)
(* lead to; the graph and the memories they and others report to and ask,  *)
(* the paths and the times these are asked by, and what of them a task is  *)
(* shown; the evolution of prompts and what is applied of it, the          *)
(* deepening and the sweeps of research and the pages it reads; the        *)
(* commands of the god panel, and the migrations of the tables they all    *)
(* use.  What these hand to one another is abstracted in each of them (any *)
(* report, any proposal), so they share no variable, and each property is  *)
(* about one of them: a behaviour explores one part while the others rest. *)
(***************************************************************************)
EXTENDS Integers, Sequences, FiniteSets

CONSTANTS
    Workers, MaxIterations, MinQuality, Scores,
    Lts, Seasoned, Runners, Scheduler, MaxCycles,
    Threads, Names, Types, Reports, Floor, PruneBelow, DeleteUpTo, Penalty, MaxEntities,
    MaxRelations,
    Titles, Inputs,
    Orders, Servers, MaxCached,
    Operators, LastVersion, Resting, MaxMigrations,
    Deepeners, Pipelines, Subjects, Found, InCluster, MinCluster, MaxDepth, Fresh, Cooldown,
    MaxPasses,
    Hosts, Lieutenants, MaxRooms, MaxFleet,
    Skippable, MaxWaves,
    Debaters, MaxRounds, Positions,
    Readers, MaxFailures,
    MaxFinds,
    Nodes, Foreign, Links, Origin, Goal, Depths, MaxWrites,
    Topics, Containing, Validities, Grades, Moments, HowMany, CapFactor, TimelineLimit, MaxFacts,
    Tiers, Shapes, Wanted, Budget, MaxMemories, Tellers, Entities, MaxTold,
    Proposals, HighRisk, MaxOrders, MaxChanges,
    Crew, Jobs, Match, Grade, Hands, Home, MaxTasks, MaxMoves, MaxClasses

VARIABLES
    part,
    pc, job, answers, verdicts, logged, lost, row, copy, importance, counted, overlapped,
    backend, rows, cycles, recent, runner, prompts, failed, overlap, cut,
    entities, relations, at, dirty, known,
    listed, remaining, degree, waves, wave, outcome, tries,
    commands, caches,
    store, versions, built, tool, started, torn,
    zoned, nodes, digger, passes, passed, taken,
    fleet, notes, rooms, minutes, lessons, opened, changed,
    config, stage, told, results, planned, done, remembered, spent,
    debate, current,
    cached, stored, reader, failures,
    sweep, source, left, looking, kept, skipped,
    living, links, ever, writes, walk,
    facts, answer,
    shown, window, quiet, access, teller, tellings, clashed,
    marked, learned, applied, order, judged, given,
    staff, hand, tally, school, learnt

Tsk == INSTANCE Tasks
Evo == INSTANCE Evolution
Kno == INSTANCE Knowledge
Wav == INSTANCE Waves
Com == INSTANCE Commands
Mig == INSTANCE Migrations
Dee == INSTANCE Deepening
War == INSTANCE WarRooms
Sta == INSTANCE Stages
Deb == INSTANCE Debates
Pag == INSTANCE Pages
Swe == INSTANCE Sweeps
Tra == INSTANCE Traversals
Tem == INSTANCE Temporal
Con == INSTANCE Contexts
Rol == INSTANCE Rollbacks
Fle == INSTANCE Fleets

ASSUME WorkAssumption ==
    /\ Tsk!TasksAssumption /\ Evo!EvolutionAssumption /\ Kno!KnowledgeAssumption
    /\ Wav!WavesAssumption /\ Com!CommandsAssumption /\ Mig!MigrationsAssumption
    /\ Dee!DeepeningAssumption
    /\ War!WarRoomsAssumption
    /\ Sta!StagesAssumption
    /\ Deb!DebatesAssumption
    /\ Pag!PagesAssumption
    /\ Swe!SweepsAssumption
    /\ Tra!TraversalsAssumption
    /\ Tem!TemporalAssumption
    /\ Con!ContextsAssumption
    /\ Rol!RollbacksAssumption
    /\ Fle!FleetsAssumption

tasks == <<pc, job, answers, verdicts, logged, lost, row, copy, importance, counted, overlapped>>
evolution == <<backend, rows, cycles, recent, runner, prompts, failed, overlap, cut>>
knowledge == <<entities, relations, at, dirty, known>>
inWaves == <<listed, remaining, degree, waves, wave, outcome, tries>>
panel == <<commands, caches>>
schema == <<store, versions, built, tool, started, torn>>
topics == <<zoned, nodes, digger, passes, passed, taken>>
meeting == <<fleet, notes, rooms, minutes, lessons, opened, changed>>
directive == <<config, stage, told, results, planned, done, remembered, spent>>
debating == <<debate, current>>
reading == <<cached, stored, reader, failures>>
sweeping == <<sweep, source, left, looking, kept, skipped>>
traversal == <<living, links, ever, writes, walk>>
recalling == <<facts, answer>>
telling == <<shown, window, quiet, access, teller, tellings, clashed>>
applying == <<marked, learned, applied, order, judged, given>>
deploying == <<staff, hand, tally, school, learnt>>
vars == <<part, tasks, evolution, knowledge, inWaves, panel, schema, topics, meeting,
          directive, debating, reading, sweeping, traversal, recalling, telling, applying,
          deploying>>

\* Of the parts that rest, one initial state is enough.
Init ==
    /\ part \in {"tasks", "evolution", "knowledge", "waves", "panel", "schema", "topics",
                "rooms", "stages", "debates", "pages", "sweeps", "traversals", "times", "contexts",
                "rollbacks", "fleets"}
    /\ Tsk!Init /\ Kno!Init /\ Com!Init /\ Deb!Init /\ Pag!Init /\ Swe!Init /\ Tem!Init
    /\ Rol!Init
    /\ Con!Init /\ (part # "contexts" => shown = <<>>)
    /\ Fle!Init /\ (part # "fleets" => ~learnt.lite)
    /\ Evo!Init /\ (part # "evolution" => backend = "sqlite")
    /\ Wav!Init /\ (part # "waves" => listed = CHOOSE input \in Inputs : TRUE)
    /\ Mig!Init /\ (part # "schema" => store = "sqlite")
    /\ Dee!Init /\ (part # "topics" => ~zoned)
    /\ War!Init /\ (part # "rooms" => \A l \in Lieutenants : fleet[l] = "none")
    /\ Tra!Init /\ (part # "traversals" => links = {}
                                           /\ walk = Tra!Walk("path", CHOOSE d \in Depths : TRUE))
    /\ Sta!Init /\ (part # "stages" => told = 0 /\ config.skip = {} /\ config.off = {}
                                       /\ config.complete /\ config.assigned)

\* The parts other than p rest.
Rest(p) ==
    /\ IF p = "tasks" THEN TRUE ELSE UNCHANGED tasks
    /\ IF p = "evolution" THEN TRUE ELSE UNCHANGED evolution
    /\ IF p = "knowledge" THEN TRUE ELSE UNCHANGED knowledge
    /\ IF p = "waves" THEN TRUE ELSE UNCHANGED inWaves
    /\ IF p = "panel" THEN TRUE ELSE UNCHANGED panel
    /\ IF p = "schema" THEN TRUE ELSE UNCHANGED schema
    /\ IF p = "topics" THEN TRUE ELSE UNCHANGED topics
    /\ IF p = "rooms" THEN TRUE ELSE UNCHANGED meeting
    /\ IF p = "stages" THEN TRUE ELSE UNCHANGED directive
    /\ IF p = "debates" THEN TRUE ELSE UNCHANGED debating
    /\ IF p = "pages" THEN TRUE ELSE UNCHANGED reading
    /\ IF p = "sweeps" THEN TRUE ELSE UNCHANGED sweeping
    /\ IF p = "traversals" THEN TRUE ELSE UNCHANGED traversal
    /\ IF p = "times" THEN TRUE ELSE UNCHANGED recalling
    /\ IF p = "contexts" THEN TRUE ELSE UNCHANGED telling
    /\ IF p = "rollbacks" THEN TRUE ELSE UNCHANGED applying
    /\ IF p = "fleets" THEN TRUE ELSE UNCHANGED deploying

Next ==
    /\ UNCHANGED part
    /\ \/ part = "tasks" /\ Tsk!Next
       \/ part = "evolution" /\ Evo!Next
       \/ part = "knowledge" /\ Kno!Next
       \/ part = "waves" /\ Wav!Next
       \/ part = "panel" /\ Com!Next
       \/ part = "schema" /\ Mig!Next
       \/ part = "topics" /\ Dee!Next
       \/ part = "rooms" /\ War!Next
       \/ part = "stages" /\ Sta!Next
       \/ part = "debates" /\ Deb!Next
       \/ part = "pages" /\ Pag!Next
       \/ part = "sweeps" /\ Swe!Next
       \/ part = "traversals" /\ Tra!Next
       \/ part = "times" /\ Tem!Next
       \/ part = "contexts" /\ Con!Next
       \/ part = "rollbacks" /\ Rol!Next
       \/ part = "fleets" /\ Fle!Next
    /\ Rest(part)

Spec == Init /\ [][Next]_vars

-----------------------------------------------------------------------------

\* The parts are well typed; in particular every relation is between entities
\* that are there (see Knowledge).
WorkTypeOK ==
    /\ part = "tasks" => Tsk!TypeOK
    /\ part = "evolution" => Evo!TypeOK
    /\ part = "knowledge" => Kno!TypeOK
    /\ part = "waves" => Wav!TypeOK
    /\ part = "panel" => Com!TypeOK
    /\ part = "schema" => Mig!TypeOK
    /\ part = "topics" => Dee!TypeOK
    /\ part = "rooms" => War!TypeOK
    /\ part = "stages" => Sta!TypeOK
    /\ part = "debates" => Deb!TypeOK
    /\ part = "pages" => Pag!TypeOK
    /\ part = "sweeps" => Swe!TypeOK
    /\ part = "traversals" => Tra!TypeOK
    /\ part = "times" => Tem!TypeOK
    /\ part = "contexts" => Con!TypeOK
    /\ part = "rollbacks" => Rol!TypeOK
    /\ part = "fleets" => Fle!TypeOK

\* A task succeeds only with the text that the last verdict accepted (see Tasks).
AcceptedWasJudged == part = "tasks" => Tsk!AcceptedWasJudged

\* The budget log covers the tasks' costs, and the lieutenant's row each task
\* whose update did not overlap another, once (see Tasks).
BooksAgree == part = "tasks" => Tsk!BooksAgree

\* Verdicts are written to the proposals they are about, and prompt histories
\* name the prompt that was replaced, unless a cycle failed in part, was cut
\* short or overlapped another; an interrupted cycle keeps the scheduler from all
\* further ones (see Evolution).
\* Of what is applied and rolled back, books are kept (see Rollbacks).
EvolutionTraced ==
    /\ [](part = "evolution" => Evo!WrittenAsRead)
    /\ Evo!InterruptedBlocks
    /\ [](part = "rollbacks" => Rol!RollbacksRight)

\* What the graph acknowledged it still knows, unless that was weakened or deleted
\* since; only what was weak is deleted, by prune only what had no relation, as
\* far as the deleter could know (see Knowledge).  What it says of topics keeps them
\* from being deepened again soon (see Deepening).
\* The entries of feeds that are marked as seen were stored (see Pages).
GraphKept ==
    /\ [](part = "knowledge" => Kno!ReportsStick)
    /\ Kno!DeletedWasWeak
    /\ Dee!NotAgainSoon
    /\ [](part = "pages" => Pag!PagesKept)

\* Tasks are planned into the waves their dependencies ask for, and executed after
\* those (see Waves).
\* The stages of a directive are told as they went (see Stages).
\* Lieutenants that match alike share the work, and what they did and learned is
\* counted (see Fleets).
\* Paths and neighbourhoods are the graph's while nobody writes it (see Traversals).
\* What is asked of the memory by time, or put into a task's context, is the best of
\* what is stored (see Temporal, Contexts).
AnswersRight ==
    /\ part = "waves" => Wav!PlanRight /\ Wav!PlannersAgree /\ Wav!DependenciesFirst
    /\ part = "stages" => Sta!StagesTrue
    /\ part = "fleets" => Fle!FleetsRight
    /\ part = "traversals" => Tra!TraversalsRight
    /\ part = "times" => Tem!TemporalRight
    /\ part = "contexts" => Con!ContextsRight

\* Polls tell a command's progress, never back, and its row how it ended, unless a
\* write failed or was cut off (see Commands).
\* What a war room leaves tells who was heard in it and what it cost, and nothing is left
\* of the lieutenants that were deleted (see WarRooms).
\* Debates end in the round they say, with the consensus of those that spoke (see Debates).
\* The numbers of a sweep tell what it found and stored (see Sweeps).
CommandsTold ==
    /\ [](part = "panel" => Com!RowsTrue)
    /\ Com!ToldForward
    /\ [](part = "rooms" => War!RoomsKept)
    /\ [](part = "debates" => Deb!DebatesEnd)
    /\ [](part = "sweeps" => Swe!SweepsTold)

\* The schema is what the current versions make, unless a way back was cut off or
\* not alone, and no version comes back (see Migrations).
SchemaKept ==
    /\ [](part = "schema" => Mig!SchemaAsRecorded)
    /\ Mig!BackForGood

=============================================================================
