--------------------------- MODULE EmpireWorkProofs ---------------------------
(***************************************************************************)
(* Theorems about EmpireWork, from the inductive invariants of its parts   *)
(* in WorkProofs.  A part is the same module there and here, instantiated  *)
(* with the same variables; the lemmas called ...Same say so.              *)
(***************************************************************************)
EXTENDS EmpireWork, TLAPS

WP == INSTANCE WorkProofs

-----------------------------------------------------------------------------
(* Tasks.                                                                   *)

\* The tasks here are those of WorkProofs.
LEMMA TasksSame ==
    /\ Tsk!TasksAssumption <=> WP!Tsk!TasksAssumption
    /\ Tsk!Init <=> WP!Tsk!Init
    /\ [Tsk!Next]_(Tsk!vars) <=> [WP!Tsk!Next]_(WP!Tsk!vars)
    /\ Tsk!AcceptedWasJudged <=> WP!Tsk!AcceptedWasJudged
    /\ Tsk!BooksAgree <=> WP!Tsk!BooksAgree
    /\ Tsk!TypeOK <=> WP!Tsk!TypeOK
<1>1. Tsk!TasksAssumption <=> WP!Tsk!TasksAssumption
  BY DEF Tsk!TasksAssumption, WP!Tsk!TasksAssumption, Tsk!IsFiniteSet, WP!Tsk!IsFiniteSet
<1>2. Tsk!Init <=> WP!Tsk!Init
  BY DEF Tsk!Init, WP!Tsk!Init, Tsk!NewJob, WP!Tsk!NewJob, Tsk!None, WP!Tsk!None, Tsk!NoAnswers, WP!Tsk!NoAnswers, Tsk!NoVerdicts, WP!Tsk!NoVerdicts, Tsk!NoVerdict, WP!Tsk!NoVerdict, Tsk!Texts, WP!Tsk!Texts, Tsk!Plain, WP!Tsk!Plain
<1>3. Tsk!Next <=> WP!Tsk!Next
  BY DEF Tsk!Next, WP!Tsk!Next, Tsk!Step, WP!Tsk!Step,
     Tsk!Plan, WP!Tsk!Plan, Tsk!Run, WP!Tsk!Run, Tsk!Critic, WP!Tsk!Critic,
     Tsk!Feedback, WP!Tsk!Feedback, Tsk!ReadRow, WP!Tsk!ReadRow, Tsk!WriteRow, WP!Tsk!WriteRow,
     Tsk!Judge, WP!Tsk!Judge, Tsk!NewVerdicts, WP!Tsk!NewVerdicts, Tsk!Verdict, WP!Tsk!Verdict,
     Tsk!Reduced, WP!Tsk!Reduced, Tsk!Boost, WP!Tsk!Boost, Tsk!Clamp, WP!Tsk!Clamp,
     Tsk!Updated, WP!Tsk!Updated, Tsk!Prompt, WP!Tsk!Prompt, Tsk!Charge, WP!Tsk!Charge,
     Tsk!Free, WP!Tsk!Free, Tsk!Goto, WP!Tsk!Goto,
     Tsk!None, WP!Tsk!None, Tsk!NoAnswers, WP!Tsk!NoAnswers, Tsk!NoVerdicts, WP!Tsk!NoVerdicts, Tsk!NoVerdict, WP!Tsk!NoVerdict, Tsk!Texts, WP!Tsk!Texts, Tsk!Plain, WP!Tsk!Plain,
     Tsk!cache, WP!Tsk!cache, Tsk!books, WP!Tsk!books, Tsk!stats, WP!Tsk!stats
<1>4. Tsk!vars' = Tsk!vars <=> WP!Tsk!vars' = WP!Tsk!vars
  BY DEF Tsk!vars, WP!Tsk!vars, Tsk!work, WP!Tsk!work,
     Tsk!cache, WP!Tsk!cache, Tsk!books, WP!Tsk!books, Tsk!stats, WP!Tsk!stats
<1>5. Tsk!AcceptedWasJudged <=> WP!Tsk!AcceptedWasJudged
  BY DEF Tsk!AcceptedWasJudged, WP!Tsk!AcceptedWasJudged, Tsk!Reduced, WP!Tsk!Reduced
<1>6. Tsk!BooksAgree <=> WP!Tsk!BooksAgree
  BY DEF Tsk!BooksAgree, WP!Tsk!BooksAgree, Tsk!LogCoversCosts, WP!Tsk!LogCoversCosts, Tsk!RowExact, WP!Tsk!RowExact, Tsk!Cost, WP!Tsk!Cost, Tsk!Units, WP!Tsk!Units, Tsk!Cardinality, WP!Tsk!Cardinality
<1>7. Tsk!TypeOK <=> WP!Tsk!TypeOK
  BY DEF Tsk!TypeOK, WP!Tsk!TypeOK, Tsk!Texts, WP!Tsk!Texts, Tsk!Plain, WP!Tsk!Plain, Tsk!None, WP!Tsk!None
<1>8. QED
  BY <1>1, <1>2, <1>3, <1>4, <1>5, <1>6, <1>7

\* Of a step of the whole, the tasks make one of theirs or rest.
LEMMA TasksInNext == [Next]_vars => [Tsk!Next]_(Tsk!vars)
<1>1. tasks' = tasks => Tsk!vars' = Tsk!vars
  BY DEF tasks, Tsk!vars, Tsk!work, Tsk!cache, Tsk!books, Tsk!stats
<1>2. [Next]_vars => Tsk!Next \/ tasks' = tasks
  BY DEF Next, Rest, vars
<1>3. QED
  BY <1>1, <1>2

\* A task succeeds only with the text that the last verdict is about and accepted.
THEOREM TasksAcceptWhatWasJudged == Spec => []AcceptedWasJudged
<1>1. Init /\ WorkAssumption => WP!TasksInv
  BY TasksSame, WP!TasksStart DEF Init, WorkAssumption
<1>2. WP!TasksInv /\ [Next]_vars => WP!TasksInv'
  BY TasksSame, TasksInNext, WorkAssumption, WP!TasksStep DEF WorkAssumption
<1>3. WP!TasksInv => AcceptedWasJudged
  BY TasksSame, WorkAssumption, WP!TasksMean DEF WorkAssumption, AcceptedWasJudged
<1>4. QED
  BY <1>1, <1>2, <1>3, WorkAssumption, PTL DEF Spec

\* The budget log covers what the tasks cost, and the row counts each task that was alone once.
THEOREM TaskBooksAgree == Spec => []BooksAgree
<1>1. Init /\ WorkAssumption => WP!TasksInv
  BY TasksSame, WP!TasksStart DEF Init, WorkAssumption
<1>2. WP!TasksInv /\ [Next]_vars => WP!TasksInv'
  BY TasksSame, TasksInNext, WorkAssumption, WP!TasksStep DEF WorkAssumption
<1>3. WP!TasksInv => BooksAgree
  BY TasksSame, WorkAssumption, WP!TasksMean DEF WorkAssumption, BooksAgree
<1>4. QED
  BY <1>1, <1>2, <1>3, WorkAssumption, PTL DEF Spec

-----------------------------------------------------------------------------
(* Migrations of the schema.                                                *)

\* The migrations here are those of WorkProofs.
LEMMA MigrationsSame ==
    /\ Mig!MigrationsAssumption <=> WP!Mig!MigrationsAssumption
    /\ Mig!Init <=> WP!Mig!Init
    /\ [Mig!Next]_(Mig!vars) <=> [WP!Mig!Next]_(WP!Mig!vars)
    /\ Mig!SchemaAsRecorded <=> WP!Mig!SchemaAsRecorded
    /\ Mig!TypeOK <=> WP!Mig!TypeOK
    /\ Mig!All = WP!Mig!All
<1>1. Mig!MigrationsAssumption <=> WP!Mig!MigrationsAssumption
  BY DEF Mig!MigrationsAssumption, WP!Mig!MigrationsAssumption
<1>2. Mig!Init <=> WP!Mig!Init
  BY DEF Mig!Init, WP!Mig!Init, Mig!Unused, WP!Mig!Unused, Mig!All, WP!Mig!All
<1>3. Mig!Next <=> WP!Mig!Next
  BY DEF Mig!Next, WP!Mig!Next, Mig!InitDb, WP!Mig!InitDb, Mig!Build, WP!Mig!Build, Mig!Record,
     WP!Mig!Record, Mig!Apply, WP!Mig!Apply, Mig!Drop, WP!Mig!Drop, Mig!Undo, WP!Mig!Undo,
     Mig!RollBack, WP!Mig!RollBack, Mig!Interrupt, WP!Mig!Interrupt, Mig!Migrate,
     WP!Mig!Migrate, Mig!Rollback, WP!Mig!Rollback, Mig!Take, WP!Mig!Take, Mig!Busy,
     WP!Mig!Busy, Mig!Overlaps, WP!Mig!Overlaps, Mig!Applied, WP!Mig!Applied, Mig!Lowest,
     WP!Mig!Lowest, Mig!Highest, WP!Mig!Highest, Mig!Undone, WP!Mig!Undone, Mig!Done,
     WP!Mig!Done, Mig!Fail, WP!Mig!Fail, Mig!CanBuild, WP!Mig!CanBuild, Mig!Dropped,
     WP!Mig!Dropped, Mig!CanRecord, WP!Mig!CanRecord, Mig!Min, WP!Mig!Min, Mig!Max, WP!Mig!Max,
     Mig!Unused, WP!Mig!Unused, Mig!All, WP!Mig!All
<1>4. Mig!vars' = Mig!vars <=> WP!Mig!vars' = WP!Mig!vars
  BY DEF Mig!vars, WP!Mig!vars
<1>5. Mig!SchemaAsRecorded <=> WP!Mig!SchemaAsRecorded
  BY DEF Mig!SchemaAsRecorded, WP!Mig!SchemaAsRecorded, Mig!Applied, WP!Mig!Applied, Mig!All,
     WP!Mig!All, Mig!Undoing, WP!Mig!Undoing, Mig!Undone, WP!Mig!Undone, Mig!Highest,
     WP!Mig!Highest, Mig!Max, WP!Mig!Max
<1>6. Mig!TypeOK <=> WP!Mig!TypeOK
  BY DEF Mig!TypeOK, WP!Mig!TypeOK, Mig!All, WP!Mig!All, Mig!Busy, WP!Mig!Busy
<1>7. Mig!All = WP!Mig!All
  BY DEF Mig!All, WP!Mig!All
<1>8. QED
  BY <1>1, <1>2, <1>3, <1>4, <1>5, <1>6, <1>7

\* Of a step of the whole, the migrations make one of theirs or rest.
LEMMA MigrationsInNext == [Next]_vars => [Mig!Next]_(Mig!vars)
<1>1. schema' = schema => Mig!vars' = Mig!vars
  BY DEF schema, Mig!vars
<1>2. [Next]_vars => Mig!Next \/ schema' = schema
  BY DEF Next, Rest, vars
<1>3. QED
  BY <1>1, <1>2

\* The schema is what the current versions make, unless a way back was torn, and no version
\* that was rolled back comes back.
THEOREM SchemaIsKept == Spec => SchemaKept
<1>1. Init /\ WorkAssumption => WP!MigrationsInv
  BY MigrationsSame, WP!MigrationsStart DEF Init
<1>2. WP!MigrationsInv /\ [Next]_vars => WP!MigrationsInv'
  BY MigrationsSame, MigrationsInNext, WorkAssumption, WP!MigrationsStep DEF WorkAssumption
<1>3. WP!MigrationsInv => (part = "schema" => Mig!SchemaAsRecorded)
  BY MigrationsSame, WP!MigrationsMean
<1>4. WP!MigrationsInv /\ [Next]_vars =>
         [\A v \in Mig!All : versions[v] = "rolled_back" => versions'[v] = "rolled_back"]_(Mig!vars)
  BY MigrationsSame, MigrationsInNext, WP!BackStays
<1>5. QED
  BY <1>1, <1>2, <1>3, <1>4, WorkAssumption, PTL DEF Spec, SchemaKept, Mig!BackForGood

-----------------------------------------------------------------------------
(* Evolution cycles.                                                        *)

\* The evolution cycles here are those of WorkProofs.
LEMMA EvolutionSame ==
    /\ Evo!EvolutionAssumption <=> WP!Evo!EvolutionAssumption
    /\ Evo!Init <=> WP!Evo!Init
    /\ [Evo!Next]_(Evo!vars) <=> [WP!Evo!Next]_(WP!Evo!vars)
    /\ Evo!WrittenAsRead <=> WP!Evo!WrittenAsRead
    /\ Evo!TypeOK <=> WP!Evo!TypeOK
    /\ Evo!Interrupted <=> WP!Evo!Interrupted
    /\ Evo!Interrupted' <=> WP!Evo!Interrupted'
<1>1. Evo!EvolutionAssumption <=> WP!Evo!EvolutionAssumption
  BY DEF Evo!EvolutionAssumption, WP!Evo!EvolutionAssumption
<1>2. Evo!Init <=> WP!Evo!Init
  BY DEF Evo!Init, WP!Evo!Init, Evo!Nobody, WP!Evo!Nobody, Evo!First, WP!Evo!First
<1>3. Evo!Next <=> WP!Evo!Next
  BY DEF Evo!Next, WP!Evo!Next, Evo!Ask, WP!Evo!Ask, Evo!Cycle, WP!Evo!Cycle, Evo!Raise,
     WP!Evo!Raise, Evo!Crash, WP!Evo!Crash, Evo!CoolDown, WP!Evo!CoolDown, Evo!Begin,
     WP!Evo!Begin, Evo!Collect, WP!Evo!Collect, Evo!StartReviews, WP!Evo!StartReviews,
     Evo!Review, WP!Evo!Review, Evo!StartExecution, WP!Evo!StartExecution, Evo!Execute,
     WP!Evo!Execute, Evo!ReadPrompt, WP!Evo!ReadPrompt, Evo!ApplyPrompt, WP!Evo!ApplyPrompt,
     Evo!Complete, WP!Evo!Complete, Evo!Stop, WP!Evo!Stop, Evo!Advance, WP!Evo!Advance,
     Evo!Fails, WP!Evo!Fails, Evo!FirstPending, WP!Evo!FirstPending, Evo!Pending,
     WP!Evo!Pending, Evo!NextSeasoned, WP!Evo!NextSeasoned, Evo!Min, WP!Evo!Min,
     Evo!ShouldRun, WP!Evo!ShouldRun, Evo!Latest, WP!Evo!Latest, Evo!Active,
     WP!Evo!Active, Evo!Committed, WP!Evo!Committed, Evo!Locked, WP!Evo!Locked, Evo!At,
     WP!Evo!At, Evo!Nobody, WP!Evo!Nobody, Evo!First, WP!Evo!First, Evo!tables, WP!Evo!tables,
     Evo!ghosts, WP!Evo!ghosts
<1>4. Evo!vars' = Evo!vars <=> WP!Evo!vars' = WP!Evo!vars
  BY DEF Evo!vars, WP!Evo!vars, Evo!tables, WP!Evo!tables, Evo!ghosts, WP!Evo!ghosts
<1>5. Evo!WrittenAsRead <=> WP!Evo!WrittenAsRead
  BY DEF Evo!WrittenAsRead, WP!Evo!WrittenAsRead, Evo!OwnVerdict, WP!Evo!OwnVerdict,
     Evo!HistoryChains, WP!Evo!HistoryChains
<1>6. Evo!TypeOK <=> WP!Evo!TypeOK
  BY DEF Evo!TypeOK, WP!Evo!TypeOK, Evo!Committed, WP!Evo!Committed
<1>7. Evo!Interrupted <=> WP!Evo!Interrupted
  BY DEF Evo!Interrupted, WP!Evo!Interrupted, Evo!Active, WP!Evo!Active, Evo!Committed,
     WP!Evo!Committed
<1>8. Evo!Interrupted' <=> WP!Evo!Interrupted'
  BY DEF Evo!Interrupted, WP!Evo!Interrupted, Evo!Active, WP!Evo!Active, Evo!Committed,
     WP!Evo!Committed
<1>9. QED
  BY <1>1, <1>2, <1>3, <1>4, <1>5, <1>6, <1>7, <1>8

\* Of a step of the whole, the evolution makes one of its own or rests.
LEMMA EvolutionInNext == [Next]_vars => [Evo!Next]_(Evo!vars)
<1>1. evolution' = evolution => Evo!vars' = Evo!vars
  BY DEF evolution, Evo!tables, Evo!ghosts, Evo!vars
<1>2. [Next]_vars => Evo!Next \/ evolution' = evolution
  BY DEF Next, Rest, vars
<1>3. QED
  BY <1>1, <1>2

-----------------------------------------------------------------------------
(* The executor of proposals.                                               *)

\* The executor here is that of WorkProofs.
LEMMA RollbacksSame ==
    /\ Rol!RollbacksAssumption <=> WP!Rol!RollbacksAssumption
    /\ Rol!Init <=> WP!Rol!Init
    /\ [Rol!Next]_(Rol!vars) <=> [WP!Rol!Next]_(WP!Rol!vars)
    /\ Rol!RollbacksRight <=> WP!Rol!RollbacksRight
    /\ Rol!TypeOK <=> WP!Rol!TypeOK
<1>1. Rol!RollbacksAssumption <=> WP!Rol!RollbacksAssumption
  BY DEF Rol!RollbacksAssumption, WP!Rol!RollbacksAssumption, Rol!IsFiniteSet, WP!Rol!IsFiniteSet
<1>2. Rol!Init <=> WP!Rol!Init
  BY DEF Rol!Init, WP!Rol!Init, Rol!Idle, WP!Rol!Idle
<1>3. Rol!Next <=> WP!Rol!Next
  BY DEF Rol!Next, WP!Rol!Next, Rol!Execute, WP!Rol!Execute, Rol!Apply, WP!Rol!Apply, Rol!Record,
     WP!Rol!Record, Rol!FeedBack, WP!Rol!FeedBack, Rol!Undo, WP!Rol!Undo, Rol!Tell, WP!Rol!Tell,
     Rol!Crash, WP!Rol!Crash, Rol!Return, WP!Rol!Return, Rol!Remember, WP!Rol!Remember,
     Rol!Current, WP!Rol!Current, Rol!At, WP!Rol!At, Rol!Idle, WP!Rol!Idle, Rol!SetToSeqs,
     WP!Rol!SetToSeqs, Rol!Cardinality, WP!Rol!Cardinality
<1>4. Rol!vars' = Rol!vars <=> WP!Rol!vars' = WP!Rol!vars
  BY DEF Rol!vars, WP!Rol!vars
<1>5. Rol!RollbacksRight <=> WP!Rol!RollbacksRight
  BY DEF Rol!RollbacksRight, WP!Rol!RollbacksRight, Rol!BooksKept, WP!Rol!BooksKept, Rol!BatchStops,
     WP!Rol!BatchStops, Rol!At, WP!Rol!At
<1>6. Rol!TypeOK <=> WP!Rol!TypeOK
  BY DEF Rol!TypeOK, WP!Rol!TypeOK
<1>7. QED
  BY <1>1, <1>2, <1>3, <1>4, <1>5, <1>6

\* Of a step of the whole, the executor makes one of its own or rests.
LEMMA RollbacksInNext == [Next]_vars => [Rol!Next]_(Rol!vars)
<1>1. applying' = applying => Rol!vars' = Rol!vars
  BY DEF applying, Rol!vars
<1>2. [Next]_vars => Rol!Next \/ applying' = applying
  BY DEF Next, Rest, vars
<1>3. QED
  BY <1>1, <1>2

\* Verdicts go where they belong and histories name what was replaced, unless a cycle failed in
\* part, was cut short or overlapped another; one that was interrupted stops the scheduler; and
\* of what is applied and rolled back books are kept.
THEOREM EvolutionIsTraced == Spec => EvolutionTraced
<1>1. Init /\ WorkAssumption => WP!EvoInv /\ WP!RolInv
  BY EvolutionSame, RollbacksSame, WP!EvoStart, WP!RolStart DEF Init, WorkAssumption
<1>2. WP!EvoInv /\ [Next]_vars => WP!EvoInv'
  BY EvolutionSame, EvolutionInNext, WorkAssumption, WP!EvoStep DEF WorkAssumption
<1>3. WP!RolInv /\ [Next]_vars => WP!RolInv'
  BY RollbacksSame, RollbacksInNext, WorkAssumption, WP!RolStep DEF WorkAssumption
<1>4. WP!EvoInv => (part = "evolution" => Evo!WrittenAsRead)
  BY EvolutionSame, WorkAssumption, WP!EvoMean DEF WorkAssumption
<1>5. WP!RolInv => (part = "rollbacks" => Rol!RollbacksRight)
  BY RollbacksSame, WP!RolMean
<1>6. WP!EvoInv /\ [Next]_vars =>
         [Evo!Interrupted => Evo!Interrupted' /\ (Evo!At(Scheduler, "idle") => Evo!At(Scheduler, "idle")')]_(Evo!vars)
  BY EvolutionSame, EvolutionInNext, WorkAssumption, WP!InterruptedStays DEF WorkAssumption, Evo!At
<1>7. QED
  BY <1>1, <1>2, <1>3, <1>4, <1>5, <1>6, WorkAssumption, PTL
     DEF Spec, EvolutionTraced, Evo!InterruptedBlocks

-----------------------------------------------------------------------------
(* Commands of the god panel.                                               *)

\* The commands here are those of WorkProofs.
LEMMA CommandsSame ==
    /\ Com!CommandsAssumption <=> WP!Com!CommandsAssumption
    /\ Com!Init <=> WP!Com!Init
    /\ [Com!Next]_(Com!vars) <=> [WP!Com!Next]_(WP!Com!vars)
    /\ Com!RowsTrue <=> WP!Com!RowsTrue
    /\ Com!TypeOK <=> WP!Com!TypeOK
    /\ Com!Ranks = WP!Com!Ranks
    /\ \A c : Com!Behind(c) <=> WP!Com!Behind(c)
<1>1. Com!CommandsAssumption <=> WP!Com!CommandsAssumption
  BY DEF Com!CommandsAssumption, WP!Com!CommandsAssumption
<1>2. Com!Init <=> WP!Com!Init
  BY DEF Com!Init, WP!Com!Init, Com!New, WP!Com!New
<1>3. Com!Next <=> WP!Com!Next
  BY DEF Com!Next, WP!Com!Next, Com!Insert, WP!Com!Insert, Com!Launch, WP!Com!Launch,
     Com!LaunchFixed, WP!Com!LaunchFixed, Com!Start, WP!Com!Start, Com!StartRow, WP!Com!StartRow,
     Com!Complete, WP!Com!Complete, Com!CompleteRow, WP!Com!CompleteRow, Com!Track, WP!Com!Track,
     Com!Poll, WP!Com!Poll, Com!List, WP!Com!List, Com!Recycle, WP!Com!Recycle, Com!Tell,
     WP!Com!Tell, Com!Persist, WP!Com!Persist, Com!Goto, WP!Com!Goto, Com!Enter, WP!Com!Enter,
     Com!Cached, WP!Com!Cached, Com!Status, WP!Com!Status, Com!Planned, WP!Com!Planned,
     Com!Outcomes, WP!Com!Outcomes, Com!Final, WP!Com!Final, Com!Range, WP!Com!Range
<1>4. Com!vars' = Com!vars <=> WP!Com!vars' = WP!Com!vars
  BY DEF Com!vars, WP!Com!vars
<1>5. Com!RowsTrue <=> WP!Com!RowsTrue
  BY DEF Com!RowsTrue, WP!Com!RowsTrue, Com!Final, WP!Com!Final
<1>6. Com!TypeOK <=> WP!Com!TypeOK
  BY DEF Com!TypeOK, WP!Com!TypeOK, Com!Ranks, WP!Com!Ranks, Com!IsInjective, WP!Com!IsInjective
<1>7. Com!Ranks = WP!Com!Ranks
  BY DEF Com!Ranks, WP!Com!Ranks
<1>8. \A c : Com!Behind(c) <=> WP!Com!Behind(c)
  BY DEF Com!Behind, WP!Com!Behind
<1>9. QED
  BY <1>1, <1>2, <1>3, <1>4, <1>5, <1>6, <1>7, <1>8

\* Of a step of the whole, the panel makes one of its own or rests.
LEMMA CommandsInNext == [Next]_vars => [Com!Next]_(Com!vars)
<1>1. panel' = panel => Com!vars' = Com!vars
  BY DEF panel, Com!vars
<1>2. [Next]_vars => Com!Next \/ panel' = panel
  BY DEF Next, Rest, vars
<1>3. QED
  BY <1>1, <1>2

-----------------------------------------------------------------------------
(* War rooms.                                                               *)

\* The war rooms here are those of WorkProofs.
LEMMA RoomsSame ==
    /\ War!WarRoomsAssumption <=> WP!War!WarRoomsAssumption
    /\ War!Init <=> WP!War!Init
    /\ [War!Next]_(War!vars) <=> [WP!War!Next]_(WP!War!vars)
    /\ War!RoomsKept <=> WP!War!RoomsKept
    /\ War!TypeOK <=> WP!War!TypeOK
<1>1. War!WarRoomsAssumption <=> WP!War!WarRoomsAssumption
  BY DEF War!WarRoomsAssumption, WP!War!WarRoomsAssumption, War!IsFiniteSet, WP!War!IsFiniteSet
<1>2. War!Init <=> WP!War!Init
  BY DEF War!Init, WP!War!Init, War!NoRoom, WP!War!NoRoom
<1>3. War!Next <=> WP!War!Next
  BY DEF War!Next, WP!War!Next, War!Create, WP!War!Create, War!Activate, WP!War!Activate,
     War!Deactivate, WP!War!Deactivate, War!Delete, WP!War!Delete, War!Change, WP!War!Change,
     War!OpenWeb, WP!War!OpenWeb, War!OpenForced, WP!War!OpenForced, War!OpenAuto,
     WP!War!OpenAuto, War!OpenDirective, WP!War!OpenDirective, War!Open, WP!War!Open, War!Call,
     WP!War!Call, War!Speak, WP!War!Speak, War!Propose, WP!War!Propose, War!Synthesize,
     WP!War!Synthesize, War!Execute, WP!War!Execute, War!Retrospect, WP!War!Retrospect,
     War!Close, WP!War!Close, War!Remember, WP!War!Remember, War!Decide, WP!War!Decide, War!Room,
     WP!War!Room, War!Turn, WP!War!Turn, War!MoreTurns, WP!War!MoreTurns, War!Meets,
     WP!War!Meets, War!Syntheses, WP!War!Syntheses, War!After, WP!War!After, War!Leave,
     WP!War!Leave, War!NoRoom, WP!War!NoRoom, War!There, WP!War!There, War!Active, WP!War!Active,
     War!SetToSeq, WP!War!SetToSeq, War!IsInjective, WP!War!IsInjective, War!Cardinality,
     WP!War!Cardinality
<1>4. War!vars' = War!vars <=> WP!War!vars' = WP!War!vars
  BY DEF War!vars, WP!War!vars
<1>5. War!RoomsKept <=> WP!War!RoomsKept
  BY DEF War!RoomsKept, WP!War!RoomsKept, War!AllHeard, WP!War!AllHeard, War!MinutesTrue,
     WP!War!MinutesTrue, War!NotesOwned, WP!War!NotesOwned, War!Times, WP!War!Times, War!There,
     WP!War!There, War!Cardinality, WP!War!Cardinality
<1>6. War!TypeOK <=> WP!War!TypeOK
  BY DEF War!TypeOK, WP!War!TypeOK
<1>7. QED
  BY <1>1, <1>2, <1>3, <1>4, <1>5, <1>6

\* Of a step of the whole, the war rooms make one of theirs or rest.
LEMMA RoomsInNext == [Next]_vars => [War!Next]_(War!vars)
<1>1. meeting' = meeting => War!vars' = War!vars
  BY DEF meeting, War!vars
<1>2. [Next]_vars => War!Next \/ meeting' = meeting
  BY DEF Next, Rest, vars
<1>3. QED
  BY <1>1, <1>2

-----------------------------------------------------------------------------
(* Debates.                                                                 *)

\* The debates here are those of WorkProofs.
LEMMA DebatesSame ==
    /\ Deb!DebatesAssumption <=> WP!Deb!DebatesAssumption
    /\ Deb!Init <=> WP!Deb!Init
    /\ [Deb!Next]_(Deb!vars) <=> [WP!Deb!Next]_(WP!Deb!vars)
    /\ Deb!DebatesEnd <=> WP!Deb!DebatesEnd
    /\ Deb!TypeOK <=> WP!Deb!TypeOK
<1>1. Deb!DebatesAssumption <=> WP!Deb!DebatesAssumption
  BY DEF Deb!DebatesAssumption, WP!Deb!DebatesAssumption, Deb!Range, WP!Deb!Range
<1>2. Deb!Init <=> WP!Deb!Init
  BY DEF Deb!Init, WP!Deb!Init, Deb!NoConsensus, WP!Deb!NoConsensus, Deb!NewRound, WP!Deb!NewRound
<1>3. Deb!Next <=> WP!Deb!Next
  BY DEF Deb!Next, WP!Deb!Next, Deb!Argue, WP!Deb!Argue, Deb!Argued, WP!Deb!Argued, Deb!Rebut,
     WP!Deb!Rebut, Deb!Score, WP!Deb!Score, Deb!Check, WP!Deb!Check, Deb!Arguments,
     WP!Deb!Arguments, Deb!Argument, WP!Deb!Argument, Deb!Number, WP!Deb!Number, Deb!Holding,
     WP!Deb!Holding, Deb!Step, WP!Deb!Step, Deb!Voiced, WP!Deb!Voiced, Deb!Estimates,
     WP!Deb!Estimates, Deb!Consensus, WP!Deb!Consensus, Deb!Checks, WP!Deb!Checks,
     Deb!MayConclude, WP!Deb!MayConclude, Deb!Close, WP!Deb!Close, Deb!NoConsensus,
     WP!Deb!NoConsensus, Deb!NewRound, WP!Deb!NewRound, Deb!Min, WP!Deb!Min, Deb!Range,
     WP!Deb!Range, Deb!Cardinality, WP!Deb!Cardinality
<1>4. Deb!vars' = Deb!vars <=> WP!Deb!vars' = WP!Deb!vars
  BY DEF Deb!vars, WP!Deb!vars
<1>5. Deb!DebatesEnd <=> WP!Deb!DebatesEnd
  BY DEF Deb!DebatesEnd, WP!Deb!DebatesEnd, Deb!EndsHeard, WP!Deb!EndsHeard, Deb!OutageAgrees,
     WP!Deb!OutageAgrees, Deb!Consensus, WP!Deb!Consensus
<1>6. Deb!TypeOK <=> WP!Deb!TypeOK
  BY DEF Deb!TypeOK, WP!Deb!TypeOK, Deb!Range, WP!Deb!Range
<1>7. QED
  BY <1>1, <1>2, <1>3, <1>4, <1>5, <1>6

\* Of a step of the whole, the debate makes one of its own or rests.
LEMMA DebatesInNext == [Next]_vars => [Deb!Next]_(Deb!vars)
<1>1. debating' = debating => Deb!vars' = Deb!vars
  BY DEF debating, Deb!vars
<1>2. [Next]_vars => Deb!Next \/ debating' = debating
  BY DEF Next, Rest, vars
<1>3. QED
  BY <1>1, <1>2

-----------------------------------------------------------------------------
(* Sweeps.                                                                  *)

\* The sweep here is that of WorkProofs.
LEMMA SweepsSame ==
    /\ Swe!SweepsAssumption <=> WP!Swe!SweepsAssumption
    /\ Swe!Init <=> WP!Swe!Init
    /\ [Swe!Next]_(Swe!vars) <=> [WP!Swe!Next]_(WP!Swe!vars)
    /\ Swe!SweepsTold <=> WP!Swe!SweepsTold
    /\ Swe!TypeOK <=> WP!Swe!TypeOK
<1>1. Swe!SweepsAssumption <=> WP!Swe!SweepsAssumption
  BY DEF Swe!SweepsAssumption, WP!Swe!SweepsAssumption
<1>2. Swe!Init <=> WP!Swe!Init
  BY DEF Swe!Init, WP!Swe!Init
<1>3. Swe!Next <=> WP!Swe!Next
  BY DEF Swe!Next, WP!Swe!Next, Swe!Ask, WP!Swe!Ask, Swe!Look, WP!Swe!Look, Swe!Store, WP!Swe!Store,
     Swe!Relate, WP!Swe!Relate, Swe!Raises, WP!Swe!Raises, Swe!Onward, WP!Swe!Onward, Swe!Swept,
     WP!Swe!Swept, Swe!Sources, WP!Swe!Sources, Swe!Typed, WP!Swe!Typed
<1>4. Swe!vars' = Swe!vars <=> WP!Swe!vars' = WP!Swe!vars
  BY DEF Swe!vars, WP!Swe!vars
<1>5. Swe!SweepsTold <=> WP!Swe!SweepsTold
  BY DEF Swe!SweepsTold, WP!Swe!SweepsTold, Swe!Swept, WP!Swe!Swept, Swe!Sources, WP!Swe!Sources,
     Swe!Cardinality, WP!Swe!Cardinality
<1>6. Swe!TypeOK <=> WP!Swe!TypeOK
  BY DEF Swe!TypeOK, WP!Swe!TypeOK, Swe!Sources, WP!Swe!Sources
<1>7. QED
  BY <1>1, <1>2, <1>3, <1>4, <1>5, <1>6

\* Of a step of the whole, the sweep makes one of its own or rests.
LEMMA SweepsInNext == [Next]_vars => [Swe!Next]_(Swe!vars)
<1>1. sweeping' = sweeping => Swe!vars' = Swe!vars
  BY DEF sweeping, Swe!vars
<1>2. [Next]_vars => Swe!Next \/ sweeping' = sweeping
  BY DEF Next, Rest, vars
<1>3. QED
  BY <1>1, <1>2

\* Polls tell a command's progress and its row how it ended, unless a write was behind; what a
\* war room leaves tells who was heard and what it cost; debates end in the round they say, with
\* the consensus of those that spoke; and the numbers of a sweep tell what it found.
THEOREM CommandsAreTold == Spec => CommandsTold
<1>1. Init /\ WorkAssumption => WP!PanelInv /\ WP!MeetingInv /\ WP!DebatesInv /\ WP!SweepsInv
  BY CommandsSame, RoomsSame, DebatesSame, SweepsSame, WP!PanelStart, WP!MeetingStart,
     WP!DebatesStart, WP!SweepsStart DEF Init, WorkAssumption
<1>2. WP!PanelInv /\ [Next]_vars => WP!PanelInv'
  BY CommandsSame, CommandsInNext, WorkAssumption, WP!PanelStep DEF WorkAssumption
<1>3. WP!MeetingInv /\ [Next]_vars => WP!MeetingInv'
  BY RoomsSame, RoomsInNext, WorkAssumption, WP!MeetingStep DEF WorkAssumption
<1>4. WP!DebatesInv /\ [Next]_vars => WP!DebatesInv'
  BY DebatesSame, DebatesInNext, WorkAssumption, WP!DebatesStep DEF WorkAssumption
<1>5. WP!SweepsInv /\ [Next]_vars => WP!SweepsInv'
  BY SweepsSame, SweepsInNext, WorkAssumption, WP!SweepsStep DEF WorkAssumption
<1>6. WP!PanelInv => (part = "panel" => Com!RowsTrue)
  BY CommandsSame, WP!PanelMean
<1>7. WP!MeetingInv => (part = "rooms" => War!RoomsKept)
  BY RoomsSame, WorkAssumption, WP!MeetingMeans DEF WorkAssumption
<1>8. WP!DebatesInv => (part = "debates" => Deb!DebatesEnd)
  BY DebatesSame, WorkAssumption, WP!DebatesMean DEF WorkAssumption
<1>9. WP!SweepsInv => (part = "sweeps" => Swe!SweepsTold)
  BY SweepsSame, WorkAssumption, WP!SweepsMean DEF WorkAssumption
<1>10. WP!PanelInv /\ [Next]_vars =>
          [\A c \in Orders :
              LET before == commands[c].told
                  now == commands'[c].told IN
              \/ before = now \/ Com!Ranks[before] < Com!Ranks[now] \/ Com!Behind(c)]_(Com!vars)
  BY CommandsSame, CommandsInNext, WP!ToldOn
<1>11. QED
  BY <1>1, <1>2, <1>3, <1>4, <1>5, <1>6, <1>7, <1>8, <1>9, <1>10, WorkAssumption, PTL
     DEF Spec, CommandsTold, Com!ToldForward

-----------------------------------------------------------------------------
(* The knowledge graph.                                                   *)

\* The knowledge graph here is that of WorkProofs.
LEMMA KnowledgeSame ==
    /\ Kno!KnowledgeAssumption <=> WP!Kno!KnowledgeAssumption
    /\ Kno!Init <=> WP!Kno!Init
    /\ [Kno!Next]_(Kno!vars) <=> [WP!Kno!Next]_(WP!Kno!vars)
    /\ Kno!ReportsStick <=> WP!Kno!ReportsStick
    /\ Kno!TypeOK <=> WP!Kno!TypeOK
    /\ Kno!Ids = WP!Kno!Ids
    /\ Kno!Live = WP!Kno!Live
    /\ Kno!Idle = WP!Kno!Idle
    /\ Kno!Deleted = WP!Kno!Deleted
    /\ \A i : Kno!Relations(i) = WP!Kno!Relations(i)
<1>1. Kno!KnowledgeAssumption <=> WP!Kno!KnowledgeAssumption
  BY DEF Kno!KnowledgeAssumption, WP!Kno!KnowledgeAssumption
<1>2. Kno!Init <=> WP!Kno!Init
  BY DEF Kno!Init, WP!Kno!Init, Kno!Idle, WP!Kno!Idle
<1>3. Kno!Next <=> WP!Kno!Next
  BY DEF Kno!Next, WP!Kno!Next, Kno!Step, WP!Kno!Step, Kno!Insert, WP!Kno!Insert, Kno!Find,
     WP!Kno!Find, Kno!Merge, WP!Kno!Merge, Kno!ResolveEnds, WP!Kno!ResolveEnds, Kno!Relate,
     WP!Kno!Relate, Kno!StartMaintenance, WP!Kno!StartMaintenance, Kno!Decay, WP!Kno!Decay,
     Kno!StartPrune, WP!Kno!StartPrune, Kno!Prune, WP!Kno!Prune, Kno!StartAudit,
     WP!Kno!StartAudit, Kno!Audit, WP!Kno!Audit, Kno!Reported, WP!Kno!Reported,
     Kno!Acknowledged, WP!Kno!Acknowledged, Kno!Excuse, WP!Kno!Excuse, Kno!Named, WP!Kno!Named,
     Kno!ByName, WP!Kno!ByName, Kno!Raised, WP!Kno!Raised, Kno!Weaker, WP!Kno!Weaker,
     Kno!Prunable, WP!Kno!Prunable, Kno!Without, WP!Kno!Without, Kno!Unrelated,
     WP!Kno!Unrelated, Kno!Doomed, WP!Kno!Doomed, Kno!Read, WP!Kno!Read, Kno!Watched,
     WP!Kno!Watched, Kno!Changed, WP!Kno!Changed, Kno!Finish, WP!Kno!Finish, Kno!Fail,
     WP!Kno!Fail, Kno!Ids, WP!Kno!Ids, Kno!Live, WP!Kno!Live, Kno!Relations, WP!Kno!Relations,
     Kno!NamesOf, WP!Kno!NamesOf, Kno!Idle, WP!Kno!Idle, Kno!Deleted, WP!Kno!Deleted,
     Kno!tables, WP!Kno!tables, Kno!Cardinality, WP!Kno!Cardinality
<1>4. Kno!vars' = Kno!vars <=> WP!Kno!vars' = WP!Kno!vars
  BY DEF Kno!vars, WP!Kno!vars, Kno!tables, WP!Kno!tables
<1>5. Kno!ReportsStick <=> WP!Kno!ReportsStick
  BY DEF Kno!ReportsStick, WP!Kno!ReportsStick, Kno!Named, WP!Kno!Named, Kno!Live, WP!Kno!Live,
     Kno!Ids, WP!Kno!Ids, Kno!Deleted, WP!Kno!Deleted
<1>6. Kno!TypeOK <=> WP!Kno!TypeOK
  BY DEF Kno!TypeOK, WP!Kno!TypeOK, Kno!Live, WP!Kno!Live, Kno!Ids, WP!Kno!Ids, Kno!Deleted,
     WP!Kno!Deleted
<1>7. Kno!Ids = WP!Kno!Ids
  BY DEF Kno!Ids, WP!Kno!Ids
<1>8. Kno!Live = WP!Kno!Live
  BY DEF Kno!Live, WP!Kno!Live, Kno!Ids, WP!Kno!Ids, Kno!Deleted, WP!Kno!Deleted
<1>9. Kno!Idle = WP!Kno!Idle
  BY DEF Kno!Idle, WP!Kno!Idle
<1>10. Kno!Deleted = WP!Kno!Deleted
  BY DEF Kno!Deleted, WP!Kno!Deleted
<1>11. \A i : Kno!Relations(i) = WP!Kno!Relations(i)
  BY DEF Kno!Relations, WP!Kno!Relations
<1>12. QED
  BY <1>1, <1>2, <1>3, <1>4, <1>5, <1>6, <1>7, <1>8, <1>9, <1>10, <1>11

\* Of a step of the whole, the graph makes one of its own or rests.
LEMMA KnowledgeInNext == [Next]_vars => [Kno!Next]_(Kno!vars)
<1>1. knowledge' = knowledge => Kno!vars' = Kno!vars
  BY DEF knowledge, Kno!vars, Kno!tables
<1>2. [Next]_vars => Kno!Next \/ knowledge' = knowledge
  BY DEF Next, Rest, vars
<1>3. QED
  BY <1>1, <1>2

-----------------------------------------------------------------------------
(* Deepening of research.                                                 *)

\* The deepening here is that of WorkProofs.
LEMMA DeepeningSame ==
    /\ Dee!DeepeningAssumption <=> WP!Dee!DeepeningAssumption
    /\ Dee!Init <=> WP!Dee!Init
    /\ [Dee!Next]_(Dee!vars) <=> [WP!Dee!Next]_(WP!Dee!vars)
    /\ Dee!TypeOK <=> WP!Dee!TypeOK
<1>1. Dee!DeepeningAssumption <=> WP!Dee!DeepeningAssumption
  BY DEF Dee!DeepeningAssumption, WP!Dee!DeepeningAssumption
<1>2. Dee!Init <=> WP!Dee!Init
  BY DEF Dee!Init, WP!Dee!Init, Dee!AtRest, WP!Dee!AtRest, Dee!Absent, WP!Dee!Absent
<1>3. Dee!Next <=> WP!Dee!Next
  BY DEF Dee!Next, WP!Dee!Next, Dee!Tick, WP!Dee!Tick, Dee!Older, WP!Dee!Older, Dee!Report,
     WP!Dee!Report, Dee!Detect, WP!Dee!Detect, Dee!Deepen, WP!Dee!Deepen, Dee!EndCycle,
     WP!Dee!EndCycle, Dee!Search, WP!Dee!Search, Dee!DeepenTopic, WP!Dee!DeepenTopic,
     Dee!Synthesize, WP!Dee!Synthesize, Dee!EndPass, WP!Dee!EndPass, Dee!FindMedium,
     WP!Dee!FindMedium, Dee!FindDeep, WP!Dee!FindDeep, Dee!Extract, WP!Dee!Extract, Dee!Find,
     WP!Dee!Find, Dee!Goto, WP!Dee!Goto, Dee!Free, WP!Dee!Free, Dee!Qualifies, WP!Dee!Qualifies,
     Dee!CurrentDepth, WP!Dee!CurrentDepth, Dee!RecentlyDeepened, WP!Dee!RecentlyDeepened,
     Dee!Cluster, WP!Dee!Cluster, Dee!Stored, WP!Dee!Stored, Dee!There, WP!Dee!There,
     Dee!Recent, WP!Dee!Recent, Dee!AtRest, WP!Dee!AtRest, Dee!Max, WP!Dee!Max, Dee!Cardinality,
     WP!Dee!Cardinality
<1>4. Dee!vars' = Dee!vars <=> WP!Dee!vars' = WP!Dee!vars
  BY DEF Dee!vars, WP!Dee!vars, Dee!deepening, WP!Dee!deepening
<1>5. Dee!TypeOK <=> WP!Dee!TypeOK
  BY DEF Dee!TypeOK, WP!Dee!TypeOK
<1>6. QED
  BY <1>1, <1>2, <1>3, <1>4, <1>5

\* Of a step of the whole, the deepening makes one of its own or rests.
LEMMA DeepeningInNext == [Next]_vars => [Dee!Next]_(Dee!vars)
<1>1. topics' = topics => Dee!vars' = Dee!vars
  BY DEF topics, Dee!vars, Dee!deepening
<1>2. [Next]_vars => Dee!Next \/ topics' = topics
  BY DEF Next, Rest, vars
<1>3. QED
  BY <1>1, <1>2

-----------------------------------------------------------------------------
(* Pages.                                                                 *)

\* The pages here are those of WorkProofs.
LEMMA PagesSame ==
    /\ Pag!PagesAssumption <=> WP!Pag!PagesAssumption
    /\ Pag!Init <=> WP!Pag!Init
    /\ [Pag!Next]_(Pag!vars) <=> [WP!Pag!Next]_(WP!Pag!vars)
    /\ Pag!PagesKept <=> WP!Pag!PagesKept
    /\ Pag!TypeOK <=> WP!Pag!TypeOK
<1>1. Pag!PagesAssumption <=> WP!Pag!PagesAssumption
  BY DEF Pag!PagesAssumption, WP!Pag!PagesAssumption, Pag!IsFiniteSet, WP!Pag!IsFiniteSet
<1>2. Pag!Init <=> WP!Pag!Init
  BY DEF Pag!Init, WP!Pag!Init, Pag!Unoccupied, WP!Pag!Unoccupied, Pag!NoRows, WP!Pag!NoRows,
     Pag!Texts, WP!Pag!Texts
<1>3. Pag!Next <=> WP!Pag!Next
  BY DEF Pag!Next, WP!Pag!Next, Pag!Step, WP!Pag!Step, Pag!SeeEntry, WP!Pag!SeeEntry,
     Pag!RememberEntry, WP!Pag!RememberEntry, Pag!Scrape, WP!Pag!Scrape, Pag!Fetch,
     WP!Pag!Fetch, Pag!Drop, WP!Pag!Drop, Pag!Insert, WP!Pag!Insert, Pag!Keep, WP!Pag!Keep,
     Pag!Expire, WP!Pag!Expire, Pag!CleanUp, WP!Pag!CleanUp, Pag!Hits, WP!Pag!Hits, Pag!At,
     WP!Pag!At, Pag!Go, WP!Pag!Go, Pag!Rest, WP!Pag!Rest, Pag!Unoccupied, WP!Pag!Unoccupied,
     Pag!NoRows, WP!Pag!NoRows, Pag!Texts, WP!Pag!Texts
<1>4. Pag!vars' = Pag!vars <=> WP!Pag!vars' = WP!Pag!vars
  BY DEF Pag!vars, WP!Pag!vars
<1>5. Pag!PagesKept <=> WP!Pag!PagesKept
  BY DEF Pag!PagesKept, WP!Pag!PagesKept, Pag!SeenWasStored, WP!Pag!SeenWasStored, Pag!FewRows,
     WP!Pag!FewRows, Pag!Rows, WP!Pag!Rows, Pag!Cardinality, WP!Pag!Cardinality
<1>6. Pag!TypeOK <=> WP!Pag!TypeOK
  BY DEF Pag!TypeOK, WP!Pag!TypeOK, Pag!Texts, WP!Pag!Texts
<1>7. QED
  BY <1>1, <1>2, <1>3, <1>4, <1>5, <1>6

\* Of a step of the whole, the pages make one of theirs or rest.
LEMMA PagesInNext == [Next]_vars => [Pag!Next]_(Pag!vars)
<1>1. reading' = reading => Pag!vars' = Pag!vars
  BY DEF reading, Pag!vars
<1>2. [Next]_vars => Pag!Next \/ reading' = reading
  BY DEF Next, Rest, vars
<1>3. QED
  BY <1>1, <1>2

\* What the graph acknowledged it knows unless that was weakened since, and it deletes only what
\* is weak; what it says of topics keeps them from being deepened again soon; and the entries
\* of feeds that are marked as seen were stored.
THEOREM GraphIsKept == Spec => GraphKept
<1>1. Init /\ WorkAssumption => WP!KnoInv /\ WP!DeeInv /\ WP!PagInv
  BY KnowledgeSame, DeepeningSame, PagesSame, WP!KnoStart, WP!DeeStart, WP!PagStart
     DEF Init, WorkAssumption
<1>2. WP!KnoInv /\ [Next]_vars => WP!KnoInv'
  BY KnowledgeSame, KnowledgeInNext, WorkAssumption, WP!KnoStep DEF WorkAssumption
<1>3. WP!DeeInv /\ [Next]_vars => WP!DeeInv'
  BY DeepeningSame, DeepeningInNext, WorkAssumption, WP!DeeStep DEF WorkAssumption
<1>4. WP!PagInv /\ [Next]_vars => WP!PagInv'
  BY PagesSame, PagesInNext, WorkAssumption, WP!PagStep DEF WorkAssumption
<1>5. WP!KnoInv => (part = "knowledge" => Kno!ReportsStick)
  BY KnowledgeSame, WP!KnoMeans
<1>6. WP!PagInv => (part = "pages" => Pag!PagesKept)
  BY PagesSame, WorkAssumption, WP!PagMeans DEF WorkAssumption
<1>7. WP!KnoInv /\ [Next]_vars =>
         [\A t \in Threads, i \in Kno!Ids : at[t].pc # "idle" /\ at[t]' = Kno!Idle =>
             (i \in Kno!Live /\ entities'[i] = Kno!Deleted /\ i \notin dirty[t] =>
                 /\ entities[i].confidence <= DeleteUpTo
                 /\ at[t].pc = "delete" => Kno!Relations(i) = {})]_(Kno!vars)
  BY KnowledgeSame, KnowledgeInNext, WorkAssumption, WP!OnlyTheWeak DEF WorkAssumption
<1>8. WP!DeeInv /\ [Next]_vars =>
         [\A d \in Deepeners, t \in Subjects :
             (digger[d].pc = "idle" /\ \E c \in digger'[d].todo : c.topic = t) =>
                 passed[t] >= Cooldown \/ t \in taken]_(Dee!vars)
  BY DeepeningSame, DeepeningInNext, WorkAssumption, WP!NotTakenUpSoon DEF WorkAssumption
<1>9. QED
  BY <1>1, <1>2, <1>3, <1>4, <1>5, <1>6, <1>7, <1>8, WorkAssumption, PTL
     DEF Spec, GraphKept, Kno!DeletedWasWeak, Dee!NotAgainSoon

=============================================================================
