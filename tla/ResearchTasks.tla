---------------------------- MODULE ResearchTasks ----------------------------
(***************************************************************************)
(* The task rows of research: for each question AutoResearcher makes one,  *)
(* executes the question and settles the row and the statistics, in        *)
(* transactions of their own (_execute_research and what it calls in       *)
(* src/core/research/autoresearcher.py, over src/db/repositories/task.py,  *)
(* lieutenant.py and empire.py).  A job of the scheduler fails what has    *)
(* been executing for half an hour (_run_stale_task_cleanup).              *)
(***************************************************************************)
EXTENDS Naturals, Sequences

CONSTANTS
    Researchers,   \* threads in run_cycle
    MaxRows        \* bound: rows made

RowsAssumption == MaxRows \in Nat

VARIABLES
    rows,    \* Task, and how often the lieutenant and the empire counted it
    steps    \* where each thread is, with which row (0 if it could not be made)

vars == <<rows, steps>>

Idle == [pc |-> "idle", row |-> 0]
NewRow == [status |-> "executing", old |-> FALSE, won |-> 0, failed |-> 0, empire |-> 0]

Init == rows = <<>> /\ steps = [t \in Researchers |-> Idle]

Goto(t, label) == steps' = [steps EXCEPT ![t].pc = label]
Finish(t) == steps' = [steps EXCEPT ![t] = Idle]
Mine(t) == steps[t].row

\* A mutant: an error while a task is completed fails it.
GiveUpFailing(t) == Goto(t, "fail") /\ UNCHANGED rows

\* A transaction that fails ends the settling: its error is logged, no more.
GiveUp(t) == Finish(t) /\ UNCHANGED rows

\* _create_task
Create(t) ==
    /\ steps[t].pc = "idle" /\ Len(rows) < MaxRows
    /\ \/ /\ rows' = Append(rows, NewRow)
          /\ steps' = [steps EXCEPT ![t] = [pc |-> "research", row |-> Len(rows) + 1]]
       \/ /\ steps' = [steps EXCEPT ![t].pc = "research"]
          /\ UNCHANGED rows

\* Search, scraping, extraction and storing: see Research.
Execute(t) ==
    /\ steps[t].pc = "research"
    /\ Goto(t, "complete") \/ Goto(t, "fail")
    /\ UNCHANGED rows

\* _complete_task writes the row, whatever its status is by now, ...
CompleteRow(t) ==
    /\ steps[t].pc = "complete"
    /\ \/ /\ Mine(t) # 0
          /\ rows' = [rows EXCEPT ![Mine(t)].status = "completed"]
          /\ Goto(t, "reward") \/ Goto(t, "empire")
       \/ GiveUp(t)

\* ... the statistics of the lieutenant, if there is one, ...
Reward(t) ==
    /\ steps[t].pc = "reward"
    /\ \/ rows' = [rows EXCEPT ![Mine(t)].won = @ + 1] /\ Goto(t, "empire")
       \/ GiveUp(t)

\* ... and those of the empire.
CountForEmpire(t) ==
    /\ steps[t].pc = "empire"
    /\ \/ rows' = [rows EXCEPT ![Mine(t)].empire = @ + 1] /\ Finish(t)
       \/ GiveUp(t)

\* _fail_task
FailRow(t) ==
    /\ steps[t].pc = "fail"
    /\ \/ /\ Mine(t) # 0
          /\ rows' = [rows EXCEPT ![Mine(t)].status = "failed"]
          /\ Goto(t, "blame") \/ Finish(t)
       \/ GiveUp(t)

Blame(t) ==
    /\ steps[t].pc = "blame"
    /\ \/ rows' = [rows EXCEPT ![Mine(t)].failed = @ + 1] /\ Finish(t)
       \/ GiveUp(t)

-----------------------------------------------------------------------------

Executing == {i \in DOMAIN rows : rows[i].status = "executing"}

\* Half an hour passes.
Age(i) ==
    /\ ~rows[i].old
    /\ rows' = [rows EXCEPT ![i].old = TRUE]
    /\ UNCHANGED steps

\* _run_stale_task_cleanup; it does not count what it fails.
Stale == {i \in Executing : rows[i].old}
CleanUp ==
    /\ Stale # {}
    /\ rows' = [i \in DOMAIN rows |-> IF i \in Stale THEN [rows[i] EXCEPT !.status = "failed"]
                                      ELSE rows[i]]
    /\ UNCHANGED steps

\* The process ends and is started again.
Crash ==
    /\ steps' = [t \in Researchers |-> Idle]
    /\ UNCHANGED rows

Settle(t) ==
    \/ Create(t) \/ Execute(t) \/ CompleteRow(t) \/ Reward(t) \/ CountForEmpire(t)
    \/ FailRow(t) \/ Blame(t)

Next ==
    \/ \E t \in Researchers : Settle(t)
    \/ \E i \in DOMAIN rows : Age(i)
    \/ CleanUp \/ Crash

\* Time passes, and the scheduler runs its job; nothing makes research go on.
Fairness == WF_vars(\E i \in 1..MaxRows : i \in DOMAIN rows /\ Age(i)) /\ WF_vars(CleanUp)

Spec == Init /\ [][Next]_vars /\ Fairness

-----------------------------------------------------------------------------

TypeOK ==
    /\ \A i \in DOMAIN rows : rows[i].status \in {"executing", "completed", "failed"}
    /\ \A t \in Researchers : Mine(t) \in 0..Len(rows)

\* However late a thread settles its row, and wherever settling is cut off, a
\* task is counted once at most, and as what its row says it became
\* (autoresearcher.py:366, three transactions one after the other).
CountedOnce ==
    \A i \in DOMAIN rows :
        /\ rows[i].won + rows[i].failed <= 1 /\ rows[i].empire <= 1
        /\ rows[i].won + rows[i].empire > 0 => rows[i].status = "completed"
        /\ rows[i].failed > 0 => rows[i].status = "failed"

\* No row executes for ever, though its thread may have died or failed to settle
\* it (daemon.py:617).
RowsSettle == \A i \in 1..MaxRows : i \in Executing ~> i \notin Executing

=============================================================================
