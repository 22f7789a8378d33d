-------------------------------- MODULE Tasks --------------------------------
(***************************************************************************)
(* One task executed by a lieutenant: Lieutenant.execute_task of           *)
(* src/core/lieutenant/base.py around ACEEngine.execute_task of            *)
(* src/core/ace/engine.py, which plans, executes and lets a critic judge,  *)
(* each by a call of ModelRouter.execute (src/llm/router.py) with its      *)
(* response cache and its record of what was spent.                        *)
(*                                                                         *)
(* A worker is a thread with one task; all of them use one lieutenant's    *)
(* database row.  A text is a number: 0 the empty one, else the iteration  *)
(* whose execution was answered anew with it.  A call that is charged      *)
(* costs one unit; scores and importances are percentages.  The memories   *)
(* and the graph that a task also writes are in Memories and Knowledge.    *)
(***************************************************************************)
EXTENDS Integers, FiniteSets

CONSTANTS
    Workers,
    MaxIterations,   \* ace.max_pipeline_iterations
    MinQuality,      \* quality.min_confidence_score, in percent
    Scores           \* the scores a critic gives that can be read

TasksAssumption ==
    /\ IsFiniteSet(Workers)
    /\ MaxIterations \in Nat \ {0} /\ MinQuality \in 1..100 /\ Scores \subseteq 0..100

VARIABLES
    pc, job,           \* where each worker is; its TaskResult and what it is based on
    answers, verdicts, \* the response cache: outputs by prompt, verdicts by output
    logged, lost,      \* the sum of BudgetLog; whether an insert into it ever failed
    row,               \* the lieutenant's tasks_completed, tasks_failed and cost
    copy,              \* the row as each worker's session read it
    importance,        \* of a memory that the tasks recall
    counted,           \* workers whose update of the row was committed
    overlapped         \* whether two updates of the row overlapped

work == <<pc, job>>
cache == <<answers, verdicts>>
books == <<logged, lost>>
stats == <<row, copy, counted, overlapped>>
vars == <<work, cache, books, stats, importance>>

None == -1
Texts == 0..MaxIterations
Plain == None                \* the prompt without feedback on an earlier output
NoVerdict == [score |-> None, hints |-> FALSE, cost |-> 0]
NoAnswers == [p \in Texts \cup {Plain} |-> None]
NoVerdicts == [t \in Texts |-> NoVerdict]

NewJob == [iteration |-> 1, text |-> 0, judged |-> None, score |-> 0,
           hints |-> FALSE, success |-> FALSE, cost |-> 0]

Init ==
    /\ pc = [w \in Workers |-> "plan"] /\ job = [w \in Workers |-> NewJob]
    /\ answers = [w \in Workers |-> NoAnswers]
    /\ verdicts = [w \in Workers |-> NoVerdicts]
    /\ logged = 0 /\ lost = FALSE
    /\ row = [completed |-> 0, failed |-> 0, cost |-> 0]
    /\ copy = [w \in Workers |-> row]
    /\ importance = 50 /\ counted = {} /\ overlapped = FALSE

Goto(w, label) == pc' = [pc EXCEPT ![w] = label]

-----------------------------------------------------------------------------
\* _record_cost: the row of a charged answer is inserted or, the error being
\* swallowed, is not; the sum is followed until the first such loss.
Charge ==
    \/ logged' = (IF lost THEN 0 ELSE logged + 1) /\ UNCHANGED lost
    \/ lost' = TRUE /\ logged' = 0
Free == UNCHANGED books

\* _run_planning, left out for short tasks; without a plan the task goes on.
Plan(w) ==
    /\ pc[w] = "plan"
    /\ \/ Free /\ UNCHANGED job
       \/ Charge /\ job' = [job EXCEPT ![w].cost = @ + 1]
    /\ Goto(w, "run")
    /\ UNCHANGED <<cache, stats, importance>>

\* The feedback is part of the prompt only when the critic made suggestions.
Prompt(w) == IF job[w].iteration > 1 /\ job[w].hints THEN job[w].text ELSE Plain

\* _run_execution, at first and again after a verdict below the bar: the cache's
\* answer, the model's, which is cached, the fallback model's, which is not, or
\* the empty text of a call that failed.  The new text replaces the old one.
Run(w) ==
    LET new == job[w].iteration IN
    /\ pc[w] = "run"
    /\ \/ /\ answers[w][Prompt(w)] # None
          /\ job' = [job EXCEPT ![w].text = answers[w][Prompt(w)]]
          /\ Free /\ UNCHANGED answers
       \/ /\ answers[w][Prompt(w)] = None
          /\ job' = [job EXCEPT ![w].text = new, ![w].cost = @ + 1] /\ Charge
          /\ answers' \in {answers, [answers EXCEPT ![w][Prompt(w)] = new]}
       \/ /\ answers[w][Prompt(w)] = None
          /\ job' = [job EXCEPT ![w].text = 0]
          /\ Free /\ UNCHANGED answers
    /\ Goto(w, "judge")
    /\ UNCHANGED <<verdicts, stats, importance>>

\* What _run_critic makes of an answer: the scores in it; 50 when it is not JSON;
\* 40 when reading it raises, and the charge is then not counted.
Verdict(s, h, c) == [score |-> s, hints |-> h, cost |-> c]
NewVerdicts ==
    {Verdict(s, h, 1) : s \in Scores, h \in BOOLEAN}
        \cup {Verdict(50, FALSE, 1), Verdict(40, FALSE, 0)}

Reduced == (MinQuality * 8) \div 10

\* A mutant: a text below the bar is executed anew, to nothing, after the verdict.
JudgeThenRunAgain(w, v, kept) ==
    /\ job' = [job EXCEPT ![w].success = v.score >= Reduced, ![w].score = v.score,
                  ![w].judged = job[w].text, ![w].text = IF v.score < MinQuality THEN 0 ELSE @]
    /\ Goto(w, "feedback")
    /\ UNCHANGED cache

\* The rest of an iteration: accepted at the bar; executed again while there are
\* iterations; after the last one accepted at the reduced bar.  What the cache
\* holds of a task that is over is forgotten: no later prompt asks for it.
Judge(w, v, kept) ==
    LET t == job[w].text
        seen == [job[w] EXCEPT !.judged = t, !.score = v.score, !.hints = v.hints,
                               !.cost = @ + v.cost]
        last == seen.iteration = MaxIterations IN
    \/ /\ v.score >= MinQuality \/ last
       /\ job' = [job EXCEPT ![w] = [seen EXCEPT !.hints = FALSE, !.iteration = MaxIterations,
                                     !.success = v.score > 0 /\ v.score >= Reduced]]
       /\ answers' = [answers EXCEPT ![w] = NoAnswers]
       /\ verdicts' = [verdicts EXCEPT ![w] = NoVerdicts]
       /\ Goto(w, "feedback")
    \/ /\ v.score < MinQuality /\ ~last
       /\ job' = [job EXCEPT ![w] = [seen EXCEPT !.iteration = @ + 1]]
       /\ \E cached \in kept :
             verdicts' = IF cached THEN [verdicts EXCEPT ![w][t] = [v EXCEPT !.cost = 0]]
                         ELSE verdicts
       /\ Goto(w, "run") /\ UNCHANGED answers

\* _run_critic: an empty text is not judged; a judgement comes from the cache or
\* from the model, and a call that fails scores 40.
Critic(w) ==
    LET t == job[w].text IN
    /\ pc[w] = "judge"
    /\ \/ t = 0 /\ Judge(w, Verdict(0, TRUE, 0), {FALSE}) /\ Free
       \/ /\ t # 0 /\ verdicts[w][t] # NoVerdict
          /\ Judge(w, verdicts[w][t], {FALSE}) /\ Free
       \/ /\ t # 0 /\ verdicts[w][t] = NoVerdict
          /\ \/ \E v \in NewVerdicts : Judge(w, v, BOOLEAN) /\ Charge
             \/ Judge(w, Verdict(40, FALSE, 0), {FALSE}) /\ Free
    /\ UNCHANGED <<stats, importance>>

-----------------------------------------------------------------------------
\* The rest of Lieutenant.execute_task: each step may fail and the next one runs.

Boost(j) == IF ~j.success THEN -3 ELSE IF j.score >= 70 THEN 5
            ELSE IF j.score >= 50 THEN 2 ELSE 0

Clamp(x) == IF x < 10 THEN 10 ELSE IF x > 100 THEN 100 ELSE x

\* _feedback_memories; nothing recalled or a failed commit changes nothing.
Feedback(w) ==
    /\ pc[w] = "feedback"
    /\ importance' \in {importance, Clamp(importance + Boost(job[w]))}
    /\ Goto(w, "read")
    /\ UNCHANGED <<job, cache, books, stats>>

\* The row is read ...
ReadRow(w) ==
    /\ pc[w] = "read"
    /\ copy' = [copy EXCEPT ![w] = row]
    /\ overlapped' = (overlapped \/ \E v \in Workers : pc[v] = "write")
    /\ Goto(w, "write")
    /\ UNCHANGED <<job, cache, books, row, counted, importance>>

\* A mutant: a failure is counted among the completed tasks as well.
UpdatedTwice(r, j) ==
    [completed |-> r.completed + 1,
     failed |-> r.failed + (IF j.success THEN 0 ELSE 1), cost |-> r.cost + j.cost]

Updated(r, j) ==
    [completed |-> r.completed + (IF j.success THEN 1 ELSE 0),
     failed |-> r.failed + (IF j.success THEN 0 ELSE 1), cost |-> r.cost + j.cost]

\* ... and what was read, with this task added, written at the commit.
WriteRow(w) ==
    /\ pc[w] = "write"
    /\ \/ row' = Updated(copy[w], job[w]) /\ counted' = counted \cup {w}
       \/ UNCHANGED <<row, counted>>
    /\ Goto(w, "done")
    /\ UNCHANGED <<job, cache, books, copy, overlapped, importance>>

Step(w) == Plan(w) \/ Run(w) \/ Critic(w) \/ Feedback(w) \/ ReadRow(w) \/ WriteRow(w)

Next == \E w \in Workers : Step(w)

Spec == Init /\ [][Next]_vars

-----------------------------------------------------------------------------

TypeOK ==
    /\ pc \in [Workers -> {"plan", "run", "judge", "feedback", "read", "write", "done"}]
    /\ \A w \in Workers :
          /\ job[w].text \in Texts /\ job[w].score \in 0..100
          /\ job[w].iteration \in 1..MaxIterations
          /\ \A p \in Texts \cup {Plain} : answers[w][p] \in Texts \cup {None}
    /\ importance \in 10..100 /\ logged \in Nat
    /\ counted \subseteq Workers

\* What the tasks of W cost, unit by unit
Units(W) == UNION {{w} \X (1..job[w].cost) : w \in W}
Cost(W) == Cardinality(Units(W))

\* A task succeeds only with a text that is not empty, that the last verdict is
\* about, and that this verdict puts at the reduced bar or above: no later
\* execution has replaced what was judged (engine.py, the critic loop).
AcceptedWasJudged ==
    \A w \in Workers : job[w].success =>
        job[w].text # 0 /\ job[w].judged = job[w].text /\ job[w].score >= Reduced

\* Unless an insert failed, the budget log covers what the tasks say they cost,
\* whatever is cached, retried or fails half way (router.py:595, engine.py:211).
LogCoversCosts == ~lost => Cost(Workers) <= logged

\* Updates of the lieutenant's row that did not overlap are all in it, once each;
\* one that overlaps another may be lost, and nothing is ever counted twice
\* (base.py:152, a read and a write of the row without a lock).
RowExact ==
    /\ row.completed + row.failed <= Cardinality(counted) /\ row.cost <= Cost(counted)
    /\ ~overlapped => /\ row.completed = Cardinality({w \in counted : job[w].success})
                      /\ row.failed = Cardinality({w \in counted : ~job[w].success})
                      /\ row.cost = Cost(counted)

BooksAgree == LogCoversCosts /\ RowExact

=============================================================================
