------------------------------ MODULE Research ------------------------------
(***************************************************************************)
(* What research spends: AutoResearcher.run_cycle of                       *)
(* src/core/research/autoresearcher.py, started by the scheduler and from  *)
(* the god panel, and execute_autonomous_gap_research of deep.py beside    *)
(* it, under BudgetManager (src/core/routing/budget.py).  The budget is    *)
(* asked before a cycle and before a round, the log written after a call.  *)
(*                                                                         *)
(* A call that is charged costs one unit.  The findings go to Memories and *)
(* Knowledge; the rows of its tasks and the statistics are written in      *)
(* transactions whose errors are swallowed, and nothing here depends on    *)
(* them.  A month has the two days that are modelled and those before.     *)
(***************************************************************************)
EXTENDS Naturals

CONSTANTS
    Cyclers, Gappers,        \* threads in run_cycle, and in gap research
    DayLimit, MonthLimit,    \* daily_limit_usd and monthly_limit_usd
    Earlier,                 \* what may have been spent earlier in the month
    Reserve,                 \* 0.50 in a round's question
    CycleLimit,              \* MAX_COST_PER_CYCLE_USD
    Gaps, Questions, Scrapes, Domains,  \* bounds of a cycle's parts
    Rounds, PerRound         \* rounds, and calls in one of them

ResearchAssumption ==
    /\ Cyclers \cap Gappers = {} /\ Earlier \subseteq Nat
    /\ \A n \in {DayLimit, MonthLimit, Reserve, CycleLimit, Gaps, Questions, Scrapes,
                 Domains, Rounds, PerRound} : n \in Nat \ {0}
    /\ DayLimit <= MonthLimit

VARIABLES
    today, before,   \* the sums of BudgetLog for today and for the rest of the month
    doing,           \* what each thread is doing
    beyond,          \* each thread's charges of today that came after a limit
    days             \* midnights passed

vars == <<today, before, doing, beyond, days>>

Threads == Cyclers \cup Gappers
Idle == [pc |-> "idle", left |-> 0, questions |-> 0, cost |-> 0, blind |-> FALSE]

Init ==
    /\ today = 0 /\ before \in Earlier /\ days = 0
    /\ doing = [t \in Threads |-> Idle] /\ beyond = [t \in Threads |-> 0]

\* Sums are counted up to the month's limit; more makes no difference.
Upto(sum) == IF sum > MonthLimit THEN MonthLimit ELSE sum
Month == Upto(before + today)
Spent(t) == today >= DayLimit \/ (t \in Cyclers /\ Month >= MonthLimit)

Goto(t, label, n) == doing' = [doing EXCEPT ![t].pc = label, ![t].left = n]
Same == UNCHANGED <<today, before, beyond, days>>

\* record_spend, whose error is swallowed: the charge may be missing in the log.
Charge(t) ==
    /\ today' \in {today, Upto(today + 1)}
    /\ beyond' = [beyond EXCEPT ![t] = IF Spent(t) /\ ~doing[t].blind THEN @ + 1 ELSE @]
    /\ UNCHANGED <<before, days>>

\* One of the calls that are left at a label: charged, or free because it failed,
\* was answered by the cache or was not made.
CallOne(t, label) ==
    /\ doing[t].pc = label /\ doing[t].left > 0
    /\ doing' = [doing EXCEPT ![t].left = @ - 1]
    /\ Charge(t) \/ Same

-----------------------------------------------------------------------------
(* run_cycle.                                                              *)

\* is_over_budget asks for the day and then for the month; a query that fails
\* counts as nothing spent.
AskDay(t) ==
    /\ doing[t].pc = "idle"
    /\ \E fails \in BOOLEAN :
          /\ fails \/ today < DayLimit
          /\ doing' = [doing EXCEPT ![t] = [Idle EXCEPT !.pc = "month", !.blind = fails]]
    /\ Same

AskMonth(t) ==
    /\ doing[t].pc = "month"
    /\ \E fails \in BOOLEAN :
          doing' = [doing EXCEPT ![t] =
                    IF ~fails /\ Month >= MonthLimit THEN Idle
                    ELSE [doing[t] EXCEPT !.pc = "gaps", !.left = Gaps,
                                          !.blind = doing[t].blind \/ fails]]
    /\ Same

\* generate_from_gaps: a call for a gap, charged but not counted in the cycle's
\* cost; then questions, made without a model if need be, or none.
Generate(t) == CallOne(t, "gaps")

Generated(t) ==
    /\ doing[t].pc = "gaps" /\ doing[t].left = 0
    /\ \E n \in 0..Questions : doing' = [doing EXCEPT ![t].pc = "next", ![t].questions = n]
    /\ Same

\* A mutant: the cap on a cycle's cost is not asked.
NextQuestionAnyway(t) ==
    /\ doing[t].pc = "next" /\ doing[t].questions > 0
    /\ doing' = [doing EXCEPT ![t].pc = "scrape", ![t].left = Scrapes, ![t].questions = @ - 1]
    /\ Same

\* The loop over the questions, which ends early when the cycle's cost is up.
NextQuestion(t) ==
    /\ doing[t].pc = "next" /\ doing[t].questions > 0 /\ doing[t].cost < CycleLimit
    /\ doing' = [doing EXCEPT ![t].pc = "scrape", ![t].left = Scrapes, ![t].questions = @ - 1]
    /\ Same

\* _scrape_phase: what a page is read with is not counted either.
Scrape(t) == CallOne(t, "scrape")

\* _extract_entities is counted; it is left out if nothing is new, and its error
\* fails the question.
Extract(t) ==
    /\ doing[t].pc = "scrape" /\ doing[t].left = 0
    /\ \/ doing' = [doing EXCEPT ![t].pc = "next", ![t].cost = @ + 1] /\ Charge(t)
       \/ doing' = [doing EXCEPT ![t].pc = "next"] /\ Same

Researched(t) ==
    /\ doing[t].pc = "next" /\ (doing[t].questions = 0 \/ doing[t].cost >= CycleLimit)
    /\ Goto(t, "synthesize", Domains)
    /\ Same

\* _synthesize: a call for each domain with findings, counted when it is too late.
Synthesize(t) == CallOne(t, "synthesize")

Finish(t) ==
    /\ doing[t].pc = "synthesize" /\ doing[t].left = 0
    /\ doing' = [doing EXCEPT ![t] = Idle]
    /\ Same

-----------------------------------------------------------------------------
(* execute_autonomous_gap_research, and everybody else.                    *)

StartRounds(t) ==
    /\ doing[t].pc = "idle"
    /\ doing' = [doing EXCEPT ![t] = [Idle EXCEPT !.pc = "round", !.questions = Rounds]]
    /\ Same

\* Before each round only the day is asked, for a reserve.
AskRound(t) ==
    /\ doing[t].pc = "round"
    /\ \E fails \in BOOLEAN :
          IF doing[t].questions > 0 /\ (fails \/ today + Reserve <= DayLimit)
          THEN doing' = [doing EXCEPT ![t] = [Idle EXCEPT !.pc = "dig", !.left = PerRound,
                                   !.questions = doing[t].questions - 1, !.blind = fails]]
          ELSE doing' = [doing EXCEPT ![t] = Idle]
    /\ Same

Dig(t) == CallOne(t, "dig")

EndRound(t) ==
    /\ doing[t].pc = "dig" /\ doing[t].left = 0
    /\ Goto(t, "round", 0)
    /\ Same

\* Tasks, sweeps and all the other callers of the router never ask; what they add
\* beyond the limit makes no difference.
Others ==
    /\ today < DayLimit
    /\ today' = today + 1
    /\ UNCHANGED <<before, doing, beyond, days>>

Midnight ==
    /\ days = 0 /\ days' = 1
    /\ before' = Month /\ today' = 0
    /\ beyond' = [t \in Threads |-> 0]
    /\ UNCHANGED doing

\* The process ends; threads begin anew.
Restart ==
    /\ doing' = [t \in Threads |-> Idle]
    /\ Same

Cycle(t) ==
    \/ AskDay(t) \/ AskMonth(t) \/ Generate(t) \/ Generated(t) \/ NextQuestion(t)
    \/ Scrape(t) \/ Extract(t) \/ Researched(t) \/ Synthesize(t) \/ Finish(t)

Next ==
    \/ \E t \in Cyclers : Cycle(t)
    \/ \E t \in Gappers : StartRounds(t) \/ AskRound(t) \/ Dig(t) \/ EndRound(t)
    \/ Others \/ Midnight \/ Restart

Spec == Init /\ [][Next]_vars

-----------------------------------------------------------------------------

TypeOK ==
    /\ today \in Nat /\ before \in Nat /\ days \in 0..1
    /\ \A t \in Threads :
          /\ doing[t].left \in 0..(Gaps + Scrapes + Domains + PerRound)
          /\ doing[t].questions \in 0..(Questions + Rounds) /\ doing[t].cost \in 0..CycleLimit

\* What one admission of the budget can cost.
PerCycle == Gaps + Questions * Scrapes + CycleLimit + Domains

\* Once the log shows that a limit is reached, a thread of research still makes
\* the charges of one cycle or one round on that day, and no more, whoever else
\* spends, unless its question about the budget went unanswered (budget.py:126).
OverspendBounded ==
    /\ \A t \in Cyclers : beyond[t] <= PerCycle
    /\ \A t \in Gappers : beyond[t] <= PerRound

=============================================================================
