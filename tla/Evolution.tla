------------------------------ MODULE Evolution ------------------------------
(***************************************************************************)
(* Evolution cycles: EvolutionCycleManager of src/core/evolution/cycle.py  *)
(* and PromptEvolver of src/core/evolution/prompt_evolution.py over the    *)
(* tables of src/db/repositories/evolution.py.  The scheduler asks         *)
(* should_run_cycle first; the god panel and the JSON API do not.          *)
(*                                                                         *)
(* The cycle's row is flushed before the proposals are collected and       *)
(* committed after.  On SQLite this keeps the write lock all the while     *)
(* (see SqliteSessions): another runner waits, and what the collection     *)
(* itself wants to store in sessions of its own fails.  On PostgreSQL the  *)
(* row is invisible until then.  Proposals and prompts are identified by   *)
(* the cycle and the lieutenant they came from.                            *)
(***************************************************************************)
EXTENDS Naturals, Sequences, FiniteSetsExt

CONSTANTS
    Lts,         \* the number of active lieutenants, collected in order
    Seasoned,    \* those with min_tasks_for_evolution tasks or more
    Runners,     \* threads that run cycles
    Scheduler,   \* the one of them that asks first
    MaxCycles    \* bound: how many cycles are begun

EvolutionAssumption ==
    Lts \in Nat \ {0} /\ Seasoned \subseteq 1..Lts /\ MaxCycles \in Nat /\ Scheduler \in Runners

VARIABLES
    backend,     \* "sqlite" or "postgres"
    rows,        \* EvolutionProposal in the order of created_at
    cycles,      \* EvolutionCycle, begun as the i-th; "lost" if never committed
    recent,      \* cycles completed within cooldown_hours
    runner,      \* what each runner is doing
    prompts,     \* each lieutenant's system prompt, after those it replaced
    failed,      \* whether a proposal was not stored or not reviewed
    overlap,     \* whether two runners were ever inside cycles together
    cut          \* bound: whether a crash or an error has cut a cycle short

tables == <<rows, cycles, recent>>
ghosts == <<failed, overlap>>
vars == <<backend, tables, runner, prompts, ghosts, cut>>

First == [cycle |-> 0, lt |-> 0]      \* the prompt a lieutenant is made with
Nobody == [pc |-> "idle", cycle |-> 0, lt |-> 0, found |-> <<>>, seen |-> First]

Init ==
    /\ backend \in {"sqlite", "postgres"}
    /\ rows = <<>> /\ cycles = <<>> /\ recent = {}
    /\ runner = [r \in Runners |-> Nobody]
    /\ prompts = [l \in 1..Lts |-> <<[old |-> First, new |-> First]>>]
    /\ failed = FALSE /\ overlap = FALSE /\ cut = FALSE

At(r, label) == runner[r].pc = label
Committed == {i \in DOMAIN cycles : cycles[i].status \notin {"collecting", "lost"}}
Active == {i \in Committed : cycles[i].status # "completed"}
Locked == backend = "sqlite" /\ \E r \in Runners : At(r, "collect")

-----------------------------------------------------------------------------

Latest == {i \in Committed : \A j \in Committed : cycles[j].number <= cycles[i].number}

\* EvolutionRepository.should_run_cycle
ShouldRun == Active = {} /\ (Latest # {} => \E i \in Latest : i \notin recent)

\* The scheduler's job goes on only when it should; the others begin at once.
Ask(r) ==
    /\ r = Scheduler /\ At(r, "idle") /\ Len(cycles) < MaxCycles
    /\ ShouldRun
    /\ runner' = [runner EXCEPT ![r].pc = "begin"]
    /\ UNCHANGED <<backend, tables, prompts, ghosts, cut>>

\* create_cycle: numbered after the last one that is committed, and flushed.
Begin(r) ==
    /\ At(r, IF r = Scheduler THEN "begin" ELSE "idle") /\ ~Locked /\ Len(cycles) < MaxCycles
    /\ LET number == IF Latest = {} THEN 1
                     ELSE cycles[CHOOSE i \in Latest : TRUE].number + 1
       IN cycles' = Append(cycles, [number |-> number, status |-> "collecting"])
    /\ runner' = [runner EXCEPT ![r] =
                     [Nobody EXCEPT !.pc = "collect", !.cycle = Len(cycles) + 1, !.lt = 1]]
    /\ overlap' = (overlap \/ \E q \in Runners \ {r} : ~At(q, "idle") /\ ~At(q, "begin"))
    /\ UNCHANGED <<backend, rows, recent, prompts, failed, cut>>

\* Bound: one failure to store or to review, except where SQLite's lock is the cause.
Fails == (~failed \/ backend = "sqlite") /\ failed' = TRUE

\* _collect_proposals for one lieutenant: a failure to propose is passed over; a
\* proposal is in the list even when its row could not be stored.
Collect(r) ==
    LET me == runner[r]
        p == [cycle |-> me.cycle, lt |-> me.lt] IN
    /\ At(r, "collect") /\ me.lt <= Lts
    /\ \/ /\ runner' = [runner EXCEPT ![r].lt = @ + 1]
          /\ UNCHANGED <<rows, failed>>
       \/ /\ runner' = [runner EXCEPT ![r].lt = @ + 1, ![r].found = Append(@, p)]
          /\ \/ /\ backend = "postgres"
                /\ rows' = Append(rows, [of |-> p, status |-> "pending", by |-> First])
                /\ UNCHANGED failed
             \/ Fails /\ UNCHANGED rows
    /\ UNCHANGED <<backend, cycles, recent, prompts, overlap, cut>>

\* update_cycle(status=...) and commit, when a phase is over.
Advance(r, from, to, status) ==
    /\ At(r, from)
    /\ cycles' = [cycles EXCEPT ![runner[r].cycle].status = status]
    /\ runner' = [runner EXCEPT ![r].pc = to]
    /\ UNCHANGED <<backend, rows, recent, prompts, ghosts, cut>>

StartReviews(r) == runner[r].lt > Lts /\ Advance(r, "collect", "review", "reviewing")

Pending == {i \in DOMAIN rows : rows[i].status = "pending"}
\* A mutant: get_pending without the order.
NewestPending == CHOOSE i \in Pending : \A j \in Pending : j <= i

FirstPending == CHOOSE i \in Pending : \A j \in Pending : i <= j

\* _review_proposals for one proposal: the call fails, or the model's verdict,
\* approve or reject, is written to the proposal that has been pending longest.
Review(r) ==
    /\ At(r, "review") /\ runner[r].found # <<>>
    /\ \/ Fails /\ UNCHANGED rows
       \/ /\ rows' = IF Pending = {} THEN rows ELSE
                        [rows EXCEPT ![FirstPending].status = "decided",
                                     ![FirstPending].by = Head(runner[r].found)]
          /\ UNCHANGED failed
    /\ runner' = [runner EXCEPT ![r].found = Tail(@)]
    /\ UNCHANGED <<backend, cycles, recent, prompts, overlap, cut>>

StartExecution(r) == runner[r].found = <<>> /\ Advance(r, "review", "execute", "executing")

\* should_evolve: a lieutenant with too few tasks is passed over.
NextSeasoned(l) == Min({n \in Seasoned : n > l} \cup {Lts + 1})

\* _execute_approved, _extract_learnings and _feed_back_to_memory: applying one
\* may fail and is passed over, storing a learning may raise and end the cycle
\* as it is.  What is applied goes to Knowledge and Memories.
Execute(r) ==
    /\ At(r, "execute")
    /\ \/ runner' = [runner EXCEPT ![r].pc = "prompts", ![r].lt = NextSeasoned(0)]
       \/ runner' = [runner EXCEPT ![r] = Nobody]
    /\ UNCHANGED <<backend, tables, prompts, ghosts, cut>>

\* evolve_prompt for one lieutenant: its prompt is read, the model asked.
ReadPrompt(r) ==
    /\ At(r, "prompts") /\ runner[r].lt <= Lts
    /\ LET history == prompts[runner[r].lt] IN
       runner' = [runner EXCEPT ![r].pc = "apply", ![r].seen = history[Len(history)].new]
    /\ UNCHANGED <<backend, tables, prompts, ghosts, cut>>

\* apply_evolution: the new prompt replaces whatever is there, and the history
\* gets the one that was read; where nothing better is proposed it stays.
ApplyPrompt(r) ==
    LET me == runner[r]
        entry == [old |-> me.seen, new |-> [cycle |-> me.cycle, lt |-> me.lt]] IN
    /\ At(r, "apply")
    /\ prompts' \in {prompts, [prompts EXCEPT ![me.lt] = Append(@, entry)]}
    /\ runner' = [runner EXCEPT ![r].pc = "prompts", ![r].lt = NextSeasoned(@), ![r].seen = First]
    /\ UNCHANGED <<backend, tables, ghosts, cut>>

\* complete_cycle
Complete(r) ==
    /\ At(r, "prompts") /\ runner[r].lt > Lts
    /\ cycles' = [cycles EXCEPT ![runner[r].cycle].status = "completed"]
    /\ recent' = recent \cup {runner[r].cycle}
    /\ runner' = [runner EXCEPT ![r] = Nobody]
    /\ UNCHANGED <<backend, rows, prompts, ghosts, cut>>

-----------------------------------------------------------------------------
\* Runners stop where they are: what they had not committed is rolled back.
Stop(R) ==
    /\ ~cut /\ cut' = TRUE
    /\ runner' = [r \in Runners |-> IF r \in R THEN Nobody ELSE runner[r]]
    /\ cycles' = [i \in DOMAIN cycles |->
                     IF i \notin Committed /\ \E r \in R : runner[r].cycle = i
                     THEN [cycles[i] EXCEPT !.status = "lost"] ELSE cycles[i]]
    /\ UNCHANGED <<backend, rows, recent, prompts, ghosts>>

\* The process restarts, or the commit that ends a phase of run_full_cycle raises.
Crash == Stop(Runners)
Raise(r) ==
    /\ \/ At(r, "review") /\ runner[r].found = <<>>
       \/ runner[r].lt > Lts /\ (At(r, "collect") \/ At(r, "prompts"))
    /\ Stop({r})

\* The cooldown passes; it is nothing to anyone once no cycle is left to begin.
CoolDown ==
    /\ Len(cycles) < MaxCycles /\ recent # {} /\ recent' = {}
    /\ UNCHANGED <<backend, rows, cycles, runner, prompts, ghosts, cut>>

Cycle(r) ==
    \/ Begin(r) \/ Collect(r) \/ StartReviews(r) \/ Review(r) \/ StartExecution(r)
    \/ Execute(r) \/ ReadPrompt(r) \/ ApplyPrompt(r) \/ Complete(r)

Next == (\E r \in Runners : Ask(r) \/ Cycle(r) \/ Raise(r)) \/ Crash \/ CoolDown

Spec == Init /\ [][Next]_vars

-----------------------------------------------------------------------------

TypeOK ==
    /\ \A i \in DOMAIN rows : rows[i].status \in {"pending", "decided"}
    /\ \A i \in DOMAIN cycles : /\ cycles[i].number \in 1..MaxCycles
          /\ cycles[i].status \in {"collecting", "reviewing", "executing", "completed", "lost"}
    /\ recent \subseteq Committed
    /\ \A r \in Runners : runner[r].cycle \in 0..Len(cycles) /\ runner[r].lt \in 0..(Lts + 1)

\* A stored verdict is the one on that proposal, as long as no proposal failed to
\* be stored or reviewed before, no cycle was cut short, and no two overlapped;
\* after any of these, verdicts go to other proposals than those reviewed
\* (cycle.py:217).
OwnVerdict ==
    failed \/ overlap \/ cut \/
        \A i \in DOMAIN rows : rows[i].status # "pending" => rows[i].by = rows[i].of

\* Each prompt in a lieutenant's history is the one that was replaced, unless
\* cycles overlapped: then both name the prompt that was there before either.
HistoryChains ==
    overlap \/ \A l \in 1..Lts : \A i \in 2..Len(prompts[l]) :
                  prompts[l][i].old = prompts[l][i - 1].new

WrittenAsRead == OwnVerdict /\ HistoryChains

\* A cycle that was interrupted after its first commit stays active for ever, and
\* the scheduler never begins another: only a forced one can run.
Interrupted == \E i \in Active : \A r \in Runners : runner[r].cycle # i
InterruptedBlocks ==
    [][Interrupted => Interrupted' /\ (At(Scheduler, "idle") => At(Scheduler, "idle")')]_vars

=============================================================================
