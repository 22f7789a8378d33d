------------------------------- MODULE Rollbacks -------------------------------
(***************************************************************************)
(* The evolution executor of src/core/evolution/executor.py, which nothing *)
(* in the repository calls: it applies approved proposals, one or a batch, *)
(* and rolls one back that it remembers having applied.  To apply means to *)
(* store memories; every store and every write of the proposal's row is a  *)
(* transaction of its own, which may fail, and the process may end between *)
(* any two.                                                                *)
(*                                                                         *)
(* What is extracted into the graph before, whose errors are caught, is a  *)
(* report to Knowledge.                                                    *)
(***************************************************************************)
EXTENDS Integers, Sequences, FiniteSets, SequencesExt

CONSTANTS
    Proposals,
    HighRisk,      \* those whose failure ends a batch
    MaxOrders,     \* bound on batches and rollbacks
    MaxChanges     \* bound on applications of one proposal

RollbacksAssumption ==
    HighRisk \subseteq Proposals /\ IsFiniteSet(Proposals) /\ {MaxOrders, MaxChanges} \subseteq Nat

VARIABLES
    marked,        \* the proposals' rows: applied, undone
    learned,       \* memories of each: changes, rules, undone
    applied,       \* _applied: what this process could roll back
    order,         \* what is being done: pc, queue of the batch, what of it was begun, its end
    judged,        \* status of the last result for each
    given          \* orders so far

vars == <<marked, learned, applied, order, judged, given>>

Idle == [pc |-> "idle", queue |-> <<>>, begun |-> <<>>, ended |-> FALSE]

Init ==
    /\ marked = [p \in Proposals |-> [applied |-> FALSE, undone |-> FALSE]]
    /\ learned = [p \in Proposals |-> [changes |-> 0, rules |-> 0, undone |-> 0]]
    /\ applied = {} /\ order = Idle /\ given = 0
    /\ judged = [p \in Proposals |-> "none"]

At(label) == order.pc = label
Current == Head(order.queue)
Remember(kind) == learned' = [learned EXCEPT ![Current][kind] = @ + 1]

-----------------------------------------------------------------------------

\* batch_execute, of proposals that are not in it twice
Execute ==
    /\ At("idle") /\ given < MaxOrders /\ given' = given + 1
    /\ \E P \in (SUBSET Proposals) \ {{}} : \E q \in SetToSeqs(P) :
          order' = [pc |-> "change", queue |-> q, begun |-> <<Head(q)>>, ended |-> FALSE]
    /\ UNCHANGED <<marked, learned, applied, judged>>

\* The result is handed to the batch, which goes on unless this failed and its risk is high.
Return(status) ==
    /\ judged' = [judged EXCEPT ![Current] = status]
    /\ LET stop == status = "failed" /\ Current \in HighRisk
           rest == Tail(order.queue)
       IN order' = IF stop \/ rest = <<>>
                   THEN [Idle EXCEPT !.begun = order.begun, !.ended = stop]
                   ELSE [order EXCEPT !.pc = "change", !.queue = rest, !.begun = Append(@, Head(rest))]

\* apply_knowledge_update, apply_process_change or _apply_as_learning, and what is kept to roll
\* it back; if that raises, nothing was stored.
Apply ==
    /\ At("change")
    /\ \/ /\ learned[Current].changes < MaxChanges /\ Remember("changes")
          /\ applied' = applied \cup {Current}
          /\ order' = [order EXCEPT !.pc = "record"] /\ UNCHANGED judged
       \/ Return("failed") /\ UNCHANGED <<learned, applied>>
    /\ UNCHANGED <<marked, given>>

\* _record_execution: a failure is only logged.
Record ==
    /\ At("record") /\ order' = [order EXCEPT !.pc = "feed"]
    /\ \/ marked' = [marked EXCEPT ![Current].applied = TRUE]
       \/ UNCHANGED marked
    /\ UNCHANGED <<learned, applied, judged, given>>

\* feed_back_to_memory: if that raises, the result is "failed" although the change stays.
FeedBack ==
    /\ At("feed")
    /\ \/ Remember("rules") /\ Return("applied")
       \/ Return("failed") /\ UNCHANGED learned
    /\ UNCHANGED <<marked, applied, given>>

\* rollback, of what this process has applied: the row first
Undo ==
    /\ At("idle") /\ given < MaxOrders /\ given' = given + 1
    /\ \E p \in applied :
          \/ /\ marked' = [marked EXCEPT ![p].undone = TRUE]
             /\ order' = [Idle EXCEPT !.pc = "undo", !.queue = <<p>>]
          \/ UNCHANGED <<marked, order>>
    /\ UNCHANGED <<learned, applied, judged>>

\* A mutant: a rollback is not forgotten.
TellAndKeep ==
    /\ At("undo") /\ order' = Idle
    /\ \/ Remember("undone")
       \/ UNCHANGED learned
    /\ UNCHANGED <<marked, applied, judged, given>>

\* The memory of it, and then the proposal is forgotten. What it stored stays, its rule too.
Tell ==
    /\ At("undo") /\ order' = Idle
    /\ \/ Remember("undone") /\ applied' = applied \ {Current}
       \/ UNCHANGED <<learned, applied>>
    /\ UNCHANGED <<marked, judged, given>>

\* The process ends, and with it what could be rolled back.
Crash ==
    /\ applied # {} \/ ~At("idle")
    /\ order' = Idle /\ applied' = {} /\ judged' = [p \in Proposals |-> "none"]
    /\ UNCHANGED <<marked, learned, given>>

Next == Execute \/ Apply \/ Record \/ FeedBack \/ Undo \/ Tell \/ Crash

Spec == Init /\ [][Next]_vars

-----------------------------------------------------------------------------

TypeOK ==
    /\ applied \subseteq Proposals /\ given <= MaxOrders
    /\ order.pc \in {"idle", "change", "record", "feed", "undo"}
    /\ judged \in [Proposals -> {"none", "applied", "failed"}]

\* A row says that its proposal was applied, or rolled back, only if its change was stored;
\* no application is rolled back twice, whatever failed in between, nor made a rule
\* twice; and what is reported as applied was made a rule.  A row may say neither,
\* and a rule outlives its rollback (executor.py:238).
BooksKept ==
    \A p \in Proposals : LET l == learned[p] IN
        /\ marked[p].applied \/ marked[p].undone \/ p \in applied => l.changes > 0
        /\ l.undone + (IF p \in applied THEN 1 ELSE 0) <= l.changes /\ l.rules <= l.changes
        /\ judged[p] = "applied" => l.rules > 0
        /\ l.undone > 0 => marked[p].undone

\* A batch runs in its order, and nothing is begun after a failure of high risk.
BatchStops ==
    LET done == {i \in DOMAIN order.begun : i < Len(order.begun) \/ At("idle")} IN
    /\ \A i \in done : judged[order.begun[i]] # "none"
    /\ \A i \in done : judged[order.begun[i]] = "failed" /\ order.begun[i] \in HighRisk
                          => i = Len(order.begun) /\ order.ended

RollbacksRight == BooksKept /\ BatchStops

=============================================================================
