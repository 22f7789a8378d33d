------------------------------- MODULE Contexts -------------------------------
(***************************************************************************)
(* What a lieutenant is told before a task: get_context_window of          *)
(* src/core/memory/manager.py, which recalls memories of one kind after    *)
(* the other, drops those that are superseded or archived, and packs the   *)
(* rest into a budget while others write; and get_context_window of        *)
(* src/core/knowledge/graph.py, whose threads raise the access counts of   *)
(* the entities they tell of.                                              *)
(*                                                                         *)
(* A query matches any of the memories, by words or by a vector.  The      *)
(* rank of a memory is its importance and, afterwards, a boost for its     *)
(* age.  recall wants to store the accesses; if that fails it rolls back   *)
(* and what it has recalled is read again.                                 *)
(***************************************************************************)
EXTENDS Integers, Sequences, FiniteSets, SequencesExt, FiniteSetsExt, Functions

CONSTANTS
    Tiers,         \* a sequence of memory types
    Shapes,        \* memories there may be: kind, importance, boost, size
    Wanted,        \* rows that are recalled of a kind (15)
    Budget,        \* token_budget, in units of size
    MaxMemories,   \* bound on memories, at first and with those that replace others
    Tellers,       \* threads that tell of entities of the graph
    Entities,
    MaxTold        \* bound on tellings

ContextsAssumption ==
    /\ Wanted \in Nat \ {0} /\ Budget \in Nat /\ MaxMemories \in Nat /\ MaxTold \in Nat
    /\ \A s \in Shapes : s.kind \in ToSet(Tiers) /\ {s.importance, s.boost, s.size} \subseteq Nat

VARIABLES
    shown,       \* the rows: shape, stale (superseded or archived), gone
    window,      \* what has been recalled of which kinds, and what is in the window
    quiet,       \* nobody has written since the first recall
    access,      \* access_count of each entity
    teller,      \* what each thread has read of which entities; "idle" or "told"
    tellings,    \* how often each entity was told of in a window that was committed
    clashed      \* entities that two threads told of at the same time

graph == <<access, teller, tellings, clashed>>
vars == <<shown, window, quiet, graph>>

\* matched and recalled: rows of all kinds so far; read: those that were stale when read
NoWindow == [pc |-> "recall", next |-> 1, matched |-> {}, recalled |-> {}, stale |-> {}, entries |-> <<>>]

\* It does not matter which row comes first.
Init ==
    /\ \E n \in 0..(MaxMemories - 1) : \E s \in [1..n -> Shapes], old \in SUBSET (1..n) :
          /\ \A i, j \in 1..n : i < j => s[i].importance + s[i].boost <= s[j].importance + s[j].boost
          /\ shown = [i \in 1..n |-> [shape |-> s[i], stale |-> i \in old, gone |-> FALSE]]
    /\ window = NoWindow /\ quiet = TRUE
    /\ access = [e \in Entities |-> 0] /\ tellings = access /\ clashed = {}
    /\ teller = [t \in Tellers |-> [pc |-> "idle", read |-> <<>>]]

-----------------------------------------------------------------------------
(* The window of memories.                                                 *)

Shape(i) == shown[i].shape
OfKind == {i \in DOMAIN shown : Shape(i).kind = Tiers[window.next] /\ ~shown[i].gone}

\* The first n of some rows by importance
Most(n, rows) ==
    {S \in kSubset(Min({n, Cardinality(rows)}), rows) :
        \A i \in S, j \in rows \ S : Shape(i).importance >= Shape(j).importance}

\* What matches: the hits of _vector_recall, which are no more than are wanted; if it finds
\* none, what search finds; or all there are, if there is no query.
Matches == SUBSET OfKind

\* The best of what matches
Recall ==
    /\ window.pc = "recall" /\ window.next <= Len(Tiers)
    /\ \E M \in Matches : \E S \in Most(Wanted, M) :
          window' = [window EXCEPT !.pc = "refresh", !.matched = @ \cup M, !.recalled = @ \cup S,
                                   !.stale = @ \cup {i \in S : shown[i].stale}]
    /\ UNCHANGED <<shown, quiet, graph>>

\* The accesses are flushed, and never committed; or that fails, and each row is read
\* again, which raises if it is gone: then there is no window.
Refresh ==
    /\ window.pc = "refresh"
    /\ LET mine == {i \in window.recalled : Shape(i).kind = Tiers[window.next]}
           onward == [window EXCEPT !.pc = "recall", !.next = @ + 1]
       IN \/ window' = onward
          \/ IF \E i \in mine : shown[i].gone THEN window' = [window EXCEPT !.pc = "raised"]
             ELSE window' = [onward EXCEPT !.stale = @ \cup {i \in mine : shown[i].stale}]
    /\ UNCHANGED <<shown, quiet, graph>>

Rank(i) == Shape(i).importance + Shape(i).boost
Size(s) == FoldLeft(LAMBDA n, i : n + Shape(i).size, 0, s)
Fits(s) == Size(s) <= Budget

\* A mutant: what does not fit is passed over.
PackedPast(order) ==
    FoldLeft(LAMBDA s, i : IF Fits(Append(s, i)) THEN Append(s, i) ELSE s, <<>>, order)

\* Up to the first that does not fit
Packed(order) == SubSeq(order, 1, Max({n \in 0..Len(order) : Fits(SubSeq(order, 1, n))}))

\* By rank, those of the same rank in any order
Pack ==
    /\ window.pc = "recall" /\ window.next > Len(Tiers)
    /\ \E order \in SetToSeqs(window.recalled \ window.stale) :
          /\ \A i, j \in DOMAIN order : i < j => Rank(order[i]) >= Rank(order[j])
          /\ window' = [window EXCEPT !.pc = "done", !.entries = Packed(order)]
    /\ UNCHANGED <<shown, quiet, graph>>

\* store_fact or the archiving of compression: a newer memory of the kind stands for an old one.
Replace ==
    /\ window.pc \in {"recall", "refresh"} /\ Len(shown) < MaxMemories
    /\ \E i \in DOMAIN shown :
          /\ ~shown[i].stale /\ ~shown[i].gone
          /\ shown' = Append([shown EXCEPT ![i].stale = TRUE],
                             [shape |-> Shape(i), stale |-> FALSE, gone |-> FALSE])
    /\ quiet' = FALSE /\ UNCHANGED <<window, graph>>

CleanUp ==
    /\ window.pc \in {"recall", "refresh"} /\ quiet
    /\ \E i \in DOMAIN shown : ~shown[i].gone /\ shown' = [shown EXCEPT ![i].gone = TRUE]
    /\ quiet' = FALSE /\ UNCHANGED <<window, graph>>

-----------------------------------------------------------------------------
(* The window of the graph. It shares nothing with the other one, so it is *)
(* enough to look at it in an empire without memories.                     *)

Busy == {t \in Tellers : teller[t].pc = "told"}

\* search_entities: what was found is told of, and its access counts are read.
Tell(t) ==
    /\ shown = <<>> /\ teller[t].pc = "idle" /\ SumFunction(tellings) + Cardinality(Busy) < MaxTold
    /\ \E E \in (SUBSET Entities) \ {{}} :
          /\ teller' = [teller EXCEPT ![t] = [pc |-> "told", read |-> [e \in E |-> access[e]]]]
          /\ clashed' = clashed \cup {e \in E : \E u \in Busy : e \in DOMAIN teller[u].read}
    /\ UNCHANGED <<shown, window, quiet, access, tellings>>

\* What was read, plus one, is written and committed, or nothing is.
Bump(t) ==
    /\ teller[t].pc = "told"
    /\ LET E == DOMAIN teller[t].read IN
       \/ /\ access' = [e \in Entities |-> IF e \in E THEN teller[t].read[e] + 1 ELSE access[e]]
          /\ tellings' = [e \in Entities |-> IF e \in E THEN tellings[e] + 1 ELSE tellings[e]]
       \/ UNCHANGED <<access, tellings>>
    /\ teller' = [teller EXCEPT ![t] = [pc |-> "idle", read |-> <<>>]]
    /\ UNCHANGED <<shown, window, quiet, clashed>>

Next == Recall \/ Refresh \/ Pack \/ Replace \/ CleanUp \/ \E t \in Tellers : Tell(t) \/ Bump(t)

Spec == Init /\ [][Next]_vars

-----------------------------------------------------------------------------

TypeOK ==
    /\ Len(shown) <= MaxMemories
    /\ window.pc \in {"recall", "refresh", "raised", "done"} /\ window.next \in 1..(Len(Tiers) + 1)
    /\ window.stale \subseteq window.recalled /\ window.recalled \subseteq window.matched
    /\ DOMAIN access = Entities

\* A window holds the best of what was recalled and not stale when it was read, up to the
\* first that does not fit: nothing in it ranks below something left out.  What matched
\* is missing only if more rows of a kind matched than are recalled, when stale ones
\* may stand in the way of current ones; somebody who writes meanwhile can bring a
\* memory in beside the one it replaces, but only of different reads (manager.py:741).
WindowRight ==
    window.pc = "done" =>
        LET in == ToSet(window.entries)
            out == (window.recalled \ window.stale) \ in
            few == \A k \in ToSet(Tiers) : Cardinality({i \in window.matched : Shape(i).kind = k}) <= Wanted
        IN /\ Fits(window.entries) /\ in \cap window.stale = {}
           /\ \A i \in in, j \in out : Rank(i) >= Rank(j)
           /\ out # {} => ~Fits(window.entries \o SetToSeq(out))
           /\ few => window.recalled = window.matched
           /\ quiet => \A i \in in : ~shown[i].stale /\ ~shown[i].gone

\* An entity's count is how often it was told of, unless two threads did at the same
\* time: then it may be less, never more (graph.py:688).
CountsRight ==
    \A e \in Entities : /\ access[e] <= tellings[e]
                        /\ e \notin clashed => access[e] = tellings[e]

ContextsRight == WindowRight /\ CountsRight

=============================================================================
