-------------------------------- MODULE Sweeps --------------------------------
(***************************************************************************)
(* IntelligenceSweep of src/core/search/sweep.py: source after source is   *)
(* asked for discoveries, and each that is new is stored as a fact and, if *)
(* its kind is known, as an entity.  Whether it is new is decided by a     *)
(* search in what is known, so either is possible.  What raises inside a   *)
(* source ends that source alone; what a discovery's storing raises is     *)
(* swallowed.  Searches and feeds that fail find nothing (web.py,          *)
(* feeds.py).  The sweep's numbers go to the scheduler and the panel.      *)
(***************************************************************************)
EXTENDS Naturals, Sequences, FiniteSets

CONSTANTS MaxFinds     \* bound on the discoveries of a source

SweepsAssumption == MaxFinds \in Nat

VARIABLES
    sweep,     \* the SweepResult so far: numbers, and the sources in errors
    source,    \* the source that is asked, as an index
    left,      \* its discoveries that are still to be looked at
    looking,   \* what is done with the next one: "ask", "look", "store" or "relate"
    kept,      \* facts and entities that were stored in fact
    skipped    \* discoveries that were known already; that an error left unseen

vars == <<sweep, source, left, looking, kept, skipped>>

Sources == <<"feeds", "news", "huggingface", "github", "arxiv">>
Typed == {"huggingface", "github", "arxiv"}     \* whose discoveries have an entity type

Init ==
    /\ sweep = [checked |-> 0, found |-> 0, novel |-> 0, facts |-> 0, entities |-> 0, errors |-> {}]
    /\ source = 1 /\ left = 0 /\ looking = "ask"
    /\ kept = [facts |-> 0, entities |-> 0] /\ skipped = [known |-> 0, unseen |-> 0]

Swept == source > Len(Sources)

-----------------------------------------------------------------------------

\* A mutant: an error ends the sweep.
Stops == /\ source' = Len(Sources) + 1 /\ left' = 0 /\ looking' = "ask"
         /\ sweep' = [sweep EXCEPT !.errors = @ \cup {source}]

\* What raises is noted, and the next source is asked.
Raises == /\ source' = source + 1 /\ left' = 0 /\ looking' = "ask"
          /\ sweep' = [sweep EXCEPT !.errors = @ \cup {source}]

\* The discovery is done with.
Onward == /\ left' = left - 1 /\ looking' = (IF left = 1 THEN "ask" ELSE "look")
          /\ source' = (IF left = 1 THEN source + 1 ELSE source)

\* _sweep_feeds and the others
Ask ==
    /\ ~Swept /\ looking = "ask"
    /\ \/ Raises
       \/ \E n \in 0..MaxFinds :
             /\ sweep' = [sweep EXCEPT !.checked = @ + 1, !.found = @ + n]
             /\ left' = n
             /\ IF n = 0 THEN source' = source + 1 /\ UNCHANGED looking
                ELSE looking' = "look" /\ UNCHANGED source
    /\ UNCHANGED <<kept, skipped>>

\* _is_novel searches memories and the graph, which may raise.
Look ==
    /\ looking = "look"
    /\ \/ sweep' = [sweep EXCEPT !.novel = @ + 1] /\ looking' = "store"
          /\ UNCHANGED <<source, left, skipped>>
       \/ Onward /\ skipped' = [skipped EXCEPT !.known = @ + 1] /\ UNCHANGED sweep
       \/ Raises /\ skipped' = [skipped EXCEPT !.unseen = @ + left]
    /\ UNCHANGED kept

\* _store_discovery: the fact, or nothing, ...
Store ==
    /\ looking = "store"
    /\ \/ /\ kept' = [kept EXCEPT !.facts = @ + 1]
          /\ sweep' = [sweep EXCEPT !.facts = @ + 1]
       \/ UNCHANGED <<kept, sweep>>
    /\ IF Sources[source] \in Typed THEN looking' = "relate" /\ UNCHANGED <<left, source>>
       ELSE Onward
    /\ UNCHANGED skipped

\* ... and then, whatever came of it, the entity.
Relate ==
    /\ looking = "relate"
    /\ \/ /\ kept' = [kept EXCEPT !.entities = @ + 1]
          /\ sweep' = [sweep EXCEPT !.entities = @ + 1]
       \/ UNCHANGED <<kept, sweep>>
    /\ Onward /\ UNCHANGED skipped

Next == Ask \/ Look \/ Store \/ Relate

Spec == Init /\ [][Next]_vars

-----------------------------------------------------------------------------

TypeOK ==
    /\ source \in 1..(Len(Sources) + 1) /\ left \in 0..MaxFinds
    /\ looking \in {"ask", "look", "store", "relate"}
    /\ sweep.errors \subseteq DOMAIN Sources

\* The numbers of a sweep are right: each source was checked or is in
\* errors, what was found was novel, known already or left unseen by an error, and what
\* is said to be stored is (sweep.py:86).
SweepsTold ==
    /\ Swept => sweep.checked + Cardinality(sweep.errors) >= Len(Sources)
    /\ Swept => sweep.found = sweep.novel + skipped.known + skipped.unseen
    /\ sweep.errors = {} => skipped.unseen = 0
    /\ sweep.facts = kept.facts /\ sweep.entities = kept.entities /\ kept.facts <= sweep.novel

=============================================================================
