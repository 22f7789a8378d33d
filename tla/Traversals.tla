------------------------------ MODULE Traversals ------------------------------
(***************************************************************************)
(* Reading the knowledge graph while others write it: get_neighbors,       *)
(* find_path and get_subgraph of src/core/knowledge/graph.py over          *)
(* src/db/repositories/knowledge.py.  Every query is a statement of its    *)
(* own and sees what is committed by then, so a traversal may see the      *)
(* graph as it never was.  Relations are walked in both directions and     *)
(* come in any order; entities of other empires are walked through but not *)
(* returned.  The rows are written as in Knowledge.                        *)
(***************************************************************************)
EXTENDS Integers, Sequences, FiniteSets, SequencesExt

CONSTANTS
    Nodes,         \* entities
    Foreign,       \* those of them that belong to another empire
    Links,         \* relations that may be written
    Origin, Goal,   \* where a traversal begins; where a path is to lead
    Depths,        \* max_depth
    MaxWrites      \* bound: writes during a traversal

TraversalsAssumption ==
    /\ Links \subseteq Nodes \X Nodes /\ Origin \in Nodes \ Foreign /\ Goal \in Nodes \ Foreign /\ Origin # Goal
    /\ Depths \subseteq Nat \ {0} /\ MaxWrites \in Nat

VARIABLES
    living, links,   \* entities that are there; relations between two of them
    ever,            \* relations that were there at some time
    writes,          \* writes since the traversal began
    walk             \* the traversal

graph == <<living, links, ever, writes>>
vars == <<graph, walk>>

Walk(kind, depth) ==
    [kind |-> kind, depth |-> depth, pc |-> "read", visited |-> {Origin}, level |-> 1,
     queue |-> IF kind = "path" THEN <<[node |-> Origin, path |-> <<>>]>>
               ELSE <<[node |-> Origin]>>,
     next |-> {}, found |-> {}, path |-> <<>>, nodes |-> {}, edges |-> {}]

Init ==
    /\ living = Nodes /\ writes = 0
    /\ links \in SUBSET Links
    /\ ever = links
    /\ \E k \in {"neighbors", "subgraph", "path"}, d \in Depths : walk = Walk(k, d)

-----------------------------------------------------------------------------

\* get_relations in both directions, as the entities at the other ends
Beside(n) == {m \in Nodes : <<n, m>> \in links \/ <<m, n>> \in links}

Reading(kinds) == walk.pc = "read" /\ walk.kind \in kinds
Foremost == Head(walk.queue).node

\* get_neighbors: an entity of this depth is asked for its relations.
Expand ==
    /\ Reading({"neighbors", "subgraph"}) /\ walk.queue # <<>>
    /\ LET new == Beside(Foremost) \ walk.visited IN
       walk' = [walk EXCEPT !.queue = Tail(@), !.visited = @ \cup new, !.next = @ \cup new]
    /\ UNCHANGED graph

\* The entities that were found are fetched; those that are gone or foreign are left out.
Fetched(S) == {[node |-> n, depth |-> walk.level] : n \in (S \cap living) \ Foreign}

Descend ==
    /\ Reading({"neighbors", "subgraph"}) /\ walk.queue = <<>>
    /\ \E order \in SetToSeqs(walk.next) :
          walk' = [walk EXCEPT
              !.found = @ \cup Fetched(walk.next), !.level = @ + 1, !.next = {},
              !.queue = [i \in DOMAIN order |-> [node |-> order[i]]],
              !.pc = IF walk.level < walk.depth /\ walk.next # {} THEN "read"
                     ELSE IF walk.kind = "subgraph" THEN "center" ELSE "done"]
    /\ UNCHANGED graph

\* get_subgraph, in another session: the center again, ...
Center ==
    /\ walk.pc = "center"
    /\ \E order \in SetToSeqs({f.node : f \in walk.found} \cup ({Origin} \cap living)) :
          walk' = [walk EXCEPT !.pc = "edges", !.nodes = ToSet(order),
                               !.queue = [i \in DOMAIN order |-> [node |-> order[i]]]]
    /\ UNCHANGED graph

\* ... and the relations from every node to another.
Edges ==
    /\ walk.pc = "edges"
    /\ walk' = IF walk.queue = <<>> THEN [walk EXCEPT !.pc = "done"]
               ELSE [walk EXCEPT !.queue = Tail(@),
                                 !.edges = @ \cup {p \in links : p[1] = Foremost /\ p[2] \in walk.nodes}]
    /\ UNCHANGED graph

\* A mutant: find_path goes one entity too far.
TooFarByOne(path) == Len(path) > walk.depth

TooFar(path) == Len(path) >= walk.depth

\* find_path: the first of the queue is asked for its relations, unless it is too far.
Search ==
    /\ Reading({"path"}) /\ walk.queue # <<>>
    /\ LET here == Head(walk.queue)
           near == IF TooFar(here.path) THEN {} ELSE Beside(here.node)
           new == near \ walk.visited
       IN IF Goal \in near
          THEN walk' = [walk EXCEPT !.pc = "done", !.path = Append(here.path, Goal)]
          ELSE \E order \in SetToSeqs(new) :
                  walk' = [walk EXCEPT
                      !.visited = @ \cup new,
                      !.queue = Tail(@) \o [i \in DOMAIN order |->
                          [node |-> order[i], path |-> Append(here.path, order[i])]]]
    /\ UNCHANGED graph

NoPath ==
    /\ Reading({"path"}) /\ walk.queue = <<>>
    /\ walk' = [walk EXCEPT !.pc = "done"]
    /\ UNCHANGED graph

-----------------------------------------------------------------------------

Writing == walk.pc # "done" /\ writes < MaxWrites /\ writes' = writes + 1

\* Knowledge's Relate and Prune
Link ==
    /\ Writing
    /\ \E p \in Links : /\ {p[1], p[2]} \subseteq living
                        /\ links' = links \cup {p} /\ ever' = ever \cup {p}
    /\ UNCHANGED <<living, walk>>

Forget ==
    /\ Writing
    /\ \E n \in living : /\ living' = living \ {n}
                         /\ links' = {p \in links : n \notin {p[1], p[2]}}
    /\ UNCHANGED <<ever, walk>>

Next == Expand \/ Descend \/ Center \/ Edges \/ Search \/ NoPath \/ Link \/ Forget

Spec == Init /\ [][Next]_vars

-----------------------------------------------------------------------------

TypeOK ==
    /\ living \subseteq Nodes /\ links \subseteq ever /\ ever \subseteq Links
    /\ walk.visited \subseteq Nodes /\ walk.edges \subseteq Links

\* The entities at each distance from the start, by these relations
Within(L) ==
    LET in[k \in 0..Cardinality(Nodes)] ==
            IF k = 0 THEN {Origin}
            ELSE in[k - 1] \cup {m \in Nodes : \E n \in in[k - 1] : <<n, m>> \in L \/ <<m, n>> \in L}
    IN in

At(L, k) == Within(L)[k] \ Within(L)[k - 1]

\* In a graph that nobody writes a traversal finds what there is: the neighbours within the
\* depth, at their distance, all the relations among them, and a shortest path if there is
\* one that is short enough.  Otherwise what it finds was connected at some time, no
\* nearer than it could have been (knowledge.py:253, 339; graph.py:420).
TraversalsRight ==
    walk.pc = "done" =>
        LET steps == <<Origin>> \o walk.path
            quiet == writes = 0
            near == {k \in 1..walk.depth : Goal \in At(links, k)}
        IN /\ walk.kind # "path" /\ quiet =>
                 walk.found = UNION {{[node |-> n, depth |-> k] : n \in At(links, k) \ Foreign} :
                                        k \in 1..walk.depth}
           /\ walk.kind = "subgraph" /\ quiet =>
                 walk.edges = {p \in links : {p[1], p[2]} \subseteq walk.nodes}
           /\ walk.kind = "path" /\ quiet =>
                 IF near = {} THEN walk.path = <<>> ELSE Len(walk.path) \in near
           /\ \A f \in walk.found : f.node \in Within(ever)[f.depth]
           /\ \A i \in 1..(Len(steps) - 1) : \/ <<steps[i], steps[i + 1]>> \in ever
                                             \/ <<steps[i + 1], steps[i]>> \in ever

=============================================================================
