------------------------------ MODULE Knowledge ------------------------------
(***************************************************************************)
(* The knowledge graph: KnowledgeGraph of src/core/knowledge/graph.py and  *)
(* KnowledgeMaintainer of maintenance.py over the tables of                *)
(* src/db/repositories/knowledge.py.  Lieutenants, research and feeds      *)
(* report entities and relations, the scheduler and the panel decay, audit *)
(* and prune them, in threads of their own.  A transaction that writes     *)
(* back what it has read is two steps; writing a row that is gone fails    *)
(* it, deleting one only warns.                                            *)
(*                                                                         *)
(* Confidence is a small number; descriptions, attributes, importance and  *)
(* kinds of relations are left out.  So is merging duplicates, which never *)
(* changes anything: the query of merge_entities (graph.py:583) loads      *)
(* collections by a join and raises as soon as it finds an entity.         *)
(***************************************************************************)
EXTENDS Naturals, Sequences, FiniteSets

CONSTANTS
    Threads, Names, Types,
    Reports,             \* the confidences that are reported, in small units
    Floor,               \* 0.1: neither decay nor audit goes below
    PruneBelow,          \* 0.15 in run_maintenance
    DeleteUpTo, Penalty, \* 0.2 and 0.3 in an audit
    MaxEntities,         \* bound on the entities that are ever stored
    MaxRelations         \* bound: relations stored when one more is resolved

KnowledgeAssumption ==
    /\ Reports \subseteq Nat /\ Floor \in Nat /\ MaxEntities \in Nat /\ MaxRelations \in Nat
    /\ PruneBelow \in Nat /\ Floor < PruneBelow /\ PruneBelow <= DeleteUpTo + 1
    /\ DeleteUpTo \in Nat /\ Penalty \in Nat /\ "none" \notin Names

VARIABLES
    entities,    \* in the order of created_at; Deleted where a row was
    relations,   \* pairs of entities
    at,          \* what each thread is doing, with which entities
    dirty,       \* entities that changed since the thread read them
    known        \* the reports that were acknowledged, unless an entity of their name
                 \* was weakened or deleted since

Deleted == [name |-> "none", type |-> "none", confidence |-> 0]

tables == <<entities, relations>>
vars == <<tables, at, dirty, known>>

Idle == [pc |-> "idle", name |-> "none", confidence |-> 0, ids |-> <<>>, seen |-> <<>>]

Init ==
    /\ entities = <<>> /\ relations = {}
    /\ at = [t \in Threads |-> Idle] /\ dirty = [t \in Threads |-> {}]
    /\ known = {}

Ids == 1..Len(entities)
Live == {i \in Ids : entities[i] # Deleted}
Relations(i) == {r \in relations : i \in {r[1], r[2]}}
NamesOf(S) == {entities[i].name : i \in S \cap Live}

\* Thread t goes on at a label with what it has just read of the entities in S.
Read(t, label, S) ==
    /\ at' = [at EXCEPT ![t].pc = label, ![t].ids = S,
                        ![t].seen = [i \in S |-> entities[i].confidence]]
    /\ dirty' = [dirty EXCEPT ![t] = {}]

\* Thread t has changed the entities in S, and is through.
Watched(u) == IF at[u].pc \in {"merge", "delete", "audit"} THEN at[u].ids ELSE {}
Changed(t, S) ==
    dirty' = [u \in Threads |-> IF u = t THEN {} ELSE dirty[u] \cup (S \cap Watched(u))]

Finish(t, S) == at' = [at EXCEPT ![t] = Idle] /\ Changed(t, S)

Fail(t) == Finish(t, {}) /\ UNCHANGED <<tables, known>>

-----------------------------------------------------------------------------
(* add_entity, also by import_graph for each node, with less confidence.   *)

\* Some callers ask EntityResolver first, which may put an existing name of the
\* type in the place of the reported one; so a report is of any name.
Reported == [name : Names, type : Types, confidence : Reports]

Acknowledged(report) == {[name |-> report.name, confidence |-> report.confidence]}

\* The names of what was weakened or deleted are no longer held against the graph.
Excuse(names) == {k \in known : k.name \notin names}

\* The row is inserted, unless there is one of this name and type.
Insert(t) ==
    /\ at[t].pc = "idle"
    /\ \E new \in Reported :
          LET same == {i \in Live : entities[i].name = new.name /\ entities[i].type = new.type} IN
          \/ /\ same = {} /\ Len(entities) < MaxEntities
             /\ entities' = Append(entities, new)
             /\ known' = known \cup Acknowledged(new)
             /\ UNCHANGED at
          \/ /\ same # {}
             /\ at' = [at EXCEPT ![t] = [Idle EXCEPT !.pc = "find", !.name = new.name,
                                                     !.confidence = new.confidence]]
             /\ UNCHANGED <<entities, known>>
    /\ UNCHANGED <<relations, dirty>>

\* get_by_name: the youngest row of this name, of whatever type.
Named(n) == {i \in Live : entities[i].name = n}
ByName(n) == {i \in Named(n) : \A j \in Named(n) : j <= i}

\* After the conflict the row is read, or is no longer there: "error".
Find(t) ==
    /\ at[t].pc = "find"
    /\ IF ByName(at[t].name) = {} THEN Finish(t, {})
       ELSE Read(t, "merge", ByName(at[t].name))
    /\ UNCHANGED <<tables, known>>

Raised(seen, reported) == reported > seen

\* What was read is merged with what is reported: confidence is only raised.
Merge(t) ==
    LET me == at[t] IN
    /\ me.pc = "merge"
    /\ \/ /\ me.ids \subseteq Live
          /\ entities' = [i \in Ids |-> IF i \in me.ids /\ Raised(me.seen[i], me.confidence)
                                        THEN [entities[i] EXCEPT !.confidence = me.confidence]
                                        ELSE entities[i]]
          /\ known' = (IF dirty[t] = {} THEN Acknowledged(me) ELSE {}) \cup Excuse(NamesOf(
                {i \in me.ids : entities'[i].confidence < entities[i].confidence} \cap dirty[t]))
          /\ Finish(t, me.ids)
          /\ UNCHANGED relations
       \/ ~(me.ids \subseteq Live) /\ Fail(t)

-----------------------------------------------------------------------------
(* add_relation.                                                           *)

\* Each end is resolved, in sessions of its own, to an entity of the same, of an
\* equivalent or of a similar name; without one there is no relation.
ResolveEnds(t) ==
    /\ at[t].pc = "idle" /\ Cardinality(relations) < MaxRelations
    /\ \E i, j \in Live : at' = [at EXCEPT ![t].pc = "relate", ![t].ids = <<i, j>>]
    /\ UNCHANGED <<tables, dirty, known>>

\* It is inserted unless it is there already or an end of it has been deleted.
Relate(t) ==
    LET new == at[t].ids IN
    /\ at[t].pc = "relate"
    /\ \/ /\ new \notin relations /\ {new[1], new[2]} \subseteq Live
          /\ relations' = relations \cup {new}
          /\ Finish(t, {new[1], new[2]})
          /\ UNCHANGED <<entities, known>>
       \/ (new \in relations \/ ~({new[1], new[2]} \subseteq Live)) /\ Fail(t)

-----------------------------------------------------------------------------
(* run_maintenance and deep_llm_audit.                                     *)

\* decay_confidence reads the entities that were not updated for long.
StartMaintenance(t) ==
    /\ at[t].pc = "idle"
    /\ \E S \in SUBSET {i \in Live : entities[i].confidence > Floor} : Read(t, "decay", S)
    /\ UNCHANGED <<tables, known>>

Weaker(c, by) == IF c < Floor + by THEN Floor ELSE c - by

\* It writes back less; pagerank, which writes all rows, may fail, and then
\* nothing is pruned.
Decay(t) ==
    LET me == at[t] IN
    /\ me.pc = "decay"
    /\ \/ /\ me.ids \subseteq Live
          /\ entities' = [i \in Ids |-> IF i \in me.ids
                THEN [entities[i] EXCEPT !.confidence = Weaker(me.seen[i], 1)] ELSE entities[i]]
          /\ known' = Excuse(NamesOf(me.ids))
          /\ \/ Finish(t, me.ids)
             \/ at' = [at EXCEPT ![t] = [Idle EXCEPT !.pc = "prune"]] /\ Changed(t, me.ids)
          /\ UNCHANGED relations
       \/ ~(me.ids \subseteq Live) /\ Fail(t)

\* A mutant: relations are not asked about.
PrunableIfWeak == {i \in Live : entities[i].confidence < PruneBelow}

\* prune_low_quality reads the weak entities that have no relation ...
Prunable == {i \in Live : entities[i].confidence < PruneBelow /\ Relations(i) = {}}
StartPrune(t) ==
    /\ at[t].pc = "prune"
    /\ Read(t, "delete", Prunable)
    /\ UNCHANGED <<tables, known>>

Without(S) == [i \in Ids |-> IF i \in S THEN Deleted ELSE entities[i]]
\* A mutant: only the relations from a deleted entity go with it.
UnrelatedFrom(S) == {r \in relations : r[1] \notin S}

Unrelated(S) == {r \in relations : r[1] \notin S /\ r[2] \notin S}

\* ... and deletes them, with the relations they have got since.
Prune(t) ==
    /\ at[t].pc = "delete"
    /\ entities' = Without(at[t].ids) /\ relations' = Unrelated(at[t].ids)
    /\ known' = Excuse(NamesOf(at[t].ids))
    /\ Finish(t, at[t].ids)

\* deep_llm_audit reads entities and asks a model for the bad ones.
StartAudit(t) ==
    /\ at[t].pc = "idle"
    /\ \E S \in (SUBSET Live) \ {{}} : Read(t, "audit", S)
    /\ UNCHANGED <<tables, known>>

Doomed(seen) == {i \in DOMAIN seen : seen[i] <= DeleteUpTo}

\* Of the flagged ones, those of little confidence are deleted and the others
\* lose some, by what was read before the model was asked.
Audit(t) ==
    LET me == at[t]
        doomed == Doomed(me.seen)
        weak == me.ids \ doomed IN
    /\ me.pc = "audit"
    /\ \/ /\ weak \subseteq Live
          /\ entities' = [i \in Ids |-> IF i \in weak
                THEN [entities[i] EXCEPT !.confidence = Weaker(me.seen[i], Penalty)]
                ELSE Without(doomed)[i]]
          /\ relations' = Unrelated(doomed)
          /\ known' = Excuse(NamesOf(me.ids))
          /\ Finish(t, me.ids)
       \/ ~(weak \subseteq Live) /\ Fail(t)

Step(t) ==
    \/ Insert(t) \/ Find(t) \/ Merge(t) \/ ResolveEnds(t) \/ Relate(t)
    \/ StartMaintenance(t) \/ Decay(t) \/ StartPrune(t) \/ Prune(t) \/ StartAudit(t) \/ Audit(t)

Next == \E t \in Threads : Step(t)

Spec == Init /\ [][Next]_vars

-----------------------------------------------------------------------------

TypeOK ==
    /\ entities \in Seq([name : Names, type : Types, confidence : Nat] \cup {Deleted})
    /\ relations \subseteq Live \X Live
    /\ \A t \in Threads : dirty[t] \subseteq Ids

\* What was acknowledged stays known: some entity of the reported name has at
\* least the reported confidence, until one of that name is decayed, audited or
\* pruned or a slower report overwrites a stronger one; a report that was merged with
\* a row that had changed since it was read counts for nothing (graph.py:160, the row
\* is looked for by its name alone after a conflict of name and type).
ReportsStick ==
    \A k \in known : \E i \in Named(k.name) : entities[i].confidence >= k.confidence

\* What is deleted was weak, and had no relation unless an audit deletes it;
\* or else it has become strong or related since its deleter read it
\* (knowledge.py:176, maintenance.py:566).
DeletedWasWeak ==
    [][\A t \in Threads, i \in Ids : at[t].pc # "idle" /\ at[t]' = Idle =>
          (i \in Live /\ entities'[i] = Deleted /\ i \notin dirty[t] =>
              /\ entities[i].confidence <= DeleteUpTo
              /\ at[t].pc = "delete" => Relations(i) = {})]_vars

=============================================================================
