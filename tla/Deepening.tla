----------------------------- MODULE Deepening ------------------------------
(***************************************************************************)
(* Deepening of research: a cycle (src/core/research/deepening.py, by the  *)
(* scheduler or the API) looks for clusters of recent entities that are    *)
(* worth it and researches their topics one level deeper; the pipeline     *)
(* (src/core/research/pipeline.py) has its own topic deepened without a    *)
(* look.  How deep a topic is and when it was deepened last is read from   *)
(* the attributes of entities, which every pass writes over.               *)
(***************************************************************************)
EXTENDS Naturals, FiniteSets, FiniteSetsExt

CONSTANTS
    Deepeners,     \* threads that run a deepening cycle
    Pipelines,     \* threads that run the pipeline on a topic
    Subjects,      \* topics: the keys of clusters
    Found,         \* entities that research may find
    InCluster,     \* which entity is in which cluster, by its type or words
    MinCluster,    \* MIN_CLUSTER_SIZE
    MaxDepth,      \* MAX_DEPTH
    Fresh,         \* 24 h, in ticks
    Cooldown,      \* COOLDOWN_HOURS
    MaxPasses      \* bound: cycles and pipelines run

DeepeningAssumption ==
    /\ InCluster \subseteq Found \X Subjects /\ "none" \notin Subjects
    /\ MinCluster \in Nat \ {0} /\ MaxDepth \in Nat \ {0} /\ MaxPasses \in Nat
    /\ Cooldown \in Nat /\ Fresh \in Nat /\ Cooldown <= Fresh

VARIABLES
    zoned,       \* whether timestamps keep their zone: on PostgreSQL, not on SQLite
    nodes,       \* each entity: there?, the ages of its two timestamps, topic and depth
    digger,      \* where each thread is, with what it has left
    passes,      \* cycles and pipelines run
    passed,      \* of each topic: the age of its last find
    taken        \* topics of which an entity was claimed for another since

deepening == <<zoned, nodes, digger, passes, passed, taken>>
vars == deepening

AtRest == [pc |-> "idle", todo |-> {}, topic |-> "none", depth |-> 0]
Absent == [there |-> FALSE, created |-> Fresh, updated |-> Fresh, topic |-> "none", depth |-> 0]

Init ==
    /\ zoned \in BOOLEAN
    /\ nodes = [e \in Found |-> Absent]
    /\ digger = [d \in Deepeners \cup Pipelines |-> AtRest]
    /\ passes = 0
    /\ passed = [t \in Subjects |-> Fresh] /\ taken = {}

There == {e \in Found : nodes[e].there}
Recent == {e \in There : nodes[e].created < Fresh}

-----------------------------------------------------------------------------

\* KnowledgeGraph.add_entity: a new entity, or the attributes over the old ones
Stored(e, topic, depth) ==
    IF nodes[e].there
    THEN [nodes[e] EXCEPT !.updated = 0, !.topic = topic, !.depth = depth]
    ELSE [there |-> TRUE, created |-> 0, updated |-> 0, topic |-> topic, depth |-> depth]

\* Sweeps, tasks and the rest report entities without these attributes.
Report(e) ==
    /\ nodes' = [nodes EXCEPT ![e] = Stored(e, @.topic, @.depth)]
    /\ UNCHANGED <<zoned, digger, passes, passed, taken>>

\* _cluster_entities
Cluster(t) == {e \in Recent : <<e, t>> \in InCluster}

\* _recently_deepened: any entity counts, whatever touched it.
RecentlyDeepened(t) ==
    \E e \in There : nodes[e].topic = t /\ nodes[e].updated < Cooldown

\* _get_current_depth: of any topic
CurrentDepth(t) == Max({nodes[e].depth : e \in Cluster(t)})

Qualifies(t) ==
    /\ Cardinality(Cluster(t)) >= MinCluster
    /\ ~RecentlyDeepened(t)
    /\ CurrentDepth(t) < MaxDepth

Free(d) == digger[d].pc = "idle" /\ passes < MaxPasses

\* detect_candidates: those with the strongest signals.  Timestamps without a zone
\* cannot be compared, which ends a cycle that finds an entity.
Detect(d) ==
    /\ Free(d)
    /\ passes' = passes + 1
    /\ There # {} => zoned
    /\ \E S \in SUBSET {t \in Subjects : Qualifies(t)} :
          digger' = [digger EXCEPT ![d] =
              [AtRest EXCEPT !.pc = "cycle",
                              !.todo = {[topic |-> t, depth |-> CurrentDepth(t)] : t \in S}]]
    /\ UNCHANGED <<zoned, nodes, passed, taken>>

\* deepen: one level beyond what was detected
Deepen(d) ==
    /\ digger[d].pc = "cycle"
    /\ \E c \in digger[d].todo :
          digger' = [digger EXCEPT ![d] = [pc |-> "deepen", todo |-> @.todo \ {c},
                                           topic |-> c.topic, depth |-> c.depth + 1]]
    /\ UNCHANGED <<zoned, nodes, passes, passed, taken>>

\* Each entity extracted is stored by itself; an error costs a query what it would
\* have found.
Find(d, e) ==
    LET r == digger[d] IN
    /\ r.pc = "deepen"
    /\ nodes' = [nodes EXCEPT ![e] = Stored(e, r.topic, r.depth)]
    /\ passed' = [passed EXCEPT ![r.topic] = 0]
    /\ taken' = (taken \cup {nodes[e].topic}) \ {r.topic, "none"}
    /\ UNCHANGED <<zoned, digger, passes>>

\* _deepen_medium and _deepen_deep: the second level has queries of its own, and a
\* synthesis that only becomes a memory.
FindMedium(d, e) == digger[d].depth = 1 /\ Find(d, e)
FindDeep(d, e) == digger[d].depth >= 2 /\ Find(d, e)

\* _mark_deepened stores a memory that nothing here reads.
EndPass(d) ==
    /\ digger[d].pc = "deepen"
    /\ digger' = [digger EXCEPT ![d] =
          IF d \in Pipelines THEN [@ EXCEPT !.pc = "synthesize"]
          ELSE [AtRest EXCEPT !.pc = "cycle", !.todo = digger[d].todo]]
    /\ UNCHANGED <<zoned, nodes, passes, passed, taken>>

EndCycle(d) ==
    /\ digger[d].pc = "cycle" /\ digger[d].todo = {}
    /\ digger' = [digger EXCEPT ![d] = AtRest]
    /\ UNCHANGED <<zoned, nodes, passes, passed, taken>>

-----------------------------------------------------------------------------

Goto(d, label) == digger' = [digger EXCEPT ![d].pc = label]

\* ResearchPipeline.run: a search that fails, or a shallow run, ends it.
Search(d) ==
    /\ Free(d)
    /\ passes' = passes + 1
    /\ \E t \in Subjects, next \in {"idle", "extract"} :
          digger' = [digger EXCEPT ![d] = [AtRest EXCEPT !.pc = next, !.topic = t]]
    /\ UNCHANGED <<zoned, nodes, passed, taken>>

\* _stage_scrape and _stage_extract, which may fail half-way without consequence
Extract(d, e) ==
    /\ digger[d].pc = "extract"
    /\ Report(e)

\* _stage_deepen, in a deep run: whatever was deepened before, from the start
DeepenTopic(d) ==
    /\ digger[d].pc = "extract"
    /\ \/ digger' = [digger EXCEPT ![d] = [@ EXCEPT !.pc = "deepen", !.depth = 1]]
       \/ Goto(d, "synthesize")
    /\ UNCHANGED <<zoned, nodes, passes, passed, taken>>

\* _stage_synthesize
Synthesize(d) ==
    /\ digger[d].pc = "synthesize"
    /\ digger' = [digger EXCEPT ![d] = AtRest]
    /\ UNCHANGED <<zoned, nodes, passes, passed, taken>>

Older(age) == IF age < Fresh THEN age + 1 ELSE age

Tick ==
    /\ nodes' = [e \in Found |->
          [nodes[e] EXCEPT !.created = Older(@), !.updated = Older(@)]]
    /\ passed' = [t \in Subjects |-> Older(passed[t])]
    /\ UNCHANGED <<zoned, digger, passes, taken>>

Next ==
    \/ Tick
    \/ \E e \in Found : Report(e)
    \/ \E d \in Deepeners : Detect(d) \/ Deepen(d) \/ EndCycle(d)
    \/ \E d \in Pipelines : Search(d) \/ DeepenTopic(d) \/ Synthesize(d)
    \/ \E d \in Deepeners \cup Pipelines : EndPass(d)
    \/ \E d \in Deepeners \cup Pipelines, e \in Found :
          FindMedium(d, e) \/ FindDeep(d, e) \/ Extract(d, e)

Spec == Init /\ [][Next]_vars

-----------------------------------------------------------------------------

TypeOK ==
    /\ \A e \in Found :
          /\ nodes[e].updated <= nodes[e].created
          /\ nodes[e].depth \in 0..MaxDepth
    /\ \A d \in DOMAIN digger : digger[d].depth \in 0..MaxDepth

\* No cycle takes up a topic for which any pass found something within the cool-down,
\* although only entities tell, which others touch and age and other passes claim:
\* unless one of its entities was claimed for another topic (deepening.py:467).
NotAgainSoon ==
    [][\A d \in Deepeners, t \in Subjects :
        (digger[d].pc = "idle" /\ \E c \in digger'[d].todo : c.topic = t) =>
            passed[t] >= Cooldown \/ t \in taken]_vars

=============================================================================
