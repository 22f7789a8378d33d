------------------------------- MODULE Temporal -------------------------------
(***************************************************************************)
(* Asking the bi-temporal memory of src/core/memory/bitemporal.py what was *)
(* true, or known, at some time, and how a fact changed, between the facts *)
(* that are stored.  A query is one statement, whose rows are filtered     *)
(* afterwards: more of them are fetched than are wanted, but not all.      *)
(* Titles are found by a part of them.  Storing is one step here: what     *)
(* writers do to one another is the subject of Memories.                   *)
(*                                                                         *)
(* The time of recording is the order of the rows, 0 is no time at all.    *)
(* Asking for a time of recording raises on SQLite, which takes no strings *)
(* for timestamps: such queries are those of PostgreSQL.                   *)
(***************************************************************************)
EXTENDS Integers, Sequences, FiniteSets, SequencesExt

CONSTANTS
    Topics, Containing, \* titles; the pairs of which the first contains the second
    Validities,         \* periods <<valid_from, valid_to>> of facts
    Grades,              \* effective importance
    Moments,            \* valid times that are asked about
    HowMany,             \* limit of a query
    CapFactor,          \* rows fetched for each that is wanted (5)
    TimelineLimit,      \* limit of a timeline's query (50)
    MaxFacts            \* bound on facts

TemporalAssumption ==
    /\ {<<t, t>> : t \in Topics} \subseteq Containing /\ Containing \subseteq Topics \X Topics
    /\ Grades \subseteq Nat /\ Moments \subseteq Nat /\ HowMany \subseteq Nat \ {0}
    /\ CapFactor \in Nat \ {0} /\ TimelineLimit \in Nat \ {0} /\ MaxFacts \in Nat

VARIABLES
    facts,     \* the rows of the facts, in the order they were recorded
    answer     \* what was answered since the last of them: one answer is enough

vars == <<facts, answer>>

NoAnswer == [kind |-> "none"]

Init == facts = <<>> /\ answer = NoAnswer

\* A mutant: versions are looked for by a part of the title.
NewestLike(title) == {i \in DOMAIN facts : <<facts[i].title, title>> \in Containing
                        /\ \A j \in (i + 1)..Len(facts) : <<facts[j].title, title>> \notin Containing}

\* _find_current_version, and the query of store_fact
Newest(title) == {i \in DOMAIN facts : facts[i].title = title
                    /\ \A j \in (i + 1)..Len(facts) : facts[j].title # title}

\* store_smart; contradictions only raise the importance.
Store ==
    /\ Len(facts) < MaxFacts
    /\ \E title \in Topics, valid \in Validities, rank \in Grades :
          LET old == {i \in Newest(title) : ~facts[i].superseded}
              version == IF old = {} THEN 0 ELSE facts[CHOOSE i \in old : TRUE].version
              new == [title |-> title, valid |-> valid, rank |-> rank, version |-> version + 1,
                      of |-> old, superseded |-> FALSE]
          IN facts' = Append([i \in DOMAIN facts |->
                                IF i \in old THEN [facts[i] EXCEPT !.superseded = TRUE] ELSE facts[i]], new)
    /\ answer' = NoAnswer

-----------------------------------------------------------------------------

\* The statement's conditions
Fetchable(q) == {i \in DOMAIN facts : /\ q.like = "any" \/ <<facts[i].title, q.like>> \in Containing
                                      /\ q.recorded = 0 \/ i <= q.recorded}

\* What is left out afterwards
Passes(q, i) ==
    /\ q.all \/ ~facts[i].superseded
    /\ q.valid # 0 => /\ facts[i].valid[1] # 0 => q.valid >= facts[i].valid[1]
                      /\ facts[i].valid[2] # 0 => q.valid <= facts[i].valid[2]

Ranked(s) == \A i, j \in DOMAIN s : i < j => facts[s[i]].rank >= facts[s[j]].rank

Least(m, n) == IF m < n THEN m ELSE n

\* The rows in the order of importance, up to the cap
Fetches(q) ==
    LET rows == Fetchable(q)
        cap == Least(CapFactor * q.limit, Cardinality(rows))
    IN {SubSeq(s, 1, cap) : s \in {o \in SetToSeqs(rows) : Ranked(o)}}

\* query: of the rows that pass, as many as are wanted
Results(q) ==
    {LET kept == SelectSeq(s, LAMBDA i : Passes(q, i)) IN SubSeq(kept, 1, Least(q.limit, Len(kept))) :
        s \in Fetches(q)}

Ask(kind, q) == \E r \in Results(q) : answer' = [kind |-> kind, query |-> q, result |-> r]

Query ==
    /\ answer = NoAnswer
    /\ \E like \in Topics \cup {"any"}, valid \in Moments \cup {0}, recorded \in 0..Len(facts),
          all \in BOOLEAN, limit \in HowMany :
             Ask("query", [like |-> like, valid |-> valid, recorded |-> recorded, all |-> all,
                           limit |-> limit])
    /\ UNCHANGED facts

\* get_fact_timeline: all versions of all facts with such a title, by their number; those
\* with the same number stay in the order they came in.
Timeline ==
    /\ answer = NoAnswer
    /\ \E title \in Topics :
          LET q == [like |-> title, valid |-> 0, recorded |-> 0, all |-> TRUE, limit |-> TimelineLimit] IN
          \E r \in Results(q), s \in SetToSeqs(DOMAIN facts) :
             LET line == SelectSeq(s, LAMBDA i : i \in ToSet(r)) IN
             /\ \A i, j \in DOMAIN line : i < j => facts[line[i]].version <= facts[line[j]].version
             /\ answer' = [kind |-> "timeline", query |-> q, result |-> line]
    /\ UNCHANGED facts

\* get_temporal_stats
Stats ==
    LET gone == {i \in DOMAIN facts : facts[i].superseded} IN
    /\ answer = NoAnswer
    /\ answer' = [kind |-> "stats", superseded |-> Cardinality(gone),
                  current |-> Len(facts) - Cardinality(gone)]
    /\ UNCHANGED facts

Next == Store \/ Query \/ Timeline \/ Stats

Spec == Init /\ [][Next]_vars

-----------------------------------------------------------------------------

TypeOK ==
    /\ Len(facts) <= MaxFacts
    /\ \A i \in DOMAIN facts : facts[i].of \subseteq 1..(i - 1)

\* A query returns the most important of the facts that match, as many as are wanted, if no
\* more than the cap match the statement; beyond that it may return fewer although
\* there are others (bitemporal.py:275).
QueriesRight ==
    answer.kind = "query" =>
        LET q == answer.query
            r == ToSet(answer.result)
            good == {i \in Fetchable(q) : Passes(q, i)}
        IN /\ r \subseteq good /\ Len(answer.result) = Cardinality(r) /\ Ranked(answer.result)
           /\ Cardinality(Fetchable(q)) <= CapFactor * q.limit =>
                 /\ Len(answer.result) = Least(q.limit, Cardinality(good))
                 /\ \A i \in good \ r, j \in r : facts[i].rank <= facts[j].rank

\* A fact has one current version, so there are as many current ones as there are titles; and
\* a timeline tells the versions of a title one after the other, in the order they were
\* recorded, each superseded by the next, unless another title contains it.
TimelinesRight ==
    /\ answer.kind = "stats" => answer.current = Cardinality({facts[i].title : i \in DOMAIN facts})
    /\ answer.kind = "timeline" /\ Len(facts) <= TimelineLimit
            /\ (\A i \in DOMAIN facts : <<facts[i].title, answer.query.like>> \in Containing
                                           => facts[i].title = answer.query.like) =>
          LET line == answer.result IN
          /\ ToSet(line) = {i \in DOMAIN facts : facts[i].title = answer.query.like}
          /\ \A i \in DOMAIN line :
                /\ facts[line[i]].version = i
                /\ facts[line[i]].superseded = (i < Len(line))
                /\ i > 1 => facts[line[i]].of = {line[i - 1]} /\ line[i - 1] < line[i]

TemporalRight == QueriesRight /\ TimelinesRight

=============================================================================
