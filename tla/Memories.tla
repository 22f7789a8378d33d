------------------------------- MODULE Memories -------------------------------
(***************************************************************************)
(* The memories of an empire: store_fact of src/core/memory/bitemporal.py, *)
(* which chains the versions of a fact by its title, store(), decay() and  *)
(* cleanup() of core/memory/manager.py, and the compression by a model of  *)
(* core/memory/compression.py.  Threads of the web, of directives and of   *)
(* the scheduler run them at the same time; each transaction is one step,  *)
(* or two where it writes back what it has read before.                    *)
(*                                                                         *)
(* Contents, categories and tags are left out, and so is the clock: how    *)
(* far back 30 and 90 days reach is chosen at each cleanup.  recall() is   *)
(* left out because it changes nothing: the access counts it raises are    *)
(* rolled back, for which reason consolidate() finds no candidate either.  *)
(***************************************************************************)
EXTENDS Naturals, Sequences, FiniteSets

CONSTANTS
    Threads,
    Titles,
    Full,           \* decay_factor of a new memory, in units of a decay
    MinCluster,     \* min_cluster_size (3)
    MaxEntries      \* bound on the memories that are ever stored

ASSUME MemoriesAssumption ==
    /\ Full \in Nat /\ MinCluster \in Nat \ {0} /\ MaxEntries \in Nat
    /\ IsFiniteSet(Titles) /\ "none" \notin Titles

VARIABLES
    mem,        \* memory_entries in the order of created_at; deleted rows stay as gone
    pc,         \* pc[t]: what thread t is in the middle of
    title,      \* title[t]: the title of the fact it is storing
    work,       \* work[t]: the rows it has read and is going to change
    seen,       \* seen[t]: those of them whose flag it will write back as set
    raced,      \* titles of which a step has overwritten what it had not seen
    forgotten   \* titles whose current version has been cleaned up

\* raced and forgotten are not in the code: the properties speak of them.

local == <<title, work, seen>>
vars  == <<mem, pc, local, raced, forgotten>>

Ids     == 1..Len(mem)
Live    == {i \in Ids : ~mem[i].gone}
Facts(x) == {i \in Ids : mem[i].kind = "fact" /\ mem[i].title = x}
Current(x) == {i \in Facts(x) \cap Live : ~mem[i].superseded}

\* The newest fact of a title, as a set of at most one.
Newest(x) == {i \in Facts(x) \cap Live : \A j \in Facts(x) \cap Live : j <= i}

\* A mutant: the order of the query is the other one.
Oldest(x) == {i \in Facts(x) \cap Live : \A j \in Facts(x) \cap Live : i <= j} \cap Current(x)

\* What store_fact supersedes: the newest version, unless it is superseded already.
Base(x) == Newest(x) \cap Current(x)

Entry(kind, x, version, of) ==
    [kind |-> kind, title |-> x, version |-> version, of |-> of,
     superseded |-> FALSE, archived |-> FALSE, strength |-> Full, gone |-> FALSE]

Init ==
    /\ mem = << >>
    /\ pc = [t \in Threads |-> "idle"]
    /\ title = [t \in Threads |-> "none"]
    /\ work = [t \in Threads |-> {}] /\ seen = [t \in Threads |-> {}]
    /\ raced = {} /\ forgotten = {}

Goto(t, label) == pc' = [pc EXCEPT ![t] = label]

\* Thread t is through, whether it has done its work or failed.
Rest(t) ==
    /\ Goto(t, "idle")
    /\ title' = [title EXCEPT ![t] = "none"]
    /\ work' = [work EXCEPT ![t] = {}] /\ seen' = [seen EXCEPT ![t] = {}]

-----------------------------------------------------------------------------
(* store_fact.                                                             *)

\* It reads the version it will supersede, and asks for an embedding.  A fact
\* without a title supersedes nothing, and is left out.
ReadFact(t) ==
    /\ pc[t] = "idle"
    /\ \E x \in Titles :
          /\ title' = [title EXCEPT ![t] = x]
          /\ work' = [work EXCEPT ![t] = Base(x)]
          /\ seen' = [seen EXCEPT ![t] = {i \in Base(x) : mem[i].archived}]
    /\ Goto(t, "store")
    /\ UNCHANGED <<mem, raced, forgotten>>

\* A mutant: versions are counted from zero.
VersionFromZero(base) == IF base = {} THEN 0 ELSE (CHOOSE n \in {mem[i].version : i \in base} : TRUE) + 1

\* The number of the version after the one in base.
NextVersion(base) == IF base = {} THEN 1 ELSE (CHOOSE n \in {mem[i].version : i \in base} : TRUE) + 1

\* The base is marked, its metadata as they were read, and the new version stored,
\* in one transaction, which fails if the base has been deleted.
WriteFact(t) ==
    /\ pc[t] = "store" /\ work[t] \subseteq Live /\ Len(mem) < MaxEntries
    /\ mem' = Append([i \in Ids |-> IF i \in work[t]
                                      THEN [mem[i] EXCEPT !.superseded = TRUE, !.archived = i \in seen[t]]
                                      ELSE mem[i]],
                     Entry("fact", title[t], NextVersion(work[t]), work[t]))
    /\ raced' = IF Base(title[t]) = work[t] THEN raced ELSE raced \cup {title[t]}
    /\ Rest(t)
    /\ UNCHANGED forgotten

\* A mutant: the base is marked in a transaction of its own.
FailFactMarked(t) ==
    /\ pc[t] = "store"
    /\ mem' = [i \in Ids |-> [mem[i] EXCEPT !.superseded = @ \/ i \in work[t]]]
    /\ Rest(t)
    /\ UNCHANGED <<raced, forgotten>>

\* An error is caught: nothing is stored and the caller gets a fact without id.
FailFact(t) ==
    /\ pc[t] = "store"
    /\ Rest(t)
    /\ UNCHANGED <<mem, raced, forgotten>>

-----------------------------------------------------------------------------
(* store, decay and cleanup.                                               *)

\* store_task_outcome, by a lieutenant whose task has ended.
StoreEpisode ==
    /\ Len(mem) < MaxEntries
    /\ mem' = Append(mem, Entry("episode", "none", 1, {}))
    /\ UNCHANGED <<pc, local, raced, forgotten>>

\* Of the memories (the first 500) some lose a unit sooner than others.
Decay ==
    /\ \E fading \in SUBSET {i \in Live : mem[i].strength > 0} :
          mem' = [i \in Ids |-> [mem[i] EXCEPT !.strength = IF i \in fading THEN @ - 1 ELSE @]]
    /\ UNCHANGED <<pc, local, raced, forgotten>>

\* What cleanup() deletes when the first `month` entries are older than 30 days and
\* the first `quarter` older than 90.
Outlived(month, quarter) ==
    {i \in Live : \/ mem[i].strength = 0
                  \/ mem[i].kind = "episode" /\ i <= month
                  \/ mem[i].kind = "fact" /\ mem[i].superseded /\ i <= quarter}

Cleanup ==
    /\ \E month \in 0..Len(mem), quarter \in 0..Len(mem) :
          /\ quarter <= month
          /\ LET dead == Outlived(month, quarter)
             IN  /\ mem' = [i \in Ids |-> [mem[i] EXCEPT !.gone = @ \/ i \in dead]]
                 /\ forgotten' = forgotten \cup
                       {x \in Titles : Current(x) \cap dead # {} /\ Newest(x) \subseteq dead}
    /\ UNCHANGED <<pc, local, raced>>

-----------------------------------------------------------------------------
(* Compression.                                                            *)

\* Memories of one type, category and tag; neither summaries nor memories that
\* are archived are left out.
Clusters ==
    {c \in (SUBSET {i \in Live : mem[i].kind = "episode"})
           \cup (SUBSET {i \in Live : mem[i].kind \in {"fact", "summary"}}) :
       Cardinality(c) >= MinCluster}

\* find_clusters or compress_by_topic, and the question to the model.
FindCluster(t) ==
    /\ pc[t] = "idle"
    /\ \E c \in Clusters : work' = [work EXCEPT ![t] = c]
    /\ Goto(t, "compress")
    /\ UNCHANGED <<mem, title, seen, raced, forgotten>>

\* The model has answered: the summary is stored for good.
StoreSummary(t) ==
    /\ pc[t] = "compress" /\ Len(mem) < MaxEntries
    /\ mem' = Append(mem, Entry("summary", "none", 1, work[t]))
    /\ Goto(t, "summarized")
    /\ UNCHANGED <<local, raced, forgotten>>

\* A mutant: the originals are archived while the model is asked.
ReadOriginalsEarly(t) ==
    /\ pc[t] \in {"compress", "summarized"}
    /\ work' = [work EXCEPT ![t] = @ \cap Live]
    /\ seen' = [seen EXCEPT ![t] = {i \in work[t] \cap Live : mem[i].superseded}]
    /\ Goto(t, "archive")
    /\ UNCHANGED <<mem, title, raced, forgotten>>

\* _archive_originals reads the originals that are still there ...
ReadOriginals(t) ==
    /\ pc[t] = "summarized"
    /\ work' = [work EXCEPT ![t] = @ \cap Live]
    /\ seen' = [seen EXCEPT ![t] = {i \in work[t] \cap Live : mem[i].superseded}]
    /\ Goto(t, "archive")
    /\ UNCHANGED <<mem, title, raced, forgotten>>

\* ... and writes them, their metadata as they were read.
Archive(t) ==
    /\ pc[t] = "archive" /\ work[t] \subseteq Live
    /\ mem' = [i \in Ids |-> IF i \in work[t]
                               THEN [mem[i] EXCEPT !.archived = TRUE, !.superseded = i \in seen[t]]
                               ELSE mem[i]]
    /\ raced' = raced \cup {x \in Titles : \E i \in Facts(x) \cap work[t] :
                                              mem[i].superseded # (i \in seen[t])}
    /\ Rest(t)
    /\ UNCHANGED forgotten

\* The model, the store or the archiving fails; the error is caught.
FailCompression(t) ==
    /\ pc[t] \in {"compress", "summarized", "archive"}
    /\ Rest(t)
    /\ UNCHANGED <<mem, raced, forgotten>>

\* A crash is the failure of all threads.
Next ==
    \/ StoreEpisode \/ Decay \/ Cleanup
    \/ \E t \in Threads :
          \/ ReadFact(t) \/ WriteFact(t) \/ FailFact(t)
          \/ FindCluster(t) \/ StoreSummary(t) \/ ReadOriginals(t) \/ Archive(t) \/ FailCompression(t)

Spec == Init /\ [][Next]_vars

-----------------------------------------------------------------------------

MemoryEntry ==
    [kind : {"fact", "episode", "summary"}, title : Titles \cup {"none"}, version : Nat \ {0},
     of : SUBSET Nat, superseded : BOOLEAN, archived : BOOLEAN, strength : 0..Full, gone : BOOLEAN]

\* Every variable has its type, and threads refer to rows that have existed.
TypeOK ==
    /\ mem \in Seq(MemoryEntry) /\ Len(mem) <= MaxEntries
    /\ pc \in [Threads -> {"idle", "store", "compress", "summarized", "archive"}]
    /\ title \in [Threads -> Titles \cup {"none"}]
    /\ work \in [Threads -> SUBSET Ids] /\ seen \in [Threads -> SUBSET Ids]
    /\ raced \subseteq Titles /\ forgotten \subseteq Titles

\* The versions of a fact form one chain: at most one of them is current, and
\* the numbers go up.  Only writers that overlap can fork it, and only a cleanup
\* of the current version lets the numbers start again; no error, decay,
\* compression or deletion of earlier versions does.
ChainIsLinear ==
    \A x \in Titles \ raced :
        /\ Cardinality(Current(x)) <= 1
        /\ x \notin forgotten =>
              \A i, j \in Facts(x) \cap Live : i < j => mem[i].version < mem[j].version

\* No fact is superseded in vain: the version that replaces it has been stored,
\* whatever fails in between, and whoever else writes.
SupersededByNewer ==
    \A i \in Ids : mem[i].superseded =>
        \E j \in Ids : i < j /\ mem[j].kind = "fact" /\ mem[j].title = mem[i].title /\ i \in mem[j].of

\* No memory is archived before a summary of its cluster has been stored, so that
\* a failing model, database or process costs no knowledge.
ArchivedIsSummarized ==
    \A i \in Ids : mem[i].archived =>
        \E j \in Ids : i < j /\ mem[j].kind = "summary" /\ i \in mem[j].of

=============================================================================
