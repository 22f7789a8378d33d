---------------------------- MODULE MemoriesProofs ----------------------------
(* Proofs about Memories for any threads, titles and bounds.                 *)
EXTENDS Memories, SequenceTheorems, FiniteSetTheorems, TLAPS

\* Row i has been replaced by a later version that names it.
Replaced(i) ==
    \E j \in Ids : i < j /\ mem[j].kind = "fact" /\ mem[j].title = mem[i].title /\ i \in mem[j].of

\* A summary made of row i has been stored after it.
Summarized(i) == \E j \in Ids : i < j /\ mem[j].kind = "summary" /\ i \in mem[j].of

\* What a thread is going to write is right whenever it comes to write it.
Sound(t) ==
    /\ pc[t] = "store" => title[t] \in Titles
    /\ pc[t] = "store" => \A i \in work[t] : mem[i].kind = "fact" /\ mem[i].title = title[t]
    /\ pc[t] = "store" => \A i \in seen[t] : Summarized(i)
    /\ pc[t] \in {"summarized", "archive"} => \A i \in work[t] : Summarized(i)
    /\ pc[t] = "archive" => \A i \in seen[t] : Replaced(i)

Inv == TypeOK /\ SupersededByNewer /\ ArchivedIsSummarized /\ (\A t \in Threads : Sound(t))

\* The rows that were there are there, and say what they said of themselves.
Kept ==
    /\ Len(mem) <= Len(mem')
    /\ \A i \in Ids : /\ mem'[i].kind = mem[i].kind /\ mem'[i].title = mem[i].title
                      /\ mem'[i].of = mem[i].of

-----------------------------------------------------------------------------
(* Rows and sequences of rows.                                              *)

\* Changing rows in place keeps their number.
LEMMA InPlace ==
    ASSUME NEW s \in Seq(MemoryEntry), NEW f \in [1..Len(s) -> MemoryEntry]
    PROVE  f \in Seq(MemoryEntry) /\ Len(f) = Len(s)
<1>1. Len(s) \in Nat
  BY LenProperties
<1>2. f \in Seq(MemoryEntry)
  BY <1>1
<1>3. DOMAIN f = 1..Len(s) /\ DOMAIN f = 1..Len(f) /\ Len(f) \in Nat
  BY <1>2, LenProperties
<1> QED  BY <1>1, <1>2, <1>3

\* A row stored at the end is the last, and the others are where they were.
LEMMA AtEnd ==
    ASSUME NEW s \in Seq(MemoryEntry), NEW e \in MemoryEntry
    PROVE  /\ Append(s, e) \in Seq(MemoryEntry)
           /\ Len(Append(s, e)) = Len(s) + 1
           /\ Append(s, e)[Len(s) + 1] = e
           /\ \A i \in 1..Len(s) : Append(s, e)[i] = s[i]
BY LenProperties

\* A new row has the type of rows.
LEMMA EntryTyped ==
    ASSUME NEW k \in {"fact", "episode", "summary"}, NEW x \in Titles \cup {"none"},
           NEW v \in Nat \ {0}, NEW of \in SUBSET Nat
    PROVE  Entry(k, x, v, of) \in MemoryEntry
BY MemoriesAssumption DEF Entry, MemoryEntry

\* A row whose flags are set to anything is a row.
LEMMA FlagsTyped ==
    ASSUME NEW r \in MemoryEntry, NEW a \in BOOLEAN, NEW b \in BOOLEAN
    PROVE  /\ [r EXCEPT !.superseded = a, !.archived = b] \in MemoryEntry
           /\ [r EXCEPT !.archived = b, !.superseded = a] \in MemoryEntry
BY DEF MemoryEntry

\* Versions count from one.
LEMMA NextVersionPositive ==
    ASSUME TypeOK, NEW base \in SUBSET Ids
    PROVE  NextVersion(base) \in Nat \ {0}
<1>1. CASE base = {}
  BY <1>1 DEF NextVersion
<1>2. CASE base # {}
  <2> DEFINE V == {mem[i].version : i \in base}
  <2>1. \A i \in base : mem[i].version \in Nat
    <3>1. \A i \in base : mem[i] \in MemoryEntry
      BY ElementOfSeq DEF TypeOK, Ids
    <3> QED  BY <3>1 DEF MemoryEntry
  <2>2. (CHOOSE n \in V : TRUE) \in Nat
    BY <1>2, <2>1
  <2> QED  BY <1>2, <2>2 DEF NextVersion
<1> QED  BY <1>1, <1>2

\* What has been replaced or summarized stays so.
LEMMA KeptForGood ==
    ASSUME TypeOK, TypeOK', Kept, NEW i \in Ids
    PROVE  /\ Replaced(i) => Replaced(i)'
           /\ Summarized(i) => Summarized(i)'
<1>1. Ids \subseteq Ids'
  BY LenProperties DEF TypeOK, Kept, Ids
<1> QED  BY <1>1 DEF Kept, Replaced, Summarized

-----------------------------------------------------------------------------
(* Each step keeps the invariant.                                           *)

\* Nothing is stored at the start.
LEMMA InitInv == Init => Inv
<1> SUFFICES ASSUME Init PROVE Inv
  OBVIOUS
<1>1. mem \in Seq(MemoryEntry) /\ Len(mem) = 0 /\ Ids = {}
  BY EmptySeq DEF Init, Ids
<1> QED
  BY <1>1, MemoriesAssumption
  DEF Init, Inv, TypeOK, SupersededByNewer, ArchivedIsSummarized, Sound

\* Flags that were set stay justified, and so do new ones that are.
LEMMA FlagsJustified ==
    ASSUME Inv, TypeOK', Kept,
           \A i \in Ids' : mem'[i].superseded => Replaced(i)' \/ (i \in Ids /\ mem[i].superseded),
           \A i \in Ids' : mem'[i].archived => Summarized(i)' \/ (i \in Ids /\ mem[i].archived)
    PROVE  SupersededByNewer' /\ ArchivedIsSummarized'
<1>1. \A i \in Ids : mem[i].superseded => Replaced(i)'
  BY KeptForGood DEF Inv, SupersededByNewer, Replaced
<1>2. \A i \in Ids : mem[i].archived => Summarized(i)'
  BY KeptForGood DEF Inv, ArchivedIsSummarized, Summarized
<1> QED  BY <1>1, <1>2 DEF SupersededByNewer, ArchivedIsSummarized, Replaced, Summarized

\* What a thread is going to write stays right while others act.
LEMMA OthersSound ==
    ASSUME Inv, TypeOK', Kept, NEW u \in Threads,
           pc'[u] = pc[u], title'[u] = title[u], work'[u] = work[u], seen'[u] = seen[u]
    PROVE  Sound(u)'
<1>1. work[u] \subseteq Ids /\ seen[u] \subseteq Ids
  BY DEF Inv, TypeOK
<1> QED  BY <1>1, KeptForGood DEF Inv, Sound, Kept

\* A step of one thread that leaves its own work right keeps the invariant.
LEMMA StepOf ==
    ASSUME Inv, TypeOK', Kept, NEW t \in Threads,
           \A u \in Threads \ {t} : /\ pc'[u] = pc[u] /\ title'[u] = title[u]
                                    /\ work'[u] = work[u] /\ seen'[u] = seen[u],
           Sound(t)',
           \A i \in Ids' : mem'[i].superseded => Replaced(i)' \/ (i \in Ids /\ mem[i].superseded),
           \A i \in Ids' : mem'[i].archived => Summarized(i)' \/ (i \in Ids /\ mem[i].archived)
    PROVE  Inv'
<1>1. \A u \in Threads : Sound(u)'
  BY OthersSound
<1> QED  BY <1>1, FlagsJustified DEF Inv

\* The rows as they were are kept.
LEMMA SameRows ==
    ASSUME TypeOK, mem' = mem
    PROVE  Kept /\ Ids' = Ids /\ Len(mem') = Len(mem)
BY LenProperties DEF Kept, TypeOK, Ids

\* Changing flags, strength and presence of rows keeps them.
LEMMA RowsChanged ==
    ASSUME TypeOK, NEW f \in [Ids -> MemoryEntry], mem' = f,
           \A i \in Ids : f[i].kind = mem[i].kind /\ f[i].title = mem[i].title /\ f[i].of = mem[i].of
    PROVE  mem' \in Seq(MemoryEntry) /\ Len(mem') = Len(mem) /\ Ids' = Ids /\ Kept
<1>1. mem \in Seq(MemoryEntry) /\ Len(mem) \in Nat
  BY LenProperties DEF TypeOK
<1>2. mem' \in Seq(MemoryEntry) /\ Len(mem') = Len(mem)
  BY <1>1, InPlace DEF Ids
<1> QED  BY <1>1, <1>2 DEF Ids, Kept

\* Storing a row after changing flags of others keeps them.
LEMMA RowStored ==
    ASSUME TypeOK, NEW f \in [Ids -> MemoryEntry], NEW e \in MemoryEntry, mem' = Append(f, e),
           \A i \in Ids : f[i].kind = mem[i].kind /\ f[i].title = mem[i].title /\ f[i].of = mem[i].of
    PROVE  /\ mem' \in Seq(MemoryEntry) /\ Len(mem') = Len(mem) + 1
           /\ Ids' = Ids \cup {Len(mem) + 1} /\ Len(mem) + 1 \notin Ids
           /\ mem'[Len(mem) + 1] = e /\ \A i \in Ids : mem'[i] = f[i] /\ i < Len(mem) + 1
           /\ Kept
<1>1. mem \in Seq(MemoryEntry) /\ Len(mem) \in Nat
  BY LenProperties DEF TypeOK
<1>2. f \in Seq(MemoryEntry) /\ Len(f) = Len(mem)
  BY <1>1, InPlace DEF Ids
<1>3. /\ mem' \in Seq(MemoryEntry) /\ Len(mem') = Len(mem) + 1
      /\ mem'[Len(mem) + 1] = e /\ \A i \in 1..Len(mem) : mem'[i] = f[i]
  BY <1>2, AtEnd
<1>4. Ids' = Ids \cup {Len(mem) + 1} /\ Len(mem) + 1 \notin Ids
  BY <1>1, <1>3 DEF Ids
<1> QED  BY <1>1, <1>3, <1>4 DEF Ids, Kept

\* Rows have the type of rows.
LEMMA RowTyped ==
    ASSUME TypeOK
    PROVE  Len(mem) \in Nat /\ \A i \in Ids : mem[i] \in MemoryEntry
BY ElementOfSeq, LenProperties DEF TypeOK, Ids

-----------------------------------------------------------------------------
(* The steps that no thread of the model takes, and those that only read.   *)

\* An episode is stored.
LEMMA StoreEpisodeInv == Inv /\ StoreEpisode => Inv'
<1> SUFFICES ASSUME Inv, StoreEpisode PROVE Inv'
  OBVIOUS
<1> DEFINE e == Entry("episode", "none", 1, {})
<1>1. TypeOK /\ mem \in [Ids -> MemoryEntry] /\ e \in MemoryEntry
  <2>1. mem \in [Ids -> MemoryEntry]
    BY LenProperties DEF Inv, TypeOK, Ids
  <2>2. e \in MemoryEntry
    BY EntryTyped, 1 \in Nat \ {0}, {} \in SUBSET Nat
  <2> QED  BY <2>1, <2>2 DEF Inv
<1> HIDE DEF e
<1>2. mem' = Append(mem, e)
  BY DEF StoreEpisode, e
<1>3. /\ mem' \in Seq(MemoryEntry) /\ Len(mem') = Len(mem) + 1 /\ Len(mem) \in Nat
      /\ Ids' = Ids \cup {Len(mem) + 1}
      /\ mem'[Len(mem) + 1] = e /\ \A i \in Ids : mem'[i] = mem[i]
      /\ Kept
  BY <1>1, <1>2, RowStored, RowTyped
<1>4. TypeOK'
  BY <1>1, <1>3, MemoriesAssumption DEF StoreEpisode, TypeOK, local
<1>5. ~e.superseded /\ ~e.archived
  BY DEF e, Entry
<1>6. SupersededByNewer' /\ ArchivedIsSummarized'
  BY <1>3, <1>4, <1>5, FlagsJustified
<1>7. \A u \in Threads : Sound(u)'
  BY <1>3, <1>4, OthersSound DEF StoreEpisode, local
<1> QED  BY <1>4, <1>6, <1>7 DEF Inv

\* Memories fade.
LEMMA DecayInv == Inv /\ Decay => Inv'
<1> SUFFICES ASSUME Inv, Decay PROVE Inv'
  OBVIOUS
<1>1. TypeOK /\ Len(mem) \in Nat /\ \A i \in Ids : mem[i] \in MemoryEntry
  BY RowTyped DEF Inv
<1>2. PICK fading \in SUBSET {i \in Live : mem[i].strength > 0} :
        mem' = [i \in Ids |-> [mem[i] EXCEPT !.strength = IF i \in fading THEN @ - 1 ELSE @]]
  BY DEF Decay
<1> DEFINE f == [i \in Ids |-> [mem[i] EXCEPT !.strength = IF i \in fading THEN @ - 1 ELSE @]]
<1>3. \A i \in Ids : f[i] \in MemoryEntry
  BY <1>1, MemoriesAssumption DEF MemoryEntry
<1>4. \A i \in Ids : /\ f[i].kind = mem[i].kind /\ f[i].title = mem[i].title /\ f[i].of = mem[i].of
                     /\ f[i].superseded = mem[i].superseded /\ f[i].archived = mem[i].archived
  BY <1>1 DEF MemoryEntry
<1>5. f \in [Ids -> MemoryEntry] /\ mem' = f
  BY <1>2, <1>3
<1> HIDE DEF f
<1>6. mem' \in Seq(MemoryEntry) /\ Len(mem') = Len(mem) /\ Ids' = Ids /\ Kept
  BY <1>1, <1>4, <1>5, RowsChanged
<1>7. TypeOK'
  BY <1>1, <1>6 DEF Decay, TypeOK, local
<1>8. SupersededByNewer' /\ ArchivedIsSummarized'
  BY <1>4, <1>5, <1>6, <1>7, FlagsJustified
<1>9. \A u \in Threads : Sound(u)'
  BY <1>6, <1>7, OthersSound DEF Decay, local
<1> QED  BY <1>7, <1>8, <1>9 DEF Inv

\* Memories are deleted.
LEMMA CleanupInv == Inv /\ Cleanup => Inv'
<1> SUFFICES ASSUME Inv, Cleanup PROVE Inv'
  OBVIOUS
<1>1. TypeOK /\ Len(mem) \in Nat /\ \A i \in Ids : mem[i] \in MemoryEntry
  BY RowTyped DEF Inv
<1>2. PICK month \in 0..Len(mem), quarter \in 0..Len(mem) :
        mem' = [i \in Ids |-> [mem[i] EXCEPT !.gone = @ \/ i \in Outlived(month, quarter)]]
  BY DEF Cleanup
<1> DEFINE f == [i \in Ids |-> [mem[i] EXCEPT !.gone = @ \/ i \in Outlived(month, quarter)]]
<1>3. \A i \in Ids : f[i] \in MemoryEntry
  BY <1>1 DEF MemoryEntry
<1>4. \A i \in Ids : /\ f[i].kind = mem[i].kind /\ f[i].title = mem[i].title /\ f[i].of = mem[i].of
                     /\ f[i].superseded = mem[i].superseded /\ f[i].archived = mem[i].archived
  BY <1>1 DEF MemoryEntry
<1>5. f \in [Ids -> MemoryEntry] /\ mem' = f
  BY <1>2, <1>3
<1> HIDE DEF f
<1>6. mem' \in Seq(MemoryEntry) /\ Len(mem') = Len(mem) /\ Ids' = Ids /\ Kept
  BY <1>1, <1>4, <1>5, RowsChanged
<1>7. forgotten' \subseteq Titles
  BY <1>1 DEF Cleanup, TypeOK
<1>8. TypeOK'
  BY <1>1, <1>6, <1>7 DEF Cleanup, TypeOK, local
<1>9. SupersededByNewer' /\ ArchivedIsSummarized'
  BY <1>4, <1>5, <1>6, <1>8, FlagsJustified
<1>10. \A u \in Threads : Sound(u)'
  BY <1>6, <1>8, OthersSound DEF Cleanup, local
<1> QED  BY <1>8, <1>9, <1>10 DEF Inv

\* A step of one thread that changes no row and leaves its own work right.
LEMMA ReadingStep ==
    ASSUME Inv, mem' = mem, TypeOK', NEW t \in Threads,
           \A u \in Threads \ {t} : /\ pc'[u] = pc[u] /\ title'[u] = title[u]
                                    /\ work'[u] = work[u] /\ seen'[u] = seen[u],
           Sound(t)'
    PROVE  Inv'
<1>1. Kept /\ Ids' = Ids
  BY SameRows DEF Inv
<1> QED  BY <1>1, StepOf

\* The flags of facts that store_fact reads are justified.
LEMMA ReadFactInv == ASSUME NEW t \in Threads PROVE Inv /\ ReadFact(t) => Inv'
<1> SUFFICES ASSUME Inv, ReadFact(t) PROVE Inv'
  OBVIOUS
<1>1. PICK x \in Titles : /\ title' = [title EXCEPT ![t] = x]
                          /\ work' = [work EXCEPT ![t] = Base(x)]
                          /\ seen' = [seen EXCEPT ![t] = {i \in Base(x) : mem[i].archived}]
  BY DEF ReadFact
<1>2. Base(x) \subseteq Ids /\ \A i \in Base(x) : mem[i].kind = "fact" /\ mem[i].title = x
  BY DEF Base, Newest, Current, Facts, Live
<1>3. mem' = mem /\ Ids' = Ids
  BY DEF ReadFact, Ids
<1>4. TypeOK'
  BY <1>1, <1>2, <1>3 DEF Inv, TypeOK, ReadFact, Goto
<1>5. pc'[t] = "store" /\ title'[t] = x /\ work'[t] = Base(x) /\ seen'[t] = {i \in Base(x) : mem[i].archived}
  BY <1>1 DEF Inv, TypeOK, ReadFact, Goto
<1>6. \A i \in seen'[t] : Summarized(i)'
  BY <1>2, <1>3, <1>5 DEF Inv, ArchivedIsSummarized, Summarized
<1>7. Sound(t)'
  BY <1>2, <1>3, <1>5, <1>6 DEF Sound
<1>8. \A u \in Threads \ {t} : /\ pc'[u] = pc[u] /\ title'[u] = title[u]
                               /\ work'[u] = work[u] /\ seen'[u] = seen[u]
  BY <1>1 DEF Inv, TypeOK, ReadFact, Goto
<1> QED  BY <1>3, <1>4, <1>7, <1>8, ReadingStep

\* While the model is asked nothing is promised of the cluster.
LEMMA FindClusterInv == ASSUME NEW t \in Threads PROVE Inv /\ FindCluster(t) => Inv'
<1> SUFFICES ASSUME Inv, FindCluster(t) PROVE Inv'
  OBVIOUS
<1>1. PICK c \in Clusters : work' = [work EXCEPT ![t] = c]
  BY DEF FindCluster
<1>2. c \subseteq Ids
  BY DEF Clusters, Live
<1>3. mem' = mem /\ Ids' = Ids
  BY DEF FindCluster, Ids
<1>4. TypeOK'
  BY <1>1, <1>2, <1>3 DEF Inv, TypeOK, FindCluster, Goto
<1>5. Sound(t)'
  BY DEF Inv, TypeOK, FindCluster, Goto, Sound
<1>6. \A u \in Threads \ {t} : /\ pc'[u] = pc[u] /\ title'[u] = title[u]
                               /\ work'[u] = work[u] /\ seen'[u] = seen[u]
  BY <1>1 DEF Inv, TypeOK, FindCluster, Goto
<1> QED  BY <1>3, <1>4, <1>5, <1>6, ReadingStep

\* The flags of originals that are read are justified.
LEMMA ReadOriginalsInv == ASSUME NEW t \in Threads PROVE Inv /\ ReadOriginals(t) => Inv'
<1> SUFFICES ASSUME Inv, ReadOriginals(t) PROVE Inv'
  OBVIOUS
<1>1. mem' = mem /\ Ids' = Ids
  BY DEF ReadOriginals, Ids
<1>2. TypeOK'
  BY <1>1 DEF Inv, TypeOK, ReadOriginals, Goto
<1>3. /\ pc'[t] = "archive" /\ work'[t] = work[t] \cap Live
      /\ seen'[t] = {i \in work[t] \cap Live : mem[i].superseded}
      /\ work[t] \subseteq Ids
  BY DEF Inv, TypeOK, ReadOriginals, Goto
<1>4. \A i \in work'[t] : Summarized(i)'
  BY <1>1, <1>3 DEF Inv, Sound, ReadOriginals, Summarized
<1>5. \A i \in seen'[t] : Replaced(i)'
  BY <1>1, <1>3 DEF Inv, SupersededByNewer, Replaced
<1>6. Sound(t)'
  BY <1>3, <1>4, <1>5 DEF Sound
<1>7. \A u \in Threads \ {t} : /\ pc'[u] = pc[u] /\ title'[u] = title[u]
                               /\ work'[u] = work[u] /\ seen'[u] = seen[u]
  BY DEF Inv, TypeOK, ReadOriginals, Goto
<1> QED  BY <1>1, <1>2, <1>6, <1>7, ReadingStep

-----------------------------------------------------------------------------
(* The steps of threads that write.                                         *)

\* Where store_fact leaves the rows: the new version is at the end, and its base is marked.
LEMMA FactStored ==
    ASSUME Inv, NEW t \in Threads, WriteFact(t)
    PROVE  /\ mem' \in Seq(MemoryEntry) /\ Len(mem) \in Nat /\ Len(mem') = Len(mem) + 1
           /\ Ids' = Ids \cup {Len(mem) + 1} /\ Len(mem) + 1 \notin Ids
           /\ mem'[Len(mem) + 1] = Entry("fact", title[t], NextVersion(work[t]), work[t])
           /\ \A i \in Ids :
                 /\ i < Len(mem) + 1 /\ mem[i] \in MemoryEntry
                 /\ mem'[i].kind = mem[i].kind /\ mem'[i].title = mem[i].title
                 /\ mem'[i].version = mem[i].version /\ mem'[i].gone = mem[i].gone
                 /\ i \notin work[t] => mem'[i] = mem[i]
                 /\ i \in work[t] => mem'[i].superseded /\ mem'[i].archived = (i \in seen[t])
           /\ Kept
<1> DEFINE f == [i \in Ids |-> IF i \in work[t]
                                 THEN [mem[i] EXCEPT !.superseded = TRUE, !.archived = i \in seen[t]]
                                 ELSE mem[i]]
           e == Entry("fact", title[t], NextVersion(work[t]), work[t])
<1>1. TypeOK /\ Len(mem) \in Nat /\ \A i \in Ids : mem[i] \in MemoryEntry
  BY RowTyped DEF Inv
<1>2. mem' = Append(f, e)
  BY DEF WriteFact
<1>3. e \in MemoryEntry
  <2>1. title[t] \in Titles \cup {"none"} /\ work[t] \in SUBSET Ids
    BY <1>1 DEF TypeOK
  <2>2. work[t] \in SUBSET Nat
    BY <2>1 DEF Ids
  <2>3. NextVersion(work[t]) \in Nat \ {0}
    BY <1>1, <2>1, NextVersionPositive
  <2> QED  BY <2>1, <2>2, <2>3, EntryTyped
<1>4. \A i \in Ids :
         /\ f[i] \in MemoryEntry
         /\ f[i].kind = mem[i].kind /\ f[i].title = mem[i].title /\ f[i].of = mem[i].of
         /\ f[i].version = mem[i].version /\ f[i].gone = mem[i].gone
         /\ i \notin work[t] => f[i] = mem[i]
         /\ i \in work[t] => f[i].superseded /\ f[i].archived = (i \in seen[t])
  <2> SUFFICES ASSUME NEW i \in Ids
               PROVE  /\ f[i] \in MemoryEntry
                      /\ f[i].kind = mem[i].kind /\ f[i].title = mem[i].title /\ f[i].of = mem[i].of
                      /\ f[i].version = mem[i].version /\ f[i].gone = mem[i].gone
                      /\ i \notin work[t] => f[i] = mem[i]
                      /\ i \in work[t] => f[i].superseded /\ f[i].archived = (i \in seen[t])
    OBVIOUS
  <2> DEFINE b == i \in seen[t]
  <2>1. b \in BOOLEAN
    OBVIOUS
  <2>2. f[i] = IF i \in work[t] THEN [mem[i] EXCEPT !.superseded = TRUE, !.archived = b] ELSE mem[i]
    OBVIOUS
  <2>3. b = (i \in seen[t])
    OBVIOUS
  <2> HIDE DEF f, b
  <2>4. [mem[i] EXCEPT !.superseded = TRUE, !.archived = b] \in MemoryEntry
    BY <1>1, <2>1, FlagsTyped
  <2>5. mem[i] \in MemoryEntry
    BY <1>1
  <2> QED  BY <2>2, <2>3, <2>4, <2>5 DEF MemoryEntry
<1>5. f \in [Ids -> MemoryEntry]
  BY <1>4
<1> HIDE DEF f, e
<1>6. /\ mem' \in Seq(MemoryEntry) /\ Len(mem') = Len(mem) + 1
      /\ Ids' = Ids \cup {Len(mem) + 1} /\ Len(mem) + 1 \notin Ids
      /\ mem'[Len(mem) + 1] = e /\ \A i \in Ids : mem'[i] = f[i] /\ i < Len(mem) + 1
      /\ Kept
  BY <1>1, <1>2, <1>3, <1>4, <1>5, RowStored
<1> QED  BY <1>1, <1>4, <1>6 DEF e

\* The new version names the one it supersedes, whose flag is set with it.
LEMMA WriteFactInv == ASSUME NEW t \in Threads PROVE Inv /\ WriteFact(t) => Inv'
<1> SUFFICES ASSUME Inv, WriteFact(t) PROVE Inv'
  OBVIOUS
<1> DEFINE e == Entry("fact", title[t], NextVersion(work[t]), work[t])
<1>1. TypeOK /\ Len(mem) \in Nat /\ \A i \in Ids : mem[i] \in MemoryEntry
  BY RowTyped DEF Inv
<1>7. /\ e.kind = "fact" /\ e.title = title[t] /\ e.of = work[t]
      /\ ~e.superseded /\ ~e.archived
  BY DEF Entry
<1> HIDE DEF e
<1>8. /\ mem' \in Seq(MemoryEntry) /\ Len(mem') = Len(mem) + 1
      /\ Ids' = Ids \cup {Len(mem) + 1}
      /\ mem'[Len(mem) + 1] = e
      /\ \A i \in Ids : /\ i < Len(mem) + 1
                        /\ mem'[i].title = mem[i].title
                        /\ i \notin work[t] => mem'[i] = mem[i]
                        /\ i \in work[t] => mem'[i].archived = (i \in seen[t])
      /\ Kept
  BY FactStored DEF e
<1>9. /\ pc[t] = "store" /\ Rest(t) /\ Len(mem) < MaxEntries
      /\ raced' \in {raced, raced \cup {title[t]}} /\ forgotten' = forgotten
  BY DEF WriteFact
<1>10. raced' \subseteq Titles
  BY <1>1, <1>9 DEF TypeOK, Inv, Sound
<1>11. TypeOK'
  BY <1>1, <1>8, <1>9, <1>10, MemoriesAssumption DEF TypeOK, Rest, Goto
<1>12. \A i \in Ids' : mem'[i].superseded => Replaced(i)' \/ (i \in Ids /\ mem[i].superseded)
  <2>1. ASSUME NEW i \in work[t] PROVE Replaced(i)'
    <3>1. i \in Ids /\ mem[i].title = title[t]
      BY <1>1, <1>9 DEF Inv, Sound, TypeOK
    <3> QED  BY <1>7, <1>8, <3>1 DEF Replaced
  <2> QED  BY <1>7, <1>8, <2>1
<1>13. \A i \in Ids' : mem'[i].archived => Summarized(i)' \/ (i \in Ids /\ mem[i].archived)
  <2>1. \A i \in seen[t] : i \in Ids /\ Summarized(i)
    BY <1>1, <1>9 DEF Inv, Sound, TypeOK
  <2>2. \A i \in seen[t] : Summarized(i)'
    BY <1>1, <1>8, <1>11, <2>1, KeptForGood
  <2> QED  BY <1>7, <1>8, <2>2
<1>14. Sound(t)'
  BY <1>1, <1>9 DEF Rest, Goto, TypeOK, Sound
<1>15. \A u \in Threads \ {t} : /\ pc'[u] = pc[u] /\ title'[u] = title[u]
                                /\ work'[u] = work[u] /\ seen'[u] = seen[u]
  BY <1>1, <1>9 DEF Rest, Goto, TypeOK
<1> QED  BY <1>8, <1>11, <1>12, <1>13, <1>14, <1>15, StepOf

\* The summary names the rows of its cluster.
LEMMA StoreSummaryInv == ASSUME NEW t \in Threads PROVE Inv /\ StoreSummary(t) => Inv'
<1> SUFFICES ASSUME Inv, StoreSummary(t) PROVE Inv'
  OBVIOUS
<1> DEFINE e == Entry("summary", "none", 1, work[t])
<1>1. TypeOK /\ Len(mem) \in Nat /\ mem \in [Ids -> MemoryEntry]
  BY RowTyped, LenProperties DEF Inv, TypeOK, Ids
<1>2. work[t] \in SUBSET Ids /\ work[t] \in SUBSET Nat
  BY <1>1 DEF TypeOK, Ids
<1>3. e \in MemoryEntry
  BY <1>2, EntryTyped, 1 \in Nat \ {0}
<1>4. e.kind = "summary" /\ e.of = work[t] /\ ~e.superseded /\ ~e.archived
  BY DEF Entry
<1>5. mem' = Append(mem, e)
  BY DEF StoreSummary
<1> HIDE DEF e
<1>6. /\ mem' \in Seq(MemoryEntry) /\ Len(mem') = Len(mem) + 1
      /\ Ids' = Ids \cup {Len(mem) + 1}
      /\ mem'[Len(mem) + 1] = e /\ \A i \in Ids : mem'[i] = mem[i] /\ i < Len(mem) + 1
      /\ Kept
  BY <1>1, <1>3, <1>5, RowStored
<1>7. TypeOK'
  BY <1>1, <1>6, MemoriesAssumption DEF TypeOK, StoreSummary, Goto, local
<1>8. Sound(t)'
  <2>1. \A i \in work[t] : Summarized(i)'
    BY <1>2, <1>4, <1>6 DEF Summarized
  <2>2. pc'[t] = "summarized" /\ work' = work
    BY <1>1 DEF TypeOK, StoreSummary, Goto, local
  <2> QED  BY <2>1, <2>2 DEF Sound
<1>9. \A u \in Threads \ {t} : /\ pc'[u] = pc[u] /\ title'[u] = title[u]
                               /\ work'[u] = work[u] /\ seen'[u] = seen[u]
  BY <1>1 DEF TypeOK, StoreSummary, Goto, local
<1>10. \A i \in Ids' : mem'[i].superseded => Replaced(i)' \/ (i \in Ids /\ mem[i].superseded)
  BY <1>4, <1>6
<1>11. \A i \in Ids' : mem'[i].archived => Summarized(i)' \/ (i \in Ids /\ mem[i].archived)
  BY <1>4, <1>6
<1> QED  BY <1>6, <1>7, <1>8, <1>9, <1>10, <1>11, StepOf

\* What is archived has its summary, and a flag written back was justified when read.
LEMMA ArchiveInv == ASSUME NEW t \in Threads PROVE Inv /\ Archive(t) => Inv'
<1> SUFFICES ASSUME Inv, Archive(t) PROVE Inv'
  OBVIOUS
<1> DEFINE f == [i \in Ids |-> IF i \in work[t]
                                 THEN [mem[i] EXCEPT !.archived = TRUE, !.superseded = i \in seen[t]]
                                 ELSE mem[i]]
<1>1. TypeOK /\ Len(mem) \in Nat /\ \A i \in Ids : mem[i] \in MemoryEntry
  BY RowTyped DEF Inv
<1>2. mem' = f
  BY DEF Archive
<1>3. \A i \in Ids : f[i] \in MemoryEntry
  <2> SUFFICES ASSUME NEW i \in Ids PROVE f[i] \in MemoryEntry
    OBVIOUS
  <2> DEFINE b == i \in seen[t]
  <2>1. b \in BOOLEAN
    OBVIOUS
  <2>2. f[i] = IF i \in work[t] THEN [mem[i] EXCEPT !.archived = TRUE, !.superseded = b] ELSE mem[i]
    OBVIOUS
  <2> HIDE DEF f, b
  <2>3. [mem[i] EXCEPT !.archived = TRUE, !.superseded = b] \in MemoryEntry
    BY <1>1, <2>1, FlagsTyped
  <2> QED  BY <1>1, <2>2, <2>3
<1>4. \A i \in Ids : /\ f[i].kind = mem[i].kind /\ f[i].title = mem[i].title /\ f[i].of = mem[i].of
                     /\ i \notin work[t] => f[i] = mem[i]
                     /\ i \in work[t] => f[i].superseded = (i \in seen[t])
  BY <1>1 DEF MemoryEntry
<1>5. f \in [Ids -> MemoryEntry]
  BY <1>3
<1> HIDE DEF f
<1>6. mem' \in Seq(MemoryEntry) /\ Len(mem') = Len(mem) /\ Ids' = Ids /\ Kept
  BY <1>1, <1>2, <1>4, <1>5, RowsChanged
<1>7. pc[t] = "archive" /\ Rest(t) /\ raced' \subseteq Titles /\ forgotten' = forgotten
  BY <1>1 DEF Archive, TypeOK
<1>8. TypeOK'
  BY <1>1, <1>6, <1>7 DEF TypeOK, Rest, Goto
<1>9. /\ \A i \in work[t] : i \in Ids /\ Summarized(i)
      /\ \A i \in seen[t] : i \in Ids /\ Replaced(i)
  BY <1>1, <1>7 DEF Inv, Sound, TypeOK
<1>10. /\ \A i \in work[t] : Summarized(i)'
       /\ \A i \in seen[t] : Replaced(i)'
  BY <1>1, <1>6, <1>8, <1>9, KeptForGood
<1>11. \A i \in Ids' : mem'[i].superseded => Replaced(i)' \/ (i \in Ids /\ mem[i].superseded)
  BY <1>2, <1>4, <1>6, <1>10
<1>12. \A i \in Ids' : mem'[i].archived => Summarized(i)' \/ (i \in Ids /\ mem[i].archived)
  BY <1>2, <1>4, <1>6, <1>10
<1>13. Sound(t)'
  BY <1>1, <1>7 DEF Rest, Goto, TypeOK, Sound
<1>14. \A u \in Threads \ {t} : /\ pc'[u] = pc[u] /\ title'[u] = title[u]
                                /\ work'[u] = work[u] /\ seen'[u] = seen[u]
  BY <1>1, <1>7 DEF Rest, Goto, TypeOK
<1> QED  BY <1>6, <1>8, <1>11, <1>12, <1>13, <1>14, StepOf

\* A thread that gives up has written nothing.
LEMMA FailInv ==
    ASSUME NEW t \in Threads
    PROVE  Inv /\ (FailFact(t) \/ FailCompression(t)) => Inv'
<1> SUFFICES ASSUME Inv, Rest(t), UNCHANGED <<mem, raced, forgotten>> PROVE Inv'
  BY DEF FailFact, FailCompression
<1>1. mem' = mem /\ Ids' = Ids
  BY DEF Ids
<1>2. TypeOK'
  BY <1>1 DEF Inv, TypeOK, Rest, Goto
<1>3. Sound(t)'
  BY DEF Inv, TypeOK, Rest, Goto, Sound
<1>4. \A u \in Threads \ {t} : /\ pc'[u] = pc[u] /\ title'[u] = title[u]
                               /\ work'[u] = work[u] /\ seen'[u] = seen[u]
  BY DEF Inv, TypeOK, Rest, Goto
<1> QED  BY <1>1, <1>2, <1>3, <1>4, ReadingStep

-----------------------------------------------------------------------------
(* The theorems.                                                            *)

\* The invariant holds at every step, stuttering included.
LEMMA StepInv == Inv /\ [Next]_vars => Inv'
<1> SUFFICES ASSUME Inv, [Next]_vars PROVE Inv'
  OBVIOUS
<1>1. CASE StoreEpisode
  BY <1>1, StoreEpisodeInv
<1>2. CASE Decay
  BY <1>2, DecayInv
<1>3. CASE Cleanup
  BY <1>3, CleanupInv
<1>4. ASSUME NEW t \in Threads,
             \/ ReadFact(t) \/ WriteFact(t) \/ FailFact(t) \/ FindCluster(t)
             \/ StoreSummary(t) \/ ReadOriginals(t) \/ Archive(t) \/ FailCompression(t)
      PROVE  Inv'
  BY <1>4, ReadFactInv, WriteFactInv, FailInv, FindClusterInv, StoreSummaryInv,
     ReadOriginalsInv, ArchiveInv
<1>5. CASE UNCHANGED vars
  BY <1>5 DEF vars, local, Inv, TypeOK, Ids, SupersededByNewer, ArchivedIsSummarized, Sound,
              Replaced, Summarized
<1> QED  BY <1>1, <1>2, <1>3, <1>4, <1>5 DEF Next

\* Every variable has its type, and threads refer to rows that have existed:
\* no step of store_fact, of the compression or of the jobs loses track of a row.
THEOREM TypeCorrect == Spec => []TypeOK
<1>1. Inv => TypeOK
  BY DEF Inv
<1> QED  BY <1>1, InitInv, StepInv, PTL DEF Spec

\* However store_fact calls, compressions and cleanups interleave and fail, a fact
\* is marked superseded only with a later version stored that names it.
THEOREM NothingSupersededInVain == Spec => []SupersededByNewer
<1>1. Inv => SupersededByNewer
  BY DEF Inv
<1> QED  BY <1>1, InitInv, StepInv, PTL DEF Spec

\* However compressions overlap with each other and with store_fact, and whatever
\* fails, a memory is archived only with a summary of its cluster stored.
THEOREM NothingArchivedUnread == Spec => []ArchivedIsSummarized
<1>1. Inv => ArchivedIsSummarized
  BY DEF Inv
<1> QED  BY <1>1, InitInv, StepInv, PTL DEF Spec

-----------------------------------------------------------------------------
(* The versions of a fact.  ChainIsLinear is not inductive: that a new       *)
(* version is the newest and the only current one follows from the older     *)
(* ones having been superseded by it, so the invariant says that only the    *)
(* newest version is current, and that it is so unless it has been deleted.  *)

Versions(x) == Facts(x) \cap Live

Chained(x) ==
    /\ \A c \in Current(x), i \in Versions(x) : i <= c
    /\ x \notin forgotten =>
          /\ \A i, j \in Versions(x) : i < j => mem[i].version < mem[j].version
          /\ Versions(x) # {} => Current(x) # {}

Chains == \A x \in Titles \ raced : Chained(x)

\* Nothing is stored at the start.
LEMMA InitChains == Init => Chains
<1> SUFFICES ASSUME Init PROVE Chains
  OBVIOUS
<1>1. Ids = {}
  BY EmptySeq DEF Init, Ids
<1> QED  BY <1>1 DEF Chains, Chained, Versions, Facts, Current, Live

\* A chain that loses versions, but not the current one without being forgotten, is one.
LEMMA ShorterChain ==
    ASSUME NEW x, Chained(x),
           Versions(x)' \subseteq Versions(x), Current(x)' \subseteq Current(x),
           \A i \in Versions(x)' : mem'[i].version = mem[i].version,
           x \notin forgotten' =>
              x \notin forgotten /\ (Versions(x)' # {} => Current(x)' # {})
    PROVE  Chained(x)'
<1>1. \A c \in Current(x)', i \in Versions(x)' : i <= c
  BY DEF Chained
<1>2. ASSUME x \notin forgotten'
      PROVE  \A i, j \in Versions(x)' : i < j => mem'[i].version < mem'[j].version
  BY <1>2 DEF Chained
<1> QED  BY <1>1, <1>2 DEF Chained

\* So is one that a step leaves alone.
LEMMA SameChain ==
    ASSUME NEW x, Chained(x), x \in forgotten' <=> x \in forgotten,
           Versions(x)' = Versions(x), Current(x)' = Current(x),
           \A i \in Versions(x) : mem'[i].version = mem[i].version
    PROVE  Chained(x)'
<1>1. x \notin forgotten' => (Versions(x)' # {} => Current(x)' # {})
  BY DEF Chained
<1> QED  BY <1>1, ShorterChain

\* Where the rows are changed in place, they are as many.
LEMMA SameIds ==
    ASSUME Len(mem) \in Nat, DOMAIN mem' = Ids
    PROVE  Ids' = Ids
BY DEF Ids

\* Where no row is added and none deleted, and the flags of a title's rows stay, the
\* chain of that title stays.
LEMMA FlagsStay ==
    ASSUME NEW x, Chained(x), Ids' = Ids, forgotten' = forgotten,
           \A i \in Ids : /\ mem'[i].kind = mem[i].kind /\ mem'[i].title = mem[i].title
                          /\ mem'[i].version = mem[i].version /\ mem'[i].gone = mem[i].gone,
           \A i \in Facts(x) : mem'[i].superseded = mem[i].superseded
    PROVE  Chained(x)'
<1>1. Versions(x)' = Versions(x)
  BY DEF Versions, Facts, Live
<1>2. Current(x)' = Current(x)
  BY <1>1 DEF Versions, Facts, Live, Current
<1>3. \A i \in Versions(x) : mem'[i].version = mem[i].version
  BY DEF Versions, Facts
<1> QED  BY <1>1, <1>2, <1>3, SameChain

\* A row that is no fact of a title does not matter to its chain.
LEMMA OtherRow ==
    ASSUME TypeOK, NEW x, Chained(x), NEW e \in MemoryEntry, e.kind # "fact",
           mem' = Append(mem, e), forgotten' = forgotten
    PROVE  Chained(x)'
<1>1. Len(mem) \in Nat
  BY RowTyped
<1>2. /\ Len(mem') = Len(mem) + 1 /\ mem'[Len(mem) + 1] = e
      /\ \A i \in Ids : mem'[i] = mem[i]
  BY AtEnd DEF TypeOK, Ids
<1>3. Ids' = Ids \cup {Len(mem) + 1}
  BY <1>1, <1>2 DEF Ids
<1>4. Facts(x)' = Facts(x)
  BY <1>2, <1>3 DEF Facts
<1>5. Versions(x)' = Versions(x)
  BY <1>2, <1>3, <1>4 DEF Versions, Live, Facts
<1>6. Current(x)' = Current(x)
  BY <1>2, <1>5 DEF Versions, Current, Live, Facts
<1>7. \A i \in Versions(x) : mem'[i].version = mem[i].version
  BY <1>2 DEF Versions, Facts
<1> QED  BY <1>5, <1>6, <1>7, SameChain

\* A new version is the only current one, with the highest number, if the writer had
\* seen the one before it.
LEMMA WriteFactChains == ASSUME NEW t \in Threads PROVE Inv /\ Chains /\ WriteFact(t) => Chains'
<1> SUFFICES ASSUME Inv, Chains, WriteFact(t), NEW x \in Titles, x \notin raced' PROVE Chained(x)'
  BY DEF Chains
<1> DEFINE e == Entry("fact", title[t], NextVersion(work[t]), work[t])
           n == Len(mem) + 1
<1>1. TypeOK /\ Len(mem) \in Nat /\ \A i \in Ids : mem[i] \in MemoryEntry
  BY RowTyped DEF Inv
<1>2. \A i \in Ids :
         /\ i < n
         /\ mem'[i].kind = mem[i].kind /\ mem'[i].title = mem[i].title
         /\ mem'[i].version = mem[i].version /\ mem'[i].gone = mem[i].gone
         /\ i \notin work[t] => mem'[i] = mem[i]
         /\ i \in work[t] => mem'[i].superseded
  BY FactStored
<1>3. /\ e.kind = "fact" /\ e.title = title[t] /\ e.version = NextVersion(work[t])
      /\ ~e.superseded /\ ~e.gone
  BY DEF Entry
<1>4. forgotten' = forgotten /\ x \notin raced /\ pc[t] = "store"
      /\ (Base(title[t]) # work[t] => x # title[t])
  BY DEF WriteFact
<1> HIDE DEF e
<1>6. Ids' = Ids \cup {n} /\ mem'[n] = e /\ n \notin Ids
  BY FactStored DEF e
<1>7. \A i \in work[t] : i \in Ids /\ mem[i].kind = "fact" /\ mem[i].title = title[t]
  BY <1>1, <1>4 DEF Inv, Sound, TypeOK
<1>8. Chained(x)
  BY <1>4 DEF Chains
<1>9. CASE x # title[t]
  <2>1. Versions(x)' = Versions(x)
    BY <1>2, <1>3, <1>6, <1>9 DEF Versions, Facts, Live
  <2>2. Current(x)' = Current(x)
    BY <1>2, <1>3, <1>6, <1>7, <1>9 DEF Current, Facts, Live
  <2>3. \A i \in Versions(x) : mem'[i].version = mem[i].version
    BY <1>2, <1>6 DEF Versions, Facts
  <2> QED  BY <1>4, <1>8, <2>1, <2>2, <2>3, SameChain
<1>10. CASE x = title[t]
  <2>1. work[t] = Base(x)
    BY <1>4, <1>10
  <2>2. Current(x) \subseteq work[t] /\ work[t] \subseteq Current(x)
    BY <1>8, <2>1 DEF Chained, Base, Newest, Versions, Current
  <2>3. Versions(x)' = Versions(x) \cup {n}
    BY <1>2, <1>3, <1>6, <1>10 DEF Versions, Facts, Live
  <2>4. Current(x)' = {n}
    BY <1>2, <1>3, <1>6, <1>10, <2>2 DEF Current, Facts, Live
  <2>5. \A i \in Versions(x) : i \in Ids /\ i < n /\ i \in Nat
    BY <1>2 DEF Versions, Facts, Ids
  <2>6. \A c \in Current(x)', i \in Versions(x)' : i <= c
    BY <1>1, <2>3, <2>4, <2>5
  <2>7. ASSUME x \notin forgotten
        PROVE  \A i \in Versions(x) : mem[i].version < e.version
    <3> SUFFICES ASSUME NEW i \in Versions(x) PROVE mem[i].version < e.version
      OBVIOUS
    <3>1. PICK c \in Current(x) : i <= c
      BY <1>8, <2>7 DEF Chained
    <3>2. c \in Versions(x) /\ c \in Nat /\ i \in Nat /\ c \in Ids /\ i \in Ids
      BY <2>5, <3>1 DEF Versions, Current
    <3>3. mem[c].version \in Nat /\ mem[i].version \in Nat
      BY <1>1, <3>2 DEF MemoryEntry
    <3>4. \A b \in work[t] : b = c
      BY <1>8, <2>2, <2>5, <3>1 DEF Chained, Versions, Current
    <3>5. work[t] = {c}
      BY <2>2, <3>4
    <3>6. {mem[b].version : b \in work[t]} = {mem[c].version}
      BY <3>5
    <3>7. e.version = mem[c].version + 1
      BY <1>3, <3>5, <3>6 DEF NextVersion
    <3>8. mem[i].version <= mem[c].version
      BY <1>8, <2>7, <3>1, <3>2, <3>3 DEF Chained
    <3> QED  BY <3>3, <3>7, <3>8
  <2>8. ASSUME x \notin forgotten, NEW i \in Versions(x)', NEW j \in Versions(x)', i < j
        PROVE  mem'[i].version < mem'[j].version
    <3>1. i \in Versions(x)
      BY <1>1, <2>3, <2>5, <2>8
    <3>2. mem'[i].version = mem[i].version
      BY <1>2, <1>6, <2>5, <3>1
    <3>3. CASE j = n
      BY <1>6, <2>7, <2>8, <3>1, <3>2, <3>3
    <3>4. CASE j # n
      <4>1. j \in Versions(x)
        BY <2>3, <3>4
      <4>2. mem'[j].version = mem[j].version
        BY <1>2, <1>6, <2>5, <4>1
      <4> QED  BY <1>8, <2>8, <3>1, <3>2, <4>1, <4>2 DEF Chained
    <3> QED  BY <3>3, <3>4
  <2> QED  BY <1>4, <2>4, <2>6, <2>8 DEF Chained
<1> QED  BY <1>9, <1>10

\* A cleanup that deletes the newest version, which is the current one, is remembered.
LEMMA CleanupChains == Inv /\ Chains /\ Cleanup => Chains'
<1> SUFFICES ASSUME Inv, Chains, Cleanup, NEW x \in Titles, x \notin raced' PROVE Chained(x)'
  BY DEF Chains
<1>1. PICK month \in 0..Len(mem), quarter \in 0..Len(mem) :
        LET dead == Outlived(month, quarter)
        IN  /\ mem' = [i \in Ids |-> [mem[i] EXCEPT !.gone = @ \/ i \in dead]]
            /\ forgotten' = forgotten \cup
                  {y \in Titles : Current(y) \cap dead # {} /\ Newest(y) \subseteq dead}
  BY DEF Cleanup
<1> DEFINE dead == Outlived(month, quarter)
<1>2. TypeOK /\ Len(mem) \in Nat /\ \A i \in Ids : mem[i] \in MemoryEntry
  BY RowTyped DEF Inv
<1>3. /\ mem' = [i \in Ids |-> [mem[i] EXCEPT !.gone = @ \/ i \in dead]]
      /\ forgotten' = forgotten \cup
            {y \in Titles : Current(y) \cap dead # {} /\ Newest(y) \subseteq dead}
  BY <1>1
<1> HIDE DEF dead
<1>4. Ids' = Ids
  <2>1. DOMAIN mem' = Ids
    BY <1>3
  <2> QED  BY <1>2, <2>1, SameIds
<1>5. \A i \in Ids : /\ mem'[i].kind = mem[i].kind /\ mem'[i].title = mem[i].title
                     /\ mem'[i].version = mem[i].version
                     /\ mem'[i].superseded = mem[i].superseded
                     /\ mem'[i].gone = (mem[i].gone \/ i \in dead)
  BY <1>2, <1>3 DEF MemoryEntry
<1>6. Chained(x)
  BY DEF Chains, Cleanup
<1>7. Versions(x)' = Versions(x) \ dead
  BY <1>4, <1>5 DEF Versions, Facts, Live
<1>8. Current(x)' = Current(x) \ dead
  BY <1>4, <1>5, <1>7 DEF Versions, Facts, Live, Current
<1>9. ASSUME x \notin forgotten', Versions(x)' # {} PROVE Current(x)' # {}
  <2>1. x \notin forgotten /\ Versions(x) # {}
    BY <1>3, <1>7, <1>9
  <2>2. PICK c \in Current(x) : TRUE
    BY <1>6, <2>1 DEF Chained
  <2>3. c \in Versions(x)
    BY DEF Versions, Current
  <2>4. \A i \in Newest(x) : i = c
    <3> SUFFICES ASSUME NEW i \in Newest(x) PROVE i = c
      OBVIOUS
    <3>1. i \in Versions(x) /\ c <= i
      BY <2>3 DEF Newest, Versions
    <3>2. i <= c
      BY <1>6, <3>1 DEF Chained
    <3>3. i \in Nat /\ c \in Nat
      BY <2>3, <3>1 DEF Versions, Facts, Ids
    <3> QED  BY <3>1, <3>2, <3>3
  <2>5. c \notin dead
    BY <1>3, <1>9, <2>4
  <2> QED  BY <1>8, <2>5
<1>10. \A i \in Versions(x)' : mem'[i].version = mem[i].version
  BY <1>5, <1>7 DEF Versions, Facts
<1> QED  BY <1>3, <1>6, <1>7, <1>8, <1>9, <1>10, ShorterChain

\* The compression writes back flags as it has read them, which is remembered if it
\* overwrites another.
LEMMA ArchiveChains == ASSUME NEW t \in Threads PROVE Inv /\ Chains /\ Archive(t) => Chains'
<1> SUFFICES ASSUME Inv, Chains, Archive(t), NEW x \in Titles, x \notin raced' PROVE Chained(x)'
  BY DEF Chains
<1>1. TypeOK /\ Len(mem) \in Nat /\ \A i \in Ids : mem[i] \in MemoryEntry
  BY RowTyped DEF Inv
<1>2. /\ mem' = [i \in Ids |-> IF i \in work[t]
                               THEN [mem[i] EXCEPT !.archived = TRUE, !.superseded = i \in seen[t]]
                               ELSE mem[i]]
      /\ x \notin raced /\ forgotten' = forgotten
      /\ \A i \in Facts(x) \cap work[t] : mem[i].superseded = (i \in seen[t])
  BY DEF Archive
<1>3. Ids' = Ids
  <2>1. DOMAIN mem' = Ids
    BY <1>2
  <2> QED  BY <1>1, <2>1, SameIds
<1>4. \A i \in Ids : /\ mem'[i].kind = mem[i].kind /\ mem'[i].title = mem[i].title
                     /\ mem'[i].version = mem[i].version /\ mem'[i].gone = mem[i].gone
                     /\ mem'[i].superseded = IF i \in work[t] THEN i \in seen[t] ELSE mem[i].superseded
  BY <1>1, <1>2 DEF MemoryEntry
<1>5. \A i \in Facts(x) : mem'[i].superseded = mem[i].superseded
  BY <1>2, <1>4 DEF Facts
<1>6. Chained(x)
  BY <1>2 DEF Chains
<1> QED  BY <1>2, <1>3, <1>4, <1>5, <1>6, FlagsStay

\* The other steps store no fact and set no flag that matters here.
LEMMA OtherChains ==
    ASSUME Inv, Chains,
           \/ StoreEpisode \/ Decay \/ UNCHANGED vars
           \/ \E t \in Threads : \/ ReadFact(t) \/ FailFact(t) \/ FindCluster(t) \/ StoreSummary(t)
                                 \/ ReadOriginals(t) \/ FailCompression(t)
    PROVE  Chains'
<1> SUFFICES ASSUME NEW x \in Titles, x \notin raced' PROVE Chained(x)'
  BY DEF Chains
<1>1. TypeOK /\ Len(mem) \in Nat /\ \A i \in Ids : mem[i] \in MemoryEntry
  BY RowTyped DEF Inv
<1>2. raced' = raced /\ forgotten' = forgotten
  BY DEF StoreEpisode, Decay, vars, ReadFact, FailFact, FindCluster, StoreSummary,
         ReadOriginals, FailCompression
<1>3. Chained(x)
  BY <1>2 DEF Chains
<1>4. CASE UNCHANGED mem
  <2>1. Ids' = Ids
    BY <1>4 DEF Ids
  <2>2. \A i \in Ids : /\ mem'[i].kind = mem[i].kind /\ mem'[i].title = mem[i].title
                       /\ mem'[i].version = mem[i].version /\ mem'[i].gone = mem[i].gone
    BY <1>4
  <2>3. \A i \in Facts(x) : mem'[i].superseded = mem[i].superseded
    BY <1>4
  <2>4. forgotten' = forgotten
    BY <1>2
  <2> QED  BY <1>3, <2>1, <2>2, <2>3, <2>4, FlagsStay
<1>5. CASE StoreEpisode
  <2>1. Entry("episode", "none", 1, {}) \in MemoryEntry
    <3>1. {} \in SUBSET Nat /\ "none" \in Titles \cup {"none"} /\ 1 \in Nat \ {0}
          /\ "episode" \in {"fact", "episode", "summary"}
      OBVIOUS
    <3> QED  BY <3>1, EntryTyped
  <2>2. Entry("episode", "none", 1, {}).kind # "fact"
    BY DEF Entry
  <2> QED  BY <1>1, <1>2, <1>3, <1>5, <2>1, <2>2, OtherRow DEF StoreEpisode
<1>6. ASSUME NEW t \in Threads, StoreSummary(t) PROVE Chained(x)'
  <2>1. Entry("summary", "none", 1, work[t]) \in MemoryEntry
    <3>1. work[t] \in SUBSET Nat
      BY <1>1 DEF TypeOK, Ids
    <3>2. "none" \in Titles \cup {"none"} /\ 1 \in Nat \ {0}
          /\ "summary" \in {"fact", "episode", "summary"}
      OBVIOUS
    <3> QED  BY <3>1, <3>2, EntryTyped
  <2>2. Entry("summary", "none", 1, work[t]).kind # "fact"
    BY DEF Entry
  <2> QED  BY <1>1, <1>2, <1>3, <1>6, <2>1, <2>2, OtherRow DEF StoreSummary
<1>7. CASE Decay
  <2>1. PICK fading \in SUBSET Ids :
          mem' = [i \in Ids |-> [mem[i] EXCEPT !.strength = IF i \in fading THEN @ - 1 ELSE @]]
    BY <1>7 DEF Decay, Live
  <2>2. Ids' = Ids
    <3>1. DOMAIN mem' = Ids
      BY <2>1
    <3> QED  BY <1>1, <3>1, SameIds
  <2>3. \A i \in Ids : /\ mem'[i].kind = mem[i].kind /\ mem'[i].title = mem[i].title
                       /\ mem'[i].version = mem[i].version /\ mem'[i].gone = mem[i].gone
                       /\ mem'[i].superseded = mem[i].superseded
    BY <1>1, <2>1 DEF MemoryEntry
  <2> QED  BY <1>2, <1>3, <2>2, <2>3, FlagsStay DEF Facts
<1> QED
  BY <1>4, <1>5, <1>6, <1>7
  DEF vars, ReadFact, FailFact, FindCluster, ReadOriginals, FailCompression

\* Every step keeps the chains that no step has overwritten.
LEMMA StepChains ==
    ASSUME Inv, Chains, [Next]_vars
    PROVE  Chains'
<1>1. CASE Cleanup
  BY <1>1, CleanupChains
<1>2. ASSUME NEW t \in Threads, WriteFact(t) \/ Archive(t) PROVE Chains'
  BY <1>2, WriteFactChains, ArchiveChains
<1>3. CASE \/ StoreEpisode \/ Decay \/ UNCHANGED vars
           \/ \E t \in Threads : \/ ReadFact(t) \/ FailFact(t) \/ FindCluster(t) \/ StoreSummary(t)
                                 \/ ReadOriginals(t) \/ FailCompression(t)
  BY <1>3, OtherChains
<1> QED  BY <1>1, <1>2, <1>3 DEF Next

\* Of the versions of a fact at most one is current, and their numbers go up, unless
\* writers overlapped or a cleanup has deleted the current version: for any threads,
\* titles and bounds, whatever fails or decays.
THEOREM OneCurrentVersion == Spec => []ChainIsLinear
<1>1. Inv /\ Chains => ChainIsLinear
  <2> SUFFICES ASSUME Inv, Chains, NEW x \in Titles \ raced
               PROVE  /\ Cardinality(Current(x)) <= 1
                      /\ x \notin forgotten =>
                            \A i, j \in Facts(x) \cap Live : i < j => mem[i].version < mem[j].version
    BY DEF ChainIsLinear
  <2>1. Chained(x)
    BY DEF Chains
  <2>2. \A c, d \in Current(x) : c = d
    <3>1. \A c \in Current(x) : c \in Versions(x) /\ c \in Nat
      BY DEF Current, Versions, Facts, Ids
    <3> QED  BY <2>1, <3>1 DEF Chained
  <2>3. CASE Current(x) = {}
    BY <2>1, <2>3, FS_EmptySet DEF Chained, Versions
  <2>4. CASE Current(x) # {}
    <3>1. PICK c \in Current(x) : Current(x) = {c}
      BY <2>2, <2>4
    <3>2. Cardinality({c}) = 1
      BY FS_Singleton
    <3> QED  BY <2>1, <3>1, <3>2 DEF Chained, Versions
  <2> QED  BY <2>3, <2>4
<1>2. Inv /\ Chains /\ [Next]_vars => Chains'
  BY StepChains
<1> QED  BY <1>1, <1>2, InitInv, StepInv, InitChains, PTL DEF Spec

=============================================================================
