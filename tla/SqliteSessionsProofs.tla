------------------------- MODULE SqliteSessionsProofs -------------------------
(* Proofs about SqliteSessions for any number of threads: the write lock is  *)
(* never left behind, whatever sessions do; and but for the statements that  *)
(* are sent past it, it serializes the writes of different threads.  And the *)
(* sessions in use are counted.                                              *)
EXTENDS SqliteSessions, FiniteSetTheorems, TLAPS

\* A thread that waits for the lock does so for an open session that does not
\* hold it, and one that writes holds it, unless the statement passes the lock.
Waiting ==
    \A t \in Threads :
       /\ pc[t] = "lock" => Current(t) \in open \ held
       /\ pc[t] = "write" => Current(t) \in open
       /\ pc[t] = "write" /\ op[t] # "bulk" => Current(t) \in held

\* TypeOK, but for the bound on count that LockMatchesSessions implies.
Types ==
    /\ owner \in Threads \cup {NoOne} /\ count \in Nat /\ active \in Nat
    /\ open \subseteq Sessions /\ recorded \subseteq Sessions
    /\ held \subseteq open /\ old \subseteq open
    /\ {pending, writing, past, torn} \subseteq SUBSET open
    /\ pc \in [Threads -> {"run", "lock", "write", "raised"}]
    /\ op \in [Threads -> {"none", "flush", "commit", "bulk"}]

Inv == Types /\ Waiting /\ LockMatchesSessions

-----------------------------------------------------------------------------
(* The session a thread uses, and giving the lock back.                     *)

\* The session a thread uses is one of its own two.
LEMMA CurrentIsOwn ==
    ASSUME NEW t \in Threads
    PROVE  /\ Current(t) \in {<<t, "outer">>, <<t, "inner">>}
           /\ Current(t) \in Sessions /\ Current(t)[1] = t
BY DEF Current, Sessions

\* Every session is one of the two of its thread.
LEMMA SessionOfThread ==
    ASSUME NEW s \in Sessions
    PROVE  /\ s[1] \in Threads
           /\ s = <<s[1], "outer">> \/ s = <<s[1], "inner">>
BY DEF Sessions

\* _release_sqlite_write_lock by a session, whether it holds the lock or not,
\* keeps lock and sessions in step.
LEMMA ReleaseKeepsMatch ==
    ASSUME Types, LockMatchesSessions, NEW s \in Sessions, Release(s)
    PROVE  /\ LockMatchesSessions'
           /\ owner' \in Threads \cup {NoOne} /\ count' \in Nat
           /\ held' = held \ {s}
<1> DEFINE u == s[1]
           other == IF s = <<u, "outer">> THEN <<u, "inner">> ELSE <<u, "outer">>
<1>1. u \in Threads /\ (s = <<u, "outer">> \/ s = <<u, "inner">>)
  BY SessionOfThread
<1>2. CASE s \notin held
  <2>1. held' = held /\ owner' = owner /\ count' = count
    BY <1>2 DEF Release
  <2> QED  BY <2>1, <1>2 DEF LockMatchesSessions, Holding, Types
<1>3. CASE s \in held
  <2>1. held' = held \ {s} /\ count' = count - 1
        /\ owner' = IF count = 1 THEN NoOne ELSE owner
    BY <1>3 DEF Release
  <2>2. Holding(<<u, "outer">>) + Holding(<<u, "inner">>) = IF owner = u THEN count ELSE 0
    BY <1>1 DEF LockMatchesSessions
  <2>3. Holding(s) = 1 /\ Holding(other) \in {0, 1} /\ Holding(s)' = 0
    BY <1>3, <2>1 DEF Holding
  <2>4. Holding(other)' = Holding(other)
    BY <1>1, <2>1 DEF Holding
  <2>5. owner = u /\ count = 1 + Holding(other)
    BY <1>1, <2>2, <2>3 DEF Types
  <2>6. u # NoOne
    BY <1>1, SessionsAssumption
  <2>7. Holding(<<u, "outer">>)' + Holding(<<u, "inner">>)' = Holding(other)
    BY <1>1, <2>3, <2>4
  <2>8. ASSUME NEW t \in Threads, t # u
        PROVE  /\ Holding(<<t, "outer">>)' = 0 /\ Holding(<<t, "inner">>)' = 0
               /\ owner' # t
    <3>1. Holding(<<t, "outer">>) + Holding(<<t, "inner">>) = 0
      BY <2>5, <2>8 DEF LockMatchesSessions
    <3>2. <<t, "outer">> \notin held /\ <<t, "inner">> \notin held
      BY <3>1 DEF Holding
    <3> QED  BY <3>2, <2>1, <2>5, <2>8, SessionsAssumption DEF Holding
  <2>9. \A t \in Threads :
           Holding(<<t, "outer">>)' + Holding(<<t, "inner">>)' = IF owner' = t THEN count' ELSE 0
    <3> TAKE t \in Threads
    <3>1. CASE t = u  BY <3>1, <2>1, <2>3, <2>5, <2>6, <2>7
    <3>2. CASE t # u  BY <3>2, <2>8
    <3> QED  BY <3>1, <3>2
  <2>10. count' = 0 <=> owner' = NoOne
    BY <2>1, <2>3, <2>5, <2>6
  <2>11. LockMatchesSessions'
    BY <2>9, <2>10 DEF LockMatchesSessions
  <2> QED  BY <2>11, <2>1, <2>3, <2>5 DEF Types
<1> QED  BY <1>2, <1>3

\* Taking the lock for a session of its owner keeps them in step.
LEMMA AcquireKeepsMatch ==
    ASSUME Types, LockMatchesSessions, NEW t \in Threads,
           NEW s \in {<<t, "outer">>, <<t, "inner">>},
           owner \in {NoOne, t}, owner' = t, count' = count + 1,
           s \notin held, held' = held \cup {s}
    PROVE  LockMatchesSessions'
<1> DEFINE other == IF s = <<t, "outer">> THEN <<t, "inner">> ELSE <<t, "outer">>
<1>1. s = <<t, "outer">> \/ s = <<t, "inner">>
  OBVIOUS
<1>2. Holding(s) = 0 /\ Holding(s)' = 1 /\ Holding(other)' = Holding(other)
      /\ Holding(other) \in {0, 1}
  BY <1>1 DEF Holding
<1>3. Holding(s) + Holding(other) = count
  <2>1. Holding(<<t, "outer">>) + Holding(<<t, "inner">>) = IF owner = t THEN count ELSE 0
    BY DEF LockMatchesSessions
  <2>2. owner = NoOne => count = 0
    BY DEF LockMatchesSessions
  <2> QED  BY <1>1, <1>2, <2>1, <2>2 DEF Types
<1>4. Holding(<<t, "outer">>)' + Holding(<<t, "inner">>)' = count'
  BY <1>1, <1>2, <1>3 DEF Types
<1>5. ASSUME NEW v \in Threads, v # t
      PROVE  Holding(<<v, "outer">>)' + Holding(<<v, "inner">>)' = 0
  <2>1. Holding(<<v, "outer">>) + Holding(<<v, "inner">>) = 0
    BY <1>5, SessionsAssumption DEF LockMatchesSessions
  <2>2. <<v, "outer">> \notin held /\ <<v, "inner">> \notin held
    BY <2>1 DEF Holding
  <2> QED  BY <1>1, <1>5, <2>2 DEF Holding
<1>6. t # NoOne /\ count' # 0
  BY SessionsAssumption DEF Types
<1> QED  BY <1>4, <1>5, <1>6 DEF LockMatchesSessions

\* _check_age keeps everything in step, and touches the session alone.
LEMMA CheckAgeKeeps ==
    ASSUME Types, LockMatchesSessions, NEW s \in open, CheckAge(s)
    PROVE  /\ LockMatchesSessions'
           /\ owner' \in Threads \cup {NoOne} /\ count' \in Nat /\ active' \in Nat
           /\ held' \in {held, held \ {s}}
           /\ recorded' \subseteq Sessions
           /\ pending' \subseteq pending /\ writing' \subseteq writing /\ past' \subseteq past
           /\ torn' \subseteq torn \cup {s}
<1>1. s \in Sessions
  BY DEF Types
<1>2. CASE s \in old \ recorded
  <2>1. Release(s) /\ RecordClose(s) /\ Discard(s)
        /\ torn' = IF s \in pending \cup writing THEN torn \cup {s} ELSE torn
    BY <1>2 DEF CheckAge
  <2>2. active' \in Nat
    BY <2>1 DEF RecordClose, Types
  <2> QED  BY <1>1, <2>1, <2>2, ReleaseKeepsMatch DEF RecordClose, Discard, Types
<1>3. CASE s \notin old \ recorded
  BY <1>3 DEF CheckAge, LockMatchesSessions, Holding, Types, lock, data
<1> QED  BY <1>2, <1>3

-----------------------------------------------------------------------------
(* The invariant is inductive.                                              *)

\* Initially no session is open and the lock is free.
LEMMA InitInv == Init => Inv
<1> SUFFICES ASSUME Init PROVE Inv
  OBVIOUS
<1>1. Types
  BY DEF Init, Types
<1>2. Waiting
  BY DEF Init, Waiting
<1>3. LockMatchesSessions
  BY SessionsAssumption DEF Init, LockMatchesSessions, Holding
<1> QED  BY <1>1, <1>2, <1>3 DEF Inv

\* What a thread waits for is not changed by a step of another thread, which
\* changes only the other thread's sessions and its place.
LEMMA WaitingOfOthers ==
    ASSUME Types, Waiting, NEW u \in Threads,
           \A t \in Threads \ {u} :
              /\ pc'[t] = pc[t] /\ op'[t] = op[t]
              /\ \A s \in {<<t, "outer">>, <<t, "inner">>} :
                    /\ s \in open' <=> s \in open
                    /\ s \in held' <=> s \in held,
           /\ pc'[u] = "lock" => Current(u)' \in open' \ held'
           /\ pc'[u] = "write" => Current(u)' \in open'
           /\ pc'[u] = "write" /\ op'[u] # "bulk" => Current(u)' \in held'
    PROVE  Waiting'
<1>1. ASSUME NEW t \in Threads, t # u
      PROVE  /\ pc'[t] = "lock" => Current(t)' \in open' \ held'
             /\ pc'[t] = "write" => Current(t)' \in open'
             /\ pc'[t] = "write" /\ op'[t] # "bulk" => Current(t)' \in held'
  <2>1. Current(t)' = Current(t)
    BY <1>1 DEF Current
  <2>2. Current(t) \in {<<t, "outer">>, <<t, "inner">>}
    BY CurrentIsOwn
  <2> QED  BY <1>1, <2>1, <2>2 DEF Waiting
<1> QED  BY <1>1 DEF Waiting

\* The steps after which the thread u has control again: Waiting asks nothing of
\* it, and the sets of the other threads' sessions are as they were.
LEMMA ControlKeepsWaiting ==
    ASSUME Types, Waiting, NEW u \in Threads, NEW s \in {<<u, "outer">>, <<u, "inner">>},
           NEW where \in {"run", "raised"}, NEW which,
           pc' = [pc EXCEPT ![u] = where], op' = [op EXCEPT ![u] = which],
           open' \cup {s} = open \cup {s}, held' \cup {s} = held \cup {s}
    PROVE  Waiting'
<1>1. pc'[u] = where
  BY DEF Types
<1>2. ASSUME NEW t \in Threads \ {u}
      PROVE  /\ pc'[t] = pc[t] /\ op'[t] = op[t]
             /\ \A x \in {<<t, "outer">>, <<t, "inner">>} :
                   /\ x \in open' <=> x \in open
                   /\ x \in held' <=> x \in held
  <2>1. pc'[t] = pc[t] /\ op'[t] = op[t]
    BY DEF Types
  <2>2. \A x \in {<<t, "outer">>, <<t, "inner">>} : x # s
    OBVIOUS
  <2> QED  BY <2>1, <2>2
<1> QED  BY <1>1, <1>2, WaitingOfOthers

\* A step that leaves lock and held alone keeps them in step.
LEMMA LockUnchanged ==
    ASSUME LockMatchesSessions, UNCHANGED lock
    PROVE  LockMatchesSessions'
BY DEF lock, LockMatchesSessions, Holding

\* Every step but those that end a scope, which are the next lemma's.
LEMMA UseKeepsInv ==
    ASSUME Inv, NEW u \in Threads,
           \/ Open(u) \/ Change(u) \/ Execute(u) \/ ExecuteBulk(u) \/ FlushOrCommit(u)
           \/ Acquire(u) \/ Write(u) \/ Fail(u) \/ Rollback(u)
    PROVE  Inv'
<1> DEFINE s == Current(u)
<1> USE DEF Inv
<1>0. s \in {<<u, "outer">>, <<u, "inner">>} /\ s \in Sessions
  BY CurrentIsOwn
<1> HIDE DEF s
<1>1. CASE Open(u)
  <2>1. PICK x \in {<<u, "outer">>, <<u, "inner">>} :
           /\ open' = open \cup {x} /\ recorded' = recorded \ {x} /\ active' = active + 1
    BY <1>1 DEF Open
  <2>2. UNCHANGED <<lock, old, data, pc, op>> /\ pc[u] = "run"
    BY <1>1 DEF Open
  <2>3. Types'
    BY <2>1, <2>2 DEF Types, Sessions, lock, data
  <2>4. Waiting'
    <3>1. \A t \in Threads \ {u} : \A y \in {<<t, "outer">>, <<t, "inner">>} : y # x
      OBVIOUS
    <3> QED  BY <3>1, <2>1, <2>2, WaitingOfOthers DEF lock
  <2> QED  BY <2>2, <2>3, <2>4, LockUnchanged
<1>2. CASE Change(u)
  <2>1. pending' = pending \cup {s} /\ s \in open
        /\ UNCHANGED <<lock, life, writing, past, torn, pc, op>>
    BY <1>2 DEF Change, Using, s
  <2>2. Types'
    BY <2>1 DEF Types, lock, life
  <2>3. Waiting'
    BY <2>1 DEF Waiting, Current, lock, life
  <2> QED  BY <2>1, <2>2, <2>3, LockUnchanged
<1>3. CASE Execute(u)
  <2>1. s \in open /\ CheckAge(s) /\ UNCHANGED <<open, old, pc, op>> /\ pc[u] = "run"
    BY <1>3 DEF Execute, Using, s
  <2>2. /\ LockMatchesSessions'
        /\ owner' \in Threads \cup {NoOne} /\ count' \in Nat /\ active' \in Nat
        /\ held' \in {held, held \ {s}} /\ recorded' \subseteq Sessions
        /\ pending' \subseteq pending /\ writing' \subseteq writing /\ past' \subseteq past
        /\ torn' \subseteq torn \cup {s}
    BY <2>1, CheckAgeKeeps
  <2>3. Types'
    BY <2>1, <2>2 DEF Types
  <2>4. Waiting'
    <3>1. \A t \in Threads \ {u} : \A y \in {<<t, "outer">>, <<t, "inner">>} : y # s
      BY <1>0
    <3> QED  BY <3>1, <2>1, <2>2, WaitingOfOthers
  <2> QED  BY <2>2, <2>3, <2>4
<1>4. CASE ExecuteBulk(u)
  <2>1. s \in open /\ CheckAge(s) /\ Goto(u, "write", "bulk") /\ UNCHANGED <<open, old>>
    BY <1>4 DEF ExecuteBulk, Using, s
  <2>2. /\ LockMatchesSessions'
        /\ owner' \in Threads \cup {NoOne} /\ count' \in Nat /\ active' \in Nat
        /\ held' \in {held, held \ {s}} /\ recorded' \subseteq Sessions
        /\ pending' \subseteq pending /\ writing' \subseteq writing /\ past' \subseteq past
        /\ torn' \subseteq torn \cup {s}
    BY <2>1, CheckAgeKeeps
  <2>3. Types'
    BY <2>1, <2>2 DEF Types, Goto
  <2>4. Waiting'
    <3>1. \A t \in Threads \ {u} : \A y \in {<<t, "outer">>, <<t, "inner">>} : y # s
      BY <1>0
    <3>2. Current(u)' = s
      BY <2>1 DEF Current, s
    <3>3. /\ pc'[u] = "write" /\ op'[u] = "bulk"
          /\ \A t \in Threads \ {u} : pc'[t] = pc[t] /\ op'[t] = op[t]
      BY <2>1 DEF Goto, Types
    <3> QED  BY <3>1, <3>2, <3>3, <2>1, <2>2, WaitingOfOthers
  <2> QED  BY <2>2, <2>3, <2>4
<1>5. CASE FlushOrCommit(u)
  <2>1. PICK which \in {"flush", "commit"} :
           Goto(u, IF s \in held THEN "write" ELSE "lock", which)
    BY <1>5 DEF FlushOrCommit, s
  <2>2. s \in open /\ UNCHANGED <<lock, life, data>>
    BY <1>5 DEF FlushOrCommit, Using, s
  <2>3. Types'
    BY <2>1, <2>2 DEF Types, Goto, lock, life, data
  <2>4. Waiting'
    <3>1. Current(u)' = s
      BY <2>2 DEF Current, s, life
    <3>2. /\ pc'[u] = IF s \in held THEN "write" ELSE "lock"
          /\ \A t \in Threads \ {u} : pc'[t] = pc[t] /\ op'[t] = op[t]
      BY <2>1 DEF Goto, Types
    <3> QED  BY <3>1, <3>2, <2>2, WaitingOfOthers DEF lock, life
  <2> QED  BY <2>2, <2>3, <2>4, LockUnchanged
<1>6. CASE Acquire(u)
  <2>1. /\ pc[u] = "lock" /\ owner \in {NoOne, u} /\ owner' = u /\ count' = count + 1
        /\ held' = held \cup {s} /\ Goto(u, "write", op[u])
        /\ past' = past \ {s} /\ UNCHANGED <<life, pending, writing, torn>>
    BY <1>6 DEF Acquire, s
  <2>2. s \in open \ held
    BY <2>1 DEF Waiting, s
  <2>3. Types'
    BY <2>1, <2>2 DEF Types, Goto, life, data
  <2>4. Waiting'
    <3>1. Current(u)' = s
      BY <2>1 DEF Current, s, life
    <3>2. \A t \in Threads \ {u} : pc'[t] = pc[t] /\ op'[t] = op[t]
      BY <2>1 DEF Goto, Types
    <3>3. \A t \in Threads \ {u} : \A y \in {<<t, "outer">>, <<t, "inner">>} : y # s
      BY <1>0
    <3>4. pc'[u] = "write"
      BY <2>1 DEF Goto, Types
    <3> QED  BY <3>1, <3>2, <3>3, <3>4, <2>1, <2>2, WaitingOfOthers DEF life
  <2>5. LockMatchesSessions'
    BY <1>0, <2>1, <2>2, AcquireKeepsMatch
  <2> QED  BY <2>3, <2>4, <2>5
<1>7. CASE Write(u)
  <2>1. pc[u] = "write" /\ s \in open /\ Goto(u, "run", "none") /\ UNCHANGED life
    BY <1>7 DEF Write, Waiting, s
  <2>2. CASE UNCHANGED lock
    <3>1. {pending', writing', past', torn'} \subseteq SUBSET open
      BY <1>7, <2>1 DEF Write, Types, Discard, s
    <3>2. Types'
      BY <3>1, <2>1, <2>2 DEF Types, Goto, lock, life
    <3>3. Waiting'
      BY <1>0, <2>1, <2>2, ControlKeepsWaiting DEF Goto, lock, life
    <3> QED  BY <2>2, <3>2, <3>3, LockUnchanged
  <2>3. CASE Release(s) /\ Discard(s) /\ torn' = torn \ {s}
    <3>1. /\ LockMatchesSessions' /\ owner' \in Threads \cup {NoOne} /\ count' \in Nat
          /\ held' = held \ {s}
      BY <1>0, <2>3, ReleaseKeepsMatch
    <3>2. Types'
      BY <3>1, <2>1, <2>3 DEF Types, Goto, Discard, life
    <3>3. Waiting'
      BY <1>0, <2>1, <3>1, ControlKeepsWaiting DEF Goto, life
    <3> QED  BY <3>1, <3>2, <3>3
  <2> QED  BY <1>7, <2>2, <2>3 DEF Write, s
<1>8. CASE Fail(u)
  <2>1. Goto(u, "raised", "none") /\ UNCHANGED <<life, torn>>
    BY <1>8 DEF Fail
  <2>2. CASE UNCHANGED <<lock, pending, writing, past>>
    <3>1. Types'
      BY <2>1, <2>2 DEF Types, Goto, lock, life
    <3>2. Waiting'
      BY <1>0, <2>1, <2>2, ControlKeepsWaiting DEF Goto, lock, life
    <3> QED  BY <2>2, <3>1, <3>2, LockUnchanged
  <2>3. CASE Release(s) /\ Discard(s)
    <3>1. /\ LockMatchesSessions' /\ owner' \in Threads \cup {NoOne} /\ count' \in Nat
          /\ held' = held \ {s}
      BY <1>0, <2>3, ReleaseKeepsMatch
    <3>2. Types'
      BY <3>1, <2>1, <2>3 DEF Types, Goto, Discard, life
    <3>3. Waiting'
      BY <1>0, <2>1, <3>1, ControlKeepsWaiting DEF Goto, life
    <3> QED  BY <3>1, <3>2, <3>3
  <2> QED  BY <1>8, <2>2, <2>3 DEF Fail, s
<1>9. CASE Rollback(u)
  <2>1. /\ Discard(s) /\ torn' = torn \ {s} /\ Release(s)
        /\ Goto(u, "run", "none") /\ UNCHANGED life
    BY <1>9 DEF Rollback, s
  <2>2. /\ LockMatchesSessions' /\ owner' \in Threads \cup {NoOne} /\ count' \in Nat
        /\ held' = held \ {s}
    BY <1>0, <2>1, ReleaseKeepsMatch
  <2>3. Types'
    BY <2>1, <2>2 DEF Types, Goto, Discard, life
  <2>4. Waiting'
    BY <1>0, <2>1, <2>2, ControlKeepsWaiting DEF Goto, life
  <2> QED  BY <2>2, <2>3, <2>4
<1> QED  BY <1>1, <1>2, <1>3, <1>4, <1>5, <1>6, <1>7, <1>8, <1>9

\* close(), __del__ and the passing of time.
LEMMA EndKeepsInv ==
    ASSUME Inv, NEW s \in Sessions, GrowOld(s) \/ Close(s) \/ Drop(s)
    PROVE  Inv'
<1> DEFINE u == s[1]
<1> USE DEF Inv
<1>0. u \in Threads /\ s \in {<<u, "outer">>, <<u, "inner">>}
  BY SessionOfThread
<1>1. CASE GrowOld(s)
  <2>1. s \in open /\ old' = old \cup {s} /\ UNCHANGED <<lock, active, open, recorded, data, pc, op>>
    BY <1>1 DEF GrowOld
  <2>2. Types'
    BY <2>1 DEF Types, lock, data
  <2>3. Waiting'
    BY <2>1 DEF Waiting, Current, lock
  <2> QED  BY <2>1, <2>2, <2>3, LockUnchanged
<1>2. CASE Close(s) \/ Drop(s)
  <2>1. Forget(s) /\ Leave(u) /\ pc[u] \in {"run", "raised"}
    BY <1>2 DEF Close, Drop
  <2>2. /\ LockMatchesSessions' /\ owner' \in Threads \cup {NoOne} /\ count' \in Nat
        /\ held' = held \ {s}
    <3>1. CASE Close(s)
      BY <3>1, ReleaseKeepsMatch DEF Close
    <3>2. CASE Drop(s)
      <4>1. UNCHANGED lock /\ s \notin held
        BY <3>2 DEF Drop
      <4> QED  BY <4>1, LockUnchanged DEF lock, Types
    <3> QED  BY <1>2, <3>1, <3>2
  <2>3. /\ active' \in Nat /\ recorded' = recorded \cup {s} /\ open' = open \ {s}
        /\ old' = old \ {s} /\ torn' = torn \ {s}
        /\ pending' = pending \ {s} /\ writing' = writing \ {s} /\ past' = past \ {s}
    BY <2>1 DEF Forget, RecordClose, Discard, Types
  <2>4. PICK where \in {"run", "raised"}, which \in {"none", op[u]} :
           pc' = [pc EXCEPT ![u] = where] /\ op' = [op EXCEPT ![u] = which]
    <3>1. CASE Goto(u, "run", "none")
      BY <3>1 DEF Goto
    <3>2. CASE pc[u] = "raised" /\ UNCHANGED <<pc, op>>
      <4>1. pc = [pc EXCEPT ![u] = "raised"] /\ op = [op EXCEPT ![u] = op[u]]
        BY <3>2, <1>0 DEF Types
      <4> QED  BY <4>1, <3>2
    <3> QED  BY <2>1, <3>1, <3>2 DEF Leave
  <2>5. Types'
    <3>1. pc' \in [Threads -> {"run", "lock", "write", "raised"}]
          /\ op' \in [Threads -> {"none", "flush", "commit", "bulk"}]
      BY <2>4, <1>0 DEF Types
    <3> QED  BY <1>0, <2>2, <2>3, <3>1 DEF Types
  <2>6. Waiting'
    BY <1>0, <2>2, <2>3, <2>4, ControlKeepsWaiting
  <2> QED  BY <2>2, <2>5, <2>6
<1> QED  BY <1>1, <1>2

\* Every step keeps the invariant.
LEMMA StepInv == Inv /\ [Next]_vars => Inv'
<1> SUFFICES ASSUME Inv, [Next]_vars PROVE Inv'
  OBVIOUS
<1>1. CASE \E t \in Threads :
              \/ Open(t) \/ Change(t) \/ Execute(t) \/ ExecuteBulk(t) \/ FlushOrCommit(t)
              \/ Acquire(t) \/ Write(t) \/ Fail(t) \/ Rollback(t)
  BY <1>1, UseKeepsInv
<1>2. CASE \E s \in Sessions : GrowOld(s) \/ Close(s) \/ Drop(s)
  BY <1>2, EndKeepsInv
<1>3. CASE UNCHANGED vars
  <2>1. Types' /\ Waiting'
    BY <1>3 DEF Inv, Types, Waiting, Current, vars, lock, life, data
  <2>2. LockMatchesSessions'
    BY <1>3, LockUnchanged DEF Inv, vars
  <2> QED  BY <2>1, <2>2 DEF Inv
<1> QED  BY <1>1, <1>2, <1>3 DEF Next

\* The sessions that believe they hold _sqlite_write_lock are those of its owner,
\* for any number of threads and sessions closed in any way: nobody waits for a
\* lock that a finished scope has left behind.
THEOREM LockNeverLost == Spec => []LockMatchesSessions
<1>1. Inv => LockMatchesSessions
  BY DEF Inv
<1> QED  BY <1>1, InitInv, StepInv, PTL DEF Spec

\* Types, and the bound on how often the lock is taken: a thread has two sessions.
THEOREM TypeCorrect == Spec => []TypeOK
<1>1. Inv => TypeOK
  <2> SUFFICES ASSUME Inv PROVE TypeOK
    OBVIOUS
  <2>1. count \in 0..2
    <3>1. CASE owner = NoOne
      BY <3>1 DEF Inv, LockMatchesSessions
    <3>2. CASE owner \in Threads
      <4>1. Holding(<<owner, "outer">>) + Holding(<<owner, "inner">>) = count
        BY <3>2 DEF Inv, LockMatchesSessions
      <4>2. Holding(<<owner, "outer">>) \in {0, 1} /\ Holding(<<owner, "inner">>) \in {0, 1}
        BY DEF Holding
      <4> QED  BY <4>1, <4>2
    <3> QED  BY <3>1, <3>2 DEF Inv, Types
  <2> QED  BY <2>1 DEF Inv, Types, TypeOK
<1> QED  BY <1>1, InitInv, StepInv, PTL DEF Spec

-----------------------------------------------------------------------------
(* Serialized writes.                                                       *)

\* What is written is written under the lock, or by a session that passed it.
UnderLock == writing \subseteq held \cup past

\* A step that gives back the lock of a session has ended its transaction.
LEMMA DiscardUnderLock ==
    ASSUME UnderLock, NEW s, Discard(s), held' \in {held, held \ {s}}
    PROVE  UnderLock'
BY DEF UnderLock, Discard

\* No step leaves a statement outside the lock but those sent past it.
LEMMA StepUnderLock ==
    ASSUME Inv, UnderLock, [Next]_vars
    PROVE  UnderLock'
<1>1. ASSUME NEW u \in Threads,
             \/ Open(u) \/ Change(u) \/ Execute(u) \/ ExecuteBulk(u) \/ FlushOrCommit(u)
             \/ Acquire(u) \/ Write(u) \/ Fail(u) \/ Rollback(u)
      PROVE  UnderLock'
  <2> DEFINE s == Current(u)
  <2> HIDE DEF s
  <2>1. CASE Open(u) \/ Change(u) \/ FlushOrCommit(u)
    BY <2>1 DEF Open, Change, FlushOrCommit, UnderLock, lock, data
  <2>2. CASE Execute(u) \/ ExecuteBulk(u)
    <3>1. CheckAge(s)
      BY <2>2 DEF Execute, ExecuteBulk, s
    <3>2. CASE Discard(s) /\ Release(s)
      BY <3>2, DiscardUnderLock DEF Release
    <3>3. CASE UNCHANGED <<lock, data>>
      BY <3>3 DEF UnderLock, lock, data
    <3> QED  BY <3>1, <3>2, <3>3 DEF CheckAge
  <2>3. CASE Acquire(u)
    BY <2>3 DEF Acquire, UnderLock
  <2>4. CASE Write(u)
    <3>1. CASE /\ UNCHANGED lock /\ writing' \subseteq writing \cup {s}
               /\ past' = IF s \in held THEN past ELSE past \cup {s}
      BY <3>1 DEF UnderLock, lock
    <3>2. CASE Discard(s) /\ Release(s)
      BY <3>2, DiscardUnderLock DEF Release
    <3> QED  BY <2>4, <3>1, <3>2 DEF Write, s
  <2>5. CASE Fail(u)
    <3>1. CASE UNCHANGED <<lock, pending, writing, past>>
      BY <3>1 DEF UnderLock, lock
    <3>2. CASE Discard(s) /\ Release(s)
      BY <3>2, DiscardUnderLock DEF Release
    <3> QED  BY <2>5, <3>1, <3>2 DEF Fail, s
  <2>6. CASE Rollback(u)
    <3>1. Discard(s) /\ Release(s)
      BY <2>6 DEF Rollback, s
    <3> QED  BY <3>1, DiscardUnderLock DEF Release
  <2> QED  BY <1>1, <2>1, <2>2, <2>3, <2>4, <2>5, <2>6
<1>2. ASSUME NEW s \in Sessions, GrowOld(s) \/ Close(s) \/ Drop(s)
      PROVE  UnderLock'
  <2>1. CASE GrowOld(s)
    BY <2>1 DEF GrowOld, UnderLock, lock, data
  <2>2. CASE Close(s) \/ Drop(s)
    <3>1. Discard(s)
      BY <2>2 DEF Close, Drop, Forget
    <3>2. held' \in {held, held \ {s}}
      BY <2>2 DEF Close, Drop, Release, lock
    <3> QED  BY <3>1, <3>2, DiscardUnderLock
  <2> QED  BY <1>2, <2>1, <2>2
<1>3. CASE UNCHANGED vars
  BY <1>3 DEF vars, lock, data, UnderLock
<1> QED  BY <1>1, <1>2, <1>3 DEF Next

\* For any number of threads, whatever errors, rollbacks, forced closes and leaks
\* happen, a flush or commit meets a locked database only through a statement that
\* was sent past the lock or the scope around its own: different threads that
\* write by flush() and commit() never wait for each other's transactions.
THEOREM Serialized == Spec => []WritesSerialize
<1>1. Init => UnderLock
  BY DEF Init, UnderLock
<1>2. Inv /\ UnderLock /\ [Next]_vars => UnderLock'
  BY StepUnderLock
<1>3. Inv /\ UnderLock => WritesSerialize
  <2> SUFFICES ASSUME Inv, UnderLock, NEW t \in Threads, Busy(t), op[t] # "bulk"
               PROVE  \E s \in writing \ {Current(t)} : s \in past \/ s = <<t, "outer">>
    BY DEF WritesSerialize
  <2>1. PICK s \in writing : s # Current(t)
    BY DEF Busy
  <2>2. Current(t) \in held /\ Current(t) \in {<<t, "outer">>, <<t, "inner">>}
    BY CurrentIsOwn DEF Inv, Waiting, Busy, Writes
  <2>3. ASSUME NEW v \in Threads, <<v, "outer">> \in held \/ <<v, "inner">> \in held
        PROVE  owner = v
    <3>1. Holding(<<v, "outer">>) + Holding(<<v, "inner">>) # 0
      BY <2>3 DEF Holding
    <3> QED  BY <3>1 DEF Inv, LockMatchesSessions
  <2>4. owner = t
    BY <2>2, <2>3
  <2>5. CASE s \in held
    <3>1. s \in Sessions
      BY <2>5 DEF Inv, Types
    <3>2. s[1] = t
      BY <2>3, <2>4, <2>5, <3>1, SessionOfThread
    <3>3. s = <<t, "outer">> \/ s = <<t, "inner">>
      BY <3>1, <3>2, SessionOfThread
    <3>4. <<t, "inner">> \in held => Current(t) = <<t, "inner">>
      BY DEF Inv, Types, Current
    <3> QED  BY <2>1, <2>5, <3>3, <3>4
  <2>6. CASE s \notin held
    BY <2>1, <2>6 DEF UnderLock
  <2> QED  BY <2>5, <2>6
<1> QED  BY <1>1, <1>2, <1>3, InitInv, StepInv, PTL DEF Spec

-----------------------------------------------------------------------------
(* The count of the sessions in use, which are finitely many however many   *)
(* threads there are.                                                       *)

Counted == IsFiniteSet(open) /\ SessionsCounted

\* A session that is closed, by force or for good, is counted off once.
LEMMA CloseCounted ==
    ASSUME Counted, NEW s \in open, RecordClose(s), open' \in {open, open \ {s}}
    PROVE  Counted'
<1>1. IsFiniteSet(open \ recorded) /\ active = Cardinality(open \ recorded)
  BY FS_Difference DEF Counted, SessionsCounted
<1>2. IsFiniteSet(open')
  BY FS_RemoveElement DEF Counted
<1>3. recorded' = recorded \cup {s}
  BY DEF RecordClose
<1>4. CASE s \in recorded
  <2>1. open' \ recorded' = open \ recorded
    BY <1>3, <1>4
  <2>2. active' = active
    BY <1>4 DEF RecordClose
  <2> QED  BY <1>1, <1>2, <2>1, <2>2 DEF Counted, SessionsCounted
<1>5. CASE s \notin recorded
  <2>1. open' \ recorded' = (open \ recorded) \ {s}
    BY <1>3, <1>5
  <2>2. s \in open \ recorded
    BY <1>5
  <2>3. Cardinality((open \ recorded) \ {s}) = Cardinality(open \ recorded) - 1
    BY <1>1, <2>2, FS_RemoveElement
  <2>4. active # 0
    BY <1>1, <2>2, FS_EmptySet
  <2>5. active' = active - 1
    BY <1>5, <2>4 DEF RecordClose
  <2> QED  BY <1>1, <1>2, <2>1, <2>3, <2>5 DEF Counted, SessionsCounted
<1> QED  BY <1>4, <1>5

\* A session that is opened is counted once, though one closed by force had its place.
LEMMA OpenCounted ==
    ASSUME Counted, NEW t \in Threads, Open(t)
    PROVE  Counted'
<1>1. PICK s \in {<<t, "outer">>, <<t, "inner">>} :
          /\ s \notin open
          /\ open' = open \cup {s} /\ recorded' = recorded \ {s}
          /\ active' = active + 1
  BY DEF Open
<1>2. IsFiniteSet(open \ recorded) /\ active = Cardinality(open \ recorded)
  BY FS_Difference DEF Counted, SessionsCounted
<1>3. IsFiniteSet(open')
  BY <1>1, FS_AddElement DEF Counted
<1>4. open' \ recorded' = (open \ recorded) \cup {s} /\ s \notin open \ recorded
  BY <1>1
<1>5. Cardinality((open \ recorded) \cup {s}) = Cardinality(open \ recorded) + 1
  BY <1>2, <1>4, FS_AddElement
<1> QED  BY <1>1, <1>2, <1>3, <1>4, <1>5 DEF Counted, SessionsCounted

\* No other step opens or closes a session.
LEMMA StepCounted ==
    ASSUME Inv, Counted, [Next]_vars
    PROVE  Counted'
<1>1. ASSUME UNCHANGED <<active, open, recorded>> PROVE Counted'
  BY <1>1 DEF Counted, SessionsCounted
<1>2. ASSUME NEW u \in Threads,
             \/ Open(u) \/ Change(u) \/ Execute(u) \/ ExecuteBulk(u) \/ FlushOrCommit(u)
             \/ Acquire(u) \/ Write(u) \/ Fail(u) \/ Rollback(u)
      PROVE  Counted'
  <2>1. CASE Open(u)
    BY <2>1, OpenCounted
  <2>2. CASE Change(u) \/ FlushOrCommit(u) \/ Acquire(u) \/ Write(u) \/ Fail(u) \/ Rollback(u)
    BY <1>1, <2>2 DEF Change, FlushOrCommit, Acquire, Write, Fail, Rollback, life
  <2>3. CASE Execute(u) \/ ExecuteBulk(u)
    <3>1. CheckAge(Current(u)) /\ open' = open /\ Current(u) \in open
      BY <2>3 DEF Execute, ExecuteBulk, Using
    <3>2. CASE Current(u) \in old \ recorded
      BY <3>1, <3>2, CloseCounted DEF CheckAge
    <3>3. CASE Current(u) \notin old \ recorded
      BY <1>1, <3>1, <3>3 DEF CheckAge
    <3> QED  BY <3>2, <3>3
  <2> QED  BY <1>2, <2>1, <2>2, <2>3
<1>3. ASSUME NEW s \in Sessions, GrowOld(s) \/ Close(s) \/ Drop(s)
      PROVE  Counted'
  <2>1. CASE GrowOld(s)
    BY <1>1, <2>1 DEF GrowOld
  <2>2. CASE Close(s) \/ Drop(s)
    BY <2>2, CloseCounted DEF Close, Drop, Forget
  <2> QED  BY <1>3, <2>1, <2>2
<1>4. CASE UNCHANGED vars
  BY <1>1, <1>4 DEF vars, life
<1> QED  BY <1>2, <1>3, <1>4 DEF Next

\* get_session_stats() counts the sessions in use, whatever is opened, closed by
\* force and used further, dropped without close() or closed twice.
THEOREM CountExact == Spec => []SessionsCounted
<1>1. Init => Counted
  BY FS_EmptySet DEF Init, Counted, SessionsCounted
<1>2. Inv /\ Counted /\ [Next]_vars => Counted'
  BY StepCounted
<1>3. Counted => SessionsCounted
  BY DEF Counted
<1> QED  BY <1>1, <1>2, <1>3, InitInv, StepInv, PTL DEF Spec

=============================================================================
