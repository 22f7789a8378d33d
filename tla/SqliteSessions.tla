---------------------------- MODULE SqliteSessions ----------------------------
(***************************************************************************)
(* The database sessions of src/db/engine.py on SQLite.  Two locks guard a *)
(* write: the module's reentrant _sqlite_write_lock, which a session takes *)
(* in flush() and commit() and keeps until commit, rollback or close, and  *)
(* SQLite's own write lock, which the first uncommitted statement of a     *)
(* connection takes and for which another connection waits busy_timeout    *)
(* (30 s) before it fails with "database is locked".                       *)
(*                                                                         *)
(* A thread uses one session, or a second one inside the scope of the      *)
(* first; no session is shared between threads.  Rows are not modelled,    *)
(* only whether a session has changes that are not written, or written and *)
(* not committed.                                                          *)
(***************************************************************************)
EXTENDS Naturals, FiniteSets, TLC

CONSTANTS
    Threads,
    NoOne       \* the owner of a lock that is free

ASSUME SessionsAssumption == NoOne \notin Threads

Sessions == Threads \X {"outer", "inner"}

\* Threads are interchangeable: a run that checks invariants alone may say so.
Symmetry == Permutations(Threads)

VARIABLES
    owner, count,   \* _sqlite_write_lock: its thread, and how often it took it
    active,         \* _session_stats["active"]
    open,           \* the sessions in use
    recorded,       \* those with _close_recorded
    held,           \* those with _sqlite_write_lock_held
    old,            \* those opened more than MAX_SESSION_AGE_SECONDS ago
    pending,        \* those with changes that no flush has written
    writing,        \* those with statements in an open write transaction
    past,           \* those that wrote past the lock (for WritesSerialize)
    torn,           \* those that lost changes and were not told (for CommitsWhole)
    pc, op          \* where each thread is, and in which operation

lock == <<owner, count, held>>
life == <<active, open, recorded, old>>
data == <<pending, writing, past, torn>>
vars == <<lock, life, data, pc, op>>

Current(t) == IF <<t, "inner">> \in open THEN <<t, "inner">> ELSE <<t, "outer">>

Init ==
    /\ owner = NoOne /\ count = 0 /\ active = 0
    /\ open = {} /\ recorded = {} /\ held = {} /\ old = {}
    /\ pending = {} /\ writing = {} /\ past = {} /\ torn = {}
    /\ pc = [t \in Threads |-> "run"] /\ op = [t \in Threads |-> "none"]

-----------------------------------------------------------------------------

\* _release_sqlite_write_lock
Release(s) ==
    /\ held' = held \ {s}
    /\ IF s \in held
         THEN count' = count - 1 /\ owner' = IF count = 1 THEN NoOne ELSE owner
         ELSE UNCHANGED <<owner, count>>

RecordClose(s) ==
    /\ recorded' = recorded \cup {s}
    /\ active' = IF s \in recorded \/ active = 0 THEN active ELSE active - 1

\* What the session has not committed is rolled back.
Discard(s) == pending' = pending \ {s} /\ writing' = writing \ {s} /\ past' = past \ {s}

Using(t) == pc[t] = "run" /\ Current(t) \in open

\* A second session can be opened while the first has control.
Open(t) ==
    /\ pc[t] = "run"
    /\ \E s \in {<<t, "outer">>, <<t, "inner">>} :
          /\ s \notin open
          /\ s = <<t, "inner">> => <<t, "outer">> \in open
          /\ open' = open \cup {s} /\ recorded' = recorded \ {s}
          /\ active' = active + 1
    /\ UNCHANGED <<lock, old, data, pc, op>>

\* session.add(), session.delete() or an assignment to a loaded row
Change(t) ==
    /\ Using(t)
    /\ pending' = pending \cup {Current(t)}
    /\ UNCHANGED <<lock, life, writing, past, torn, pc, op>>

\* The scope lasts longer than MAX_SESSION_AGE_SECONDS (60), which matters once.
GrowOld(s) ==
    /\ s \in open \ (recorded \cup old) /\ old' = old \cup {s}
    /\ UNCHANGED <<lock, active, open, recorded, data, pc, op>>

\* A mutant: the session that is closed by force will be counted again.
CheckAgeUnrecorded(s) ==
    IF s \in old \ recorded
      THEN /\ Release(s) /\ Discard(s) /\ active' = active - 1
           /\ torn' = IF s \in pending \cup writing THEN torn \cup {s} ELSE torn
           /\ UNCHANGED recorded
      ELSE UNCHANGED <<lock, recorded, active, data>>

\* _check_age: a session that looks leaked is closed, and goes on being used.
CheckAge(s) ==
    IF s \in old \ recorded
      THEN /\ Release(s) /\ RecordClose(s) /\ Discard(s)
           /\ torn' = IF s \in pending \cup writing THEN torn \cup {s} ELSE torn
      ELSE UNCHANGED <<lock, recorded, active, data>>

Goto(t, to, which) == pc' = [pc EXCEPT ![t] = to] /\ op' = [op EXCEPT ![t] = which]

Execute(t) ==
    /\ Using(t)
    /\ CheckAge(Current(t))
    /\ UNCHANGED <<open, old, pc, op>>

\* execute(update(..)) or execute(delete(..)) writes past flush() and past the lock.
ExecuteBulk(t) ==
    /\ Using(t)
    /\ CheckAge(Current(t))
    /\ Goto(t, "write", "bulk")
    /\ UNCHANGED <<open, old>>

\* flush() and commit() take the lock first, unless the session holds it.
FlushOrCommit(t) ==
    /\ Using(t)
    /\ \E which \in {"flush", "commit"} :
          Goto(t, IF Current(t) \in held THEN "write" ELSE "lock", which)
    /\ UNCHANGED <<lock, life, data>>

Acquire(t) ==
    /\ pc[t] = "lock" /\ owner \in {NoOne, t}
    /\ owner' = t /\ count' = count + 1
    /\ held' = held \cup {Current(t)} /\ past' = past \ {Current(t)}
    /\ Goto(t, "write", op[t])
    /\ UNCHANGED <<life, pending, writing, torn>>

Writes(t) == pc[t] = "write" /\ (op[t] = "bulk" \/ Current(t) \in pending)
Busy(t) == Writes(t) /\ ~(writing \subseteq {Current(t)})

\* A mutant: the lock covers the flush only.
WriteAndRelease(t) ==
    /\ pc[t] = "write" /\ ~Busy(t)
    /\ pending' = IF op[t] = "bulk" THEN pending ELSE pending \ {Current(t)}
    /\ writing' = IF op[t] # "commit" /\ Writes(t)
                    THEN writing \cup {Current(t)}
                    ELSE IF op[t] = "commit" THEN writing \ {Current(t)} ELSE writing
    /\ torn' = IF op[t] = "commit" THEN torn \ {Current(t)} ELSE torn
    /\ past' = IF op[t] = "bulk" THEN past \cup {Current(t)} ELSE past \ {Current(t)}
    /\ Release(Current(t))
    /\ Goto(t, "run", "none")
    /\ UNCHANGED life

\* The statements are sent; a commit ends the transaction and gives back the lock.
Write(t) ==
    LET s == Current(t) IN
    /\ pc[t] = "write" /\ ~Busy(t)
    /\ \/ /\ op[t] \in {"flush", "bulk"}
          /\ writing' = IF Writes(t) THEN writing \cup {s} ELSE writing
          /\ pending' = IF op[t] = "flush" THEN pending \ {s} ELSE pending
          /\ past' = IF s \in held THEN past ELSE past \cup {s}
          /\ UNCHANGED <<lock, torn>>
       \/ /\ op[t] = "commit"
          /\ Discard(s) /\ torn' = torn \ {s}
          /\ Release(s)
    /\ Goto(t, "run", "none")
    /\ UNCHANGED life

\* A statement fails: SQLite was busy for too long, or refuses it.  A failed
\* flush() or commit() has rolled back its transaction and gives back the lock.
Fail(t) ==
    /\ Writes(t)
    /\ IF op[t] = "bulk"
         THEN UNCHANGED <<lock, pending, writing, past>>
         ELSE Release(Current(t)) /\ Discard(Current(t))
    /\ Goto(t, "raised", "none")
    /\ UNCHANGED <<life, torn>>

\* By session_scope, or by a caller who goes on.
Rollback(t) ==
    /\ pc[t] \in {"run", "raised"} /\ Current(t) \in open
    /\ Discard(Current(t)) /\ torn' = torn \ {Current(t)}
    /\ Release(Current(t))
    /\ Goto(t, "run", "none")
    /\ UNCHANGED life

Forget(s) ==
    /\ RecordClose(s) /\ Discard(s)
    /\ open' = open \ {s} /\ old' = old \ {s} /\ torn' = torn \ {s}

\* An exception may go on into the scope around this one.
Leave(t) ==
    \/ Goto(t, "run", "none")
    \/ pc[t] = "raised" /\ Current(t) = <<t, "inner">> /\ UNCHANGED <<pc, op>>

\* A mutant: close() does as __del__ does.
CloseKeepsLock(s) ==
    /\ s \in open /\ s = Current(s[1]) /\ pc[s[1]] \in {"run", "raised"}
    /\ Forget(s) /\ held' = held \ {s} /\ UNCHANGED <<owner, count>>
    /\ Leave(s[1])

Close(s) ==
    /\ s \in open /\ s = Current(s[1]) /\ pc[s[1]] \in {"run", "raised"}
    /\ Forget(s) /\ Release(s)
    /\ Leave(s[1])

\* __del__: the users of a bare get_session() that never close it.  None of
\* them lets go of a session between flush() and commit(), which is as well:
\* __del__ does not give back the lock.
Drop(s) ==
    /\ s \in open \ held /\ s = Current(s[1]) /\ pc[s[1]] \in {"run", "raised"}
    /\ Forget(s)
    /\ Leave(s[1])
    /\ UNCHANGED lock

Next ==
    \/ \E t \in Threads :
          \/ Open(t) \/ Change(t) \/ Execute(t) \/ ExecuteBulk(t) \/ FlushOrCommit(t)
          \/ Acquire(t) \/ Write(t) \/ Fail(t) \/ Rollback(t)
    \/ \E s \in Sessions : GrowOld(s) \/ Close(s) \/ Drop(s)

Spec == Init /\ [][Next]_vars

-----------------------------------------------------------------------------

\* Every variable has its type, and a thread holds the lock no more often than it has
\* sessions.
TypeOK ==
    /\ owner \in Threads \cup {NoOne} /\ count \in 0..2 /\ active \in Nat
    /\ open \subseteq Sessions /\ recorded \subseteq Sessions
    /\ held \subseteq open /\ old \subseteq open
    /\ {pending, writing, past, torn} \subseteq SUBSET open
    /\ pc \in [Threads -> {"run", "lock", "write", "raised"}]
    /\ op \in [Threads -> {"none", "flush", "commit", "bulk"}]

Holding(s) == IF s \in held THEN 1 ELSE 0

\* The sessions that believe they hold _sqlite_write_lock are those of the
\* thread that owns it, as many as it took it: none is left locked behind by
\* an error, a rollback or a forced close, and none is released twice.
LockMatchesSessions ==
    /\ \A t \in Threads :
          Holding(<<t, "outer">>) + Holding(<<t, "inner">>) = IF owner = t THEN count ELSE 0
    /\ count = 0 <=> owner = NoOne

\* get_session_stats() counts the sessions in use, those closed by force left out.
SessionsCounted == active = Cardinality(open \ recorded)

\* Writes serialize: a flush or a commit meets a locked database, for which it
\* can only wait and fail, through a statement that was sent past the lock, or
\* through the scope around its own.
WritesSerialize ==
    \A t \in Threads :
        Busy(t) => op[t] = "bulk" \/ \E s \in writing \ {Current(t)} : s \in past \/ s = <<t, "outer">>

\* A commit that succeeds has made all changes of its scope permanent.
CommitsWhole ==
    [][\A t \in Threads :
          pc[t] = "write" /\ op[t] = "commit" /\ pc'[t] = "run" => Current(t) \notin torn]_vars

=============================================================================
