----------------------------- MODULE Migrations -----------------------------
(***************************************************************************)
(* The migrations of src/db/migrations.py, run from the command line by    *)
(* any number of runners, forward and back, beside init_db of              *)
(* src/db/engine.py, which every start of the program calls.  Version 1    *)
(* makes all tables, in transactions of its own; a later version makes     *)
(* indexes on them or tables besides.  On PostgreSQL its statements and    *)
(* its row are one transaction; on SQLite each statement that changes the  *)
(* schema is on disk at once.                                              *)
(***************************************************************************)
EXTENDS Naturals, Sequences, FiniteSets, FiniteSetsExt

CONSTANTS
    Operators,     \* those who run migrations
    LastVersion,   \* the last version registered
    Resting,       \* the versions that make indexes on the first one's tables
    MaxMigrations  \* bound: runs of the command

MigrationsAssumption ==
    LastVersion \in Nat \ {0} /\ Resting \subseteq 2..LastVersion /\ MaxMigrations \in Nat

VARIABLES
    store,      \* "sqlite" or "postgresql"
    versions,   \* the row of each version: "absent", "current", "rolled_back"
    built,      \* the versions whose tables or indexes are there
    tool,       \* what each runner does, with the versions it has left
    started,    \* runs so far
    torn        \* whether a way back was cut off or overlapped another run

vars == <<store, versions, built, tool, started, torn>>

Unused == [pc |-> "idle", todo |-> {}]
All == 1..LastVersion

Init ==
    /\ store \in {"sqlite", "postgresql"}
    /\ versions = [v \in All |-> "absent"] /\ built = {}
    /\ tool = [o \in Operators |-> Unused]
    /\ started = 0 /\ torn = FALSE

\* get_applied_versions
Applied == {v \in All : versions[v] = "current"}

Busy(o) == tool[o].pc # "idle"
Overlaps(o, pcs) == \E p \in Operators \ {o} : tool[p].pc \in pcs

Take(o, pc, todo) ==
    /\ ~Busy(o) /\ started < MaxMigrations
    /\ started' = started + 1
    /\ tool' = [tool EXCEPT ![o] = IF todo = {} THEN Unused ELSE [pc |-> pc, todo |-> todo]]

-----------------------------------------------------------------------------

\* init_db: create_all makes the tables that are missing, whatever the versions.
InitDb ==
    /\ built' = built \cup {1}
    /\ UNCHANGED <<store, versions, tool, started, torn>>

\* migrate: what is not current, up to a target, is due.
Migrate(o, target) ==
    /\ Take(o, "up", {v \in All \ Applied : v <= target})
    /\ torn' = (torn \/ Overlaps(o, {"down", "undo"}))
    /\ UNCHANGED <<store, versions, built>>

\* rollback: what is current beyond a target
Rollback(o, target) ==
    /\ Take(o, "down", {v \in Applied : v > target})
    /\ torn' = (torn \/ Overlaps(o, {"up", "record", "down", "undo"}))
    /\ UNCHANGED <<store, versions, built>>

Lowest(o) == Min(tool[o].todo)
Highest(o) == Max(tool[o].todo)
Done(o, v, pc) ==
    LET left == tool[o].todo \ {v} IN
    tool' = [tool EXCEPT ![o] = IF left = {} THEN Unused ELSE [pc |-> pc, todo |-> left]]
Fail(o) == tool' = [tool EXCEPT ![o] = Unused]

CanBuild(v) == v \in Resting => 1 \in built
\* Tables take what rests on them with them.
Dropped(v) == IF v = 1 THEN built \ ({1} \cup Resting) ELSE built \ {v}

\* _apply_migration, the schema (which may fail) when it is on disk before the row
Build(o) ==
    LET v == Lowest(o) IN
    /\ tool[o].pc = "up" /\ (store = "sqlite" \/ v = 1)
    /\ \/ /\ CanBuild(v)
          /\ built' = built \cup {v}
          /\ tool' = [tool EXCEPT ![o].pc = "record"]
       \/ Fail(o) /\ UNCHANGED built
    /\ UNCHANGED <<store, versions, started, torn>>

\* The version's row is inserted, which fails when it has one, rolled back or not.
CanRecord(v) == versions[v] = "absent"

Record(o) ==
    LET v == Lowest(o) IN
    /\ tool[o].pc = "record"
    /\ IF CanRecord(v)
       THEN versions' = [versions EXCEPT ![v] = "current"] /\ Done(o, v, "up")
       ELSE Fail(o) /\ UNCHANGED versions
    /\ UNCHANGED <<store, built, started, torn>>

\* Both in one transaction
Apply(o) ==
    LET v == Lowest(o) IN
    /\ tool[o].pc = "up" /\ store = "postgresql" /\ v # 1
    /\ \/ /\ CanBuild(v) /\ CanRecord(v)
          /\ built' = built \cup {v}
          /\ versions' = [versions EXCEPT ![v] = "current"]
          /\ Done(o, v, "up")
       \/ Fail(o) /\ UNCHANGED <<built, versions>>
    /\ UNCHANGED <<store, started, torn>>

\* A mutant: the first version is undone first.
UndoneFirst(o) == Lowest(o)

\* The order of rollback: the last version first.
Undone(o) == Highest(o)

\* _rollback_migration, the schema, ...
Drop(o) ==
    LET v == Undone(o) IN
    /\ tool[o].pc = "down" /\ (store = "sqlite" \/ v = 1)
    /\ built' = Dropped(v)
    /\ tool' = [tool EXCEPT ![o].pc = "undo"]
    /\ UNCHANGED <<store, versions, started, torn>>

\* ... the row, ...
Undo(o) ==
    LET v == Undone(o) IN
    /\ tool[o].pc = "undo"
    /\ versions' = [versions EXCEPT ![v] = "rolled_back"]
    /\ Done(o, v, "down")
    /\ UNCHANGED <<store, built, started, torn>>

\* ... or both in one transaction.
RollBack(o) ==
    LET v == Undone(o) IN
    /\ tool[o].pc = "down" /\ store = "postgresql" /\ v # 1
    /\ built' = Dropped(v)
    /\ versions' = [versions EXCEPT ![v] = "rolled_back"]
    /\ Done(o, v, "down")
    /\ UNCHANGED <<store, started, torn>>

\* The command is interrupted, or a way back fails, half of it maybe on disk.
Interrupt(o) ==
    /\ Busy(o)
    /\ Fail(o)
    /\ torn' = (torn \/ tool[o].pc = "undo" \/ (tool[o].pc = "down" /\ store = "sqlite"))
    /\ UNCHANGED <<store, versions, built, started>>

Next ==
    \/ InitDb
    \/ \E o \in Operators :
          \/ Build(o) \/ Record(o) \/ Apply(o) \/ Drop(o) \/ Undo(o) \/ RollBack(o)
          \/ Interrupt(o)
          \/ \E target \in 0..LastVersion : Migrate(o, target) \/ Rollback(o, target)

Spec == Init /\ [][Next]_vars

-----------------------------------------------------------------------------

TypeOK ==
    /\ versions \in [All -> {"absent", "current", "rolled_back"}]
    /\ built \subseteq All
    /\ \A o \in Operators : tool[o].todo \subseteq All /\ (Busy(o) => tool[o].todo # {})

Undoing(v) == \E o \in Operators : tool[o].pc = "undo" /\ Undone(o) = v

\* However runs are interrupted, fail half-way or go forward at the same time, the
\* current versions are the first ones and their schema is there; only a way back
\* that is cut off or not alone can break it (migrations.py:322).
SchemaAsRecorded ==
    ~torn => /\ \A v \in Applied : 1..v \subseteq Applied
             /\ \A v \in Applied : v \in built \/ Undoing(v) \/ Undoing(1)

\* The way back is one way: what was rolled back is never current again, since its
\* row is in the way of another (migrations.py:308).
BackForGood ==
    [][\A v \in All : versions[v] = "rolled_back" => versions'[v] = "rolled_back"]_vars

=============================================================================
