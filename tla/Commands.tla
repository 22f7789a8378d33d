------------------------------ MODULE Commands ------------------------------
(***************************************************************************)
(* The commands of the god panel (src/web/routes/god_panel.py).  A request *)
(* enters its command in the cache of its web worker and in a table, then  *)
(* a thread runs it and writes each change of status to the cache and,     *)
(* errors being swallowed, to the row.  Any worker answers a poll: from    *)
(* its cache if the command is there, else from the row.  What a command   *)
(* does is in the modules of the components it calls.                      *)
(***************************************************************************)
EXTENDS Naturals, Sequences, Functions

CONSTANTS
    Orders,      \* the commands given
    Servers,     \* web workers, each with a cache of its own
    MaxCached    \* _MAX_CACHED

CommandsAssumption == MaxCached \in Nat \ {0}

VARIABLES
    commands,    \* each command: where its thread is, its row, what polls told
    caches       \* _command_cache of each worker, the oldest entry first

vars == <<commands, caches>>

Ranks == [none |-> 0, accepted |-> 1, running |-> 2, completed |-> 3, failed |-> 3]
Final == {"completed", "failed"}

\* "lost": whether a write to the row ever failed
New == [pc |-> "unborn", home |-> "none", result |-> "none", row |-> "none",
        lost |-> FALSE, told |-> "none"]

Init == commands = [c \in Orders |-> New] /\ caches = [w \in Servers |-> <<>>]

Cached(w, c) == \E i \in DOMAIN caches[w] : caches[w][i].id = c
Status(w, c) == (CHOOSE e \in Range(caches[w]) : e.id = c).status

\* An entry that was evicted meanwhile is left out.
Enter(c, status) ==
    LET w == commands[c].home IN
    caches' = [caches EXCEPT ![w] =
        [i \in DOMAIN @ |-> IF @[i].id = c THEN [@[i] EXCEPT !.status = status] ELSE @[i]]]

\* The row takes the status, if there is one and its transaction commits.
Persist(c, status, next) ==
    \/ /\ commands[c].row # "none"
       /\ commands' = [commands EXCEPT ![c].row = status, ![c].pc = next]
    \/ commands' = [commands EXCEPT ![c].lost = TRUE, ![c].pc = next]

Goto(c, label) == commands' = [commands EXCEPT ![c].pc = label]

-----------------------------------------------------------------------------

\* _track_command: the cache, its oldest entries giving way, ...
Track(c, w) ==
    LET log == Append(caches[w], [id |-> c, status |-> "accepted"]) IN
    /\ commands[c].pc = "unborn"
    /\ caches' = [caches EXCEPT ![w] =
          IF Len(log) > MaxCached THEN SubSeq(log, Len(log) - MaxCached + 1, Len(log)) ELSE log]
    /\ commands' = [commands EXCEPT ![c].pc = "insert", ![c].home = w]

\* ... and the row.
Insert(c) ==
    /\ commands[c].pc = "insert"
    /\ \/ commands' = [commands EXCEPT ![c].row = "accepted", ![c].pc = "launch"]
       \/ commands' = [commands EXCEPT ![c].lost = TRUE, ![c].pc = "launch"]
    /\ UNCHANGED caches

\* What a plan may ask for: the status of the system, found in the request itself,
\* or something for a thread
Planned == {"work", "start"}

\* execute_command, which an error ends after the command is entered
Launch(c) ==
    /\ commands[c].pc = "launch"
    /\ \E next \in Planned \cup {"cut"} : Goto(c, next)
    /\ UNCHANGED caches

\* trigger_autoresearch, trigger_warroom: nothing is planned.
LaunchFixed(c) ==
    /\ commands[c].pc = "launch"
    /\ \E next \in {"start", "cut"} : Goto(c, next)
    /\ UNCHANGED caches

\* _update_command_status: the cache, then the row
Start(c) ==
    /\ commands[c].pc = "start"
    /\ Enter(c, "running") /\ Goto(c, "start_row")

StartRow(c) ==
    /\ commands[c].pc = "start_row"
    /\ Persist(c, "running", "work")
    /\ UNCHANGED caches

\* _dispatch_action returns or raises, whatever it calls.
Outcomes == Final

\* A mutant: an error is written to the row alone.
CompleteCached(c) ==
    /\ commands[c].pc = "work"
    /\ \E status \in Outcomes :
          /\ IF status = "failed" THEN UNCHANGED caches ELSE Enter(c, status)
          /\ commands' = [commands EXCEPT ![c].result = status, ![c].pc = "end_row"]

\* _complete_command: the cache, then the row
Complete(c) ==
    /\ commands[c].pc = "work"
    /\ \E status \in Outcomes :
          /\ Enter(c, status)
          /\ commands' = [commands EXCEPT ![c].result = status, ![c].pc = "end_row"]

CompleteRow(c) ==
    /\ commands[c].pc = "end_row"
    /\ Persist(c, commands[c].result, "done")
    /\ UNCHANGED caches

\* The worker ends, its threads and its cache with it; the next one looks for
\* nothing that was left running.
Recycle(w) ==
    /\ caches' = [caches EXCEPT ![w] = <<>>]
    /\ commands' = [c \in Orders |->
          IF commands[c].home = w /\ commands[c].pc # "done"
          THEN [commands[c] EXCEPT !.pc = "cut"] ELSE commands[c]]

Tell(c, status) ==
    /\ status # "none"
    /\ commands' = [commands EXCEPT ![c].told = status]
    /\ UNCHANGED caches

\* command_status: the cache of the worker that is asked, else the row
Poll(c, w) == Tell(c, IF Cached(w, c) THEN Status(w, c) ELSE commands[c].row)

\* list_commands: the rows; and what is cached without one, or with a row beyond
\* the limit or the filter of the list, or while the database fails
List(c, w) ==
    \/ Tell(c, commands[c].row)
    \/ Cached(w, c) /\ Tell(c, Status(w, c))

Next ==
    \/ \E c \in Orders : Insert(c) \/ Launch(c) \/ LaunchFixed(c) \/ Start(c) \/ StartRow(c)
                         \/ Complete(c) \/ CompleteRow(c)
    \/ \E c \in Orders, w \in Servers : Track(c, w) \/ Poll(c, w) \/ List(c, w)
    \/ \E w \in Servers : Recycle(w)

Spec == Init /\ [][Next]_vars

-----------------------------------------------------------------------------

TypeOK ==
    /\ \A c \in Orders : {commands[c].row, commands[c].told} \subseteq DOMAIN Ranks
    /\ \A w \in Servers :
          /\ Len(caches[w]) <= MaxCached
          /\ IsInjective([i \in DOMAIN caches[w] |-> caches[w][i].id])

\* What was told may be ahead of the row only while the row's write is on its
\* way, or if it failed or was cut off.
Behind(c) == commands[c].lost \/ commands[c].pc \in {"start_row", "end_row", "cut"}

\* Whichever worker is asked, and whatever it has evicted, a command is told to
\* be further on each time, and its end is told for good, unless its row is
\* behind (god_panel.py:77, the cache is written before the row).
ToldForward ==
    [][\A c \in Orders :
        LET before == commands[c].told
            now == commands'[c].told IN
        \/ before = now \/ Ranks[before] < Ranks[now] \/ Behind(c)]_vars

\* A row that says how a command ended says how its action did, and says so once
\* the thread is through, if no write failed.
RowsTrue ==
    \A c \in Orders :
        /\ commands[c].row \in Final => commands[c].row = commands[c].result
        /\ commands[c].pc = "done" /\ ~commands[c].lost =>
              commands[c].row = commands[c].result

=============================================================================
