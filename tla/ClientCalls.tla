----------------------------- MODULE ClientCalls -----------------------------
(***************************************************************************)
(* LLMClient.complete of src/llm/base.py: a call waits for the client's    *)
(* own limiter, asks the provider up to MaxAttempts times, and an answer   *)
(* is recorded in the limiter's log.  Threads that share a client (the     *)
(* parallel tasks of an engine) share the log, which is rebuilt and        *)
(* extended without a lock.  An age is counted up to the first one that no *)
(* longer matters.                                                         *)
(***************************************************************************)
EXTENDS Naturals, Sequences, FiniteSets

CONSTANTS
    Askers,        \* threads that share the client
    PerMinute,     \* rpm_limit
    Window,        \* 60 s, in ticks
    MaxAttempts,   \* _max_retries
    MaxAnswers     \* bound: calls made

ClientAssumption ==
    /\ PerMinute \in Nat \ {0} /\ Window \in Nat \ {0} /\ MaxAttempts \in Nat \ {0}
    /\ MaxAnswers \in Nat

VARIABLES
    stamps,      \* _request_timestamps, as ages
    calling,     \* where each thread is, with its attempt and its new list
    answered,    \* the ages of all answers in the last minute
    calls,       \* calls made so far
    shared       \* whether two calls ever overlapped

vars == <<stamps, calling, answered, calls, shared>>

Resting == [pc |-> "idle", attempt |-> 1, list |-> <<>>]

Init ==
    /\ stamps = <<>> /\ answered = <<>>
    /\ calling = [t \in Askers |-> Resting]
    /\ calls = 0 /\ shared = FALSE

\* What is young enough is kept: as the oldest come first, the end of the log.
Old(log) == {i \in DOMAIN log : log[i] >= Window}
Recent(log) == SubSeq(log, Cardinality(Old(log)) + 1, Len(log))
Goto(t, label) == calling' = [calling EXCEPT ![t].pc = label]

-----------------------------------------------------------------------------

Begin(t) ==
    /\ calling[t].pc = "idle" /\ calls < MaxAnswers
    /\ calls' = calls + 1
    /\ shared' = (shared \/ \E u \in Askers \ {t} : calling[u].pc # "idle")
    /\ calling' = [calling EXCEPT ![t] = [Resting EXCEPT !.pc = "trim"]]
    /\ UNCHANGED <<stamps, answered>>

\* can_proceed builds the list without the old entries, ...
Trim(t) ==
    /\ calling[t].pc = "trim"
    /\ calling' = [calling EXCEPT ![t].pc = "store", ![t].list = Recent(stamps)]
    /\ UNCHANGED <<stamps, answered, calls, shared>>

\* ... puts it in the place of one that may have grown since, ...
Store(t) ==
    /\ calling[t].pc = "store"
    /\ stamps' = calling[t].list
    /\ calling' = [calling EXCEPT ![t].pc = "check", ![t].list = <<>>]
    /\ UNCHANGED <<answered, calls, shared>>

\* ... and refuses when it is full, or when the tokens of a minute would be.
Check(t) ==
    /\ calling[t].pc = "check"
    /\ \/ Len(stamps) < PerMinute /\ Goto(t, "call")
       \/ Goto(t, "wait")
    /\ UNCHANGED <<stamps, answered, calls, shared>>

\* _wait_for_rate_limit: nothing to wait for ends the wait, whatever refused.
Wait(t) ==
    /\ calling[t].pc = "wait"
    /\ Goto(t, IF stamps = <<>> \/ Head(stamps) >= Window THEN "call" ELSE "trim")
    /\ UNCHANGED <<stamps, answered, calls, shared>>

\* _classify_error of the two providers: the errors after which a call is repeated
Errors == {"rate_limit", "server", "status", "unexpected"}
Repeatable == {"rate_limit", "server"}

\* _call_provider: an answer, or an error, which ends the call or repeats it
\* without a look at the limiter.
Ask(t) ==
    /\ calling[t].pc = "call"
    /\ \/ Goto(t, "record")
       \/ \E error \in Errors :
            calling' = IF error \in Repeatable /\ calling[t].attempt < MaxAttempts
                       THEN [calling EXCEPT ![t].attempt = @ + 1]
                       ELSE [calling EXCEPT ![t] = Resting]
    /\ UNCHANGED <<stamps, answered, calls, shared>>

\* _record_usage
Record(t) ==
    /\ calling[t].pc = "record"
    /\ stamps' = Append(stamps, 0) /\ answered' = Append(answered, 0)
    /\ calling' = [calling EXCEPT ![t] = Resting]
    /\ UNCHANGED <<calls, shared>>

Older(age) == IF age = Window THEN age ELSE age + 1
Aged(log) == [i \in DOMAIN log |-> Older(log[i])]

Tick ==
    /\ stamps' = Aged(stamps) /\ answered' = Recent(Aged(answered))
    /\ calling' = [t \in Askers |-> [calling[t] EXCEPT !.list = Aged(@)]]
    /\ UNCHANGED <<calls, shared>>

Next ==
    \/ Tick
    \/ \E t \in Askers : Begin(t) \/ Trim(t) \/ Store(t) \/ Check(t) \/ Wait(t) \/ Ask(t)
                         \/ Record(t)

Spec == Init /\ [][Next]_vars

-----------------------------------------------------------------------------

\* The newest is last.
InOrder(log) == \A i, j \in DOMAIN log : i <= j => log[i] >= log[j]

TypeOK ==
    /\ InOrder(stamps) /\ \A i \in DOMAIN stamps : stamps[i] \in 0..Window
    /\ \A t \in Askers : calling[t].attempt \in 1..MaxAttempts

\* As long as no two calls overlap, the log has every answer of the last minute,
\* and there are no more of them than the limit (base.py:177).  Calls that overlap
\* all pass the check before one of them is recorded, and lose records.
LimitKept ==
    ~shared => /\ Len(answered) <= PerMinute
               /\ Recent(stamps) = answered

=============================================================================
