---------------------------- MODULE CircuitBreaker ----------------------------
(***************************************************************************)
(* The circuit breaker of src/utils/circuit_breaker.py under threads that  *)
(* are inside its operations at the same time.  It has no lock, so an      *)
(* action is one access to a field that other threads use, and at[c] is    *)
(* where thread c is; `+=` is a load and a store.  Instead of a clock,     *)
(* waited is the time since _last_failure_time, up to the timeout beyond   *)
(* which nothing depends on it; None counts as long ago, as in the code.   *)
(* Counters are counted up to the threshold they are compared with.        *)
(***************************************************************************)
EXTENDS Naturals

CONSTANTS
    Threads,
    FailureThreshold,   \* failure_threshold (15)
    SuccessThreshold,   \* success_threshold (2)
    Timeout,            \* timeout_seconds (30), in units of the clock
    HalfOpenMax         \* half_open_max_calls (5)

\* What the constants are; the modules that use a breaker assume it.
BreakerAssumption ==
    /\ FailureThreshold \in Nat \ {0} /\ SuccessThreshold \in Nat \ {0}
    /\ Timeout \in Nat /\ HalfOpenMax \in Nat \ {0}

VARIABLES
    state,        \* _state
    failures,     \* _failure_count
    successes,    \* _success_count
    halfCalls,    \* _half_open_calls
    waited,       \* time since _last_failure_time
    at,           \* at[c]: the access thread c makes next, or "out"
    loaded,       \* loaded[c]: what a += of c adds to, and 0 outside of one
    evidence,     \* successes counted since the last trial began and
    blurred       \* whether one was being counted as it began; both are kept
                  \* for ClosesOnEvidence only

fields == <<state, failures, successes, halfCalls, waited>>
breaker == <<fields, at, loaded, evidence, blurred>>

\* Where a thread can be inside of allow_request, record_success and
\* record_failure; each begins with its first access.
Asking    == {"half?", "half!", "calls", "successes", "return", "room"}
Counting  == {"s_load", "s_store", "c_load", "c_store", "s_enough", "close?", "close!"}
Praising  == Counting \cup {"s_closed", "forget"}
Blaming   == {"f_half", "f_closed", "f_load", "f_store", "f_enough", "open?", "open!"}
Labels    == {"out"} \cup Asking \cup Praising \cup Blaming

Init ==
    /\ state = "closed"
    /\ failures = 0 /\ successes = 0 /\ halfCalls = 0
    /\ waited = Timeout
    /\ at = [c \in Threads |-> "out"]
    /\ loaded = [c \in Threads |-> 0]
    /\ evidence = 0 /\ blurred = FALSE

Goto(c, label) == at' = [at EXCEPT ![c] = label]
Branch(c, test, then, else) == Goto(c, IF test THEN then ELSE else)
CountTo(n, limit) == IF n < limit THEN n + 1 ELSE limit

\* A trial has begun and its counters are not cleared yet.
Clearing == \E c \in Threads : at[c] \in {"calls", "successes"}
IsCounting(c) == at[c] \in Counting

-----------------------------------------------------------------------------
\* The property `state`: reading it ends the wait of an open circuit.  Time
\* stands still in an operation, so that its first two reads are one.
ReadState(c) ==
    /\ at[c] = "out"
    /\ Branch(c, state = "open" /\ waited >= Timeout, "half?", "return")
    /\ UNCHANGED <<fields, loaded, evidence, blurred>>

StateRead(c) ==
    /\ at[c] = "return"
    /\ Goto(c, "out")
    /\ UNCHANGED <<fields, loaded, evidence, blurred>>

\* allow_request goes by the state that is read last.
AllowRequest(c, answer) ==
    /\ \/ at[c] = "return" /\ state # "half_open" /\ answer = (state = "closed")
       \/ at[c] = "room" /\ answer = (halfCalls < HalfOpenMax)
    /\ Goto(c, "out")
    /\ UNCHANGED <<fields, loaded, evidence, blurred>>

OnTrial(c) ==
    /\ at[c] = "return" /\ state = "half_open"
    /\ Goto(c, "room")
    /\ UNCHANGED <<fields, loaded, evidence, blurred>>

\* The test of _transition_to; the transition may be another thread's by now.
Compare(c) ==
    /\ \/ at[c] = "half?" /\ Branch(c, state # "half_open", "half!", "return")
       \/ at[c] = "close?" /\ Branch(c, state # "closed", "close!", "out")
       \/ at[c] = "open?" /\ Branch(c, state # "open", "open!", "out")
    /\ UNCHANGED <<fields, loaded, evidence, blurred>>

\* A mutant: the successes of an earlier trial are kept.
ToHalfOpenUncleared(c) ==
    /\ at[c] = "half!"
    /\ state' = "half_open"
    /\ evidence' = 0 /\ blurred' = \E d \in Threads : IsCounting(d)
    /\ Goto(c, "return")
    /\ UNCHANGED <<failures, successes, halfCalls, waited, loaded>>

\* _transition_to(HALF_OPEN): the state comes first.
ToHalfOpen(c) ==
    /\ at[c] = "half!"
    /\ state' = "half_open"
    /\ evidence' = 0 /\ blurred' = \E d \in Threads : IsCounting(d)
    /\ Goto(c, "calls")
    /\ UNCHANGED <<failures, successes, halfCalls, waited, loaded>>

ClearTrial(c) ==
    /\ \/ at[c] = "calls" /\ halfCalls' = 0 /\ Goto(c, "successes") /\ UNCHANGED successes
       \/ at[c] = "successes" /\ successes' = 0 /\ Goto(c, "return") /\ UNCHANGED halfCalls
    /\ UNCHANGED <<state, failures, waited, loaded, evidence, blurred>>

\* _transition_to(CLOSED) and _transition_to(OPEN).
ToClosed(c) ==
    /\ at[c] = "close!"
    /\ state' = "closed"
    /\ Goto(c, "forget")
    /\ UNCHANGED <<failures, successes, halfCalls, waited, loaded, evidence, blurred>>

ClearFailures(c) ==
    /\ at[c] = "forget"
    /\ failures' = 0
    /\ Goto(c, "out")
    /\ UNCHANGED <<state, successes, halfCalls, waited, loaded, evidence, blurred>>

ToOpen(c) ==
    /\ at[c] = "open!"
    /\ state' = "open"
    /\ Goto(c, "out")
    /\ UNCHANGED <<failures, successes, halfCalls, waited, loaded, evidence, blurred>>

-----------------------------------------------------------------------------
\* A mutant: a success while testing recovery is not counted.
RecordSuccessWhenClosed(c) ==
    /\ at[c] = "out"
    /\ Goto(c, "s_closed")
    /\ UNCHANGED <<fields, loaded, evidence, blurred>>

\* A mutant: a success closes the circuit whatever its state.
RecordSuccessAnyway(c) ==
    /\ at[c] = "out"
    /\ Goto(c, "s_load")
    /\ blurred' = (blurred \/ Clearing)
    /\ UNCHANGED <<fields, loaded, evidence>>

RecordSuccess(c) ==
    /\ at[c] = "out"
    /\ Branch(c, state = "half_open", "s_load", "s_closed")
    /\ blurred' = (blurred \/ (state = "half_open" /\ Clearing))
    /\ UNCHANGED <<fields, loaded, evidence>>

Forgive(c) ==
    /\ at[c] = "s_closed"
    /\ Branch(c, state = "closed", "forget", "out")
    /\ UNCHANGED <<fields, loaded, evidence, blurred>>

CountSuccess(c) ==
    /\ \/ /\ at[c] = "s_load" /\ Goto(c, "s_store")
          /\ loaded' = [loaded EXCEPT ![c] = successes]
          /\ UNCHANGED <<successes, evidence>>
       \/ /\ at[c] = "s_store" /\ Goto(c, "c_load")
          /\ successes' = CountTo(loaded[c], SuccessThreshold)
          /\ evidence' = CountTo(evidence, SuccessThreshold)
          /\ loaded' = [loaded EXCEPT ![c] = 0]
    /\ UNCHANGED <<state, failures, halfCalls, waited, blurred>>

CountCall(c) ==
    /\ \/ /\ at[c] = "c_load" /\ Goto(c, "c_store")
          /\ loaded' = [loaded EXCEPT ![c] = halfCalls]
          /\ UNCHANGED halfCalls
       \/ /\ at[c] = "c_store" /\ Goto(c, "s_enough")
          /\ halfCalls' = CountTo(loaded[c], HalfOpenMax)
          /\ loaded' = [loaded EXCEPT ![c] = 0]
    /\ UNCHANGED <<state, failures, successes, waited, evidence, blurred>>

-----------------------------------------------------------------------------
\* In every state the time of the failure is kept.
RecordFailure(c) ==
    /\ at[c] = "out"
    /\ waited' = 0
    /\ Goto(c, "f_half")
    /\ UNCHANGED <<state, failures, successes, halfCalls, loaded, evidence, blurred>>

Blame(c) ==
    /\ \/ at[c] = "f_half" /\ Branch(c, state = "half_open", "open?", "f_closed")
       \/ at[c] = "f_closed" /\ Branch(c, state = "closed", "f_load", "out")
    /\ UNCHANGED <<fields, loaded, evidence, blurred>>

CountFailure(c) ==
    /\ \/ /\ at[c] = "f_load" /\ Goto(c, "f_store")
          /\ loaded' = [loaded EXCEPT ![c] = failures]
          /\ UNCHANGED failures
       \/ /\ at[c] = "f_store" /\ Goto(c, "f_enough")
          /\ failures' = CountTo(loaded[c], FailureThreshold)
          /\ loaded' = [loaded EXCEPT ![c] = 0]
    /\ UNCHANGED <<state, successes, halfCalls, waited, evidence, blurred>>

\* A mutant: the threshold of the failures is passed, not reached.
EnoughLate(c) ==
    /\ \/ at[c] = "s_enough" /\ Branch(c, successes >= SuccessThreshold, "close?", "out")
       \/ at[c] = "f_enough" /\ Branch(c, failures > FailureThreshold, "open?", "out")
    /\ UNCHANGED <<fields, loaded, evidence, blurred>>

\* The thresholds are reached.
Enough(c) ==
    /\ \/ at[c] = "s_enough" /\ Branch(c, successes >= SuccessThreshold, "close?", "out")
       \/ at[c] = "f_enough" /\ Branch(c, failures >= FailureThreshold, "open?", "out")
    /\ UNCHANGED <<fields, loaded, evidence, blurred>>

-----------------------------------------------------------------------------
\* An access of thread c inside an operation, whoever called it.
Access(c) ==
    \/ Compare(c)
    \/ ToHalfOpen(c) \/ ClearTrial(c) \/ ToClosed(c) \/ ClearFailures(c) \/ ToOpen(c)
    \/ Forgive(c) \/ CountSuccess(c) \/ CountCall(c)
    \/ Blame(c) \/ CountFailure(c) \/ Enough(c)

\* An operation takes no time that counts against the timeout.
TimePasses ==
    /\ \A c \in Threads : at[c] = "out"
    /\ waited' = IF waited < Timeout THEN waited + 1 ELSE waited
    /\ UNCHANGED <<state, failures, successes, halfCalls, at, loaded, evidence, blurred>>

\* Whatever thread c can do here.
Operate(c) ==
    \/ ReadState(c) \/ StateRead(c) \/ OnTrial(c)
    \/ \E answer \in BOOLEAN : AllowRequest(c, answer)
    \/ RecordSuccess(c) \/ RecordFailure(c)
    \/ Access(c)

Next == TimePasses \/ \E c \in Threads : Operate(c)

Spec == Init /\ [][Next]_breaker

-----------------------------------------------------------------------------
\* The state is one of three, counters, clock and threads are in their ranges.
TypeOK ==
    /\ state \in {"closed", "open", "half_open"}
    /\ failures \in 0..FailureThreshold
    /\ successes \in 0..SuccessThreshold
    /\ halfCalls \in 0..HalfOpenMax
    /\ waited \in 0..Timeout
    /\ at \in [Threads -> Labels]
    /\ loaded \in [Threads -> Nat]
    /\ evidence \in 0..SuccessThreshold
    /\ blurred \in BOOLEAN

\* However the operations of several threads interleave, once all have
\* returned a closed circuit has fewer failures than open it, and one under
\* test fewer successes than close it: no transition is missed for good.
CountersAgree ==
    (\A c \in Threads : at[c] = "out") =>
        /\ state = "closed" => failures < FailureThreshold
        /\ state = "half_open" => successes < SuccessThreshold

\* Recovery is declared only on success_threshold successes recorded since the
\* trial began; those of an earlier, failed trial never count.  The exception
\* is a trial that began while a success was being recorded: the state is set
\* before the counters are cleared.
ClosesOnEvidence ==
    [][state # "closed" /\ state' = "closed"
         => evidence >= SuccessThreshold \/ blurred]_breaker

\* From the moment after a failure until the timeout an open circuit stays
\* open: answers to calls that it let through before, however many of them are
\* successes, and threads that were in the middle of a transition change nothing.
StaysOpen ==
    [][state = "open" /\ 0 < waited /\ waited < Timeout => state' = "open"]_breaker

=============================================================================
