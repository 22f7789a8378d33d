---------------------------- MODULE ProviderGuard ----------------------------
(***************************************************************************)
(* How ModelRouter.execute (src/llm/router.py) guards one LLM provider:    *)
(* concurrent callers pass the outage gate, then the circuit breaker, then *)
(* call the provider; every exception, those of the gate and the breaker   *)
(* included, ends in the same handler.  The cache, the choice of models,   *)
(* their health scores and costs are left out.                             *)
(***************************************************************************)
EXTENDS Integers, FiniteSets

CONSTANTS
    Callers,            \* threads inside execute(), or reading the state
    Outage,             \* the outage a connection error declares (30 s)
    FailureThreshold, SuccessThreshold, Timeout, HalfOpenMax

VARIABLES
    state, failures, successes, halfCalls, waited, at, loaded, evidence, blurred,
    outage,       \* time left until _global_provider_outage_until
    provider,     \* "sick": calls may fail; "well": they no longer do
    pc            \* pc[c]: where caller c is; at[c]: where in the breaker

Breaker == INSTANCE CircuitBreaker WITH Threads <- Callers

ASSUME GuardAssumption == Outage \in Nat \ {0} /\ Breaker!BreakerAssumption

breaker == <<state, failures, successes, halfCalls, waited, at, loaded, evidence, blurred>>
vars == <<breaker, outage, provider, pc>>

Init ==
    /\ Breaker!Init
    /\ outage = 0
    /\ provider = "sick"
    /\ pc = [c \in Callers |-> "idle"]

Goto(c, label) == pc' = [pc EXCEPT ![c] = label]

\* Caller c has returned from the breaker.
Back(c) == at[c] = "out"

-----------------------------------------------------------------------------

\* The gate: a ConnectionError is raised while the outage lasts.
Enter(c) ==
    /\ pc[c] = "idle" /\ Back(c)
    /\ Goto(c, IF outage > 0 THEN "connection_error" ELSE "ask")
    /\ UNCHANGED <<breaker, outage, provider>>

\* allow_request; its refusal raises CircuitOpenError.
Ask(c) ==
    /\ pc[c] = "ask"
    /\ Breaker!ReadState(c)
    /\ Goto(c, "asking")
    /\ UNCHANGED <<outage, provider>>

Hear(c) ==
    /\ pc[c] = "asking"
    /\ \/ Breaker!OnTrial(c) /\ UNCHANGED pc
       \/ Breaker!AllowRequest(c, TRUE) /\ Goto(c, "call")
       \/ Breaker!AllowRequest(c, FALSE) /\ Goto(c, "refused")
    /\ UNCHANGED <<outage, provider>>

\* client.complete() returns.
Succeed(c) ==
    /\ pc[c] = "call"
    /\ Breaker!RecordSuccess(c)
    /\ Goto(c, "idle")
    /\ UNCHANGED <<outage, provider>>

\* client.complete() raises, for the connection or for another reason.
Fail(c) ==
    /\ pc[c] = "call" /\ provider = "sick"
    /\ \E error \in {"connection_error", "error"} : Goto(c, error)
    /\ UNCHANGED <<breaker, outage, provider>>

\* The handler counts every exception as a failure of the provider.
Handle(c) ==
    /\ pc[c] \in {"connection_error", "error", "refused"}
    /\ Breaker!RecordFailure(c)
    /\ Goto(c, IF pc[c] = "connection_error" THEN "declare" ELSE "fallback")
    /\ UNCHANGED <<outage, provider>>

\* A connection error begins the outage anew; unless the fallback model is one
\* of another provider it is raised.
Declare(c) ==
    /\ pc[c] = "declare" /\ Back(c)
    /\ outage' = Outage
    /\ \E next \in {"idle", "fallback"} : Goto(c, next)
    /\ UNCHANGED <<breaker, provider>>

\* The fallback model and the last resorts are called past gate and breaker,
\* and what they answer is recorded in neither.
Fallback(c) ==
    /\ pc[c] = "fallback" /\ Back(c)
    /\ Goto(c, "idle")
    /\ UNCHANGED <<breaker, outage, provider>>

\* The dashboard and the health checks read the state.
Observe(c) ==
    /\ pc[c] = "idle"
    /\ Breaker!ReadState(c)
    /\ Goto(c, "observe")
    /\ UNCHANGED <<outage, provider>>

Observed(c) ==
    /\ pc[c] = "observe"
    /\ Breaker!StateRead(c)
    /\ Goto(c, "idle")
    /\ UNCHANGED <<outage, provider>>

Inside(c) ==
    /\ Breaker!Access(c)
    /\ UNCHANGED <<outage, provider, pc>>

\* A mutant: the outage is counted down past its end.
TimePassesUnclamped ==
    /\ \A c \in Callers : pc[c] \in {"idle", "call", "fallback"}
    /\ Breaker!TimePasses
    /\ outage' = outage - 1
    /\ UNCHANGED <<provider, pc>>

\* Only network calls and pauses between requests take time worth counting.
TimePasses ==
    /\ \A c \in Callers : pc[c] \in {"idle", "call", "fallback"}
    /\ Breaker!TimePasses
    /\ outage' = IF outage > 0 THEN outage - 1 ELSE 0
    /\ UNCHANGED <<provider, pc>>

Heal ==
    /\ provider = "sick" /\ provider' = "well"
    /\ UNCHANGED <<breaker, outage, pc>>

Step(c) ==
    \/ Ask(c) \/ Hear(c) \/ Succeed(c) \/ Fail(c) \/ Handle(c) \/ Declare(c) \/ Fallback(c)
    \/ Observed(c) \/ Inside(c)

Next ==
    \/ TimePasses \/ Heal
    \/ \E c \in Callers : Enter(c) \/ Observe(c) \/ Step(c)

\* A caller who asks now is let through.
Welcome == outage = 0 /\ (state = "open" => waited >= Timeout)

\* Time never stands still for good (the operations of the breaker take next
\* to none, so that now and then no caller is in the middle of one), requests
\* keep coming, at the latest when they would be let through, and every one is
\* answered.
Fairness ==
    /\ []<>(\A c \in Callers : Back(c) /\ pc[c] \in {"idle", "call", "fallback"})
    /\ SF_vars(TimePasses)
    /\ \A c \in Callers : SF_vars(Welcome /\ Enter(c)) /\ WF_vars(Step(c))

Spec == Init /\ [][Next]_vars
FairSpec == Spec /\ Fairness

-----------------------------------------------------------------------------

\* The breaker's types, and the callers are at a label of execute().
TypeOK ==
    /\ Breaker!TypeOK
    /\ outage \in 0..Outage
    /\ provider \in {"sick", "well"}
    /\ pc \in [Callers -> {"idle", "ask", "asking", "call", "connection_error", "error",
                           "refused", "declare", "fallback", "observe"}]

\* Whatever accesses of several callers fall between one another, the breaker's
\* counters agree with its state as soon as nobody is in the middle of one.
CountersAgree == Breaker!CountersAgree

\* Overlapping calls close the circuit only on enough successes since the trial
\* began, or when one of them was being recorded as it began.
ClosesOnEvidence == Breaker!ClosesOnEvidence

\* Calls that the circuit let through before it opened, and that answer while
\* it is open, do not close it or begin a trial before the timeout.
StaysOpen == Breaker!StaysOpen

\* A provider that has recovered is found to have: the circuit closes for good.
Recovers == provider = "well" ~> [](state = "closed")

\* It is found to have by callers who, from some time on, stay away while they
\* would be refused, and who do not for ever meet inside the breaker, whose
\* operations are short: there they can undo one another's counting.
PatientRecovers ==
    (/\ <>[][\A c \in Callers : Enter(c) => Welcome]_vars
     /\ <>[](\A c, d \in Callers : Back(c) \/ Back(d) \/ c = d)) => Recovers

=============================================================================
