------------------------- MODULE ProviderGuardProofs -------------------------
(* What the circuit breaker promises the router although it has no lock,    *)
(* for any set of callers, thresholds and timeouts.  It is shown of the     *)
(* accesses of any threads in any order; the router's callers are such      *)
(* threads.                                                                 *)
EXTENDS ProviderGuard, TLAPS

-----------------------------------------------------------------------------
(* The router's callers are threads of the breaker.                         *)

\* A step of one caller is an access of its own to the breaker, or none.
LEMMA CallerStep ==
    ASSUME NEW c \in Callers, Enter(c) \/ Observe(c) \/ Step(c)
    PROVE  Breaker!Operate(c) \/ UNCHANGED breaker
<1>1. CASE Enter(c) \/ Fail(c) \/ Declare(c) \/ Fallback(c)
  BY <1>1 DEF Enter, Fail, Declare, Fallback
<1>2. CASE Observe(c) \/ Ask(c)
  BY <1>2 DEF Observe, Ask, Breaker!Operate
<1>3. CASE Hear(c)
  BY <1>3 DEF Hear, Breaker!Operate
<1>4. CASE Succeed(c) \/ Handle(c)
  BY <1>4 DEF Succeed, Handle, Breaker!Operate
<1>5. CASE Observed(c) \/ Inside(c)
  BY <1>5 DEF Observed, Inside, Breaker!Operate
<1> QED
  BY <1>1, <1>2, <1>3, <1>4, <1>5 DEF Step

\* So a step of the router is one of the breaker, or leaves it alone.
LEMMA GuardNext ==
    ASSUME [Next]_vars
    PROVE  [Breaker!Next]_breaker
<1>1. CASE UNCHANGED vars
  BY <1>1 DEF vars
<1>2. CASE TimePasses
  BY <1>2 DEF TimePasses, Breaker!Next
<1>3. CASE Heal
  BY <1>3 DEF Heal
<1>4. ASSUME NEW c \in Callers, Enter(c) \/ Observe(c) \/ Step(c)
      PROVE  [Breaker!Next]_breaker
  BY <1>4, CallerStep DEF Breaker!Next
<1> QED
  BY <1>1, <1>2, <1>3, <1>4 DEF Next

\* A behaviour of the router is, for its breaker, one of threads that use a breaker.
LEMMA BreakerBehaves == Spec => Breaker!Spec
<1>1. Init => Breaker!Init
  BY DEF Init
<1>2. [Next]_vars => [Breaker!Next]_(Breaker!breaker)
  BY GuardNext DEF breaker, Breaker!breaker, Breaker!fields
<1> QED
  BY <1>1, <1>2, PTL DEF Spec, Breaker!Spec

-----------------------------------------------------------------------------
(* Types.                                                                   *)

\* Every access keeps the breaker's fields and its threads' places in their ranges.
LEMMA TypesStep ==
    ASSUME NEW c \in Callers, Breaker!TypeOK, Breaker!Operate(c)
    PROVE  Breaker!TypeOK'
<1> USE GuardAssumption DEF Breaker!BreakerAssumption, Breaker!Goto, Breaker!Branch, Breaker!fields, Breaker!TypeOK, Breaker!CountTo, Breaker!Labels, Breaker!Asking, Breaker!Praising, Breaker!Counting, Breaker!Blaming
<1>1. CASE Breaker!ReadState(c)
  BY <1>1 DEF Breaker!ReadState
<1>2. CASE Breaker!StateRead(c)
  BY <1>2 DEF Breaker!StateRead
<1>3. CASE Breaker!OnTrial(c)
  BY <1>3 DEF Breaker!OnTrial
<1>4. ASSUME NEW answer \in BOOLEAN, Breaker!AllowRequest(c, answer) PROVE Breaker!TypeOK'
  BY <1>4 DEF Breaker!AllowRequest
<1>5. CASE Breaker!RecordSuccess(c)
  BY <1>5 DEF Breaker!RecordSuccess
<1>6. CASE Breaker!RecordFailure(c)
  BY <1>6 DEF Breaker!RecordFailure
<1>7. CASE Breaker!Compare(c)
  BY <1>7 DEF Breaker!Compare
<1>8. CASE Breaker!ToHalfOpen(c)
  BY <1>8 DEF Breaker!ToHalfOpen
<1>9. CASE Breaker!ClearTrial(c)
  BY <1>9 DEF Breaker!ClearTrial
<1>10. CASE Breaker!ToClosed(c)
  BY <1>10 DEF Breaker!ToClosed
<1>11. CASE Breaker!ClearFailures(c)
  BY <1>11 DEF Breaker!ClearFailures
<1>12. CASE Breaker!ToOpen(c)
  BY <1>12 DEF Breaker!ToOpen
<1>13. CASE Breaker!Forgive(c)
  BY <1>13 DEF Breaker!Forgive
<1>14. CASE Breaker!CountSuccess(c)
  BY <1>14 DEF Breaker!CountSuccess
<1>15. CASE Breaker!CountCall(c)
  BY <1>15 DEF Breaker!CountCall
<1>16. CASE Breaker!Blame(c)
  BY <1>16 DEF Breaker!Blame
<1>17. CASE Breaker!CountFailure(c)
  BY <1>17 DEF Breaker!CountFailure
<1>18. CASE Breaker!Enough(c)
  BY <1>18 DEF Breaker!Enough
<1> QED
  BY <1>1, <1>2, <1>3, <1>4, <1>5, <1>6, <1>7, <1>8, <1>9, <1>10, <1>11, <1>12, <1>13, <1>14, <1>15, <1>16, <1>17, <1>18 DEF Breaker!Operate, Breaker!Access

\* And so does every step.
LEMMA TypesNext ==
    ASSUME Breaker!TypeOK, [Breaker!Next]_breaker
    PROVE  Breaker!TypeOK'
<1>1. CASE UNCHANGED breaker
  BY <1>1 DEF breaker, Breaker!TypeOK
<1>2. CASE Breaker!TimePasses
  BY <1>2, GuardAssumption DEF Breaker!BreakerAssumption, Breaker!TimePasses, Breaker!TypeOK
<1>3. ASSUME NEW c \in Callers, Breaker!Operate(c) PROVE Breaker!TypeOK'
  BY <1>3, TypesStep
<1> QED
  BY <1>1, <1>2, <1>3 DEF Breaker!Next

-----------------------------------------------------------------------------
(* No transition is missed: a count that has reached its threshold has a    *)
(* thread that goes on to the transition, or one that clears it.            *)

\* Where a thread is that will see the failures, or has closed and clears them.
AtFailures(c) == at[c] \in {"f_enough", "open?", "open!", "forget"}

\* Where a thread is that will see the successes, or has begun a trial and
\* clears them.
AtSuccesses(c) ==
    at[c] \in {"c_load", "c_store", "s_enough", "close?", "close!", "calls", "successes"}

Minded ==
    /\ state = "closed" /\ ~(failures < FailureThreshold) => \E c \in Callers : AtFailures(c)
    /\ state = "half_open" /\ ~(successes < SuccessThreshold)
         => \E c \in Callers : AtSuccesses(c)

\* Whoever leaves such a place has made the transition or found it made.
LEMMA MindedStep ==
    ASSUME NEW c \in Callers, Breaker!TypeOK, Minded, Breaker!Operate(c)
    PROVE  Minded'
<1> USE GuardAssumption DEF Breaker!BreakerAssumption, Breaker!Goto, Breaker!Branch, Breaker!fields, Breaker!TypeOK, Breaker!CountTo, Minded, AtFailures, AtSuccesses
<1>1. CASE Breaker!ReadState(c)
  BY <1>1 DEF Breaker!ReadState
<1>2. CASE Breaker!StateRead(c)
  BY <1>2 DEF Breaker!StateRead
<1>3. CASE Breaker!OnTrial(c)
  BY <1>3 DEF Breaker!OnTrial
<1>4. ASSUME NEW answer \in BOOLEAN, Breaker!AllowRequest(c, answer) PROVE Minded'
  BY <1>4 DEF Breaker!AllowRequest
<1>5. CASE Breaker!RecordSuccess(c)
  BY <1>5 DEF Breaker!RecordSuccess
<1>6. CASE Breaker!RecordFailure(c)
  BY <1>6 DEF Breaker!RecordFailure
<1>7. CASE Breaker!Compare(c)
  BY <1>7 DEF Breaker!Compare
<1>8. CASE Breaker!ToHalfOpen(c)
  BY <1>8 DEF Breaker!ToHalfOpen
<1>9. CASE Breaker!ClearTrial(c)
  BY <1>9 DEF Breaker!ClearTrial
<1>10. CASE Breaker!ToClosed(c)
  BY <1>10 DEF Breaker!ToClosed
<1>11. CASE Breaker!ClearFailures(c)
  BY <1>11 DEF Breaker!ClearFailures
<1>12. CASE Breaker!ToOpen(c)
  BY <1>12 DEF Breaker!ToOpen
<1>13. CASE Breaker!Forgive(c)
  BY <1>13 DEF Breaker!Forgive
<1>14. CASE Breaker!CountSuccess(c)
  BY <1>14 DEF Breaker!CountSuccess
<1>15. CASE Breaker!CountCall(c)
  BY <1>15 DEF Breaker!CountCall
<1>16. CASE Breaker!Blame(c)
  BY <1>16 DEF Breaker!Blame
<1>17. CASE Breaker!CountFailure(c)
  BY <1>17 DEF Breaker!CountFailure
<1>18. CASE Breaker!Enough(c)
  BY <1>18 DEF Breaker!Enough
<1> QED
  BY <1>1, <1>2, <1>3, <1>4, <1>5, <1>6, <1>7, <1>8, <1>9, <1>10, <1>11, <1>12, <1>13, <1>14, <1>15, <1>16, <1>17, <1>18 DEF Breaker!Operate, Breaker!Access

\* Time passes when nobody is inside, and changes no count.
LEMMA MindedNext ==
    ASSUME Breaker!TypeOK, Minded, [Breaker!Next]_breaker
    PROVE  Minded'
<1>1. CASE UNCHANGED breaker
  BY <1>1 DEF breaker, Breaker!TypeOK, Minded, AtFailures, AtSuccesses
<1>2. CASE Breaker!TimePasses
  BY <1>2, GuardAssumption DEF Breaker!BreakerAssumption, Breaker!TimePasses, Breaker!TypeOK, Minded, AtFailures, AtSuccesses
<1>3. ASSUME NEW c \in Callers, Breaker!Operate(c) PROVE Minded'
  BY <1>3, MindedStep
<1> QED
  BY <1>1, <1>2, <1>3 DEF Breaker!Next

-----------------------------------------------------------------------------
(* Closing on evidence: a trial counts no more than was recorded since it   *)
(* began, unless a success was being recorded as it began.                  *)

Evident ==
    ~blurred =>
        /\ Breaker!Clearing => \A c \in Callers : ~Breaker!IsCounting(c)
        /\ ~Breaker!Clearing => successes <= evidence
        /\ \A c \in Callers :
              /\ at[c] = "s_store" => loaded[c] <= evidence
              /\ at[c] \in {"close?", "close!"} => evidence >= SuccessThreshold

\* Every access keeps a trial within its evidence.
LEMMA EvidentStep ==
    ASSUME NEW c \in Callers, Breaker!TypeOK, Evident, Breaker!Operate(c)
    PROVE  Evident'
<1> USE GuardAssumption DEF Breaker!BreakerAssumption, Breaker!Goto, Breaker!Branch, Breaker!fields, Breaker!TypeOK, Breaker!CountTo, Evident, Breaker!Clearing, Breaker!IsCounting, Breaker!Counting
<1>1. CASE Breaker!ReadState(c)
  BY <1>1 DEF Breaker!ReadState
<1>2. CASE Breaker!StateRead(c)
  BY <1>2 DEF Breaker!StateRead
<1>3. CASE Breaker!OnTrial(c)
  BY <1>3 DEF Breaker!OnTrial
<1>4. ASSUME NEW answer \in BOOLEAN, Breaker!AllowRequest(c, answer) PROVE Evident'
  BY <1>4 DEF Breaker!AllowRequest
<1>5. CASE Breaker!RecordSuccess(c)
  BY <1>5 DEF Breaker!RecordSuccess
<1>6. CASE Breaker!RecordFailure(c)
  BY <1>6 DEF Breaker!RecordFailure
<1>7. CASE Breaker!Compare(c)
  BY <1>7 DEF Breaker!Compare
<1>8. CASE Breaker!ToHalfOpen(c)
  BY <1>8 DEF Breaker!ToHalfOpen
<1>9. CASE Breaker!ClearTrial(c)
  BY <1>9 DEF Breaker!ClearTrial
<1>10. CASE Breaker!ToClosed(c)
  BY <1>10 DEF Breaker!ToClosed
<1>11. CASE Breaker!ClearFailures(c)
  BY <1>11 DEF Breaker!ClearFailures
<1>12. CASE Breaker!ToOpen(c)
  BY <1>12 DEF Breaker!ToOpen
<1>13. CASE Breaker!Forgive(c)
  BY <1>13 DEF Breaker!Forgive
<1>14. CASE Breaker!CountSuccess(c)
  BY <1>14 DEF Breaker!CountSuccess
<1>15. CASE Breaker!CountCall(c)
  BY <1>15 DEF Breaker!CountCall
<1>16. CASE Breaker!Blame(c)
  BY <1>16 DEF Breaker!Blame
<1>17. CASE Breaker!CountFailure(c)
  BY <1>17 DEF Breaker!CountFailure
<1>18. CASE Breaker!Enough(c)
  BY <1>18 DEF Breaker!Enough
<1> QED
  BY <1>1, <1>2, <1>3, <1>4, <1>5, <1>6, <1>7, <1>8, <1>9, <1>10, <1>11, <1>12, <1>13, <1>14, <1>15, <1>16, <1>17, <1>18 DEF Breaker!Operate, Breaker!Access

\* Time changes no count and no evidence.
LEMMA EvidentNext ==
    ASSUME Breaker!TypeOK, Evident, [Breaker!Next]_breaker
    PROVE  Evident'
<1>1. CASE UNCHANGED breaker
  BY <1>1 DEF breaker, Breaker!TypeOK, Evident, Breaker!Clearing, Breaker!IsCounting
<1>2. CASE Breaker!TimePasses
  BY <1>2, GuardAssumption DEF Breaker!BreakerAssumption, Breaker!TimePasses, Breaker!TypeOK, Evident, Breaker!Clearing, Breaker!IsCounting
<1>3. ASSUME NEW c \in Callers, Breaker!Operate(c) PROVE Evident'
  BY <1>3, EvidentStep
<1> QED
  BY <1>1, <1>2, <1>3 DEF Breaker!Next

-----------------------------------------------------------------------------
(* Staying open: in the time that has passed since a failure every thread   *)
(* has begun its operation anew, and saw an open circuit.                   *)

Shut ==
    /\ \A c \in Callers : at[c] \in Breaker!Blaming => waited = 0
    /\ state = "open" /\ 0 < waited /\ waited < Timeout
         => \A c \in Callers : at[c] \in {"out", "return", "s_closed"}

\* No access leads an open circuit elsewhere before the timeout.
LEMMA ShutStep ==
    ASSUME NEW c \in Callers, Breaker!TypeOK, Shut, Breaker!Operate(c)
    PROVE  Shut'
<1> USE GuardAssumption DEF Breaker!BreakerAssumption, Breaker!Goto, Breaker!Branch, Breaker!fields, Breaker!TypeOK, Shut, Breaker!Blaming
<1>1. CASE Breaker!ReadState(c)
  BY <1>1 DEF Breaker!ReadState
<1>2. CASE Breaker!StateRead(c)
  BY <1>2 DEF Breaker!StateRead
<1>3. CASE Breaker!OnTrial(c)
  BY <1>3 DEF Breaker!OnTrial
<1>4. ASSUME NEW answer \in BOOLEAN, Breaker!AllowRequest(c, answer) PROVE Shut'
  BY <1>4 DEF Breaker!AllowRequest
<1>5. CASE Breaker!RecordSuccess(c)
  BY <1>5 DEF Breaker!RecordSuccess
<1>6. CASE Breaker!RecordFailure(c)
  BY <1>6 DEF Breaker!RecordFailure
<1>7. CASE Breaker!Compare(c)
  BY <1>7 DEF Breaker!Compare
<1>8. CASE Breaker!ToHalfOpen(c)
  BY <1>8 DEF Breaker!ToHalfOpen
<1>9. CASE Breaker!ClearTrial(c)
  BY <1>9 DEF Breaker!ClearTrial
<1>10. CASE Breaker!ToClosed(c)
  BY <1>10 DEF Breaker!ToClosed
<1>11. CASE Breaker!ClearFailures(c)
  BY <1>11 DEF Breaker!ClearFailures
<1>12. CASE Breaker!ToOpen(c)
  BY <1>12 DEF Breaker!ToOpen
<1>13. CASE Breaker!Forgive(c)
  BY <1>13 DEF Breaker!Forgive
<1>14. CASE Breaker!CountSuccess(c)
  BY <1>14 DEF Breaker!CountSuccess
<1>15. CASE Breaker!CountCall(c)
  BY <1>15 DEF Breaker!CountCall
<1>16. CASE Breaker!Blame(c)
  BY <1>16 DEF Breaker!Blame
<1>17. CASE Breaker!CountFailure(c)
  BY <1>17 DEF Breaker!CountFailure
<1>18. CASE Breaker!Enough(c)
  BY <1>18 DEF Breaker!Enough
<1> QED
  BY <1>1, <1>2, <1>3, <1>4, <1>5, <1>6, <1>7, <1>8, <1>9, <1>10, <1>11, <1>12, <1>13, <1>14, <1>15, <1>16, <1>17, <1>18 DEF Breaker!Operate, Breaker!Access

\* Time passes when nobody is inside: who comes back begins anew.
LEMMA ShutNext ==
    ASSUME Breaker!TypeOK, Shut, [Breaker!Next]_breaker
    PROVE  Shut'
<1>1. CASE UNCHANGED breaker
  BY <1>1 DEF breaker, Breaker!TypeOK, Shut, Breaker!Blaming
<1>2. CASE Breaker!TimePasses
  BY <1>2, GuardAssumption DEF Breaker!BreakerAssumption, Breaker!TimePasses, Breaker!TypeOK, Shut, Breaker!Blaming
<1>3. ASSUME NEW c \in Callers, Breaker!Operate(c) PROVE Shut'
  BY <1>3, ShutStep
<1> QED
  BY <1>1, <1>2, <1>3 DEF Breaker!Next

-----------------------------------------------------------------------------
(* The inductive invariant of the breaker, and the theorems.                *)

BreakerInv == Breaker!TypeOK /\ Minded /\ Evident /\ Shut

\* A new breaker is closed, counts nothing and has nobody inside.
LEMMA InvInit == Breaker!Init => BreakerInv
<1> SUFFICES ASSUME Breaker!Init PROVE BreakerInv
  OBVIOUS
<1> USE GuardAssumption DEF Breaker!BreakerAssumption, Breaker!Init
<1>1. Breaker!TypeOK
  <2>1. "out" \in Breaker!Labels
    BY DEF Breaker!Labels
  <2>2. at \in [Callers -> Breaker!Labels] /\ loaded \in [Callers -> Nat]
    BY <2>1
  <2>3. failures \in 0..FailureThreshold /\ successes \in 0..SuccessThreshold
        /\ halfCalls \in 0..HalfOpenMax /\ waited \in 0..Timeout /\ evidence \in 0..SuccessThreshold
    OBVIOUS
  <2> QED
    BY <2>2, <2>3 DEF Breaker!TypeOK
<1>2. Minded
  BY DEF Minded
<1>3. Evident
  BY DEF Evident, Breaker!Clearing, Breaker!IsCounting, Breaker!Counting
<1>4. Shut
  BY DEF Shut, Breaker!Blaming
<1> QED
  BY <1>1, <1>2, <1>3, <1>4 DEF BreakerInv

\* The breaker keeps its invariant under the router's callers.
LEMMA InvAlways == Spec => []BreakerInv
<1>1. BreakerInv /\ [Breaker!Next]_(Breaker!breaker) => BreakerInv'
  BY TypesNext, MindedNext, EvidentNext, ShutNext
     DEF BreakerInv, breaker, Breaker!breaker, Breaker!fields
<1> QED
  BY <1>1, InvInit, BreakerBehaves, PTL DEF Breaker!Spec

\* Whatever accesses of several callers fall between one another, a count that
\* has reached its threshold has opened or closed the circuit as soon as
\* nobody is inside the breaker.
THEOREM CountersAlwaysAgree == Spec => []CountersAgree
<1>1. BreakerInv => CountersAgree
  BY DEF BreakerInv, Minded, AtFailures, AtSuccesses, CountersAgree, Breaker!CountersAgree
<1> QED
  BY <1>1, InvAlways, PTL

\* A step that closes the circuit is the assignment in _transition_to, whose
\* thread has seen enough successes.
LEMMA ClosingStep ==
    ASSUME BreakerInv, [Breaker!Next]_breaker, state # "closed", state' = "closed"
    PROVE  evidence >= SuccessThreshold \/ blurred
<1>1. CASE UNCHANGED breaker
  BY <1>1 DEF breaker
<1>2. CASE Breaker!TimePasses
  BY <1>2 DEF Breaker!TimePasses
<1>3. ASSUME NEW c \in Callers, Breaker!Operate(c) PROVE evidence >= SuccessThreshold \/ blurred
  <2>1. CASE Breaker!ToClosed(c)
    BY <2>1 DEF Breaker!ToClosed, BreakerInv, Evident
  <2>2. CASE Breaker!ToHalfOpen(c) \/ Breaker!ToOpen(c)
    BY <2>2 DEF Breaker!ToHalfOpen, Breaker!ToOpen
  <2>3. CASE ~(Breaker!ToClosed(c) \/ Breaker!ToHalfOpen(c) \/ Breaker!ToOpen(c))
    BY <1>3, <2>3
       DEF Breaker!Operate, Breaker!Access, Breaker!fields, Breaker!ReadState, Breaker!StateRead,
           Breaker!OnTrial, Breaker!AllowRequest, Breaker!RecordSuccess, Breaker!RecordFailure,
           Breaker!Compare, Breaker!ClearTrial, Breaker!ClearFailures, Breaker!Forgive,
           Breaker!CountSuccess, Breaker!CountCall, Breaker!Blame, Breaker!CountFailure,
           Breaker!Enough
  <2> QED
    BY <2>1, <2>2, <2>3
<1> QED
  BY <1>1, <1>2, <1>3 DEF Breaker!Next

\* The circuit closes only on success_threshold successes recorded since the
\* trial began, however the calls they belong to overlap, or when one of them
\* was being recorded as it began.
THEOREM ClosesOnlyOnEvidence == Spec => ClosesOnEvidence
<1>1. BreakerInv /\ [Breaker!Next]_(Breaker!breaker)
        => [state # "closed" /\ state' = "closed"
              => evidence >= SuccessThreshold \/ blurred]_(Breaker!breaker)
  BY ClosingStep DEF breaker, Breaker!breaker, Breaker!fields
<1> QED
  BY <1>1, InvAlways, BreakerBehaves, PTL DEF Breaker!Spec, ClosesOnEvidence, Breaker!ClosesOnEvidence

\* In the time between a failure and the timeout nobody inside the breaker is
\* where the state is assigned.
LEMMA OpenStep ==
    ASSUME BreakerInv, [Breaker!Next]_breaker, state = "open", 0 < waited, waited < Timeout
    PROVE  state' = "open"
<1>1. CASE UNCHANGED breaker
  BY <1>1 DEF breaker
<1>2. CASE Breaker!TimePasses
  BY <1>2 DEF Breaker!TimePasses
<1>3. ASSUME NEW c \in Callers, Breaker!Operate(c) PROVE state' = "open"
  <2>1. at[c] \in {"out", "return", "s_closed"}
    BY DEF BreakerInv, Shut
  <2>2. ~(Breaker!ToClosed(c) \/ Breaker!ToHalfOpen(c) \/ Breaker!ToOpen(c))
    BY <2>1 DEF Breaker!ToClosed, Breaker!ToHalfOpen, Breaker!ToOpen
  <2> QED
    BY <1>3, <2>2
       DEF Breaker!Operate, Breaker!Access, Breaker!fields, Breaker!ReadState, Breaker!StateRead,
           Breaker!OnTrial, Breaker!AllowRequest, Breaker!RecordSuccess, Breaker!RecordFailure,
           Breaker!Compare, Breaker!ClearTrial, Breaker!ClearFailures, Breaker!Forgive,
           Breaker!CountSuccess, Breaker!CountCall, Breaker!Blame, Breaker!CountFailure,
           Breaker!Enough
<1> QED
  BY <1>1, <1>2, <1>3 DEF Breaker!Next

\* An open circuit stays open until the timeout, whatever calls that it let
\* through before are answered in the meantime.
THEOREM OpenStaysOpen == Spec => StaysOpen
<1>1. BreakerInv /\ [Breaker!Next]_(Breaker!breaker)
        => [state = "open" /\ 0 < waited /\ waited < Timeout => state' = "open"]_(Breaker!breaker)
  BY OpenStep DEF breaker, Breaker!breaker, Breaker!fields
<1> QED
  BY <1>1, InvAlways, BreakerBehaves, PTL DEF Breaker!Spec, StaysOpen, Breaker!StaysOpen

\* Every variable has its type: the breaker's by its own accesses, the callers'
\* by the steps they take.
THEOREM TypeCorrect == Spec => []TypeOK
<1> DEFINE Places == {"idle", "ask", "asking", "call", "connection_error", "error",
                      "refused", "declare", "fallback", "observe"}
           Own == outage \in 0..Outage /\ provider \in {"sick", "well"}
                  /\ pc \in [Callers -> Places]
<1>1. Init => Own
  BY GuardAssumption DEF Init
<1>2. Own /\ [Next]_vars => Own'
  <2> SUFFICES ASSUME Own, [Next]_vars PROVE Own'
    OBVIOUS
  <2>1. CASE UNCHANGED vars
    BY <2>1 DEF vars
  <2>2. CASE TimePasses
    BY <2>2, GuardAssumption DEF TimePasses
  <2>3. CASE Heal
    BY <2>3 DEF Heal
  <2>4. ASSUME NEW c \in Callers, Enter(c) \/ Observe(c) \/ Step(c)
        PROVE  Own'
    <3>1. outage' \in 0..Outage /\ provider' = provider
      <4>1. Outage \in 0..Outage
        BY GuardAssumption
      <4> QED
        BY <2>4, <4>1
           DEF Enter, Observe, Step, Ask, Hear, Succeed, Fail, Handle, Declare, Fallback,
               Observed, Inside
    <3>2. UNCHANGED pc \/ \E label \in Places : Goto(c, label)
      BY <2>4
         DEF Enter, Observe, Step, Ask, Hear, Succeed, Fail, Handle, Declare, Fallback,
             Observed, Inside
    <3>3. pc' \in [Callers -> Places]
      BY <3>2 DEF Goto
    <3> QED  BY <3>1, <3>3
  <2> QED  BY <2>1, <2>2, <2>3, <2>4 DEF Next
<1>3. BreakerInv /\ Own => TypeOK
  BY DEF BreakerInv, TypeOK
<1> QED
  BY <1>1, <1>2, <1>3, InvAlways, PTL DEF Spec

=============================================================================
