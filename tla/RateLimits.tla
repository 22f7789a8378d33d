----------------------------- MODULE RateLimits -----------------------------
(***************************************************************************)
(* The rate limiter of src/web/middleware/rate_limit.py, in the memory of  *)
(* one web worker.  Every check of a client is counted in two logs that    *)
(* all endpoints share; each endpoint brings limits of its own.  A log     *)
(* holds the ages of its entries, the newest last; an age is counted up to *)
(* the first one that no longer matters.                                   *)
(***************************************************************************)
EXTENDS Naturals, Sequences, FiniteSets

CONSTANTS
    Clients, Endpoints, Rpm, Rph,  \* the limits of each endpoint
    Minute, Hour, EvictEvery,      \* 60, 3600 and 300 s, in ticks
    MaxTracked                     \* _MAX_TRACKED_CLIENTS

RateAssumption ==
    /\ Rpm \in [Endpoints -> Nat \ {0}] /\ Rph \in [Endpoints -> Nat \ {0}]
    /\ Minute \in Nat \ {0} /\ Hour \in Nat /\ Hour > Minute /\ EvictEvery \in Nat

VARIABLES
    minutes, hours,    \* _minute_log and _hour_log, by client
    tracked,           \* the clients in them
    evicted,           \* time since _last_eviction
    granted            \* what each client was allowed, in the last hour

vars == <<minutes, hours, tracked, evicted, granted>>

Init ==
    /\ minutes = [c \in Clients |-> <<>>] /\ hours = [c \in Clients |-> <<>>]
    /\ tracked = {} /\ evicted = 0 /\ granted = [c \in Clients |-> <<>>]

\* What is young enough is kept: as the oldest come first, the end of the log.
Old(log, span) == {i \in DOMAIN log : log[i] >= span}
Trim(log, span) == SubSeq(log, Cardinality(Old(log, span)) + 1, Len(log))

-----------------------------------------------------------------------------

\* _clean_old_entries; looking a client up makes an entry for it.
Cleaned(c) == [m |-> [minutes EXCEPT ![c] = Trim(@, Minute)],
               h |-> [hours EXCEPT ![c] = Trim(@, Hour)]]

Newest(log) == log[Len(log)]

\* A mutant: a client is stale when its minute is over.
StaleByMinute(h) == {c \in tracked : h[c] = <<>> \/ Newest(h[c]) >= Minute}

\* _evict_stale_clients, at most once in EvictEvery.
Stale(h) == {c \in tracked : h[c] = <<>> \/ Newest(h[c]) > Hour}
Evicts(c) == Cardinality(tracked \cup {c}) > MaxTracked /\ evicted >= EvictEvery

\* check_rate_limit for client c at endpoint e
Check(c, e) ==
    LET log == Cleaned(c)
        gone == IF Evicts(c) THEN Stale(log.h) ELSE {}
        m == [d \in Clients |-> IF d \in gone THEN <<>> ELSE log.m[d]]
        h == [d \in Clients |-> IF d \in gone THEN <<>> ELSE log.h[d]]
        ok == Len(m[c]) < Rpm[e] /\ Len(h[c]) < Rph[e] IN
    /\ tracked' = (tracked \ gone) \cup {c}
    /\ evicted' = IF Evicts(c) THEN 0 ELSE evicted
    /\ minutes' = IF ok THEN [m EXCEPT ![c] = Append(@, 0)] ELSE m
    /\ hours' = IF ok THEN [h EXCEPT ![c] = Append(@, 0)] ELSE h
    /\ granted' = IF ok THEN [granted EXCEPT ![c] = Append(@, [age |-> 0, at |-> e])]
                  ELSE granted

Older(age) == IF age > Hour THEN age ELSE age + 1
Ages(grants) == [i \in DOMAIN grants |-> grants[i].age]
Aged(grants) == [i \in DOMAIN grants |-> [grants[i] EXCEPT !.age = @ + 1]]
LastHour(grants) == SubSeq(grants, Cardinality(Old(Ages(grants), Hour)) + 1, Len(grants))

Tick ==
    /\ minutes' = [c \in Clients |-> [i \in DOMAIN minutes[c] |-> Older(minutes[c][i])]]
    /\ hours' = [c \in Clients |-> [i \in DOMAIN hours[c] |-> Older(hours[c][i])]]
    /\ granted' = [c \in Clients |-> LastHour(Aged(granted[c]))]
    /\ evicted' = IF evicted = EvictEvery THEN evicted ELSE evicted + 1
    /\ UNCHANGED tracked

Next == Tick \/ \E c \in Clients, e \in Endpoints : Check(c, e)

Spec == Init /\ [][Next]_vars

-----------------------------------------------------------------------------

\* The newest is last.
InOrder(log) == \A i, j \in DOMAIN log : i <= j => log[i] >= log[j]

TypeOK ==
    /\ \A c \in Clients : \A log \in {minutes[c], hours[c]} :
          InOrder(log) /\ \A i \in DOMAIN log : log[i] \in 0..(Hour + 1)
    /\ tracked \subseteq Clients /\ evicted \in 0..EvictEvery

Granted(grants, e, span) == {i \in DOMAIN grants : grants[i].at = e /\ grants[i].age < span}

\* No client is allowed more at an endpoint, in any minute or any hour, than the
\* limits of that endpoint, whenever its logs are trimmed or evicted.
WithinLimits ==
    \A c \in Clients, e \in Endpoints :
        /\ Cardinality(Granted(granted[c], e, Minute)) <= Rpm[e]
        /\ Cardinality(Granted(granted[c], e, Hour)) <= Rph[e]

=============================================================================
