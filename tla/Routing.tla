------------------------------- MODULE Routing -------------------------------
(***************************************************************************)
(* Which models a request reaches (src/llm/router.py): the model its kind  *)
(* of task is assigned to, or a candidate that has what the task needs;    *)
(* then a fallback, then every model of the provider of last resort.  The  *)
(* parallel tasks of an engine share a router, and with it the errors in a *)
(* row that it remembers of each model.  Scores are left out: any          *)
(* candidate may be the best.  No caller names a model or a provider, and  *)
(* no estimate exceeds the default budget.                                 *)
(***************************************************************************)
EXTENDS Integers, Sequences, FiniteSets

CONSTANTS
    Requesters,    \* threads that share the router
    Catalog,       \* MODEL_CATALOG: a sequence of [key, provider, tier, caps]
    Kinds,         \* kinds of tasks: [needs, model, complexity], "none" if unassigned
    LastResort,    \* the provider of last resort
    Bench          \* errors in a row that bench a model

Keys == {Catalog[i].key : i \in DOMAIN Catalog}

RoutingAssumption ==
    /\ Catalog # <<>> /\ DOMAIN Catalog \subseteq Nat /\ "none" \notin Keys
    /\ \A i \in DOMAIN Catalog : Catalog[i].tier \in Nat
    /\ Bench \in Nat \ {0}

VARIABLES
    keyed,       \* the providers that have a client
    errors,      \* consecutive_errors of each model, up to Bench
    request      \* where each requester is

routing == <<keyed, errors, request>>
vars == routing

Place(key) == CHOOSE i \in DOMAIN Catalog : Catalog[i].key = key
Of(key) == Catalog[Place(key)]
HasClient(key) == Of(key).provider \in keyed
SameProvider(a, b) == Of(a).provider = Of(b).provider

\* "desperate": whether nothing qualified; "asked": the models that were called
New == [pc |-> "idle", model |-> "none", backup |-> "none", desperate |-> FALSE,
        asked |-> {}]

\* Any keys may be configured, that of the last resort or others.
Init ==
    /\ keyed \in SUBSET {Catalog[i].provider : i \in DOMAIN Catalog} \ {{}}
    /\ errors = [key \in Keys |-> 0]
    /\ request = [c \in Requesters |-> New]

-----------------------------------------------------------------------------

Tier == [i \in DOMAIN Catalog |-> Catalog[i].tier]
Distance(j) == [i \in DOMAIN Catalog |-> LET d == Tier[i] - Tier[j] IN IF d < 0 THEN -d ELSE d]

\* The first of those with the lowest rank: sorting is stable.
First(S, rank) ==
    CHOOSE i \in S : \A j \in S : rank[i] < rank[j] \/ (rank[i] = rank[j] /\ i <= j)

\* _find_fallback: the nearest tier of the same provider, or the best of another.
Fallback(key) ==
    LET Others == {i \in DOMAIN Catalog : i # Place(key) /\ HasClient(Catalog[i].key)}
        Near == {i \in Others : SameProvider(Catalog[i].key, key)}
    IN IF Near # {} THEN Catalog[First(Near, Distance(Place(key)))].key
       ELSE IF Others # {} THEN Catalog[First(Others, Tier)].key
       ELSE "none"

\* _filter_candidates
Candidates(task) ==
    {key \in Keys : /\ Of(key).tier <= task.complexity + 1
                    /\ task.needs \subseteq Of(key).caps
                    /\ errors[key] < Bench
                    /\ HasClient(key)}

\* The second of the scores: of the same provider if there is one
Seconds(key, S) ==
    LET Others == S \ {key}
        Near == {k \in Others : SameProvider(k, key)}
    IN IF Near # {} THEN Near ELSE IF Others # {} THEN Others ELSE {"none"}

Free(c) == request[c].pc \in {"idle", "raised", "unserved"}

\* route and get_client: without a client for the model, nothing is tried at all.
Decide(c, model, backup, desperate) ==
    request' = [request EXCEPT ![c] =
        [New EXCEPT !.pc = IF HasClient(model) THEN "primary" ELSE "unserved",
                    !.model = model, !.backup = backup, !.desperate = desperate]]

\* The model of the kind of task, if it is in the catalog, has a client and is not benched
Assigned(task) == task.model \in Keys /\ HasClient(task.model) /\ errors[task.model] < Bench

RouteAssigned(c, task) ==
    /\ Free(c) /\ Assigned(task)
    /\ Decide(c, task.model, Fallback(task.model), FALSE)
    /\ UNCHANGED <<keyed, errors>>

\* With no candidate left, the whole catalog is one.
RouteScored(c, task) ==
    LET found == Candidates(task)
        S == IF found = {} THEN Keys ELSE found
    IN /\ Free(c) /\ ~Assigned(task)
       /\ \E key \in S : \E second \in Seconds(key, S) : Decide(c, key, second, found = {})
       /\ UNCHANGED <<keyed, errors>>

\* _update_health
Worse(key) == errors' = [errors EXCEPT ![key] = IF @ < Bench THEN @ + 1 ELSE @]
Goto(c, label, key) ==
    request' = [request EXCEPT ![c].pc = label, ![c].asked = @ \cup {key}]
Done(c) == request' = [request EXCEPT ![c] = New]

PrimaryAnswers(c) ==
    LET r == request[c] IN
    /\ r.pc = "primary"
    /\ errors' = [errors EXCEPT ![r.model] = 0]
    /\ Done(c)
    /\ UNCHANGED keyed

\* An error, or a refusal by the guards of the provider; if the connection is lost,
\* another model of the provider is not tried, nor any other.
PrimaryFails(c) ==
    LET r == request[c]
        sibling == r.backup # "none" /\ SameProvider(r.backup, r.model)
    IN /\ r.pc = "primary"
       /\ Worse(r.model)
       /\ \/ sibling /\ Done(c)
          \/ Goto(c, IF r.backup = "none" THEN "last"
                     ELSE IF HasClient(r.backup) THEN "backup" ELSE "unserved", r.model)
       /\ UNCHANGED keyed

\* What a fallback answers is not remembered, ...
BackupAnswers(c) ==
    /\ request[c].pc = "backup"
    /\ Done(c)
    /\ UNCHANGED <<keyed, errors>>

BackupFails(c) ==
    /\ request[c].pc = "backup"
    /\ Worse(request[c].backup)
    /\ Goto(c, "last", request[c].backup)
    /\ UNCHANGED keyed

\* ... nor is anything of the last resort.
Resort(c) == {key \in Keys : Of(key).provider = LastResort /\ HasClient(key)}
                 \ {request[c].model, request[c].backup}

AskLast(c) ==
    LET left == Resort(c) \ request[c].asked IN
    /\ request[c].pc = "last"
    /\ IF left = {} THEN request' = [request EXCEPT ![c].pc = "raised"]
       ELSE LET key == CHOOSE k \in left : \A l \in left : Place(k) <= Place(l) IN
            Done(c) \/ Goto(c, "last", key)
    /\ UNCHANGED <<keyed, errors>>

Next ==
    \E c \in Requesters :
        \/ \E task \in Kinds : RouteAssigned(c, task) \/ RouteScored(c, task)
        \/ PrimaryAnswers(c) \/ PrimaryFails(c) \/ BackupAnswers(c) \/ BackupFails(c)
        \/ AskLast(c)

Spec == Init /\ [][Next]_vars

-----------------------------------------------------------------------------

TypeOK ==
    /\ errors \in [Keys -> 0..Bench]
    /\ \A c \in Requesters : request[c].asked \subseteq {key \in Keys : HasClient(key)}

\* A request is given up only when its model, its fallback and every model of last
\* resort have failed it; and for want of a client only if nothing qualified when
\* it was routed, so that a model without one was taken (router.py:234).
GivenUpLast ==
    \A c \in Requesters :
        LET r == request[c] IN
        /\ r.pc = "raised" =>
              {r.model, r.backup} \cup {k \in Keys : Of(k).provider = LastResort /\ HasClient(k)}
                  \subseteq r.asked \cup {"none"}
        /\ r.pc = "unserved" => r.desperate

\* A model that was benched is forgiven only for what it answers as a first choice,
\* to a request that chose it before or for which nothing else qualified: its
\* answers as a fallback do not bring it back (router.py:383).
BenchedStays ==
    [][\A key \in Keys : errors[key] = Bench =>
        /\ errors'[key] # Bench =>
              \E c \in Requesters : request[c].pc = "primary" /\ request[c].model = key
        /\ \A c \in Requesters :
              request[c].pc # "primary" /\ request'[c].pc = "primary"
                  /\ request'[c].model = key => request'[c].desperate]_vars

=============================================================================
