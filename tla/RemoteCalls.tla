----------------------------- MODULE RemoteCalls -----------------------------
(***************************************************************************)
(* What a caller of an MCP server is promised: a request that was made is  *)
(* finished at most once, by the answer to that very request or by an      *)
(* error.                                                                  *)
(***************************************************************************)
CONSTANTS Requests, Error

VARIABLES pending, results

vars == <<pending, results>>

Init == pending = {} /\ results = {}

Outcome(id, value) == [request |-> id, value |-> value]
Finished == {r.request : r \in results}

Ask(id) ==
    /\ id \notin pending \cup Finished
    /\ pending' = pending \cup {id}
    /\ UNCHANGED results

\* The server's answer to a request carries its number.
Return(id, value) ==
    /\ id \in pending
    /\ pending' = pending \ {id}
    /\ results' = results \cup {Outcome(id, value)}

Next == \E id \in Requests : Ask(id) \/ Return(id, id) \/ Return(id, Error)

Spec == Init /\ [][Next]_vars

=============================================================================
