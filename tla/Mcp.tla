--------------------------------- MODULE Mcp ---------------------------------
(***************************************************************************)
(* One MCP server as the program sees it: MCPManager of                    *)
(* src/core/mcp/manager.py, which every web thread shares, and the clients *)
(* it makes (src/core/mcp/client.py), each with a transport that matches   *)
(* the answers its reader thread receives with the requests of the callers *)
(* that wait.  Requests are numbered (their ids are random), an answer is  *)
(* the number of its request.                                              *)
(***************************************************************************)
EXTENDS Naturals, Sequences, FiniteSets

CONSTANTS
    Callers,
    MaxClients,    \* bound: clients made
    MaxRequests,   \* bound: requests made
    Error

McpAssumption == MaxClients \in Nat /\ MaxRequests \in Nat /\ Error \notin 1..MaxRequests

VARIABLES
    kind,       \* the transport, "stdio" or "sse"
    clients,    \* the clients made: process or connection, events and responses
    current,    \* _clients[name], 0 if none
    mapped,     \* whether _tool_map has the server's tools
    at,         \* where each caller is, with which client and request
    number,     \* requests made so far
    asked,      \* requests that reached the server, with their client
    results,    \* how requests ended (for IsRemoteCalls)
    gaveUp      \* requests whose caller no longer collects an answer

vars == <<kind, clients, current, mapped, at, number, asked, results, gaveUp>>

Idle == [pc |-> "idle", client |-> 0, id |-> 0, method |-> "none"]
NewClient == [server |-> "up", running |-> TRUE, reading |-> TRUE, connected |-> FALSE,
              events |-> {}, responses |-> {}]

Init ==
    /\ kind \in {"stdio", "sse"}
    /\ clients = <<>> /\ current = 0 /\ mapped = FALSE
    /\ at = [c \in Callers |-> Idle]
    /\ number = 0 /\ asked = {} /\ results = {} /\ gaveUp = {}

\* is_alive: the process runs; of an event stream only that it was not stopped.
Alive(g) == IF kind = "stdio" THEN clients[g].server = "up" ELSE clients[g].running
Connected(g) == g # 0 /\ clients[g].connected /\ Alive(g)

Goto(c, where) == at' = [at EXCEPT ![c] = where]
Asking(g, method) == [pc |-> "ask", client |-> g, id |-> 0, method |-> method]

-----------------------------------------------------------------------------

\* connect_server: a new client, unless the one there is connected; start and
\* the request "initialize".
Connect(c) ==
    /\ at[c].pc = "idle" /\ ~Connected(current) /\ Len(clients) < MaxClients
    /\ clients' = Append(clients, NewClient)
    /\ Goto(c, Asking(Len(clients) + 1, "initialize"))
    /\ UNCHANGED <<kind, current, mapped, number, asked, results, gaveUp>>

\* MCPManager.call_tool: refused unless the tool is mapped and its server connected.
Call(c) ==
    /\ at[c].pc = "idle" /\ mapped /\ Connected(current)
    /\ Goto(c, Asking(current, "tools/call"))
    /\ UNCHANGED <<kind, clients, current, mapped, number, asked, results, gaveUp>>

End(id, value) == results' = results \cup {[request |-> id, value |-> value]}
Forget(g, id) == clients' = [clients EXCEPT ![g].events = @ \ {id}]

\* send: the event is registered, and the message written.
Send(c) ==
    LET g == at[c].client
        id == number + 1 IN
    /\ at[c].pc = "ask" /\ number < MaxRequests
    /\ number' = id
    /\ clients' = [clients EXCEPT ![g].events = @ \cup {id}]
    /\ Goto(c, [at[c] EXCEPT !.pc = "write", !.id = id])
    /\ UNCHANGED <<kind, current, mapped, asked, results, gaveUp>>

\* The message arrives, or the write raises: a pipe's error leaves the event, and
\* the post of a message may fail though it has arrived.
Write(c) ==
    LET g == at[c].client
        id == at[c].id IN
    /\ at[c].pc = "write"
    /\ \/ /\ clients[g].server = "up"
          /\ asked' = asked \cup {<<g, id>>}
          /\ Goto(c, [at[c] EXCEPT !.pc = "wait"])
          /\ UNCHANGED <<clients, results, gaveUp>>
       \/ /\ clients[g].server # "up" \/ kind = "sse"
          /\ IF kind = "sse" THEN Forget(g, id) ELSE UNCHANGED clients
          /\ \/ UNCHANGED asked
             \/ clients[g].server = "up" /\ asked' = asked \cup {<<g, id>>}
          /\ End(id, Error) /\ gaveUp' = gaveUp \cup {id}
          /\ Goto(c, Idle)
    /\ UNCHANGED <<kind, current, mapped, number>>

\* _read_loop and _sse_loop: the answer to a request is stored under its id; the
\* event, if it is still there, is set: see Receive.  Once stopped, the loop ends
\* with what it was reading.
Answer(g, id) ==
    /\ <<g, id>> \in asked /\ clients[g].server = "up" /\ clients[g].reading
    /\ asked' = asked \ {<<g, id>>}
    /\ clients' = [clients EXCEPT ![g].responses = @ \cup {id},
                                  ![g].reading = clients[g].running]
    /\ UNCHANGED <<kind, current, mapped, at, number, results, gaveUp>>

Answered(c) == at[c].id \in clients[at[c].client].responses

\* Where a caller goes on with the answer.
After(c) ==
    CASE at[c].method = "initialize" -> Asking(at[c].client, "tools/list")
      [] at[c].method = "tools/list" -> [at[c] EXCEPT !.pc = "register", !.id = 0]
      [] at[c].method = "tools/call" -> Idle

\* A mutant: the wait takes whatever answer is there.
ReceiveAny(c) ==
    LET g == at[c].client IN
    /\ at[c].pc = "wait"
    /\ \E id \in clients[g].responses :
          /\ clients' = [clients EXCEPT ![g].events = @ \ {at[c].id},
                ![g].responses = @ \ {id}, ![g].connected = @ \/ at[c].method = "initialize"]
          /\ End(at[c].id, id)
    /\ Goto(c, After(c))
    /\ UNCHANGED <<kind, current, mapped, number, asked, gaveUp>>

\* The wait ends by the event: the answer is taken out.
Receive(c) ==
    LET g == at[c].client
        id == at[c].id IN
    /\ at[c].pc = "wait" /\ Answered(c)
    /\ clients' = [clients EXCEPT
          ![g].events = @ \ {id}, ![g].responses = @ \ {id},
          ![g].connected = @ \/ at[c].method = "initialize"]
    /\ End(id, id)
    /\ Goto(c, After(c))
    /\ UNCHANGED <<kind, current, mapped, number, asked, gaveUp>>

\* A mutant: the wait has a timeout only while the server is there.
TimeoutIfUp(c) ==
    /\ at[c].pc = "wait" /\ ~Answered(c) /\ clients[at[c].client].server = "up"
    /\ Goto(c, [at[c] EXCEPT !.pc = "late"])
    /\ UNCHANGED <<kind, clients, current, mapped, number, asked, results, gaveUp>>

\* The wait ends after its timeout, an answer being in time for the event until
\* then; the client of a connect that failed is dropped, not disconnected.
Timeout(c) ==
    /\ at[c].pc = "wait" /\ ~Answered(c)
    /\ Goto(c, [at[c] EXCEPT !.pc = "late"])
    /\ UNCHANGED <<kind, clients, current, mapped, number, asked, results, gaveUp>>

GiveUp(c) ==
    /\ at[c].pc = "late"
    /\ Forget(at[c].client, at[c].id)
    /\ End(at[c].id, Error) /\ gaveUp' = gaveUp \cup {at[c].id}
    /\ Goto(c, Idle)
    /\ UNCHANGED <<kind, current, mapped, number, asked>>

\* The new client is entered, whatever was there; then its tools, unlocked.
Register(c) ==
    /\ at[c].pc = "register"
    /\ current' = at[c].client
    /\ Goto(c, [at[c] EXCEPT !.pc = "map"])
    /\ UNCHANGED <<kind, clients, mapped, number, asked, results, gaveUp>>

MapTools(c) ==
    /\ at[c].pc = "map"
    /\ mapped' = TRUE
    /\ Goto(c, Idle)
    /\ UNCHANGED <<kind, clients, current, number, asked, results, gaveUp>>

\* disconnect_server and disconnect_all: a process is ended, a stream only left;
\* waiting callers are not told.
Disconnect(c) ==
    /\ at[c].pc = "idle" /\ current # 0
    /\ current' = 0 /\ mapped' = FALSE
    /\ clients' = [clients EXCEPT ![current].connected = FALSE, ![current].running = FALSE,
                      ![current].server = IF kind = "stdio" THEN "down" ELSE @]
    /\ UNCHANGED <<kind, at, number, asked, results, gaveUp>>

\* The server dies: a pipe's reader ends, and an event stream's.
Die(g) ==
    /\ clients[g].server = "up"
    /\ clients' = [clients EXCEPT ![g].server = "down"]
    /\ UNCHANGED <<kind, current, mapped, at, number, asked, results, gaveUp>>

\* The reader ends on a line or a chunk that it cannot read.
StopReading(g) ==
    /\ clients[g].server = "up" /\ clients[g].reading
    /\ clients' = [clients EXCEPT ![g].reading = FALSE]
    /\ UNCHANGED <<kind, current, mapped, at, number, asked, results, gaveUp>>

\* What a caller does once it has begun.
GoOn(c) ==
    \/ Send(c) \/ Write(c) \/ Receive(c) \/ Timeout(c) \/ GiveUp(c)
    \/ Register(c) \/ MapTools(c)

Begin(c) == Connect(c) \/ Call(c) \/ Disconnect(c)

Next ==
    \/ \E c \in Callers : Begin(c) \/ GoOn(c)
    \/ \E g \in DOMAIN clients : Die(g) \/ StopReading(g)
    \/ \E g \in DOMAIN clients, id \in 1..number : Answer(g, id)

\* A thread that has begun goes on; nothing makes the server answer.
Fairness == \A c \in Callers : WF_vars(GoOn(c))

Spec == Init /\ [][Next]_vars /\ Fairness

-----------------------------------------------------------------------------

InFlight == {c \in Callers : at[c].pc \in {"write", "wait", "late"}}

TypeOK ==
    /\ \A g \in DOMAIN clients :
          /\ clients[g].server \in {"up", "down"}
          /\ clients[g].events \subseteq 1..number /\ clients[g].responses \subseteq 1..number
    /\ current \in 0..Len(clients) /\ mapped \in BOOLEAN
    /\ \A c \in Callers : at[c].client \in 0..Len(clients) /\ at[c].id \in 0..number
    /\ asked \subseteq (DOMAIN clients) \X (1..number)
    /\ gaveUp \subseteq 1..number

\* Timeouts, late answers, dead servers and reconnections included, each request
\* ends at most once, with its own answer or with an error (client.py:111).
Promise == INSTANCE RemoteCalls
    WITH Requests <- 1..MaxRequests, Error <- Error,
         pending <- {at[c].id : c \in InFlight}, results <- results

IsRemoteCalls == Promise!Spec

\* An answer that nobody collects, and an event that nobody waits for, belong to
\* a request whose caller gave up: nothing else is left behind (client.py:151).
OnlyLateAnswersStay ==
    \A g \in DOMAIN clients : \A id \in clients[g].events \cup clients[g].responses :
        id \in gaveUp \/ \E c \in InFlight : at[c].client = g /\ at[c].id = id

\* A call that waits comes to an end, whether its server answers or not, dies, is
\* disconnected by another caller or has nobody left reading what it says.
CallsEnd == \A c \in Callers : at[c].pc = "wait" ~> at[c].pc # "wait"

=============================================================================
