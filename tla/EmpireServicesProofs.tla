------------------------ MODULE EmpireServicesProofs ------------------------
(***************************************************************************)
(* Proofs about what the empire does with the world outside.  The parts    *)
(* share no variable, so each has an inductive invariant of its own, kept  *)
(* by its own actions; the theorems of EmpireServices put them together.   *)
(***************************************************************************)
EXTENDS EmpireServices, FiniteSetTheorems, SequenceTheorems, WellFoundedInduction, TLAPS

-----------------------------------------------------------------------------
(* Calls of an MCP server.                                                  *)

Methods == {"initialize", "tools/list", "tools/call"}
Flying  == {"write", "wait", "late"}

Places ==
    [pc : {"idle", "ask", "register", "map"} \cup Flying, client : Nat, id : Nat,
     method : Methods \cup {"none"}]

ServerClients ==
    [server : {"up", "down"}, running : BOOLEAN, reading : BOOLEAN, connected : BOOLEAN,
     events : SUBSET Nat, responses : SUBSET Nat]

\* A caller that has begun has a client, and a method while it asks.
CallersTyped ==
    /\ kind \in {"stdio", "sse"} /\ mapped \in BOOLEAN
    /\ clients \in Seq(ServerClients)
    /\ number \in Nat /\ current \in 0..Len(clients)
    /\ at \in [Callers -> Places]
    /\ \A c \in Callers :
          /\ at[c].pc \in {"ask"} \cup Flying => at[c].method \in Methods
          /\ at[c].pc # "idle" => at[c].client \in 1..Len(clients)
          /\ at[c].pc = "idle" => at[c].client = 0

\* Only what was requested is known anywhere.
Numbered ==
    /\ \A g \in 1..Len(clients) :
          clients[g].events \subseteq 1..number /\ clients[g].responses \subseteq 1..number
    /\ asked \subseteq (1..Len(clients)) \X (1..number)
    /\ gaveUp \subseteq 1..number
    /\ \A c \in Callers : at[c].id \in 0..number
    /\ \A r \in results : r.request \in 1..number

\* A request that is not over has one caller, and it has not ended yet.
Requested ==
    /\ \A c \in Callers : at[c].pc \in Flying => at[c].id \in 1..number
    /\ \A c, d \in Callers :
          at[c].pc \in Flying /\ at[d].pc \in Flying /\ at[c].id = at[d].id => c = d
    /\ \A r \in results, c \in Callers : at[c].pc \in Flying => at[c].id # r.request

\* A request is in one place only: with its caller, at the server, or answered.
InOnePlace ==
    /\ \A g \in 1..Len(clients), id \in Nat :
          <<g, id>> \in asked => id \notin clients[g].responses
    /\ \A c \in Callers : at[c].pc = "write" =>
          \A g \in 1..Len(clients) : <<g, at[c].id>> \notin asked
                                     /\ at[c].id \notin clients[g].responses

\* Whose request an event, an answer or a message at the server is.
Cared(g, id) ==
    id \in gaveUp \/ \E c \in Callers : at[c].pc \in Flying /\ at[c].client = g /\ at[c].id = id

OthersGaveUp ==
    \A g \in 1..Len(clients), id \in Nat :
        id \in clients[g].events \cup clients[g].responses \/ <<g, id>> \in asked => Cared(g, id)

McpInv == CallersTyped /\ Numbered /\ Requested /\ InOnePlace /\ OthersGaveUp

\* A part of the services moves by its own steps, or rests.
LEMMA McpMoves == [Next]_vars => [Mcps!Next]_(Mcps!vars)
BY DEF Next, Rest, vars, mcp, Mcps!vars

\* A caller that goes from one place to another leaves the others where they are.
LEMMA OneGoes ==
    ASSUME CallersTyped, NEW c \in Callers, NEW p \in Places, Mcps!Goto(c, p)
    PROVE  /\ at' \in [Callers -> Places]
           /\ at'[c] = p
           /\ \A d \in Callers : d # c => at'[d] = at[d]
BY DEF CallersTyped, Mcps!Goto

\* A client that changes leaves the others as they are.
LEMMA OneChanges ==
    ASSUME CallersTyped, NEW g \in 1..Len(clients), NEW r \in ServerClients,
           clients' = [clients EXCEPT ![g] = r]
    PROVE  /\ clients' \in Seq(ServerClients) /\ Len(clients') = Len(clients)
           /\ clients'[g] = r
           /\ \A h \in 1..Len(clients) : h # g => clients'[h] = clients[h]
<1>1. clients \in Seq(ServerClients)
  BY DEF CallersTyped
<1>2. QED
  BY <1>1, ExceptSeq

\* A client that is made leaves those there are as they are.
LEMMA OneIsMade ==
    ASSUME CallersTyped, clients' = Append(clients, Mcps!NewClient)
    PROVE  /\ clients' \in Seq(ServerClients) /\ Len(clients') = Len(clients) + 1
           /\ Len(clients) \in Nat
           /\ clients'[Len(clients) + 1] = Mcps!NewClient
           /\ \A h \in 1..Len(clients) : clients'[h] = clients[h]
<1>1. clients \in Seq(ServerClients) /\ Mcps!NewClient \in ServerClients
  BY DEF CallersTyped, ServerClients, Mcps!NewClient
<1>2. QED
  BY <1>1, AppendProperties, LenProperties

\* The callers and clients stay typed when a caller moves to a place of its own.
LEMMA TypedOn ==
    ASSUME CallersTyped, NEW c \in Callers, NEW p \in Places, Mcps!Goto(c, p),
           clients' \in Seq(ServerClients), Len(clients') \in Nat, Len(clients) \in Nat,
           Len(clients') >= Len(clients),
           p.pc \in {"ask"} \cup Flying => p.method \in Methods,
           p.pc # "idle" => p.client \in 1..Len(clients'),
           p.pc = "idle" => p.client = 0,
           number' \in Nat, current' \in 0..Len(clients'), mapped' \in BOOLEAN, kind' = kind
    PROVE  CallersTyped'
<1>1. /\ at' \in [Callers -> Places] /\ at'[c] = p
      /\ \A d \in Callers : d # c => at'[d] = at[d]
  BY OneGoes
<1>2. \A d \in Callers : at'[d].pc # "idle" => at'[d].client \in 1..Len(clients')
  BY <1>1 DEF CallersTyped
<1>3. QED
  BY <1>1, <1>2 DEF CallersTyped

\* No request begins.
LEMMA RequestedOn ==
    ASSUME Requested, number \in Nat, number' = number,
           \A d \in Callers : at'[d].pc \in Flying => at[d].pc \in Flying /\ at'[d].id = at[d].id,
           \A r \in results' : r \in results
                \/ \A d \in Callers : at'[d].pc \in Flying => at'[d].id # r.request
    PROVE  Requested'
BY DEF Requested

\* What was cared for is cared for, or is gone.
LEMMA CaredOn ==
    ASSUME OthersGaveUp, gaveUp \subseteq gaveUp', Len(clients') \in Nat,
           NEW G, G = 1..Len(clients),
           \A h \in 1..Len(clients'), i \in Nat :
              i \in clients'[h].events \cup clients'[h].responses \/ <<h, i>> \in asked'
              => \/ h \in G /\ (i \in clients[h].events \cup clients[h].responses \/ <<h, i>> \in asked)
                           /\ \A d \in Callers : at[d].pc \in Flying /\ at[d].client = h /\ at[d].id = i
                                  => at'[d] = at[d] \/ i \in gaveUp'
                                     \/ (at'[d].pc \in Flying /\ at'[d].client = h /\ at'[d].id = i)
                 \/ \E d \in Callers : at'[d].pc \in Flying /\ at'[d].client = h /\ at'[d].id = i
    PROVE  OthersGaveUp'
<1>1. SUFFICES ASSUME NEW h \in 1..Len(clients'), NEW i \in Nat,
                      i \in clients'[h].events \cup clients'[h].responses \/ <<h, i>> \in asked'
               PROVE  Cared(h, i)'
  BY DEF OthersGaveUp
<1>2. CASE \E d \in Callers : at'[d].pc \in Flying /\ at'[d].client = h /\ at'[d].id = i
  BY <1>2 DEF Cared
<1>3. CASE /\ h \in G /\ (i \in clients[h].events \cup clients[h].responses \/ <<h, i>> \in asked)
           /\ \A d \in Callers : at[d].pc \in Flying /\ at[d].client = h /\ at[d].id = i
                  => at'[d] = at[d] \/ i \in gaveUp'
                     \/ (at'[d].pc \in Flying /\ at'[d].client = h /\ at'[d].id = i)
  <2>1. Cared(h, i)
    BY <1>3 DEF OthersGaveUp
  <2>2. QED
    BY <1>3, <2>1 DEF Cared
<1>4. QED
  BY <1>1, <1>2, <1>3

\* A request is made.
LEMMA SendKeeps == ASSUME McpInv, NEW c \in Callers, Mcps!Send(c) PROVE McpInv'
<1>a. PICK g, n : g = at[c].client /\ n = number + 1
  OBVIOUS
<1> DEFINE p == [at[c] EXCEPT !.pc = "write", !.id = n]
           r == [clients[g] EXCEPT !.events = @ \cup {n}]
<1>0. CallersTyped /\ Numbered /\ Requested /\ InOnePlace /\ OthersGaveUp
  BY DEF McpInv
<1>1. /\ at[c] \in Places /\ at[c].pc = "ask" /\ at[c].method \in Methods
      /\ g \in 1..Len(clients) /\ number \in Nat /\ Len(clients) \in Nat
      /\ clients[g] \in ServerClients /\ clients \in Seq(ServerClients)
  BY <1>0, <1>a, LenProperties DEF CallersTyped, Mcps!Send
<1>2. /\ r \in ServerClients /\ r.events = clients[g].events \cup {n}
      /\ r.responses = clients[g].responses
  BY <1>1, <1>a DEF ServerClients
<1>3. p \in Places /\ p.pc = "write" /\ p.client = g /\ p.id = n /\ p.method = at[c].method
  <2>1. n \in Nat
    BY <1>1, <1>a
  <2>2. QED
    BY Zenon, <1>1, <1>a, <2>1 DEF Places, Flying
<1>4. /\ at' \in [Callers -> Places] /\ at'[c] = p
      /\ \A d \in Callers : d # c => at'[d] = at[d]
  BY <1>0, <1>3, <1>a, OneGoes DEF Mcps!Send
<1>5. /\ clients' \in Seq(ServerClients) /\ Len(clients') = Len(clients) /\ clients'[g] = r
      /\ \A h \in 1..Len(clients) : h # g => clients'[h] = clients[h]
  BY Zenon, <1>1, <1>2, <1>0, <1>a, OneChanges DEF Mcps!Send
<1>6. number' = n /\ UNCHANGED <<kind, current, mapped, asked, results, gaveUp>>
  BY <1>a DEF Mcps!Send
<1>13. n \in Nat /\ n \in 1..n /\ n \notin 1..number /\ 1..number \subseteq 1..n /\ 0..number \subseteq 0..n /\ n \in 0..n
  BY <1>a, <1>1
<1> HIDE DEF p, r
<1>7. CallersTyped'
  BY <1>0, <1>1, <1>3, <1>4, <1>5, <1>6, <1>13 DEF CallersTyped, Flying
<1>8. Numbered'
  <2>1. ASSUME NEW h \in 1..Len(clients)
        PROVE  clients'[h].events \subseteq 1..n /\ clients'[h].responses \subseteq 1..n
    BY <1>0, <1>2, <1>5, <1>13 DEF Numbered
  <2>2. asked' \subseteq (1..Len(clients')) \X (1..n) /\ gaveUp' \subseteq 1..n
    BY <1>0, <1>5, <1>6, <1>13 DEF Numbered
  <2>3. QED
    BY Zenon, <1>0, <2>1, <2>2, <1>3, <1>4, <1>5, <1>6, <1>13 DEF Numbered
<1>9. Requested'
  <2>1. \A d \in Callers : d # c /\ at'[d].pc \in Flying => at'[d].id \in 1..number
    BY <1>0, <1>4 DEF Requested
  <2>2. QED
    BY <2>1, <1>0, <1>3, <1>4, <1>6, <1>13 DEF Requested, Numbered
<1>10. InOnePlace'
  <2>1. \A h \in 1..Len(clients) : clients'[h].responses = clients[h].responses
    BY <1>2, <1>5
  <2>2. \A h \in 1..Len(clients) : <<h, n>> \notin asked /\ n \notin clients[h].responses
    BY <1>0, <1>13 DEF Numbered
  <2>3. QED
    BY Zenon, <2>1, <2>2, <1>0, <1>3, <1>4, <1>5, <1>6 DEF InOnePlace
<1>11. OthersGaveUp'
  <2>1. ASSUME NEW h \in 1..Len(clients), NEW i \in Nat, Cared(h, i) PROVE Cared(h, i)'
    <3>1. CASE i \in gaveUp
      BY <3>1, <1>6 DEF Cared
    <3>2. ASSUME NEW d \in Callers, at[d].pc \in Flying, at[d].client = h, at[d].id = i
          PROVE  Cared(h, i)'
      <4>1. d # c
        BY <3>2, <1>1 DEF Flying
      <4>2. QED
        BY <3>2, <4>1, <1>4 DEF Cared
    <3>3. QED
      BY <2>1, <3>1, <3>2 DEF Cared
  <2>2. Cared(g, n)'
    BY <1>3, <1>4 DEF Cared, Flying
  <2>3. ASSUME NEW h \in 1..Len(clients), NEW i \in Nat,
               i \in clients'[h].events \cup clients'[h].responses \/ <<h, i>> \in asked'
        PROVE  Cared(h, i)'
    <3>1. CASE h = g /\ i = n
      BY <3>1, <2>2
    <3>2. CASE ~(h = g /\ i = n)
      <4>1. i \in clients[h].events \cup clients[h].responses \/ <<h, i>> \in asked
        <5>1. CASE h = g
          BY <5>1, <2>3, <3>2, <1>2, <1>5, <1>6
        <5>2. CASE h # g
          BY <5>2, <2>3, <1>5, <1>6
        <5>3. QED
          BY <5>1, <5>2
      <4>2. Cared(h, i)
        BY <4>1, <1>0 DEF OthersGaveUp
      <4>3. QED
        BY <4>2, <2>1
    <3>3. QED
      BY <3>1, <3>2
  <2>4. QED
    BY <2>3, <1>5 DEF OthersGaveUp
<1>12. QED
  BY <1>7, <1>8, <1>9, <1>10, <1>11 DEF McpInv

\* A caller that moves and leaves servers and requests alone.
LEMMA WalkKeeps ==
    ASSUME McpInv, NEW c \in Callers, NEW p \in Places, Mcps!Goto(c, p),
           UNCHANGED <<kind, clients, number, asked, results, gaveUp>>,
           current' \in 0..Len(clients), mapped' \in BOOLEAN,
           p.pc \in {"ask"} \cup Flying => p.method \in Methods,
           p.pc # "idle" => p.client \in 1..Len(clients),
           p.pc = "idle" => p.client = 0,
           p.id \in 0..number, p.pc # "write",
           p.pc \in Flying \/ at[c].pc \in Flying =>
              p.pc \in Flying /\ at[c].pc \in Flying /\ p.client = at[c].client /\ p.id = at[c].id
    PROVE  McpInv'
<1>0. CallersTyped /\ Numbered /\ Requested /\ InOnePlace /\ OthersGaveUp
  BY DEF McpInv
<1>1. /\ at' \in [Callers -> Places] /\ at'[c] = p
      /\ \A d \in Callers : d # c => at'[d] = at[d]
  BY <1>0, OneGoes
<1>2. clients \in Seq(ServerClients) /\ Len(clients) \in Nat /\ number \in Nat
  BY <1>0, LenProperties DEF CallersTyped
<1>3. CallersTyped'
  BY <1>0, <1>2, TypedOn
<1>4. Numbered'
  BY <1>0, <1>1 DEF Numbered
<1>5. Requested'
  BY <1>0, <1>1, <1>2, RequestedOn
<1>6. InOnePlace'
  BY <1>0, <1>1 DEF InOnePlace
<1>7. OthersGaveUp'
  <2>1. \A d \in Callers : at[d].pc \in Flying =>
           at'[d].pc \in Flying /\ at'[d].client = at[d].client /\ at'[d].id = at[d].id
    BY <1>1
  <2>2. QED
    BY <1>0, <1>2, <2>1, CaredOn
<1>8. QED
  BY <1>3, <1>4, <1>5, <1>6, <1>7 DEF McpInv

\* A client that changes, but for its events and responses.
LEMMA ClientKeeps ==
    ASSUME McpInv, NEW g \in 1..Len(clients), NEW r \in ServerClients,
           clients' = [clients EXCEPT ![g] = r],
           r.events = clients[g].events, r.responses = clients[g].responses,
           UNCHANGED <<kind, at, number, asked, results, gaveUp>>,
           current' \in 0..Len(clients), mapped' \in BOOLEAN
    PROVE  McpInv'
<1>0. CallersTyped /\ Numbered /\ Requested /\ InOnePlace /\ OthersGaveUp
  BY DEF McpInv
<1>1. /\ clients' \in Seq(ServerClients) /\ Len(clients') = Len(clients) /\ clients'[g] = r
      /\ \A h \in 1..Len(clients) : h # g => clients'[h] = clients[h]
  BY Zenon, <1>0, OneChanges
<1>2. \A h \in 1..Len(clients) : /\ clients'[h].events = clients[h].events
                                 /\ clients'[h].responses = clients[h].responses
  BY <1>1
<1>3. CallersTyped'
  BY <1>0, <1>1 DEF CallersTyped
<1>4. Numbered' /\ Requested' /\ InOnePlace' /\ OthersGaveUp'
  BY <1>0, <1>1, <1>2 DEF Numbered, Requested, InOnePlace, OthersGaveUp, Cared
<1>5. QED
  BY <1>3, <1>4 DEF McpInv

\* The callers that walk, and what happens to clients.
LEMMA CallKeeps == ASSUME McpInv, NEW c \in Callers, Mcps!Call(c) PROVE McpInv'
<1>1. /\ at[c].pc = "idle" /\ current \in 1..Len(clients) /\ Len(clients) \in Nat
      /\ number \in Nat
  BY LenProperties DEF McpInv, CallersTyped, Mcps!Call, Mcps!Connected
<1>2. Mcps!Asking(current, "tools/call") \in Places
  BY <1>1 DEF Mcps!Asking, Places, Methods
<1>3. UNCHANGED <<kind, clients, current, mapped, number, asked, results, gaveUp>>
  BY DEF Mcps!Call
<1>4. PICK p \in Places : /\ Mcps!Goto(c, p) /\ p.pc = "ask" /\ p.client = current
                           /\ p.id = 0 /\ p.method = "tools/call"
  BY <1>2 DEF Mcps!Call, Mcps!Asking
<1>5. mapped \in BOOLEAN
  BY DEF McpInv, CallersTyped
<1>6. QED
  BY <1>1, <1>3, <1>4, <1>5, WalkKeeps DEF Methods, Flying

\* A call that times out gives up its request.
LEMMA TimeoutKeeps == ASSUME McpInv, NEW c \in Callers, Mcps!Timeout(c) PROVE McpInv'
<1> DEFINE p == [at[c] EXCEPT !.pc = "late"]
<1>1. /\ at[c] \in Places /\ at[c].pc = "wait" /\ at[c].method \in Methods
      /\ at[c].client \in 1..Len(clients) /\ at[c].id \in 0..number
      /\ current \in 0..Len(clients) /\ mapped \in BOOLEAN
  BY DEF McpInv, CallersTyped, Numbered, Mcps!Timeout, Flying
<1>2. /\ p \in Places /\ p.pc = "late" /\ p.client = at[c].client /\ p.id = at[c].id
      /\ p.method = at[c].method
  BY <1>1 DEF Places, Flying
<1>3. UNCHANGED <<kind, clients, current, mapped, number, asked, results, gaveUp>> /\ Mcps!Goto(c, p)
  BY DEF Mcps!Timeout
<1> HIDE DEF p
<1>4. QED
  BY <1>1, <1>2, <1>3, WalkKeeps DEF Flying

\* A client that has connected becomes the current one.
LEMMA RegisterKeeps == ASSUME McpInv, NEW c \in Callers, Mcps!Register(c) PROVE McpInv'
<1> DEFINE p == [at[c] EXCEPT !.pc = "map"]
<1>1. /\ at[c] \in Places /\ at[c].pc = "register"
      /\ at[c].client \in 1..Len(clients) /\ at[c].id \in 0..number
      /\ current' \in 0..Len(clients) /\ mapped \in BOOLEAN
  BY LenProperties DEF McpInv, CallersTyped, Numbered, Mcps!Register
<1>2. /\ p \in Places /\ p.pc = "map" /\ p.client = at[c].client /\ p.id = at[c].id
  BY <1>1 DEF Places, Flying
<1>3. UNCHANGED <<kind, clients, mapped, number, asked, results, gaveUp>> /\ Mcps!Goto(c, p)
  BY DEF Mcps!Register
<1> HIDE DEF p
<1>4. QED
  BY <1>1, <1>2, <1>3, WalkKeeps DEF Flying

\* Mapping the tools changes nobody's place.
LEMMA MapToolsKeeps == ASSUME McpInv, NEW c \in Callers, Mcps!MapTools(c) PROVE McpInv'
<1>1. at[c].pc = "map" /\ number \in Nat /\ current \in 0..Len(clients)
  BY DEF McpInv, CallersTyped, Mcps!MapTools
<1>2. Mcps!Idle \in Places /\ Mcps!Idle.pc = "idle" /\ Mcps!Idle.client = 0 /\ Mcps!Idle.id = 0
  BY DEF Mcps!Idle, Places
<1>3. /\ UNCHANGED <<kind, clients, current, number, asked, results, gaveUp>>
      /\ mapped' = TRUE /\ Mcps!Goto(c, Mcps!Idle)
  BY DEF Mcps!MapTools
<1>4. QED
  BY <1>1, <1>2, <1>3, WalkKeeps DEF Flying

\* Disconnecting leaves the callers where they are.
LEMMA DisconnectKeeps == ASSUME McpInv, NEW c \in Callers, Mcps!Disconnect(c) PROVE McpInv'
<1> DEFINE r == [clients[current] EXCEPT !.connected = FALSE, !.running = FALSE,
                   !.server = IF kind = "stdio" THEN "down" ELSE @]
<1>1. /\ current \in 1..Len(clients) /\ clients[current] \in ServerClients /\ Len(clients) \in Nat
  BY LenProperties, ElementOfSeq DEF McpInv, CallersTyped, Mcps!Disconnect
<1>2. /\ r \in ServerClients /\ r.events = clients[current].events
      /\ r.responses = clients[current].responses
  BY Zenon, <1>1 DEF ServerClients
<1>3. clients' = [clients EXCEPT ![current] = r]
  BY Zenon DEF Mcps!Disconnect
<1>4. /\ UNCHANGED <<kind, at, number, asked, results, gaveUp>>
      /\ current' = 0 /\ mapped' = FALSE
  BY <1>1 DEF Mcps!Disconnect
<1>5. current' \in 0..Len(clients)
  BY <1>1, <1>4
<1>6. mapped' \in BOOLEAN
  BY <1>4, Zenon
<1> HIDE DEF r
<1>7. QED
  BY Zenon, <1>1, <1>2, <1>3, <1>4, <1>5, <1>6, ClientKeeps

\* A server that dies, or stops reading, keeps what its client holds.
LEMMA ServerKeeps ==
    ASSUME McpInv, NEW g \in 1..Len(clients), Mcps!Die(g) \/ Mcps!StopReading(g) PROVE McpInv'
<1>1. /\ clients[g] \in ServerClients /\ current \in 0..Len(clients) /\ mapped \in BOOLEAN
  BY ElementOfSeq DEF McpInv, CallersTyped
<1>2. PICK r \in {[clients[g] EXCEPT !.server = "down"], [clients[g] EXCEPT !.reading = FALSE]} :
            clients' = [clients EXCEPT ![g] = r]
  BY DEF Mcps!Die, Mcps!StopReading
<1>3. /\ r \in ServerClients /\ r.events = clients[g].events
      /\ r.responses = clients[g].responses
  BY Zenon, <1>1, <1>2 DEF ServerClients
<1>4. UNCHANGED <<kind, current, mapped, at, number, asked, results, gaveUp>>
  BY DEF Mcps!Die, Mcps!StopReading
<1>5. QED
  BY Zenon, <1>1, <1>2, <1>3, <1>4, ClientKeeps

\* A client that is made has nothing in it.
LEMMA ConnectKeeps == ASSUME McpInv, NEW c \in Callers, Mcps!Connect(c) PROVE McpInv'
<1>0. CallersTyped /\ Numbered /\ Requested /\ InOnePlace /\ OthersGaveUp
  BY DEF McpInv
<1>1. /\ clients' \in Seq(ServerClients) /\ Len(clients') = Len(clients) + 1
      /\ Len(clients) \in Nat /\ number \in Nat
      /\ clients'[Len(clients) + 1] = Mcps!NewClient
      /\ \A h \in 1..Len(clients) : clients'[h] = clients[h]
  BY <1>0, OneIsMade DEF Mcps!Connect, CallersTyped
<1>2. PICK n : n = Len(clients) + 1
  OBVIOUS
<1>3. PICK p \in Places : /\ Mcps!Goto(c, p) /\ p.pc = "ask" /\ p.client = n
                           /\ p.id = 0 /\ p.method = "initialize"
  <2>1. Mcps!Asking(n, "initialize") \in Places
    BY <1>1, <1>2 DEF Mcps!Asking, Places, Methods
  <2>2. QED
    BY <2>1, <1>2 DEF Mcps!Connect, Mcps!Asking
<1>4. UNCHANGED <<kind, current, mapped, number, asked, results, gaveUp>> /\ at[c].pc = "idle"
  BY DEF Mcps!Connect
<1>5. /\ at' \in [Callers -> Places] /\ at'[c] = p
      /\ \A d \in Callers : d # c => at'[d] = at[d]
  BY <1>0, <1>3, OneGoes
<1>6. Mcps!NewClient.events = {} /\ Mcps!NewClient.responses = {}
  BY DEF Mcps!NewClient
<1>7. n \in Nat /\ 1..n = (1..Len(clients)) \cup {n} /\ Len(clients') = n /\ Len(clients') >= Len(clients)
  BY <1>1, <1>2
<1>8. CallersTyped'
  <2>1. current' \in 0..Len(clients') /\ mapped' \in BOOLEAN /\ kind' = kind /\ number' \in Nat
    BY <1>0, <1>1, <1>4 DEF CallersTyped
  <2>2. QED
    BY <1>0, <1>1, <1>2, <1>3, <1>7, <2>1, TypedOn DEF Methods, Flying
<1>9. Numbered'
  <2>1. \A h \in 1..n : clients'[h].events \subseteq 1..number /\ clients'[h].responses \subseteq 1..number
    BY <1>0, <1>1, <1>2, <1>6, <1>7 DEF Numbered
  <2>2. QED
    BY <1>0, <2>1, <1>3, <1>4, <1>5, <1>7, <1>1 DEF Numbered
<1>10. Requested'
  BY <1>0, <1>1, <1>3, <1>4, <1>5, RequestedOn DEF Flying
<1>11. InOnePlace'
  <2>1. \A h \in 1..n, i \in Nat : <<h, i>> \in asked =>
            h \in 1..Len(clients) /\ clients'[h].responses = clients[h].responses
    BY <1>0, <1>1 DEF Numbered
  <2>2. ASSUME NEW d \in Callers, at'[d].pc = "write", NEW h \in 1..n
        PROVE  <<h, at'[d].id>> \notin asked /\ at'[d].id \notin clients'[h].responses
    <3>1. d # c /\ at'[d] = at[d]
      BY <2>2, <1>3, <1>5
    <3>2. CASE h = n
      BY <1>0, <1>1, <1>2, <1>6, <3>2, <1>7 DEF Numbered
    <3>3. CASE h \in 1..Len(clients)
      BY <1>0, <1>1, <2>2, <3>1, <3>3 DEF InOnePlace
    <3>4. QED
      BY <1>7, <3>2, <3>3
  <2>3. QED
    BY <1>0, <2>1, <2>2, <1>4, <1>7 DEF InOnePlace
<1>12. OthersGaveUp'
  <2>1. ASSUME NEW h \in 1..n, NEW i \in Nat,
               i \in clients'[h].events \cup clients'[h].responses \/ <<h, i>> \in asked'
        PROVE  /\ h \in 1..Len(clients)
               /\ i \in clients[h].events \cup clients[h].responses \/ <<h, i>> \in asked
    <3>1. h # n
      <4>1. n \notin 1..Len(clients)
        BY <1>1, <1>2
      <4>2. <<n, i>> \notin asked
        BY <1>0, <4>1 DEF Numbered
      <4>3. clients'[n].events = {} /\ clients'[n].responses = {}
        BY <1>1, <1>2, <1>6
      <4>4. QED
        BY <2>1, <4>2, <4>3, <1>4
    <3>2. h \in 1..Len(clients) /\ clients'[h] = clients[h]
      BY <3>1, <1>1, <1>7
    <3>3. QED
      BY <2>1, <3>2, <1>4
  <2>2. \A d \in Callers : at[d].pc \in Flying => at'[d] = at[d]
    BY <1>4, <1>5 DEF Flying
  <2>3. gaveUp \subseteq gaveUp' /\ Len(clients') \in Nat /\ Len(clients') = n
    BY <1>4, <1>7
  <2>4. QED
    BY <1>0, <2>1, <2>2, <2>3, CaredOn
<1>13. QED
  BY <1>8, <1>9, <1>10, <1>11, <1>12 DEF McpInv

\* A request that fails ends, and whoever made it gives up.
LEMMA FailureKeeps ==
    ASSUME McpInv, NEW c \in Callers, at[c].pc \in Flying, Mcps!Goto(c, Mcps!Idle),
           NEW g, NEW n, g = at[c].client, n = at[c].id,
           NEW v, results' = results \cup {[request |-> n, value |-> v]},
           gaveUp' = gaveUp \cup {n},
           clients' = clients \/ clients' = [clients EXCEPT ![g].events = @ \ {n}],
           asked' = asked \/ (at[c].pc = "write" /\ asked' = asked \cup {<<g, n>>}),
           UNCHANGED <<kind, current, mapped, number>>
    PROVE  McpInv'
<1>0. CallersTyped /\ Numbered /\ Requested /\ InOnePlace /\ OthersGaveUp
  BY DEF McpInv
<1>1. /\ at[c] \in Places /\ g \in 1..Len(clients) /\ n \in 1..number /\ number \in Nat
      /\ clients \in Seq(ServerClients) /\ Len(clients) \in Nat /\ clients[g] \in ServerClients
  BY <1>0, LenProperties, ElementOfSeq DEF CallersTyped, Requested, Flying
<1>2. /\ clients' \in Seq(ServerClients) /\ Len(clients') = Len(clients)
      /\ \A h \in 1..Len(clients) :
            clients'[h].events \subseteq clients[h].events /\ clients'[h].responses = clients[h].responses
  <2>1. CASE clients' = clients
    BY <1>1, <2>1
  <2>2. CASE clients' = [clients EXCEPT ![g].events = @ \ {n}]
    <3>1. PICK r \in ServerClients : /\ clients' = [clients EXCEPT ![g] = r]
                                     /\ r.events = clients[g].events \ {n}
                                     /\ r.responses = clients[g].responses
      <4>1. [clients[g] EXCEPT !.events = @ \ {n}] \in ServerClients
        BY Zenon, <1>1 DEF ServerClients
      <4>2. QED
        BY Zenon, <1>1, <2>2, <4>1 DEF ServerClients
    <3>2. QED
      BY <1>0, <1>1, <3>1, OneChanges
  <2>3. QED
    BY <2>1, <2>2
<1>3. /\ Mcps!Idle \in Places /\ Mcps!Idle.pc = "idle" /\ Mcps!Idle.client = 0 /\ Mcps!Idle.id = 0
      /\ Mcps!Idle.pc \notin Flying
  BY DEF Mcps!Idle, Places, Flying
<1>4. /\ at' \in [Callers -> Places] /\ at'[c] = Mcps!Idle
      /\ \A d \in Callers : d # c => at'[d] = at[d]
  BY <1>0, <1>3, OneGoes
<1>5. CallersTyped'
  <2>1. current' \in 0..Len(clients') /\ mapped' \in BOOLEAN /\ kind' = kind /\ number' \in Nat
    BY <1>0, <1>1, <1>2 DEF CallersTyped
  <2>2. QED
    BY <1>0, <1>1, <1>2, <1>3, <2>1, TypedOn DEF Flying
<1>6. Numbered'
  <2>1. asked' \subseteq (1..Len(clients)) \X (1..number)
    BY <1>0, <1>1 DEF Numbered
  <2>2. \A r \in results' : r.request \in 1..number
    BY <1>0, <1>1 DEF Numbered
  <2>3. QED
    BY <1>0, <1>1, <1>2, <1>3, <1>4, <2>1, <2>2 DEF Numbered
<1>7. Requested'
  <2>1. \A d \in Callers : at'[d].pc \in Flying => d # c /\ at'[d] = at[d] /\ at[d].id # n
    BY <1>0, <1>3, <1>4 DEF Requested
  <2>2. QED
    BY <1>0, <1>1, <2>1, RequestedOn
<1>8. InOnePlace'
  <2>1. \A d \in Callers : at'[d].pc = "write" => d # c /\ at'[d] = at[d] /\ at[d].id # n
    BY <1>0, <1>3, <1>4 DEF Requested, Flying
  <2>2. \A h \in 1..Len(clients), i \in Nat : <<h, i>> \in asked' =>
            <<h, i>> \in asked \/ (h = g /\ i = n /\ at[c].pc = "write")
    OBVIOUS
  <2>3. \A h \in 1..Len(clients), i \in Nat : <<h, i>> \in asked' => i \notin clients'[h].responses
    BY <1>0, <1>2, <2>2 DEF InOnePlace
  <2>4. \A d \in Callers : at'[d].pc = "write" => at[d].id \in Nat
    BY <1>0, <2>1 DEF CallersTyped, Places
  <2>5. QED
    BY <1>0, <1>2, <2>1, <2>2, <2>3, <2>4 DEF InOnePlace
<1>9. OthersGaveUp'
  <2>1. \A h \in 1..Len(clients), i \in Nat :
            i \in clients'[h].events \cup clients'[h].responses \/ <<h, i>> \in asked'
            => i \in clients[h].events \cup clients[h].responses \/ <<h, i>> \in asked \/ (h = g /\ i = n)
    BY <1>2
  <2>2. \A d \in Callers : at[d].pc \in Flying => at'[d] = at[d] \/ at[d].id \in gaveUp'
    BY <1>4
  <2>3. \A h \in 1..Len(clients), i \in Nat : Cared(h, i) => Cared(h, i)'
    BY <2>2, <1>4 DEF Cared
  <2>4. Cared(g, n)'
    BY DEF Cared
  <2>5. QED
    BY <1>0, <1>2, <2>1, <2>3, <2>4 DEF OthersGaveUp
<1>10. QED
  BY <1>5, <1>6, <1>7, <1>8, <1>9 DEF McpInv

\* A caller that gives up has its error as its answer.
LEMMA GiveUpKeeps == ASSUME McpInv, NEW c \in Callers, Mcps!GiveUp(c) PROVE McpInv'
BY Zenon, FailureKeeps DEF Mcps!GiveUp, Mcps!Forget, Mcps!End, Flying

\* A message arrives.
LEMMA ArrivalKeeps ==
    ASSUME McpInv, NEW c \in Callers, at[c].pc = "write",
           NEW g, NEW n, g = at[c].client, n = at[c].id, asked' = asked \cup {<<g, n>>},
           Mcps!Goto(c, [at[c] EXCEPT !.pc = "wait"]),
           UNCHANGED <<kind, clients, current, mapped, number, results, gaveUp>>
    PROVE  McpInv'
<1>0. CallersTyped /\ Numbered /\ Requested /\ InOnePlace /\ OthersGaveUp
  BY DEF McpInv
<1>1. /\ at[c] \in Places /\ g \in 1..Len(clients) /\ n \in 1..number /\ number \in Nat
      /\ clients \in Seq(ServerClients) /\ Len(clients) \in Nat
  BY <1>0, LenProperties DEF CallersTyped, Requested, Flying
<1>2. PICK p \in Places : /\ Mcps!Goto(c, p) /\ p.pc = "wait" /\ p.client = g /\ p.id = n
                           /\ p.method = at[c].method
  <2>1. [at[c] EXCEPT !.pc = "wait"] \in Places
    BY <1>1 DEF Places, Flying
  <2>2. QED
    BY <1>1, <2>1 DEF Places
<1>3. /\ at' \in [Callers -> Places] /\ at'[c] = p
      /\ \A d \in Callers : d # c => at'[d] = at[d]
  BY <1>0, <1>2, OneGoes
<1>4. CallersTyped'
  <2>1. current' \in 0..Len(clients') /\ mapped' \in BOOLEAN /\ kind' = kind /\ number' \in Nat
        /\ at[c].method \in Methods
    BY <1>0, <1>1 DEF CallersTyped, Flying
  <2>2. QED
    BY <1>0, <1>1, <1>2, <2>1, TypedOn DEF Flying
<1>5. Numbered'
  <2>1. asked' \subseteq (1..Len(clients)) \X (1..number)
    BY <1>0, <1>1 DEF Numbered
  <2>2. \A d \in Callers : at'[d].id \in 0..number
    BY <1>0, <1>1, <1>2, <1>3 DEF Numbered
  <2>3. QED
    BY <1>0, <2>1, <2>2 DEF Numbered
<1>6. Requested'
  BY <1>0, <1>1, <1>2, <1>3, RequestedOn DEF Flying
<1>7. InOnePlace'
  <2>1. \A d \in Callers : at'[d].pc = "write" => d # c /\ at'[d] = at[d] /\ at[d].id # n
    BY <1>0, <1>2, <1>3 DEF Requested, Flying
  <2>2. \A h \in 1..Len(clients), i \in Nat : <<h, i>> \in asked' =>
            <<h, i>> \in asked \/ (h = g /\ i = n)
    OBVIOUS
  <2>3. QED
    BY <1>0, <2>1, <2>2 DEF InOnePlace
<1>8. OthersGaveUp'
  <2>1. \A d \in Callers : at[d].pc \in Flying =>
           at'[d].pc \in Flying /\ at'[d].client = at[d].client /\ at'[d].id = at[d].id
    BY <1>2, <1>3 DEF Flying
  <2>2. \A h \in 1..Len(clients), i \in Nat : Cared(h, i) => Cared(h, i)'
    BY <2>1 DEF Cared
  <2>3. Cared(g, n)'
    BY <1>2, <1>3 DEF Cared, Flying
  <2>4. QED
    BY <1>0, <2>2, <2>3 DEF OthersGaveUp
<1>9. QED
  BY <1>4, <1>5, <1>6, <1>7, <1>8 DEF McpInv

\* A write reaches the server or fails.
LEMMA WriteKeeps == ASSUME McpInv, NEW c \in Callers, Mcps!Write(c) PROVE McpInv'
<1>1. PICK g, n : g = at[c].client /\ n = at[c].id
  OBVIOUS
<1>2. at[c].pc = "write" /\ UNCHANGED <<kind, current, mapped, number>>
  BY DEF Mcps!Write
<1>3. CASE /\ asked' = asked \cup {<<g, n>>}
           /\ Mcps!Goto(c, [at[c] EXCEPT !.pc = "wait"])
           /\ UNCHANGED <<clients, results, gaveUp>>
  BY <1>1, <1>2, <1>3, ArrivalKeeps
<1>4. CASE /\ IF kind = "sse" THEN Mcps!Forget(g, n) ELSE UNCHANGED clients
           /\ asked' = asked \/ asked' = asked \cup {<<g, n>>}
           /\ Mcps!End(n, Error) /\ gaveUp' = gaveUp \cup {n}
           /\ Mcps!Goto(c, Mcps!Idle)
  BY Zenon, <1>1, <1>2, <1>4, FailureKeeps DEF Mcps!Forget, Mcps!End, Flying
<1>5. QED
  BY <1>1, <1>3, <1>4 DEF Mcps!Write

\* An answer is stored.
LEMMA AnswerKeeps ==
    ASSUME McpInv, NEW g \in 1..Len(clients), NEW n \in 1..number, Mcps!Answer(g, n) PROVE McpInv'
<1> DEFINE q == [clients[g] EXCEPT !.responses = @ \cup {n}, !.reading = clients[g].running]
<1>0. CallersTyped /\ Numbered /\ Requested /\ InOnePlace /\ OthersGaveUp
  BY DEF McpInv
<1>1. /\ clients[g] \in ServerClients /\ clients \in Seq(ServerClients) /\ Len(clients) \in Nat
      /\ number \in Nat /\ n \in Nat /\ current \in 0..Len(clients) /\ mapped \in BOOLEAN
  BY <1>0, LenProperties, ElementOfSeq DEF CallersTyped
<1>2. /\ q \in ServerClients /\ q.events = clients[g].events
      /\ q.responses = clients[g].responses \cup {n}
  BY Zenon, <1>1 DEF ServerClients
<1>3. /\ <<g, n>> \in asked /\ asked' = asked \ {<<g, n>>}
      /\ clients' = [clients EXCEPT ![g] = q]
      /\ UNCHANGED <<kind, current, mapped, at, number, results, gaveUp>>
  BY Zenon DEF Mcps!Answer
<1> HIDE DEF q
<1>4. /\ clients' \in Seq(ServerClients) /\ Len(clients') = Len(clients) /\ clients'[g] = q
      /\ \A h \in 1..Len(clients) : h # g => clients'[h] = clients[h]
  BY <1>0, <1>1, <1>2, <1>3, OneChanges
<1>5. CallersTyped'
  BY <1>0, <1>3, <1>4 DEF CallersTyped
<1>6. Numbered'
  <2>1. \A h \in 1..Len(clients) :
            clients'[h].events \subseteq 1..number /\ clients'[h].responses \subseteq 1..number
    BY <1>0, <1>1, <1>2, <1>4 DEF Numbered
  <2>2. QED
    BY <1>0, <1>3, <1>4, <2>1 DEF Numbered
<1>7. Requested'
  BY <1>0, <1>3 DEF Requested
<1>8. \A h \in 1..Len(clients), i \in Nat :
         i \in clients'[h].responses => i \in clients[h].responses \/ (h = g /\ i = n)
  BY <1>2, <1>4
<1>9. \A h \in 1..Len(clients) : clients'[h].events = clients[h].events
  BY <1>2, <1>4
<1>10. InOnePlace'
  <2>1. \A h \in 1..Len(clients), i \in Nat : <<h, i>> \in asked' => i \notin clients'[h].responses
    BY <1>0, <1>3, <1>8 DEF InOnePlace
  <2>2. ASSUME NEW c \in Callers, at[c].pc = "write"
        PROVE  (at[c].id \in Nat /\ at[c].id # n) \/ \A h \in 1..Len(clients) : h # g
    BY <1>0, <1>3, <2>2 DEF InOnePlace, CallersTyped, Places
  <2>3. ASSUME NEW c \in Callers, at[c].pc = "write", NEW h \in 1..Len(clients)
        PROVE  <<h, at[c].id>> \notin asked' /\ at[c].id \notin clients'[h].responses
    BY <1>0, <1>3, <1>8, <2>2, <2>3 DEF InOnePlace
  <2>4. QED
    BY <1>3, <1>4, <2>1, <2>3 DEF InOnePlace
<1>11. OthersGaveUp'
  <2>1. \A h \in 1..Len(clients), i \in Nat : Cared(h, i) => Cared(h, i)'
    BY <1>3 DEF Cared
  <2>2. Cared(g, n)
    BY <1>0, <1>1, <1>3 DEF OthersGaveUp
  <2>3. ASSUME NEW h \in 1..Len(clients), NEW i \in Nat,
               i \in clients'[h].events \cup clients'[h].responses \/ <<h, i>> \in asked'
        PROVE  Cared(h, i)
    <3>1. i \in clients[h].events \cup clients[h].responses \/ <<h, i>> \in asked \/ (h = g /\ i = n)
      BY <2>3, <1>3, <1>8, <1>9
    <3>2. QED
      BY <1>0, <2>2, <3>1 DEF OthersGaveUp
  <2>4. QED
    BY <1>4, <2>1, <2>3 DEF OthersGaveUp
<1>12. QED
  BY <1>5, <1>6, <1>7, <1>10, <1>11 DEF McpInv

\* Where a caller goes on with its answer.
LEMMA AfterTyped ==
    ASSUME CallersTyped, NEW c \in Callers, at[c].pc = "wait"
    PROVE  /\ Mcps!After(c) \in Places
           /\ Mcps!After(c).pc \in {"ask", "register", "idle"}
           /\ Mcps!After(c).pc = "ask" => Mcps!After(c).method \in Methods
           /\ Mcps!After(c).pc # "idle" => Mcps!After(c).client = at[c].client
           /\ Mcps!After(c).pc = "idle" => Mcps!After(c).client = 0
           /\ Mcps!After(c).id = 0
<1>1. at[c] \in Places /\ at[c].method \in Methods
  BY DEF CallersTyped, Flying
<1>2. CASE at[c].method = "initialize"
  BY <1>1, <1>2 DEF Mcps!After, Mcps!Asking, Places, Methods
<1>3. CASE at[c].method = "tools/list"
  BY Zenon, <1>1, <1>3 DEF Mcps!After, Places, Methods
<1>4. CASE at[c].method = "tools/call"
  BY <1>1, <1>4 DEF Mcps!After, Mcps!Idle, Places, Methods
<1>5. QED
  BY <1>1, <1>2, <1>3, <1>4 DEF Methods

\* An answer is taken out by whoever asked for it.
LEMMA ReceiveKeeps == ASSUME McpInv, NEW c \in Callers, Mcps!Receive(c) PROVE McpInv'
<1>0. CallersTyped /\ Numbered /\ Requested /\ InOnePlace /\ OthersGaveUp
  BY DEF McpInv
<1>1. PICK g, n : g = at[c].client /\ n = at[c].id
  OBVIOUS
<1> DEFINE q == [clients[g] EXCEPT !.events = @ \ {n}, !.responses = @ \ {n},
                   !.connected = @ \/ at[c].method = "initialize"]
           p == Mcps!After(c)
<1>2. /\ at[c].pc = "wait" /\ n \in clients[g].responses
      /\ clients' = [clients EXCEPT ![g] = q]
      /\ results' = results \cup {[request |-> n, value |-> n]}
      /\ Mcps!Goto(c, p)
      /\ UNCHANGED <<kind, current, mapped, number, asked, gaveUp>>
  BY Zenon, <1>1 DEF Mcps!Receive, Mcps!Answered, Mcps!End
<1>3. /\ at[c] \in Places /\ g \in 1..Len(clients) /\ n \in 1..number /\ number \in Nat
      /\ clients \in Seq(ServerClients) /\ Len(clients) \in Nat /\ clients[g] \in ServerClients
  BY <1>0, <1>1, <1>2, LenProperties, ElementOfSeq DEF CallersTyped, Requested, Flying
<1>4. /\ q \in ServerClients /\ q.events = clients[g].events \ {n}
      /\ q.responses = clients[g].responses \ {n}
  BY Zenon, <1>3 DEF ServerClients
<1>5. /\ p \in Places /\ p.pc \in {"ask", "register", "idle"} /\ p.id = 0
      /\ p.pc = "ask" => p.method \in Methods
      /\ p.pc # "idle" => p.client = g
      /\ p.pc = "idle" => p.client = 0
  BY <1>0, <1>1, <1>2, AfterTyped
<1> HIDE DEF p, q
<1>6. /\ at' \in [Callers -> Places] /\ at'[c] = p
      /\ \A d \in Callers : d # c => at'[d] = at[d]
  BY <1>0, <1>2, <1>5, OneGoes
<1>7. /\ clients' \in Seq(ServerClients) /\ Len(clients') = Len(clients) /\ clients'[g] = q
      /\ \A h \in 1..Len(clients) : h # g => clients'[h] = clients[h]
  BY <1>0, <1>2, <1>3, <1>4, OneChanges
<1>8. \A h \in 1..Len(clients) : /\ clients'[h].events \subseteq clients[h].events
                                 /\ clients'[h].responses \subseteq clients[h].responses
  BY <1>4, <1>7
<1>9. CallersTyped'
  <2>1. current' \in 0..Len(clients') /\ mapped' \in BOOLEAN /\ kind' = kind /\ number' \in Nat
    BY <1>0, <1>2, <1>3, <1>7 DEF CallersTyped
  <2>2. QED
    BY <1>0, <1>2, <1>3, <1>5, <1>7, <2>1, TypedOn DEF Flying
<1>10. Numbered'
  <2>1. \A r \in results' : r.request \in 1..number
    BY <1>0, <1>2, <1>3 DEF Numbered
  <2>2. \A d \in Callers : at'[d].id \in 0..number
    BY <1>0, <1>3, <1>5, <1>6 DEF Numbered
  <2>3. QED
    BY <1>0, <1>2, <1>7, <1>8, <2>1, <2>2 DEF Numbered
<1>11. \A d \in Callers : at'[d].pc \in Flying => d # c /\ at'[d] = at[d] /\ at[d].id # n
  BY <1>0, <1>1, <1>2, <1>5, <1>6 DEF Requested, Flying
<1>12. Requested'
  BY <1>0, <1>2, <1>3, <1>11, RequestedOn
<1>13. InOnePlace'
  <2>1. \A d \in Callers : at'[d].pc = "write" => at'[d] = at[d]
    BY <1>11 DEF Flying
  <2>2. QED
    BY <1>0, <1>2, <1>7, <1>8, <2>1 DEF InOnePlace
<1>14. OthersGaveUp'
  <2>1. SUFFICES ASSUME NEW h \in 1..Len(clients), NEW i \in Nat,
                        i \in clients'[h].events \cup clients'[h].responses \/ <<h, i>> \in asked
                 PROVE  Cared(h, i)'
    BY <1>2, <1>7 DEF OthersGaveUp
  <2>2. ~(h = g /\ i = n)
    <3>1. <<g, n>> \notin asked
      BY <1>0, <1>2, <1>3 DEF InOnePlace
    <3>2. n \notin clients'[g].events \cup clients'[g].responses
      BY <1>4, <1>7
    <3>3. QED
      BY <2>1, <3>1, <3>2
  <2>3. Cared(h, i)
    <3>1. i \in clients[h].events \cup clients[h].responses \/ <<h, i>> \in asked
      BY <2>1, <1>8
    <3>2. QED
      BY <3>1, <1>0 DEF OthersGaveUp
  <2>4. CASE i \in gaveUp
    BY <2>4, <1>2 DEF Cared
  <2>5. ASSUME NEW d \in Callers, at[d].pc \in Flying, at[d].client = h, at[d].id = i
        PROVE  Cared(h, i)'
    <3>1. d # c
      BY <2>2, <2>5, <1>1
    <3>2. QED
      BY <3>1, <2>5, <1>6 DEF Cared
  <2>6. QED
    BY <2>3, <2>4, <2>5 DEF Cared
<1>15. QED
  BY <1>9, <1>10, <1>12, <1>13, <1>14 DEF McpInv

\* The calls and their answers are in order in every behaviour of the services.
LEMMA McpStep == ASSUME McpInv, [Next]_vars PROVE McpInv'
<1>1. CASE UNCHANGED Mcps!vars
  BY <1>1 DEF Mcps!vars, McpInv, CallersTyped, Numbered, Requested, InOnePlace, OthersGaveUp, Cared
<1>2. ASSUME NEW c \in Callers, Mcps!Begin(c) \/ Mcps!GoOn(c) PROVE McpInv'
  BY <1>2, ConnectKeeps, CallKeeps, DisconnectKeeps, SendKeeps, WriteKeeps, ReceiveKeeps,
     TimeoutKeeps, GiveUpKeeps, RegisterKeeps, MapToolsKeeps DEF Mcps!Begin, Mcps!GoOn
<1>3. DOMAIN clients = 1..Len(clients)
  BY LenProperties DEF McpInv, CallersTyped
<1>4. CASE \E g \in DOMAIN clients : Mcps!Die(g) \/ Mcps!StopReading(g)
  BY <1>3, <1>4, ServerKeeps
<1>5. CASE \E g \in DOMAIN clients, id \in 1..number : Mcps!Answer(g, id)
  BY <1>3, <1>5, AnswerKeeps
<1>6. QED
  BY <1>1, <1>2, <1>4, <1>5, McpMoves DEF Mcps!Next

\* Before the first call nothing is asked.
LEMMA McpStart == Init => McpInv
<1> SUFFICES ASSUME Init PROVE McpInv
  OBVIOUS
<1>1. /\ kind \in {"stdio", "sse"} /\ clients = <<>> /\ current = 0 /\ mapped = FALSE
      /\ at = [c \in Callers |-> Mcps!Idle]
      /\ number = 0 /\ asked = {} /\ results = {} /\ gaveUp = {}
  BY DEF Init, Mcps!Init
<1>2. clients \in Seq(ServerClients) /\ Len(clients) = 0
  BY <1>1, EmptySeq
<1>3. Mcps!Idle \in Places /\ Mcps!Idle.pc = "idle" /\ Mcps!Idle.client = 0 /\ Mcps!Idle.id = 0
  BY DEF Mcps!Idle, Places
<1>4. mapped \in BOOLEAN
  BY <1>1, Zenon
<1>5. at \in [Callers -> Places] /\ \A c \in Callers : at[c] = Mcps!Idle
  BY <1>1, <1>3
<1>6. CallersTyped
  BY <1>1, <1>2, <1>3, <1>4, <1>5 DEF CallersTyped, Flying
<1>7. Numbered /\ Requested /\ InOnePlace /\ OthersGaveUp
  BY <1>1, <1>2, <1>3, <1>5 DEF Numbered, Requested, InOnePlace, OthersGaveUp, Flying
<1>8. QED
  BY <1>6, <1>7 DEF McpInv

\* Every request is in one place: with its caller, answered, or given up
\* (client.py:111).
THEOREM CallsInOrder == Spec => []McpInv
BY McpStart, McpStep, PTL DEF Spec

\* What nobody collects belongs to a caller that gave up (client.py:151).
THEOREM OnlyLateAnswers == Spec => []Mcps!OnlyLateAnswersStay
<1>1. McpInv => Mcps!OnlyLateAnswersStay
  <2> SUFFICES ASSUME McpInv PROVE Mcps!OnlyLateAnswersStay
    OBVIOUS
  <2>1. DOMAIN clients = 1..Len(clients) /\ number \in Nat
    BY LenProperties DEF McpInv, CallersTyped
  <2>2. ASSUME NEW g \in DOMAIN clients, NEW id \in clients[g].events \cup clients[g].responses
        PROVE  id \in gaveUp \/ \E c \in Mcps!InFlight : at[c].client = g /\ at[c].id = id
    <3>1. id \in Nat
      BY <2>1, <2>2 DEF McpInv, Numbered
    <3>2. Cared(g, id)
      BY Zenon, <2>1, <2>2, <3>1 DEF McpInv, OthersGaveUp
    <3>3. QED
      BY <3>2 DEF Cared, Mcps!InFlight, Flying
  <2>3. QED
    BY <2>2 DEF Mcps!OnlyLateAnswersStay
<1>2. QED
  BY <1>1, CallsInOrder, PTL

\* The requests of callers that have not come to their end.
Pending == {at[c].id : c \in {d \in Callers : at[d].pc \in Flying}}

\* Requests are made while there are numbers left.
NumberLeft == number \in 0..MaxRequests

\* No step makes more requests than there are numbers.
LEMMA NumberStep == ASSUME NumberLeft, [Next]_vars PROVE NumberLeft'
<1>1. MaxRequests \in Nat
  BY ServicesAssumption DEF Mcps!McpAssumption
<1>2. ASSUME NEW c \in Callers, Mcps!Begin(c) \/ Mcps!GoOn(c) PROVE number' = number \/ Mcps!Send(c)
  BY <1>2 DEF Mcps!Begin, Mcps!GoOn, Mcps!Connect, Mcps!Call, Mcps!Disconnect, Mcps!Write, Mcps!Receive,
     Mcps!Timeout, Mcps!GiveUp, Mcps!Register, Mcps!MapTools
<1>3. ASSUME NEW c \in Callers, Mcps!Send(c) PROVE NumberLeft'
  BY <1>1, <1>3 DEF Mcps!Send, NumberLeft
<1>4. ASSUME NEW g, NEW id, Mcps!Die(g) \/ Mcps!StopReading(g) \/ Mcps!Answer(g, id)
      PROVE  number' = number
  BY <1>4 DEF Mcps!Die, Mcps!StopReading, Mcps!Answer
<1>5. CASE UNCHANGED Mcps!vars
  BY <1>5 DEF Mcps!vars, NumberLeft
<1>6. CASE \E c \in Callers : Mcps!Begin(c) \/ Mcps!GoOn(c)
  BY <1>2, <1>3, <1>6 DEF NumberLeft
<1>7. CASE \/ \E g \in DOMAIN clients : Mcps!Die(g) \/ Mcps!StopReading(g)
           \/ \E g \in DOMAIN clients, id \in 1..number : Mcps!Answer(g, id)
  BY <1>4, <1>7 DEF NumberLeft
<1>8. QED
  BY <1>5, <1>6, <1>7, McpMoves DEF Mcps!Next

\* A caller that stays in flight with its request, or stays out of it.
LEMMA KeepsPending ==
    ASSUME \A d \in Callers : /\ at'[d].pc \in Flying <=> at[d].pc \in Flying
                              /\ at[d].pc \in Flying => at'[d].id = at[d].id
    PROVE  Pending' = Pending
BY DEF Pending

\* A request that is made is asked for.
LEMMA SendAsks ==
    ASSUME McpInv, NumberLeft, NEW c \in Callers, Mcps!Send(c)
    PROVE  \E n \in 1..MaxRequests : Mcps!Promise!Ask(n)
<1>0. CallersTyped /\ Numbered /\ Requested /\ number \in Nat
  BY DEF McpInv, CallersTyped
<1>1. PICK n : n = number + 1
  OBVIOUS
<1> DEFINE p == [at[c] EXCEPT !.pc = "write", !.id = n]
<1>2. at[c] \in Places /\ at[c].pc = "ask" /\ number < MaxRequests
  BY <1>0 DEF CallersTyped, Mcps!Send
<1>3. p \in Places /\ p.pc = "write" /\ p.id = n
  <2>1. n \in Nat
    BY <1>0, <1>1
  <2>2. QED
    BY Zenon, <1>2, <2>1 DEF Places, Flying
<1>4. /\ at'[c] = p /\ \A d \in Callers : d # c => at'[d] = at[d]
  BY <1>0, <1>1, <1>3, OneGoes DEF Mcps!Send
<1> HIDE DEF p
<1>5. n \in 1..MaxRequests /\ n \notin 1..number
  BY <1>0, <1>1, <1>2, ServicesAssumption DEF NumberLeft, Mcps!McpAssumption
<1>6. n \notin Pending /\ \A r \in results : r.request # n
  BY <1>0, <1>5 DEF Pending, Requested, Numbered
<1>7. Pending' = Pending \cup {n}
  <2>1. \A d \in Callers : at'[d].pc \in Flying <=> at[d].pc \in Flying \/ d = c
    BY <1>3, <1>4 DEF Flying
  <2>2. at[c].pc \notin Flying
    BY <1>2 DEF Flying
  <2>3. ASSUME NEW i PROVE i \in Pending' <=> i \in Pending \/ i = n
    <3>1. i \in Pending' <=> \E d \in Callers : at'[d].pc \in Flying /\ at'[d].id = i
      BY DEF Pending
    <3>2. i \in Pending <=> \E d \in Callers : at[d].pc \in Flying /\ at[d].id = i
      BY DEF Pending
    <3>3. QED
      BY <3>1, <3>2, <2>1, <2>2, <1>3, <1>4
  <2>4. QED
    BY <2>3
<1>8. UNCHANGED results
  BY DEF Mcps!Send
<1>9. Mcps!Promise!Ask(n)
  BY <1>6, <1>7, <1>8 DEF Mcps!Promise!Ask, Mcps!Promise!Finished, Pending, Mcps!InFlight, Flying
<1>10. QED
  BY <1>5, <1>9
\* A request that ends is returned.
LEMMA EndReturns ==
    ASSUME McpInv, NumberLeft, NEW c \in Callers, at[c].pc \in Flying, at'[c].pc \notin Flying,
           \A d \in Callers : d # c => at'[d] = at[d],
           NEW v, v = at[c].id \/ v = Error,
           results' = results \cup {[request |-> at[c].id, value |-> v]}
    PROVE  \E n \in 1..MaxRequests : Mcps!Promise!Return(n, n) \/ Mcps!Promise!Return(n, Error)
<1>0. PICK n : n = at[c].id
  OBVIOUS
<1>1. n \in 1..MaxRequests /\ n \in Pending
  <2>1. n \in 1..number /\ n \in Pending /\ number \in Nat
    BY <1>0 DEF McpInv, Requested, CallersTyped, Pending
  <2>2. QED
    BY <2>1, ServicesAssumption DEF NumberLeft, Mcps!McpAssumption
<1>2. Pending' = Pending \ {n}
  <2>1. \A d \in Callers : at[d].pc \in Flying /\ d # c => at[d].id # n
    BY <1>0 DEF McpInv, Requested
  <2>2. ASSUME NEW i PROVE i \in Pending' <=> i \in Pending /\ i # n
    <3>1. i \in Pending' <=> \E d \in Callers : at'[d].pc \in Flying /\ at'[d].id = i
      BY DEF Pending
    <3>2. i \in Pending <=> \E d \in Callers : at[d].pc \in Flying /\ at[d].id = i
      BY DEF Pending
    <3>3. QED
      BY <3>1, <3>2, <2>1, <1>0
  <2>3. QED
    BY <2>2
<1>3. Mcps!Promise!Return(n, v)
  BY <1>0, <1>1, <1>2 DEF Mcps!Promise!Return, Mcps!Promise!Outcome, Pending, Mcps!InFlight, Flying
<1>4. QED
  BY <1>0, <1>1, <1>3

\* Every step of the services is a step of the promise, or none of its business.
LEMMA McpRefines ==
    ASSUME McpInv, NumberLeft, [Next]_vars
    PROVE  [Mcps!Promise!Next]_(Mcps!Promise!vars)
<1>1. \A n \in 1..MaxRequests : Mcps!Promise!Ask(n) \/ Mcps!Promise!Return(n, n) \/ Mcps!Promise!Return(n, Error)
         => Mcps!Promise!Next
  BY DEF Mcps!Promise!Next
<1>2. ASSUME Pending' = Pending, results' = results PROVE UNCHANGED Mcps!Promise!vars
  BY Zenon, <1>2 DEF Pending, Mcps!Promise!vars, Mcps!InFlight, Flying
<1>3. ASSUME at' = at, results' = results PROVE UNCHANGED Mcps!Promise!vars
  BY <1>2, <1>3 DEF Pending
<1>4. CASE UNCHANGED Mcps!vars
  BY <1>3, <1>4 DEF Mcps!vars
<1>5. CASE \/ \E g \in DOMAIN clients : Mcps!Die(g) \/ Mcps!StopReading(g)
           \/ \E g \in DOMAIN clients, id \in 1..number : Mcps!Answer(g, id)
  BY Zenon, <1>3, <1>5 DEF Mcps!Die, Mcps!StopReading, Mcps!Answer
<1>6. ASSUME NEW c \in Callers, Mcps!Begin(c) \/ Mcps!GoOn(c)
      PROVE  [Mcps!Promise!Next]_(Mcps!Promise!vars)
  <2>0. CallersTyped
    BY DEF McpInv
  <2>1. CASE Mcps!Disconnect(c)
    BY <1>3, <2>1 DEF Mcps!Disconnect
  <2>2. CASE Mcps!Send(c)
    BY <1>1, <2>2, SendAsks
  <2>3. Mcps!Idle.pc \notin Flying /\ Mcps!Idle \in Places
    BY DEF Mcps!Idle, Flying, Places
  <2>4. ASSUME NEW p \in Places, Mcps!Goto(c, p), results' = results,
               p.pc \in Flying <=> at[c].pc \in Flying, p.pc \in Flying => p.id = at[c].id
        PROVE  UNCHANGED Mcps!Promise!vars
    <3>1. at'[c] = p /\ \A d \in Callers : d # c => at'[d] = at[d]
      BY <2>0, <2>4, OneGoes
    <3>2. QED
      BY <1>2, <2>4, <3>1, KeepsPending
  <2>5. ASSUME NEW p \in Places, Mcps!Goto(c, p), p.pc \notin Flying, at[c].pc \in Flying,
               NEW v, v = at[c].id \/ v = Error,
               results' = results \cup {[request |-> at[c].id, value |-> v]}
        PROVE  Mcps!Promise!Next
    <3>1. at'[c] = p /\ \A d \in Callers : d # c => at'[d] = at[d]
      BY <2>0, <2>5, OneGoes
    <3>2. QED
      BY Zenon, <1>1, <2>5, <3>1, EndReturns
  <2>6. CASE Mcps!Connect(c) \/ Mcps!Call(c)
    <3>1. PICK g \in Nat, m \in Methods : /\ Mcps!Goto(c, Mcps!Asking(g, m)) /\ at[c].pc = "idle"
                                          /\ results' = results
      BY <2>0, <2>6, LenProperties DEF CallersTyped, Mcps!Connect, Mcps!Call, Methods
    <3>2. Mcps!Asking(g, m) \in Places /\ Mcps!Asking(g, m).pc = "ask"
      BY DEF Mcps!Asking, Places
    <3>3. QED
      BY <2>4, <3>1, <3>2 DEF Flying
  <2>7. CASE Mcps!Timeout(c) \/ Mcps!Register(c)
    <3>1. at[c] \in Places
      BY <2>0 DEF CallersTyped
    <3>2. PICK label \in {"late", "map"} :
             /\ Mcps!Goto(c, [at[c] EXCEPT !.pc = label]) /\ results' = results
             /\ at[c].pc = IF label = "late" THEN "wait" ELSE "register"
      BY <2>7 DEF Mcps!Timeout, Mcps!Register
    <3>3. PICK p \in Places : p = [at[c] EXCEPT !.pc = label] /\ p.pc = label /\ p.id = at[c].id
      BY <3>1, <3>2 DEF Places, Flying
    <3>4. QED
      BY Zenon, <2>4, <3>2, <3>3 DEF Flying
  <2>8. CASE Mcps!MapTools(c)
    BY <2>3, <2>4, <2>8 DEF Mcps!MapTools, Flying
  <2>9. CASE Mcps!Receive(c)
    <3>1. /\ at[c].pc = "wait" /\ Mcps!Goto(c, Mcps!After(c))
          /\ results' = results \cup {[request |-> at[c].id, value |-> at[c].id]}
      BY <2>9 DEF Mcps!Receive, Mcps!End
    <3>2. Mcps!After(c) \in Places /\ Mcps!After(c).pc \notin Flying
      BY <2>0, <3>1, AfterTyped DEF Flying
    <3>3. QED
      BY <2>5, <3>1, <3>2 DEF Flying
  <2>10. CASE Mcps!GiveUp(c)
    BY <2>3, <2>5, <2>10 DEF Mcps!GiveUp, Mcps!End, Flying
  <2>11. CASE Mcps!Write(c)
    <3>1. at[c].pc = "write" /\ at[c] \in Places
      BY <2>0, <2>11 DEF Mcps!Write, CallersTyped
    <3>2. CASE Mcps!Goto(c, [at[c] EXCEPT !.pc = "wait"]) /\ results' = results
      <4>1. [at[c] EXCEPT !.pc = "wait"] \in Places
        BY <3>1 DEF Places, Flying
      <4>2. PICK p \in Places : p = [at[c] EXCEPT !.pc = "wait"] /\ p.pc = "wait" /\ p.id = at[c].id
        BY <3>1, <4>1 DEF Places, Flying
      <4>3. QED
        BY Zenon, <2>4, <3>1, <3>2, <4>2 DEF Flying
    <3>3. CASE Mcps!Goto(c, Mcps!Idle) /\ Mcps!End(at[c].id, Error)
      BY <2>3, <2>5, <3>1, <3>3 DEF Mcps!End, Flying
    <3>4. QED
      BY <2>11, <3>2, <3>3 DEF Mcps!Write
  <2>12. QED
    BY <1>6, <2>1, <2>2, <2>6, <2>7, <2>8, <2>9, <2>10, <2>11 DEF Mcps!Begin, Mcps!GoOn
<1>7. QED
  BY <1>4, <1>5, <1>6, McpMoves DEF Mcps!Next

\* The promise begins as the calls do.
LEMMA McpStartRefines == Init => NumberLeft /\ Mcps!Promise!Init
<1> SUFFICES ASSUME Init PROVE NumberLeft /\ Mcps!Promise!Init
  OBVIOUS
<1>1. MaxRequests \in Nat
  BY ServicesAssumption DEF Mcps!McpAssumption
<1>2. number = 0 /\ results = {} /\ at = [c \in Callers |-> Mcps!Idle]
  BY DEF Init, Mcps!Init
<1>3. Mcps!InFlight = {}
  BY <1>2 DEF Mcps!InFlight, Mcps!Idle
<1>4. QED
  BY <1>1, <1>2, <1>3 DEF NumberLeft, Mcps!Promise!Init

\* Timeouts, late answers, dead servers and reconnections included, each request ends at most
\* once, with its own answer or an error (client.py:111).
THEOREM CallsKeepPromise == Spec => IsRemoteCalls
<1>1. Spec => []NumberLeft
  BY McpStartRefines, NumberStep, PTL DEF Spec
<1>2. QED
  BY <1>1, CallsInOrder, McpStartRefines, McpRefines, PTL
     DEF Spec, IsRemoteCalls, Mcps!IsRemoteCalls, Mcps!Promise!Spec

-----------------------------------------------------------------------------
(* The models a request reaches.                                            *)

\* The least of a set of numbers.
LEMMA LeastOf ==
    ASSUME NEW S, S \subseteq Nat, S # {}
    PROVE  \E n \in S : \A k \in S : n <= k
<1>1. PICK n \in S : \A k \in S : ~(<<k, n>> \in OpToRel(<, Nat))
  BY Zenon, NatLessThanWellFounded, WFMin
<1>2. \A k \in S : ~(k < n)
  BY Zenon, <1>1 DEF OpToRel
<1>3. QED
  BY <1>2

\* What is first in a ranking is one of those ranked.
LEMMA FirstIsOne ==
    ASSUME NEW S, S # {}, S \subseteq DOMAIN Catalog,
           NEW rank, \A i \in S : rank[i] \in Nat
    PROVE  Rou!First(S, rank) \in S
<1>1. S \subseteq Nat
  BY ServicesAssumption DEF Rou!RoutingAssumption
<1>2. PICK n \in {rank[i] : i \in S} : \A k \in {rank[i] : i \in S} : n <= k
  BY Zenon, LeastOf
<1>3. PICK i \in {j \in S : rank[j] = n} : \A k \in {j \in S : rank[j] = n} : i <= k
  BY Zenon, <1>1, <1>2, LeastOf
<1>4. \A j \in S : rank[i] < rank[j] \/ (rank[i] = rank[j] /\ i <= j)
  BY <1>2, <1>3
<1>5. QED
  BY <1>3, <1>4 DEF Rou!First

\* A fallback has a client.
LEMMA FallbackHasClient ==
    ASSUME NEW key \in Rou!Keys
    PROVE  \/ Rou!Fallback(key) = "none"
           \/ Rou!Fallback(key) \in Rou!Keys /\ Rou!HasClient(Rou!Fallback(key))
<1> DEFINE O == {i \in DOMAIN Catalog : i # Rou!Place(key) /\ Rou!HasClient(Catalog[i].key)}
           N == {i \in O : Rou!SameProvider(Catalog[i].key, key)}
<1>1. Rou!Place(key) \in DOMAIN Catalog
  BY DEF Rou!Place, Rou!Keys
<1>2. \A i \in DOMAIN Catalog : Catalog[i].tier \in Nat
  BY ServicesAssumption DEF Rou!RoutingAssumption
<1>3. \A i \in DOMAIN Catalog : Rou!Tier[i] \in Nat /\ Rou!Distance(Rou!Place(key))[i] \in Nat
  BY <1>1, <1>2 DEF Rou!Tier, Rou!Distance
<1>4. \A i \in O : Catalog[i].key \in Rou!Keys /\ Rou!HasClient(Catalog[i].key)
  BY DEF Rou!Keys
<1>5. O \subseteq DOMAIN Catalog /\ N \subseteq O
  OBVIOUS
<1>6. Rou!Fallback(key) = IF N # {} THEN Catalog[Rou!First(N, Rou!Distance(Rou!Place(key)))].key
                          ELSE IF O # {} THEN Catalog[Rou!First(O, Rou!Tier)].key ELSE "none"
  BY DEF Rou!Fallback
<1> HIDE DEF O, N
<1>7. CASE N # {}
  <2>1. Rou!First(N, Rou!Distance(Rou!Place(key))) \in N
    BY <1>3, <1>5, <1>7, FirstIsOne
  <2>2. QED
    BY <2>1, <1>4, <1>5, <1>6, <1>7
<1>8. CASE N = {} /\ O # {}
  <2>1. Rou!First(O, Rou!Tier) \in O
    BY <1>3, <1>5, <1>8, FirstIsOne
  <2>2. QED
    BY <2>1, <1>4, <1>6, <1>8
<1>9. QED
  BY <1>6, <1>7, <1>8

Routed ==
    [pc : {"idle", "primary", "backup", "last", "raised", "unserved"},
     model : Rou!Keys \cup {"none"}, backup : Rou!Keys \cup {"none"}, desperate : BOOLEAN,
     asked : SUBSET Rou!Keys]

\* What a request knows of its models, wherever it is.
RouteKnows(r) ==
    /\ r.asked \subseteq {key \in Rou!Keys : Rou!HasClient(key)}
    /\ r.pc = "primary" => /\ r.model \in Rou!Keys /\ Rou!HasClient(r.model)
                           /\ r.backup = "none" \/ Rou!HasClient(r.backup) \/ r.desperate
    /\ r.pc = "backup" => /\ r.backup \in Rou!Keys /\ Rou!HasClient(r.backup)
                          /\ r.model \in r.asked
    /\ r.pc = "last" => {r.model, r.backup} \subseteq r.asked \cup {"none"}
    /\ r.pc = "raised" =>
          {r.model, r.backup} \cup {k \in Rou!Keys : Rou!Of(k).provider = LastResort /\ Rou!HasClient(k)}
              \subseteq r.asked \cup {"none"}
    /\ r.pc = "unserved" => r.desperate

RoutesInv ==
    /\ errors \in [Rou!Keys -> 0..Bench]
    /\ request \in [Requesters -> Routed]
    /\ \A c \in Requesters : RouteKnows(request[c])

\* A part of the services moves by its own steps, or rests.
LEMMA RoutesMove == [Next]_vars => [Rou!Next]_(Rou!vars)
BY DEF Next, Rest, vars, routes, Rou!vars, Rou!routing

\* A request that goes on knows what it should.
LEMMA RouteGoes ==
    ASSUME RoutesInv, NEW c \in Requesters, NEW r \in Routed, RouteKnows(r),
           request' = [request EXCEPT ![c] = r], keyed' = keyed,
           errors' \in [Rou!Keys -> 0..Bench]
    PROVE  RoutesInv'
<1>1. request' \in [Requesters -> Routed] /\ \A d \in Requesters : request'[d] \in {r, request[d]}
  BY DEF RoutesInv
<1>2. \A d \in Requesters : RouteKnows(request'[d])
  BY <1>1 DEF RoutesInv
<1>3. \A d \in Requesters : RouteKnows(request[d])'
  BY <1>2 DEF RouteKnows, Rou!HasClient
<1>4. QED
  BY <1>1, <1>3 DEF RoutesInv

\* A request that is not made yet knows what it should.
LEMMA FreshKnows == Rou!New \in Routed /\ RouteKnows(Rou!New)
BY DEF Rou!New, Routed, RouteKnows

\* A request is decided for a model with a client, and a fallback with one if there is one,
\* unless nothing qualified.
LEMMA DecideKeeps ==
    ASSUME RoutesInv, NEW c \in Requesters, NEW model \in Rou!Keys, NEW b \in Rou!Keys \cup {"none"},
           NEW desperate \in BOOLEAN, Rou!Decide(c, model, b, desperate),
           Rou!HasClient(model) \/ desperate, b = "none" \/ Rou!HasClient(b) \/ desperate,
           UNCHANGED <<keyed, errors>>
    PROVE  RoutesInv'
<1> DEFINE r == [Rou!New EXCEPT !.pc = IF Rou!HasClient(model) THEN "primary" ELSE "unserved",
                   !.model = model, !.backup = b, !.desperate = desperate]
<1>1. r \in Routed
  BY Zenon DEF Rou!New, Routed
<1>2. RouteKnows(r)
  <2>1. /\ r.asked = {} /\ r.model = model /\ r.backup = b /\ r.desperate = desperate
        /\ r.pc = IF Rou!HasClient(model) THEN "primary" ELSE "unserved"
    BY DEF Rou!New
  <2>2. QED
    BY <2>1 DEF RouteKnows
<1>3. errors' \in [Rou!Keys -> 0..Bench]
  BY DEF RoutesInv
<1>4. QED
  BY Zenon, <1>1, <1>2, <1>3, RouteGoes DEF Rou!Decide

\* A task with a model of its own is routed to it and to its fallback.
LEMMA RouteAssignedKeeps ==
    ASSUME RoutesInv, NEW c \in Requesters, NEW task, Rou!RouteAssigned(c, task) PROVE RoutesInv'
<1>1. /\ task.model \in Rou!Keys /\ Rou!HasClient(task.model)
      /\ Rou!Decide(c, task.model, Rou!Fallback(task.model), FALSE) /\ UNCHANGED <<keyed, errors>>
  BY Zenon DEF Rou!RouteAssigned, Rou!Assigned
<1>2. QED
  BY Zenon, <1>1, FallbackHasClient, DecideKeeps

\* Any other task is routed to the candidates that score best, or to any model.
LEMMA RouteScoredKeeps ==
    ASSUME RoutesInv, NEW c \in Requesters, NEW task, Rou!RouteScored(c, task) PROVE RoutesInv'
<1> DEFINE found == Rou!Candidates(task)
           S == IF found = {} THEN Rou!Keys ELSE found
<1>1. found \subseteq Rou!Keys /\ \A key \in found : Rou!HasClient(key)
  BY DEF Rou!Candidates
<1>2. PICK key \in S : \E s \in Rou!Seconds(key, S) : Rou!Decide(c, key, s, found = {})
  BY DEF Rou!RouteScored
<1>3. PICK s \in Rou!Seconds(key, S) : Rou!Decide(c, key, s, found = {})
  BY <1>2
<1>4. s \in S \cup {"none"}
  BY DEF Rou!Seconds
<1>5. UNCHANGED <<keyed, errors>>
  BY DEF Rou!RouteScored
<1>6. PICK desperate \in BOOLEAN : desperate <=> found = {}
  BY Zenon
<1>7. Rou!Decide(c, key, s, desperate)
  BY Zenon, <1>3, <1>6 DEF Rou!Decide
<1>8. /\ key \in Rou!Keys /\ s \in Rou!Keys \cup {"none"}
      /\ Rou!HasClient(key) \/ desperate
      /\ (s = "none" \/ Rou!HasClient(s) \/ desperate)
  BY <1>1, <1>4, <1>6
<1>9. Rou!HasClient(key) \/ desperate
  BY <1>1, <1>6
<1>10. s = "none" \/ Rou!HasClient(s) \/ desperate
  BY <1>1, <1>4, <1>6
<1>11. QED
  BY <1>5, <1>7, <1>8, <1>9, <1>10, DecideKeeps

\* An error more or none at all is a number of errors.
LEMMA WorseTyped ==
    ASSUME RoutesInv, NEW key, Rou!Worse(key)
    PROVE  errors' \in [Rou!Keys -> 0..Bench]
<1>1. Bench \in Nat
  BY ServicesAssumption DEF Rou!RoutingAssumption
<1>2. CASE key \in Rou!Keys
  BY <1>1, <1>2 DEF RoutesInv, Rou!Worse
<1>3. CASE key \notin Rou!Keys
  BY Zenon, <1>3 DEF RoutesInv, Rou!Worse
<1>4. QED
  BY <1>2, <1>3

\* A request that moves on, having asked a model.
LEMMA GotoKeeps ==
    ASSUME RoutesInv, NEW c \in Requesters,
           NEW label \in {"backup", "last", "unserved"}, NEW key \in Rou!Keys, Rou!HasClient(key),
           Rou!Goto(c, label, key),
           label = "last" => {request[c].model, request[c].backup}
                                \subseteq request[c].asked \cup {key, "none"},
           label = "backup" => /\ request[c].backup \in Rou!Keys /\ Rou!HasClient(request[c].backup)
                               /\ request[c].model = key,
           label = "unserved" => request[c].desperate,
           keyed' = keyed, errors' \in [Rou!Keys -> 0..Bench]
    PROVE  RoutesInv'
<1> DEFINE r == [request[c] EXCEPT !.pc = label, !.asked = @ \cup {key}]
<1>1. request[c] \in Routed /\ RouteKnows(request[c])
  BY DEF RoutesInv
<1>2. /\ r \in Routed /\ r.pc = label /\ r.model = request[c].model /\ r.backup = request[c].backup
      /\ r.desperate = request[c].desperate /\ r.asked = request[c].asked \cup {key}
  BY Zenon, <1>1 DEF Routed
<1>3. request' = [request EXCEPT ![c] = r]
  BY Zenon DEF Rou!Goto, RoutesInv
<1> HIDE DEF r
<1>4. RouteKnows(r)
  BY <1>1, <1>2 DEF RouteKnows
<1>5. QED
  BY Zenon, <1>2, <1>3, <1>4, RouteGoes

\* An answer ends the request and mends its model.
LEMMA AnswersKeep ==
    ASSUME RoutesInv, NEW c \in Requesters, Rou!PrimaryAnswers(c) \/ Rou!BackupAnswers(c) PROVE RoutesInv'
<1>1. Bench \in Nat
  BY ServicesAssumption DEF Rou!RoutingAssumption
<1>2. errors' \in [Rou!Keys -> 0..Bench] /\ keyed' = keyed /\ request' = [request EXCEPT ![c] = Rou!New]
  BY <1>1 DEF RoutesInv, Rou!PrimaryAnswers, Rou!BackupAnswers, Rou!Done
<1>3. QED
  BY Zenon, <1>2, FreshKnows, RouteGoes

\* After its model a request asks its fallback, if that has a client.
LEMMA PrimaryFailsKeeps ==
    ASSUME RoutesInv, NEW c \in Requesters, Rou!PrimaryFails(c) PROVE RoutesInv'
<1> DEFINE r == request[c]
           label == IF r.backup = "none" THEN "last"
                    ELSE IF Rou!HasClient(r.backup) THEN "backup" ELSE "unserved"
<1>1. r \in Routed /\ RouteKnows(r) /\ r.pc = "primary"
  BY DEF RoutesInv, Rou!PrimaryFails
<1>2. keyed' = keyed /\ errors' \in [Rou!Keys -> 0..Bench]
  BY WorseTyped DEF Rou!PrimaryFails
<1>3. CASE Rou!Done(c)
  BY Zenon, <1>2, <1>3, FreshKnows, RouteGoes DEF Rou!Done
<1>4. CASE Rou!Goto(c, label, r.model)
  <2>1. r.model \in Rou!Keys /\ Rou!HasClient(r.model) /\ r.backup \in Rou!Keys \cup {"none"}
        /\ (r.backup = "none" \/ Rou!HasClient(r.backup) \/ r.desperate)
    BY <1>1 DEF RouteKnows, Routed
  <2>2. label \in {"backup", "last", "unserved"}
    OBVIOUS
  <2>3. /\ label = "last" => r.backup = "none"
        /\ label = "backup" => r.backup \in Rou!Keys /\ Rou!HasClient(r.backup)
        /\ label = "unserved" => r.desperate
    BY <2>1
  <2> HIDE DEF label
  <2>4. QED
    BY <1>2, <1>4, <2>1, <2>2, <2>3, GotoKeeps
<1>5. QED
  BY <1>3, <1>4 DEF Rou!PrimaryFails

\* After the fallback come the models of last resort.
LEMMA BackupFailsKeeps ==
    ASSUME RoutesInv, NEW c \in Requesters, Rou!BackupFails(c) PROVE RoutesInv'
<1>1. request[c] \in Routed /\ RouteKnows(request[c]) /\ request[c].pc = "backup"
  BY DEF RoutesInv, Rou!BackupFails
<1>2. keyed' = keyed /\ errors' \in [Rou!Keys -> 0..Bench]
  BY WorseTyped DEF Rou!BackupFails
<1>3. QED
  BY <1>1, <1>2, GotoKeeps DEF RouteKnows, Rou!BackupFails

\* The last resorts are asked in the order of the catalog.
LEMMA FirstLeft ==
    ASSUME NEW left, left \subseteq Rou!Keys, left # {}
    PROVE  (CHOOSE k \in left : \A l \in left : Rou!Place(k) <= Rou!Place(l)) \in left
<1>1. \A k \in left : Rou!Place(k) \in DOMAIN Catalog
  BY DEF Rou!Place, Rou!Keys
<1>2. {Rou!Place(k) : k \in left} \subseteq Nat
  BY <1>1, ServicesAssumption DEF Rou!RoutingAssumption
<1>3. PICK n \in {Rou!Place(k) : k \in left} : \A m \in {Rou!Place(k) : k \in left} : n <= m
  BY Zenon, <1>2, LeastOf
<1>4. \E k \in left : \A l \in left : Rou!Place(k) <= Rou!Place(l)
  BY <1>3
<1>5. QED
  BY <1>4

\* Each model of last resort is asked once, in its turn.
LEMMA AskLastKeeps ==
    ASSUME RoutesInv, NEW c \in Requesters, Rou!AskLast(c) PROVE RoutesInv'
<1> DEFINE left == Rou!Resort(c) \ request[c].asked
           key == CHOOSE k \in left : \A l \in left : Rou!Place(k) <= Rou!Place(l)
<1>1. request[c] \in Routed /\ RouteKnows(request[c]) /\ request[c].pc = "last"
  BY DEF RoutesInv, Rou!AskLast
<1>2. keyed' = keyed /\ errors' \in [Rou!Keys -> 0..Bench]
  BY DEF RoutesInv, Rou!AskLast
<1>3. CASE left = {}
  <2> DEFINE r == [request[c] EXCEPT !.pc = "raised"]
  <2>1. /\ r \in Routed /\ r.pc = "raised" /\ r.model = request[c].model
        /\ r.backup = request[c].backup /\ r.asked = request[c].asked
    BY <1>1 DEF Routed
  <2>2. request' = [request EXCEPT ![c] = r]
    BY <1>3 DEF Rou!AskLast
  <2> HIDE DEF r
  <2>3. {r.model, r.backup} \cup {k \in Rou!Keys : Rou!Of(k).provider = LastResort /\ Rou!HasClient(k)}
            \subseteq r.asked \cup {"none"}
    BY <1>1, <1>3, <2>1 DEF RouteKnows, Rou!Resort
  <2>4. RouteKnows(r)
    BY <1>1, <2>1, <2>3 DEF RouteKnows
  <2>5. QED
    BY Zenon, <1>2, <2>1, <2>2, <2>4, RouteGoes
<1>4. CASE left # {}
  <2>1. left \subseteq {k \in Rou!Keys : Rou!HasClient(k)}
    BY DEF Rou!Resort
  <2>2. key \in left
    BY Zenon, <1>4, <2>1, FirstLeft
  <2>3. Rou!Done(c) \/ Rou!Goto(c, "last", key)
    BY <1>4 DEF Rou!AskLast
  <2> HIDE DEF left, key
  <2>4. CASE Rou!Done(c)
    BY Zenon, <1>2, <2>4, FreshKnows, RouteGoes DEF Rou!Done
  <2>5. CASE Rou!Goto(c, "last", key)
    <3>1. {request[c].model, request[c].backup} \subseteq request[c].asked \cup {key, "none"}
      BY <1>1 DEF RouteKnows
    <3>2. QED
      BY <1>2, <2>1, <2>2, <2>5, <3>1, GotoKeeps
  <2>6. QED
    BY <2>3, <2>4, <2>5
<1>5. QED
  BY <1>3, <1>4

\* The router keeps its invariant.
LEMMA RoutesStep == ASSUME RoutesInv, [Next]_vars PROVE RoutesInv'
<1>1. CASE UNCHANGED Rou!vars
  BY <1>1 DEF Rou!vars, Rou!routing, RoutesInv, RouteKnows, Rou!HasClient
<1>2. CASE Rou!Next
  BY <1>2, RouteAssignedKeeps, RouteScoredKeeps, AnswersKeep, PrimaryFailsKeeps, BackupFailsKeeps,
     AskLastKeeps DEF Rou!Next
<1>3. QED
  BY <1>1, <1>2, RoutesMove

\* Nobody asks yet.
LEMMA RoutesStart == Init => RoutesInv
<1> SUFFICES ASSUME Init PROVE RoutesInv
  OBVIOUS
<1>1. Bench \in Nat
  BY ServicesAssumption DEF Rou!RoutingAssumption
<1>2. QED
  BY <1>1, FreshKnows DEF Init, Rou!Init, RoutesInv

\* Whatever other requests make of the models' health, a request is given up only when its
\* model, its fallback and every last resort have failed it (router.py:234).
THEOREM GivenUpLastOfAll == Spec => []Rou!GivenUpLast
<1>1. RoutesInv => Rou!GivenUpLast
  BY DEF RoutesInv, RouteKnows, Rou!GivenUpLast
<1>2. QED
  BY <1>1, RoutesStart, RoutesStep, PTL DEF Spec

\* A benched model is forgiven only for what it answers as a first choice, and taken only
\* by a request for which nothing else qualified (router.py:383).
THEOREM BenchIsKept == Spec => Rou!BenchedStays
<1> DEFINE Kept ==
        \A key \in Rou!Keys : errors[key] = Bench =>
            /\ errors'[key] # Bench =>
                  \E c \in Requesters : request[c].pc = "primary" /\ request[c].model = key
            /\ \A c \in Requesters :
                  request[c].pc # "primary" /\ request'[c].pc = "primary"
                      /\ request'[c].model = key => request'[c].desperate
<1>1. ASSUME RoutesInv, [Next]_vars PROVE [Kept]_(Rou!vars)
  <2>1. SUFFICES ASSUME Rou!Next, NEW key \in Rou!Keys, errors[key] = Bench
                 PROVE  /\ errors'[key] # Bench =>
                              \E c \in Requesters : request[c].pc = "primary" /\ request[c].model = key
                        /\ \A c \in Requesters :
                              request[c].pc # "primary" /\ request'[c].pc = "primary"
                                  /\ request'[c].model = key => request'[c].desperate
    BY <1>1, RoutesMove
  <2>2. PICK c \in Requesters :
           \/ \E task \in Kinds : Rou!RouteAssigned(c, task) \/ Rou!RouteScored(c, task)
           \/ Rou!PrimaryAnswers(c) \/ Rou!PrimaryFails(c) \/ Rou!BackupAnswers(c) \/ Rou!BackupFails(c)
           \/ Rou!AskLast(c)
    BY <2>1 DEF Rou!Next
  <2>3. Bench \in Nat /\ \A d \in Requesters : request[d] \in Routed
    BY <1>1, ServicesAssumption DEF Rou!RoutingAssumption, RoutesInv
  <2>4. errors'[key] # Bench =>
            \E d \in Requesters : request[d].pc = "primary" /\ request[d].model = key
    <3>1. errors \in [Rou!Keys -> 0..Bench]
      BY <1>1 DEF RoutesInv
    <3>2. ASSUME NEW k, Rou!Worse(k) PROVE errors'[key] = Bench
      BY <2>1, <2>3, <3>1, <3>2 DEF Rou!Worse
    <3>3. CASE Rou!PrimaryAnswers(c)
      BY <2>1, <3>1, <3>3 DEF Rou!PrimaryAnswers
    <3>4. CASE Rou!PrimaryFails(c) \/ Rou!BackupFails(c)
      BY <3>2, <3>4 DEF Rou!PrimaryFails, Rou!BackupFails
    <3>5. CASE UNCHANGED errors
      BY <2>1, <3>5
    <3>6. QED
      BY Zenon, <2>2, <3>3, <3>4, <3>5 DEF Rou!RouteAssigned, Rou!RouteScored, Rou!BackupAnswers, Rou!AskLast
  <2>5. ASSUME NEW d \in Requesters, request[d].pc # "primary", request'[d].pc = "primary",
               request'[d].model = key
        PROVE  request'[d].desperate
    <3>1. \A r : request' = [request EXCEPT ![c] = r] => request'[d] \in {r, request[d]}
      BY <1>1, <2>5 DEF RoutesInv
    <3>2. CASE \E task \in Kinds : Rou!RouteAssigned(c, task)
      <4>1. PICK task \in Kinds : Rou!RouteAssigned(c, task)
        BY <3>2
      <4>2. request'[d].model = task.model /\ errors[task.model] < Bench
        <5> DEFINE r == [Rou!New EXCEPT
                  !.pc = IF Rou!HasClient(task.model) THEN "primary" ELSE "unserved",
                  !.model = task.model, !.backup = Rou!Fallback(task.model), !.desperate = FALSE]
        <5>1. request' = [request EXCEPT ![c] = r] /\ errors[task.model] < Bench
          BY <4>1 DEF Rou!RouteAssigned, Rou!Assigned, Rou!Decide
        <5>2. r.model = task.model
          BY DEF Rou!New
        <5> HIDE DEF r
        <5>3. QED
          BY <5>1, <5>2, <3>1, <2>5
      <4>3. QED
        BY <2>1, <2>3, <2>5, <4>2
    <3>3. CASE \E task \in Kinds : Rou!RouteScored(c, task)
      <4>1. PICK task \in Kinds : Rou!RouteScored(c, task)
        BY <3>3
      <4>2. PICK k, s : /\ k \in Rou!Keys /\ Rou!Decide(c, k, s, Rou!Candidates(task) = {})
                        /\ (k \in Rou!Candidates(task) \/ Rou!Candidates(task) = {})
        BY <4>1 DEF Rou!RouteScored, Rou!Candidates
      <4>3. /\ request'[d].model = k
            /\ request'[d].desperate = (Rou!Candidates(task) = {})
        <5> DEFINE r == [Rou!New EXCEPT !.pc = IF Rou!HasClient(k) THEN "primary" ELSE "unserved",
                           !.model = k, !.backup = s, !.desperate = Rou!Candidates(task) = {}]
        <5>1. request' = [request EXCEPT ![c] = r]
          BY <4>2 DEF Rou!Decide
        <5>2. r.model = k /\ r.desperate = (Rou!Candidates(task) = {})
          BY DEF Rou!New
        <5> HIDE DEF r
        <5>3. request'[d] = r
          BY <5>1, <3>1, <2>5
        <5>4. QED
          BY <5>2, <5>3
      <4>4. k \notin Rou!Candidates(task)
        BY <2>1, <2>3, <2>5, <4>3 DEF Rou!Candidates
      <4>5. QED
        BY Zenon, <4>2, <4>3, <4>4
    <3>4. CASE Rou!PrimaryAnswers(c) \/ Rou!BackupAnswers(c) \/ Rou!Done(c)
      <4>1. request' = [request EXCEPT ![c] = Rou!New] /\ Rou!New.pc = "idle"
        BY <3>4 DEF Rou!PrimaryAnswers, Rou!BackupAnswers, Rou!Done, Rou!New
      <4>2. QED
        BY <4>1, <3>1, <2>5
    <3>5. ASSUME NEW label, label # "primary", NEW k, Rou!Goto(c, label, k) PROVE FALSE
      <4>1. request[c] \in Routed
        BY <2>3
      <4> DEFINE r == [request[c] EXCEPT !.pc = label, !.asked = @ \cup {k}]
      <4>2. request' = [request EXCEPT ![c] = r] /\ r.pc = label
        BY Zenon, <4>1, <3>5 DEF Rou!Goto, Routed
      <4> HIDE DEF r
      <4>3. QED
        BY <4>2, <3>1, <3>5, <2>5
    <3>6. CASE Rou!PrimaryFails(c)
      BY <3>4, <3>5, <3>6 DEF Rou!PrimaryFails
    <3>7. CASE Rou!BackupFails(c)
      BY <3>5, <3>7 DEF Rou!BackupFails
    <3>8. CASE Rou!AskLast(c)
      <4>1. CASE request' = [request EXCEPT ![c].pc = "raised"]
        <5>1. [request[c] EXCEPT !.pc = "raised"].pc = "raised"
          BY <2>3 DEF Routed
        <5>2. QED
          BY <5>1, <4>1, <3>1, <2>5
      <4>2. QED
        BY <3>4, <3>5, <3>8, <4>1 DEF Rou!AskLast
    <3>9. QED
      BY <2>2, <3>2, <3>3, <3>4, <3>6, <3>7, <3>8
  <2>6. QED
    BY <2>4, <2>5
<1>2. QED
  BY <1>1, RoutesStart, RoutesStep, PTL DEF Spec, Rou!BenchedStays

-----------------------------------------------------------------------------
(* What research spends.                                                    *)

Doings ==
    [pc : {"idle", "month", "gaps", "next", "scrape", "synthesize", "round", "dig"},
     left : 0..(Gaps + Scrapes + Domains + PerRound), questions : 0..(Questions + Rounds),
     cost : 0..CycleLimit, blind : BOOLEAN]

\* The charges that are left to a cycle.
ToCome(d) ==
    IF d.pc = "gaps" THEN d.left + Questions * Scrapes + CycleLimit + Domains
    ELSE IF d.pc = "next" THEN d.questions * Scrapes + (CycleLimit - d.cost) + Domains
    ELSE IF d.pc = "scrape" THEN d.left + d.questions * Scrapes + (CycleLimit - d.cost) + Domains
    ELSE IF d.pc = "synthesize" THEN d.left ELSE 0

\* The charges that are left to a round.
RoundToCome(d) == IF d.pc = "dig" THEN d.left ELSE 0

Spending ==
    /\ today \in 0..MonthLimit /\ before \in Nat /\ days \in 0..1
    /\ doing \in [Money!Threads -> Doings] /\ beyond \in [Money!Threads -> Nat]

\* Whoever has charged beyond a limit finds it reached when it asks again that day.
BeyondIsSpent ==
    \A t \in Money!Threads : beyond[t] > 0 =>
        /\ Money!Spent(t)
        /\ doing[t].pc = "month" /\ ~doing[t].blind => Money!Month >= MonthLimit

\* What a thread has charged beyond, with what is left to it, is one admission at most.
Admitted ==
    /\ \A t \in Cyclers :
          /\ doing[t].pc \notin {"round", "dig"}
          /\ doing[t].pc = "scrape" => doing[t].cost < CycleLimit
          /\ beyond[t] <= Money!PerCycle
          /\ ~doing[t].blind => beyond[t] + ToCome(doing[t]) <= Money!PerCycle
    /\ \A t \in Gappers :
          /\ doing[t].pc \in {"idle", "round", "dig"}
          /\ beyond[t] <= PerRound
          /\ ~doing[t].blind => beyond[t] + RoundToCome(doing[t]) <= PerRound

MoneyInv == Spending /\ BeyondIsSpent /\ Admitted

\* A part of the services moves by its own steps, or rests.
LEMMA MoneyMoves == [Next]_vars => [Money!Next]_(Money!vars)
BY DEF Next, Rest, vars, money, Money!vars

\* What the constants of research are.
LEMMA MoneyNumbers ==
    /\ DayLimit \in Nat \ {0} /\ MonthLimit \in Nat \ {0} /\ DayLimit <= MonthLimit
    /\ Reserve \in Nat \ {0} /\ CycleLimit \in Nat \ {0} /\ Gaps \in Nat \ {0}
    /\ Questions \in Nat \ {0} /\ Scrapes \in Nat \ {0} /\ Domains \in Nat \ {0}
    /\ Rounds \in Nat \ {0} /\ PerRound \in Nat \ {0}
    /\ Earlier \subseteq Nat /\ Cyclers \cap Gappers = {}
BY ServicesAssumption DEF Money!ResearchAssumption

\* What scraping may cost grows with the questions.
LEMMA Products ==
    /\ \A q, s \in Nat : q * s \in Nat /\ (q > 0 => (q - 1) * s + s = q * s)
    /\ \A n, q, s \in Nat : n <= q => n * s <= q * s
<1>1. \A q, s \in Nat : q * s \in Nat /\ (q > 0 => (q - 1) * s + s = q * s)
  OBVIOUS
<1>2. ASSUME NEW n \in Nat, NEW q \in Nat, NEW s \in Nat, n <= q PROVE n * s <= q * s
  <2>1. PICK m \in Nat : q = n + m
    <3>1. q - n \in Nat /\ q = n + (q - n)
      BY <1>2
    <3>2. QED
      BY <3>1
  <2>2. q * s = n * s + m * s /\ m * s \in Nat /\ n * s \in Nat
    BY <2>1
  <2>3. QED
    BY <2>2
<1>3. QED
  BY <1>1, <1>2

\* What an admission still may spend is a number.
LEMMA ToComeIsANumber ==
    ASSUME NEW d \in Doings
    PROVE  ToCome(d) \in Nat /\ RoundToCome(d) \in Nat
<1>1. /\ d.left \in Nat /\ d.questions \in Nat /\ d.cost \in Nat /\ CycleLimit - d.cost \in Nat
      /\ Gaps \in Nat /\ Domains \in Nat /\ Scrapes \in Nat /\ Questions \in Nat /\ CycleLimit \in Nat
  BY MoneyNumbers DEF Doings
<1>2. d.questions * Scrapes \in Nat /\ Questions * Scrapes \in Nat
  BY <1>1, Products
<1>3. QED
  BY <1>1, <1>2 DEF ToCome, RoundToCome

\* The log of the day only grows until midnight, and so does the month's.
LEMMA LogGrows ==
    ASSUME MoneyInv, NEW t \in Money!Threads, Money!Charge(t) \/ Money!Same
    PROVE  /\ today' \in 0..MonthLimit /\ today' >= today
           /\ before' = before /\ days' = days
           /\ Money!Month >= MonthLimit => Money!Month' >= MonthLimit
           /\ \A u \in Money!Threads : Money!Spent(u) => Money!Spent(u)'
<1>1. today \in 0..MonthLimit /\ before \in Nat
  BY DEF MoneyInv, Spending
<1>2. today' \in 0..MonthLimit /\ today' >= today /\ before' = before /\ days' = days
  BY <1>1, MoneyNumbers DEF Money!Charge, Money!Same, Money!Upto
<1>3. Money!Month >= MonthLimit => Money!Month' >= MonthLimit
  <2>1. \A n \in Nat : Money!Upto(n) >= MonthLimit <=> n >= MonthLimit
    BY MoneyNumbers DEF Money!Upto
  <2>2. Money!Month = Money!Upto(before + today) /\ Money!Month' = Money!Upto(before' + today')
    BY DEF Money!Month, Money!Upto
  <2>3. PICK b \in Nat, m \in Nat, n \in Nat :
           b = before /\ b = before' /\ m = today /\ n = today' /\ n >= m
    BY <1>1, <1>2
  <2>4. Money!Month = Money!Upto(b + m) /\ Money!Month' = Money!Upto(b + n)
    BY <2>2, <2>3
  <2>5. b + m \in Nat /\ b + n \in Nat /\ (b + m >= MonthLimit => b + n >= MonthLimit)
    <3>1. n >= m /\ MonthLimit \in Nat
      BY <2>3, MoneyNumbers
    <3>2. QED
      BY <3>1
  <2>6. QED
    BY <2>1, <2>4, <2>5
<1>4. \A u \in Money!Threads : Money!Spent(u) => Money!Spent(u)'
  BY <1>1, <1>2, <1>3, MoneyNumbers DEF Money!Spent
<1>5. QED
  BY <1>2, <1>3, <1>4

\* A charge beyond a limit counts for whoever makes it; the limit stays reached.
LEMMA ChargeCounts ==
    ASSUME MoneyInv, NEW t \in Money!Threads, Money!Charge(t) \/ Money!Same
    PROVE  /\ beyond' \in [Money!Threads -> Nat]
           /\ \A u \in Money!Threads : u # t => beyond'[u] = beyond[u]
           /\ Money!Same => beyond' = beyond
           /\ doing[t].blind => beyond'[t] = beyond[t]
           /\ beyond'[t] <= beyond[t] + 1
           /\ \A u \in Money!Threads : beyond'[u] > 0 => Money!Spent(u)'
<1>1. beyond \in [Money!Threads -> Nat]
  BY DEF MoneyInv, Spending
<1>3. /\ beyond' \in [Money!Threads -> Nat]
      /\ \A u \in Money!Threads : u # t => beyond'[u] = beyond[u]
      /\ Money!Same => beyond' = beyond
      /\ doing[t].blind => beyond'[t] = beyond[t]
      /\ beyond'[t] <= beyond[t] + 1
      /\ beyond'[t] > beyond[t] => Money!Spent(t)
  <2>1. PICK n \in {beyond[t], beyond[t] + 1} :
           /\ beyond' = [beyond EXCEPT ![t] = n]
           /\ n = beyond[t] \/ (Money!Spent(t) /\ ~doing[t].blind)
    <3>1. CASE Money!Same
      BY <1>1, <3>1 DEF Money!Same
    <3>2. CASE Money!Charge(t) /\ Money!Spent(t) /\ ~doing[t].blind
      BY Zenon, <1>1, <3>2 DEF Money!Charge
    <3>3. CASE Money!Charge(t) /\ ~(Money!Spent(t) /\ ~doing[t].blind)
      BY Zenon, <1>1, <3>3 DEF Money!Charge
    <3>4. QED
      BY <3>1, <3>2, <3>3
  <2>2. beyond[t] \in Nat /\ beyond'[t] = n
    BY <1>1, <2>1
  <2>3. Money!Same => beyond' = beyond
    BY DEF Money!Same
  <2>4. QED
    BY <1>1, <2>1, <2>2, <2>3
<1>4. \A u \in Money!Threads : beyond'[u] > 0 => Money!Spent(u)'
  BY <1>1, <1>3, LogGrows DEF MoneyInv, BeyondIsSpent
<1>5. QED
  BY <1>3, <1>4
\* A thread that goes on, having charged no more than was left to it.
LEMMA CyclerGoes ==
    ASSUME MoneyInv, NEW t \in Cyclers, NEW d \in Doings, doing' = [doing EXCEPT ![t] = d],
           d.pc \notin {"round", "dig"}, d.pc = "scrape" => d.cost < CycleLimit,
           \/ /\ Money!Same
              /\ ~d.blind => beyond[t] + ToCome(d) <= Money!PerCycle
              /\ d.pc = "month" /\ ~d.blind /\ beyond[t] > 0 => Money!Month >= MonthLimit
           \/ /\ Money!Charge(t) /\ d.blind = doing[t].blind /\ d.pc # "month"
              /\ ToCome(d) + 1 <= ToCome(doing[t])
    PROVE  MoneyInv'
<1>0. t \in Money!Threads /\ \A u \in Gappers : u # t /\ u \in Money!Threads
  BY MoneyNumbers DEF Money!Threads
<1>1. /\ doing \in [Money!Threads -> Doings] /\ beyond \in [Money!Threads -> Nat]
  BY DEF MoneyInv, Spending
<1>2. /\ doing' \in [Money!Threads -> Doings] /\ doing'[t] = d
      /\ \A u \in Money!Threads : u # t => doing'[u] = doing[u]
  BY <1>0, <1>1
<1>3. Spending'
  BY <1>0, <1>2, LogGrows, ChargeCounts DEF Spending, MoneyInv
<1>4. BeyondIsSpent'
  <2>1. ASSUME NEW u \in Money!Threads, beyond'[u] > 0, doing'[u].pc = "month", ~doing'[u].blind
        PROVE  Money!Month' >= MonthLimit
    <3>1. CASE u # t
      BY <1>0, <1>1, <1>2, <2>1, <3>1, LogGrows, ChargeCounts DEF MoneyInv, BeyondIsSpent
    <3>2. CASE u = t
      BY <1>0, <1>2, <2>1, <3>2, LogGrows, ChargeCounts
    <3>3. QED
      BY <3>1, <3>2
  <2>2. QED
    BY <1>0, <2>1, ChargeCounts DEF BeyondIsSpent
<1>5. Admitted'
  <2>1. ASSUME NEW u \in Cyclers, u # t
        PROVE  /\ doing'[u].pc \notin {"round", "dig"}
               /\ doing'[u].pc = "scrape" => doing'[u].cost < CycleLimit
               /\ beyond'[u] <= Money!PerCycle
               /\ ~doing'[u].blind => beyond'[u] + ToCome(doing'[u]) <= Money!PerCycle
    <3>1. u \in Money!Threads
      BY DEF Money!Threads
    <3>2. doing'[u] = doing[u] /\ beyond'[u] = beyond[u]
      BY <1>0, <1>2, <2>1, <3>1, ChargeCounts
    <3>3. QED
      BY <2>1, <3>2 DEF MoneyInv, Admitted
  <2>2. /\ d.pc \notin {"round", "dig"} /\ (d.pc = "scrape" => d.cost < CycleLimit)
        /\ beyond'[t] <= Money!PerCycle
        /\ ~d.blind => beyond'[t] + ToCome(d) <= Money!PerCycle
    <3>1. /\ ToCome(d) \in Nat /\ ToCome(doing[t]) \in Nat /\ beyond[t] \in Nat /\ beyond'[t] \in Nat
      BY <1>0, <1>1, ChargeCounts, ToComeIsANumber
    <3>2. /\ beyond[t] <= Money!PerCycle
          /\ ~doing[t].blind => beyond[t] + ToCome(doing[t]) <= Money!PerCycle
      BY DEF MoneyInv, Admitted
    <3>3. Money!PerCycle \in Nat
      BY MoneyNumbers, Products DEF Money!PerCycle
    <3>4. CASE Money!Same /\ (~d.blind => beyond[t] + ToCome(d) <= Money!PerCycle)
      BY <1>0, <3>1, <3>2, <3>4, ChargeCounts
    <3>5. CASE /\ Money!Charge(t) /\ d.blind = doing[t].blind
               /\ ToCome(d) + 1 <= ToCome(doing[t])
      BY <1>0, <3>1, <3>2, <3>3, <3>5, ChargeCounts
    <3>6. QED
      BY <3>4, <3>5
  <2>3. ASSUME NEW u \in Gappers
        PROVE  /\ doing'[u].pc \in {"idle", "round", "dig"}
               /\ beyond'[u] <= PerRound
               /\ ~doing'[u].blind => beyond'[u] + RoundToCome(doing'[u]) <= PerRound
    <3>2. doing'[u] = doing[u] /\ beyond'[u] = beyond[u]
      BY <1>0, <1>2, <2>3, ChargeCounts
    <3>3. QED
      BY <2>3, <3>2 DEF MoneyInv, Admitted
  <2>4. QED
    BY <1>2, <2>1, <2>2, <2>3 DEF Admitted, Money!PerCycle, ToCome, RoundToCome
<1>6. QED
  BY <1>3, <1>4, <1>5 DEF MoneyInv

\* A thread that fills gaps stays within one round.
LEMMA GapperGoes ==
    ASSUME MoneyInv, NEW t \in Gappers, NEW d \in Doings, doing' = [doing EXCEPT ![t] = d],
           d.pc \in {"idle", "round", "dig"},
           \/ Money!Same /\ (~d.blind => beyond[t] + RoundToCome(d) <= PerRound)
           \/ /\ Money!Charge(t) /\ d.blind = doing[t].blind
              /\ RoundToCome(d) + 1 <= RoundToCome(doing[t])
    PROVE  MoneyInv'
<1>0. t \in Money!Threads /\ \A u \in Cyclers : u # t /\ u \in Money!Threads
  BY MoneyNumbers DEF Money!Threads
<1>1. /\ doing \in [Money!Threads -> Doings] /\ beyond \in [Money!Threads -> Nat]
  BY DEF MoneyInv, Spending
<1>2. /\ doing' \in [Money!Threads -> Doings] /\ doing'[t] = d
      /\ \A u \in Money!Threads : u # t => doing'[u] = doing[u]
  BY <1>0, <1>1
<1>3. Spending'
  BY <1>0, <1>2, LogGrows, ChargeCounts DEF Spending, MoneyInv
<1>4. BeyondIsSpent'
  <2>1. ASSUME NEW u \in Money!Threads, beyond'[u] > 0, doing'[u].pc = "month", ~doing'[u].blind
        PROVE  Money!Month' >= MonthLimit
    <3>1. u # t
      BY <1>2, <2>1
    <3>2. QED
      BY <1>0, <1>1, <1>2, <2>1, <3>1, LogGrows, ChargeCounts DEF MoneyInv, BeyondIsSpent
  <2>2. QED
    BY <1>0, <2>1, ChargeCounts DEF BeyondIsSpent
<1>5. Admitted'
  <2>1. ASSUME NEW u \in Gappers, u # t
        PROVE  /\ doing'[u].pc \in {"idle", "round", "dig"}
               /\ beyond'[u] <= PerRound
               /\ ~doing'[u].blind => beyond'[u] + RoundToCome(doing'[u]) <= PerRound
    <3>1. u \in Money!Threads
      BY DEF Money!Threads
    <3>2. doing'[u] = doing[u] /\ beyond'[u] = beyond[u]
      BY <1>0, <1>2, <2>1, <3>1, ChargeCounts
    <3>3. QED
      BY <2>1, <3>2 DEF MoneyInv, Admitted
  <2>2. /\ beyond'[t] <= PerRound
        /\ ~d.blind => beyond'[t] + RoundToCome(d) <= PerRound
    <3>1. /\ RoundToCome(d) \in Nat /\ RoundToCome(doing[t]) \in Nat
          /\ beyond[t] \in Nat /\ beyond'[t] \in Nat /\ PerRound \in Nat
      BY <1>0, <1>1, ChargeCounts, ToComeIsANumber, MoneyNumbers
    <3>2. /\ beyond[t] <= PerRound
          /\ ~doing[t].blind => beyond[t] + RoundToCome(doing[t]) <= PerRound
      BY DEF MoneyInv, Admitted
    <3>4. CASE Money!Same /\ (~d.blind => beyond[t] + RoundToCome(d) <= PerRound)
      BY <1>0, <3>1, <3>2, <3>4, ChargeCounts
    <3>5. CASE /\ Money!Charge(t) /\ d.blind = doing[t].blind
               /\ RoundToCome(d) + 1 <= RoundToCome(doing[t])
      BY <1>0, <3>1, <3>2, <3>5, ChargeCounts
    <3>6. QED
      BY <3>4, <3>5
  <2>3. ASSUME NEW u \in Cyclers
        PROVE  /\ doing'[u].pc \notin {"round", "dig"}
               /\ doing'[u].pc = "scrape" => doing'[u].cost < CycleLimit
               /\ beyond'[u] <= Money!PerCycle
               /\ ~doing'[u].blind => beyond'[u] + ToCome(doing'[u]) <= Money!PerCycle
    <3>2. doing'[u] = doing[u] /\ beyond'[u] = beyond[u]
      BY <1>0, <1>2, <2>3, ChargeCounts
    <3>3. QED
      BY <2>3, <3>2 DEF MoneyInv, Admitted
  <2>4. QED
    BY <1>2, <2>1, <2>2, <2>3 DEF Admitted, Money!PerCycle, ToCome, RoundToCome
<1>6. QED
  BY <1>3, <1>4, <1>5 DEF MoneyInv

\* The bounds of what a thread keeps are numbers.
LEMMA MoneyBounds ==
    /\ Gaps + Scrapes + Domains + PerRound \in Nat /\ Questions + Rounds \in Nat
    /\ Gaps <= Gaps + Scrapes + Domains + PerRound /\ Scrapes <= Gaps + Scrapes + Domains + PerRound
    /\ Domains <= Gaps + Scrapes + Domains + PerRound /\ PerRound <= Gaps + Scrapes + Domains + PerRound
    /\ Questions <= Questions + Rounds /\ Rounds <= Questions + Rounds
    /\ Money!PerCycle \in Nat
<1>1. /\ Gaps \in Nat /\ Scrapes \in Nat /\ Domains \in Nat /\ PerRound \in Nat
      /\ Questions \in Nat /\ Rounds \in Nat /\ CycleLimit \in Nat
  BY MoneyNumbers
<1>2. Questions * Scrapes \in Nat
  BY <1>1, Products
<1>3. Money!PerCycle \in Nat
  BY <1>1, <1>2 DEF Money!PerCycle
<1>4. QED
  BY <1>1, <1>3

\* What is known of a thread of research before its step.
LEMMA ThreadKnown ==
    ASSUME MoneyInv, NEW t \in Money!Threads
    PROVE  /\ doing[t] \in Doings /\ beyond[t] \in Nat
           /\ doing[t].left \in Nat /\ doing[t].questions \in Nat /\ doing[t].cost \in Nat
           /\ doing[t].left <= Gaps + Scrapes + Domains + PerRound
           /\ doing[t].questions <= Questions + Rounds
           /\ doing[t].cost <= CycleLimit /\ CycleLimit - doing[t].cost \in Nat
           /\ doing[t].blind \in BOOLEAN
           /\ ToCome(doing[t]) \in Nat /\ RoundToCome(doing[t]) \in Nat
<1>1. doing[t] \in Doings /\ beyond[t] \in Nat
  BY DEF MoneyInv, Spending
<1>2. CycleLimit \in Nat
  BY MoneyNumbers
<1>3. QED
  BY <1>1, <1>2, MoneyBounds, ToComeIsANumber DEF Doings

\* A call less is left to a thread.
LEMMA OneLess ==
    ASSUME MoneyInv, NEW t \in Money!Threads, doing[t].left > 0
    PROVE  [doing[t] EXCEPT !.left = doing[t].left - 1] \in Doings
<1>1. /\ doing[t] \in Doings /\ doing[t].left \in Nat
      /\ doing[t].left <= Gaps + Scrapes + Domains + PerRound
  BY ThreadKnown
<1>2. doing[t].left - 1 \in 0..(Gaps + Scrapes + Domains + PerRound)
  BY <1>1, MoneyBounds
<1>3. QED
  BY <1>1, <1>2 DEF Doings

\* A call of a cycle, with one call less to make.
LEMMA CyclerCalls ==
    ASSUME MoneyInv, NEW t \in Cyclers, NEW label \in {"gaps", "scrape", "synthesize"},
           Money!CallOne(t, label)
    PROVE  MoneyInv'
<1> DEFINE d == [doing[t] EXCEPT !.left = doing[t].left - 1]
<1>1. t \in Money!Threads
  BY DEF Money!Threads
<1>2. doing[t].pc = label /\ doing[t].left \in Nat \ {0} /\ doing' = [doing EXCEPT ![t] = d]
  BY <1>1, ThreadKnown DEF Money!CallOne
<1>3. d \in Doings /\ d.pc = label /\ d.blind = doing[t].blind /\ d.left = doing[t].left - 1
      /\ d.questions = doing[t].questions /\ d.cost = doing[t].cost
  <2>1. d \in Doings
    BY <1>1, <1>2, OneLess
  <2>2. doing[t] \in Doings
    BY <1>1, ThreadKnown
  <2>3. QED
    BY <1>2, <2>1, <2>2 DEF Doings
<1>4. ToCome(d) + 1 = ToCome(doing[t])
  <2>1. doing[t].questions * Scrapes \in Nat /\ Questions * Scrapes \in Nat
        /\ CycleLimit \in Nat /\ Domains \in Nat /\ doing[t].cost \in Nat
    BY <1>1, ThreadKnown, MoneyNumbers, Products
  <2>2. QED
    BY <1>2, <1>3, <2>1 DEF ToCome
<1>5. ToCome(d) \in Nat /\ ToCome(doing[t]) \in Nat /\ beyond[t] \in Nat /\ Money!PerCycle \in Nat
  BY <1>1, <1>3, ToComeIsANumber, ThreadKnown, MoneyBounds
<1>6. ~doing[t].blind => beyond[t] + ToCome(doing[t]) <= Money!PerCycle
  BY DEF MoneyInv, Admitted
<1>7. ~d.blind => beyond[t] + ToCome(d) <= Money!PerCycle
  BY <1>3, <1>4, <1>5, <1>6
<1>8. label = "scrape" => d.cost < CycleLimit
  BY <1>2, <1>3 DEF MoneyInv, Admitted
<1>9. Money!Charge(t) \/ Money!Same
  BY DEF Money!CallOne
<1> HIDE DEF d
<1>10. QED
  <2>1. d.pc \notin {"round", "dig", "month"} /\ (d.pc = "scrape" => d.cost < CycleLimit)
    BY <1>3, <1>8
  <2>2. ToCome(d) + 1 <= ToCome(doing[t])
    BY <1>4, <1>5
  <2>3. CASE Money!Same
    BY Zenon, <1>2, <1>3, <1>7, <2>1, <2>3, CyclerGoes
  <2>4. CASE Money!Charge(t)
    BY Zenon, <1>2, <1>3, <2>1, <2>2, <2>4, CyclerGoes
  <2>5. QED
    BY <1>9, <2>3, <2>4

\* Each question of a round is charged once.
LEMMA GapperDigs ==
    ASSUME MoneyInv, NEW t \in Gappers, Money!Dig(t)
    PROVE  MoneyInv'
<1> DEFINE d == [doing[t] EXCEPT !.left = doing[t].left - 1]
<1>1. t \in Money!Threads
  BY DEF Money!Threads
<1>2. doing[t].pc = "dig" /\ doing[t].left \in Nat \ {0} /\ doing' = [doing EXCEPT ![t] = d]
  BY <1>1, ThreadKnown DEF Money!CallOne, Money!Dig
<1>3. d \in Doings /\ d.pc = "dig" /\ d.blind = doing[t].blind /\ d.left = doing[t].left - 1
  <2>1. d \in Doings
    BY <1>1, <1>2, OneLess
  <2>2. doing[t] \in Doings
    BY <1>1, ThreadKnown
  <2>3. QED
    BY <1>2, <2>1, <2>2 DEF Doings
<1>4. RoundToCome(d) + 1 = RoundToCome(doing[t])
  BY <1>2, <1>3 DEF RoundToCome
<1>5. RoundToCome(d) \in Nat /\ RoundToCome(doing[t]) \in Nat /\ beyond[t] \in Nat /\ PerRound \in Nat
  BY <1>1, <1>3, ToComeIsANumber, ThreadKnown, MoneyNumbers
<1>6. ~doing[t].blind => beyond[t] + RoundToCome(doing[t]) <= PerRound
  BY DEF MoneyInv, Admitted
<1>7. ~d.blind => beyond[t] + RoundToCome(d) <= PerRound
  BY <1>3, <1>4, <1>5, <1>6
<1>9. Money!Charge(t) \/ Money!Same
  BY DEF Money!CallOne, Money!Dig
<1> HIDE DEF d
<1>10. QED
  <2>2. RoundToCome(d) + 1 <= RoundToCome(doing[t])
    BY <1>4, <1>5
  <2>3. CASE Money!Same
    BY Zenon, <1>2, <1>3, <1>7, <2>3, GapperGoes
  <2>4. CASE Money!Charge(t)
    BY Zenon, <1>2, <1>3, <2>2, <2>4, GapperGoes
  <2>5. QED
    BY <1>9, <2>3, <2>4

\* The steps of run_cycle that charge nothing, and the extraction.
LEMMA CyclerSteps ==
    ASSUME MoneyInv, NEW t \in Cyclers, Money!Cycle(t)
    PROVE  MoneyInv'
<1>0. t \in Money!Threads
  BY DEF Money!Threads
<1>1. /\ doing[t].pc \notin {"round", "dig"} /\ beyond[t] <= Money!PerCycle
      /\ doing[t].pc = "scrape" => doing[t].cost < CycleLimit
      /\ ~doing[t].blind => beyond[t] + ToCome(doing[t]) <= Money!PerCycle
  BY DEF MoneyInv, Admitted
<1>2. /\ beyond[t] > 0 => Money!Spent(t)
      /\ beyond[t] > 0 /\ doing[t].pc = "month" /\ ~doing[t].blind => Money!Month >= MonthLimit
  BY <1>0 DEF MoneyInv, BeyondIsSpent
<1>3. /\ doing[t] \in Doings /\ beyond[t] \in Nat /\ today \in Nat
      /\ Scrapes \in Nat /\ Domains \in Nat /\ Questions \in Nat /\ CycleLimit \in Nat
      /\ DayLimit \in Nat /\ MonthLimit \in Nat /\ Gaps \in Nat
      /\ Questions * Scrapes \in Nat /\ doing[t].questions * Scrapes \in Nat
      /\ doing[t].cost \in Nat /\ CycleLimit - doing[t].cost \in Nat /\ doing[t].questions \in Nat
      /\ doing[t].blind \in BOOLEAN /\ doing[t].left \in Nat
  BY <1>0, ThreadKnown, MoneyNumbers, Products DEF MoneyInv, Spending
<1>4. ASSUME NEW d \in Doings, doing' = [doing EXCEPT ![t] = d], Money!Same, ToCome(d) = 0,
             d.pc \notin {"round", "dig", "scrape", "month"}
      PROVE  MoneyInv'
  <2>1. beyond[t] + ToCome(d) <= Money!PerCycle
    <3>1. beyond[t] + 0 = beyond[t]
      BY <1>3
    <3>2. QED
      BY <1>1, <1>4, <3>1
  <2>2. QED
    BY Zenon, <1>4, <2>1, CyclerGoes
<1>5. ASSUME NEW d \in Doings, doing' = [doing EXCEPT ![t] = d], Money!Same,
             d.blind = doing[t].blind, ToCome(d) <= ToCome(doing[t]), ToCome(doing[t]) \in Nat,
             d.pc \notin {"round", "dig", "month"}, d.pc = "scrape" => d.cost < CycleLimit
      PROVE  MoneyInv'
  <2>1. ToCome(d) \in Nat /\ Money!PerCycle \in Nat
    BY ToComeIsANumber, MoneyBounds
  <2>2. ~d.blind => beyond[t] + ToCome(d) <= Money!PerCycle
    BY <1>1, <1>3, <1>5, <2>1
  <2>3. QED
    BY Zenon, <1>5, <2>2, CyclerGoes
<1>6. Money!Idle \in Doings /\ ToCome(Money!Idle) = 0 /\ Money!Idle.pc = "idle"
  BY <1>3, MoneyBounds DEF Doings, Money!Idle, ToCome
<1>7. ToCome(doing[t]) \in Nat
  BY <1>0, ThreadKnown
<1>11. CASE Money!AskDay(t)
  <2>1. PICK fails \in BOOLEAN :
           /\ fails \/ today < DayLimit
           /\ doing' = [doing EXCEPT ![t] = [Money!Idle EXCEPT !.pc = "month", !.blind = fails]]
    BY Zenon, <1>11 DEF Money!AskDay
  <2> DEFINE d == [Money!Idle EXCEPT !.pc = "month", !.blind = fails]
  <2>2. d \in Doings /\ d.pc = "month" /\ d.blind = fails
    BY Zenon, <1>6 DEF Doings
  <2>3. ToCome(d) = 0
    BY <2>2 DEF ToCome
  <2>4. ~d.blind /\ beyond[t] > 0 => Money!Month >= MonthLimit
    BY <1>2, <1>3, <2>1, <2>2 DEF Money!Spent
  <2>5. Money!Same /\ doing' = [doing EXCEPT ![t] = d]
    BY Zenon, <1>11, <2>1 DEF Money!AskDay
  <2> HIDE DEF d
  <2>6. ~d.blind => beyond[t] + ToCome(d) <= Money!PerCycle
    BY <1>1, <1>3, <2>3
  <2>7. QED
    BY Zenon, <2>2, <2>4, <2>5, <2>6, CyclerGoes
<1>12. CASE Money!AskMonth(t)
  <2>1. PICK fails \in BOOLEAN :
           doing' = [doing EXCEPT ![t] =
                        IF ~fails /\ Money!Month >= MonthLimit THEN Money!Idle
                        ELSE [doing[t] EXCEPT !.pc = "gaps", !.left = Gaps,
                                              !.blind = doing[t].blind \/ fails]]
    BY Zenon, <1>12 DEF Money!AskMonth
  <2>2. Money!Same /\ doing[t].pc = "month"
    BY <1>12 DEF Money!AskMonth
  <2>3. CASE ~fails /\ Money!Month >= MonthLimit
    BY Zenon, <1>4, <1>6, <2>1, <2>2, <2>3
  <2>4. CASE ~(~fails /\ Money!Month >= MonthLimit)
    <3> DEFINE d == [doing[t] EXCEPT !.pc = "gaps", !.left = Gaps, !.blind = doing[t].blind \/ fails]
    <3>1. d \in Doings /\ d.pc = "gaps" /\ d.left = Gaps /\ d.blind = (doing[t].blind \/ fails)
      <4>1. Gaps \in 0..(Gaps + Scrapes + Domains + PerRound) /\ (doing[t].blind \/ fails) \in BOOLEAN
        BY <1>3, MoneyBounds
      <4>2. QED
        BY Zenon, <1>3, <4>1 DEF Doings
    <3>2. doing' = [doing EXCEPT ![t] = d]
      BY Zenon, <2>1, <2>4
    <3> HIDE DEF d
    <3>3. ToCome(d) = Money!PerCycle
      BY <1>3, <3>1 DEF ToCome, Money!PerCycle
    <3>4. ~d.blind => beyond[t] = 0
      <4>1. Money!Month \in Nat
        BY <1>3, MoneyNumbers DEF MoneyInv, Spending, Money!Month, Money!Upto
      <4>2. QED
        BY <1>2, <1>3, <2>2, <2>4, <3>1, <4>1
    <3>5. ~d.blind => beyond[t] + ToCome(d) <= Money!PerCycle
      BY <1>3, <3>3, <3>4, MoneyBounds
    <3>6. QED
      BY Zenon, <2>2, <3>1, <3>2, <3>5, CyclerGoes
  <2>5. QED
    BY <2>3, <2>4
<1>13. CASE Money!Generate(t)
  BY <1>13, CyclerCalls DEF Money!Generate
<1>14. CASE Money!Generated(t)
  <2>1. PICK n \in 0..Questions : doing' = [doing EXCEPT ![t].pc = "next", ![t].questions = n]
    BY Zenon, <1>14 DEF Money!Generated
  <2> DEFINE d == [doing[t] EXCEPT !.pc = "next", !.questions = n]
  <2>2. d \in Doings /\ d.pc = "next" /\ d.questions = n /\ d.blind = doing[t].blind
        /\ d.cost = doing[t].cost
    <3>1. n \in 0..(Questions + Rounds)
      BY <1>3, <2>1, MoneyBounds, MoneyNumbers
    <3>2. QED
      BY Zenon, <1>3, <3>1 DEF Doings
  <2>3. doing[t].pc = "gaps" /\ Money!Same /\ doing' = [doing EXCEPT ![t] = d]
    BY Zenon, <1>0, <1>14, <2>1 DEF Money!Generated, MoneyInv, Spending
  <2> HIDE DEF d
  <2>4. ToCome(d) <= ToCome(doing[t])
    <3>1. n * Scrapes \in Nat /\ n * Scrapes <= Questions * Scrapes
      BY <1>3, Products
    <3>2. QED
      BY <1>3, <2>2, <2>3, <3>1 DEF ToCome
  <2>5. QED
    BY Zenon, <1>5, <1>7, <2>2, <2>3, <2>4
<1>15. CASE Money!NextQuestion(t)
  <2> DEFINE d == [doing[t] EXCEPT !.pc = "scrape", !.left = Scrapes,
                                   !.questions = doing[t].questions - 1]
  <2>1. /\ doing[t].pc = "next" /\ doing[t].questions > 0 /\ doing[t].cost < CycleLimit
        /\ Money!Same /\ doing' = [doing EXCEPT ![t] = d]
    BY Zenon, <1>0, <1>15 DEF Money!NextQuestion, MoneyInv, Spending
  <2>2. d \in Doings /\ d.pc = "scrape" /\ d.left = Scrapes /\ d.blind = doing[t].blind
        /\ d.questions = doing[t].questions - 1 /\ d.cost = doing[t].cost
    <3>1. Scrapes \in 0..(Gaps + Scrapes + Domains + PerRound)
      BY <1>3, MoneyBounds
    <3>2. doing[t].questions - 1 \in 0..(Questions + Rounds)
      BY <1>0, <1>3, <2>1, MoneyBounds, ThreadKnown
    <3>3. QED
      BY Zenon, <1>3, <3>1, <3>2 DEF Doings
  <2> HIDE DEF d
  <2>3. ToCome(d) <= ToCome(doing[t])
    <3>1. /\ (doing[t].questions - 1) * Scrapes + Scrapes = doing[t].questions * Scrapes
          /\ (doing[t].questions - 1) * Scrapes \in Nat
      BY <1>3, <2>1, Products
    <3>2. QED
      BY <1>3, <2>1, <2>2, <3>1 DEF ToCome
  <2>4. QED
    BY Zenon, <1>5, <1>7, <2>1, <2>2, <2>3
<1>16. CASE Money!Scrape(t)
  BY <1>16, CyclerCalls DEF Money!Scrape
<1>17. CASE Money!Extract(t)
  <2>0. doing[t].pc = "scrape" /\ doing[t].left = 0
    BY <1>17 DEF Money!Extract
  <2>1. CASE doing' = [doing EXCEPT ![t].pc = "next", ![t].cost = @ + 1] /\ Money!Charge(t)
    <3> DEFINE d == [doing[t] EXCEPT !.pc = "next", !.cost = doing[t].cost + 1]
    <3>1. doing' = [doing EXCEPT ![t] = d]
      BY Zenon, <1>0, <2>1 DEF MoneyInv, Spending
    <3>2. d \in Doings /\ d.pc = "next" /\ d.cost = doing[t].cost + 1 /\ d.blind = doing[t].blind
          /\ d.questions = doing[t].questions
      <4>1. doing[t].cost + 1 \in 0..CycleLimit
        BY <1>1, <1>3, <2>0
      <4>2. QED
        BY Zenon, <1>3, <4>1 DEF Doings
    <3> HIDE DEF d
    <3>3. ToCome(d) + 1 <= ToCome(doing[t])
      BY <1>3, <2>0, <3>2 DEF ToCome
    <3>4. QED
      BY Zenon, <2>1, <3>1, <3>2, <3>3, CyclerGoes
  <2>2. CASE doing' = [doing EXCEPT ![t].pc = "next"] /\ Money!Same
    <3> DEFINE d == [doing[t] EXCEPT !.pc = "next"]
    <3>1. doing' = [doing EXCEPT ![t] = d]
      BY <1>0, <2>2 DEF MoneyInv, Spending
    <3>2. d \in Doings /\ d.pc = "next" /\ d.cost = doing[t].cost /\ d.blind = doing[t].blind
          /\ d.questions = doing[t].questions
      BY <1>3 DEF Doings
    <3> HIDE DEF d
    <3>3. ToCome(d) <= ToCome(doing[t])
      BY <1>3, <2>0, <3>2 DEF ToCome
    <3>4. QED
      BY Zenon, <1>5, <1>7, <2>2, <3>1, <3>2, <3>3
  <2>3. QED
    BY <1>17, <2>1, <2>2 DEF Money!Extract
<1>18. CASE Money!Researched(t)
  <2> DEFINE d == [doing[t] EXCEPT !.pc = "synthesize", !.left = Domains]
  <2>1. /\ doing[t].pc = "next" /\ Money!Same /\ doing' = [doing EXCEPT ![t] = d]
    BY Zenon, <1>0, <1>18 DEF Money!Researched, Money!Goto, MoneyInv, Spending
  <2>2. d \in Doings /\ d.pc = "synthesize" /\ d.left = Domains /\ d.blind = doing[t].blind
    <3>1. Domains \in 0..(Gaps + Scrapes + Domains + PerRound)
      BY <1>3, MoneyBounds
    <3>3. QED
      BY Zenon, <1>3, <3>1 DEF Doings
  <2> HIDE DEF d
  <2>3. ToCome(d) <= ToCome(doing[t])
    BY <1>3, <2>1, <2>2 DEF ToCome
  <2>4. QED
    BY Zenon, <1>5, <1>7, <2>1, <2>2, <2>3
<1>19. CASE Money!Synthesize(t)
  BY <1>19, CyclerCalls DEF Money!Synthesize
<1>20. CASE Money!Finish(t)
  BY Zenon, <1>4, <1>6, <1>20 DEF Money!Finish
<1>21. QED
  BY <1>11, <1>12, <1>13, <1>14, <1>15, <1>16, <1>17, <1>18, <1>19, <1>20 DEF Money!Cycle

\* The steps of gap research.
LEMMA GapperSteps ==
    ASSUME MoneyInv, NEW t \in Gappers,
           Money!StartRounds(t) \/ Money!AskRound(t) \/ Money!Dig(t) \/ Money!EndRound(t)
    PROVE  MoneyInv'
<1>0. t \in Money!Threads
  BY DEF Money!Threads
<1>1. /\ beyond[t] <= PerRound /\ (beyond[t] > 0 => Money!Spent(t)) /\ t \notin Cyclers
      /\ doing \in [Money!Threads -> Doings]
  BY <1>0, MoneyNumbers DEF MoneyInv, Admitted, BeyondIsSpent, Spending
<1>3. /\ doing[t] \in Doings /\ beyond[t] \in Nat /\ today \in Nat /\ PerRound \in Nat
      /\ DayLimit \in Nat /\ Reserve \in Nat \ {0} /\ Rounds \in Nat
      /\ doing[t].questions \in Nat /\ CycleLimit \in Nat
      /\ doing[t].questions <= Questions + Rounds /\ Questions + Rounds \in Nat
  BY <1>0, ThreadKnown, MoneyNumbers, MoneyBounds DEF MoneyInv, Spending
<1>4. ASSUME NEW d \in Doings, doing' = [doing EXCEPT ![t] = d], Money!Same,
             d.pc \in {"idle", "round"}
      PROVE  MoneyInv'
  <2>1. RoundToCome(d) = 0 /\ beyond[t] + 0 = beyond[t]
    BY <1>3, <1>4 DEF RoundToCome
  <2>2. QED
    BY Zenon, <1>1, <1>4, <2>1, GapperGoes
<1>6. Money!Idle \in Doings /\ Money!Idle.pc = "idle"
  BY <1>3, MoneyBounds DEF Doings, Money!Idle
<1>11. CASE Money!StartRounds(t)
  <2> DEFINE d == [Money!Idle EXCEPT !.pc = "round", !.questions = Rounds]
  <2>1. Rounds \in 0..(Questions + Rounds)
    BY <1>3, MoneyBounds
  <2>2. d \in Doings /\ d.pc = "round"
    BY Zenon, <1>6, <2>1 DEF Doings
  <2>3. doing' = [doing EXCEPT ![t] = d] /\ Money!Same
    BY <1>11 DEF Money!StartRounds
  <2> HIDE DEF d
  <2>4. QED
    BY Zenon, <1>4, <2>2, <2>3
<1>12. CASE Money!AskRound(t)
  <2>1. PICK fails \in BOOLEAN :
          IF doing[t].questions > 0 /\ (fails \/ today + Reserve <= DayLimit)
          THEN doing' = [doing EXCEPT ![t] = [Money!Idle EXCEPT !.pc = "dig", !.left = PerRound,
                                   !.questions = doing[t].questions - 1, !.blind = fails]]
          ELSE doing' = [doing EXCEPT ![t] = Money!Idle]
    BY Zenon, <1>12 DEF Money!AskRound
  <2>2. Money!Same
    BY Zenon, <1>12 DEF Money!AskRound
  <2>3. CASE doing[t].questions > 0 /\ (fails \/ today + Reserve <= DayLimit)
    <3> DEFINE d == [Money!Idle EXCEPT !.pc = "dig", !.left = PerRound,
                                   !.questions = doing[t].questions - 1, !.blind = fails]
    <3>1. /\ PerRound \in 0..(Gaps + Scrapes + Domains + PerRound)
          /\ doing[t].questions - 1 \in 0..(Questions + Rounds)
      BY <1>3, <2>3, MoneyBounds
    <3>2. d \in Doings /\ d.pc = "dig" /\ d.left = PerRound /\ d.blind = fails
      BY Zenon, <1>6, <3>1 DEF Doings
    <3>3. doing' = [doing EXCEPT ![t] = d]
      BY <2>1, <2>3
    <3> HIDE DEF d
    <3>4. ~d.blind => beyond[t] = 0
      <4>1. ~d.blind => today < DayLimit
        BY <1>3, <2>3, <3>2
      <4>2. QED
        BY <1>1, <1>3, <4>1 DEF Money!Spent
    <3>5. ~d.blind => beyond[t] + RoundToCome(d) <= PerRound
      BY <1>3, <3>2, <3>4 DEF RoundToCome
    <3>6. QED
      BY Zenon, <2>2, <3>2, <3>3, <3>5, GapperGoes
  <2>4. CASE ~(doing[t].questions > 0 /\ (fails \/ today + Reserve <= DayLimit))
    BY <1>4, <1>6, <2>1, <2>2, <2>4
  <2>5. QED
    BY <2>3, <2>4
<1>13. CASE Money!Dig(t)
  BY <1>13, GapperDigs
<1>14. CASE Money!EndRound(t)
  <2> DEFINE d == [doing[t] EXCEPT !.pc = "round", !.left = 0]
  <2>1. doing' = [doing EXCEPT ![t] = d] /\ Money!Same
    BY Zenon, <1>0, <1>1, <1>14 DEF Money!EndRound, Money!Goto
  <2>2. d \in Doings /\ d.pc = "round"
    <3>1. 0 \in 0..(Gaps + Scrapes + Domains + PerRound)
      BY MoneyBounds
    <3>2. QED
      BY Zenon, <1>3, <3>1 DEF Doings
  <2> HIDE DEF d
  <2>3. QED
    BY Zenon, <1>4, <2>1, <2>2
<1>15. QED
  BY <1>11, <1>12, <1>13, <1>14

\* Everybody else only adds to the log.
LEMMA OthersSpend ==
    ASSUME MoneyInv, Money!Others
    PROVE  MoneyInv'
<1>1. /\ today \in 0..MonthLimit /\ before \in Nat /\ today < DayLimit /\ today' = today + 1
      /\ before' = before /\ doing' = doing /\ beyond' = beyond /\ days' = days
  BY DEF MoneyInv, Spending, Money!Others
<1>2. today' \in 0..MonthLimit
  BY <1>1, MoneyNumbers
<1>3. PICK b \in Nat, m \in Nat, n \in Nat :
         b = before /\ b = before' /\ m = today /\ n = today' /\ n = m + 1
  BY <1>1
<1>4. Money!Month >= MonthLimit => Money!Month' >= MonthLimit
  <2>1. \A k \in Nat : Money!Upto(k) >= MonthLimit <=> k >= MonthLimit
    BY MoneyNumbers DEF Money!Upto
  <2>2. Money!Month = Money!Upto(b + m) /\ Money!Month' = Money!Upto(b + n)
    BY <1>3 DEF Money!Month, Money!Upto
  <2>3. b + m \in Nat /\ b + n \in Nat /\ (b + m >= MonthLimit => b + n >= MonthLimit)
    <3>1. n = m + 1 /\ MonthLimit \in Nat
      BY <1>3, MoneyNumbers
    <3>2. QED
      BY <3>1
  <2>4. QED
    BY <2>1, <2>2, <2>3
<1>5. Spending'
  BY <1>1, <1>2 DEF MoneyInv, Spending
<1>6. today' >= today
  BY <1>1
<1>7. BeyondIsSpent'
  BY <1>1, <1>2, <1>4, <1>6, MoneyNumbers DEF MoneyInv, BeyondIsSpent, Money!Spent
<1>8. Admitted'
  BY <1>1 DEF MoneyInv, Admitted, Money!PerCycle, ToCome, RoundToCome
<1>9. QED
  BY <1>5, <1>7, <1>8 DEF MoneyInv

\* A new day begins with nothing charged beyond its limit.
LEMMA NewDay ==
    ASSUME MoneyInv, Money!Midnight
    PROVE  MoneyInv'
<1>1. /\ days' = 1 /\ today' = 0 /\ doing' = doing /\ beyond' = [t \in Money!Threads |-> 0]
      /\ before' = Money!Month
  BY DEF Money!Midnight
<1>2. before' \in Nat
  <2>1. today \in Nat /\ before \in Nat /\ MonthLimit \in Nat
    BY MoneyNumbers DEF MoneyInv, Spending
  <2>2. QED
    BY <1>1, <2>1 DEF Money!Month, Money!Upto
<1>3. Spending'
  BY <1>1, <1>2, MoneyNumbers DEF MoneyInv, Spending
<1>4. BeyondIsSpent'
  BY <1>1 DEF BeyondIsSpent
<1>5. Admitted'
  <2>1. ASSUME NEW t \in Cyclers
        PROVE  /\ doing'[t].pc \notin {"round", "dig"}
               /\ doing'[t].pc = "scrape" => doing'[t].cost < CycleLimit
               /\ beyond'[t] <= Money!PerCycle
               /\ ~doing'[t].blind => beyond'[t] + ToCome(doing'[t]) <= Money!PerCycle
    <3>1. t \in Money!Threads /\ beyond'[t] = 0
      BY <1>1 DEF Money!Threads
    <3>2. beyond[t] \in Nat /\ ToCome(doing[t]) \in Nat /\ Money!PerCycle \in Nat
      BY <3>1, ThreadKnown, MoneyBounds
    <3>3. /\ doing[t].pc \notin {"round", "dig"}
          /\ doing[t].pc = "scrape" => doing[t].cost < CycleLimit
          /\ ~doing[t].blind => beyond[t] + ToCome(doing[t]) <= Money!PerCycle
      BY DEF MoneyInv, Admitted
    <3>4. ~doing[t].blind => 0 + ToCome(doing[t]) <= Money!PerCycle
      BY <3>2, <3>3
    <3>5. QED
      BY <1>1, <3>1, <3>2, <3>3, <3>4
  <2>2. ASSUME NEW t \in Gappers
        PROVE  /\ doing'[t].pc \in {"idle", "round", "dig"}
               /\ beyond'[t] <= PerRound
               /\ ~doing'[t].blind => beyond'[t] + RoundToCome(doing'[t]) <= PerRound
    <3>1. t \in Money!Threads /\ beyond'[t] = 0
      BY <1>1 DEF Money!Threads
    <3>2. beyond[t] \in Nat /\ RoundToCome(doing[t]) \in Nat /\ PerRound \in Nat
      BY <3>1, ThreadKnown, MoneyNumbers
    <3>3. /\ doing[t].pc \in {"idle", "round", "dig"}
          /\ ~doing[t].blind => beyond[t] + RoundToCome(doing[t]) <= PerRound
      BY DEF MoneyInv, Admitted
    <3>4. ~doing[t].blind => 0 + RoundToCome(doing[t]) <= PerRound
      BY <3>2, <3>3
    <3>5. QED
      BY <1>1, <3>1, <3>2, <3>3, <3>4
  <2>3. QED
    BY <2>1, <2>2 DEF Admitted, Money!PerCycle, ToCome, RoundToCome
<1>6. QED
  BY <1>3, <1>4, <1>5 DEF MoneyInv

\* Idle threads have nothing left to charge.
LEMMA IdleThreads ==
    ASSUME MoneyInv, doing' = [t \in Money!Threads |-> Money!Idle], Money!Same
    PROVE  MoneyInv'
<1>1. today' = today /\ before' = before /\ beyond' = beyond /\ days' = days
  BY DEF Money!Same
<1>2. /\ Money!Idle \in Doings /\ Money!Idle.pc = "idle"
      /\ ToCome(Money!Idle) = 0 /\ RoundToCome(Money!Idle) = 0
  BY MoneyBounds, MoneyNumbers DEF Doings, Money!Idle, ToCome, RoundToCome
<1>3. Spending'
  BY <1>1, <1>2 DEF MoneyInv, Spending
<1>4. BeyondIsSpent'
  BY <1>1, <1>2 DEF MoneyInv, BeyondIsSpent, Money!Spent, Money!Month, Money!Upto
<1>5. Admitted'
  <2>1. \A t \in Money!Threads : doing'[t] = Money!Idle /\ beyond[t] \in Nat /\ beyond[t] + 0 = beyond[t]
    BY ThreadKnown
  <2>2. Cyclers \subseteq Money!Threads /\ Gappers \subseteq Money!Threads
    BY DEF Money!Threads
  <2>3. /\ \A t \in Cyclers : beyond[t] + ToCome(doing'[t]) <= Money!PerCycle
        /\ \A t \in Gappers : beyond[t] + RoundToCome(doing'[t]) <= PerRound
    BY <1>2, <2>1, <2>2 DEF MoneyInv, Admitted
  <2>4. QED
    BY <1>1, <1>2, <2>1, <2>2, <2>3 DEF MoneyInv, Admitted, Money!PerCycle, ToCome, RoundToCome
<1>6. QED
  BY <1>3, <1>4, <1>5 DEF MoneyInv

\* Every step of the services keeps what is said of research.
LEMMA MoneyStep == MoneyInv /\ [Next]_vars => MoneyInv'
<1> SUFFICES ASSUME MoneyInv, [Money!Next]_(Money!vars) PROVE MoneyInv'
  BY MoneyMoves
<1>1. CASE UNCHANGED Money!vars
  BY <1>1 DEF MoneyInv, Spending, BeyondIsSpent, Admitted, Money!vars, Money!Spent, Money!Month,
              Money!Upto, Money!PerCycle, ToCome, RoundToCome
<1>2. CASE Money!Next
  BY <1>2, CyclerSteps, GapperSteps, OthersSpend, NewDay, IdleThreads DEF Money!Next, Money!Restart
<1>3. QED
  BY <1>1, <1>2

\* It holds when the empire starts.
LEMMA MoneyStart == Init => MoneyInv
<1> SUFFICES ASSUME Money!Init PROVE MoneyInv
  BY DEF Init
<1>1. /\ Money!Idle \in Doings /\ Money!Idle.pc = "idle" /\ ~Money!Idle.blind
      /\ ToCome(Money!Idle) = 0 /\ RoundToCome(Money!Idle) = 0
  BY MoneyBounds, MoneyNumbers DEF Doings, Money!Idle, ToCome, RoundToCome
<1>2. Spending
  BY <1>1, MoneyNumbers DEF Money!Init, Spending
<1>3. BeyondIsSpent
  BY DEF Money!Init, BeyondIsSpent
<1>4. Admitted
  <2>1. \A t \in Money!Threads : doing[t] = Money!Idle /\ beyond[t] = 0
    BY DEF Money!Init
  <2>2. Cyclers \subseteq Money!Threads /\ Gappers \subseteq Money!Threads
    BY DEF Money!Threads
  <2>3. Money!PerCycle \in Nat /\ PerRound \in Nat
    BY MoneyBounds, MoneyNumbers
  <2>4. QED
    BY <1>1, <2>1, <2>2, <2>3 DEF Admitted
<1>5. QED
  BY <1>2, <1>3, <1>4 DEF MoneyInv

\* What an admission has spent, and still may, is bounded (autoresearcher.py:126).
THEOREM SpendingIsKnown == Spec => []MoneyInv
BY MoneyStart, MoneyStep, PTL DEF Spec

\* Once a limit is reached a thread spends what one admission allows, and no more
\* (budget.py:126, where the limit is looked at, is left long before the spending ends).
THEOREM OverspendIsBounded == Spec => []Money!OverspendBounded
<1>1. MoneyInv => Money!OverspendBounded
  BY DEF MoneyInv, Admitted, Money!OverspendBounded
<1>2. QED
  BY <1>1, SpendingIsKnown, PTL

-----------------------------------------------------------------------------
(* The rows of research tasks.                                              *)

RowKinds ==
    [status : {"executing", "completed", "failed"}, old : BOOLEAN,
     won : Nat, failed : Nat, empire : Nat]

Settlings ==
    [pc : {"idle", "research", "complete", "reward", "empire", "fail", "blame"}, row : Nat]

\* What CountedOnce says of one row.
Counted(r) ==
    /\ r.won + r.failed <= 1 /\ r.empire <= 1
    /\ r.won + r.empire > 0 => r.status = "completed"
    /\ r.failed > 0 => r.status = "failed"

\* What the row of a thread looks like while the thread is at a label.
Uncounted(r) == r.won = 0 /\ r.failed = 0 /\ r.empire = 0
Settling(pc, r) ==
    /\ pc \in {"research", "complete", "fail"} => Uncounted(r)
    /\ pc = "reward" => Uncounted(r) /\ r.status = "completed"
    /\ pc = "empire" => r.failed = 0 /\ r.empire = 0 /\ r.status = "completed"
    /\ pc = "blame" => Uncounted(r) /\ r.status = "failed"

\* Threads work on rows of their own, which are as far as the threads are.
Placed(s) ==
    /\ s.row \in 0..Len(rows)
    /\ s.pc = "idle" => s.row = 0
    /\ s.pc \in {"reward", "empire", "blame"} => s.row # 0
    /\ s.row # 0 => Settling(s.pc, rows[s.row])

RowsInv ==
    /\ rows \in Seq(RowKinds) /\ steps \in [Researchers -> Settlings]
    /\ \A i \in 1..Len(rows) : Counted(rows[i])
    /\ \A t \in Researchers : Placed(steps[t])
    /\ \A t, u \in Researchers : t # u /\ steps[t].row # 0 => steps[t].row # steps[u].row

\* A part of the services moves by its own steps, or rests.
LEMMA TasksMove == [Next]_vars => [Tasks!Next]_(Tasks!vars)
BY DEF Next, Rest, vars, tasks, Tasks!vars

\* What is known of a thread and of its row.
LEMMA RowKnown ==
    ASSUME RowsInv, NEW t \in Researchers
    PROVE  /\ steps[t] \in Settlings /\ Placed(steps[t]) /\ steps[t].row \in 0..Len(rows)
           /\ Len(rows) \in Nat /\ DOMAIN rows = 1..Len(rows)
           /\ steps[t].row # 0 => /\ steps[t].row \in 1..Len(rows)
                                  /\ rows[steps[t].row] \in RowKinds
                                  /\ Counted(rows[steps[t].row])
BY DEF RowsInv, Placed

\* Only a thread moves, and keeps its row or leaves it.
LEMMA ThreadMoves ==
    ASSUME RowsInv, NEW t \in Researchers, NEW s \in Settlings,
           rows' = rows, steps' = [steps EXCEPT ![t] = s], Placed(s), s.row \in {0, steps[t].row}
    PROVE  RowsInv'
<1>1. /\ steps' \in [Researchers -> Settlings] /\ steps'[t] = s
      /\ \A u \in Researchers : u # t => steps'[u] = steps[u]
  BY DEF RowsInv
<1>2. \A u \in Researchers : Placed(steps'[u])
  BY <1>1 DEF RowsInv
<1>3. \A u \in Researchers : Placed(steps[u])'
  BY <1>2 DEF Placed
<1>4. \A v, u \in Researchers : v # u /\ steps'[v].row # 0 => steps'[v].row # steps'[u].row
  BY <1>1 DEF RowsInv
<1>5. QED
  BY <1>1, <1>3, <1>4 DEF RowsInv

\* A thread moves and writes its row.
LEMMA RowMoves ==
    ASSUME RowsInv, NEW t \in Researchers, NEW s \in Settlings, NEW r \in RowKinds,
           steps[t].row # 0, rows' = [rows EXCEPT ![steps[t].row] = r],
           steps' = [steps EXCEPT ![t] = s], Counted(r),
           \/ s.row = 0 /\ s.pc \notin {"reward", "empire", "blame"}
           \/ s.row = steps[t].row /\ s.pc # "idle" /\ Settling(s.pc, r)
    PROVE  RowsInv'
<1>0. PICK i \in 1..Len(rows) : i = steps[t].row
  BY RowKnown
<1>1. /\ steps' \in [Researchers -> Settlings] /\ steps'[t] = s
      /\ \A u \in Researchers : u # t => steps'[u] = steps[u]
  BY DEF RowsInv
<1>2. /\ rows' \in Seq(RowKinds) /\ Len(rows') = Len(rows) /\ rows'[i] = r
      /\ \A j \in 1..Len(rows) : j # i => rows'[j] = rows[j]
  BY <1>0 DEF RowsInv
<1>3. \A j \in 1..Len(rows) : Counted(rows'[j])
  BY <1>2 DEF RowsInv
<1>4. ASSUME NEW u \in Researchers, u # t
      PROVE  /\ steps'[u].row \in 0..Len(rows')
             /\ steps'[u].pc = "idle" => steps'[u].row = 0
             /\ steps'[u].pc \in {"reward", "empire", "blame"} => steps'[u].row # 0
             /\ steps'[u].row # 0 => Settling(steps'[u].pc, rows'[steps'[u].row])
  <2>1. steps'[u] = steps[u] /\ steps[u].row # i
    BY <1>0, <1>1, <1>4 DEF RowsInv
  <2>2. steps[u].row # 0 => rows'[steps[u].row] = rows[steps[u].row]
    BY <1>2, <2>1, RowKnown
  <2>3. QED
    BY <1>2, <2>1, <2>2, RowKnown DEF Placed
<1>5. /\ s.row \in 0..Len(rows') /\ (s.pc = "idle" => s.row = 0)
      /\ s.pc \in {"reward", "empire", "blame"} => s.row # 0
      /\ s.row # 0 => Settling(s.pc, rows'[s.row])
  <2>1. Len(rows) \in Nat /\ i \in 0..Len(rows) /\ 0 \in 0..Len(rows) /\ i # 0
    BY <1>0, RowKnown
  <2>2. CASE s.row = 0 /\ s.pc \notin {"reward", "empire", "blame"}
    BY <1>2, <2>1, <2>2
  <2>3. CASE s.row = steps[t].row /\ s.pc # "idle" /\ Settling(s.pc, r)
    BY <1>0, <1>2, <2>1, <2>3
  <2>4. QED
    BY <2>2, <2>3
<1>6. \A u \in Researchers : Placed(steps[u])'
  BY <1>1, <1>4, <1>5 DEF Placed, Settling, Uncounted
<1>7. \A v, u \in Researchers : v # u /\ steps'[v].row # 0 => steps'[v].row # steps'[u].row
  BY <1>1 DEF RowsInv
<1>8. (\A j \in 1..Len(rows) : Counted(rows[j]))'
  BY <1>2, <1>3 DEF Counted
<1>9. QED
  BY <1>1, <1>2, <1>6, <1>7, <1>8 DEF RowsInv

\* Rows change by themselves only while nothing depends on their status.
LEMMA RowsAge ==
    ASSUME RowsInv, steps' = steps, rows' \in Seq(RowKinds), Len(rows') = Len(rows),
           \A i \in 1..Len(rows) :
              /\ rows'[i].won = rows[i].won /\ rows'[i].failed = rows[i].failed
              /\ rows'[i].empire = rows[i].empire
              /\ rows[i].status # "executing" => rows'[i].status = rows[i].status
    PROVE  RowsInv'
<1>1. ASSUME NEW i \in 1..Len(rows) PROVE Counted(rows'[i])
  <2>1. PICK r \in RowKinds, n \in RowKinds : r = rows[i] /\ n = rows'[i]
    BY DEF RowsInv
  <2>2. Counted(r)
    BY <2>1 DEF RowsInv
  <2>3. /\ n.won = r.won /\ n.failed = r.failed /\ n.empire = r.empire
        /\ r.status # "executing" => n.status = r.status
    BY <2>1
  <2>4. Counted(n)
    BY Zenon, <2>2, <2>3 DEF Counted, RowKinds
  <2>5. QED
    BY <2>1, <2>4
<1>2. ASSUME NEW t \in Researchers, steps[t].row # 0 PROVE Settling(steps[t].pc, rows'[steps[t].row])
  <2>1. PICK i \in 1..Len(rows) : i = steps[t].row
    BY <1>2, RowKnown
  <2>2. Settling(steps[t].pc, rows[i])
    BY <1>2, <2>1, RowKnown DEF Placed
  <2>3. /\ rows'[i].won = rows[i].won /\ rows'[i].failed = rows[i].failed
        /\ rows'[i].empire = rows[i].empire
        /\ rows[i].status # "executing" => rows'[i].status = rows[i].status
    BY <2>1
  <2>4. Settling(steps[t].pc, rows'[i])
    BY <2>2, <2>3 DEF Settling, Uncounted
  <2>5. QED
    BY <2>1, <2>4
<1>3. \A t \in Researchers : Placed(steps[t])'
  BY <1>2, RowKnown DEF Placed, Settling, Uncounted
<1>4. (\A j \in 1..Len(rows) : Counted(rows[j]))'
  BY <1>1 DEF Counted
<1>5. QED
  BY <1>3, <1>4 DEF RowsInv

\* Every step of a thread of research.
LEMMA ThreadSettles ==
    ASSUME RowsInv, NEW t \in Researchers, Tasks!Settle(t)
    PROVE  RowsInv'
<1>0. /\ steps \in [Researchers -> Settlings] /\ steps[t] \in Settlings /\ Placed(steps[t])
      /\ rows \in Seq(RowKinds) /\ Len(rows) \in Nat
  BY RowKnown DEF RowsInv
<1>1. Tasks!Idle \in Settlings /\ Tasks!Idle.row = 0 /\ Tasks!Idle.pc = "idle" /\ Placed(Tasks!Idle)
  BY <1>0 DEF Settlings, Tasks!Idle, Placed
<1>2. ASSUME Tasks!Finish(t), rows' = rows PROVE RowsInv'
  BY Zenon, <1>1, <1>2, ThreadMoves DEF Tasks!Finish
<1>3. ASSUME NEW l \in {"research", "complete", "fail"}, Tasks!Goto(t, l), rows' = rows,
             steps[t].pc \in {"idle", "research"}
      PROVE  RowsInv'
  <2> DEFINE s == [steps[t] EXCEPT !.pc = l]
  <2>1. s \in Settlings /\ s.pc = l /\ s.row = steps[t].row /\ steps' = [steps EXCEPT ![t] = s]
    BY <1>0, <1>3 DEF Settlings, Tasks!Goto
  <2> HIDE DEF s
  <2>2. Placed(s)
    BY <1>0, <1>3, <2>1 DEF Placed, Settling
  <2>3. QED
    BY Zenon, <1>3, <2>1, <2>2, ThreadMoves
<1>4. ASSUME NEW l \in {"reward", "empire", "blame"}, Tasks!Goto(t, l), NEW r \in RowKinds,
             steps[t].row # 0, rows' = [rows EXCEPT ![steps[t].row] = r], Counted(r), Settling(l, r)
      PROVE  RowsInv'
  <2> DEFINE s == [steps[t] EXCEPT !.pc = l]
  <2>1. s \in Settlings /\ s.pc = l /\ s.row = steps[t].row /\ steps' = [steps EXCEPT ![t] = s]
    BY <1>0, <1>4 DEF Settlings, Tasks!Goto
  <2> HIDE DEF s
  <2>2. s.pc # "idle" /\ Settling(s.pc, r)
    BY <1>4, <2>1
  <2>3. QED
    BY Zenon, <1>4, <2>1, <2>2, RowMoves
<1>5. ASSUME NEW r \in RowKinds, steps[t].row # 0, rows' = [rows EXCEPT ![steps[t].row] = r],
             Counted(r), Tasks!Finish(t)
      PROVE  RowsInv'
  BY Zenon, <1>1, <1>5, RowMoves DEF Tasks!Finish
<1>6. ASSUME steps[t].row # 0
      PROVE  /\ rows[steps[t].row] \in RowKinds /\ Counted(rows[steps[t].row])
             /\ Settling(steps[t].pc, rows[steps[t].row])
  BY <1>0, <1>6, RowKnown DEF Placed
<1>11. CASE Tasks!Create(t)
  <2>1. steps[t].pc = "idle" /\ steps[t].row = 0
    BY <1>0, <1>11 DEF Tasks!Create, Placed
  <2>2. CASE /\ rows' = Append(rows, Tasks!NewRow)
             /\ steps' = [steps EXCEPT ![t] = [pc |-> "research", row |-> Len(rows) + 1]]
    <3>1. Tasks!NewRow \in RowKinds /\ Counted(Tasks!NewRow) /\ Uncounted(Tasks!NewRow)
      BY DEF Tasks!NewRow, RowKinds, Counted, Uncounted
    <3>2. /\ rows' \in Seq(RowKinds) /\ Len(rows') = Len(rows) + 1
          /\ rows'[Len(rows) + 1] = Tasks!NewRow
          /\ \A i \in 1..Len(rows) : rows'[i] = rows[i]
      BY <1>0, <2>2, <3>1
    <3>3. /\ steps' \in [Researchers -> Settlings]
          /\ steps'[t].pc = "research" /\ steps'[t].row = Len(rows) + 1
          /\ \A u \in Researchers : u # t => steps'[u] = steps[u]
      BY <1>0, <2>2 DEF Settlings
    <3>4. \A i \in 1..Len(rows') : Counted(rows'[i])
      <4>1. \A i \in 1..(Len(rows) + 1) : i \in 1..Len(rows) \/ i = Len(rows) + 1
        BY <1>0
      <4>2. QED
        BY <3>1, <3>2, <4>1 DEF RowsInv
    <3>5. ASSUME NEW u \in Researchers
          PROVE  /\ steps'[u].row \in 0..Len(rows')
                 /\ steps'[u].pc = "idle" => steps'[u].row = 0
                 /\ steps'[u].pc \in {"reward", "empire", "blame"} => steps'[u].row # 0
                 /\ steps'[u].row # 0 => Settling(steps'[u].pc, rows'[steps'[u].row])
      <4>1. CASE u = t
        BY <1>0, <3>1, <3>2, <3>3, <4>1 DEF Settling
      <4>2. CASE u # t
        <5>1. steps'[u] = steps[u] /\ steps[u].row \in 0..Len(rows')
          BY <1>0, <3>2, <3>3, <4>2, RowKnown
        <5>2. steps[u].row # 0 => rows'[steps[u].row] = rows[steps[u].row]
          BY <3>2, RowKnown
        <5>3. QED
          BY <5>1, <5>2, RowKnown DEF Placed
      <4>3. QED
        BY <4>1, <4>2
    <3>6. \A u \in Researchers : Placed(steps[u])'
      BY <3>5 DEF Placed, Settling, Uncounted
    <3>7. \A v, u \in Researchers : v # u /\ steps'[v].row # 0 => steps'[v].row # steps'[u].row
      <4>1. \A u \in Researchers : steps[u].row # Len(rows) + 1
        BY <1>0, RowKnown
      <4>2. QED
        BY <3>3, <4>1 DEF RowsInv
    <3>8. (\A j \in 1..Len(rows) : Counted(rows[j]))'
      BY <3>4 DEF Counted
    <3>9. QED
      BY <3>2, <3>3, <3>6, <3>7, <3>8 DEF RowsInv
  <2>3. CASE steps' = [steps EXCEPT ![t].pc = "research"] /\ UNCHANGED rows
    BY <1>3, <2>1, <2>3 DEF Tasks!Goto
  <2>4. QED
    BY <1>11, <2>2, <2>3 DEF Tasks!Create
<1>12. CASE Tasks!Execute(t)
  BY <1>3, <1>12 DEF Tasks!Execute
<1>13. CASE Tasks!CompleteRow(t)
  <2>1. CASE /\ Tasks!Mine(t) # 0
             /\ rows' = [rows EXCEPT ![Tasks!Mine(t)].status = "completed"]
             /\ Tasks!Goto(t, "reward") \/ Tasks!Goto(t, "empire")
    <3> DEFINE r == [rows[steps[t].row] EXCEPT !.status = "completed"]
    <3>1. steps[t].row # 0 /\ steps[t].pc = "complete"
      BY <1>13, <2>1 DEF Tasks!Mine, Tasks!CompleteRow
    <3>2. Uncounted(rows[steps[t].row]) /\ rows[steps[t].row] \in RowKinds
      BY <1>6, <3>1 DEF Settling
    <3>3. r \in RowKinds /\ Uncounted(r) /\ r.status = "completed"
      BY <3>2 DEF RowKinds, Uncounted
    <3>4. rows' = [rows EXCEPT ![steps[t].row] = r]
      BY <1>0, <2>1 DEF Tasks!Mine
    <3> HIDE DEF r
    <3>5. Counted(r) /\ Settling("reward", r) /\ Settling("empire", r)
      BY <3>3 DEF Counted, Settling, Uncounted
    <3>6. QED
      BY Zenon, <1>4, <2>1, <3>1, <3>3, <3>4, <3>5
  <2>2. CASE Tasks!GiveUp(t)
    BY <1>2, <2>2 DEF Tasks!GiveUp
  <2>3. QED
    BY <1>13, <2>1, <2>2 DEF Tasks!CompleteRow
<1>14. CASE Tasks!Reward(t)
  <2>1. CASE rows' = [rows EXCEPT ![Tasks!Mine(t)].won = @ + 1] /\ Tasks!Goto(t, "empire")
    <3> DEFINE r == [rows[steps[t].row] EXCEPT !.won = rows[steps[t].row].won + 1]
    <3>1. steps[t].row # 0 /\ steps[t].pc = "reward"
      BY <1>0, <1>14 DEF Tasks!Reward, Placed
    <3>2. /\ Uncounted(rows[steps[t].row]) /\ rows[steps[t].row] \in RowKinds
          /\ rows[steps[t].row].status = "completed"
      BY <1>6, <3>1 DEF Settling
    <3>3. r \in RowKinds /\ r.won = 1 /\ r.failed = 0 /\ r.empire = 0 /\ r.status = "completed"
      BY <3>2 DEF RowKinds, Uncounted
    <3>4. rows' = [rows EXCEPT ![steps[t].row] = r]
      BY <1>0, <2>1 DEF Tasks!Mine
    <3> HIDE DEF r
    <3>5. Counted(r) /\ Settling("empire", r)
      BY <3>3 DEF Counted, Settling
    <3>6. QED
      BY Zenon, <1>4, <2>1, <3>1, <3>3, <3>4, <3>5
  <2>2. CASE Tasks!GiveUp(t)
    BY <1>2, <2>2 DEF Tasks!GiveUp
  <2>3. QED
    BY <1>14, <2>1, <2>2 DEF Tasks!Reward
<1>15. CASE Tasks!CountForEmpire(t)
  <2>1. CASE rows' = [rows EXCEPT ![Tasks!Mine(t)].empire = @ + 1] /\ Tasks!Finish(t)
    <3> DEFINE r == [rows[steps[t].row] EXCEPT !.empire = rows[steps[t].row].empire + 1]
    <3>1. steps[t].row # 0 /\ steps[t].pc = "empire"
      BY <1>0, <1>15 DEF Tasks!CountForEmpire, Placed
    <3>2. /\ rows[steps[t].row].failed = 0 /\ rows[steps[t].row].empire = 0
          /\ rows[steps[t].row].status = "completed" /\ rows[steps[t].row] \in RowKinds
          /\ Counted(rows[steps[t].row])
      BY <1>6, <3>1 DEF Settling
    <3>3. /\ r \in RowKinds /\ r.won = rows[steps[t].row].won /\ r.failed = 0 /\ r.empire = 1
          /\ r.status = "completed" /\ r.won \in Nat /\ r.won <= 1
      BY <3>2 DEF RowKinds, Counted
    <3>4. rows' = [rows EXCEPT ![steps[t].row] = r]
      BY <1>0, <2>1 DEF Tasks!Mine
    <3> HIDE DEF r
    <3>5. Counted(r)
      BY <3>3 DEF Counted
    <3>6. QED
      BY Zenon, <1>5, <2>1, <3>1, <3>3, <3>4, <3>5
  <2>2. CASE Tasks!GiveUp(t)
    BY <1>2, <2>2 DEF Tasks!GiveUp
  <2>3. QED
    BY <1>15, <2>1, <2>2 DEF Tasks!CountForEmpire
<1>16. CASE Tasks!FailRow(t)
  <2>1. CASE /\ Tasks!Mine(t) # 0
             /\ rows' = [rows EXCEPT ![Tasks!Mine(t)].status = "failed"]
             /\ Tasks!Goto(t, "blame") \/ Tasks!Finish(t)
    <3> DEFINE r == [rows[steps[t].row] EXCEPT !.status = "failed"]
    <3>1. steps[t].row # 0 /\ steps[t].pc = "fail"
      BY <1>16, <2>1 DEF Tasks!Mine, Tasks!FailRow
    <3>2. Uncounted(rows[steps[t].row]) /\ rows[steps[t].row] \in RowKinds
      BY <1>6, <3>1 DEF Settling
    <3>3. r \in RowKinds /\ Uncounted(r) /\ r.status = "failed"
      BY <3>2 DEF RowKinds, Uncounted
    <3>4. rows' = [rows EXCEPT ![steps[t].row] = r]
      BY <1>0, <2>1 DEF Tasks!Mine
    <3> HIDE DEF r
    <3>5. Counted(r) /\ Settling("blame", r)
      BY <3>3 DEF Counted, Settling, Uncounted
    <3>6. QED
      BY Zenon, <1>4, <1>5, <2>1, <3>1, <3>3, <3>4, <3>5
  <2>2. CASE Tasks!GiveUp(t)
    BY <1>2, <2>2 DEF Tasks!GiveUp
  <2>3. QED
    BY <1>16, <2>1, <2>2 DEF Tasks!FailRow
<1>17. CASE Tasks!Blame(t)
  <2>1. CASE rows' = [rows EXCEPT ![Tasks!Mine(t)].failed = @ + 1] /\ Tasks!Finish(t)
    <3> DEFINE r == [rows[steps[t].row] EXCEPT !.failed = rows[steps[t].row].failed + 1]
    <3>1. steps[t].row # 0 /\ steps[t].pc = "blame"
      BY <1>0, <1>17 DEF Tasks!Blame, Placed
    <3>2. /\ Uncounted(rows[steps[t].row]) /\ rows[steps[t].row] \in RowKinds
          /\ rows[steps[t].row].status = "failed"
      BY <1>6, <3>1 DEF Settling
    <3>3. r \in RowKinds /\ r.won = 0 /\ r.failed = 1 /\ r.empire = 0 /\ r.status = "failed"
      BY <3>2 DEF RowKinds, Uncounted
    <3>4. rows' = [rows EXCEPT ![steps[t].row] = r]
      BY <1>0, <2>1 DEF Tasks!Mine
    <3> HIDE DEF r
    <3>5. Counted(r)
      BY <3>3 DEF Counted
    <3>6. QED
      BY Zenon, <1>5, <2>1, <3>1, <3>3, <3>4, <3>5
  <2>2. CASE Tasks!GiveUp(t)
    BY <1>2, <2>2 DEF Tasks!GiveUp
  <2>3. QED
    BY <1>17, <2>1, <2>2 DEF Tasks!Blame
<1>18. QED
  BY <1>11, <1>12, <1>13, <1>14, <1>15, <1>16, <1>17 DEF Tasks!Settle

\* Every step of the services keeps what is said of the rows.
LEMMA RowsStep == RowsInv /\ [Next]_vars => RowsInv'
<1> SUFFICES ASSUME RowsInv, [Tasks!Next]_(Tasks!vars) PROVE RowsInv'
  BY TasksMove
<1>0. /\ rows \in Seq(RowKinds) /\ steps \in [Researchers -> Settlings] /\ DOMAIN rows = 1..Len(rows)
      /\ Len(rows) \in Nat
  BY DEF RowsInv
<1>1. CASE UNCHANGED Tasks!vars
  BY <1>1 DEF RowsInv, Tasks!vars, Placed, Settling, Uncounted, Counted
<1>2. ASSUME NEW i \in DOMAIN rows, Tasks!Age(i) PROVE RowsInv'
  <2>1. steps' = steps /\ rows' = [rows EXCEPT ![i].old = TRUE]
    BY <1>2 DEF Tasks!Age
  <2>2. [rows[i] EXCEPT !.old = TRUE] \in RowKinds
    <3>1. rows[i] \in RowKinds
      BY <1>0
    <3>2. QED
      BY Zenon, <3>1 DEF RowKinds
  <2>3. rows' = [rows EXCEPT ![i] = [rows[i] EXCEPT !.old = TRUE]]
    BY <1>0, <2>1
  <2>4. rows' \in Seq(RowKinds) /\ Len(rows') = Len(rows)
    BY <1>0, <2>2, <2>3
  <2>5. \A j \in 1..Len(rows) :
              /\ rows'[j].won = rows[j].won /\ rows'[j].failed = rows[j].failed
              /\ rows'[j].empire = rows[j].empire
              /\ rows[j].status # "executing" => rows'[j].status = rows[j].status
    BY <1>0, <2>3 DEF RowKinds
  <2>6. QED
    BY <2>1, <2>4, <2>5, RowsAge
<1>3. CASE Tasks!CleanUp
  <2>1. steps' = steps /\ \A j \in 1..Len(rows) : rows'[j] =
           IF j \in Tasks!Stale THEN [rows[j] EXCEPT !.status = "failed"] ELSE rows[j]
    BY <1>0, <1>3 DEF Tasks!CleanUp
  <2>2. \A j \in 1..Len(rows) : rows[j] \in RowKinds /\ [rows[j] EXCEPT !.status = "failed"] \in RowKinds
    <3>1. \A r \in RowKinds : [r EXCEPT !.status = "failed"] \in RowKinds
      BY DEF RowKinds
    <3>2. QED
      BY <1>0, <3>1
  <2>3. rows' \in Seq(RowKinds) /\ Len(rows') = Len(rows)
    <3>1. rows' = [j \in 1..Len(rows) |->
                IF j \in Tasks!Stale THEN [rows[j] EXCEPT !.status = "failed"] ELSE rows[j]]
      BY <1>0, <1>3 DEF Tasks!CleanUp
    <3>2. rows' \in [1..Len(rows) -> RowKinds]
      BY <2>2, <3>1
    <3>3. QED
      BY <1>0, <3>2
  <2>4. \A j \in 1..Len(rows) :
              /\ rows'[j].won = rows[j].won /\ rows'[j].failed = rows[j].failed
              /\ rows'[j].empire = rows[j].empire
              /\ rows[j].status # "executing" => rows'[j].status = rows[j].status
    BY Zenon, <2>1, <2>2 DEF RowKinds, Tasks!Stale, Tasks!Executing
  <2>5. QED
    BY <2>1, <2>3, <2>4, RowsAge
<1>4. CASE Tasks!Crash
  <2>1. rows' = rows /\ steps' = [t \in Researchers |-> Tasks!Idle]
    BY <1>4 DEF Tasks!Crash
  <2>2. Tasks!Idle \in Settlings /\ Tasks!Idle.row = 0 /\ Tasks!Idle.pc = "idle"
    BY DEF Tasks!Idle, Settlings
  <2>3. /\ steps' \in [Researchers -> Settlings]
        /\ \A t \in Researchers : steps'[t].row = 0 /\ steps'[t].pc = "idle"
    BY <2>1, <2>2
  <2>4. QED
    BY <1>0, <2>1, <2>3 DEF RowsInv, Placed
<1>5. QED
  BY <1>1, <1>2, <1>3, <1>4, ThreadSettles DEF Tasks!Next

\* It holds when the empire starts.
LEMMA RowsStart == Init => RowsInv
<1> SUFFICES ASSUME Tasks!Init PROVE RowsInv
  BY DEF Init
<1>1. Tasks!Idle \in Settlings /\ Tasks!Idle.row = 0 /\ Tasks!Idle.pc = "idle"
  BY DEF Tasks!Idle, Settlings
<1>2. rows = <<>> /\ rows \in Seq(RowKinds) /\ Len(rows) = 0
  BY DEF Tasks!Init
<1>3. QED
  BY <1>1, <1>2 DEF Tasks!Init, RowsInv, Placed

\* Each row is with the thread that settles it, at the write it is at.
THEOREM RowsAreKept == Spec => []RowsInv
BY RowsStart, RowsStep, PTL DEF Spec

\* A task is counted once at most, as what its row says it became
\* (autoresearcher.py:366).
THEOREM TasksCountedOnce == Spec => []Tasks!CountedOnce
<1>1. RowsInv => Tasks!CountedOnce
  BY DEF RowsInv, Counted, Tasks!CountedOnce
<1>2. QED
  BY <1>1, RowsAreKept, PTL

-----------------------------------------------------------------------------
(* The health checks.                                                       *)

Troubled == {"database", "circuits", "budget", "lieutenants", "disk"}

Worlds ==
    [reachable : BOOLEAN, circuit : {"closed", "open", "elapsed", "half_open"}, over : BOOLEAN,
     staffed : BOOLEAN, full : BOOLEAN]

Checkups ==
    [verdicts : Seq({"healthy", "unhealthy", "failed"}), overall : {"none", "healthy", "unhealthy"},
     always : SUBSET Troubled, ever : SUBSET Troubled]

\* Which of the checks looks for a trouble.
Turn(s) ==
    IF s = "database" THEN 1 ELSE IF s = "circuits" THEN 3 ELSE IF s = "budget" THEN 4
    ELSE IF s = "lieutenants" THEN 5 ELSE 8

\* Verdicts so far are about what was wrong, and no trouble that never ended was missed.
Seen(k) ==
    /\ \A i \in 1..Len(k.verdicts) : /\ k.verdicts[i] # "healthy" => k.ever # {}
                                     /\ k.verdicts[i] = "failed" => "database" \in k.ever
    /\ \A s \in k.always : Turn(s) <= Len(k.verdicts) =>
          k.verdicts[Turn(s)] # "healthy" \/ (s = "budget" /\ "database" \in k.ever)

\* A run that goes on knows the world it looks at; one that has ended is what it stored.
Going(k, stored, w) ==
    /\ k.always \subseteq Hea!Bad(w) /\ Hea!Bad(w) \subseteq k.ever
    /\ Len(k.verdicts) <= 8 /\ stored = <<>>
Done(k, stored) ==
    /\ Len(k.verdicts) = 8 /\ k.overall = Hea!Overall(k.verdicts)
    /\ stored \in {<<>>, k.verdicts} /\ ("database" \notin k.ever => stored = k.verdicts)

HealthInv ==
    /\ world \in Worlds /\ troubles \in 0..MaxWorldChanges /\ checkup \in [Checkers -> Checkups]
    /\ records \in [Checkers -> Seq({"healthy", "unhealthy", "failed"})]
    /\ \A c \in Checkers :
          /\ Seen(checkup[c])
          /\ checkup[c].overall = "none" => Going(checkup[c], records[c], world)
          /\ checkup[c].overall # "none" => Done(checkup[c], records[c])

\* A part of the services moves by its own steps, or rests.
LEMMA ChecksMove == [Next]_vars => [Hea!Next]_(Hea!vars)
BY DEF Next, Rest, vars, checking, Hea!vars

\* The order of the checks.
LEMMA CheckNames ==
    /\ Len(Hea!Checks) = 8
    /\ Hea!Checks[1] = "database" /\ Hea!Checks[2] = "redis" /\ Hea!Checks[3] = "circuits"
    /\ Hea!Checks[4] = "budget" /\ Hea!Checks[5] = "lieutenants" /\ Hea!Checks[6] = "memory"
    /\ Hea!Checks[7] = "graph" /\ Hea!Checks[8] = "disk"
BY DEF Hea!Checks

\* What is wrong is a trouble, whatever the world.
LEMMA BadIsTrouble ==
    ASSUME NEW w
    PROVE  /\ Hea!Bad(w) \subseteq Troubled
           /\ "database" \in Hea!Bad(w) <=> ~w.reachable
           /\ "circuits" \in Hea!Bad(w) <=> w.circuit = "open"
           /\ "budget" \in Hea!Bad(w) <=> w.over
           /\ "lieutenants" \in Hea!Bad(w) <=> ~w.staffed
           /\ "disk" \in Hea!Bad(w) <=> w.full
BY DEF Hea!Bad, Troubled

\* What a check finds of the world it looks at.
LEMMA CheckFinds ==
    ASSUME NEW n \in 1..8
    PROVE  LET v == Hea!Verdict(Hea!Checks[n]) IN
           /\ v \in {"healthy", "unhealthy", "failed"}
           /\ v # "healthy" => Hea!Bad(world) # {}
           /\ v = "failed" => "database" \in Hea!Bad(world)
           /\ \A s \in Hea!Bad(world) : Turn(s) = n =>
                 v # "healthy" \/ (s = "budget" /\ "database" \in Hea!Bad(world))
<1>1. n = 1 \/ n = 2 \/ n = 3 \/ n = 4 \/ n = 5 \/ n = 6 \/ n = 7 \/ n = 8
  OBVIOUS
<1>2. \A s \in Hea!Bad(world) : s \in Troubled
  BY BadIsTrouble
<1>3. CASE n = 1
  <2>1. Hea!Verdict(Hea!Checks[n]) = Hea!DatabaseSeen /\ \A s \in Troubled : Turn(s) = n => s = "database"
    BY <1>3, CheckNames DEF Hea!Verdict, Turn, Troubled
  <2>2. QED
    BY <1>2, <2>1, BadIsTrouble DEF Hea!DatabaseSeen
<1>4. CASE n = 2
  <2>1. Hea!Verdict(Hea!Checks[n]) = Hea!RedisSeen /\ \A s \in Troubled : Turn(s) # n
    BY <1>4, CheckNames DEF Hea!Verdict, Turn, Troubled
  <2>2. QED
    BY <1>2, <2>1, BadIsTrouble DEF Hea!RedisSeen
<1>5. CASE n = 3
  <2>1. Hea!Verdict(Hea!Checks[n]) = Hea!CircuitsSeen /\ \A s \in Troubled : Turn(s) = n => s = "circuits"
    BY <1>5, CheckNames DEF Hea!Verdict, Turn, Troubled
  <2>2. QED
    BY <1>2, <2>1, BadIsTrouble DEF Hea!CircuitsSeen
<1>6. CASE n = 4
  <2>1. Hea!Verdict(Hea!Checks[n]) = Hea!BudgetSeen /\ \A s \in Troubled : Turn(s) = n => s = "budget"
    BY <1>6, CheckNames DEF Hea!Verdict, Turn, Troubled
  <2>2. QED
    BY <1>2, <2>1, BadIsTrouble DEF Hea!BudgetSeen
<1>7. CASE n = 5
  <2>1. Hea!Verdict(Hea!Checks[n]) = Hea!FleetSeen /\ \A s \in Troubled : Turn(s) = n => s = "lieutenants"
    BY <1>7, CheckNames DEF Hea!Verdict, Turn, Troubled
  <2>2. QED
    BY <1>2, <2>1, BadIsTrouble DEF Hea!FleetSeen
<1>8. CASE n = 6
  <2>1. Hea!Verdict(Hea!Checks[n]) = Hea!MemorySeen /\ \A s \in Troubled : Turn(s) # n
    BY <1>8, CheckNames DEF Hea!Verdict, Turn, Troubled
  <2>2. QED
    BY <1>2, <2>1, BadIsTrouble DEF Hea!MemorySeen
<1>9. CASE n = 7
  <2>1. Hea!Verdict(Hea!Checks[n]) = Hea!GraphSeen /\ \A s \in Troubled : Turn(s) # n
    BY <1>9, CheckNames DEF Hea!Verdict, Turn, Troubled
  <2>2. QED
    BY <1>2, <2>1, BadIsTrouble DEF Hea!GraphSeen
<1>10. CASE n = 8
  <2>1. Hea!Verdict(Hea!Checks[n]) = Hea!DiskSeen /\ \A s \in Troubled : Turn(s) = n => s = "disk"
    BY <1>10, CheckNames DEF Hea!Verdict, Turn, Troubled
  <2>2. QED
    BY <1>2, <2>1, BadIsTrouble DEF Hea!DiskSeen
<1>11. QED
  BY <1>1, <1>3, <1>4, <1>5, <1>6, <1>7, <1>8, <1>9, <1>10

\* Looking at a circuit changes nothing that is wrong.
LEMMA LookHarmless ==
    ASSUME world \in Worlds, NEW name, Hea!Look(name)
    PROVE  world' \in Worlds /\ Hea!Bad(world') = Hea!Bad(world)
<1>1. CASE world' = world
  BY <1>1
<1>2. CASE world.circuit = "elapsed" /\ world' = [world EXCEPT !.circuit = "half_open"]
  <2>1. world' \in Worlds
    BY <1>2 DEF Worlds
  <2>2. /\ world'.reachable = world.reachable /\ world'.over = world.over
        /\ world'.staffed = world.staffed /\ world'.full = world.full
        /\ world'.circuit = "half_open"
    BY <1>2 DEF Worlds
  <2>3. QED
    BY <1>2, <2>1, <2>2 DEF Hea!Bad
<1>3. QED
  BY <1>1, <1>2 DEF Hea!Look

\* The runs that are not at work are not concerned by another's step.
LEMMA OneChecks ==
    ASSUME HealthInv, NEW c \in Checkers, NEW k \in Checkups, checkup' = [checkup EXCEPT ![c] = k],
           NEW r \in Seq({"healthy", "unhealthy", "failed"}), records' = [records EXCEPT ![c] = r],
           troubles' = troubles, world' \in Worlds, Hea!Bad(world') = Hea!Bad(world), Seen(k),
           k.overall = "none" => Going(k, r, world), k.overall # "none" => Done(k, r)
    PROVE  HealthInv'
<1>1. /\ checkup' \in [Checkers -> Checkups] /\ checkup'[c] = k
      /\ \A d \in Checkers : d # c => checkup'[d] = checkup[d]
      /\ records' \in [Checkers -> Seq({"healthy", "unhealthy", "failed"})] /\ records'[c] = r
      /\ \A d \in Checkers : d # c => records'[d] = records[d]
  BY DEF HealthInv
<1>2. \A d \in Checkers :
         /\ Seen(checkup'[d])
         /\ checkup'[d].overall = "none" => Going(checkup'[d], records'[d], world')
         /\ checkup'[d].overall # "none" => Done(checkup'[d], records'[d])
  BY <1>1 DEF HealthInv, Going
<1>3. \A d \in Checkers :
         /\ Seen(checkup[d])'
         /\ (checkup[d].overall = "none" => Going(checkup[d], records[d], world))'
         /\ (checkup[d].overall # "none" => Done(checkup[d], records[d]))'
  BY Zenon, <1>2 DEF Seen, Turn, Going, Done, Hea!Overall, Hea!Bad
<1>4. QED
  BY <1>1, <1>3 DEF HealthInv

\* A check adds its verdict to those before it.
LEMMA CheckKeeps ==
    ASSUME HealthInv, NEW c \in Checkers, Hea!Check(c)
    PROVE  HealthInv'
<1> DEFINE V == {"healthy", "unhealthy", "failed"}
           v == Hea!Verdict(Hea!Upcoming(c))
           k == [checkup[c] EXCEPT !.verdicts = Append(checkup[c].verdicts, v)]
<1>1. /\ checkup[c] \in Checkups /\ Seen(checkup[c]) /\ world \in Worlds
      /\ checkup \in [Checkers -> Checkups] /\ records \in [Checkers -> Seq(V)]
  BY DEF HealthInv
<1>2. PICK n \in 1..8 : /\ n = Len(checkup[c].verdicts) + 1 /\ Len(checkup[c].verdicts) \in Nat
                         /\ Len(checkup[c].verdicts) # 8
  <2>1. Len(checkup[c].verdicts) \in Nat /\ Len(checkup[c].verdicts) < 8
    BY <1>1, CheckNames DEF Hea!Check, Checkups
  <2>2. PICK m \in Nat : m = Len(checkup[c].verdicts) /\ m < 8
    BY <2>1
  <2>3. m + 1 \in 1..8 /\ m # 8
    <3>1. m < 8
      BY <2>2
    <3>2. QED
      BY <3>1
  <2>4. QED
    BY <2>2, <2>3
<1>3. checkup[c].overall = "none"
  <2>2. checkup[c].overall # "none" => Len(checkup[c].verdicts) = 8
    <3>1. checkup[c].overall # "none" => Done(checkup[c], records[c])
      BY DEF HealthInv
    <3>2. QED
      BY <3>1 DEF Done
  <2>3. QED
    BY <1>2, <2>2
<1>4. Going(checkup[c], records[c], world)
  BY <1>3 DEF HealthInv
<1>5. /\ v \in V /\ (v # "healthy" => Hea!Bad(world) # {}) /\ (v = "failed" => "database" \in Hea!Bad(world))
      /\ \A s \in Hea!Bad(world) : Turn(s) = n =>
            v # "healthy" \/ (s = "budget" /\ "database" \in Hea!Bad(world))
  BY Zenon, <1>2, CheckFinds DEF Hea!Upcoming
<1>6. checkup' = [checkup EXCEPT ![c] = k]
  BY <1>1 DEF Hea!Check
<1> HIDE DEF v
<1>7. PICK old \in Seq(V), new \in Seq(V) :
         /\ old = checkup[c].verdicts /\ new = Append(old, v) /\ Len(new) = n /\ Len(old) = n - 1
         /\ new[n] = v /\ \A i \in 1..(n - 1) : new[i] = old[i]
  <2>1. checkup[c].verdicts \in Seq(V)
    BY <1>1 DEF Checkups
  <2>2. PICK old \in Seq(V) : old = checkup[c].verdicts
    BY <2>1
  <2>3. Len(old) \in Nat /\ Len(old) + 1 = n
    BY <1>2, <2>2
  <2>4. /\ Append(old, v) \in Seq(V) /\ Len(Append(old, v)) = Len(old) + 1
        /\ Append(old, v)[Len(old) + 1] = v
        /\ \A i \in 1..Len(old) : Append(old, v)[i] = old[i]
    BY <1>5, <2>2
  <2>5. Len(old) = n - 1
    BY <2>3
  <2>6. QED
    BY Zenon, <2>2, <2>3, <2>4, <2>5
<1>8. /\ k \in Checkups /\ k.verdicts = new /\ k.overall = "none" /\ k.always = checkup[c].always
      /\ k.ever = checkup[c].ever
  BY Zenon, <1>1, <1>3, <1>7 DEF Checkups
<1> HIDE DEF k
<1>9. Seen(k)
  <2>1. \A i \in 1..n : i \in 1..(n - 1) \/ i = n
    BY <1>2
  <2>2. \A i \in 1..(n - 1) : /\ old[i] # "healthy" => k.ever # {}
                              /\ old[i] = "failed" => "database" \in k.ever
    BY <1>1, <1>7, <1>8 DEF Seen
  <2>3. \A i \in 1..n : /\ new[i] # "healthy" => k.ever # {}
                        /\ new[i] = "failed" => "database" \in k.ever
    BY <1>4, <1>5, <1>7, <1>8, <2>1, <2>2 DEF Going
  <2>4. ASSUME NEW s \in k.always, Turn(s) <= n
        PROVE  new[Turn(s)] # "healthy" \/ (s = "budget" /\ "database" \in k.ever)
    <3>1. s \in Hea!Bad(world) /\ s \in checkup[c].always /\ Hea!Bad(world) \subseteq k.ever
      BY <1>4, <1>8, <2>4 DEF Going
    <3>2. CASE Turn(s) = n
      BY <1>5, <1>7, <3>1, <3>2
    <3>3. CASE Turn(s) # n
      <4>1. Turn(s) \in 1..(n - 1)
        BY <1>2, <2>4, <3>3 DEF Turn
      <4>2. old[Turn(s)] # "healthy" \/ (s = "budget" /\ "database" \in k.ever)
        BY <1>1, <1>7, <1>8, <3>1, <4>1 DEF Seen
      <4>3. QED
        BY <1>7, <4>1, <4>2
    <3>4. QED
      BY <3>2, <3>3
  <2>5. QED
    BY Zenon, <1>7, <1>8, <2>3, <2>4 DEF Seen
<1>10. Going(k, records[c], world)
  BY <1>2, <1>4, <1>7, <1>8 DEF Going
<1>11. world' \in Worlds /\ Hea!Bad(world') = Hea!Bad(world)
  BY <1>1, LookHarmless DEF Hea!Check
<1>12. troubles' = troubles /\ records' = [records EXCEPT ![c] = records[c]] /\ records[c] \in Seq(V)
  BY <1>1 DEF Hea!Check
<1>13. QED
  BY Zenon, <1>6, <1>8, <1>9, <1>10, <1>11, <1>12, OneChecks

\* Storing the verdicts ends a checkup.
LEMMA PersistKeeps ==
    ASSUME HealthInv, NEW c \in Checkers, Hea!Persist(c)
    PROVE  HealthInv'
<1> DEFINE V == {"healthy", "unhealthy", "failed"}
           k == [checkup[c] EXCEPT !.overall = Hea!Overall(checkup[c].verdicts)]
<1>1. /\ checkup[c] \in Checkups /\ Seen(checkup[c]) /\ world \in Worlds
      /\ checkup \in [Checkers -> Checkups] /\ records \in [Checkers -> Seq(V)]
  BY DEF HealthInv
<1>2. checkup[c].overall = "none" /\ Len(checkup[c].verdicts) = 8 /\ world' = world /\ troubles' = troubles
  BY CheckNames DEF Hea!Persist
<1>3. Going(checkup[c], records[c], world)
  BY <1>2 DEF HealthInv
<1>4. checkup' = [checkup EXCEPT ![c] = k]
  BY <1>1 DEF Hea!Persist
<1>5. /\ k \in Checkups /\ k.verdicts = checkup[c].verdicts /\ k.always = checkup[c].always
      /\ k.ever = checkup[c].ever /\ k.overall = Hea!Overall(k.verdicts) /\ k.overall # "none"
  BY Zenon, <1>1 DEF Checkups, Hea!Overall
<1> HIDE DEF k
<1>6. Seen(k)
  BY <1>1, <1>5 DEF Seen
<1>7. checkup[c].verdicts \in Seq(V) /\ DOMAIN checkup[c].verdicts = 1..8
  BY <1>1, <1>2 DEF Checkups
<1>8. PICK r \in {<<>>, k.verdicts} :
         records' = [records EXCEPT ![c] = r] /\ ("database" \notin k.ever => r = k.verdicts)
  <2>1. CASE world.reachable /\ records' = [records EXCEPT ![c] = checkup[c].verdicts]
    BY <1>5, <2>1
  <2>2. CASE /\ ~world.reachable \/ (Narrow /\ Hea!SomeFailed(checkup[c].verdicts))
             /\ UNCHANGED records
    <3>1. "database" \in k.ever
      <4>1. CASE ~world.reachable
        BY <1>3, <1>5, <4>1, BadIsTrouble DEF Going
      <4>2. CASE Hea!SomeFailed(checkup[c].verdicts)
        BY Zenon, <1>1, <1>2, <1>5, <1>7, <4>2 DEF Hea!SomeFailed, Seen
      <4>3. QED
        BY <2>2, <4>1, <4>2
    <3>2. records[c] = <<>> /\ records' = [records EXCEPT ![c] = <<>>]
      BY <1>1, <1>3, <2>2 DEF Going
    <3>3. QED
      BY <3>1, <3>2
  <2>3. QED
    BY <2>1, <2>2 DEF Hea!Persist, Hea!Store
<1>9. Done(k, r) /\ r \in Seq(V)
  <2>1. <<>> \in Seq(V) /\ Len(k.verdicts) = 8
    BY <1>2, <1>5
  <2>2. r = <<>> \/ r = k.verdicts
    BY <1>8
  <2>3. r \in Seq(V)
    BY Zenon, <1>5, <1>7, <2>1, <2>2
  <2>4. Done(k, r)
    BY <1>5, <1>8, <2>1 DEF Done
  <2>5. QED
    BY <2>3, <2>4
<1>10. QED
  BY Zenon, <1>1, <1>2, <1>4, <1>5, <1>6, <1>8, <1>9, OneChecks

\* Whatever happens to the world, those who look at it know.
LEMMA ChangeKeeps ==
    ASSUME HealthInv, Hea!Change
    PROVE  HealthInv'
<1>1. /\ world \in Worlds /\ checkup \in [Checkers -> Checkups] /\ records' = records
      /\ checkup' = [c \in Checkers |->
                    IF checkup[c].overall # "none" THEN checkup[c]
                    ELSE [checkup[c] EXCEPT !.always = @ \cap Hea!Bad(world'), !.ever = @ \cup Hea!Bad(world')]]
  BY Zenon DEF HealthInv, Hea!Change
<1>2. world' \in Worlds
  <2>1. \A s \in {"closed", "open", "elapsed", "half_open"} :
           Hea!Moves(s) \subseteq {"closed", "open", "elapsed", "half_open"}
    BY DEF Hea!Moves
  <2>2. CASE world' = [world EXCEPT !.reachable = ~@]
    BY Zenon, <1>1, <2>2 DEF Worlds
  <2>3. CASE world' = [world EXCEPT !.over = ~@]
    BY Zenon, <1>1, <2>3 DEF Worlds
  <2>4. CASE world' = [world EXCEPT !.staffed = ~@]
    BY Zenon, <1>1, <2>4 DEF Worlds
  <2>5. CASE world' = [world EXCEPT !.full = ~@]
    BY Zenon, <1>1, <2>5 DEF Worlds
  <2>6. CASE \E s \in Hea!Moves(world.circuit) : world' = [world EXCEPT !.circuit = s]
    <3>1. world.circuit \in {"closed", "open", "elapsed", "half_open"}
      BY Zenon, <1>1 DEF Worlds
    <3>2. PICK s \in {"closed", "open", "elapsed", "half_open"} : world' = [world EXCEPT !.circuit = s]
      BY <2>1, <2>6, <3>1
    <3>3. QED
      BY Zenon, <1>1, <3>2 DEF Worlds
  <2>7. QED
    BY Zenon, <2>2, <2>3, <2>4, <2>5, <2>6 DEF Hea!Change
<1>3. PICK B \in SUBSET Troubled : B = Hea!Bad(world')
  BY BadIsTrouble
<1>4. ASSUME NEW c \in Checkers
      PROVE  /\ checkup'[c] \in Checkups /\ Seen(checkup'[c])
             /\ checkup'[c].overall = "none" => Going(checkup'[c], records'[c], world')
             /\ checkup'[c].overall # "none" => Done(checkup'[c], records'[c])
  <2>1. /\ checkup[c] \in Checkups /\ Seen(checkup[c])
        /\ checkup[c].overall = "none" => Going(checkup[c], records[c], world)
        /\ checkup[c].overall # "none" => Done(checkup[c], records[c])
    BY DEF HealthInv
  <2>2. CASE checkup[c].overall # "none"
    BY Zenon, <1>1, <2>1, <2>2
  <2>3. CASE checkup[c].overall = "none"
    <3> DEFINE k == [checkup[c] EXCEPT !.always = checkup[c].always \cap B, !.ever = checkup[c].ever \cup B]
    <3>1. checkup'[c] = k
      BY Zenon, <1>1, <1>3, <2>3
    <3>2. /\ k \in Checkups /\ k.verdicts = checkup[c].verdicts /\ k.overall = "none"
          /\ k.always = checkup[c].always \cap B /\ k.ever = checkup[c].ever \cup B
      BY Zenon, <2>1, <2>3 DEF Checkups
    <3> HIDE DEF k
    <3>3. Seen(k)
      BY <2>1, <3>2 DEF Seen
    <3>4. Going(k, records'[c], world')
      BY Zenon, <1>1, <1>3, <2>1, <2>3, <3>2 DEF Going
    <3>5. QED
      BY <3>1, <3>2, <3>3, <3>4
  <2>4. QED
    BY <2>2, <2>3
<1>5. \A d \in Checkers :
         /\ Seen(checkup[d])'
         /\ (checkup[d].overall = "none" => Going(checkup[d], records[d], world))'
         /\ (checkup[d].overall # "none" => Done(checkup[d], records[d]))'
  BY Zenon, <1>4 DEF Seen, Turn, Going, Done, Hea!Overall, Hea!Bad
<1>6. troubles' \in 0..MaxWorldChanges
  <2>1. troubles \in 0..MaxWorldChanges /\ troubles < MaxWorldChanges /\ troubles' = troubles + 1
    BY Zenon DEF HealthInv, Hea!Change
  <2>2. MaxWorldChanges \in Nat
    BY ServicesAssumption DEF Hea!HealthAssumption
  <2>3. QED
    BY <2>1, <2>2
<1>7. checkup' \in [Checkers -> Checkups]
  <2>1. \A d \in Checkers : checkup'[d] \in Checkups
    BY <1>4
  <2>2. QED
    BY Zenon, <1>1, <2>1
<1>8. QED
  BY Zenon, <1>1, <1>2, <1>5, <1>6, <1>7 DEF HealthInv

\* Every step of the services keeps what is said of the checks.
LEMMA HealthStep == HealthInv /\ [Next]_vars => HealthInv'
<1> SUFFICES ASSUME HealthInv, [Hea!Next]_(Hea!vars) PROVE HealthInv'
  BY ChecksMove
<1>1. CASE UNCHANGED Hea!vars
  <2>1. world' = world /\ troubles' = troubles /\ checkup' = checkup /\ records' = records
    BY <1>1 DEF Hea!vars
  <2>2. \A d \in Checkers :
           /\ Seen(checkup[d])'
           /\ (checkup[d].overall = "none" => Going(checkup[d], records[d], world))'
           /\ (checkup[d].overall # "none" => Done(checkup[d], records[d]))'
    <3>1. \A d \in Checkers :
             /\ Seen(checkup[d])
             /\ checkup[d].overall = "none" => Going(checkup[d], records[d], world)
             /\ checkup[d].overall # "none" => Done(checkup[d], records[d])
      BY DEF HealthInv
    <3>2. \A d \in Checkers :
             /\ Seen(checkup'[d])
             /\ checkup'[d].overall = "none" => Going(checkup'[d], records'[d], world')
             /\ checkup'[d].overall # "none" => Done(checkup'[d], records'[d])
      BY <2>1, <3>1
    <3>3. QED
      BY Zenon, <3>2 DEF Seen, Turn, Going, Done, Hea!Overall, Hea!Bad
  <2>3. /\ world' \in Worlds /\ troubles' \in 0..MaxWorldChanges /\ checkup' \in [Checkers -> Checkups]
        /\ records' \in [Checkers -> Seq({"healthy", "unhealthy", "failed"})]
    <3>1. /\ world \in Worlds /\ troubles \in 0..MaxWorldChanges /\ checkup \in [Checkers -> Checkups]
          /\ records \in [Checkers -> Seq({"healthy", "unhealthy", "failed"})]
      BY DEF HealthInv
    <3>2. QED
      BY <2>1, <3>1
  <2>4. QED
    BY <2>2, <2>3 DEF HealthInv
<1>2. CASE Hea!Next
  BY <1>2, ChangeKeeps, CheckKeeps, PersistKeeps DEF Hea!Next
<1>3. QED
  BY <1>1, <1>2

\* It holds when the empire starts.
LEMMA HealthStart == Init => HealthInv
<1> SUFFICES ASSUME Hea!Init PROVE HealthInv
  BY DEF Init
<1>1. world \in Worlds
  BY Zenon DEF Hea!Init, Worlds
<1>2. Hea!Started(world) \in Checkups /\ Seen(Hea!Started(world)) /\ Going(Hea!Started(world), <<>>, world)
      /\ Hea!Started(world).overall = "none"
  BY BadIsTrouble DEF Hea!Started, Checkups, Seen, Going, Turn
<1>3. QED
  BY <1>1, <1>2, ServicesAssumption DEF Hea!Init, HealthInv, Hea!HealthAssumption

\* A checkup knows what was wrong at some time since it began, and all along.
THEOREM ChecksAreKept == Spec => []HealthInv
BY HealthStart, HealthStep, PTL DEF Spec

\* A report that has ended is right.
LEMMA ReportsRight == HealthInv => Hea!HealthRight
<1> SUFFICES ASSUME HealthInv, NEW c \in Checkers
    PROVE  /\ checkup[c].overall = "unhealthy" => checkup[c].ever # {}
           /\ checkup[c].overall = "healthy" =>
                 checkup[c].always \subseteq (IF "database" \in checkup[c].ever THEN {"budget"} ELSE {})
           /\ records[c] \in {<<>>, checkup[c].verdicts}
           /\ checkup[c].overall # "none" /\ "database" \notin checkup[c].ever =>
                 records[c] = checkup[c].verdicts
  BY DEF Hea!HealthRight, Hea!VerdictRight, Hea!RecordsRight
<1>1. /\ checkup[c] \in Checkups /\ Seen(checkup[c])
      /\ checkup[c].overall = "none" => Going(checkup[c], records[c], world)
      /\ checkup[c].overall # "none" => Done(checkup[c], records[c])
  BY DEF HealthInv
<1>2. CASE checkup[c].overall = "none"
  BY <1>1, <1>2 DEF Going
<1>3. CASE checkup[c].overall # "none"
  <2>1. PICK v \in Seq({"healthy", "unhealthy", "failed"}) :
           v = checkup[c].verdicts /\ Len(v) = 8 /\ DOMAIN v = 1..8
    BY <1>1, <1>3 DEF Done, Checkups
  <2>2. checkup[c].overall = (IF \A i \in 1..8 : v[i] = "healthy" THEN "healthy" ELSE "unhealthy")
    BY <1>1, <1>3, <2>1 DEF Done, Hea!Overall
  <2>5. ASSUME checkup[c].overall = "unhealthy" PROVE checkup[c].ever # {}
    BY Zenon, <1>1, <2>1, <2>2, <2>5 DEF Seen
  <2>6. ASSUME checkup[c].overall = "healthy", NEW s \in checkup[c].always
        PROVE  s = "budget" /\ "database" \in checkup[c].ever
    <3>1. Turn(s) \in 1..8
      BY DEF Turn
    <3>2. v[Turn(s)] = "healthy"
      BY Zenon, <2>2, <2>6, <3>1
    <3>3. Turn(s) <= Len(v)
      BY <2>1, <3>1
    <3>4. QED
      BY Zenon, <1>1, <2>1, <2>6, <3>2, <3>3 DEF Seen
  <2>7. QED
    BY <1>1, <1>3, <2>5, <2>6 DEF Done
<1>4. QED
  BY <1>2, <1>3

\* A report finds what was wrong all along, and nothing if nothing ever was
\* (health.py, run_all_checks).
THEOREM HealthIsRight == Spec => []Hea!HealthRight
BY ChecksAreKept, ReportsRight, PTL

-----------------------------------------------------------------------------
(* The retry loop.                                                          *)

Endings == {"good", "poor", "passing", "empty", "permanent", "raised", "raised_permanent"}
Final == {"good", "permanent", "raised_permanent"}
Tries == [model : 0..Strongest, ending : Endings, told : SUBSET Nat]
Counters == [retries : Nat, late : Nat, failures : Nat, escalations : Nat]
Histories == [ended : Nat, late : Nat, failed : Nat, attempts : Nat, changes : Nat]

\* What AttemptsRight says of one attempt of a sequence.
TryRight(s, i) ==
    /\ i <= EscalateAfter => s[i].model = s[1].model
    /\ i > 1 => /\ i - 1 \in s[i].told \/ Told = 0
                /\ s[i].model >= s[i - 1].model
                /\ i > EscalateAfter /\ s[i].model = s[i - 1].model => s[i].model = Strongest
    /\ i <= Told + 1 => s[i].told = 1..(i - 1)
    /\ i > JumpFrom /\ JumpFrom >= EscalateAfter => s[i].model = Strongest

Switched(s) == {i \in 2..Len(s) : s[i].model # s[i - 1].model}
Paid(s) == {i \in 1..Len(s) : s[i].ending \notin Ret!Raised}

\* The attempts of a task are right, and those before the last did not end it.
Trying ==
    /\ attempts \in Seq(Tries) /\ Len(attempts) <= MaxRetries
    /\ \A i \in 1..Len(attempts) : TryRight(attempts, i)
    /\ \A i \in 1..Len(attempts) : i < Len(attempts) => attempts[i].ending \notin Final

\* How far the task in hand is.
Reached ==
    /\ ended = "idle" => attempts = <<>>
    /\ ended = "running" =>
          /\ Len(attempts) < MaxRetries /\ runs.ended < MaxRuns
          /\ attempts # <<>> => /\ attempts[Len(attempts)].ending \notin Final
                                /\ attempts[Len(attempts)].model = asking
    /\ ended = "success" => attempts # <<>> /\ attempts[Len(attempts)].ending = "good"
    /\ ended = "failure" =>
          /\ attempts # <<>> /\ attempts[Len(attempts)].ending # "good"
          /\ \/ Ret!Class(attempts[Len(attempts)].ending) = "permanent"
             \/ Len(attempts) = MaxRetries

\* The counters are the history, with the changes of the task in hand.
InBooks ==
    /\ stats.retries + runs.ended = runs.attempts
    /\ stats.late = runs.late /\ stats.failures = runs.failed
    /\ EscalateAfter > 0 => stats.escalations =
          runs.changes + (IF ended = "running" THEN Cardinality(Switched(attempts)) ELSE 0)
    /\ charged = Cardinality(Paid(attempts))
    /\ Len(classes) + (IF ended = "success" THEN 1 ELSE 0) = charged

RetInv ==
    /\ classes \in Seq({"transient", "quality", "permanent"}) /\ charged \in Nat
    /\ asking \in 0..Strongest /\ ended \in {"idle", "running", "success", "failure"}
    /\ stats \in Counters /\ runs \in Histories /\ runs.ended <= MaxRuns
    /\ Trying /\ Reached /\ InBooks

\* A part of the services moves by its own steps, or rests.
LEMMA RetriesMove == [Next]_vars => [Ret!Next]_(Ret!vars)
BY DEF Next, Rest, vars, retrying, Ret!vars

\* What the constants of the loop are.
LEMMA RetNumbers ==
    /\ Strongest \in Nat \ {0} /\ MaxRetries \in Nat \ {0} /\ FirstModels \subseteq 0..Strongest
    /\ EscalateAfter \in Nat /\ JumpFrom \in Nat /\ Told \in Nat /\ MaxRuns \in Nat
BY ServicesAssumption DEF Ret!RetriesAssumption

\* The model of the next attempt is as strong at least, and stronger once models change.
LEMMA ModelGrows ==
    ASSUME RetInv, NEW n \in Nat
    PROVE  /\ Ret!Escalated(n) \in 0..Strongest
           /\ Ret!Escalated(n) >= asking
           /\ n < EscalateAfter => Ret!Escalated(n) = asking
           /\ n >= EscalateAfter /\ Ret!Escalated(n) = asking => asking = Strongest
           /\ n >= JumpFrom /\ JumpFrom >= EscalateAfter => Ret!Escalated(n) = Strongest
<1>1. asking \in 0..Strongest /\ Strongest \in Nat \ {0} /\ EscalateAfter \in Nat /\ JumpFrom \in Nat
  BY RetNumbers DEF RetInv
<1>2. PICK a \in Nat : a = (IF asking = 0 THEN 1 ELSE asking) + 1
  BY <1>1
<1>3. Ret!Stronger(asking, n) = IF n >= JumpFrom THEN Strongest ELSE IF a <= Strongest THEN a ELSE Strongest
  BY <1>1, <1>2 DEF Ret!Stronger, Ret!Above
<1>4. QED
  BY <1>1, <1>2, <1>3 DEF Ret!Escalated

\* What is counted of a sequence that has one attempt more.
LEMMA OneMoreCounts ==
    ASSUME NEW s \in Seq(Tries), NEW x \in Tries
    PROVE  /\ Cardinality(Switched(s)) \in Nat /\ Cardinality(Paid(s)) \in Nat
           /\ Cardinality(Switched(Append(s, x))) = Cardinality(Switched(s))
                 + (IF s # <<>> /\ x.model # s[Len(s)].model THEN 1 ELSE 0)
           /\ Cardinality(Paid(Append(s, x))) = Cardinality(Paid(s))
                 + (IF x.ending \in Ret!Raised THEN 0 ELSE 1)
<1>1. PICK n \in Nat : n = Len(s)
  OBVIOUS
<1>2. /\ Len(Append(s, x)) = n + 1 /\ Append(s, x)[n + 1] = x
      /\ \A i \in 1..n : Append(s, x)[i] = s[i]
  BY <1>1
<1>3. s = <<>> <=> n = 0
  BY <1>1
<1>4. IsFiniteSet(Switched(s)) /\ n + 1 \notin Switched(s)
  <2>1. Switched(s) \in SUBSET (1..n)
    BY <1>1 DEF Switched
  <2>2. IsFiniteSet(1..n)
    BY FS_Interval
  <2>3. QED
    BY <2>1, <2>2, FS_Subset
<1>5. IsFiniteSet(Paid(s)) /\ n + 1 \notin Paid(s)
  <2>1. Paid(s) \in SUBSET (1..n)
    BY <1>1 DEF Paid
  <2>2. IsFiniteSet(1..n)
    BY FS_Interval
  <2>3. QED
    BY <2>1, <2>2, FS_Subset
<1>6. Switched(Append(s, x)) =
         IF s # <<>> /\ x.model # s[n].model THEN Switched(s) \cup {n + 1} ELSE Switched(s)
  <2>1. ASSUME NEW i \in Int
        PROVE  i \in Switched(Append(s, x)) <=>
                  \/ i \in Switched(s)
                  \/ i = n + 1 /\ s # <<>> /\ x.model # s[n].model
    <3>1. CASE i \in 2..n
      <4>1. i \in 1..n /\ i - 1 \in 1..n /\ i \in 2..(n + 1) /\ i # n + 1
        BY <3>1
      <4>2. QED
        BY <1>1, <1>2, <3>1, <4>1 DEF Switched
    <3>2. CASE i = n + 1
      <4>1. i \in 2..(n + 1) <=> n # 0
        BY <3>2
      <4>2. n # 0 => i - 1 = n /\ n \in 1..n
        BY <3>2
      <4>3. QED
        BY <1>1, <1>2, <1>3, <1>4, <3>2, <4>1, <4>2 DEF Switched
    <3>3. CASE i \notin 2..n /\ i # n + 1
      <4>1. i \notin 2..(n + 1)
        BY <3>3
      <4>2. QED
        BY <1>1, <1>2, <3>3, <4>1 DEF Switched
    <3>4. QED
      BY <3>1, <3>2, <3>3
  <2>2. Switched(s) \subseteq Int /\ Switched(Append(s, x)) \subseteq Int /\ n + 1 \in Int
    BY <1>1, <1>2 DEF Switched
  <2>3. QED
    BY Zenon, <2>1, <2>2
<1>7. Paid(Append(s, x)) = IF x.ending \in Ret!Raised THEN Paid(s) ELSE Paid(s) \cup {n + 1}
  <2>1. ASSUME NEW i \in Int
        PROVE  i \in Paid(Append(s, x)) <=> i \in Paid(s) \/ (i = n + 1 /\ x.ending \notin Ret!Raised)
    <3>1. i \in 1..(n + 1) <=> i \in 1..n \/ i = n + 1
      OBVIOUS
    <3>2. i \in 1..n => i # n + 1
      OBVIOUS
    <3>3. QED
      BY <1>1, <1>2, <3>1, <3>2 DEF Paid
  <2>2. Paid(s) \subseteq Int /\ Paid(Append(s, x)) \subseteq Int /\ n + 1 \in Int
    BY <1>1, <1>2 DEF Paid
  <2>3. QED
    BY <2>1, <2>2
<1>8. /\ Cardinality(Switched(s)) \in Nat /\ Cardinality(Paid(s)) \in Nat
  BY <1>4, <1>5, FS_CardinalityType
<1>9. /\ Cardinality(Switched(s) \cup {n + 1}) = Cardinality(Switched(s)) + 1
      /\ Cardinality(Paid(s) \cup {n + 1}) = Cardinality(Paid(s)) + 1
  BY Zenon, <1>4, <1>5, FS_AddElement
<1>10. QED
  BY <1>1, <1>6, <1>7, <1>8, <1>9

\* The next attempt is as right as those before it.
LEMMA OneMoreTry ==
    ASSUME RetInv, ended = "running", NEW x \in Tries,
           x.model = Ret!Escalated(Len(attempts)), x.told = Ret!Errors(Len(attempts))
    PROVE  LET s == Append(attempts, x) IN
           /\ s \in Seq(Tries) /\ Len(s) = Len(attempts) + 1 /\ Len(s) <= MaxRetries
           /\ s[Len(s)] = x /\ s # <<>>
           /\ \A i \in 1..Len(s) : TryRight(s, i)
           /\ \A i \in 1..Len(s) : i < Len(s) => s[i].ending \notin Final
<1> DEFINE s == Append(attempts, x)
<1>1. PICK n \in Nat : n = Len(attempts)
  BY DEF RetInv, Trying
<1>2. attempts \in Seq(Tries) /\ n < MaxRetries
  BY <1>1 DEF RetInv, Trying, Reached
<1>3. /\ s \in Seq(Tries) /\ Len(s) = n + 1 /\ s[n + 1] = x /\ s # <<>>
      /\ \A i \in 1..n : s[i] = attempts[i]
  BY <1>1, <1>2
<1> HIDE DEF s
<1>4. n + 1 <= MaxRetries
  BY <1>2, RetNumbers
<1>5. ASSUME NEW i \in 1..n PROVE TryRight(s, i) /\ s[i].ending \notin Final
  <2>1. s[i] = attempts[i] /\ s[1] = attempts[1] /\ (i > 1 => s[i - 1] = attempts[i - 1])
    BY <1>3
  <2>2. TryRight(attempts, i)
    BY <1>1 DEF RetInv, Trying
  <2>3. TryRight(s, i)
    BY <2>1, <2>2 DEF TryRight
  <2>4. attempts[i].ending \notin Final
    <3>1. i < n \/ i = n
      OBVIOUS
    <3>2. attempts # <<>>
      BY <1>1
    <3>3. QED
      BY <1>1, <3>1, <3>2 DEF RetInv, Trying, Reached
  <2>5. QED
    BY <2>1, <2>3, <2>4
<1>6. TryRight(s, n + 1)
  <2>1. /\ asking \in 0..Strongest /\ Strongest \in Nat /\ EscalateAfter \in Nat /\ JumpFrom \in Nat
        /\ Told \in Nat
    BY RetNumbers DEF RetInv
  <2>2. PICK m \in 0..Strongest : m = x.model /\ m = Ret!Escalated(n)
    BY <1>1, ModelGrows
  <2>3. /\ m >= asking /\ (n < EscalateAfter => m = asking)
        /\ n >= EscalateAfter /\ m = asking => asking = Strongest
        /\ n >= JumpFrom /\ JumpFrom >= EscalateAfter => m = Strongest
    BY Zenon, <2>2, ModelGrows
  <2>4. n > 0 => attempts[n].model = asking /\ s[n].model = asking
    BY <1>1, <1>3 DEF RetInv, Reached
  <2>5. n > 0 /\ n < EscalateAfter => s[1].model = asking
    <3>1. ASSUME n > 0, n < EscalateAfter PROVE s[1].model = asking
      <4>1. n \in 1..n /\ n <= EscalateAfter /\ 1 \in 1..n
        BY <2>1, <3>1
      <4>2. TryRight(s, n)
        BY <1>5, <4>1
      <4>3. QED
        BY <2>4, <3>1, <4>1, <4>2 DEF TryRight
    <3>2. QED
      BY <3>1
  <2>6. n + 1 <= EscalateAfter => s[n + 1].model = s[1].model
    <3>1. CASE n = 0
      BY <3>1
    <3>2. CASE n > 0 /\ n + 1 <= EscalateAfter
      <4>1. n < EscalateAfter
        BY <2>1, <3>2
      <4>2. QED
        BY <1>3, <2>2, <2>3, <2>5, <3>2, <4>1
    <3>3. QED
      BY <3>1, <3>2
  <2>7. x.told = {i \in 1..n : i > n - Told}
    BY <1>1 DEF Ret!Errors
  <2>8. n > 0 => n \in x.told \/ Told = 0
    <3>1. n > 0 => n \in 1..n /\ (n > n - Told \/ Told = 0)
      BY <2>1
    <3>2. QED
      BY <2>7, <3>1
  <2>9. n <= Told => x.told = 1..n
    <3>1. n <= Told => \A i \in 1..n : i > n - Told
      BY <2>1
    <3>2. QED
      BY <2>7, <3>1
  <2>10. /\ n + 1 > 1 <=> n > 0
         /\ n + 1 > EscalateAfter <=> n >= EscalateAfter
         /\ n + 1 > JumpFrom <=> n >= JumpFrom
         /\ n + 1 <= Told + 1 <=> n <= Told
         /\ (n + 1) - 1 = n
    BY <2>1
  <2>11. QED
    BY <1>3, <2>2, <2>3, <2>4, <2>6, <2>8, <2>9, <2>10 DEF TryRight
<1>7. \A i \in 1..(n + 1) : i \in 1..n \/ i = n + 1
  OBVIOUS
<1>8. \A i \in 1..(n + 1) : i < n + 1 => i \in 1..n
  OBVIOUS
<1>9. QED
  BY <1>1, <1>3, <1>4, <1>5, <1>6, <1>7, <1>8 DEF s

\* The loop counts as this module does.
LEMMA SameCount == \A S : Ret!Cardinality(S) = Cardinality(S)
BY DEF Ret!Cardinality, Cardinality

\* Nothing is counted of no attempts.
LEMMA NoTries == Cardinality(Switched(<<>>)) = 0 /\ Cardinality(Paid(<<>>)) = 0
<1>1. Switched(<<>>) = {} /\ Paid(<<>>) = {}
  BY DEF Switched, Paid
<1>2. QED
  BY <1>1, FS_EmptySet

\* A run starts without an attempt.
LEMMA StartKeeps == RetInv /\ Ret!Start => RetInv'
<1> SUFFICES ASSUME RetInv, Ret!Start PROVE RetInv'
  OBVIOUS
<1>1. /\ ended # "running" /\ runs.ended < MaxRuns /\ ended' = "running" /\ asking' \in FirstModels
      /\ attempts' = <<>> /\ classes' = <<>> /\ charged' = 0 /\ stats' = stats /\ runs' = runs
  BY DEF Ret!Start
<1>2. Trying'
  BY <1>1, RetNumbers DEF Trying
<1>3. Reached'
  BY <1>1, RetNumbers DEF Reached
<1>4. /\ Cardinality(Switched(attempts')) = 0 /\ Cardinality(Paid(attempts')) = 0 /\ Len(classes') = 0
  BY <1>1, NoTries
<1>5. InBooks'
  <2>1. /\ stats.retries + runs.ended = runs.attempts
        /\ stats.late = runs.late /\ stats.failures = runs.failed
        /\ EscalateAfter > 0 => stats.escalations = runs.changes + 0
    BY <1>1 DEF RetInv, InBooks
  <2>2. QED
    BY <1>1, <1>4, <2>1 DEF InBooks, Switched, Paid, Ret!Raised
<1>6. QED
  BY <1>1, <1>2, <1>3, <1>5, RetNumbers DEF RetInv

\* One turn of the loop.
LEMMA AttemptKeeps == RetInv /\ Ret!Attempt => RetInv'
<1> SUFFICES ASSUME RetInv, Ret!Attempt PROVE RetInv'
  OBVIOUS
<1>n. PICK n \in Nat : n = Len(attempts)
  BY DEF RetInv, Trying
<1>e. PICK esc \in {0, 1} : esc = IF Ret!Escalated(n) # asking THEN 1 ELSE 0
  OBVIOUS
<1>0. /\ n \in Nat /\ attempts \in Seq(Tries) /\ n < MaxRetries /\ ended = "running" /\ (attempts # <<>> <=> n # 0)
      /\ runs.ended < MaxRuns /\ asking \in 0..Strongest /\ charged \in Nat
      /\ stats \in Counters /\ runs \in Histories
      /\ classes \in Seq({"transient", "quality", "permanent"})
  BY <1>n DEF Ret!Attempt, RetInv, Trying, Reached
<1>1. PICK ending \in Endings :
         /\ attempts' = Append(attempts, [model |-> Ret!Escalated(n), ending |-> ending, told |-> Ret!Errors(n)])
         /\ charged' = charged + (IF ending \in Ret!Raised THEN 0 ELSE 1)
         /\ classes' = IF ending \in {"good"} \cup Ret!Raised THEN classes ELSE Append(classes, Ret!Class(ending))
         /\ \/ ending = "good" /\ Ret!Leave("success") /\ Ret!Count("success", esc)
            \/ /\ ending # "good"
               /\ Ret!Class(ending) = "permanent" \/ n + 1 = MaxRetries
               /\ Ret!Leave("failure") /\ Ret!Count("failure", esc)
            \/ /\ ending # "good" /\ Ret!Class(ending) # "permanent" /\ n + 1 < MaxRetries
               /\ stats' = [stats EXCEPT !.escalations = @ + esc]
               /\ UNCHANGED <<ended, runs>>
  BY <1>n, <1>e DEF Ret!Attempt, Endings, Ret!Raised
<1> DEFINE x == [model |-> Ret!Escalated(n), ending |-> ending, told |-> Ret!Errors(n)]
           s == Append(attempts, x)
<1>2. asking' = Ret!Escalated(n) /\ attempts' = s
  BY <1>1, <1>n DEF Ret!Attempt
<1>3. x \in Tries /\ x.model = Ret!Escalated(n) /\ x.told = Ret!Errors(n) /\ x.ending = ending
  <2>1. Ret!Escalated(n) \in 0..Strongest
    BY <1>0, ModelGrows
  <2>2. Ret!Errors(n) \in SUBSET Nat
    BY <1>0 DEF Ret!Errors
  <2>3. QED
    BY <2>1, <2>2 DEF Tries
<1> HIDE DEF x
<1>4. /\ s \in Seq(Tries) /\ Len(s) = n + 1 /\ Len(s) <= MaxRetries /\ s[Len(s)] = x /\ s # <<>>
      /\ \A i \in 1..Len(s) : TryRight(s, i)
      /\ \A i \in 1..Len(s) : i < Len(s) => s[i].ending \notin Final
  BY <1>0, <1>3, <1>n, OneMoreTry
<1>5. /\ Cardinality(Switched(attempts)) \in Nat /\ Cardinality(Paid(attempts)) \in Nat
      /\ Cardinality(Switched(s)) = Cardinality(Switched(attempts))
            + (IF attempts # <<>> /\ x.model # attempts[n].model THEN 1 ELSE 0)
      /\ Cardinality(Paid(s)) = Cardinality(Paid(attempts)) + (IF ending \in Ret!Raised THEN 0 ELSE 1)
  BY <1>0, <1>3, <1>n, OneMoreCounts
<1>6. EscalateAfter > 0 => Cardinality(Switched(s)) = Cardinality(Switched(attempts)) + esc
  <2>1. CASE n = 0 /\ EscalateAfter > 0
    <3>1. Ret!Escalated(0) = asking
      BY <2>1, ModelGrows, RetNumbers
    <3>2. QED
      BY <1>0, <1>5, <1>e, <2>1, <3>1
  <2>2. CASE n # 0
    <3>1. attempts[n].model = asking
      BY <1>0, <1>n, <2>2 DEF RetInv, Reached
    <3>2. QED
      BY <1>0, <1>3, <1>5, <1>e, <2>2, <3>1
  <2>3. QED
    BY <2>1, <2>2
<1> DEFINE P == Cardinality(Paid(s))
           C == Cardinality(Switched(s))
<1>7. Trying'
  BY <1>2, <1>4 DEF Trying, TryRight, Final
<1>8. /\ asking' \in 0..Strongest /\ charged' = P /\ charged' \in Nat
      /\ classes' \in Seq({"transient", "quality", "permanent"})
      /\ Len(classes') + (IF ending = "good" THEN 1 ELSE 0) = charged'
  <2>1. asking' \in 0..Strongest
    BY <1>0, <1>2, ModelGrows
  <2>2. charged = Cardinality(Paid(attempts)) /\ Len(classes) = charged
    <3>1. Len(classes) \in Nat /\ Len(classes) + 0 = charged /\ charged = Cardinality(Paid(attempts))
      BY <1>0 DEF RetInv, InBooks
    <3>2. QED
      BY <3>1
  <2>3. charged' = P
    BY <1>1, <1>5, <2>2
  <2>4. charged' \in Nat
    BY <1>0, <1>1
  <2>5. Ret!Class(ending) \in {"transient", "quality", "permanent"} \/ ending = "good"
    BY <1>1 DEF Ret!Class, Endings
  <2>6. CASE ending \in {"good"} \cup Ret!Raised
    <3>1. classes' = classes
      BY <1>1, <2>6
    <3>2. CASE ending = "good"
      <4>1. ending \notin Ret!Raised
        BY <3>2 DEF Ret!Raised
      <4>2. QED
        BY <1>0, <1>1, <2>1, <2>2, <2>3, <2>4, <3>1, <3>2, <4>1
    <3>3. CASE ending # "good" /\ ending \in Ret!Raised
      BY <1>0, <1>1, <2>1, <2>2, <2>3, <2>4, <3>1, <3>3
    <3>4. QED
      BY <2>6, <3>2, <3>3
  <2>7. CASE ending \notin {"good"} \cup Ret!Raised
    <3>1. classes' = Append(classes, Ret!Class(ending)) /\ Ret!Class(ending) \in {"transient", "quality", "permanent"}
      BY <1>1, <2>5, <2>7
    <3>2. /\ classes' \in Seq({"transient", "quality", "permanent"}) /\ Len(classes') = Len(classes) + 1
      BY <1>0, <3>1
    <3>3. QED
      BY <1>0, <1>1, <2>1, <2>2, <2>3, <2>4, <2>7, <3>2
  <2>8. QED
    BY <2>6, <2>7
<1>9. /\ stats.retries + runs.ended = runs.attempts
      /\ stats.late = runs.late /\ stats.failures = runs.failed
      /\ EscalateAfter > 0 => stats.escalations = runs.changes + Cardinality(Switched(attempts))
  BY <1>0 DEF RetInv, InBooks
<1>10. /\ stats.retries \in Nat /\ stats.late \in Nat /\ stats.failures \in Nat /\ stats.escalations \in Nat
       /\ runs.ended \in Nat /\ runs.late \in Nat /\ runs.failed \in Nat /\ runs.attempts \in Nat
       /\ runs.changes \in Nat /\ C \in Nat /\ MaxRuns \in Nat
  <2>1. C \in Nat
    BY <1>5
  <2>2. QED
    BY <1>0, <2>1, RetNumbers DEF Counters, Histories
<1>11. Ret!Changes = C
  BY Zenon, <1>2, SameCount DEF Ret!Changes, Switched
<1>b. PICK r \in Nat, e \in Nat, a \in Nat, c \in Nat, u \in Nat, k \in Nat :
         /\ r = stats.retries /\ u = stats.escalations
         /\ e = runs.ended /\ a = runs.attempts /\ c = runs.changes
         /\ k = Cardinality(Switched(attempts))
  BY Zenon, <1>5, <1>10
<1>d. /\ r + e = a /\ (EscalateAfter > 0 => u = c + k /\ C = k + esc)
  BY <1>6, <1>9, <1>b
<1>f. /\ r + n + (e + 1) = a + (n + 1)
      /\ EscalateAfter > 0 => u + esc = c + C /\ u + esc = c + C + 0
  <2>1. C \in Nat
    BY <1>10
  <2> HIDE DEF C
  <2>2. QED
    BY <1>d, <2>1
<1>g. e + 1 <= MaxRuns
  <2>1. e < MaxRuns /\ MaxRuns \in Nat
    BY <1>0, <1>10, <1>b
  <2>2. QED
    BY <2>1
<1> HIDE DEF s
<1>12. ASSUME NEW end \in {"success", "failure"}, Ret!Leave(end), Ret!Count(end, esc),
              end = "success" <=> ending = "good",
              end = "failure" => Ret!Class(ending) = "permanent" \/ n + 1 = MaxRetries
       PROVE  RetInv'
  <2>a. PICK late \in {0, 1}, lost \in {0, 1} :
           /\ late = IF end = "success" /\ n > 0 THEN 1 ELSE 0
           /\ lost = IF end = "failure" THEN 1 ELSE 0
    OBVIOUS
  <2>1. /\ ended' = end
        /\ runs' = [ended |-> runs.ended + 1, attempts |-> runs.attempts + (n + 1),
                    late |-> runs.late + late, failed |-> runs.failed + lost,
                    changes |-> runs.changes + C]
        /\ stats' = [retries |-> stats.retries + n, late |-> stats.late + late,
                     failures |-> stats.failures + lost, escalations |-> stats.escalations + esc]
    <3>1. attempts # <<>> <=> n > 0
      BY <1>0
    <3>2. n + 1 > 1 <=> n > 0
      OBVIOUS
    <3>3. QED
      BY <1>2, <1>4, <1>11, <1>12, <1>n, <2>a, <3>1, <3>2 DEF Ret!Leave, Ret!Count
  <2> HIDE DEF C, P
  <2>2. stats' \in Counters /\ runs' \in Histories /\ runs'.ended <= MaxRuns
    <3>1. stats' \in Counters
      BY <1>10, <2>1 DEF Counters
    <3>2. runs' \in Histories
      BY <1>10, <2>1 DEF Histories
    <3>3. runs'.ended <= MaxRuns
      BY <1>b, <1>g, <2>1
    <3>4. QED
      BY <3>1, <3>2, <3>3
  <2>3. Reached'
    <3>1. ended' = end /\ attempts' # <<>> /\ attempts'[Len(attempts')].ending = ending
          /\ Len(attempts') = n + 1
      BY <1>2, <1>3, <1>4, <2>1
    <3>2. (Len(attempts') = MaxRetries) <=> n + 1 = MaxRetries
      BY <3>1
    <3>3. Ret!Class(attempts'[Len(attempts')].ending) = Ret!Class(ending)
      BY <3>1
    <3>4. /\ ended' = "success" => attempts' # <<>> /\ attempts'[Len(attempts')].ending = "good"
          /\ ended' = "failure" =>
                /\ attempts' # <<>> /\ attempts'[Len(attempts')].ending # "good"
                /\ \/ Ret!Class(attempts'[Len(attempts')].ending) = "permanent"
                   \/ Len(attempts') = MaxRetries
      BY <1>12, <3>1, <3>2, <3>3
    <3>5. ended' # "idle" /\ ended' # "running"
      BY <3>1
    <3>6. QED
      BY Zenon, <3>4, <3>5 DEF Reached, Ret!Class
  <2>4. InBooks'
    <3>1. stats'.retries + runs'.ended = runs'.attempts
      BY <1>b, <1>f, <2>1
    <3>2. stats'.late = runs'.late /\ stats'.failures = runs'.failed
      BY <1>9, <2>1
    <3>3. EscalateAfter > 0 => stats'.escalations = runs'.changes + 0
      BY <1>b, <1>f, <2>1
    <3>4. charged' = Cardinality(Paid(attempts')) /\ Len(classes') + (IF ended' = "success" THEN 1 ELSE 0) = charged'
      BY <1>2, <1>8, <1>12, <2>1 DEF P
    <3>5. ended' # "running"
      BY <2>1
    <3>6. QED
      BY <3>1, <3>2, <3>3, <3>4, <3>5 DEF InBooks, Paid, Switched, Ret!Raised
  <2>5. ended' \in {"idle", "running", "success", "failure"}
    BY <2>1
  <2>6. QED
    BY <1>7, <1>8, <2>2, <2>3, <2>4, <2>5 DEF RetInv
<1>13. ASSUME ending # "good", Ret!Class(ending) # "permanent", n + 1 < MaxRetries,
              stats' = [stats EXCEPT !.escalations = @ + esc], UNCHANGED <<ended, runs>>
       PROVE  RetInv'
  <2>1. /\ ended' = "running" /\ runs' = runs
        /\ stats' = [stats EXCEPT !.escalations = u + esc]
    BY <1>0, <1>13, <1>b
  <2> HIDE DEF C, P
  <2>2. stats' \in Counters /\ stats'.retries = stats.retries /\ stats'.late = stats.late
        /\ stats'.failures = stats.failures /\ stats'.escalations = u + esc
    <3>1. u + esc \in Nat
      OBVIOUS
    <3>2. QED
      BY Zenon, <1>0, <2>1, <3>1 DEF Counters
  <2>3. Reached'
    <3>1. attempts' # <<>> /\ attempts'[Len(attempts')].ending = ending
          /\ attempts'[Len(attempts')].model = asking' /\ Len(attempts') = n + 1
      BY <1>2, <1>3, <1>4
    <3>2. ending \notin Final
      BY <1>1, <1>13 DEF Final, Endings, Ret!Class
    <3>3. Len(attempts') < MaxRetries
      BY <1>13, <3>1
    <3>4. QED
      BY <1>0, <2>1, <3>1, <3>2, <3>3 DEF Reached, Final
  <2>4. InBooks'
    <3>1. EscalateAfter > 0 => stats'.escalations = runs'.changes + Cardinality(Switched(attempts'))
      <4>1. Cardinality(Switched(attempts')) = C
        BY <1>2 DEF C
      <4>2. QED
        BY <1>b, <1>f, <2>1, <2>2, <4>1
    <3>2. charged' = Cardinality(Paid(attempts')) /\ Len(classes') + 0 = charged'
      BY <1>2, <1>8, <1>13 DEF P
    <3>3. QED
      BY <1>9, <2>1, <2>2, <3>1, <3>2 DEF InBooks, Paid, Switched, Ret!Raised
  <2>5. ended' \in {"idle", "running", "success", "failure"} /\ runs' \in Histories /\ runs'.ended <= MaxRuns
    BY <1>0, <2>1 DEF RetInv
  <2>6. QED
    BY <1>7, <1>8, <2>2, <2>3, <2>4, <2>5 DEF RetInv
<1>14. QED
  BY <1>1, <1>12, <1>13

\* Every step of the services keeps what is said of the loop.
LEMMA RetStep == RetInv /\ [Next]_vars => RetInv'
<1> SUFFICES ASSUME RetInv, [Ret!Next]_(Ret!vars) PROVE RetInv'
  BY RetriesMove
<1>1. CASE UNCHANGED Ret!vars
  BY Zenon, <1>1 DEF RetInv, Trying, Reached, InBooks, TryRight, Paid, Switched, Ret!Raised, Ret!Class,
              Final, Ret!vars
<1>2. CASE Ret!Next
  BY <1>2, StartKeeps, AttemptKeeps DEF Ret!Next
<1>3. QED
  BY <1>1, <1>2

\* It holds when the empire starts.
LEMMA RetStart == Init => RetInv
<1> SUFFICES ASSUME Ret!Init PROVE RetInv
  BY DEF Init
<1>1. /\ attempts = <<>> /\ classes = <<>> /\ charged = 0 /\ asking = 0 /\ ended = "idle"
      /\ stats \in Counters /\ stats.retries = 0 /\ stats.late = 0 /\ stats.failures = 0 /\ stats.escalations = 0
      /\ runs \in Histories /\ runs.ended = 0 /\ runs.late = 0 /\ runs.failed = 0 /\ runs.attempts = 0
      /\ runs.changes = 0
  BY DEF Ret!Init, Counters, Histories
<1>2. InBooks
  BY <1>1, NoTries DEF InBooks
<1>3. Trying /\ Reached
  BY <1>1, RetNumbers DEF Trying, Reached
<1>4. QED
  BY <1>1, <1>2, <1>3, RetNumbers DEF RetInv

\* The loop's counters and its list of attempts tell the same of a run.
THEOREM LoopIsKept == Spec => []RetInv
BY RetStart, RetStep, PTL DEF Spec

\* What is kept is what the loop promises.
LEMMA RetriesKeepPromise == RetInv => Ret!RetriesRight
<1> SUFFICES ASSUME RetInv PROVE Ret!RetriesRight
  OBVIOUS
<1>1. DOMAIN attempts = 1..Len(attempts) /\ Len(attempts) \in Nat
  BY DEF RetInv, Trying
<1>3. Ret!AttemptsRight
  <2>1. \A i \in DOMAIN attempts : TryRight(attempts, i) /\ (i < Len(attempts) => attempts[i].ending \notin Final)
    BY <1>1 DEF RetInv, Trying
  <2>2. /\ ended = "success" => attempts[Len(attempts)].ending = "good"
        /\ ended = "failure" => attempts[Len(attempts)].ending # "good"
               /\ (Ret!Class(attempts[Len(attempts)].ending) = "permanent" \/ Len(attempts) = MaxRetries)
    BY DEF RetInv, Reached
  <2>3. QED
    BY <2>1, <2>2 DEF Ret!AttemptsRight, TryRight, Final
<1>4. Ret!CountersRight
  <2>1. /\ stats.retries + runs.ended = runs.attempts
        /\ stats.late = runs.late /\ stats.failures = runs.failed
        /\ EscalateAfter > 0 /\ ended # "running" => stats.escalations = runs.changes + 0
        /\ charged = Cardinality(Paid(attempts))
        /\ Len(classes) + (IF ended = "success" THEN 1 ELSE 0) = charged
    BY DEF RetInv, InBooks
  <2>2. /\ stats.retries \in Nat /\ runs.ended \in Nat /\ runs.attempts \in Nat /\ runs.changes \in Nat
        /\ Len(classes) \in Nat /\ charged \in Nat
    BY DEF RetInv, Counters, Histories
  <2>3. Paid(attempts) = {i \in DOMAIN attempts : attempts[i].ending \notin Ret!Raised}
    BY <1>1 DEF Paid
  <2>4. ended # "running" =>
             /\ stats.retries = runs.attempts - runs.ended
             /\ stats.late = runs.late /\ stats.failures = runs.failed
             /\ EscalateAfter > 0 => stats.escalations = runs.changes
             /\ charged = Cardinality({i \in DOMAIN attempts : attempts[i].ending \notin Ret!Raised})
             /\ Len(classes) = charged - (IF ended = "success" THEN 1 ELSE 0)
    <3>1. \A x, y, z \in Nat : (x + y = z => x = z - y) /\ x + 0 = x
      OBVIOUS
    <3>2. (IF ended = "success" THEN 1 ELSE 0) \in Nat
      OBVIOUS
    <3>3. QED
      BY Zenon, <2>1, <2>2, <2>3, <3>1, <3>2
  <2>5. QED
    BY <2>4, SameCount DEF Ret!CountersRight
<1>5. QED
  BY <1>3, <1>4 DEF Ret!RetriesRight

\* A task is tried by models that only get stronger, and the counters tell of every
\* attempt (ralph_wiggum.py:143).
THEOREM RetriesAreRight == Spec => []Ret!RetriesRight
BY LoopIsKept, RetriesKeepPromise, PTL

-----------------------------------------------------------------------------
(* The agents.                                                              *)

Verdicts == [score : 0..10, approved : BOOLEAN, of : Nat, asked : BOOLEAN]

Crafts ==
    [stages : Seq({"planning", "execution", "critic", "custom"}), text : Nat, written : BOOLEAN,
     critique : Verdicts, cost : Nat, texts : Nat, calls : Nat, critics : Nat]

Reports ==
    [done : BOOLEAN, success : BOOLEAN, content : Nat, quality : 0..10, errors : Nat, results : Nat]

Chains ==
    [passed : BOOLEAN, strict : BOOLEAN, failed : SUBSET Gates, of : SUBSET Gates]

Reviews ==
    [text : Nat, verdict : Verdicts, attempt : 0..MaxTries, stronger : BOOLEAN, gates : Chains,
     confidence : {0, 3, 7}, texts : Nat]

AgentsTyped ==
    /\ making \in {"pipeline", "advice"} /\ step \in Nat \ {0}
    /\ context \in Crafts /\ report \in Reports /\ review \in Reviews

\* A pipeline paid for what it asked, and its report is about its last text.
Piped ==
    /\ step <= Len(context.stages) + 1
    /\ context.cost + context.critics = context.calls
    /\ report.success => /\ report.done /\ report.content = context.critique.of
                         /\ report.content # 0 \/ MinMark = 0
                         /\ context.critique.score >= MinMark \/ context.critique.approved
    /\ report.done => report.content = context.text
    /\ report.done /\ ~report.success => step > Len(context.stages)

\* What a chain of gates said is what its gates said.
ChainRight(c) ==
    /\ c.failed = {} /\ c.of # {} => c.passed
    /\ c.passed /\ c.failed # {} =>
          /\ ~c.strict
          /\ Cardinality(c.failed) * GateNeeds[2] <= Cardinality(Gates) * (GateNeeds[2] - GateNeeds[1])

EmptySeen(c) ==
    c.passed => /\ c.strict => Age!TextGates \cap c.of = {}
                /\ Age!TextGates \subseteq c.of =>
                      2 * GateNeeds[2] <= Cardinality(Gates) * (GateNeeds[2] - GateNeeds[1])

\* What the caller holds is about the text in hand.
Advised ==
    /\ step \in 1..5
    /\ ChainRight(review.gates)
    /\ step \in {3, 4} => review.verdict \in Age!Evaluation(review.text)
    /\ step = 4 /\ review.text = 0 => EmptySeen(review.gates)
    /\ step = 5 => /\ review.verdict \in Age!Evaluation(review.text)
                   /\ ~Age!ShouldRetry(review.verdict, review.attempt)
    /\ step = 1 /\ review.attempt > 0 /\ review.text = 0 => review.stronger
    /\ review.confidence = 7 => review.text # 0
    /\ review.confidence = 3 => review.text = 0

AgentsInv == AgentsTyped /\ (making = "pipeline" => Piped) /\ (making = "advice" => Advised)

\* A part of the services moves by its own steps, or rests.
LEMMA AgentsMove == [Next]_vars => [Age!Next]_(Age!vars)
BY DEF Next, Rest, vars, crafting, Age!vars

\* What the constants of the agents are.
LEMMA AgentNumbers ==
    /\ Marks \subseteq 0..10 /\ MinMark \in 0..10 /\ MaxTries \in Nat
    /\ Gates \subseteq {"content_length", "source_citation", "overall_score", "hallucination"}
    /\ GateNeeds[1] \in Nat /\ GateNeeds[2] \in Nat \ {0} /\ GateNeeds[1] <= GateNeeds[2]
    /\ StageLists \subseteq Seq({"planning", "execution", "critic", "custom"})
    /\ IsFiniteSet(Gates) /\ Cardinality(Gates) \in Nat
<1>1. /\ Marks \subseteq 0..10 /\ MinMark \in 0..10 /\ MaxTries \in Nat
      /\ Gates \subseteq {"content_length", "source_citation", "overall_score", "hallucination"}
      /\ GateNeeds[1] \in Nat /\ GateNeeds[2] \in Nat \ {0} /\ GateNeeds[1] <= GateNeeds[2]
      /\ StageLists \subseteq Seq({"planning", "execution", "critic", "custom"})
  BY ServicesAssumption DEF Age!AgentsAssumption
<1>2. IsFiniteSet({"content_length", "source_citation", "overall_score", "hallucination"})
  <2>1. IsFiniteSet({}) /\ IsFiniteSet({} \cup {"content_length"})
    BY FS_EmptySet, FS_AddElement
  <2>2. IsFiniteSet(({} \cup {"content_length"}) \cup {"source_citation"})
    BY <2>1, FS_AddElement
  <2>3. IsFiniteSet((({} \cup {"content_length"}) \cup {"source_citation"}) \cup {"overall_score"})
    BY <2>2, FS_AddElement
  <2>4. IsFiniteSet(((({} \cup {"content_length"}) \cup {"source_citation"}) \cup {"overall_score"})
                       \cup {"hallucination"})
    BY <2>3, FS_AddElement
  <2>5. ((({} \cup {"content_length"}) \cup {"source_citation"}) \cup {"overall_score"})
                       \cup {"hallucination"} = {"content_length", "source_citation", "overall_score", "hallucination"}
    OBVIOUS
  <2>6. QED
    BY <2>4, <2>5
<1>3. QED
  BY Zenon, <1>1, <1>2, FS_Subset, FS_CardinalityType

\* The chain counts as this module does.
LEMMA GatesCount == \A S : Age!Cardinality(S) = Cardinality(S)
BY DEF Age!Cardinality, Cardinality

\* Verdicts of the critic, in a pipeline and in advice.
LEMMA VerdictsTyped ==
    ASSUME NEW text \in Nat
    PROVE  /\ Age!Judge(text) \subseteq Verdicts /\ Age!Evaluation(text) \subseteq Verdicts
           /\ \A v \in Age!Judge(text) : v.of = text /\ (text = 0 => v.score = 0 /\ ~v.approved)
           /\ \A v \in Age!Evaluation(text) :
                 /\ v.of = text /\ (text = 0 => v.score = 0 /\ ~v.approved)
                 /\ ~v.asked => v.score \in {0, 5} /\ ~v.approved
<1>1. Marks \subseteq 0..10 /\ MinMark \in 0..10
  BY AgentNumbers
<1>2. CASE text = 0
  <2> DEFINE v == [Age!NoVerdict EXCEPT !.of = text]
  <2>1. Age!NoVerdict \in Verdicts
    BY DEF Age!NoVerdict, Verdicts
  <2>2. v \in Verdicts /\ v.of = text
    BY <2>1 DEF Verdicts
  <2>3. v.score = 0
    BY DEF Age!NoVerdict
  <2>4. ~v.approved
    BY DEF Age!NoVerdict
  <2>5. Age!Judge(text) = {v} /\ Age!Evaluation(text) = {v}
    BY <1>2 DEF Age!Judge, Age!Evaluation
  <2> HIDE DEF v
  <2>6. QED
    BY <2>2, <2>3, <2>4, <2>5
<1>3. CASE text # 0
  <2>1. ASSUME NEW m \in 0..10, NEW a \in BOOLEAN, NEW d \in BOOLEAN
        PROVE  LET v == [score |-> m, approved |-> a, of |-> text, asked |-> d] IN
               v \in Verdicts /\ v.of = text /\ v.score = m /\ (v.asked <=> d) /\ (v.approved <=> a)
    BY DEF Verdicts
  <2>2. ASSUME NEW v \in Age!Judge(text) PROVE v \in Verdicts /\ v.of = text
    <3>1. \/ \E m \in Marks, a \in BOOLEAN : v = [score |-> m, approved |-> a, of |-> text, asked |-> TRUE]
          \/ v = [score |-> 5, approved |-> FALSE, of |-> text, asked |-> TRUE]
          \/ v = [score |-> 4, approved |-> FALSE, of |-> text, asked |-> FALSE]
      BY <1>3 DEF Age!Judge
    <3>2. 5 \in 0..10 /\ 4 \in 0..10
      OBVIOUS
    <3>3. CASE \E m \in Marks, a \in BOOLEAN : v = [score |-> m, approved |-> a, of |-> text, asked |-> TRUE]
      <4>1. PICK m \in 0..10, a \in BOOLEAN : v = [score |-> m, approved |-> a, of |-> text, asked |-> TRUE]
        BY Zenon, <1>1, <3>3
      <4>2. QED
        BY Zenon, <2>1, <4>1
    <3>4. CASE v = [score |-> 5, approved |-> FALSE, of |-> text, asked |-> TRUE]
      BY Zenon, <2>1, <3>2, <3>4
    <3>5. CASE v = [score |-> 4, approved |-> FALSE, of |-> text, asked |-> FALSE]
      BY Zenon, <2>1, <3>2, <3>5
    <3>6. QED
      BY <3>1, <3>3, <3>4, <3>5
  <2>3. ASSUME NEW v \in Age!Evaluation(text)
        PROVE  v \in Verdicts /\ v.of = text /\ (~v.asked => v.score = 5 /\ ~v.approved)
    <3>1. \/ \E m \in Marks, a \in BOOLEAN : v = [score |-> m, approved |-> a, of |-> text, asked |-> TRUE]
          \/ \E m \in Marks \cup {5} : v = [score |-> m, approved |-> m >= MinMark, of |-> text, asked |-> TRUE]
          \/ v = [score |-> 5, approved |-> FALSE, of |-> text, asked |-> FALSE]
      BY <1>3 DEF Age!Evaluation
    <3>2. 5 \in 0..10
      OBVIOUS
    <3>3. CASE \E m \in Marks, a \in BOOLEAN : v = [score |-> m, approved |-> a, of |-> text, asked |-> TRUE]
      <4>1. PICK m \in 0..10, a \in BOOLEAN : v = [score |-> m, approved |-> a, of |-> text, asked |-> TRUE]
        BY Zenon, <1>1, <3>3
      <4>2. QED
        BY Zenon, <2>1, <4>1
    <3>4. CASE \E m \in Marks \cup {5} : v = [score |-> m, approved |-> m >= MinMark, of |-> text, asked |-> TRUE]
      <4>1. PICK m \in 0..10 : v = [score |-> m, approved |-> m >= MinMark, of |-> text, asked |-> TRUE]
        BY Zenon, <1>1, <3>2, <3>4
      <4>2. (m >= MinMark) \in BOOLEAN
        BY <1>1
      <4>3. QED
        BY Zenon, <2>1, <4>1, <4>2
    <3>5. CASE v = [score |-> 5, approved |-> FALSE, of |-> text, asked |-> FALSE]
      BY Zenon, <2>1, <3>2, <3>5
    <3>6. QED
      BY <3>1, <3>3, <3>4, <3>5
  <2>4. QED
    BY <1>3, <2>2, <2>3
<1>4. QED
  BY <1>2, <1>3

\* What a chain says follows from how many of its gates pass.
LEMMA ChainCounts ==
    ASSUME NEW gates \in {{}, Gates}, NEW strict \in BOOLEAN, NEW told \in BOOLEAN, NEW text \in Nat,
           NEW passed \in Age!Passing(gates, text, told)
    PROVE  LET c == [passed |-> Age!ChainPasses(strict, gates, passed), strict |-> strict,
                     failed |-> gates \ passed, of |-> gates] IN
           c \in Chains /\ ChainRight(c) /\ (text = 0 => EmptySeen(c))
<1> DEFINE c == [passed |-> Age!ChainPasses(strict, gates, passed), strict |-> strict,
                 failed |-> gates \ passed, of |-> gates]
<1>1. passed \subseteq gates /\ gates \subseteq Gates /\ (text = 0 => passed \cap Age!TextGates = {})
  BY DEF Age!Passing
<1>2. PICK a \in Nat, b \in Nat \ {0} : a = GateNeeds[1] /\ b = GateNeeds[2] /\ a <= b
  BY AgentNumbers
<1>3. IsFiniteSet(gates) /\ IsFiniteSet(passed) /\ IsFiniteSet(gates \ passed)
  <2>1. IsFiniteSet(gates)
    BY Zenon, <1>1, AgentNumbers, FS_Subset
  <2>2. passed \in SUBSET gates /\ gates \ passed \in SUBSET gates
    BY <1>1
  <2>3. QED
    BY <2>1, <2>2, FS_Subset
<1>4. PICK g \in Nat, p \in Nat, f \in Nat :
         g = Cardinality(gates) /\ p = Cardinality(passed) /\ f = Cardinality(gates \ passed) /\ g = p + f
  <2>1. Cardinality(gates) = Cardinality(passed) + Cardinality(gates \ passed)
    <3>1. gates \cap passed = passed
      BY <1>1
    <3>2. Cardinality(gates \ passed) = Cardinality(gates) - Cardinality(gates \cap passed)
      BY Zenon, <1>3, FS_Difference
    <3>3. Cardinality(gates) \in Nat /\ Cardinality(passed) \in Nat
      BY <1>3, FS_CardinalityType
    <3>4. QED
      BY <3>1, <3>2, <3>3
  <2>2. QED
    BY <1>3, <2>1, FS_CardinalityType
<1>5. Age!ChainPasses(strict, gates, passed) \in BOOLEAN
  BY Zenon DEF Age!ChainPasses
<1>6. ~strict => (Age!ChainPasses(strict, gates, passed) <=> gates # {} /\ p * b >= g * a)
  BY Zenon, <1>2, <1>4, GatesCount DEF Age!ChainPasses
<1>7. strict => (Age!ChainPasses(strict, gates, passed) <=> passed = gates)
  BY DEF Age!ChainPasses
<1>8. p * b >= g * a => f * b <= g * (b - a)
  <2>1. g * b = p * b + f * b /\ g * (b - a) = g * b - g * a
    BY <1>4
  <2>2. p * b \in Nat /\ f * b \in Nat /\ g * a \in Nat /\ g * b \in Nat
    OBVIOUS
  <2>3. QED
    BY <2>1, <2>2
<1>9. /\ c \in Chains /\ c.passed = Age!ChainPasses(strict, gates, passed) /\ c.strict = strict
      /\ c.failed = gates \ passed /\ c.of = gates
  BY <1>1, <1>5 DEF Chains
<1> HIDE DEF c
<1>10. gates # {} => gates = Gates
  OBVIOUS
<1>11. ChainRight(c)
  <2>1. ASSUME c.failed = {}, c.of # {} PROVE c.passed
    <3>1. passed = gates /\ gates # {}
      BY <1>1, <1>9, <2>1
    <3>2. p = g
      BY Zenon, <1>4, <3>1
    <3>3. g * b >= g * a
      <4>1. PICK m \in Nat : b = a + m
        <5>1. b - a \in Nat /\ b = a + (b - a)
          BY <1>2
        <5>2. QED
          BY <5>1
      <4>2. g * b = g * a + g * m /\ g * m \in Nat /\ g * a \in Nat
        BY <4>1
      <4>3. QED
        BY <4>2
    <3>4. QED
      BY <1>6, <1>7, <1>9, <3>1, <3>2, <3>3
  <2>2. ASSUME c.passed, c.failed # {}
        PROVE  ~c.strict /\ Cardinality(c.failed) * GateNeeds[2] <= Cardinality(Gates) * (GateNeeds[2] - GateNeeds[1])
    <3>1. ~strict /\ gates = Gates
      BY <1>7, <1>9, <1>10, <2>2
    <3>2. p * b >= g * a
      BY <1>6, <1>9, <2>2, <3>1
    <3>3. QED
      BY Zenon, <1>2, <1>4, <1>8, <1>9, <3>1, <3>2
  <2>3. QED
    BY <2>1, <2>2 DEF ChainRight
<1>12. text = 0 => EmptySeen(c)
  <2> SUFFICES ASSUME text = 0, c.passed
      PROVE  /\ c.strict => Age!TextGates \cap c.of = {}
             /\ Age!TextGates \subseteq c.of => 2 * b <= Cardinality(Gates) * (b - a)
    BY <1>2 DEF EmptySeen
  <2>1. c.strict => Age!TextGates \cap c.of = {}
    BY Zenon, <1>1, <1>7, <1>9
  <2>2. ASSUME Age!TextGates \subseteq c.of PROVE 2 * b <= Cardinality(Gates) * (b - a)
    <3>1. Age!TextGates \subseteq gates \ passed /\ gates = Gates
      BY <1>1, <1>9, <1>10, <2>2 DEF Age!TextGates
    <3>2. ~strict
      BY <1>7, <1>9, <2>1, <3>1 DEF Age!TextGates
    <3>3. p * b >= g * a
      BY <1>6, <1>9, <3>2
    <3>4. f >= 2
      <4>1. {"content_length", "source_citation"} \in SUBSET (gates \ passed)
        BY <3>1 DEF Age!TextGates
      <4>2. Cardinality({"content_length", "source_citation"}) = 2
        <5>1. IsFiniteSet({}) /\ Cardinality({}) = 0
          BY FS_EmptySet
        <5>2. IsFiniteSet({} \cup {"content_length"}) /\ Cardinality({} \cup {"content_length"}) = 0 + 1
          BY Zenon, <5>1, FS_AddElement
        <5>3. Cardinality(({} \cup {"content_length"}) \cup {"source_citation"}) = (0 + 1) + 1
          BY <5>2, FS_AddElement
        <5>4. ({} \cup {"content_length"}) \cup {"source_citation"} = {"content_length", "source_citation"}
          OBVIOUS
        <5>5. QED
          BY <5>3, <5>4
      <4>3. Cardinality({"content_length", "source_citation"}) <= f
        BY <1>3, <1>4, <4>1, FS_Subset
      <4>4. QED
        BY <4>2, <4>3
    <3>5. 2 * b <= f * b
      <4>1. PICK m \in Nat : f = 2 + m
        <5>1. f - 2 \in Nat /\ f = 2 + (f - 2)
          BY <3>4
        <5>2. QED
          BY <5>1
      <4>2. f * b = 2 * b + m * b /\ m * b \in Nat /\ 2 * b \in Nat
        BY <4>1
      <4>3. QED
        BY <4>2
    <3>6. f * b <= g * (b - a) /\ g * (b - a) = Cardinality(Gates) * (b - a)
      BY Zenon, <1>4, <1>8, <3>1, <3>3
    <3>7. f * b \in Nat /\ 2 * b \in Nat /\ g * (b - a) \in Int
      OBVIOUS
    <3>8. QED
      BY <3>5, <3>6, <3>7
  <2>3. QED
    BY <2>1, <2>2
<1>13. QED
  BY <1>9, <1>11, <1>12 DEF c

\* Empty-handed, an agent is right.
LEMMA AgentsStart == Init => AgentsInv
<1> SUFFICES ASSUME Init PROVE AgentsInv
  OBVIOUS
<1>1. /\ making \in {"pipeline", "advice"} /\ step = 1
      /\ report = [done |-> FALSE, success |-> FALSE, content |-> 0, quality |-> 0, errors |-> 0, results |-> 0]
      /\ review = [text |-> 0, verdict |-> Age!NoVerdict, attempt |-> 0, stronger |-> FALSE,
                   gates |-> Age!NoGates, confidence |-> 0, texts |-> 0]
  BY DEF Init, Age!Init
<1>2. PICK s \in IF making = "pipeline" THEN StageLists ELSE {<<>>} :
         context = [stages |-> s, text |-> 0, written |-> FALSE, critique |-> Age!NoVerdict, cost |-> 0,
                    texts |-> 0, calls |-> 0, critics |-> 0]
  BY Zenon DEF Init, Age!Init
<1>3. s \in Seq({"planning", "execution", "critic", "custom"})
  <2>1. StageLists \subseteq Seq({"planning", "execution", "critic", "custom"})
    BY AgentNumbers
  <2>2. <<>> \in Seq({"planning", "execution", "critic", "custom"})
    OBVIOUS
  <2>3. CASE making = "pipeline"
    BY <1>2, <2>1, <2>3
  <2>4. CASE making # "pipeline"
    BY <1>2, <2>2, <2>4
  <2>5. QED
    BY <2>3, <2>4
<1>4. Age!NoVerdict \in Verdicts /\ Age!NoGates \in Chains
  BY DEF Age!NoVerdict, Verdicts, Age!NoGates, Chains
<1>5. 0 \in 0..MaxTries
  BY AgentNumbers
<1>6. context \in Crafts
  BY <1>2, <1>3, <1>4 DEF Crafts
<1>7. report \in Reports
  BY <1>1 DEF Reports
<1>8. review \in Reviews
  BY <1>1, <1>4, <1>5 DEF Reviews
<1>9. Piped
  <2>1. Len(s) \in Nat
    BY <1>3
  <2>2. step <= Len(context.stages) + 1 /\ context.cost + context.critics = context.calls
    BY <1>1, <1>2, <2>1
  <2>3. ~report.success /\ ~report.done
    BY <1>1
  <2>4. QED
    BY <2>2, <2>3 DEF Piped
<1>10. Advised
  <2>1. ChainRight(review.gates)
    BY <1>1 DEF ChainRight, Age!NoGates
  <2>2. step \in 1..5 /\ step = 1 /\ review.attempt = 0 /\ review.confidence = 0
    BY <1>1
  <2>3. QED
    BY <2>1, <2>2 DEF Advised
<1>11. QED
  BY <1>1, <1>6, <1>7, <1>8, <1>9, <1>10 DEF AgentsInv, AgentsTyped

\* A stage that has returned is one result more, and the pipeline is where it was otherwise.
LEMMA StageReturns ==
    ASSUME AgentsTyped, NEW s, Age!Running(s), Piped
    PROVE  /\ ~report.done /\ ~report.success /\ making = "pipeline"
           /\ step <= Len(context.stages) /\ step + 1 \in Nat \ {0}
           /\ step + 1 <= Len(context.stages) + 1
<1>1. context.stages \in Seq({"planning", "execution", "critic", "custom"}) /\ step \in Nat
  BY DEF AgentsTyped, Crafts
<1>2. Len(context.stages) \in Nat
  BY <1>1
<1>3. ~report.done /\ making = "pipeline" /\ step <= Len(context.stages)
  BY DEF Age!Running
<1>4. ~report.success
  BY <1>3 DEF Piped
<1>5. QED
  BY <1>1, <1>2, <1>3, <1>4

\* Likewise for the report.
LEMMA OnwardKeeps ==
    ASSUME AgentsTyped, NEW f \in BOOLEAN, ~report.done, ~report.success,
           report' = [report EXCEPT !.results = @ + 1, !.errors = @ + (IF f THEN 1 ELSE 0)]
    PROVE  report' \in Reports /\ ~report'.done /\ ~report'.success
<1>1. report \in Reports
  BY DEF AgentsTyped
<1>2. PICK n \in Nat : n = IF f THEN 1 ELSE 0
  OBVIOUS
<1>3. report' = [report EXCEPT !.results = report.results + 1, !.errors = report.errors + n]
  BY <1>2
<1>4. report.results + 1 \in Nat /\ report.errors + n \in Nat
  BY <1>1, <1>2 DEF Reports
<1>5. report' \in Reports
  BY Zenon, <1>1, <1>3, <1>4 DEF Reports
<1>6. (report'.done <=> report.done) /\ (report'.success <=> report.success)
  BY <1>1, <1>3 DEF Reports
<1>7. QED
  BY <1>5, <1>6

\* Planning, execution and stages of somebody else's leave a pipeline that is not done.
LEMMA StagesKeep ==
    ASSUME AgentsTyped, Piped, Age!Planning \/ Age!Execution \/ Age!Custom
    PROVE  AgentsTyped' /\ Piped' /\ making' = "pipeline"
<1>1. context \in Crafts
  BY DEF AgentsTyped
<1>2. /\ ~report.done /\ ~report.success /\ making = "pipeline"
      /\ step + 1 \in Nat \ {0} /\ step + 1 <= Len(context.stages) + 1
  BY Zenon, StageReturns DEF Age!Planning, Age!Execution, Age!Custom
<1>3. step' = step + 1 /\ making' = making /\ review' = review
  BY Zenon DEF Age!Planning, Age!Execution, Age!Custom, Age!Onward
<1>4. report' \in Reports /\ ~report'.done /\ ~report'.success
  <2>1. CASE report' = report
    BY <1>2, <2>1 DEF AgentsTyped
  <2>2. CASE \E f \in BOOLEAN : report' = [report EXCEPT !.results = @ + 1, !.errors = @ + (IF f THEN 1 ELSE 0)]
    BY Zenon, <1>2, <2>2, OnwardKeeps
  <2>3. QED
    BY Zenon, <2>1, <2>2 DEF Age!Planning, Age!Execution, Age!Custom, Age!Onward
<1>5. PICK b \in Nat, m \in Nat, q \in Nat : b = context.cost /\ m = context.calls /\ q = context.critics
                                            /\ b + q = m
  BY <1>1 DEF Piped, Crafts
<1>6. /\ context' \in Crafts /\ context'.stages = context.stages
      /\ context'.cost + context'.critics = context'.calls
  <2>1. ASSUME NEW c \in {0, 1}, context' = [context EXCEPT !.cost = @ + c, !.calls = @ + c]
        PROVE  context' \in Crafts /\ context'.stages = context.stages
               /\ context'.cost + context'.critics = context'.calls
    <3>0. context' = [context EXCEPT !.cost = b + c, !.calls = m + c] /\ b + c \in Nat /\ m + c \in Nat
      BY <1>5, <2>1
    <3>1. context' \in Crafts /\ context'.stages = context.stages
      BY Zenon, <1>1, <3>0 DEF Crafts
    <3>2. context'.cost = b + c /\ context'.calls = m + c /\ context'.critics = q
      BY <1>1, <1>5, <2>1 DEF Crafts
    <3>3. (b + c) + q = m + c
      BY <1>5
    <3>4. QED
      BY <3>1, <3>2, <3>3
  <2>2. CASE Age!Planning
    BY Zenon, <2>1, <2>2 DEF Age!Planning
  <2>3. CASE context' = [context EXCEPT !.text = context.texts + 1, !.texts = @ + 1, !.written = TRUE,
                                        !.cost = @ + 1, !.calls = @ + 1]
    <3>0. PICK n \in Nat : n = context.texts
      BY <1>1 DEF Crafts
    <3>a. /\ context' = [context EXCEPT !.text = n + 1, !.texts = n + 1, !.written = TRUE,
                                        !.cost = b + 1, !.calls = m + 1]
          /\ n + 1 \in Nat /\ b + 1 \in Nat /\ m + 1 \in Nat
      BY <1>5, <2>3, <3>0
    <3>1. context' \in Crafts /\ context'.stages = context.stages
      BY Zenon, <1>1, <3>a DEF Crafts
    <3>2. context'.cost = b + 1 /\ context'.calls = m + 1 /\ context'.critics = q
      BY <1>1, <1>5, <2>3 DEF Crafts
    <3>3. (b + 1) + q = m + 1
      BY <1>5
    <3>4. QED
      BY <3>1, <3>2, <3>3
  <2>4. CASE context' = [context EXCEPT !.text = 0, !.written = TRUE]
    <3>1. context' \in Crafts /\ context'.stages = context.stages
      BY Zenon, <1>1, <2>4 DEF Crafts
    <3>2. context'.cost = b /\ context'.calls = m /\ context'.critics = q
      BY <1>1, <1>5, <2>4 DEF Crafts
    <3>3. QED
      BY <1>5, <3>1, <3>2
  <2>5. CASE Age!Custom
    <3>1. CASE context' = context
      BY <1>1, <1>5, <3>1
    <3>2. CASE context' = [context EXCEPT !.cost = @ + 1, !.calls = @ + 1]
      BY <2>1, <3>2
    <3>3. QED
      BY Zenon, <2>5, <3>1, <3>2 DEF Age!Custom
  <2>6. QED
    BY Zenon, <2>2, <2>3, <2>4, <2>5 DEF Age!Execution
<1>7. QED
  BY <1>2, <1>3, <1>4, <1>6 DEF AgentsTyped, Piped

\* A critic that is content ends the pipeline with the text it saw.
LEMMA CriticismKeeps ==
    ASSUME AgentsTyped, Piped, Age!Criticism
    PROVE  AgentsTyped' /\ Piped' /\ making' = "pipeline"
<1>1. context \in Crafts /\ report \in Reports
  BY DEF AgentsTyped
<1>2. /\ ~report.done /\ ~report.success /\ making = "pipeline"
      /\ step + 1 \in Nat \ {0} /\ step + 1 <= Len(context.stages) + 1
  BY StageReturns DEF Age!Criticism
<1>3. step' = step + 1 /\ making' = making /\ review' = review
  BY DEF Age!Criticism
<1>4. PICK v \in Age!Judge(context.text) :
         LET content == v.score >= MinMark \/ v.approved
             paid == IF v.asked THEN 1 ELSE 0 IN
         /\ context' = [context EXCEPT !.critique = v, !.calls = @ + paid, !.critics = @ + paid]
         /\ report' = [report EXCEPT !.results = @ + 1, !.quality = v.score, !.success = content,
                                     !.done = content, !.content = IF content THEN context.text ELSE @]
  BY Zenon DEF Age!Criticism
<1>5. context.text \in Nat
  BY <1>1 DEF Crafts
<1>6. v \in Verdicts /\ v.of = context.text /\ (context.text = 0 => v.score = 0 /\ ~v.approved)
  BY <1>5, VerdictsTyped
<1>7. PICK content \in BOOLEAN, p \in {0, 1} :
         /\ (content <=> v.score >= MinMark \/ v.approved)
         /\ context' = [context EXCEPT !.critique = v, !.calls = @ + p, !.critics = @ + p]
         /\ report' = [report EXCEPT !.results = @ + 1, !.quality = v.score, !.success = content,
                                     !.done = content, !.content = IF content THEN context.text ELSE @]
  <2>1. v.approved \in BOOLEAN /\ v.score \in 0..10
    BY <1>6 DEF Verdicts
  <2>2. (v.score >= MinMark \/ v.approved) \in BOOLEAN /\ (IF v.asked THEN 1 ELSE 0) \in {0, 1}
    BY <2>1
  <2>3. QED
    BY Zenon, <1>4, <2>2
<1>8. PICK b \in Nat, m \in Nat, q \in Nat : b = context.cost /\ m = context.calls /\ q = context.critics
                                            /\ b + q = m
  BY <1>1 DEF Piped, Crafts
<1>9. context' \in Crafts /\ context'.stages = context.stages /\ context'.critique = v
      /\ context'.text = context.text
  <2>1. /\ context' = [context EXCEPT !.critique = v, !.calls = m + p, !.critics = q + p]
        /\ m + p \in Nat /\ q + p \in Nat
    BY <1>7, <1>8
  <2>2. QED
    BY Zenon, <1>1, <1>6, <2>1 DEF Crafts
<1>10. context'.cost = b /\ context'.calls = m + p /\ context'.critics = q + p
  BY <1>1, <1>7, <1>8 DEF Crafts
<1>11. b + (q + p) = m + p
  BY <1>8
<1>12. v.score \in 0..10
  BY <1>6 DEF Verdicts
<1>13. report' \in Reports
  <2>1. report.results + 1 \in Nat /\ (IF content THEN context.text ELSE report.content) \in Nat
    BY <1>1, <1>5 DEF Reports
  <2>2. QED
    BY Zenon, <1>1, <1>7, <1>12, <2>1 DEF Reports
<1>14. /\ (report'.success <=> content) /\ (report'.done <=> content)
       /\ content => report'.content = context.text
  BY <1>1, <1>7 DEF Reports
<1>15. content => context.text # 0 \/ MinMark = 0
  BY <1>6, <1>7, AgentNumbers
<1>16. /\ report'.success => /\ report'.done /\ report'.content = context'.critique.of
                             /\ report'.content # 0 \/ MinMark = 0
                             /\ context'.critique.score >= MinMark \/ context'.critique.approved
       /\ report'.done => report'.content = context'.text
       /\ ~(report'.done /\ ~report'.success)
  BY <1>6, <1>7, <1>9, <1>14, <1>15
<1>17. QED
  BY <1>1, <1>2, <1>3, <1>9, <1>10, <1>11, <1>13, <1>16 DEF AgentsTyped, Piped

\* A pipeline without a stage left returns its last text.
LEMMA FinishKeeps ==
    ASSUME AgentsTyped, Piped, Age!Finish
    PROVE  AgentsTyped' /\ Piped' /\ making' = "pipeline"
<1>1. context \in Crafts /\ report \in Reports /\ context.text \in Nat
  BY DEF AgentsTyped, Crafts
<1>2. /\ making' = making /\ step' = step /\ context' = context /\ review' = review
      /\ making = "pipeline" /\ ~report.done /\ step > Len(context.stages)
      /\ report' = [report EXCEPT !.done = TRUE, !.content = context.text]
  BY DEF Age!Finish
<1>3. ~report.success
  BY <1>2 DEF Piped
<1>4. report' \in Reports
  BY Zenon, <1>1, <1>2 DEF Reports
<1>5. ~report'.success /\ report'.done /\ report'.content = context.text
  BY <1>1, <1>2, <1>3 DEF Reports
<1>6. QED
  BY <1>2, <1>4, <1>5 DEF AgentsTyped, Piped

\* A text that was just written is the one its confidence is about.
LEMMA ExecuteKeeps ==
    ASSUME AgentsTyped, Advised, Age!Execute
    PROVE  AgentsTyped' /\ Advised' /\ making' = "advice"
<1>1. review \in Reviews /\ review.texts \in Nat
  BY DEF AgentsTyped, Reviews
<1>2. /\ making = "advice" /\ making' = making /\ context' = context /\ report' = report /\ step' = 2
  BY DEF Age!Execute, Age!Asks
<1>3. PICK kd \in {"research", "synthesis"}, text \in {0, review.texts + 1} :
         review' = [review EXCEPT !.text = text, !.confidence = Age!Confidence(kd, text),
                                  !.texts = IF text = 0 THEN @ ELSE @ + 1]
  BY Zenon DEF Age!Execute
<1>4. /\ text \in Nat /\ Age!Confidence(kd, text) \in {0, 3, 7}
      /\ Age!Confidence(kd, text) = 7 => text # 0
      /\ Age!Confidence(kd, text) = 3 => text = 0
      /\ (IF text = 0 THEN review.texts ELSE review.texts + 1) \in Nat
  BY <1>1, <1>3 DEF Age!Confidence
<1>5. PICK f \in {0, 3, 7}, n \in Nat :
         /\ review' = [review EXCEPT !.text = text, !.confidence = f, !.texts = n]
         /\ f = 7 => text # 0
         /\ f = 3 => text = 0
  BY Zenon, <1>3, <1>4
<1>6. /\ review' \in Reviews /\ review'.text = text /\ review'.confidence = f
      /\ review'.gates = review.gates
  BY Zenon, <1>1, <1>4, <1>5 DEF Reviews
<1>7. ChainRight(review.gates)
  BY DEF Advised
<1>8. 2 \in 1..5 /\ 2 \in Nat \ {0}
  OBVIOUS
<1>9. Advised'
  BY <1>2, <1>5, <1>6, <1>7, <1>8 DEF Advised
<1>10. QED
  BY <1>2, <1>6, <1>8, <1>9 DEF AgentsTyped

\* An evaluation is of the text in hand.
LEMMA EvaluateKeeps ==
    ASSUME AgentsTyped, Advised, Age!Evaluate
    PROVE  AgentsTyped' /\ Advised' /\ making' = "advice"
<1>1. review \in Reviews /\ review.text \in Nat
  BY DEF AgentsTyped, Reviews
<1>2. /\ making = "advice" /\ making' = making /\ context' = context /\ report' = report /\ step' = 3
  BY DEF Age!Evaluate, Age!Asks
<1>3. PICK v \in Age!Evaluation(review.text) : review' = [review EXCEPT !.verdict = v]
  BY DEF Age!Evaluate
<1>4. v \in Verdicts
  BY <1>1, VerdictsTyped
<1>5. /\ review' \in Reviews /\ review'.text = review.text /\ review'.confidence = review.confidence
      /\ review'.gates = review.gates /\ review'.verdict = v
  BY <1>1, <1>3, <1>4 DEF Reviews
<1>6. /\ ChainRight(review.gates)
      /\ review.confidence = 7 => review.text # 0
      /\ review.confidence = 3 => review.text = 0
  BY DEF Advised
<1>7. 3 \in 1..5 /\ 3 \in Nat \ {0}
  OBVIOUS
<1>8. Advised'
  BY <1>2, <1>5, <1>6, <1>7 DEF Advised
<1>9. QED
  BY <1>2, <1>5, <1>7, <1>8 DEF AgentsTyped

\* What a chain says is of the text in hand.
LEMMA GateKeeps ==
    ASSUME AgentsTyped, Advised, Age!Gate
    PROVE  AgentsTyped' /\ Advised' /\ making' = "advice"
<1>1. review \in Reviews /\ review.text \in Nat
  BY DEF AgentsTyped, Reviews
<1>2. /\ making = "advice" /\ making' = making /\ context' = context /\ report' = report
      /\ step' = 4 /\ step = 3
  BY DEF Age!Gate, Age!Asks
<1>3. PICK gates \in {{}, Gates}, strict \in BOOLEAN, told \in BOOLEAN :
         \E passed \in Age!Passing(gates, review.text, told) :
            review' = [review EXCEPT !.gates = [passed |-> Age!ChainPasses(strict, gates, passed),
                                                strict |-> strict, failed |-> gates \ passed,
                                                of |-> gates]]
  BY Zenon DEF Age!Gate
<1>4. PICK c \in Chains :
         /\ ChainRight(c) /\ (review.text = 0 => EmptySeen(c))
         /\ review' = [review EXCEPT !.gates = c]
  BY Zenon, <1>1, <1>3, ChainCounts
<1>5. /\ review' \in Reviews /\ review'.text = review.text /\ review'.confidence = review.confidence
      /\ review'.gates = c /\ review'.verdict = review.verdict
  BY <1>1, <1>4 DEF Reviews
<1>6. /\ review.verdict \in Age!Evaluation(review.text)
      /\ review.confidence = 7 => review.text # 0
      /\ review.confidence = 3 => review.text = 0
  BY <1>2 DEF Advised
<1>7. 4 \in 1..5 /\ 4 \in Nat \ {0}
  OBVIOUS
<1>8. Advised'
  <2>1. ChainRight(c)' /\ (review.text = 0 => EmptySeen(c)')
    BY <1>4 DEF ChainRight, EmptySeen
  <2>2. review'.verdict \in Age!Evaluation(review'.text)
    BY <1>5, <1>6
  <2>3. Age!Evaluation(review.text)' = Age!Evaluation(review'.text)
    BY DEF Age!Evaluation, Age!NoVerdict
  <2>4. (step \in 1..5)' /\ (step \notin {1, 3, 5})'
    BY <1>2, <1>7
  <2>5. ChainRight(review.gates)' /\ ((review.text = 0)' => EmptySeen(review.gates)')
    BY <1>4, <1>5, <2>1 DEF ChainRight, EmptySeen
  <2>6. QED
    BY <1>2, <1>5, <1>6, <2>2, <2>3, <2>4, <2>5 DEF Advised
<1>9. QED
  BY <1>2, <1>5, <1>7, <1>8 DEF AgentsTyped

\* Who writes again has an attempt left, and a stronger model if there was no text.
LEMMA AdviceKeeps ==
    ASSUME AgentsTyped, Advised, Age!Decide
    PROVE  AgentsTyped' /\ Advised' /\ making' = "advice"
<1>1. review \in Reviews /\ review.text \in Nat /\ review.attempt \in 0..MaxTries /\ MaxTries \in Nat
  BY AgentNumbers DEF AgentsTyped, Reviews
<1>2. /\ making = "advice" /\ making' = making /\ context' = context /\ report' = report /\ step = 4
  BY DEF Age!Decide, Age!Asks
<1>3. /\ review.verdict \in Age!Evaluation(review.text) /\ ChainRight(review.gates)
      /\ review.confidence = 7 => review.text # 0
      /\ review.confidence = 3 => review.text = 0
  BY <1>2 DEF Advised
<1>4. CASE Age!ShouldRetry(review.verdict, review.attempt)
  <2>1. step' = 1 /\ review' = [review EXCEPT !.attempt = @ + 1,
                                              !.stronger = Age!Escalates(review.verdict, review.attempt)]
    BY <1>4 DEF Age!Decide
  <2>2. review.attempt + 1 \in 0..MaxTries
    BY <1>1, <1>4 DEF Age!ShouldRetry
  <2>3. PICK b \in BOOLEAN : b <=> Age!Escalates(review.verdict, review.attempt)
    BY Zenon
  <2>4. Age!Escalates(review.verdict, review.attempt) \in BOOLEAN
    BY DEF Age!Escalates
  <2>5. review' = [review EXCEPT !.attempt = @ + 1, !.stronger = b]
    <3>1. Age!Escalates(review.verdict, review.attempt) = b
      BY <2>3, <2>4, Zenon
    <3>2. QED
      BY <2>1, <3>1
  <2>6. /\ review' \in Reviews /\ review'.text = review.text /\ review'.confidence = review.confidence
        /\ review'.gates = review.gates /\ (review'.stronger <=> b)
    BY Zenon, <1>1, <2>2, <2>5 DEF Reviews
  <2>7. review.text = 0 => b
    <3>1. review.text = 0 => review.verdict.score = 0
      BY <1>1, <1>3, VerdictsTyped
    <3>2. QED
      BY <2>3, <3>1 DEF Age!Escalates
  <2>8. 1 \in 1..5 /\ 1 \in Nat \ {0}
    OBVIOUS
  <2>9. Advised'
    BY <1>3, <2>1, <2>6, <2>7, <2>8 DEF Advised
  <2>10. QED
    BY <1>2, <2>1, <2>6, <2>8, <2>9 DEF AgentsTyped
<1>5. CASE ~Age!ShouldRetry(review.verdict, review.attempt)
  <2>1. step' = 5 /\ review' = review
    BY <1>5 DEF Age!Decide
  <2>2. 5 \in 1..5 /\ 5 \in Nat \ {0}
    OBVIOUS
  <2>3. Age!Evaluation(review.text)' = Age!Evaluation(review.text)
    BY <2>1
  <2>4. Age!ShouldRetry(review.verdict, review.attempt)' <=> Age!ShouldRetry(review.verdict, review.attempt)
    BY <2>1 DEF Age!ShouldRetry
  <2>5. Advised'
    BY <1>3, <1>5, <2>1, <2>2, <2>3, <2>4 DEF Advised
  <2>6. QED
    BY <1>2, <2>1, <2>2, <2>5 DEF AgentsTyped
<1>6. QED
  BY <1>4, <1>5

\* The agents keep their invariant.
LEMMA AgentsStep == AgentsInv /\ [Next]_vars => AgentsInv'
<1> SUFFICES ASSUME AgentsInv, [Age!Next]_(Age!vars) PROVE AgentsInv'
  BY AgentsMove
<1>1. AgentsTyped /\ (making = "pipeline" => Piped) /\ (making = "advice" => Advised)
  BY DEF AgentsInv
<1>2. CASE Age!Planning \/ Age!Execution \/ Age!Custom
  <2>1. making = "pipeline"
    BY Zenon, <1>2 DEF Age!Planning, Age!Execution, Age!Custom, Age!Running
  <2>2. AgentsTyped' /\ Piped' /\ making' = "pipeline"
    BY <1>1, <1>2, <2>1, StagesKeep
  <2>3. QED
    BY <2>2 DEF AgentsInv
<1>3. CASE Age!Criticism
  <2>1. making = "pipeline"
    BY <1>3 DEF Age!Criticism, Age!Running
  <2>2. AgentsTyped' /\ Piped' /\ making' = "pipeline"
    BY <1>1, <1>3, <2>1, CriticismKeeps
  <2>3. QED
    BY <2>2 DEF AgentsInv
<1>4. CASE Age!Finish
  <2>1. making = "pipeline"
    BY <1>4 DEF Age!Finish
  <2>2. AgentsTyped' /\ Piped' /\ making' = "pipeline"
    BY <1>1, <1>4, <2>1, FinishKeeps
  <2>3. QED
    BY <2>2 DEF AgentsInv
<1>5. CASE Age!Execute \/ Age!Evaluate \/ Age!Gate \/ Age!Decide
  <2>1. making = "advice"
    BY <1>5 DEF Age!Execute, Age!Evaluate, Age!Gate, Age!Decide, Age!Asks
  <2>2. AgentsTyped' /\ Advised' /\ making' = "advice"
    BY <1>1, <1>5, <2>1, ExecuteKeeps, EvaluateKeeps, GateKeeps, AdviceKeeps
  <2>3. QED
    BY <2>2 DEF AgentsInv
<1>6. CASE UNCHANGED Age!vars
  <2>1. making' = making /\ step' = step /\ context' = context /\ report' = report /\ review' = review
    BY <1>6 DEF Age!vars
  <2>2. AgentsTyped'
    BY <1>1, <2>1 DEF AgentsTyped
  <2>3. Piped => Piped'
    BY <2>1 DEF Piped
  <2>4. Advised => Advised'
    <3>1. /\ Age!Evaluation(review.text)' = Age!Evaluation(review.text)
          /\ (Age!ShouldRetry(review.verdict, review.attempt)' <=> Age!ShouldRetry(review.verdict, review.attempt))
      BY <2>1 DEF Age!ShouldRetry
    <3>2. /\ ChainRight(review.gates) => ChainRight(review.gates)'
          /\ EmptySeen(review.gates) => EmptySeen(review.gates)'
      BY <2>1 DEF ChainRight, EmptySeen
    <3>3. QED
      BY <2>1, <3>1, <3>2 DEF Advised
  <2>5. QED
    BY <1>1, <2>1, <2>2, <2>3, <2>4 DEF AgentsInv
<1>7. QED
  BY <1>2, <1>3, <1>4, <1>5, <1>6 DEF Age!Next

\* Agents that are as above are right.
LEMMA AgentsDoRight == AgentsInv => Age!AgentsRight
<1> SUFFICES ASSUME AgentsInv PROVE Age!AgentsRight
  OBVIOUS
<1>1. AgentsTyped
  BY DEF AgentsInv
<1>2. Age!PipelineRight
  <2> SUFFICES ASSUME making = "pipeline" PROVE Age!PipelineRight
    BY DEF Age!PipelineRight
  <2>1. Piped
    BY DEF AgentsInv
  <2>2. PICK b \in Nat, m \in Nat, q \in Nat : b = context.cost /\ m = context.calls /\ q = context.critics
                                              /\ b + q = m
    BY <1>1, <2>1 DEF Piped, AgentsTyped, Crafts
  <2>3. context.cost = context.calls - context.critics
    <3>1. b = m - q
      BY <2>2
    <3>2. QED
      BY <2>2, <3>1
  <2>4. QED
    BY <2>1, <2>3 DEF Piped, Age!PipelineRight
<1>3. Age!AdviceRight
  <2> SUFFICES ASSUME making = "advice" PROVE Age!AdviceRight
    BY DEF Age!AdviceRight
  <2>1. Advised
    BY DEF AgentsInv
  <2>2. review.text \in Nat /\ review.verdict \in Verdicts /\ review.attempt \in 0..MaxTries
        /\ MinMark \in 0..10 /\ MaxTries \in Nat
    BY <1>1, AgentNumbers DEF AgentsTyped, Reviews
  <2>3. ASSUME step = 5, review.attempt < MaxTries
        PROVE  /\ review.text # 0 /\ review.verdict.of = review.text
               /\ review.verdict.approved \/ review.verdict.score >= MinMark
               /\ review.verdict.asked \/ MinMark <= 5
    <3>1. review.verdict \in Age!Evaluation(review.text) /\ ~Age!ShouldRetry(review.verdict, review.attempt)
      BY <2>1, <2>3 DEF Advised
    <3>2. PICK m \in 0..10 : m = review.verdict.score
      BY <2>2 DEF Verdicts
    <3>3. review.verdict.approved \/ (m >= MinMark /\ m # 0)
      BY <2>2, <2>3, <3>1, <3>2 DEF Age!ShouldRetry
    <3>4. /\ review.verdict.of = review.text /\ (review.text = 0 => m = 0 /\ ~review.verdict.approved)
          /\ ~review.verdict.asked => m \in {0, 5} /\ ~review.verdict.approved
      BY <2>2, <3>1, <3>2, VerdictsTyped
    <3>5. ~review.verdict.asked => MinMark <= 5
      BY <2>2, <3>3, <3>4
    <3>6. QED
      BY <3>2, <3>3, <3>4, <3>5
  <2>4. /\ review.gates.failed = {} /\ review.gates.of # {} => review.gates.passed
        /\ review.gates.passed /\ review.gates.failed # {} =>
              /\ ~review.gates.strict
              /\ Age!Cardinality(review.gates.failed) * GateNeeds[2]
                    <= Age!Cardinality(Gates) * (GateNeeds[2] - GateNeeds[1])
    BY <2>1, GatesCount DEF Advised, ChainRight
  <2>5. step = 4 /\ review.gates.passed /\ review.text = 0 =>
              /\ review.gates.strict => Age!TextGates \cap review.gates.of = {}
              /\ Age!TextGates \subseteq review.gates.of =>
                    2 * GateNeeds[2] <= Age!Cardinality(Gates) * (GateNeeds[2] - GateNeeds[1])
    BY <2>1, GatesCount DEF Advised, EmptySeen
  <2>6. /\ step = 1 /\ review.attempt > 0 /\ review.text = 0 => review.stronger
        /\ review.confidence = 7 => review.text # 0
        /\ review.confidence = 3 => review.text = 0
    BY <2>1 DEF Advised
  <2>7. QED
    BY <2>3, <2>4, <2>5, <2>6 DEF Age!AdviceRight
<1>4. QED
  BY <1>2, <1>3 DEF Age!AgentsRight

\* A pipeline reports what its stages did, and a critic what it saw.
THEOREM AgentsAreRight == Spec => []Age!AgentsRight
<1>1. Spec => []AgentsInv
  BY AgentsStart, AgentsStep, PTL DEF Spec
<1>2. QED
  BY <1>1, AgentsDoRight, PTL

-----------------------------------------------------------------------------
(* Lists of ages.                                                           *)

\* In a list in order the old ones come first.
LEMMA OldestFirst ==
    ASSUME NEW log \in Seq(Nat), NEW span \in Nat,
           \A i, j \in DOMAIN log : i <= j => log[i] >= log[j]
    PROVE  \E k \in 0..Len(log) :
              /\ {i \in DOMAIN log : log[i] >= span} = 1..k
              /\ Cardinality({i \in DOMAIN log : log[i] >= span}) = k
<1> DEFINE old == {i \in DOMAIN log : log[i] >= span}
           young == {i \in 1..Len(log) : log[i] < span}
<1>1. \E k \in 0..Len(log) : old = 1..k
  <2>1. CASE young = {}
    <3>1. old = 1..Len(log)
      BY <2>1
    <3>2. QED
      BY <3>1
  <2>2. CASE young # {}
    <3>1. young \subseteq Nat
      OBVIOUS
    <3>2. PICK n \in young : \A k \in young : n <= k
      BY <2>2, <3>1, LeastOf, Zenon
    <3>3. n \in 1..Len(log) /\ log[n] < span /\ n - 1 \in 0..Len(log)
      BY <3>2
    <3>4. \A i \in 1..Len(log) : log[i] >= span <=> i <= n - 1
      <4> SUFFICES ASSUME NEW i \in 1..Len(log) PROVE log[i] >= span <=> i <= n - 1
        OBVIOUS
      <4>1. log[i] \in Nat /\ log[n] \in Nat
        BY <3>3
      <4>2. i >= n => log[i] <= log[n]
        BY <3>3
      <4>3. i < n => i \notin young
        BY <3>2, <3>3
      <4>4. QED
        BY <3>3, <4>1, <4>2, <4>3
    <3>5. old = 1..(n - 1)
      BY <3>3, <3>4
    <3>6. QED
      BY <3>3, <3>5
  <2>3. QED
    BY <2>1, <2>2
<1>2. PICK k \in 0..Len(log) : old = 1..k
  BY <1>1
<1>3. Cardinality(1..k) = k
  <2>1. 1 \in Int /\ k \in Int /\ k \in Nat
    OBVIOUS
  <2>2. Cardinality(1..k) = IF 1 > k THEN 0 ELSE k - 1 + 1
    BY <2>1, FS_Interval, Zenon
  <2>3. QED
    BY <2>1, <2>2
<1>4. QED
  BY <1>2, <1>3

\* The end of a list is a list.
LEMMA EndIs ==
    ASSUME NEW T, NEW a \in Seq(T), NEW k \in 0..Len(a)
    PROVE  /\ SubSeq(a, k + 1, Len(a)) \in Seq(T)
           /\ Len(SubSeq(a, k + 1, Len(a))) = Len(a) - k
           /\ \A i \in 1..(Len(a) - k) : k + i \in 1..Len(a) /\ SubSeq(a, k + 1, Len(a))[i] = a[k + i]
OBVIOUS

\* A list is told by its elements.
LEMMA ListIs ==
    ASSUME NEW T, NEW n \in Nat, NEW f \in [1..n -> T]
    PROVE  f \in Seq(T) /\ Len(f) = n
OBVIOUS

\* Every element of a list is of its type.
LEMMA ElementIs ==
    ASSUME NEW T, NEW s \in Seq(T)
    PROVE  Len(s) \in Nat /\ DOMAIN s = 1..Len(s) /\ \A i \in 1..Len(s) : s[i] \in T
OBVIOUS

-----------------------------------------------------------------------------
(* The limits on web clients.                                               *)

LoggedAges == 0..(Hour + 1)
Grants == [age : 0..(Hour - 1), at : Endpoints]

\* From the newest on, a log has what was granted; what is beyond it is too old to matter.
Alike(log, grants, span) ==
    \A j \in 0..(Len(grants) - 1) :
        IF j < Len(log) THEN log[Len(log) - j] = grants[Len(grants) - j].age
        ELSE grants[Len(grants) - j].age >= span

LimitsTyped ==
    /\ minutes \in [Clients -> Seq(LoggedAges)] /\ hours \in [Clients -> Seq(LoggedAges)]
    /\ granted \in [Clients -> Seq(Grants)]
    /\ tracked \subseteq Clients /\ evicted \in 0..EvictEvery

LogsOrdered ==
    \A c \in Clients :
        /\ Limits!InOrder(minutes[c]) /\ Limits!InOrder(hours[c])
        /\ Limits!InOrder(Limits!Ages(granted[c]))

LogsTold ==
    \A c \in Clients :
        Alike(minutes[c], granted[c], Minute) /\ Alike(hours[c], granted[c], Hour)

LimitsInv == LimitsTyped /\ LogsOrdered /\ LogsTold /\ Limits!WithinLimits

\* Limits count as this module does.
LEMMA LimitsCount == \A S : Limits!Cardinality(S) = Cardinality(S)
BY DEF Limits!Cardinality, Cardinality, Limits!IsFiniteSet, IsFiniteSet

\* In a log in order the old ones come first.
LEMMA OldComeFirst ==
    ASSUME NEW log \in Seq(Nat), Limits!InOrder(log), NEW span \in Nat
    PROVE  \E k \in 0..Len(log) : Limits!Old(log, span) = 1..k /\ Limits!Cardinality(Limits!Old(log, span)) = k
<1>1. \A i, j \in DOMAIN log : i <= j => log[i] >= log[j]
  BY DEF Limits!InOrder
<1>2. PICK k \in 0..Len(log) :
         /\ {i \in DOMAIN log : log[i] >= span} = 1..k
         /\ Cardinality({i \in DOMAIN log : log[i] >= span}) = k
  BY <1>1, OldestFirst
<1>3. QED
  BY <1>2, LimitsCount DEF Limits!Old

\* What is trimmed off is what is too old.
LEMMA TrimIs ==
    ASSUME NEW log \in Seq(LoggedAges), Hour \in Nat, Limits!InOrder(log), NEW span \in Nat
    PROVE  \E k \in 0..Len(log) :
              /\ Limits!Trim(log, span) \in Seq(LoggedAges)
              /\ Len(Limits!Trim(log, span)) = Len(log) - k
              /\ \A i \in 1..(Len(log) - k) : Limits!Trim(log, span)[i] = log[k + i]
              /\ \A i \in 1..Len(log) : log[i] >= span <=> i <= k
              /\ Limits!InOrder(Limits!Trim(log, span))
<1>1. log \in Seq(Nat)
  BY DEF LoggedAges
<1>2. PICK k \in 0..Len(log) :
         Limits!Old(log, span) = 1..k /\ Limits!Cardinality(Limits!Old(log, span)) = k
  BY <1>1, OldComeFirst
<1>3. Limits!Trim(log, span) = SubSeq(log, k + 1, Len(log))
  BY <1>2 DEF Limits!Trim
<1> DEFINE s == SubSeq(log, k + 1, Len(log))
<1>4. s \in Seq(LoggedAges) /\ Len(s) = Len(log) - k /\ \A i \in 1..(Len(log) - k) : s[i] = log[k + i]
  OBVIOUS
<1>5. \A i \in 1..Len(log) : log[i] >= span <=> i <= k
  BY <1>2 DEF Limits!Old
<1> HIDE DEF s
<1>6. Limits!InOrder(s)
  <2> SUFFICES ASSUME NEW i \in 1..(Len(log) - k), NEW j \in 1..(Len(log) - k), i <= j PROVE s[i] >= s[j]
    BY <1>4 DEF Limits!InOrder
  <2>1. k + i \in 1..Len(log) /\ k + j \in 1..Len(log) /\ k + i <= k + j
    OBVIOUS
  <2>2. log[k + i] >= log[k + j]
    BY <2>1 DEF Limits!InOrder
  <2>3. QED
    BY <1>4, <2>2
<1>7. QED
  BY <1>3, <1>4, <1>5, <1>6 DEF s

\* A log that is trimmed is as much like what was granted.
LEMMA TrimAlike ==
    ASSUME NEW log \in Seq(LoggedAges), Hour \in Nat, Limits!InOrder(log), NEW span \in Nat,
           NEW g \in Seq(Grants), Alike(log, g, span)
    PROVE  Alike(Limits!Trim(log, span), g, span)
<1>1. PICK k \in 0..Len(log) :
         /\ Limits!Trim(log, span) \in Seq(LoggedAges)
         /\ Len(Limits!Trim(log, span)) = Len(log) - k
         /\ \A i \in 1..(Len(log) - k) : Limits!Trim(log, span)[i] = log[k + i]
         /\ \A i \in 1..Len(log) : log[i] >= span <=> i <= k
  BY TrimIs
<1> DEFINE s == Limits!Trim(log, span)
<1>2. s \in Seq(LoggedAges) /\ Len(s) = Len(log) - k /\ \A i \in 1..(Len(log) - k) : s[i] = log[k + i]
  BY <1>1
<1> HIDE DEF s
<1> SUFFICES ASSUME NEW j \in 0..(Len(g) - 1)
             PROVE  IF j < Len(s) THEN s[Len(s) - j] = g[Len(g) - j].age ELSE g[Len(g) - j].age >= span
  BY DEF Alike, s
<1>3. IF j < Len(log) THEN log[Len(log) - j] = g[Len(g) - j].age ELSE g[Len(g) - j].age >= span
  BY DEF Alike
<1>4. CASE j < Len(s)
  <2>1. Len(s) - j \in 1..(Len(log) - k) /\ k + (Len(s) - j) = Len(log) - j /\ j < Len(log)
    BY <1>2, <1>4
  <2>2. QED
    BY <1>2, <1>3, <1>4, <2>1
<1>5. CASE ~(j < Len(s)) /\ j < Len(log)
  <2>1. Len(log) - j \in 1..Len(log) /\ Len(log) - j <= k
    BY <1>2, <1>5
  <2>2. QED
    BY <1>1, <1>3, <1>5, <2>1
<1>6. CASE ~(j < Len(s)) /\ ~(j < Len(log))
  BY <1>3, <1>6
<1>7. QED
  BY <1>4, <1>5, <1>6

\* What is alike stays so when one more is granted and logged.
LEMMA GrantAlike ==
    ASSUME NEW log \in Seq(LoggedAges), NEW span \in Nat, NEW g \in Seq(Grants), Alike(log, g, span),
           NEW e \in Endpoints
    PROVE  Alike(Append(log, 0), Append(g, [age |-> 0, at |-> e]), span)
<1> DEFINE l == Append(log, 0)
           h == Append(g, [age |-> 0, at |-> e])
<1>1. /\ Len(l) = Len(log) + 1 /\ l[Len(log) + 1] = 0 /\ \A i \in 1..Len(log) : l[i] = log[i]
      /\ Len(h) = Len(g) + 1 /\ h[Len(g) + 1].age = 0 /\ \A i \in 1..Len(g) : h[i] = g[i]
  OBVIOUS
<1> HIDE DEF l, h
<1> SUFFICES ASSUME NEW j \in 0..(Len(h) - 1)
             PROVE  IF j < Len(l) THEN l[Len(l) - j] = h[Len(h) - j].age ELSE h[Len(h) - j].age >= span
  BY DEF Alike, l, h
<1>2. CASE j = 0
  BY <1>1, <1>2
<1>3. CASE j > 0
  <2>1. /\ j - 1 \in 0..(Len(g) - 1) /\ Len(h) - j = Len(g) - (j - 1) /\ Len(l) - j = Len(log) - (j - 1)
        /\ Len(g) - (j - 1) \in 1..Len(g) /\ (j < Len(l) <=> j - 1 < Len(log))
    BY <1>1, <1>3
  <2>2. j < Len(l) => Len(log) - (j - 1) \in 1..Len(log)
    BY <1>1, <1>3
  <2>3. IF j - 1 < Len(log) THEN log[Len(log) - (j - 1)] = g[Len(g) - (j - 1)].age
        ELSE g[Len(g) - (j - 1)].age >= span
    BY <2>1 DEF Alike
  <2>4. QED
    BY <1>1, <2>1, <2>2, <2>3
<1>4. QED
  BY <1>2, <1>3

\* A list in order stays so when something new is put last.
LEMMA AppendOrdered ==
    ASSUME NEW log \in Seq(Nat), Limits!InOrder(log)
    PROVE  Limits!InOrder(Append(log, 0))
BY DEF Limits!InOrder

\* What is granted has an age below an hour.
LEMMA GrantedAre ==
    ASSUME Hour \in Nat, NEW g \in Seq(Grants)
    PROVE  \A i \in 1..Len(g) : /\ g[i] \in Grants /\ g[i].age \in Nat /\ g[i].age < Hour
                                /\ g[i].age \in 0..(Hour - 1)
<1>1. \A i \in 1..Len(g) : g[i] \in Grants
  OBVIOUS
<1>2. \A x \in Grants : x.age \in Nat /\ x.age < Hour /\ x.age \in 0..(Hour - 1)
  BY DEF Grants
<1>3. QED
  BY <1>1, <1>2

\* An hour passes over what was granted: the youngest are left, older by one.
LEMMA GrantsAge ==
    ASSUME Hour \in Nat, NEW g \in Seq(Grants), Limits!InOrder(Limits!Ages(g))
    PROVE  \E k \in 0..Len(g) :
              /\ Limits!LastHour(Limits!Aged(g)) \in Seq(Grants)
              /\ Len(Limits!LastHour(Limits!Aged(g))) = Len(g) - k
              /\ \A i \in 1..(Len(g) - k) :
                    /\ Limits!LastHour(Limits!Aged(g))[i].age = g[k + i].age + 1
                    /\ Limits!LastHour(Limits!Aged(g))[i].at = g[k + i].at
              /\ Limits!InOrder(Limits!Ages(Limits!LastHour(Limits!Aged(g))))
<1> DEFINE a == Limits!Aged(g)
           ages == Limits!Ages(a)
           s == Limits!LastHour(a)
<1>1. /\ a \in Seq([age : Nat, at : Endpoints]) /\ Len(a) = Len(g)
      /\ \A i \in 1..Len(g) : a[i].age = g[i].age + 1 /\ a[i].at = g[i].at
  <2>1. \A i \in 1..Len(g) : g[i] \in Grants /\ g[i].age \in Nat
    BY GrantedAre
  <2>2. \A i \in 1..Len(g) : /\ [g[i] EXCEPT !.age = @ + 1] \in [age : Nat, at : Endpoints]
                             /\ [g[i] EXCEPT !.age = @ + 1].age = g[i].age + 1
                             /\ [g[i] EXCEPT !.age = @ + 1].at = g[i].at
    <3> SUFFICES ASSUME NEW x \in Grants, x.age \in Nat
                 PROVE  /\ [x EXCEPT !.age = @ + 1] \in [age : Nat, at : Endpoints]
                        /\ [x EXCEPT !.age = @ + 1].age = x.age + 1
                        /\ [x EXCEPT !.age = @ + 1].at = x.at
      BY <2>1, Zenon
    <3>1. x.at \in Endpoints /\ x = [age |-> x.age, at |-> x.at]
      BY DEF Grants
    <3>2. QED
      BY <3>1
  <2>3. DOMAIN g = 1..Len(g) /\ Len(g) \in Nat
    OBVIOUS
  <2>4. a = [i \in 1..Len(g) |-> [g[i] EXCEPT !.age = @ + 1]]
    BY <2>3 DEF Limits!Aged
  <2>5. a \in [1..Len(g) -> [age : Nat, at : Endpoints]]
    BY <2>2, <2>4
  <2>6. a \in Seq([age : Nat, at : Endpoints]) /\ Len(a) = Len(g)
    BY <2>3, <2>5, ListIs, Zenon
  <2>7. QED
    BY <2>2, <2>4, <2>6
<1> HIDE DEF a
<1>2. ages \in Seq(Nat) /\ Len(ages) = Len(g) /\ \A i \in 1..Len(g) : ages[i] = g[i].age + 1
  <2>1. \A i \in 1..Len(g) : g[i].age \in Nat
    BY GrantedAre
  <2>2. DOMAIN a = 1..Len(g) /\ Len(g) \in Nat
    BY <1>1, ElementIs
  <2>3. ages = [i \in 1..Len(g) |-> a[i].age]
    BY <2>2 DEF Limits!Ages
  <2>4. \A i \in 1..Len(g) : a[i].age = g[i].age + 1 /\ a[i].age \in Nat
    BY <1>1, <2>1
  <2>5. ages \in [1..Len(g) -> Nat]
    BY <2>3, <2>4
  <2>6. ages \in Seq(Nat) /\ Len(ages) = Len(g)
    BY <2>2, <2>5, ListIs, Zenon
  <2>7. QED
    BY <2>3, <2>4, <2>6
<1>3. Limits!InOrder(ages)
  <2>1. \A i, j \in 1..Len(g) : i <= j => g[i].age >= g[j].age
    BY DEF Limits!InOrder, Limits!Ages
  <2>2. \A i \in 1..Len(g) : g[i].age \in Nat
    BY GrantedAre
  <2> HIDE DEF ages
  <2>3. DOMAIN ages = 1..Len(g)
    BY <1>2
  <2> SUFFICES ASSUME NEW i \in 1..Len(g), NEW j \in 1..Len(g), i <= j PROVE ages[i] >= ages[j]
    BY <2>3 DEF Limits!InOrder
  <2>4. g[i].age >= g[j].age /\ g[i].age \in Nat /\ g[j].age \in Nat
    BY <2>1, <2>2
  <2>5. QED
    BY <1>2, <2>4
<1> HIDE DEF ages
<1>4. PICK k \in 0..Len(g) :
         Limits!Old(ages, Hour) = 1..k /\ Limits!Cardinality(Limits!Old(ages, Hour)) = k
  BY <1>2, <1>3, OldComeFirst
<1>5. s = SubSeq(a, k + 1, Len(a))
  BY <1>4 DEF Limits!LastHour, ages
<1>6. /\ s \in Seq([age : Nat, at : Endpoints]) /\ Len(s) = Len(g) - k
      /\ \A i \in 1..(Len(g) - k) : k + i \in 1..Len(g) /\ s[i] = a[k + i]
  <2>1. k \in 0..Len(a)
    BY <1>1
  <2>2. /\ SubSeq(a, k + 1, Len(a)) \in Seq([age : Nat, at : Endpoints])
        /\ Len(SubSeq(a, k + 1, Len(a))) = Len(a) - k
        /\ \A i \in 1..(Len(a) - k) : /\ k + i \in 1..Len(a)
                                     /\ SubSeq(a, k + 1, Len(a))[i] = a[k + i]
    BY <1>1, <2>1, EndIs, Zenon
  <2> HIDE DEF s
  <2>3. QED
    BY <1>1, <1>5, <2>2, Zenon
<1> HIDE DEF s
<1>7. s \in Seq(Grants)
  <2>1. s \in Seq([age : Nat, at : Endpoints]) /\ Len(s) \in Nat /\ DOMAIN s = 1..Len(s)
    BY <1>6, ElementIs, Zenon
  <2>2. \A i \in 1..Len(s) : s[i] \in Grants
    <3> SUFFICES ASSUME NEW i \in 1..Len(s) PROVE s[i] \in Grants
      OBVIOUS
    <3>1. s[i] \in [age : Nat, at : Endpoints] /\ s[i] = a[k + i] /\ k + i \in 1..Len(g)
      <4>1. s[i] \in [age : Nat, at : Endpoints]
        BY <2>1, ElementIs, Zenon
      <4>2. i \in 1..(Len(g) - k)
        BY <1>6
      <4>3. QED
        BY <1>6, <4>1, <4>2, Zenon
    <3>2. k + i \notin Limits!Old(ages, Hour)
      BY <1>4, <1>6
    <3>3. ages[k + i] < Hour /\ ages[k + i] = a[k + i].age
      BY <1>1, <1>2, <3>1, <3>2 DEF Limits!Old
    <3>4. QED
      BY <3>1, <3>3 DEF Grants
  <2>3. QED
    <3>1. s \in [1..Len(s) -> Grants]
      <4>1. s = [i \in 1..Len(s) |-> s[i]]
        BY <2>1
      <4>2. QED
        BY <2>2, <4>1, Zenon
    <3>2. QED
      BY <2>1, <3>1, ListIs, Zenon
<1>8. \A i \in 1..(Len(g) - k) : k + i \in 1..Len(g) /\ s[i].age = g[k + i].age + 1 /\ s[i].at = g[k + i].at
  BY <1>1, <1>6
<1>9. Limits!InOrder(Limits!Ages(s))
  <2> SUFFICES ASSUME NEW i \in 1..Len(s), NEW j \in 1..Len(s), i <= j PROVE s[i].age >= s[j].age
    BY <1>7 DEF Limits!InOrder, Limits!Ages
  <2>1. k + i \in 1..Len(g) /\ k + j \in 1..Len(g) /\ k + i <= k + j
    BY <1>6
  <2>2. g[k + i].age >= g[k + j].age /\ g[k + i].age \in Nat /\ g[k + j].age \in Nat
    <3>1. g[k + i].age >= g[k + j].age
      BY <2>1 DEF Limits!InOrder, Limits!Ages
    <3>2. QED
      BY <2>1, <3>1, GrantedAre
  <2>3. QED
    BY <1>6, <1>8, <2>2
<1>10. QED
  BY <1>6, <1>7, <1>8, <1>9 DEF s, a

\* A tick ages a log, which stays in order.
LEMMA LogAges ==
    ASSUME Hour \in Nat, NEW log \in Seq(LoggedAges), Limits!InOrder(log)
    PROVE  /\ [i \in DOMAIN log |-> Limits!Older(log[i])] \in Seq(LoggedAges)
           /\ Len([i \in DOMAIN log |-> Limits!Older(log[i])]) = Len(log)
           /\ Limits!InOrder([i \in DOMAIN log |-> Limits!Older(log[i])])
<1> DEFINE l == [i \in DOMAIN log |-> Limits!Older(log[i])]
<1>1. \A i \in 1..Len(log) : log[i] \in 0..(Hour + 1) /\ Limits!Older(log[i]) \in 0..(Hour + 1)
  BY DEF LoggedAges, Limits!Older
<1>2. l \in Seq(LoggedAges) /\ Len(l) = Len(log) /\ DOMAIN l = 1..Len(log)
      /\ \A i \in 1..Len(log) : l[i] = Limits!Older(log[i])
  <2>1. DOMAIN log = 1..Len(log) /\ Len(log) \in Nat
    OBVIOUS
  <2>2. l \in [1..Len(log) -> LoggedAges]
    BY <1>1, <2>1 DEF LoggedAges
  <2>3. QED
    BY <2>1, <2>2
<1> HIDE DEF l
<1>3. Limits!InOrder(l)
  <2> SUFFICES ASSUME NEW i \in 1..Len(log), NEW j \in 1..Len(log), i <= j PROVE l[i] >= l[j]
    BY <1>2 DEF Limits!InOrder
  <2>1. log[i] >= log[j]
    BY DEF Limits!InOrder
  <2>2. QED
    BY <1>1, <1>2, <2>1 DEF Limits!Older
<1>4. QED
  BY <1>2, <1>3 DEF l

\* What is alike stays so when both age.
LEMMA AgedAlike ==
    ASSUME Hour \in Nat, NEW log \in Seq(LoggedAges), Limits!InOrder(log), NEW span \in Nat,
           NEW g \in Seq(Grants), Limits!InOrder(Limits!Ages(g)), Alike(log, g, span)
    PROVE  Alike([i \in DOMAIN log |-> Limits!Older(log[i])], Limits!LastHour(Limits!Aged(g)), span)
<1>1. PICK k \in 0..Len(g) :
         /\ Limits!LastHour(Limits!Aged(g)) \in Seq(Grants)
         /\ Len(Limits!LastHour(Limits!Aged(g))) = Len(g) - k
         /\ \A i \in 1..(Len(g) - k) : Limits!LastHour(Limits!Aged(g))[i].age = g[k + i].age + 1
  BY GrantsAge
<1> DEFINE l == [i \in DOMAIN log |-> Limits!Older(log[i])]
           h == Limits!LastHour(Limits!Aged(g))
<1>2. Len(l) = Len(log) /\ \A i \in 1..Len(log) : l[i] = Limits!Older(log[i])
  BY LogAges
<1>3. Len(h) = Len(g) - k /\ \A i \in 1..(Len(g) - k) : h[i].age = g[k + i].age + 1
  BY <1>1
<1> HIDE DEF l, h
<1> SUFFICES ASSUME NEW j \in 0..(Len(h) - 1)
             PROVE  IF j < Len(l) THEN l[Len(l) - j] = h[Len(h) - j].age ELSE h[Len(h) - j].age >= span
  BY DEF Alike, l, h
<1>4. j \in 0..(Len(g) - 1) /\ Len(h) - j \in 1..(Len(g) - k) /\ k + (Len(h) - j) = Len(g) - j
  BY <1>3
<1>5. IF j < Len(log) THEN log[Len(log) - j] = g[Len(g) - j].age ELSE g[Len(g) - j].age >= span
  BY <1>4 DEF Alike
<1>6. h[Len(h) - j].age = g[Len(g) - j].age + 1 /\ g[Len(g) - j].age \in 0..(Hour - 1)
  <2>1. Len(g) - j \in 1..Len(g)
    BY <1>4
  <2>2. g[Len(g) - j] \in Grants
    BY <2>1
  <2>3. QED
    BY <1>3, <1>4, <2>2 DEF Grants
<1>7. CASE j < Len(log)
  <2>1. Len(l) - j \in 1..Len(log) /\ Len(l) - j = Len(log) - j
    BY <1>2, <1>4, <1>7
  <2>2. l[Len(l) - j] = Limits!Older(g[Len(g) - j].age)
    BY <1>2, <1>5, <1>7, <2>1
  <2>3. QED
    BY <1>2, <1>6, <1>7, <2>2 DEF Limits!Older
<1>8. CASE ~(j < Len(log))
  BY <1>2, <1>5, <1>6, <1>8
<1>9. QED
  BY <1>7, <1>8

\* No more was granted lately than a log that is like it has.
LEMMA GrantsLogged ==
    ASSUME Hour \in Nat, NEW g \in Seq(Grants), NEW e, NEW span \in Nat,
           NEW log \in Seq(LoggedAges), Alike(log, g, span)
    PROVE  Limits!Cardinality(Limits!Granted(g, e, span)) <= Len(log)
<1> DEFINE n == Len(g)
           low == n - Len(log) + 1
<1>1. n \in Nat /\ low \in Int /\ n \in Int /\ Len(log) \in Nat
  OBVIOUS
<1>2. Limits!Granted(g, e, span) \in SUBSET (low..n)
  <2> SUFFICES ASSUME NEW i \in 1..n, g[i].age < span PROVE i >= low
    BY <1>1 DEF Limits!Granted
  <2>1. n - i \in 0..(n - 1) /\ n - (n - i) = i
    OBVIOUS
  <2>2. IF n - i < Len(log) THEN log[Len(log) - (n - i)] = g[i].age ELSE g[i].age >= span
    BY <2>1 DEF Alike
  <2>3. g[i] \in Grants
    OBVIOUS
  <2>4. PICK a \in Nat : a = g[i].age
    BY <2>3 DEF Grants
  <2>5. a < span
    BY <2>4
  <2>6. n - i < Len(log)
    BY <2>1, <2>2, <2>4, <2>5
  <2>7. QED
    BY <1>1, <2>6
<1> HIDE DEF n, low
<1>3. IsFiniteSet(low..n) /\ Cardinality(low..n) = IF low > n THEN 0 ELSE n - low + 1
  BY <1>1, FS_Interval, Zenon
<1>4. /\ IsFiniteSet(Limits!Granted(g, e, span))
      /\ Cardinality(Limits!Granted(g, e, span)) <= Cardinality(low..n)
  BY <1>2, <1>3, FS_Subset, Zenon
<1>5. Cardinality(Limits!Granted(g, e, span)) \in Nat
  BY <1>4, FS_CardinalityType, Zenon
<1>6. Cardinality(low..n) <= Len(log)
  BY <1>1, <1>3 DEF low
<1>7. Cardinality(low..n) \in Nat
  BY <1>1, <1>3
<1>8. Cardinality(Limits!Granted(g, e, span)) <= Len(log)
  BY <1>1, <1>4, <1>5, <1>6, <1>7
<1>9. QED
  BY <1>8, LimitsCount

\* As what was granted grows older, no more of it was lately.
LEMMA FewerGranted ==
    ASSUME Hour \in Nat, NEW g \in Seq(Grants), Limits!InOrder(Limits!Ages(g)), NEW e, NEW span \in Nat,
           NEW limit \in Nat, Limits!Cardinality(Limits!Granted(g, e, span)) <= limit
    PROVE  Limits!Cardinality(Limits!Granted(Limits!LastHour(Limits!Aged(g)), e, span)) <= limit
<1> DEFINE h == Limits!LastHour(Limits!Aged(g))
           S == Limits!Granted(h, e, span)
           T == Limits!Granted(g, e, span)
<1>1. PICK k \in 0..Len(g) :
         /\ h \in Seq(Grants) /\ Len(h) = Len(g) - k
         /\ \A i \in 1..(Len(g) - k) : h[i].age = g[k + i].age + 1 /\ h[i].at = g[k + i].at
  BY GrantsAge
<1> HIDE DEF h
<1>2. S \subseteq 1..Len(h) /\ T \subseteq 1..Len(g) /\ Len(h) \in Nat /\ Len(g) \in Nat
  BY <1>1 DEF Limits!Granted
<1>3. \A i \in S : k + i \in T
  <2> SUFFICES ASSUME NEW i \in S PROVE k + i \in T
    OBVIOUS
  <2>1. i \in 1..(Len(g) - k) /\ h[i].at = e /\ h[i].age < span
    BY <1>1, <1>2 DEF Limits!Granted
  <2>2. k + i \in 1..Len(g) /\ g[k + i].at = e /\ h[i].age = g[k + i].age + 1
    BY <1>1, <2>1
  <2>3. g[k + i] \in Grants
    BY <2>2
  <2>4. g[k + i].age < span
    BY <2>1, <2>2, <2>3 DEF Grants
  <2>5. QED
    BY <2>2, <2>4 DEF Limits!Granted
<1> HIDE DEF S, T
<1> DEFINE f == [i \in S |-> k + i]
<1>4. f \in Injection(S, T)
  <2>1. f \in [S -> T]
    BY <1>3
  <2>2. \A i, j \in S : f[i] = f[j] => i = j
    <3>1. \A i \in S : i \in Nat
      BY <1>2
    <3>2. QED
      BY <3>1
  <2>3. QED
    BY <2>1, <2>2 DEF Injection, IsInjective
<1>5. IsFiniteSet(T)
  <2>1. IsFiniteSet(1..Len(g))
    <3>1. 1 \in Int /\ Len(g) \in Int
      BY <1>2
    <3>2. QED
      BY <3>1, FS_Interval, Zenon
  <2>2. QED
    BY <1>2, <2>1, FS_Subset, Zenon
<1>6. IsFiniteSet(S) /\ Cardinality(S) <= Cardinality(T)
  BY <1>4, <1>5, FS_Injection, Zenon
<1>7. Cardinality(S) \in Nat /\ Cardinality(T) \in Nat
  BY <1>5, <1>6, FS_CardinalityType, Zenon
<1>8. Cardinality(T) <= limit
  BY LimitsCount DEF T
<1>9. Cardinality(S) <= limit
  BY <1>6, <1>7, <1>8
<1>10. QED
  BY <1>9, LimitsCount DEF S, h

\* At first nothing was granted, and nothing is logged.
LEMMA LimitsStart ==
    ASSUME Limits!RateAssumption, Limits!Init
    PROVE  LimitsInv
<1> USE DEF Limits!Init, Limits!RateAssumption
<1>1. LimitsTyped
  <2>1. <<>> \in Seq(LoggedAges) /\ <<>> \in Seq(Grants)
    OBVIOUS
  <2>2. QED
    BY <2>1 DEF LimitsTyped
<1>2. \A c \in Clients : minutes[c] = <<>> /\ hours[c] = <<>> /\ granted[c] = <<>>
  OBVIOUS
<1>3. LogsOrdered
  BY <1>2 DEF LogsOrdered, Limits!InOrder, Limits!Ages
<1>4. LogsTold
  <2>1. \A span : Alike(<<>>, <<>>, span)
    BY DEF Alike
  <2>2. QED
    BY <1>2, <2>1 DEF LogsTold
<1>5. Limits!WithinLimits
  <2>1. \A e, span : Limits!Granted(<<>>, e, span) = {}
    BY DEF Limits!Granted
  <2>2. Limits!Cardinality({}) = 0
    BY LimitsCount, FS_EmptySet, Zenon
  <2>3. \A e \in Endpoints : 0 <= Rpm[e] /\ 0 <= Rph[e]
    OBVIOUS
  <2> SUFFICES ASSUME NEW c \in Clients, NEW e \in Endpoints
               PROVE  /\ Limits!Cardinality(Limits!Granted(granted[c], e, Minute)) <= Rpm[e]
                      /\ Limits!Cardinality(Limits!Granted(granted[c], e, Hour)) <= Rph[e]
    BY DEF Limits!WithinLimits
  <2>4. QED
    BY <1>2, <2>1, <2>2, <2>3, Zenon
<1>6. QED
  BY <1>1, <1>3, <1>4, <1>5 DEF LimitsInv

\* Whoever's logs are evicted was granted nothing in the last hour.
LEMMA StaleHaveNothing ==
    ASSUME Hour \in Nat, NEW log \in Seq(LoggedAges), NEW g \in Seq(Grants), Alike(log, g, Hour),
           log = <<>> \/ Limits!Newest(log) > Hour
    PROVE  Len(g) = 0
<1> SUFFICES ASSUME Len(g) # 0 PROVE FALSE
  OBVIOUS
<1>1. Len(g) \in 1..Len(g) /\ 0 \in 0..(Len(g) - 1) /\ Len(g) - 0 = Len(g) /\ Len(log) \in Nat
  OBVIOUS
<1>2. g[Len(g)] \in Grants
  BY <1>1
<1>3. PICK a \in 0..(Hour - 1) : a = g[Len(g)].age
  BY <1>2 DEF Grants
<1>4. IF 0 < Len(log) THEN log[Len(log)] = a ELSE a >= Hour
  BY <1>1, <1>3 DEF Alike
<1>5. CASE log = <<>>
  BY <1>3, <1>4, <1>5
<1>6. CASE log # <<>> /\ Limits!Newest(log) > Hour
  BY <1>1, <1>3, <1>4, <1>6 DEF Limits!Newest
<1>7. QED
  BY <1>5, <1>6

\* A tick keeps the logs like what was granted.
LEMMA LimitsTick ==
    ASSUME Limits!RateAssumption, LimitsInv, Limits!Tick
    PROVE  LimitsInv'
<1> USE DEF Limits!RateAssumption
<1>1. /\ Hour \in Nat /\ Minute \in Nat
      /\ \A c \in Clients :
            /\ minutes[c] \in Seq(LoggedAges) /\ hours[c] \in Seq(LoggedAges)
            /\ granted[c] \in Seq(Grants)
            /\ Limits!InOrder(minutes[c]) /\ Limits!InOrder(hours[c])
            /\ Limits!InOrder(Limits!Ages(granted[c]))
            /\ Alike(minutes[c], granted[c], Minute) /\ Alike(hours[c], granted[c], Hour)
  BY DEF LimitsInv, LimitsTyped, LogsOrdered, LogsTold
<1>2. \A c \in Clients :
         /\ minutes'[c] = [i \in DOMAIN minutes[c] |-> Limits!Older(minutes[c][i])]
         /\ hours'[c] = [i \in DOMAIN hours[c] |-> Limits!Older(hours[c][i])]
         /\ granted'[c] = Limits!LastHour(Limits!Aged(granted[c]))
  BY DEF Limits!Tick
<1>3. \A c \in Clients :
         /\ minutes'[c] \in Seq(LoggedAges) /\ hours'[c] \in Seq(LoggedAges)
         /\ Limits!InOrder(minutes'[c]) /\ Limits!InOrder(hours'[c])
  BY <1>1, <1>2, LogAges
<1>4. \A c \in Clients : granted'[c] \in Seq(Grants) /\ Limits!InOrder(Limits!Ages(granted'[c]))
  BY <1>1, <1>2, GrantsAge
<1>5. LimitsTyped'
  <2>1. /\ minutes' = [c \in Clients |-> minutes'[c]] /\ hours' = [c \in Clients |-> hours'[c]]
        /\ granted' = [c \in Clients |-> granted'[c]]
    BY <1>2 DEF Limits!Tick
  <2>2. /\ minutes' \in [Clients -> Seq(LoggedAges)] /\ hours' \in [Clients -> Seq(LoggedAges)]
        /\ granted' \in [Clients -> Seq(Grants)]
    BY <1>3, <1>4, <2>1, Zenon
  <2>3. tracked' \subseteq Clients /\ evicted' \in 0..EvictEvery
    BY DEF Limits!Tick, LimitsInv, LimitsTyped
  <2>4. QED
    BY <2>2, <2>3 DEF LimitsTyped
<1>6. LogsOrdered'
  BY <1>3, <1>4 DEF LogsOrdered
<1>7. LogsTold'
  <2> SUFFICES ASSUME NEW c \in Clients
               PROVE  Alike(minutes'[c], granted'[c], Minute) /\ Alike(hours'[c], granted'[c], Hour)
    BY DEF LogsTold
  <2> DEFINE g == Limits!LastHour(Limits!Aged(granted[c]))
  <2>1. Alike([i \in DOMAIN minutes[c] |-> Limits!Older(minutes[c][i])], g, Minute)
    BY <1>1, AgedAlike, Zenon
  <2>2. Alike([i \in DOMAIN hours[c] |-> Limits!Older(hours[c][i])], g, Hour)
    BY <1>1, AgedAlike, Zenon
  <2>3. QED
    BY <1>2, <2>1, <2>2, Zenon
<1>8. Limits!WithinLimits'
  <2> SUFFICES ASSUME NEW c \in Clients, NEW e \in Endpoints
               PROVE  /\ Limits!Cardinality(Limits!Granted(granted'[c], e, Minute)) <= Rpm[e]
                      /\ Limits!Cardinality(Limits!Granted(granted'[c], e, Hour)) <= Rph[e]
    BY DEF Limits!WithinLimits
  <2>1. /\ Limits!Cardinality(Limits!Granted(granted[c], e, Minute)) <= Rpm[e]
        /\ Limits!Cardinality(Limits!Granted(granted[c], e, Hour)) <= Rph[e]
    BY DEF LimitsInv, Limits!WithinLimits
  <2>2. Rpm[e] \in Nat /\ Rph[e] \in Nat
    OBVIOUS
  <2>3. QED
    BY <1>1, <1>2, <2>1, <2>2, FewerGranted
<1>9. QED
  BY <1>5, <1>6, <1>7, <1>8 DEF LimitsInv

\* A check trims the logs of a client and forgets those of stale ones; they are like what was
\* granted still.
LEMMA CheckKeepsLogs ==
    ASSUME Limits!RateAssumption, LimitsInv, NEW c \in Clients, NEW e \in Endpoints,
           NEW gone, gone \in {{}, Limits!Stale(Limits!Cleaned(c).h)}, NEW d \in Clients,
           NEW m, m = (IF d \in gone THEN <<>> ELSE Limits!Cleaned(c).m[d]),
           NEW h, h = (IF d \in gone THEN <<>> ELSE Limits!Cleaned(c).h[d])
    PROVE  /\ m \in Seq(LoggedAges) /\ h \in Seq(LoggedAges)
           /\ Limits!InOrder(m) /\ Limits!InOrder(h)
           /\ Alike(m, granted[d], Minute) /\ Alike(h, granted[d], Hour)
<1> USE DEF Limits!RateAssumption
<1> DEFINE old == Limits!Cleaned(c)
<1>1. /\ Hour \in Nat /\ Minute \in Nat
      /\ minutes[d] \in Seq(LoggedAges) /\ hours[d] \in Seq(LoggedAges)
      /\ granted[d] \in Seq(Grants)
      /\ Limits!InOrder(minutes[d]) /\ Limits!InOrder(hours[d])
      /\ Alike(minutes[d], granted[d], Minute) /\ Alike(hours[d], granted[d], Hour)
  BY DEF LimitsInv, LimitsTyped, LogsOrdered, LogsTold
<1>2. /\ old.m[d] = IF d = c THEN Limits!Trim(minutes[d], Minute) ELSE minutes[d]
      /\ old.h[d] = IF d = c THEN Limits!Trim(hours[d], Hour) ELSE hours[d]
  BY DEF Limits!Cleaned, LimitsInv, LimitsTyped
<1>3. /\ old.m[d] \in Seq(LoggedAges) /\ Limits!InOrder(old.m[d])
      /\ Alike(old.m[d], granted[d], Minute)
  <2>1. Limits!Trim(minutes[d], Minute) \in Seq(LoggedAges) /\ Limits!InOrder(Limits!Trim(minutes[d], Minute))
    BY <1>1, TrimIs, Zenon
  <2>2. Alike(Limits!Trim(minutes[d], Minute), granted[d], Minute)
    BY <1>1, TrimAlike, Zenon
  <2>3. QED
    BY <1>1, <1>2, <2>1, <2>2, Zenon
<1>4. /\ old.h[d] \in Seq(LoggedAges) /\ Limits!InOrder(old.h[d])
      /\ Alike(old.h[d], granted[d], Hour)
  <2>1. Limits!Trim(hours[d], Hour) \in Seq(LoggedAges) /\ Limits!InOrder(Limits!Trim(hours[d], Hour))
    BY <1>1, TrimIs, Zenon
  <2>2. Alike(Limits!Trim(hours[d], Hour), granted[d], Hour)
    BY <1>1, TrimAlike, Zenon
  <2>3. QED
    BY <1>1, <1>2, <2>1, <2>2, Zenon
<1>5. CASE d \notin gone
  BY <1>3, <1>4, <1>5
<1>6. CASE d \in gone
  <2>1. old.h[d] = <<>> \/ Limits!Newest(old.h[d]) > Hour
    BY <1>6 DEF Limits!Stale
  <2>2. Len(granted[d]) = 0
    BY <1>1, <1>4, <2>1, StaleHaveNothing
  <2>3. Alike(<<>>, granted[d], Minute) /\ Alike(<<>>, granted[d], Hour)
    BY <2>2 DEF Alike
  <2>4. <<>> \in Seq(LoggedAges) /\ Limits!InOrder(<<>>)
    BY DEF Limits!InOrder
  <2>5. QED
    BY <1>6, <2>3, <2>4
<1>7. QED
  BY <1>5, <1>6

\* A check grants no more than the log, which is like what was granted, has room for.
LEMMA LimitsCheck ==
    ASSUME Limits!RateAssumption, LimitsInv, NEW c \in Clients, NEW e \in Endpoints, Limits!Check(c, e)
    PROVE  LimitsInv'
<1> USE DEF Limits!RateAssumption
<1> DEFINE log == Limits!Cleaned(c)
           gone == IF Limits!Evicts(c) THEN Limits!Stale(log.h) ELSE {}
           m == [d \in Clients |-> IF d \in gone THEN <<>> ELSE log.m[d]]
           h == [d \in Clients |-> IF d \in gone THEN <<>> ELSE log.h[d]]
           ok == Len(m[c]) < Rpm[e] /\ Len(h[c]) < Rph[e]
           one == [age |-> 0, at |-> e]
<1>1. Hour \in Nat /\ Minute \in Nat /\ Hour >= 1 /\ gone \in {{}, Limits!Stale(log.h)}
  OBVIOUS
<1>2. /\ tracked' = (tracked \ gone) \cup {c}
      /\ evicted' = IF Limits!Evicts(c) THEN 0 ELSE evicted
      /\ minutes' = IF ok THEN [m EXCEPT ![c] = Append(@, 0)] ELSE m
      /\ hours' = IF ok THEN [h EXCEPT ![c] = Append(@, 0)] ELSE h
      /\ granted' = IF ok THEN [granted EXCEPT ![c] = Append(@, one)] ELSE granted
  BY DEF Limits!Check
<1>3. \A d \in Clients :
         /\ m[d] = (IF d \in gone THEN <<>> ELSE log.m[d])
         /\ h[d] = (IF d \in gone THEN <<>> ELSE log.h[d])
  OBVIOUS
<1>4. DOMAIN m = Clients /\ DOMAIN h = Clients
  OBVIOUS
<1> HIDE DEF gone, m, h
<1>5. \A d \in Clients :
         /\ m[d] \in Seq(LoggedAges) /\ h[d] \in Seq(LoggedAges)
         /\ Limits!InOrder(m[d]) /\ Limits!InOrder(h[d])
         /\ Alike(m[d], granted[d], Minute) /\ Alike(h[d], granted[d], Hour)
  BY <1>1, <1>3, CheckKeepsLogs
<1>6. granted \in [Clients -> Seq(Grants)] /\ one \in Grants /\ 0 \in LoggedAges
  <2>1. granted \in [Clients -> Seq(Grants)]
    BY DEF LimitsInv, LimitsTyped
  <2>2. one \in Grants /\ 0 \in LoggedAges
    BY <1>1 DEF Grants, LoggedAges
  <2>3. QED
    BY <2>1, <2>2
<1>7. \A d \in Clients : Limits!InOrder(Limits!Ages(granted[d]))
  BY DEF LimitsInv, LogsOrdered
<1>8. /\ tracked' \subseteq Clients /\ evicted' \in 0..EvictEvery
  BY <1>2 DEF LimitsInv, LimitsTyped
<1>9. \A f \in Endpoints : Rpm[f] \in Nat /\ Rph[f] \in Nat
  OBVIOUS
<1>10. \A d \in Clients, f \in Endpoints :
          /\ Limits!Cardinality(Limits!Granted(granted[d], f, Minute)) <= Rpm[f]
          /\ Limits!Cardinality(Limits!Granted(granted[d], f, Hour)) <= Rph[f]
  BY DEF LimitsInv, Limits!WithinLimits
<1>11. m = [d \in Clients |-> m[d]] /\ h = [d \in Clients |-> h[d]]
  BY DEF m, h
<1>12. CASE ~ok
  <2>1. minutes' = m /\ hours' = h /\ granted' = granted
    BY <1>2, <1>12
  <2>2. LimitsTyped'
    <3>1. m \in [Clients -> Seq(LoggedAges)] /\ h \in [Clients -> Seq(LoggedAges)]
      BY <1>5, <1>11, Zenon
    <3>2. QED
      BY <1>6, <1>8, <2>1, <3>1 DEF LimitsTyped
  <2>3. LogsOrdered' /\ LogsTold'
    BY <1>5, <1>7, <2>1 DEF LogsOrdered, LogsTold
  <2>4. Limits!WithinLimits'
    BY <1>10, <2>1 DEF Limits!WithinLimits
  <2>5. QED
    BY <2>2, <2>3, <2>4 DEF LimitsInv
<1>13. CASE ok
  <2> DEFINE mc == Append(m[c], 0)
             hc == Append(h[c], 0)
             gc == Append(granted[c], one)
  <2>1. /\ minutes' = [m EXCEPT ![c] = mc] /\ hours' = [h EXCEPT ![c] = hc]
        /\ granted' = [granted EXCEPT ![c] = gc]
    BY <1>2, <1>13
  <2>2. \A d \in Clients :
           /\ minutes'[d] = IF d = c THEN mc ELSE m[d]
           /\ hours'[d] = IF d = c THEN hc ELSE h[d]
           /\ granted'[d] = IF d = c THEN gc ELSE granted[d]
    BY <1>4, <1>6, <2>1
  <2>3. /\ mc \in Seq(LoggedAges) /\ hc \in Seq(LoggedAges) /\ gc \in Seq(Grants)
        /\ Len(mc) = Len(m[c]) + 1 /\ Len(hc) = Len(h[c]) + 1 /\ Len(m[c]) \in Nat /\ Len(h[c]) \in Nat
    BY <1>5, <1>6
  <2>4. Limits!InOrder(mc) /\ Limits!InOrder(hc)
    <3>1. m[c] \in Seq(Nat) /\ h[c] \in Seq(Nat)
      BY <1>5 DEF LoggedAges
    <3>2. QED
      BY <1>5, <3>1, AppendOrdered
  <2>5. Limits!InOrder(Limits!Ages(gc))
    <3>1. granted[c] \in Seq(Grants) /\ \A i \in 1..Len(granted[c]) : granted[c][i].age \in Nat
      BY <1>1, <1>6, GrantedAre
    <3>2. \A i, j \in 1..Len(granted[c]) : i <= j => granted[c][i].age >= granted[c][j].age
      <4>1. Limits!InOrder(Limits!Ages(granted[c])) /\ DOMAIN granted[c] = 1..Len(granted[c])
        BY <1>7, <3>1
      <4>2. QED
        BY <4>1 DEF Limits!InOrder, Limits!Ages
    <3>3. /\ Len(gc) = Len(granted[c]) + 1 /\ Len(granted[c]) \in Nat /\ gc[Len(gc)].age = 0
          /\ \A i \in 1..Len(granted[c]) : gc[i] = granted[c][i]
      BY <3>1
    <3> HIDE DEF gc
    <3>4. \A i \in 1..Len(gc), j \in 1..Len(gc) : i <= j => gc[i].age >= gc[j].age
      <4> SUFFICES ASSUME NEW i \in 1..Len(gc), NEW j \in 1..Len(gc), i <= j
                   PROVE  gc[i].age >= gc[j].age
        OBVIOUS
      <4>1. CASE j \in 1..Len(granted[c])
        <5>1. i \in 1..Len(granted[c])
          BY <3>3, <4>1
        <5>2. QED
          BY <3>2, <3>3, <4>1, <5>1
      <4>2. CASE j = Len(gc)
        <5>1. gc[j].age = 0 /\ gc[i].age \in Nat
          <6>1. i \in 1..Len(granted[c]) \/ i = Len(gc)
            BY <3>3
          <6>2. QED
            BY <3>1, <3>3, <4>2, <6>1
        <5>2. QED
          BY <5>1
      <4>3. QED
        BY <3>3, <4>1, <4>2
    <3>5. DOMAIN gc = 1..Len(gc) /\ Len(gc) \in Nat
      BY <2>3, ElementIs, Zenon
    <3>6. QED
      BY <3>4, <3>5 DEF Limits!InOrder, Limits!Ages
  <2>6. Alike(mc, gc, Minute) /\ Alike(hc, gc, Hour)
    <3>1. granted[c] \in Seq(Grants)
      BY <1>6
    <3>2. Alike(mc, gc, Minute)
      BY <1>1, <1>5, <3>1, GrantAlike
    <3>3. Alike(hc, gc, Hour)
      BY <1>1, <1>5, <3>1, GrantAlike
    <3>4. QED
      BY <3>2, <3>3
  <2>7. /\ Limits!Cardinality(Limits!Granted(gc, e, Minute)) <= Rpm[e]
        /\ Limits!Cardinality(Limits!Granted(gc, e, Hour)) <= Rph[e]
    <3>1. Limits!Cardinality(Limits!Granted(gc, e, Minute)) <= Len(mc)
      BY <1>1, <2>3, <2>6, GrantsLogged
    <3>2. Limits!Cardinality(Limits!Granted(gc, e, Hour)) <= Len(hc)
      BY <1>1, <2>3, <2>6, GrantsLogged
    <3>3. Len(mc) <= Rpm[e] /\ Len(hc) <= Rph[e]
      BY <1>9, <1>13, <2>3
    <3>4. \A f, span : IsFiniteSet(Limits!Granted(gc, f, span))
      <4>1. IsFiniteSet(1..Len(gc))
        <5>1. 1 \in Int /\ Len(gc) \in Int
          BY <2>3
        <5>2. QED
          BY <5>1, FS_Interval, Zenon
      <4>2. \A f, span : Limits!Granted(gc, f, span) \subseteq 1..Len(gc)
        BY <2>3 DEF Limits!Granted
      <4>3. QED
        BY <4>1, <4>2, FS_Subset, Zenon
    <3>5. /\ Limits!Cardinality(Limits!Granted(gc, e, Minute)) \in Nat
          /\ Limits!Cardinality(Limits!Granted(gc, e, Hour)) \in Nat
      BY <3>4, FS_CardinalityType, LimitsCount, Zenon
    <3> HIDE DEF mc, hc, gc
    <3>6. QED
      BY <1>9, <2>3, <3>1, <3>2, <3>3, <3>5
  <2>8. \A f \in Endpoints \ {e} : \A span \in Nat :
           Limits!Granted(gc, f, span) = Limits!Granted(granted[c], f, span)
    <3> SUFFICES ASSUME NEW f \in Endpoints \ {e}, NEW span \in Nat
                 PROVE  Limits!Granted(gc, f, span) = Limits!Granted(granted[c], f, span)
      OBVIOUS
    <3>1. granted[c] \in Seq(Grants)
      BY <1>6
    <3>2. /\ DOMAIN gc = 1..(Len(granted[c]) + 1) /\ Len(granted[c]) \in Nat
          /\ DOMAIN granted[c] = 1..Len(granted[c])
          /\ gc[Len(granted[c]) + 1].at = e
          /\ \A i \in 1..Len(granted[c]) : gc[i] = granted[c][i]
      BY <3>1
    <3> HIDE DEF gc
    <3>3. \A i \in DOMAIN gc : i \in DOMAIN granted[c] \/ i = Len(granted[c]) + 1
      BY <3>2
    <3>4. \A i \in DOMAIN granted[c] : i \in DOMAIN gc /\ gc[i] = granted[c][i]
      BY <3>2
    <3>5. \A i : i \in Limits!Granted(gc, f, span) <=> i \in Limits!Granted(granted[c], f, span)
      BY <3>2, <3>3, <3>4 DEF Limits!Granted
    <3>6. QED
      BY <3>5 DEF Limits!Granted
  <2> HIDE DEF mc, hc, gc
  <2>9. LimitsTyped'
    <3>1. /\ minutes' \in [Clients -> Seq(LoggedAges)] /\ hours' \in [Clients -> Seq(LoggedAges)]
          /\ granted' \in [Clients -> Seq(Grants)]
      <4>1. m \in [Clients -> Seq(LoggedAges)] /\ h \in [Clients -> Seq(LoggedAges)]
        BY <1>5, <1>11, Zenon
      <4>2. QED
        BY <1>6, <2>1, <2>3, <4>1
    <3>2. QED
      BY <1>8, <3>1 DEF LimitsTyped
  <2>10. LogsOrdered'
    BY <1>5, <1>7, <2>2, <2>4, <2>5 DEF LogsOrdered
  <2>11. LogsTold'
    BY <1>5, <2>2, <2>6 DEF LogsTold
  <2>12. Limits!WithinLimits'
    <3> SUFFICES ASSUME NEW d \in Clients, NEW f \in Endpoints
                 PROVE  /\ Limits!Cardinality(Limits!Granted(granted'[d], f, Minute)) <= Rpm[f]
                        /\ Limits!Cardinality(Limits!Granted(granted'[d], f, Hour)) <= Rph[f]
      BY DEF Limits!WithinLimits
    <3>1. CASE d # c
      BY <1>10, <2>2, <3>1
    <3>2. CASE d = c /\ f # e
      BY <1>1, <1>10, <2>2, <2>8, <3>2
    <3>3. CASE d = c /\ f = e
      BY <2>2, <2>7, <3>3
    <3>4. QED
      BY <3>1, <3>2, <3>3
  <2>13. QED
    BY <2>9, <2>10, <2>11, <2>12 DEF LimitsInv
<1>14. QED
  BY <1>12, <1>13

\* Logs tell what was granted, and limits are kept, whatever step is taken.
LEMMA LimitsKept ==
    ASSUME Limits!RateAssumption, LimitsInv, [Limits!Next]_(Limits!vars)
    PROVE  LimitsInv'
<1>1. CASE Limits!Next
  BY <1>1, LimitsTick, LimitsCheck DEF Limits!Next
<1>2. CASE UNCHANGED Limits!vars
  <2>1. /\ minutes' = minutes /\ hours' = hours /\ granted' = granted
        /\ tracked' = tracked /\ evicted' = evicted
    BY <1>2 DEF Limits!vars
  <2>2. LimitsTyped' /\ LogsOrdered' /\ LogsTold' /\ Limits!WithinLimits'
    BY <2>1 DEF LimitsInv, LimitsTyped, LogsOrdered, LogsTold, Limits!WithinLimits
  <2>3. QED
    BY <2>2 DEF LimitsInv
<1>3. QED
  BY <1>1, <1>2

\* What the logs are is what the type invariant says of them.
LEMMA LimitsAreTyped ==
    ASSUME Limits!RateAssumption, LimitsInv
    PROVE  Limits!TypeOK
<1>1. \A c \in Clients :
         /\ \A i \in DOMAIN minutes[c] : minutes[c][i] \in 0..(Hour + 1)
         /\ \A i \in DOMAIN hours[c] : hours[c][i] \in 0..(Hour + 1)
         /\ Limits!InOrder(minutes[c]) /\ Limits!InOrder(hours[c])
  <2> SUFFICES ASSUME NEW c \in Clients
               PROVE  /\ \A i \in DOMAIN minutes[c] : minutes[c][i] \in LoggedAges
                      /\ \A i \in DOMAIN hours[c] : hours[c][i] \in LoggedAges
                      /\ Limits!InOrder(minutes[c]) /\ Limits!InOrder(hours[c])
    BY DEF LoggedAges
  <2>1. minutes[c] \in Seq(LoggedAges) /\ hours[c] \in Seq(LoggedAges)
    BY DEF LimitsInv, LimitsTyped
  <2>2. QED
    BY <2>1, ElementIs DEF LimitsInv, LogsOrdered
<1>2. QED
  BY <1>1 DEF LimitsInv, LimitsTyped, Limits!TypeOK

\* A part of the services moves by its own steps, or rests.
LEMMA LimitsMove == [Next]_vars => [Limits!Next]_(Limits!vars)
BY DEF Next, Rest, vars, limits, Limits!vars

\* The two logs tell what each client was granted, whenever they are trimmed or evicted
\* (rate_limit.py:61).
THEOREM LogsTellGrants == Spec => []LimitsInv
<1>1. Init => LimitsInv
  BY LimitsStart, ServicesAssumption DEF Init
<1>2. LimitsInv /\ [Next]_vars => LimitsInv'
  BY LimitsMove, LimitsKept, ServicesAssumption
<1>3. QED
  BY <1>1, <1>2, PTL DEF Spec

-----------------------------------------------------------------------------
(* The limit of a provider's client.                                        *)

Stamps == Seq(0..Window)

OwnTyped ==
    /\ stamps \in Stamps /\ answered \in Stamps
    /\ Own!InOrder(stamps) /\ Own!InOrder(answered)
    /\ calling \in [Askers -> [pc : {"idle", "trim", "store", "check", "wait", "call", "record"},
                               attempt : 1..MaxAttempts, list : Stamps]]
    /\ \A t \in Askers : Own!InOrder(calling[t].list)
    /\ calls \in Nat /\ shared \in BOOLEAN

\* One call at a time
OneCalls == \A t, u \in Askers : calling[t].pc # "idle" /\ calling[u].pc # "idle" => t = u

\* What was answered lately is in the log, and in the list that will replace it; who passed the
\* check has room for one answer more.
HasRoom(t) ==
    LET me == calling[t] IN
    /\ me.pc = "store" => Own!Recent(me.list) = answered /\ Len(me.list) <= PerMinute
    /\ me.pc \in {"check", "wait"} => Len(stamps) <= PerMinute
    /\ me.pc \in {"call", "record"} => Len(answered) < PerMinute

OwnInv ==
    /\ OwnTyped
    /\ ~shared => OneCalls /\ Own!LimitKept /\ \A t \in Askers : HasRoom(t)

\* ClientCalls counts as this module does.
LEMMA OwnCounts == \A S : Own!Cardinality(S) = Cardinality(S)
BY DEF Own!Cardinality, Cardinality, Own!IsFiniteSet, IsFiniteSet

\* What is recent is the end of the log.
LEMMA RecentIs ==
    ASSUME Own!ClientAssumption, NEW log \in Stamps, Own!InOrder(log)
    PROVE  \E k \in 0..Len(log) :
              /\ Own!Recent(log) = SubSeq(log, k + 1, Len(log))
              /\ Own!Recent(log) \in Stamps
              /\ Len(Own!Recent(log)) = Len(log) - k
              /\ \A i \in 1..(Len(log) - k) : Own!Recent(log)[i] = log[k + i]
              /\ \A i \in 1..Len(log) : log[i] >= Window <=> i <= k
              /\ Own!InOrder(Own!Recent(log))
<1>1. log \in Seq(Nat) /\ Window \in Nat /\ Len(log) \in Nat
  BY DEF Stamps, Own!ClientAssumption
<1>2. \A i, j \in DOMAIN log : i <= j => log[i] >= log[j]
  BY DEF Own!InOrder
<1>3. PICK k \in 0..Len(log) :
         /\ {i \in DOMAIN log : log[i] >= Window} = 1..k
         /\ Cardinality({i \in DOMAIN log : log[i] >= Window}) = k
  BY <1>1, <1>2, OldestFirst
<1>4. Own!Old(log) = 1..k /\ Own!Cardinality(Own!Old(log)) = k
  BY <1>3, OwnCounts DEF Own!Old
<1>5. Own!Recent(log) = SubSeq(log, k + 1, Len(log))
  BY <1>4 DEF Own!Recent
<1> DEFINE s == SubSeq(log, k + 1, Len(log))
<1>6. s \in Stamps /\ Len(s) = Len(log) - k /\ \A i \in 1..(Len(log) - k) : s[i] = log[k + i]
  <2>1. log \in Seq(0..Window)
    BY DEF Stamps
  <2>2. QED
    BY <2>1, EndIs DEF Stamps
<1>7. \A i \in 1..Len(log) : log[i] >= Window <=> i <= k
  <2>1. \A i \in 1..Len(log) : i \in Own!Old(log) <=> log[i] >= Window
    BY <1>1 DEF Own!Old
  <2>2. QED
    BY <1>4, <2>1
<1> HIDE DEF s
<1>8. Own!InOrder(s)
  <2>1. Len(s) \in Nat /\ DOMAIN s = 1..Len(s)
    BY <1>6 DEF Stamps
  <2> SUFFICES ASSUME NEW i \in 1..(Len(log) - k), NEW j \in 1..(Len(log) - k), i <= j PROVE s[i] >= s[j]
    BY <1>6, <2>1 DEF Own!InOrder
  <2>2. k + i \in 1..Len(log) /\ k + j \in 1..Len(log) /\ k + i <= k + j
    OBVIOUS
  <2>3. log[k + i] >= log[k + j]
    BY <1>1, <1>2, <2>2
  <2>4. QED
    BY <1>6, <2>3
<1>9. QED
  BY <1>5, <1>6, <1>7, <1>8 DEF s

\* Nothing of what is recent is old.
LEMMA RecentOnce ==
    ASSUME Own!ClientAssumption, NEW log \in Stamps, Own!InOrder(log)
    PROVE  Own!Recent(Own!Recent(log)) = Own!Recent(log)
<1>1. PICK k \in 0..Len(log) :
         /\ Own!Recent(log) \in Stamps
         /\ Len(Own!Recent(log)) = Len(log) - k
         /\ \A i \in 1..(Len(log) - k) : Own!Recent(log)[i] = log[k + i]
         /\ \A i \in 1..Len(log) : log[i] >= Window <=> i <= k
         /\ Own!InOrder(Own!Recent(log))
  BY RecentIs
<1> DEFINE s == Own!Recent(log)
<1>2. PICK l \in 0..Len(s) :
         /\ Own!Recent(s) = SubSeq(s, l + 1, Len(s))
         /\ \A i \in 1..Len(s) : s[i] >= Window <=> i <= l
  BY <1>1, RecentIs
<1> HIDE DEF s
<1>3. l = 0
  <2> SUFFICES ASSUME l # 0 PROVE FALSE
    OBVIOUS
  <2>1. 1 \in 1..Len(s) /\ 1 <= l /\ Len(s) = Len(log) - k
    BY <1>1 DEF s
  <2>2. s[1] >= Window /\ s[1] = log[k + 1] /\ k + 1 \in 1..Len(log)
    BY <1>1, <1>2, <2>1 DEF s
  <2>3. QED
    BY <1>1, <2>2
<1>4. SubSeq(s, 1, Len(s)) = s
  BY <1>1, SubSeqFull DEF s, Stamps
<1>5. QED
  BY <1>2, <1>3, <1>4 DEF s

\* What is new is recent.
LEMMA RecentAppend ==
    ASSUME Own!ClientAssumption, NEW log \in Stamps, Own!InOrder(log)
    PROVE  /\ Append(log, 0) \in Stamps /\ Own!InOrder(Append(log, 0))
           /\ Own!Recent(Append(log, 0)) = Append(Own!Recent(log), 0)
<1> DEFINE a == Append(log, 0)
<1>1. /\ a \in Stamps /\ Len(a) = Len(log) + 1 /\ Len(log) \in Nat /\ a[Len(log) + 1] = 0
      /\ \A i \in 1..Len(log) : a[i] = log[i] /\ log[i] \in Nat
      /\ Window \in Nat /\ Window > 0
  BY DEF Stamps, Own!ClientAssumption
<1>2. \A i, j \in 1..Len(log) : i <= j => log[i] >= log[j]
  BY DEF Own!InOrder, Stamps
<1> HIDE DEF a
<1>3. Own!InOrder(a)
  <2>1. DOMAIN a = 1..(Len(log) + 1)
    BY <1>1 DEF Stamps
  <2>2. \A i, j \in 1..(Len(log) + 1) : i <= j => a[i] >= a[j]
    BY <1>1, <1>2
  <2>3. QED
    BY <2>1, <2>2 DEF Own!InOrder
<1>4. PICK k \in 0..Len(log) :
         /\ Own!Recent(log) \in Stamps
         /\ Len(Own!Recent(log)) = Len(log) - k
         /\ \A i \in 1..(Len(log) - k) : Own!Recent(log)[i] = log[k + i]
         /\ \A i \in 1..Len(log) : log[i] >= Window <=> i <= k
  BY RecentIs
<1>5. PICK l \in 0..Len(a) :
         /\ Own!Recent(a) \in Stamps
         /\ Len(Own!Recent(a)) = Len(a) - l
         /\ \A i \in 1..(Len(a) - l) : Own!Recent(a)[i] = a[l + i]
         /\ \A i \in 1..Len(a) : a[i] >= Window <=> i <= l
  BY <1>1, <1>3, RecentIs
<1>6. l = k
  <2>1. l # Len(log) + 1
    BY <1>1, <1>5
  <2>2. l \in 0..Len(log) /\ \A i \in 1..Len(log) : i <= l <=> i <= k
    BY <1>1, <1>4, <1>5, <2>1
  <2>3. l < k => l + 1 \in 1..Len(log)
    BY <2>2
  <2>4. k < l => k + 1 \in 1..Len(log)
    BY <2>2
  <2>5. QED
    BY <2>2, <2>3, <2>4
<1> DEFINE s == Own!Recent(log)
           u == Append(s, 0)
<1>7. /\ u \in Stamps /\ Len(u) = Len(log) - k + 1 /\ u[Len(log) - k + 1] = 0
      /\ \A i \in 1..(Len(log) - k) : u[i] = s[i]
  <2>1. s \in Seq(0..Window) /\ Len(s) = Len(log) - k /\ 0 \in 0..Window
    BY <1>1, <1>4 DEF Stamps
  <2> HIDE DEF s
  <2>2. /\ u \in Seq(0..Window) /\ Len(u) = Len(s) + 1 /\ u[Len(s) + 1] = 0
        /\ \A i \in 1..Len(s) : u[i] = s[i]
    BY <2>1, AppendProperties
  <2>3. QED
    BY <2>1, <2>2 DEF Stamps
<1> HIDE DEF s, u
<1>8. \A i \in 1..Len(u) : Own!Recent(a)[i] = u[i]
  <2> SUFFICES ASSUME NEW i \in 1..Len(u) PROVE Own!Recent(a)[i] = u[i]
    OBVIOUS
  <2>1. Own!Recent(a)[i] = a[k + i] /\ k + i \in 1..(Len(log) + 1)
    BY <1>1, <1>5, <1>6, <1>7
  <2>2. CASE i = Len(log) - k + 1
    BY <1>1, <1>7, <2>1, <2>2
  <2>3. CASE i # Len(log) - k + 1
    <3>1. i \in 1..(Len(log) - k) /\ k + i \in 1..Len(log)
      <4>1. Len(log) \in Nat /\ Len(u) = Len(log) - k + 1
        BY <1>1, <1>7
      <4>2. QED
        BY <2>3, <4>1
    <3>2. QED
      BY <1>1, <1>4, <1>7, <2>1, <3>1 DEF s
  <2>4. QED
    BY <2>2, <2>3
<1>9. Own!Recent(a) = u
  <2>1. Len(Own!Recent(a)) = Len(u)
    BY <1>1, <1>5, <1>6, <1>7
  <2>2. u \in Seq(0..Window) /\ Own!Recent(a) \in Seq(0..Window)
    BY <1>5, <1>7 DEF Stamps
  <2>3. QED
    BY <1>8, <2>1, <2>2, SeqEqual
<1>10. QED
  BY <1>1, <1>3, <1>9 DEF a, u, s

\* A log stays in order as time passes, ...
LEMMA AgedIs ==
    ASSUME Own!ClientAssumption, NEW log \in Stamps, Own!InOrder(log)
    PROVE  /\ Own!Aged(log) \in Stamps /\ Own!InOrder(Own!Aged(log)) /\ Len(Own!Aged(log)) = Len(log)
           /\ \A i \in 1..Len(log) : Own!Aged(log)[i] = Own!Older(log[i])
<1> DEFINE a == Own!Aged(log)
<1>1. Len(log) \in Nat /\ DOMAIN log = 1..Len(log) /\ Window \in Nat
      /\ \A i \in 1..Len(log) : log[i] \in 0..Window /\ Own!Older(log[i]) \in 0..Window
  BY DEF Stamps, Own!ClientAssumption, Own!Older
<1>2. a = [i \in 1..Len(log) |-> Own!Older(log[i])]
  BY <1>1 DEF Own!Aged
<1>3. a \in [1..Len(log) -> 0..Window]
  BY <1>1, <1>2
<1>4. a \in Stamps /\ Len(a) = Len(log) /\ DOMAIN a = 1..Len(log)
      /\ \A i \in 1..Len(log) : a[i] = Own!Older(log[i])
  BY <1>1, <1>2, <1>3 DEF Stamps
<1> HIDE DEF a
<1>5. Own!InOrder(a)
  <2> SUFFICES ASSUME NEW i \in 1..Len(log), NEW j \in 1..Len(log), i <= j PROVE a[i] >= a[j]
    BY <1>4 DEF Own!InOrder
  <2>1. log[i] >= log[j]
    BY <1>1 DEF Own!InOrder
  <2>2. QED
    BY <1>1, <1>4, <2>1 DEF Own!Older
<1>6. QED
  BY <1>4, <1>5 DEF a

\* ... and what is recent then was recent before.
LEMMA RecentAges ==
    ASSUME Own!ClientAssumption, NEW log \in Stamps, Own!InOrder(log)
    PROVE  Own!Recent(Own!Aged(log)) = Own!Recent(Own!Aged(Own!Recent(log)))
<1> DEFINE n == Len(log)
           s == Own!Recent(log)
           a == Own!Aged(log)
           b == Own!Aged(s)
<1>1. PICK k \in 0..n :
         /\ s \in Stamps /\ Own!InOrder(s) /\ Len(s) = n - k
         /\ \A i \in 1..(n - k) : s[i] = log[k + i]
         /\ \A i \in 1..n : log[i] >= Window <=> i <= k
  BY RecentIs
<1>2. /\ a \in Stamps /\ Own!InOrder(a) /\ Len(a) = n
      /\ \A i \in 1..n : a[i] = Own!Older(log[i])
  BY AgedIs
<1>3. /\ b \in Stamps /\ Own!InOrder(b) /\ Len(b) = n - k
      /\ \A i \in 1..(n - k) : b[i] = Own!Older(s[i])
  BY <1>1, AgedIs
<1>4. PICK l \in 0..n :
         /\ Own!Recent(a) \in Stamps /\ Len(Own!Recent(a)) = n - l
         /\ \A i \in 1..(n - l) : Own!Recent(a)[i] = a[l + i]
         /\ \A i \in 1..n : a[i] >= Window <=> i <= l
  BY <1>2, RecentIs
<1>5. PICK m \in 0..(n - k) :
         /\ Own!Recent(b) \in Stamps /\ Len(Own!Recent(b)) = n - k - m
         /\ \A i \in 1..(n - k - m) : Own!Recent(b)[i] = b[m + i]
         /\ \A i \in 1..(n - k) : b[i] >= Window <=> i <= m
  BY <1>3, RecentIs
<1>6. n \in Nat /\ Window \in Nat /\ \A i \in 1..n : log[i] \in 0..Window
  BY DEF Stamps, Own!ClientAssumption
<1> HIDE DEF n, s, a, b
<1>7. \A i \in 1..(n - k) : k + i \in 1..n /\ b[i] = a[k + i]
  BY <1>1, <1>2, <1>3, <1>6
<1>8. k <= l
  <2> SUFFICES ASSUME k # 0 PROVE k <= l
    BY <1>6
  <2>1. k \in 1..n /\ log[k] = Window
    <3>1. k \in 1..n
      BY <1>6
    <3>2. QED
      BY <1>1, <1>6, <3>1
  <2>2. a[k] >= Window
    BY <1>2, <1>6, <2>1 DEF Own!Older
  <2>3. QED
    BY <1>4, <2>1, <2>2
<1>9. m = l - k
  <2>1. \A i \in 1..(n - k) : i <= m <=> k + i <= l
    BY <1>4, <1>5, <1>7
  <2>2. m < l - k => m + 1 \in 1..(n - k)
    BY <1>6, <1>8
  <2>3. l - k < m => l - k + 1 \in 1..(n - k)
    BY <1>6, <1>8
  <2>4. QED
    BY <1>6, <1>8, <2>1, <2>2, <2>3
<1>10. Len(Own!Recent(a)) = Len(Own!Recent(b))
  BY <1>4, <1>5, <1>6, <1>9
<1>11. \A i \in 1..Len(Own!Recent(a)) : Own!Recent(a)[i] = Own!Recent(b)[i]
  <2> SUFFICES ASSUME NEW i \in 1..(n - l) PROVE Own!Recent(a)[i] = Own!Recent(b)[i]
    BY <1>4
  <2>1. Own!Recent(a)[i] = a[l + i] /\ Own!Recent(b)[i] = b[m + i]
    BY <1>4, <1>5, <1>6, <1>8, <1>9
  <2>2. m + i \in 1..(n - k) /\ k + (m + i) = l + i
    BY <1>6, <1>8, <1>9
  <2>3. QED
    BY <1>7, <2>1, <2>2
<1>12. Own!Recent(a) = Own!Recent(b)
  <2>1. Own!Recent(a) \in Seq(0..Window) /\ Own!Recent(b) \in Seq(0..Window)
    BY <1>4, <1>5 DEF Stamps
  <2>2. QED
    BY <1>10, <1>11, <2>1, SeqEqual
<1>13. QED
  BY <1>12 DEF a, b, s

\* At first nobody calls, and nothing was answered.
LEMMA OwnStart ==
    ASSUME Own!ClientAssumption, Own!Init
    PROVE  OwnInv
<1> USE DEF Own!Init, Own!ClientAssumption
<1>1. <<>> \in Stamps /\ Len(<<>>) = 0 /\ Own!InOrder(<<>>)
  BY DEF Stamps, Own!InOrder
<1>2. OwnTyped
  <2>1. \A t \in Askers : calling[t] = [pc |-> "idle", attempt |-> 1, list |-> <<>>]
    BY DEF Own!Resting
  <2>2. calling \in [Askers -> [pc : {"idle", "trim", "store", "check", "wait", "call", "record"},
                                attempt : 1..MaxAttempts, list : Stamps]]
    BY <1>1 DEF Own!Resting
  <2>3. \A t \in Askers : Own!InOrder(calling[t].list)
    BY <1>1, <2>1
  <2>4. /\ stamps \in Stamps /\ answered \in Stamps
        /\ Own!InOrder(stamps) /\ Own!InOrder(answered)
    BY <1>1
  <2>5. calls \in Nat /\ shared \in BOOLEAN
    OBVIOUS
  <2>6. QED
    BY <2>2, <2>3, <2>4, <2>5, Zenon DEF OwnTyped
<1>3. Own!Recent(<<>>) = <<>>
  <2>1. Own!Recent(<<>>) \in Stamps /\ Len(Own!Recent(<<>>)) = 0
    BY <1>1, RecentIs
  <2>2. QED
    BY <2>1, EmptySeq DEF Stamps
<1>4. Own!LimitKept
  BY <1>1, <1>3 DEF Own!LimitKept
<1>5. OneCalls /\ \A t \in Askers : HasRoom(t)
  BY DEF OneCalls, HasRoom, Own!Resting
<1>6. QED
  BY <1>2, <1>4, <1>5 DEF OwnInv

OwnStep(t) ==
    \/ Own!Begin(t) \/ Own!Trim(t) \/ Own!Store(t) \/ Own!Check(t) \/ Own!Wait(t) \/ Own!Ask(t)
    \/ Own!Record(t)

\* Logs and lists stay lists of ages in order, whoever takes a step, ...
LEMMA StepTyped ==
    ASSUME Own!ClientAssumption, OwnTyped, NEW t \in Askers, OwnStep(t)
    PROVE  OwnTyped' /\ \A u \in Askers \ {t} : calling'[u] = calling[u]
<1> USE DEF Own!ClientAssumption
<1> DEFINE Labels == {"idle", "trim", "store", "check", "wait", "call", "record"}
           Calls == [pc : Labels, attempt : 1..MaxAttempts, list : Stamps]
<1>1. /\ stamps \in Stamps /\ answered \in Stamps
      /\ Own!InOrder(stamps) /\ Own!InOrder(answered)
      /\ calling \in [Askers -> Calls] /\ \A u \in Askers : Own!InOrder(calling[u].list)
      /\ calls \in Nat /\ shared \in BOOLEAN
  BY DEF OwnTyped
<1>2. <<>> \in Stamps /\ Own!InOrder(<<>>) /\ 1 \in 1..MaxAttempts
  BY DEF Stamps, Own!InOrder
<1>3. calls' \in Nat /\ shared' \in BOOLEAN
  <2>1. CASE Own!Begin(t)
    BY <1>1, <2>1 DEF Own!Begin
  <2>2. CASE ~Own!Begin(t)
    <3>1. calls' = calls /\ shared' = shared
      BY <2>2 DEF OwnStep, Own!Trim, Own!Store, Own!Check, Own!Wait, Own!Ask, Own!Record
    <3>2. QED
      BY <1>1, <3>1
  <2>3. QED
    BY <2>1, <2>2
<1>4. /\ stamps' \in Stamps /\ answered' \in Stamps
      /\ Own!InOrder(stamps') /\ Own!InOrder(answered')
  <2>1. CASE Own!Record(t)
    <3>1. stamps' = Append(stamps, 0) /\ answered' = Append(answered, 0)
      BY <2>1 DEF Own!Record
    <3>2. QED
      BY <1>1, <3>1, RecentAppend
  <2>2. CASE Own!Store(t)
    BY <1>1, <2>2 DEF Own!Store
  <2>3. CASE ~Own!Record(t) /\ ~Own!Store(t)
    BY <1>1, <2>3 DEF OwnStep, Own!Begin, Own!Trim, Own!Check, Own!Wait, Own!Ask
  <2>4. QED
    BY <2>1, <2>2, <2>3
<1>5. /\ calling' \in [Askers -> Calls] /\ Own!InOrder(calling'[t].list)
      /\ \A u \in Askers \ {t} : calling'[u] = calling[u]
  <2>1. calling[t] \in Calls /\ Own!InOrder(calling[t].list) /\ calling[t].list \in Stamps
    BY <1>1
  <2>2. ASSUME NEW me \in Calls, Own!InOrder(me.list), calling' = [calling EXCEPT ![t] = me]
        PROVE  /\ calling' \in [Askers -> Calls] /\ Own!InOrder(calling'[t].list)
               /\ \A u \in Askers \ {t} : calling'[u] = calling[u]
    <3>1. calling'[t] = me
      BY <1>1, <2>2
    <3>2. QED
      BY <1>1, <2>2, <3>1
  <2>3. CASE Own!Begin(t)
    <3> DEFINE me == [Own!Resting EXCEPT !.pc = "trim"]
    <3>1. me \in Calls /\ me.list = <<>>
      BY <1>2 DEF Own!Resting
    <3>2. calling' = [calling EXCEPT ![t] = me]
      BY <2>3 DEF Own!Begin
    <3> HIDE DEF me
    <3>3. QED
      BY <1>2, <2>2, <3>1, <3>2
  <2>4. CASE Own!Trim(t)
    <3> DEFINE me == [calling[t] EXCEPT !.pc = "store", !.list = Own!Recent(stamps)]
    <3>1. Own!Recent(stamps) \in Stamps /\ Own!InOrder(Own!Recent(stamps))
      BY <1>1, RecentIs
    <3>2. me \in Calls /\ me.list = Own!Recent(stamps)
      BY <2>1, <3>1
    <3>3. calling' = [calling EXCEPT ![t] = me]
      BY <1>1, <2>4 DEF Own!Trim
    <3> HIDE DEF me
    <3>4. QED
      BY <2>2, <3>1, <3>2, <3>3
  <2>5. CASE Own!Store(t)
    <3> DEFINE me == [calling[t] EXCEPT !.pc = "check", !.list = <<>>]
    <3>1. me \in Calls /\ me.list = <<>>
      BY <1>2, <2>1
    <3>2. calling' = [calling EXCEPT ![t] = me]
      BY <1>1, <2>5 DEF Own!Store
    <3> HIDE DEF me
    <3>3. QED
      BY <1>2, <2>2, <3>1, <3>2
  <2>6. ASSUME NEW label \in Labels, Own!Goto(t, label)
        PROVE  /\ calling' \in [Askers -> Calls] /\ Own!InOrder(calling'[t].list)
               /\ \A u \in Askers \ {t} : calling'[u] = calling[u]
    <3> DEFINE me == [calling[t] EXCEPT !.pc = label]
    <3>1. me \in Calls /\ me.list = calling[t].list
      BY <2>1
    <3>2. calling' = [calling EXCEPT ![t] = me]
      BY <1>1, <2>6 DEF Own!Goto
    <3> HIDE DEF me
    <3>3. QED
      BY <2>1, <2>2, <3>1, <3>2
  <2>7. CASE Own!Check(t) \/ Own!Wait(t)
    <3>1. Own!Goto(t, "call") \/ Own!Goto(t, "wait") \/ Own!Goto(t, "trim")
      BY <2>7 DEF Own!Check, Own!Wait
    <3>2. {"call", "wait", "trim"} \subseteq Labels
      OBVIOUS
    <3> HIDE DEF Labels
    <3>3. QED
      BY <2>6, <3>1, <3>2
  <2>8. ASSUME calling' = [calling EXCEPT ![t] = Own!Resting]
        PROVE  /\ calling' \in [Askers -> Calls] /\ Own!InOrder(calling'[t].list)
               /\ \A u \in Askers \ {t} : calling'[u] = calling[u]
    <3>1. Own!Resting \in Calls /\ Own!Resting.list = <<>>
      BY <1>2 DEF Own!Resting
    <3>2. QED
      BY <1>2, <2>2, <2>8, <3>1
  <2>9. CASE Own!Ask(t)
    <3>1. CASE Own!Goto(t, "record")
      <4>1. "record" \in Labels
        OBVIOUS
      <4>2. QED
        BY <2>6, <3>1, <4>1
    <3>2. CASE calling[t].attempt < MaxAttempts
               /\ calling' = [calling EXCEPT ![t] = [calling[t] EXCEPT !.attempt = @ + 1]]
      <4> DEFINE me == [calling[t] EXCEPT !.attempt = @ + 1]
      <4>1. me \in Calls /\ me.list = calling[t].list
        BY <2>1, <3>2
      <4> HIDE DEF me
      <4>2. QED
        BY <2>1, <2>2, <3>2, <4>1 DEF me
    <3>3. \/ Own!Goto(t, "record")
          \/ calling' = [calling EXCEPT ![t] = Own!Resting]
          \/ calling[t].attempt < MaxAttempts
             /\ calling' = [calling EXCEPT ![t] = [calling[t] EXCEPT !.attempt = @ + 1]]
      BY <2>9 DEF Own!Ask
    <3>4. QED
      BY <2>8, <3>1, <3>2, <3>3
  <2>10. CASE Own!Record(t)
    BY <2>8, <2>10 DEF Own!Record
  <2>11. QED
    BY <2>3, <2>4, <2>5, <2>7, <2>9, <2>10 DEF OwnStep
<1>6. \A u \in Askers : Own!InOrder(calling'[u].list)
  BY <1>1, <1>5
<1>7. QED
  BY <1>3, <1>4, <1>5, <1>6 DEF OwnTyped

\* ... and who calls alone finds room for what it is answered.
LEMMA StepHasRoom ==
    ASSUME Own!ClientAssumption, OwnInv, NEW t \in Askers, OwnStep(t), ~shared'
    PROVE  OneCalls' /\ Own!LimitKept' /\ \A u \in Askers : HasRoom(u)'
<1> USE DEF Own!ClientAssumption
<1>1. ~shared
  <2>1. shared' = shared \/ (shared' <=> (shared \/ \E u \in Askers \ {t} : calling[u].pc # "idle"))
    BY DEF OwnStep, Own!Begin, Own!Trim, Own!Store, Own!Check, Own!Wait, Own!Ask, Own!Record
  <2>2. QED
    BY <2>1, Zenon
<1>2. OwnTyped /\ OneCalls /\ HasRoom(t)
  BY <1>1 DEF OwnInv
<1>3. Len(answered) <= PerMinute /\ Own!Recent(stamps) = answered
  BY <1>1 DEF OwnInv, Own!LimitKept
<1>4. \A u \in Askers \ {t} : calling[u].pc = "idle"
  <2>1. CASE Own!Begin(t)
    BY <2>1, ~shared' DEF Own!Begin
  <2>2. CASE ~Own!Begin(t)
    <3>1. calling[t].pc # "idle"
      BY <2>2 DEF OwnStep, Own!Trim, Own!Store, Own!Check, Own!Wait, Own!Ask, Own!Record
    <3>2. QED
      BY <1>2, <3>1 DEF OneCalls
  <2>3. QED
    BY <2>1, <2>2
<1>5. \A u \in Askers \ {t} : calling'[u].pc = "idle"
  BY <1>2, <1>4, StepTyped
<1>6. OneCalls' /\ \A u \in Askers \ {t} : HasRoom(u)'
  BY <1>5 DEF OneCalls, HasRoom
<1>7. /\ calling[t] \in [pc : {"idle", "trim", "store", "check", "wait", "call", "record"},
                         attempt : 1..MaxAttempts, list : Stamps]
      /\ t \in DOMAIN calling
      /\ stamps \in Stamps /\ answered \in Stamps /\ Own!InOrder(stamps)
      /\ Len(stamps) \in Nat /\ Len(answered) \in Nat
  BY <1>2 DEF OwnTyped, Stamps
<1>8. PICK k \in 0..Len(stamps) :
         /\ Len(answered) = Len(stamps) - k
         /\ \A i \in 1..Len(stamps) : stamps[i] >= Window <=> i <= k
  BY <1>3, <1>7, RecentIs
<1>9. CASE Own!Begin(t)
  <2>1. calling'[t].pc = "trim" /\ UNCHANGED <<stamps, answered>>
    BY <1>7, <1>9 DEF Own!Begin, Own!Resting
  <2>2. QED
    BY <1>3, <1>6, <2>1 DEF HasRoom, Own!LimitKept
<1>10. CASE Own!Trim(t)
  <2>1. calling'[t].pc = "store" /\ calling'[t].list = answered /\ UNCHANGED <<stamps, answered>>
    BY <1>3, <1>7, <1>10 DEF Own!Trim
  <2>2. Own!Recent(answered) = answered
    BY <1>3, <1>7, RecentOnce
  <2>3. QED
    BY <1>3, <1>6, <2>1, <2>2 DEF HasRoom, Own!LimitKept
<1>11. CASE Own!Store(t)
  <2>1. /\ calling[t].pc = "store" /\ calling'[t].pc = "check"
        /\ stamps' = calling[t].list /\ answered' = answered
    BY <1>7, <1>11 DEF Own!Store
  <2>2. Own!Recent(calling[t].list) = answered /\ Len(calling[t].list) <= PerMinute
    BY <1>2, <2>1 DEF HasRoom
  <2>3. QED
    BY <1>3, <1>6, <2>1, <2>2 DEF HasRoom, Own!LimitKept
<1>12. CASE Own!Check(t)
  <2>1. /\ calling[t].pc = "check" /\ UNCHANGED <<stamps, answered>>
        /\ calling'[t].pc = "wait" \/ (calling'[t].pc = "call" /\ Len(stamps) < PerMinute)
    BY <1>7, <1>12 DEF Own!Check, Own!Goto
  <2>2. Len(stamps) <= PerMinute
    BY <1>2, <2>1 DEF HasRoom
  <2>3. QED
    BY <1>3, <1>6, <1>7, <1>8, <2>1, <2>2 DEF HasRoom, Own!LimitKept
<1>13. CASE Own!Wait(t)
  <2>1. /\ calling[t].pc = "wait" /\ UNCHANGED <<stamps, answered>>
        /\ calling'[t].pc = IF stamps = <<>> \/ Head(stamps) >= Window THEN "call" ELSE "trim"
    BY <1>7, <1>13 DEF Own!Wait, Own!Goto
  <2>2. Len(stamps) <= PerMinute
    BY <1>2, <2>1 DEF HasRoom
  <2>3. stamps = <<>> \/ Head(stamps) >= Window => Len(answered) < PerMinute
    <3>1. CASE Len(stamps) = 0
      BY <1>7, <1>8, <3>1
    <3>2. CASE Len(stamps) > 0 /\ Head(stamps) >= Window
      <4>1. 1 \in 1..Len(stamps) /\ stamps[1] >= Window
        BY <1>7, <3>2 DEF Stamps
      <4>2. QED
        BY <1>7, <1>8, <2>2, <4>1
    <3>3. stamps # <<>> => Len(stamps) > 0
      BY <1>7 DEF Stamps
    <3>4. QED
      BY <1>7, <3>1, <3>2, <3>3
  <2>4. QED
    BY <1>3, <1>6, <2>1, <2>3 DEF HasRoom, Own!LimitKept
<1>14. CASE Own!Ask(t)
  <2>1. calling[t].pc = "call" /\ UNCHANGED <<stamps, answered>>
    BY <1>14 DEF Own!Ask
  <2>2. calling'[t].pc \in {"record", "call", "idle"}
    <3>1. CASE Own!Goto(t, "record")
      BY <1>7, <3>1 DEF Own!Goto
    <3>2. CASE \/ calling' = [calling EXCEPT ![t].attempt = @ + 1]
               \/ calling' = [calling EXCEPT ![t] = Own!Resting]
      BY <1>7, <2>1, <3>2 DEF Own!Resting
    <3>3. QED
      BY <1>14, <3>1, <3>2 DEF Own!Ask
  <2>3. Len(answered) < PerMinute
    BY <1>2, <2>1 DEF HasRoom
  <2>4. QED
    BY <1>3, <1>6, <2>1, <2>2, <2>3 DEF HasRoom, Own!LimitKept
<1>15. CASE Own!Record(t)
  <2>1. /\ calling[t].pc = "record" /\ calling'[t].pc = "idle"
        /\ stamps' = Append(stamps, 0) /\ answered' = Append(answered, 0)
    BY <1>7, <1>15 DEF Own!Record, Own!Resting
  <2>2. Len(answered) < PerMinute /\ Len(answered') = Len(answered) + 1
    BY <1>2, <1>7, <2>1 DEF HasRoom, Stamps
  <2>3. Own!Recent(stamps') = answered'
    BY <1>3, <1>7, <2>1, RecentAppend
  <2>4. QED
    BY <1>6, <1>7, <2>1, <2>2, <2>3 DEF HasRoom, Own!LimitKept
<1>16. QED
  BY <1>9, <1>10, <1>11, <1>12, <1>13, <1>14, <1>15 DEF OwnStep

\* Time makes all lists older, and leaves what was answered lately.
LEMMA OwnTick ==
    ASSUME Own!ClientAssumption, OwnInv, Own!Tick
    PROVE  OwnInv'
<1> USE DEF Own!ClientAssumption
<1> DEFINE Calls == [pc : {"idle", "trim", "store", "check", "wait", "call", "record"},
                     attempt : 1..MaxAttempts, list : Stamps]
<1>1. /\ stamps \in Stamps /\ answered \in Stamps
      /\ Own!InOrder(stamps) /\ Own!InOrder(answered)
      /\ calling \in [Askers -> Calls] /\ \A u \in Askers : Own!InOrder(calling[u].list)
      /\ calls \in Nat /\ shared \in BOOLEAN
  BY DEF OwnInv, OwnTyped
<1>2. /\ stamps' = Own!Aged(stamps) /\ answered' = Own!Recent(Own!Aged(answered))
      /\ calls' = calls /\ shared' = shared
      /\ \A u \in Askers : calling'[u] = [calling[u] EXCEPT !.list = Own!Aged(@)]
      /\ calling' = [u \in Askers |-> calling'[u]]
  BY DEF Own!Tick
<1>3. \A u \in Askers :
         /\ calling'[u] = [pc |-> calling[u].pc, attempt |-> calling[u].attempt,
                           list |-> Own!Aged(calling[u].list)]
         /\ calling'[u].list \in Stamps /\ Own!InOrder(calling'[u].list)
         /\ Len(calling'[u].list) = Len(calling[u].list)
  <2> SUFFICES ASSUME NEW u \in Askers
               PROVE  /\ calling'[u] = [pc |-> calling[u].pc, attempt |-> calling[u].attempt,
                                        list |-> Own!Aged(calling[u].list)]
                      /\ calling'[u].list \in Stamps /\ Own!InOrder(calling'[u].list)
                      /\ Len(calling'[u].list) = Len(calling[u].list)
    OBVIOUS
  <2>1. calling[u] \in Calls /\ Own!InOrder(calling[u].list)
    BY <1>1
  <2>2. calling'[u] = [pc |-> calling[u].pc, attempt |-> calling[u].attempt,
                       list |-> Own!Aged(calling[u].list)]
    BY <1>2, <2>1
  <2>3. /\ Own!Aged(calling[u].list) \in Stamps /\ Own!InOrder(Own!Aged(calling[u].list))
        /\ Len(Own!Aged(calling[u].list)) = Len(calling[u].list)
    BY <2>1, AgedIs
  <2>4. QED
    BY <2>2, <2>3
<1>4. OwnTyped'
  <2>1. stamps' \in Stamps /\ Own!InOrder(stamps')
    BY <1>1, <1>2, AgedIs
  <2>2. answered' \in Stamps /\ Own!InOrder(answered')
    <3>1. Own!Aged(answered) \in Stamps /\ Own!InOrder(Own!Aged(answered))
      BY <1>1, AgedIs
    <3>2. QED
      BY <1>2, <3>1, RecentIs
  <2>3. \A u \in Askers : calling'[u] \in Calls
    <3> SUFFICES ASSUME NEW u \in Askers PROVE calling'[u] \in Calls
      OBVIOUS
    <3>1. calling[u] \in Calls
      BY <1>1
    <3> DEFINE list == Own!Aged(calling[u].list)
    <3>2. list \in Stamps
          /\ calling'[u] = [pc |-> calling[u].pc, attempt |-> calling[u].attempt, list |-> list]
      BY <1>3
    <3> HIDE DEF list
    <3>3. QED
      BY <3>1, <3>2
  <2>4. calling' \in [Askers -> Calls]
    BY <1>2, <2>3, Zenon
  <2>5. QED
    BY <1>1, <1>2, <1>3, <2>1, <2>2, <2>4 DEF OwnTyped
<1>5. ASSUME ~shared'
      PROVE  OneCalls' /\ Own!LimitKept' /\ \A u \in Askers : HasRoom(u)'
  <2>1. /\ OneCalls /\ \A u \in Askers : HasRoom(u)
        /\ Len(answered) <= PerMinute /\ Own!Recent(stamps) = answered
    BY <1>2, <1>5 DEF OwnInv, Own!LimitKept
  <2>2. \A u \in Askers : calling'[u].pc = calling[u].pc
    <3> SUFFICES ASSUME NEW u \in Askers PROVE calling'[u].pc = calling[u].pc
      OBVIOUS
    <3> DEFINE list == Own!Aged(calling[u].list)
    <3>1. calling'[u] = [pc |-> calling[u].pc, attempt |-> calling[u].attempt, list |-> list]
      BY <1>3
    <3> HIDE DEF list
    <3>2. QED
      BY <3>1
  <2>3. OneCalls'
    BY <2>1, <2>2 DEF OneCalls
  <2>4. Len(answered') <= Len(answered) /\ Len(answered') \in Nat /\ Len(answered) \in Nat
        /\ Len(stamps') = Len(stamps)
    <3>1. Own!Aged(answered) \in Stamps /\ Own!InOrder(Own!Aged(answered))
          /\ Len(Own!Aged(answered)) = Len(answered) /\ Len(Own!Aged(stamps)) = Len(stamps)
      BY <1>1, AgedIs
    <3>2. \E k \in 0..Len(answered) : Len(answered') = Len(answered) - k
      BY <1>2, <3>1, RecentIs
    <3>3. Len(answered) \in Nat
      BY <1>1 DEF Stamps
    <3>4. QED
      BY <1>2, <3>1, <3>2, <3>3
  <2>5. Own!Recent(stamps') = answered'
    BY <1>1, <1>2, <2>1, RecentAges
  <2>6. Own!LimitKept'
    BY <2>1, <2>4, <2>5 DEF Own!LimitKept
  <2>7. ASSUME NEW u \in Askers PROVE HasRoom(u)'
    <3>1. HasRoom(u)
      BY <2>1
    <3>2. calling[u].pc = "store" => Own!Recent(calling'[u].list) = answered'
      <4>1. CASE calling[u].pc = "store"
        <5>1. Own!Recent(calling[u].list) = answered
          BY <3>1, <4>1 DEF HasRoom
        <5>2. calling[u].list \in Stamps /\ Own!InOrder(calling[u].list)
          BY <1>1
        <5>3. Own!Recent(Own!Aged(calling[u].list)) = Own!Recent(Own!Aged(answered))
          BY <5>1, <5>2, RecentAges
        <5>4. QED
          BY <1>2, <1>3, <5>3
      <4>2. QED
        BY <4>1
    <3>3. Len(calling'[u].list) = Len(calling[u].list)
      BY <1>3
    <3>4. QED
      BY <2>2, <2>4, <3>1, <3>2, <3>3 DEF HasRoom
  <2>8. QED
    BY <2>3, <2>6, <2>7
<1>6. QED
  BY <1>4, <1>5 DEF OwnInv

\* A client's log and the calls of its threads keep the limit while no two overlap.
LEMMA OwnKept ==
    ASSUME Own!ClientAssumption, OwnInv, [Own!Next]_(Own!vars)
    PROVE  OwnInv'
<1>1. CASE Own!Tick
  BY <1>1, OwnTick
<1>2. ASSUME NEW t \in Askers, OwnStep(t) PROVE OwnInv'
  <2>1. OwnTyped
    BY DEF OwnInv
  <2>2. OwnTyped'
    BY <1>2, <2>1, StepTyped
  <2>3. ~shared' => OneCalls' /\ Own!LimitKept' /\ \A u \in Askers : HasRoom(u)'
    BY <1>2, StepHasRoom
  <2>4. QED
    BY <2>2, <2>3 DEF OwnInv
<1>3. CASE UNCHANGED Own!vars
  <2>1. /\ stamps' = stamps /\ calling' = calling /\ answered' = answered
        /\ calls' = calls /\ shared' = shared
    BY <1>3 DEF Own!vars
  <2>2. QED
    BY <2>1 DEF OwnInv, OwnTyped, OneCalls, HasRoom, Own!LimitKept
<1>4. QED
  BY <1>1, <1>2, <1>3 DEF Own!Next, OwnStep

\* The types of what a client keeps.
LEMMA OwnIsTyped ==
    ASSUME Own!ClientAssumption, OwnInv
    PROVE  Own!TypeOK
<1>1. stamps \in Seq(0..Window) /\ Own!InOrder(stamps)
  BY DEF OwnInv, OwnTyped, Stamps
<1>2. \A i \in DOMAIN stamps : stamps[i] \in 0..Window
  <2>1. DOMAIN stamps = 1..Len(stamps)
    BY <1>1
  <2>2. QED
    BY <1>1, <2>1, ElementOfSeq, Zenon
<1>3. \A t \in Askers : calling[t].attempt \in 1..MaxAttempts
  BY DEF OwnInv, OwnTyped
<1>4. QED
  BY <1>1, <1>2, <1>3 DEF Own!TypeOK

\* A part of the services moves by its own steps, or rests.
LEMMA OwnMoves == [Next]_vars => [Own!Next]_(Own!vars)
BY DEF Next, Rest, vars, own, Own!vars

\* A thread that passed the check of its client has room for one answer, while no two
\* calls overlap (base.py:177).
THEOREM CallsHaveRoom == Spec => []OwnInv
<1>1. Init => OwnInv
  BY OwnStart, ServicesAssumption DEF Init
<1>2. OwnInv /\ [Next]_vars => OwnInv'
  BY OwnMoves, OwnKept, ServicesAssumption
<1>3. QED
  BY <1>1, <1>2, PTL DEF Spec

-----------------------------------------------------------------------------
(* The services together.                                                   *)

\* Research spends no more than one admission beyond a limit and counts its tasks once,
\* the verdict on the empire's health is about what was seen, a retried task is tried by
\* models as strong at least, and the agents report what they did, whatever the numbers
\* of threads, limits, models, checks, stages and gates.
THEOREM AccountsAreRight == Spec => []AccountsRight
<1>1. /\ Money!OverspendBounded /\ Tasks!CountedOnce /\ Hea!HealthRight /\ Ret!RetriesRight
         /\ Age!AgentsRight => AccountsRight
  BY DEF AccountsRight
<1>2. QED
  BY <1>1, OverspendIsBounded, TasksCountedOnce, HealthIsRight, RetriesAreRight, AgentsAreRight, PTL

\* No web client gets more than an endpoint's limits in any minute or hour, and no
\* provider more than its client's limit by calls that do not overlap, whatever the
\* limits and the numbers of clients, endpoints and threads.
THEOREM LimitsAreKept == Spec => []WithinLimits
<1>1. LimitsInv => Limits!WithinLimits
  BY DEF LimitsInv
<1>2. OwnInv => Own!LimitKept
  BY DEF OwnInv, Own!LimitKept
<1>3. Limits!WithinLimits /\ Own!LimitKept => WithinLimits
  BY DEF WithinLimits
<1>4. QED
  BY <1>1, <1>2, <1>3, LogsTellGrants, CallsHaveRoom, PTL

\* What the invariants of the parts say of their variables is what their types are.
LEMMA McpIsTyped == ASSUME McpInv PROVE Mcps!TypeOK
<1>1. DOMAIN clients = 1..Len(clients) /\ clients \in Seq(ServerClients)
  BY LenProperties DEF McpInv, CallersTyped
<1>2. \A g \in DOMAIN clients :
         /\ clients[g].server \in {"up", "down"}
         /\ clients[g].events \subseteq 1..number /\ clients[g].responses \subseteq 1..number
  <2>1. \A g \in DOMAIN clients : clients[g] \in ServerClients
    BY <1>1, ElementOfSeq, Zenon
  <2>2. QED
    BY <1>1, <2>1 DEF McpInv, Numbered, ServerClients
<1>3. \A c \in Callers : at[c].client \in 0..Len(clients) /\ at[c].id \in 0..number
  <2> SUFFICES ASSUME NEW c \in Callers
               PROVE  at[c].client \in 0..Len(clients) /\ at[c].id \in 0..number
    OBVIOUS
  <2>1. at[c].pc # "idle" => at[c].client \in 1..Len(clients)
    BY DEF McpInv, CallersTyped
  <2>2. at[c].pc = "idle" => at[c].client = 0
    BY DEF McpInv, CallersTyped
  <2>3. Len(clients) \in Nat
    BY <1>1
  <2>4. QED
    BY <2>1, <2>2, <2>3 DEF McpInv, Numbered
<1>4. /\ current \in 0..Len(clients) /\ mapped \in BOOLEAN
      /\ asked \subseteq (DOMAIN clients) \X (1..number) /\ gaveUp \subseteq 1..number
  BY <1>1 DEF McpInv, CallersTyped, Numbered
<1>5. QED
  BY <1>2, <1>3, <1>4 DEF Mcps!TypeOK

\* The same of the money, ...
LEMMA MoneyIsTyped == ASSUME MoneyInv PROVE Money!TypeOK
<1>1. today \in Nat /\ before \in Nat /\ days \in 0..1 /\ doing \in [Money!Threads -> Doings]
  BY DEF MoneyInv, Spending
<1>2. \A t \in Money!Threads :
         /\ doing[t].left \in 0..(Gaps + Scrapes + Domains + PerRound)
         /\ doing[t].questions \in 0..(Questions + Rounds) /\ doing[t].cost \in 0..CycleLimit
  BY <1>1 DEF Doings
<1>3. QED
  BY <1>1, <1>2 DEF Money!TypeOK

\* ... the rows, ...
LEMMA RowsAreTyped == ASSUME RowsInv PROVE Tasks!TypeOK
<1>1. \A i \in DOMAIN rows : rows[i].status \in {"executing", "completed", "failed"}
  <2>1. rows \in Seq(RowKinds) /\ DOMAIN rows = 1..Len(rows)
    BY DEF RowsInv
  <2>2. \A i \in DOMAIN rows : rows[i] \in RowKinds
    BY <2>1, ElementOfSeq, Zenon
  <2>3. QED
    BY <2>2 DEF RowKinds
<1>2. \A t \in Researchers : steps[t].row \in 0..Len(rows)
  BY DEF RowsInv, Placed
<1>3. QED
  BY <1>1, <1>2 DEF Tasks!TypeOK, Tasks!Mine

\* ... the routes, ...
LEMMA RoutesAreTyped == ASSUME RoutesInv PROVE Rou!TypeOK
BY DEF RoutesInv, RouteKnows, Rou!TypeOK

\* ... the checks, ...
LEMMA ChecksAreTyped == ASSUME HealthInv PROVE Hea!TypeOK
<1>1. Len(Hea!Checks) = 8
  BY DEF Hea!Checks
<1>2. world.circuit \in Hea!Circuits /\ troubles \in 0..MaxWorldChanges
  BY DEF HealthInv, Worlds, Hea!Circuits
<1>3. ASSUME NEW c \in Checkers
      PROVE  Len(checkup[c].verdicts) <= 8 /\ checkup[c].overall \in {"none", "healthy", "unhealthy"}
  <2>1. checkup[c].overall \in {"none", "healthy", "unhealthy"}
    BY DEF HealthInv, Checkups
  <2>2. Len(checkup[c].verdicts) <= 8
    <3>1. checkup[c].overall = "none" => Going(checkup[c], records[c], world)
      BY DEF HealthInv
    <3>2. checkup[c].overall # "none" => Done(checkup[c], records[c])
      BY DEF HealthInv
    <3>3. Going(checkup[c], records[c], world) => Len(checkup[c].verdicts) <= 8
      BY Zenon DEF Going
    <3>4. Done(checkup[c], records[c]) => Len(checkup[c].verdicts) <= 8
      <4>1. Done(checkup[c], records[c]) => Len(checkup[c].verdicts) = 8
        BY Zenon DEF Done
      <4>2. 8 <= 8
        OBVIOUS
      <4>3. QED
        BY <4>1, <4>2, Zenon
    <3>5. QED
      BY <3>1, <3>2, <3>3, <3>4, Zenon
  <2>3. QED
    BY <2>1, <2>2
<1>4. QED
  BY <1>1, <1>2, <1>3 DEF Hea!TypeOK

\* ... the attempts, ...
LEMMA LoopIsTyped == ASSUME RetInv PROVE Ret!TypeOK
BY DEF RetInv, Trying, Ret!TypeOK

\* ... and the agents.
LEMMA CraftsAreTyped == ASSUME AgentsInv PROVE Age!TypeOK
<1>1. /\ making \in {"pipeline", "advice"} /\ step \in Nat \ {0} /\ context \in Crafts
      /\ review.attempt \in 0..MaxTries
  BY DEF AgentsInv, AgentsTyped, Reviews
<1>2. context.critique.score \in 0..10 /\ Len(context.stages) \in Nat
  <2>1. context.critique \in Verdicts /\ context.stages \in Seq({"planning", "execution", "critic", "custom"})
    BY <1>1 DEF Crafts
  <2>2. QED
    BY <2>1 DEF Verdicts
<1>3. making = "advice" => step \in 1..5
  BY DEF AgentsInv, Advised
<1>4. making # "advice" => step \in 1..(Len(context.stages) + 1)
  BY <1>1, <1>2 DEF AgentsInv, Piped
<1>5. MaxTries \in Nat
  BY ServicesAssumption DEF Age!AgentsAssumption
<1>6. QED
  BY <1>1, <1>2, <1>3, <1>4, <1>5 DEF Age!TypeOK

\* Every part is of its type, whatever the numbers of callers, threads, clients, models
\* and stages.
THEOREM ServicesAreTyped == Spec => []ServicesTypeOK
<1>1. McpInv /\ MoneyInv /\ RowsInv /\ LimitsInv /\ OwnInv /\ RoutesInv /\ HealthInv /\ RetInv /\ AgentsInv
         => ServicesTypeOK
  BY McpIsTyped, MoneyIsTyped, RowsAreTyped, LimitsAreTyped, OwnIsTyped, RoutesAreTyped, ChecksAreTyped,
     LoopIsTyped, CraftsAreTyped, ServicesAssumption DEF ServicesTypeOK
<1>2. Spec => []RoutesInv
  BY RoutesStart, RoutesStep, PTL DEF Spec
<1>3. Spec => []AgentsInv
  BY AgentsStart, AgentsStep, PTL DEF Spec
<1>4. QED
  BY <1>1, <1>2, <1>3, CallsInOrder, SpendingIsKnown, RowsAreKept, LogsTellGrants, CallsHaveRoom,
     ChecksAreKept, LoopIsKept, PTL

=============================================================================
