------------------------------- MODULE WarRooms -------------------------------
(***************************************************************************)
(* War rooms (src/core/warroom/session.py) and the fleet they are filled   *)
(* from (core/lieutenant/manager.py).  A request of the web, a command of  *)
(* the god panel or a directive opens a room and asks its members one      *)
(* after the other, while lieutenants are created, put to rest and         *)
(* deleted by other requests.  What is said is left out, but not whether   *)
(* it can be used: a synthesis that is no JSON object is "odd".  Each call *)
(* of a model that is answered costs one unit.  A request without a topic  *)
(* opens a room and drops it; an autonomous debate of fewer than two, or   *)
(* without a topic, is not held.                                           *)
(***************************************************************************)
EXTENDS Integers, Sequences, FiniteSets, SequencesExt

CONSTANTS
    Hosts,         \* threads that hold sessions
    Lieutenants,
    MaxRooms,      \* bound on the sessions
    MaxFleet       \* bound on what is done to the fleet

WarRoomsAssumption == IsFiniteSet(Lieutenants) /\ MaxRooms \in Nat /\ MaxFleet \in Nat

VARIABLES
    fleet,       \* the status of each lieutenant; "none" before it is created
    notes,       \* the lieutenants that memories of their tasks belong to
    rooms,       \* the session of each host
    minutes,     \* the rows of war_rooms
    lessons,     \* what debates left in the memory, as <<session, kind>>
    opened, changed   \* sessions and changes of the fleet so far

vars == <<fleet, notes, rooms, minutes, lessons, opened, changed>>

There == {l \in Lieutenants : fleet[l] \in {"active", "inactive"}}
Active == {l \in Lieutenants : fleet[l] = "active"}

\* WarRoomSession: "met" is what its LieutenantManager has cached, "heard" who has
\* contributed, "cost" its total and "charged" what its calls have cost in fact.
NoRoom == [pc |-> "idle", kind |-> "none", n |-> 0, members |-> <<>>, next |-> 1, met |-> {},
           heard |-> <<>>, cost |-> 0, charged |-> 0, synthesis |-> "none", items |-> FALSE]

Init ==
    /\ fleet \in [Lieutenants -> {"active", "inactive", "none"}]
    /\ notes = {} /\ rooms = [h \in Hosts |-> NoRoom]
    /\ minutes = {} /\ lessons = {} /\ opened = 0 /\ changed = 0

-----------------------------------------------------------------------------
\* The fleet.  What belongs to a lieutenant that is deleted is deleted with it.

Change(l, from, to) ==
    /\ changed < MaxFleet /\ fleet[l] \in from
    /\ fleet' = [fleet EXCEPT ![l] = to] /\ changed' = changed + 1
    /\ UNCHANGED <<rooms, minutes, lessons, opened>>

Create(l) == Change(l, {"none"}, "active") /\ UNCHANGED notes
Activate(l) == Change(l, {"inactive"}, "active") /\ UNCHANGED notes
Deactivate(l) == Change(l, {"active"}, "inactive") /\ UNCHANGED notes
Delete(l) == Change(l, {"active", "inactive"}, "gone") /\ notes' = notes \ {l}

-----------------------------------------------------------------------------
\* The sessions

Room(h, r) ==
    /\ rooms' = [rooms EXCEPT ![h] = r]
    /\ UNCHANGED <<fleet, opened, changed>>

Open(h, kind, members) ==
    /\ rooms[h].pc = "idle" /\ opened < MaxRooms
    /\ opened' = opened + 1
    /\ rooms' = [rooms EXCEPT ![h] =
                    [NoRoom EXCEPT !.kind = kind, !.n = opened', !.members = members,
                                   !.pc = IF kind = "directive" THEN "plan" ELSE "debate"]]
    /\ UNCHANGED <<fleet, notes, minutes, lessons, changed>>

\* POST /warrooms/create: any identifiers, twice perhaps, of lieutenants that may be gone
OpenWeb(h) ==
    \E members \in UNION {[1..k -> {l \in Lieutenants : fleet[l] # "none"}] : k \in 0..2} :
        Open(h, "web", members)

\* trigger_warroom: the active ones of the domains it is given, in the order of their names
OpenForced(h) == \E S \in SUBSET Active : Open(h, "forced", SetToSeq(S))

\* run_autonomous_debate: those of the domains that a model names, two at least
OpenAuto(h) == \E S \in SUBSET Active : Cardinality(S) >= 2 /\ Open(h, "auto", SetToSeq(S))

\* execute_directive: the active ones of those assigned
OpenDirective(h) == \E S \in SUBSET Active : Open(h, "directive", SetToSeq(S))

Turn(h) == rooms[h].members[rooms[h].next]
MoreTurns(h, phase) == rooms[h].pc = phase /\ rooms[h].next <= Len(rooms[h].members)

\* start_debate and get_lieutenant: whoever is not found is passed over, and the status
\* is not asked.
Meets(h, l) == l \in rooms[h].met \/ l \in There
\* A mutant: only the active ones are heard.
MeetsActive(h, l) == fleet[l] = "active"

Call(h) ==
    /\ MoreTurns(h, "debate")
    /\ IF Meets(h, Turn(h))
       THEN Room(h, [rooms[h] EXCEPT !.met = @ \cup {Turn(h)}, !.pc = "speech"])
       ELSE Room(h, [rooms[h] EXCEPT !.next = @ + 1])
    /\ UNCHANGED <<notes, minutes, lessons>>

\* participate_in_debate: a task whose cost is not the session's, and whose memory is
\* not stored if the lieutenant was deleted meanwhile.
Speak(h) ==
    /\ rooms[h].pc = "speech"
    /\ \E c \in {0, 1} :
          Room(h, [rooms[h] EXCEPT !.pc = "debate", !.next = @ + 1, !.charged = @ + c,
                                   !.heard = Append(@, Turn(h))])
    /\ \/ Turn(h) \in There /\ notes' = notes \cup {Turn(h)}
       \/ UNCHANGED notes
    /\ UNCHANGED <<minutes, lessons>>

\* run_planning_phase: a call that fails is a plan as well.
Propose(h) ==
    /\ MoreTurns(h, "plan")
    /\ IF Turn(h) \in There
       THEN \E c \in {0, 1} :
               Room(h, [rooms[h] EXCEPT !.next = @ + 1, !.cost = @ + c, !.charged = @ + c,
                                        !.heard = Append(@, Turn(h))])
       ELSE Room(h, [rooms[h] EXCEPT !.next = @ + 1])
    /\ UNCHANGED <<notes, minutes, lessons>>

\* _synthesize_debate and _synthesize_plans: what cannot be parsed is a summary.
Syntheses == {<<"failed", 0>>} \cup {<<"plain", 1>>, <<"decided", 1>>, <<"odd", 1>>}

\* What comes after it: an odd one raises as soon as it is read.
After(kind, synthesis) ==
    IF synthesis = "odd" THEN "idle"
    ELSE CASE kind = "web" -> "close" [] kind = "forced" -> "idle"
           [] kind = "auto" -> "remember" [] kind = "directive" -> "waves"

Leave(r, label) == IF label = "idle" THEN NoRoom ELSE [r EXCEPT !.pc = label]

Synthesize(h) ==
    /\ rooms[h].pc \in {"debate", "plan"} /\ rooms[h].next > Len(rooms[h].members)
    /\ \E s \in Syntheses :
          Room(h, Leave([rooms[h] EXCEPT !.synthesis = s[1], !.cost = @ + s[2],
                                         !.charged = @ + s[2]],
                        After(rooms[h].kind, s[1])))
    /\ UNCHANGED <<notes, minutes, lessons>>

\* The waves of a directive: if they raise, the room is left as it is.
Execute(h) ==
    /\ rooms[h].pc = "waves"
    /\ \E label \in {"retrospective", "idle"} : Room(h, Leave(rooms[h], label))
    /\ UNCHANGED <<notes, minutes, lessons>>

\* run_retrospective: items before the one that cannot be read are kept.
Retrospect(h) ==
    /\ rooms[h].pc = "retrospective"
    /\ \/ Room(h, Leave(rooms[h], "close"))
       \/ \E some \in BOOLEAN :
             Room(h, Leave([rooms[h] EXCEPT !.cost = @ + 1, !.charged = @ + 1, !.items = some],
                           "close"))
    /\ UNCHANGED <<notes, minutes, lessons>>

\* close_session and _persist_session, which swallows its errors.
Close(h) ==
    /\ rooms[h].pc = "close"
    /\ minutes' \in {minutes, minutes \cup {[rooms[h] EXCEPT !.pc = "closed", !.met = {}]}}
    /\ Room(h, NoRoom)
    /\ UNCHANGED <<notes, lessons>>

\* run_autonomous_debate: the synthesis, a failed one too, is stored as a fact, and the
\* decisions after it; either may raise.  The session is never closed.
Remember(h) ==
    /\ rooms[h].pc = "remember"
    /\ \/ Room(h, NoRoom) /\ UNCHANGED lessons
       \/ /\ lessons' = lessons \cup {<<rooms[h].n, "synthesis">>}
          /\ Room(h, Leave(rooms[h], IF rooms[h].synthesis = "decided" THEN "decisions" ELSE "idle"))
    /\ UNCHANGED <<notes, minutes>>

Decide(h) ==
    /\ rooms[h].pc = "decisions"
    /\ lessons' \in {lessons, lessons \cup {<<rooms[h].n, "decisions">>}}
    /\ Room(h, NoRoom)
    /\ UNCHANGED <<notes, minutes>>

Next ==
    \/ \E l \in Lieutenants : Create(l) \/ Activate(l) \/ Deactivate(l) \/ Delete(l)
    \/ \E h \in Hosts :
          \/ OpenWeb(h) \/ OpenForced(h) \/ OpenAuto(h) \/ OpenDirective(h)
          \/ Call(h) \/ Speak(h) \/ Propose(h) \/ Synthesize(h) \/ Execute(h)
          \/ Retrospect(h) \/ Close(h) \/ Remember(h) \/ Decide(h)

Spec == Init /\ [][Next]_vars

-----------------------------------------------------------------------------

TypeOK ==
    /\ fleet \in [Lieutenants -> {"none", "active", "inactive", "gone"}]
    /\ notes \subseteq Lieutenants
    /\ lessons \subseteq (1..opened) \X {"synthesis", "decisions"}

Times(l, s) == Cardinality({i \in DOMAIN s : s[i] = l})

\* Whoever joined a room that was closed and is still there was heard each time it was
\* listed, even if it was put to rest meanwhile; nobody else was, and nobody more often
\* (session.py:126).
AllHeard ==
    \A r \in minutes : \A l \in Lieutenants :
        /\ Times(l, r.heard) <= Times(l, r.members)
        /\ l \in There => Times(l, r.heard) = Times(l, r.members)

\* The cost in the row of a session is all that its calls cost, but for what the speakers
\* of a debate did (session.py:344).
MinutesTrue ==
    \A r \in minutes : /\ r.kind = "directive" => r.cost = r.charged
                       /\ r.kind = "web" => r.charged \in r.cost..(r.cost + Len(r.heard))

\* Nothing is left of a lieutenant that was deleted, whoever was listening to it.
NotesOwned == notes \subseteq There

RoomsKept == AllHeard /\ MinutesTrue /\ NotesOwned

=============================================================================
