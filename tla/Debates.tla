------------------------------- MODULE Debates -------------------------------
(***************************************************************************)
(* DebateEngine of src/core/warroom/debate.py: rounds of arguments, with   *)
(* rebuttals and a question for consensus from the second one on.  A model *)
(* is asked for each of these; where it fails an argument is an error, a   *)
(* rebuttal is missing, and scores and consensus are estimated from the    *)
(* words.  A position is one of a few, errors being all alike; the words   *)
(* of two overlap enough if they are the same, and perhaps otherwise; a    *)
(* confidence is above the bar of the estimate or not.                     *)
(***************************************************************************)
EXTENDS Integers, Sequences, FiniteSets, FiniteSetsExt

CONSTANTS
    Debaters,      \* the participants: a sequence of identifiers
    MaxRounds,
    Positions      \* what is argued for

DebatesAssumption ==
    /\ MaxRounds \in Nat \ {0} /\ {"none", "error"} \cap Positions = {}
    /\ Debaters \in Seq(Range(Debaters))

VARIABLES
    debate,      \* how many rounds were held, the arguments of the last, status, consensus
    current      \* the round that is held: arguments, rebuttals, scores

vars == <<debate, current>>

Argument(who, position, sure) == [who |-> who, position |-> position, sure |-> sure]
NoConsensus == [reached |-> FALSE, position |-> "none", by |-> "none"]
NewRound == [phase |-> "arguments", arguments |-> <<>>, rebuttals |-> {}, scored |-> "none"]

Init ==
    /\ debate = [rounds |-> 0, last |-> <<>>, status |-> "active", consensus |-> NoConsensus]
    /\ current = NewRound

Number == debate.rounds + 1
Holding(phase) == debate.status = "active" /\ current.phase = phase
Step(phase, round) == current' = [round EXCEPT !.phase = phase] /\ UNCHANGED debate

-----------------------------------------------------------------------------

\* _collect_arguments: an answer without JSON has no position; the confidence of an
\* argument that is an error is the one of the dataclass, 0.7.
Arguments(who) ==
    {Argument(who, p, s) : p \in Positions \cup {"none"}, s \in BOOLEAN}
        \cup {Argument(who, "error", TRUE)}

Argue ==
    LET who == Debaters[Len(current.arguments) + 1] IN
    /\ Holding("arguments") /\ Len(current.arguments) < Len(Debaters)
    /\ \E a \in Arguments(who) :
          Step("arguments", [current EXCEPT !.arguments = Append(@, a)])

\* run_round: no rebuttals in the first one
Argued ==
    /\ Holding("arguments") /\ Len(current.arguments) = Len(Debaters)
    /\ Step(IF Number >= 2 THEN "rebuttals" ELSE "scores", current)

\* _collect_rebuttals: of those who have others to answer, some do.
Rebut ==
    /\ Holding("rebuttals")
    /\ \E R \in SUBSET {w \in Range(Debaters) : Range(Debaters) # {w}} :
          Step("scores", [current EXCEPT !.rebuttals = R])

\* _score_arguments
Score ==
    /\ Holding("scores")
    /\ \E by \in {"model", "words"} : Step("consensus", [current EXCEPT !.scored = by])

\* check_consensus, on the round that was held last
Voiced(all) == {i \in DOMAIN all : all[i].position # "none"}

\* _check_consensus_heuristic: the words of all pairs, and the mean confidence; a single
\* position has no pairs.
Estimates(all) ==
    LET said == Voiced(all)
        Same == \A i, j \in said : all[i].position = all[j].position
        pairs == Cardinality(said) >= 2
        may == pairs /\ \E i \in DOMAIN all : all[i].sure
        must == pairs /\ Same /\ \A i \in DOMAIN all : all[i].sure
    IN {r \in BOOLEAN : (r => may) /\ (must => r)}

Consensus(r, position, by) ==
    [reached |-> r, position |-> IF r THEN position ELSE "none", by |-> by]

Checks(all) ==
    IF Voiced(all) = {} THEN {NoConsensus}
    ELSE {Consensus(r, p, "model") : r \in BOOLEAN, p \in Positions}
            \cup {Consensus(r, all[Min(Voiced(all))].position, "words") : r \in Estimates(all)}

\* initiate_debate after a round: asked from the second one on; without consensus the
\* next round, or, after the last one, the same question again.
MayConclude == Number >= 2
\* A mutant: asked after the first round as well.
MayConcludeAtOnce == Number >= 1

Close(status, consensus) ==
    debate' = [rounds |-> Number, last |-> current.arguments, status |-> status, consensus |-> consensus]

Check ==
    /\ Holding("consensus")
    /\ current' = NewRound
    /\ \/ \E c \in Checks(current.arguments) :
             MayConclude /\ c.reached /\ Close("consensus_reached", c)
       \/ /\ ~MayConclude \/ \E c \in Checks(current.arguments) : ~c.reached
          /\ IF Number < MaxRounds THEN Close("active", NoConsensus)
             ELSE \E c \in Checks(current.arguments) : Close("completed", c)

Next == Argue \/ Argued \/ Rebut \/ Score \/ Check

Spec == Init /\ [][Next]_vars

-----------------------------------------------------------------------------

TypeOK ==
    /\ debate.rounds <= MaxRounds
    /\ debate.status \in {"active", "completed", "consensus_reached"}
    /\ current.rebuttals \subseteq Range(Debaters)

\* A debate ends in consensus after the second round at the earliest, and otherwise after
\* all of them; everyone is heard in each, if only with an error; and what is estimated to
\* be agreed on was said in the last round by somebody (debate.py:183).
EndsHeard ==
    /\ debate.status = "consensus_reached" => debate.rounds >= 2 /\ debate.consensus.reached
    /\ debate.status = "completed" => debate.rounds = MaxRounds
    /\ debate.rounds > 0 => [i \in DOMAIN debate.last |-> debate.last[i].who] = Debaters
    /\ debate.consensus.reached /\ debate.consensus.by = "words" =>
          \E i \in DOMAIN debate.last : debate.last[i].position = debate.consensus.position

\* A model that fails throughout is a consensus, on the error (debate.py:312, 584).
OutageAgrees ==
    debate.status # "active" /\ Len(Debaters) >= 2 /\ MaxRounds >= 2 /\ debate.consensus.by = "words"
        /\ (\A i \in DOMAIN debate.last : debate.last[i].position = "error") =>
            debate.consensus = Consensus(TRUE, "error", "words")

DebatesEnd == EndsHeard /\ OutageAgrees

=============================================================================
