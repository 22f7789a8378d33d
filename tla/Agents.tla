-------------------------------- MODULE Agents --------------------------------
(***************************************************************************)
(* The agents of src/core/ace as parts to be put together: the Pipeline,   *)
(* which runs a list of stages over one context; and the Executor, the     *)
(* Critic with its advice and the chain of quality gates, which a caller   *)
(* asks one after the other.  Nothing in the repository puts them together *)
(* (the engine, see Tasks, has its own loop), so any list of stages may    *)
(* come, and the caller is one who follows the critic's advice.            *)
(*                                                                         *)
(* A text is the number of the call that wrote it, 0 the empty one.  Every *)
(* call that is answered costs 1.  Scores are in tenths.                   *)
(***************************************************************************)
EXTENDS Integers, Sequences, FiniteSets

CONSTANTS
    StageLists,     \* lists of stages a pipeline may be made of
    Marks,          \* scores a critic may give
    Gates,          \* gates of a chain, by the kinds told apart below
    GateNeeds,      \* <<part, of>>: the share of gates that must pass in a lenient chain (7 of 10)
    MinMark,        \* min_quality (6)
    MaxTries        \* max_attempts

AgentsAssumption ==
    /\ Marks \subseteq 0..10 /\ MinMark \in 0..10 /\ MaxTries \in Nat
    /\ Gates \subseteq {"content_length", "source_citation", "overall_score", "hallucination"}
    /\ GateNeeds \in Nat \X (Nat \ {0}) /\ GateNeeds[1] <= GateNeeds[2]
    /\ StageLists \subseteq Seq({"planning", "execution", "critic", "custom"})

VARIABLES
    making,       \* "pipeline" or "advice": what this behaviour is about
    step,         \* index of the stage, or what the caller does next
    context,      \* PipelineContext: output of planning, execution and critic; metrics; calls
    report,       \* PipelineResult so far
    review        \* the caller's: text, evaluation, attempt, advice; calls and texts

vars == <<making, step, context, report, review>>

NoVerdict == [score |-> 0, approved |-> FALSE, of |-> 0, asked |-> FALSE]

NoGates == [passed |-> FALSE, strict |-> FALSE, failed |-> {}, of |-> {}]

Init ==
    /\ making \in {"pipeline", "advice"} /\ step = 1
    /\ \E s \in IF making = "pipeline" THEN StageLists ELSE {<<>>} :
          context = [stages |-> s, text |-> 0, written |-> FALSE, critique |-> NoVerdict, cost |-> 0,
                     texts |-> 0, calls |-> 0, critics |-> 0]
    /\ report = [done |-> FALSE, success |-> FALSE, content |-> 0, quality |-> 0, errors |-> 0, results |-> 0]
    /\ review = [text |-> 0, verdict |-> NoVerdict, attempt |-> 0, stronger |-> FALSE, gates |-> NoGates,
                 confidence |-> 0, texts |-> 0]

-----------------------------------------------------------------------------
(* The pipeline: run, and the stages with an engine (see Tasks).           *)

Stage == context.stages[step]
Running(stage) == making = "pipeline" /\ ~report.done /\ step <= Len(context.stages) /\ Stage = stage

\* What follows a stage that has returned
Onward(failed) ==
    /\ step' = step + 1
    /\ report' = [report EXCEPT !.results = @ + 1, !.errors = @ + (IF failed THEN 1 ELSE 0)]
    /\ UNCHANGED <<making, review>>

\* PlanningStage and _run_planning: without an answer the task is to be done directly.
Planning ==
    /\ Running("planning")
    /\ \E c \in {0, 1} : context' = [context EXCEPT !.cost = @ + c, !.calls = @ + c]
    /\ Onward(FALSE)

\* ExecutionStage and _run_execution: if the call fails, the text is empty. It is always as
\* if for the first time, for no one raises the iteration.
Execution ==
    /\ Running("execution")
    /\ \/ context' = [context EXCEPT !.text = context.texts + 1, !.texts = @ + 1, !.written = TRUE,
                                     !.cost = @ + 1, !.calls = @ + 1]
       \/ context' = [context EXCEPT !.text = 0, !.written = TRUE]
    /\ Onward(FALSE)

\* A stage of somebody else's, which may fail or have nothing to do
Custom ==
    /\ Running("custom") /\ step' = step + 1
    /\ \/ UNCHANGED <<context, report>>
       \/ \E failed \in BOOLEAN :
             /\ report' = [report EXCEPT !.results = @ + 1, !.errors = @ + (IF failed THEN 1 ELSE 0)]
             /\ context' = [context EXCEPT !.cost = @ + 1, !.calls = @ + 1]
    /\ UNCHANGED <<making, review>>

\* A mutant: no text is judged as any other.
JudgeAny(text) ==
    {[score |-> m, approved |-> a, of |-> text, asked |-> TRUE] : m \in Marks, a \in BOOLEAN}

\* _run_critic, of the engine: an answer that cannot be read, and a call that failed
Judge(text) ==
    IF text = 0 THEN {[NoVerdict EXCEPT !.of = text]}
    ELSE {[score |-> m, approved |-> a, of |-> text, asked |-> TRUE] : m \in Marks, a \in BOOLEAN}
         \cup {[score |-> 5, approved |-> FALSE, of |-> text, asked |-> TRUE],
               [score |-> 4, approved |-> FALSE, of |-> text, asked |-> FALSE]}

\* CriticStage, which does not pass on what it cost, and the end of the pipeline if it is content
Criticism ==
    /\ Running("critic")
    /\ \E v \in Judge(context.text) :
          LET content == v.score >= MinMark \/ v.approved
              paid == IF v.asked THEN 1 ELSE 0 IN
          /\ context' = [context EXCEPT !.critique = v, !.calls = @ + paid, !.critics = @ + paid]
          /\ report' = [report EXCEPT !.results = @ + 1, !.quality = v.score, !.success = content,
                                      !.done = content, !.content = IF content THEN context.text ELSE @]
    /\ step' = step + 1 /\ UNCHANGED <<making, review>>

\* No stage is left.
Finish ==
    /\ making = "pipeline" /\ ~report.done /\ step > Len(context.stages)
    /\ report' = [report EXCEPT !.done = TRUE, !.content = context.text]
    /\ UNCHANGED <<making, step, context, review>>

-----------------------------------------------------------------------------
(* The executor, the critic and the gates, one after the other.            *)

Asks(s) == making = "advice" /\ step = s /\ UNCHANGED <<making, context, report>>

\* execute_research, execute_analysis and execute_synthesis ask execute for the text and set a
\* confidence beside it, but for a synthesis, which does not tell whether there is one.
Confidence(kind, text) == IF kind = "synthesis" THEN 0 ELSE IF text = 0 THEN 3 ELSE 7

\* Executor.execute
Execute ==
    /\ Asks(1) /\ step' = 2
    /\ \E kind \in {"research", "synthesis"}, text \in {0, review.texts + 1} :
          review' = [review EXCEPT !.text = text, !.confidence = Confidence(kind, text),
                                   !.texts = IF text = 0 THEN @ ELSE @ + 1]

\* evaluate: what the model says of the text, or only its score; if it fails, half marks
Evaluation(text) ==
    IF text = 0 THEN {[NoVerdict EXCEPT !.of = text]}
    ELSE {[score |-> m, approved |-> a, of |-> text, asked |-> TRUE] : m \in Marks, a \in BOOLEAN}
         \cup {[score |-> m, approved |-> m >= MinMark, of |-> text, asked |-> TRUE] : m \in Marks \cup {5}}
         \cup {[score |-> 5, approved |-> FALSE, of |-> text, asked |-> FALSE]}

Evaluate ==
    /\ Asks(2) /\ step' = 3
    /\ \E v \in Evaluation(review.text) : review' = [review EXCEPT !.verdict = v]

\* The gates that look at the text itself
TextGates == {"content_length", "source_citation"}

\* Which gates pass.  A check that raises has not passed.  The length and the citations are
\* looked for in the text; the others read what the caller tells of it, and without that
\* there is no score, and no hallucination either.
Passing(gates, text, told) ==
    {P \in SUBSET gates :
        /\ text = 0 => P \cap TextGates = {}
        /\ ~told => "overall_score" \notin P /\ P \cap {"hallucination"} = gates \cap {"hallucination"}}

\* QualityGateChain.run: all must pass, or a share of them.
ChainPasses(strict, gates, passed) ==
    IF strict THEN passed = gates
    ELSE gates # {} /\ Cardinality(passed) * GateNeeds[2] >= Cardinality(gates) * GateNeeds[1]

Gate ==
    /\ Asks(3) /\ step' = 4
    /\ \E gates \in {{}, Gates}, strict, told \in BOOLEAN : \E passed \in Passing(gates, review.text, told) :
          review' = [review EXCEPT !.gates = [passed |-> ChainPasses(strict, gates, passed),
                                              strict |-> strict, failed |-> gates \ passed,
                                              of |-> gates]]

\* should_retry: whether, and whether with a stronger model
ShouldRetry(v, attempt) ==
    /\ ~v.approved /\ attempt < MaxTries
    /\ v.score < MinMark \/ v.score = 0 \/ v.score < 3

Escalates(v, attempt) ==
    \/ v.score = 0
    \/ v.score < 3 /\ attempt >= 1
    \/ v.score < MinMark /\ attempt >= 2

Decide ==
    /\ Asks(4)
    /\ IF ShouldRetry(review.verdict, review.attempt)
       THEN /\ step' = 1
            /\ review' = [review EXCEPT !.attempt = @ + 1,
                                        !.stronger = Escalates(review.verdict, review.attempt)]
       ELSE step' = 5 /\ UNCHANGED review

Next ==
    \/ Planning \/ Execution \/ Custom \/ Criticism \/ Finish
    \/ Execute \/ Evaluate \/ Gate \/ Decide

Spec == Init /\ [][Next]_vars

-----------------------------------------------------------------------------

TypeOK ==
    /\ step \in 1..(IF making = "advice" THEN 5 ELSE Len(context.stages) + 1)
    /\ review.attempt <= MaxTries /\ context.critique.score \in 0..10

\* A pipeline succeeds with a text that was written, if any mark will not do, and is the one
\* the critic was content with, whatever stages came before it; otherwise it returns the
\* last text.  Its cost is that of every call but the critics' (pipeline.py:237).
PipelineRight ==
    making = "pipeline" =>
        /\ report.success => /\ report.content # 0 \/ MinMark = 0
                             /\ report.content = context.critique.of
                             /\ context.critique.score >= MinMark \/ context.critique.approved
        /\ report.done => report.content = context.text
        /\ report.done /\ ~report.success => step > Len(context.stages)
        /\ context.cost = context.calls - context.critics

\* The critic advises to stop with a text that it approved or thought good enough, and with
\* another only after as many attempts as there may be; one that nobody judged is good
\* enough if half marks are (critic.py:192). An empty text is never the end before
\* that, and is written again by a stronger model.  A chain in which every gate passes is
\* passed, and one with gates that failed only if it is lenient and they are few enough;
\* an empty one is passed if it is strict.  No strict chain that looks at the text itself
\* passes an empty one, and a lenient one only if two gates may fail.  A confidence beside
\* the text, if there is one, tells whether it is empty.
AdviceRight ==
    making = "advice" =>
        /\ step = 5 /\ review.attempt < MaxTries =>
              /\ review.text # 0
              /\ review.verdict.of = review.text
              /\ review.verdict.approved \/ review.verdict.score >= MinMark
              /\ review.verdict.asked \/ MinMark <= 5
        /\ step = 1 /\ review.attempt > 0 /\ review.text = 0 => review.stronger
        /\ review.gates.failed = {} /\ review.gates.of # {} => review.gates.passed
        /\ review.gates.passed /\ review.gates.failed # {} =>
              /\ ~review.gates.strict
              /\ Cardinality(review.gates.failed) * GateNeeds[2]
                    <= Cardinality(Gates) * (GateNeeds[2] - GateNeeds[1])
        /\ step = 4 /\ review.gates.passed /\ review.text = 0 =>
              /\ review.gates.strict => TextGates \cap review.gates.of = {}
              /\ TextGates \subseteq review.gates.of =>
                    2 * GateNeeds[2] <= Cardinality(Gates) * (GateNeeds[2] - GateNeeds[1])
        /\ review.confidence = 7 => review.text # 0
        /\ review.confidence = 3 => review.text = 0

AgentsRight == PipelineRight /\ AdviceRight

=============================================================================
