-------------------------------- MODULE CaseRun --------------------------------
(***************************************************************************)
(* runEvalCase and runSingleIteration (src/src/evals/evalRunner.ts): one   *)
(* case of a dataset is executed iterations times in a row, every answer   *)
(* is judged by the expectations of the case and by what the host can      *)
(* prove about its tool calls, and the iterations are folded into one      *)
(* result.  Iterations lost to the infrastructure do not count.            *)
(*                                                                         *)
(* What is judged is abstracted to its verdict: the expectations on tool   *)
(* calls (toolsTriggered, toolCallCount) on one side, all others on the    *)
(* other, since only the first need evidence from the host.                *)
(***************************************************************************)
EXTENDS Integers, Sequences, FiniteSets

CONSTANTS MaxIterations, \* bound: evalCase.iterations is 1..MaxIterations
          ThresholdNum,  \* accuracyThreshold = ThresholdNum / ThresholdDen
          ThresholdDen,
          External,      \* evalCase.mode is external_host
          ExpectsTools,  \* the expect block has toolsTriggered (toolCallCount is gated alike)
          ExpectsOther   \* and one of another kind

ASSUME IterationsAssumption == MaxIterations \in Nat \ {0}
ASSUME ThresholdAssumption ==
  ThresholdNum \in Nat /\ ThresholdDen \in Nat \ {0} /\ ThresholdNum <= ThresholdDen
ASSUME CaseFlagsAssumption == {External, ExpectsTools, ExpectsOther} \subseteq BOOLEAN

VARIABLES iterations,        \* evalCase.iterations
          phase,             \* "iterating", "done" or "threw"
          answers,           \* history: the answers of the iterations so far
          iterationResults,  \* what is kept of every iteration
          lastResult,        \* the result of the last iteration that did not throw
          caseResult         \* what runEvalCase returns

vars == <<iterations, phase, answers, iterationResults, lastResult, caseResult>>

\* "weak" stands for the declared evidence "observed" and "none".
Evidence == {"undefined", "structured", "weak"}

\* isInfrastructureError: the message, the name or the code of an error tells of the network, a
\* limit of the service, a desktop that could not be driven or a context that is too long.
ErrorKinds == {"none", "infra", "other"}

\* executeToolCall: what the case lacks for its mode, and whatever is thrown, becomes the error
\* of the answer; only an external host answers next to its error, and says what failed.
Executions == {e \in [error : ErrorKinds, failureKind : BOOLEAN] : e.failureKind => External}

\* What an execution can come back with: an error of the tool or of the infrastructure,
\* the evidence declared, whether the sources of an external host are structured and
\* whether it reports a failure kind, the raw verdicts, and whether judging throws.
\* What is not looked at after an error or a throw has one value.
Answers ==
  {a \in [error : ErrorKinds, evidence : Evidence, structured : BOOLEAN, failureKind : BOOLEAN,
          tools : BOOLEAN, other : BOOLEAN, throws : ErrorKinds] :
     /\ [error |-> a.error, failureKind |-> a.failureKind] \in Executions
     /\ a.structured => External
     /\ a.error # "none" \/ a.throws # "none" =>
          a.tools /\ a.other /\ a.evidence = "undefined" /\ ~a.structured
     /\ a.throws # "none" => a.error = "none" /\ ~a.failureKind
     /\ ~ExpectsTools => a.tools
     /\ ~ExpectsOther => a.other}

\* Mutant: only an external host needs evidence.
VerifiedExternal(a) == External => a.structured

\* The answer proves its tool calls: nothing is declared or it is structured, and the
\* sources of an external host are (hasStructuredToolEvidence).
Verified(a) == a.evidence \in {"undefined", "structured"} /\ (External => a.structured)

Verdict(expected, pass) == IF ~expected THEN "absent" ELSE IF pass THEN "pass" ELSE "fail"

NoExpectations == [tools |-> "absent", other |-> "absent"]

\* The expectations of the answer: none when there is an error; those on tool calls fail
\* without evidence, whatever the validator says.
Expectations(a) ==
  IF a.error # "none" THEN NoExpectations
  ELSE [tools |-> Verdict(ExpectsTools, a.tools /\ Verified(a)),
        other |-> Verdict(ExpectsOther, a.other)]

\* toolPrecision and toolRecall are kept for declared evidence that is structured, and
\* for an external host only when the expectation on tool calls passed.
Measured(a) ==
  /\ a.error = "none" /\ ExpectsTools
  /\ a.evidence \in {"undefined", "structured"}
  /\ External => Expectations(a).tools = "pass"

\* runSingleIteration, when judging does not throw.
Single(a) ==
  [pass |-> a.error = "none" /\ "fail" \notin {Expectations(a).tools, Expectations(a).other},
   error |-> a.error, expectations |-> Expectations(a), measured |-> Measured(a)]

NoResult == [pass |-> FALSE, error |-> "none", expectations |-> NoExpectations, measured |-> FALSE]

Init ==
  /\ iterations \in 1..MaxIterations
  /\ phase = "iterating"
  /\ answers = <<>>
  /\ iterationResults = <<>>
  /\ lastResult = NoResult
  /\ caseResult = NoResult

-------------------------------------------------------------------------------
\* iterations = 1: the one result is returned as it is, and a throw is not caught.
RunOnce(a) ==
  /\ phase = "iterating"
  /\ iterations = 1
  /\ answers' = <<a>>
  /\ IF a.throws # "none"
       THEN phase' = "threw" /\ UNCHANGED caseResult
       ELSE phase' = "done" /\ caseResult' = Single(a)
  /\ UNCHANGED <<iterations, iterationResults, lastResult>>

\* What is kept of an iteration; a throw is kept as a failure with its message.
Entry(a) ==
  IF a.throws # "none"
    THEN [pass |-> FALSE, infra |-> a.throws = "infra", error |-> a.throws]
    ELSE [pass |-> Single(a).pass, infra |-> a.failureKind \/ a.error = "infra",
          error |-> a.error]

Iterate(a) ==
  /\ phase = "iterating"
  /\ iterations > 1
  /\ Len(iterationResults) < iterations
  /\ answers' = Append(answers, a)
  /\ iterationResults' = Append(iterationResults, Entry(a))
  /\ lastResult' = IF a.throws = "none" THEN Single(a) ELSE lastResult
  /\ UNCHANGED <<iterations, phase, caseResult>>

Judged == {i \in DOMAIN iterationResults : ~iterationResults[i].infra}
Passes == {i \in Judged : iterationResults[i].pass}

\* assertionPassRate >= threshold, over the iterations the infrastructure let through;
\* without any of them the rate is 0.
Passed == IF Judged = {} THEN ThresholdNum = 0
          ELSE Cardinality(Passes) * ThresholdDen >= ThresholdNum * Cardinality(Judged)

\* Everything but the verdict comes from the last iteration that did not throw, or from
\* the first error when all of them threw.
Fold ==
  /\ phase = "iterating"
  /\ iterations > 1
  /\ Len(iterationResults) = iterations
  /\ phase' = "done"
  /\ caseResult' = [(IF \E i \in DOMAIN answers : answers[i].throws = "none" THEN lastResult
                     ELSE [NoResult EXCEPT !.error = iterationResults[1].error])
                    EXCEPT !.pass = Passed]
  /\ UNCHANGED <<iterations, answers, iterationResults, lastResult>>

Next == Fold \/ \E a \in Answers : RunOnce(a) \/ Iterate(a)

Spec == Init /\ [][Next]_vars

-------------------------------------------------------------------------------
(* Properties. *)

\* The answers that can count for the case: judged, and not lost to the infrastructure.
Counted == {i \in DOMAIN answers :
              \/ answers[i].throws = "other"
              \/ /\ answers[i].throws = "none"
                 /\ answers[i].error # "infra"
                 /\ ~answers[i].failureKind}

\* The tool calls of the answer are proved by the host.
Proved(a) == a.evidence \in {"undefined", "structured"} /\ (External => a.structured)

\* A case with an expectation on tool calls passes only on evidence: enough of its
\* iterations came with calls the host can prove (applyExternalHostEvidenceGating).
PassIsVerified ==
  phase = "done" /\ caseResult.pass /\ ExpectsTools =>
    ThresholdDen * Cardinality({i \in Counted : /\ answers[i].throws = "none"
                                                /\ answers[i].error = "none"
                                                /\ answers[i].tools
                                                /\ Proved(answers[i])})
      >= ThresholdNum * Cardinality(Counted)

\* The answer passes everything the case expects.
AllWell(a) == /\ a.throws = "none" /\ a.error = "none"
              /\ a.tools /\ a.other
              /\ ExpectsTools => Proved(a)

\* Losses to the infrastructure decide nothing.  A case that was never judged does not pass,
\* although no assertion failed; and iterations that were lost never make a case fail whose
\* other iterations all passed, whatever the threshold.
LossesDecideNothing ==
  phase = "done" /\ iterations > 1 =>
    /\ Counted = {} /\ ThresholdNum > 0 => ~caseResult.pass
    /\ Counted # {} /\ (\A i \in Counted : AllWell(answers[i])) => caseResult.pass
===============================================================================
