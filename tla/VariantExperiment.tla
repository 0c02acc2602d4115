--------------------------- MODULE VariantExperiment ---------------------------
(***************************************************************************)
(* runVariantExperiment (src/src/evals/variantExperiment.ts): a baseline,  *)
(* then rounds of variants of the tools' metadata, each compared with the  *)
(* baseline, and a proposal from the best of them.                         *)
(***************************************************************************)
EXTENDS Comparison, SequencesExt

CONSTANTS
  DatasetIds,         \* the ids of the dataset, in order
  MaxToolMetric,    \* bound on a tool metric, which counts up from 0
  Rounds,           \* the values of maxRounds
  MinImprovements,  \* the values of minImprovement
  MaxVariants       \* bound on the variants of one round

None == <<>>

VARIABLES
  choice,         \* the options: [metric, maxRounds, minImprovement, allowRegressions, variants]
  status,          \* "baseline", "gather", "score", "done", "threw"
  baseline,       \* the run without overrides: [results, tool]
  round,
  queue,          \* the variants of the round that are still to be scored
  candidates,     \* the candidates of the round
  rounds,         \* the finished rounds: sequences of candidates
  bestSoFar,      \* options of a candidate
  bestAttempted,
  reason

vars == <<choice, status, baseline, round, queue, candidates, rounds, bestSoFar, bestAttempted, reason>>

-------------------------------------------------------------------------------
(* Runs and candidates. *)

\* What runEvalDataset may return; the tool metrics are undefined without cases that judge tools.
Runs ==
  [results : {[i \in DOMAIN DatasetIds |-> [id |-> DatasetIds[i], pass |-> p[i]]] :
                p \in [DOMAIN DatasetIds -> BOOLEAN]},
   tool : {None} \cup {<<m>> : m \in 0..MaxToolMetric}]

\* readMetric: the pass rate (its denominator is the dataset's) or a tool metric, as an option.
ReadMetric(run, metric) ==
  IF metric = "passRate" THEN <<Passed(run.results)>> ELSE run.tool

BaselineValue == ReadMetric(baseline, choice.metric)[1]

Candidate(run, regressed) ==
  LET value == ReadMetric(run, choice.metric)
  IN [value |-> IF value = None THEN BaselineValue ELSE value[1],
      results |-> run.results,
      disqualified |-> ~choice.allowRegressions /\ regressed]

\* Mutant: a candidate that broke nothing it did not repair elsewhere is eligible.
ScoredByTotal(run) ==
  Candidate(run, Passed(run.results) < Passed(baseline.results))

Scored(run) ==
  Candidate(run, Bucket(CompareEvalRuns(baseline.results, run.results), "REGRESSED") # {})

\* Ties keep the incumbent.
PickBetter(incumbent, challenger, includeDisqualified) ==
  IF ~includeDisqualified /\ challenger.disqualified THEN incumbent
  ELSE IF incumbent = None THEN <<challenger>>
  ELSE IF challenger.value > incumbent[1].value THEN <<challenger>> ELSE incumbent

RoundBest ==
  LET best[i \in 0..Len(candidates)] ==
        IF i = 0 THEN None ELSE PickBetter(best[i - 1], candidates[i], FALSE)
  IN best[Len(candidates)]

-------------------------------------------------------------------------------
(* The experiment. *)

Init ==
  /\ choice \in [metric : {"passRate", "tool"}, maxRounds : Rounds, minImprovement : MinImprovements,
                 allowRegressions : BOOLEAN, variants : {0, 1}, proposes : BOOLEAN]
  /\ status = "baseline"
  /\ baseline = None
  /\ round = 0
  /\ queue = 0
  /\ candidates = <<>> /\ rounds = <<>>
  /\ bestSoFar = None /\ bestAttempted = None
  /\ reason = "max-rounds"

RunBaseline ==
  /\ status = "baseline"
  /\ \E run \in Runs :
       /\ baseline' = run
       /\ status' = IF ReadMetric(run, choice.metric) = None THEN "threw" ELSE "gather"
  /\ UNCHANGED <<choice, round, queue, candidates, rounds, bestSoFar, bestAttempted, reason>>

\* gatherVariants: the static variants in round 0, else what the callback proposes.
Gathered ==
  IF round = 0 /\ choice.variants > 0 THEN {choice.variants}
  ELSE IF choice.proposes THEN 0..MaxVariants ELSE {0}

Gather ==
  /\ status = "gather" /\ round < choice.maxRounds
  /\ \E n \in Gathered :
       /\ queue' = n
       /\ status' = IF n = 0 THEN "done" ELSE "score"
       /\ reason' = IF n > 0 THEN reason ELSE IF round = 0 THEN "no-variants" ELSE "no-improvement"
  /\ candidates' = <<>>
  /\ UNCHANGED <<choice, baseline, round, rounds, bestSoFar, bestAttempted>>

\* scoreVariant of the next variant.
Score ==
  /\ status = "score" /\ queue > 0
  /\ \E run \in Runs :
       LET candidate == Scored(run)
       IN /\ candidates' = Append(candidates, candidate)
          /\ bestAttempted' = PickBetter(bestAttempted, candidate, TRUE)
  /\ queue' = queue - 1
  /\ UNCHANGED <<choice, status, baseline, round, rounds, bestSoFar, reason>>

\* A run, the callback or an override of an unknown tool throws: the whole experiment is lost.
Throws ==
  /\ status \in {"gather", "score"}
  /\ status' = "threw"
  /\ UNCHANGED <<choice, baseline, round, queue, candidates, rounds, bestSoFar, bestAttempted, reason>>

EndRound ==
  /\ status = "score" /\ queue = 0
  /\ rounds' = Append(rounds, candidates)
  /\ round' = round + 1
  /\ LET best == RoundBest
         before == IF bestSoFar = None THEN BaselineValue ELSE bestSoFar[1].value
         stops == best # None /\ best[1].value - before < choice.minImprovement
     IN /\ bestSoFar' = IF best = None THEN bestSoFar ELSE PickBetter(bestSoFar, best[1], FALSE)
        /\ status' = IF stops THEN "done" ELSE "gather"
        /\ reason' = IF stops THEN "no-improvement" ELSE reason
  /\ UNCHANGED <<choice, baseline, queue, candidates, bestAttempted>>

LastRound ==
  /\ status = "gather" /\ round = choice.maxRounds
  /\ status' = "done"
  /\ UNCHANGED <<choice, baseline, round, queue, candidates, rounds, bestSoFar, bestAttempted, reason>>

Next == RunBaseline \/ Gather \/ Score \/ Throws \/ EndRound \/ LastRound

\* buildProposal
Recommendation ==
  LET source == IF bestSoFar # None THEN bestSoFar ELSE bestAttempted
  IN IF source = None THEN "none"
     ELSE IF bestSoFar # None THEN IF source[1].value > BaselineValue THEN "apply" ELSE "inconclusive"
     ELSE IF source[1].disqualified THEN "reject" ELSE "inconclusive"

-------------------------------------------------------------------------------
(* Properties. *)

Tried == UNION {ToSet(rounds[i]) : i \in DOMAIN rounds}

\* A case that passed in the baseline fails.
Broke(candidate) ==
  \E i \in DOMAIN DatasetIds : baseline.results[i].pass /\ ~candidate.results[i].pass

UniqueIds == \A i, j \in DOMAIN DatasetIds : DatasetIds[i] = DatasetIds[j] => i = j

\* What is recommended to be applied is better than the baseline, broke no case (unless that was
\* allowed, or ids repeat: the comparison is by id), and nothing that was tried in any round and is eligible is better, however the
\* rounds were cut short.  "reject" is said only if nothing eligible was tried.
ApplyIsBest ==
  status = "done" =>
    /\ Recommendation = "apply" =>
         /\ bestSoFar[1].value > BaselineValue
         /\ bestSoFar[1] \in Tried
         /\ ~choice.allowRegressions /\ UniqueIds => ~Broke(bestSoFar[1])
         /\ \A c \in Tried : ~c.disqualified => c.value <= bestSoFar[1].value
    /\ Recommendation = "reject" => \A c \in Tried : c.disqualified
    /\ Recommendation = "none" <=> Tried = {}
===============================================================================
