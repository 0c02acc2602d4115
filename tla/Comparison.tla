------------------------------ MODULE Comparison ------------------------------
(***************************************************************************)
(* The comparison of two finished runs: compareEvalRuns                    *)
(* (src/src/evals/evalRunComparison.ts) and the buckets of                 *)
(* runServerComparison (src/src/evals/serverComparison.ts).                *)
(*                                                                         *)
(* A run is the sequence of its case results, [id, pass], in the order of  *)
(* the dataset.  Nothing requires the ids of a dataset to be unique.       *)
(***************************************************************************)
EXTENDS Integers, Sequences, FiniteSets

Ids(run) == {run[i].id : i \in DOMAIN run}
Passed(run) == Cardinality({i \in DOMAIN run : run[i].pass})

\* new Map(results.map(r => [r.id, r])): the last result of an id stays.
MapOf(run) ==
  [id \in Ids(run) |->
     run[CHOOSE i \in DOMAIN run : run[i].id = id /\ \A j \in DOMAIN run : run[j].id = id => j <= i]]

CompareCaseOutcome(before, after) ==
  IF ~before /\ after THEN "IMPROVED"
  ELSE IF before /\ ~after THEN "REGRESSED"
  ELSE IF before THEN "UNCHANGED_PASS" ELSE "UNCHANGED_FAIL"

\* The cases of the baseline, then those only the candidate has; a case is told by the run
\* and the position it is at, for an id may be there twice.
CompareEvalRuns(baseline, candidate) ==
  LET byId == MapOf(candidate)
      Outcome(case) ==
        IF case.id \notin Ids(candidate) THEN "MISSING_FROM_CANDIDATE"
        ELSE CompareCaseOutcome(case.pass, byId[case.id].pass)
      onlyThere == {i \in DOMAIN candidate : candidate[i].id \notin Ids(baseline)}
  IN {[of |-> "baseline", at |-> i, outcome |-> Outcome(baseline[i])] : i \in DOMAIN baseline}
     \cup {[of |-> "candidate", at |-> i, outcome |-> "MISSING_FROM_BASELINE"] : i \in onlyThere}

Bucket(comparison, outcome) == {case \in comparison : case.outcome = outcome}

\* Mutant: what server A passes is won by A.
CompareServersLoosely(a, b) ==
  LET resultA == MapOf(a)
      resultB == MapOf(b)
      shared == Ids(a) \cap Ids(b)
      Where(passA, passB) == Cardinality({id \in shared : resultA[id].pass = passA /\ resultB[id].pass = passB})
  IN [total |-> Cardinality(shared), aWins |-> Where(TRUE, FALSE) + Where(TRUE, TRUE),
      bWins |-> Where(FALSE, TRUE), ties |-> Where(TRUE, TRUE), bothFail |-> Where(FALSE, FALSE),
      decided |-> Cardinality(shared) - Where(FALSE, FALSE)]

\* Only the ids both servers have a result for.
CompareServers(a, b) ==
  LET resultA == MapOf(a)
      resultB == MapOf(b)
      shared == Ids(a) \cap Ids(b)
      Where(passA, passB) == Cardinality({id \in shared : resultA[id].pass = passA /\ resultB[id].pass = passB})
  IN [total |-> Cardinality(shared), aWins |-> Where(TRUE, FALSE), bWins |-> Where(FALSE, TRUE),
      ties |-> Where(TRUE, TRUE), bothFail |-> Where(FALSE, FALSE),
      decided |-> Where(TRUE, FALSE) + Where(FALSE, TRUE) + Where(TRUE, TRUE)]
===============================================================================
