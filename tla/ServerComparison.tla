--------------------------- MODULE ServerComparison ---------------------------
(***************************************************************************)
(* runServerComparison (src/src/evals/serverComparison.ts): one dataset    *)
(* against two servers at once, and the comparison kept in a store.        *)
(***************************************************************************)
EXTENDS Comparison

CONSTANT Datasets   \* sequences of case ids

Sides == {"A", "B"}
None == <<>>

VARIABLES
  ids,          \* the ids of the dataset
  runs,      \* side |-> the results of its run so far
  running,      \* the sides whose runEvalDataset has not ended
  outcome,      \* "pending", "compared", "stored", "rejected"
  comparison    \* the ServerComparisonResult, as an option

vars == <<ids, runs, running, outcome, comparison>>

Init ==
  /\ ids \in Datasets
  /\ runs = [s \in Sides |-> <<>>]
  /\ running = Sides
  /\ outcome = "pending"
  /\ comparison = None

\* A run goes on when the other one has failed: Promise.all waits for nobody then.
RunCase(s) ==
  /\ s \in running /\ Len(runs[s]) < Len(ids)
  /\ \E pass \in BOOLEAN :
       runs' = [runs EXCEPT ![s] = Append(@, [id |-> ids[Len(@) + 1], pass |-> pass])]
  /\ UNCHANGED <<ids, running, outcome, comparison>>

RunEnds(s) ==
  /\ s \in running /\ Len(runs[s]) = Len(ids)
  /\ running' = running \ {s}
  /\ UNCHANGED <<ids, runs, outcome, comparison>>

RunThrows(s) ==
  /\ s \in running
  /\ running' = running \ {s}
  /\ outcome' = "rejected"
  /\ UNCHANGED <<ids, runs, comparison>>

Compare ==
  /\ outcome = "pending" /\ running = {}
  /\ comparison' = <<CompareServers(runs["A"], runs["B"])>>
  /\ outcome' = "compared"
  /\ UNCHANGED <<ids, runs, running>>

\* saveServerComparison, if there is a store; where it fails the comparison is lost.
Save ==
  /\ outcome = "compared"
  /\ outcome' \in {"stored", "rejected"}
  /\ UNCHANGED <<ids, runs, running, comparison>>

Next == (\E s \in Sides : RunCase(s) \/ RunEnds(s) \/ RunThrows(s)) \/ Compare \/ Save

-------------------------------------------------------------------------------
(* Properties. *)

UniqueIds == Len(ids) = Cardinality({ids[i] : i \in DOMAIN ids})

\* The two comparisons of the project tell the same of two complete runs: what server B wins is
\* what improved from A to B, what A wins regressed, and the difference of the passed cases is
\* explained by these two; no case is left out of a count.  (Of datasets whose ids are unique: one
\* result per id is compared, so a dataset with repeated ids loses results on both sides.)
ComparisonsAgree ==
  outcome \in {"compared", "stored"} /\ UniqueIds =>
    LET c == comparison[1]
        compared == CompareEvalRuns(runs["A"], runs["B"])
    IN /\ c.bWins = Cardinality(Bucket(compared, "IMPROVED"))
       /\ c.aWins = Cardinality(Bucket(compared, "REGRESSED"))
       /\ c.ties = Cardinality(Bucket(compared, "UNCHANGED_PASS"))
       /\ c.bothFail = Cardinality(Bucket(compared, "UNCHANGED_FAIL"))
       /\ c.total = Len(ids) /\ c.decided = c.total - c.bothFail
       /\ Passed(runs["B"]) - Passed(runs["A"]) = c.bWins - c.aWins
===============================================================================
