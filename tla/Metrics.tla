-------------------------------- MODULE Metrics --------------------------------
(***************************************************************************)
(* computeMetrics (src/src/evals/metrics.ts): one row of values per case   *)
(* result and one aggregate per metric, but two metrics may share a key.   *)
(*                                                                         *)
(* A string is the sequence of its parts: an id is <<"a">>, and            *)
(* JSON.stringify([dataset, id, n]) is <<"[", dataset>> \o id \o <<n>>, so *)
(* that an id may look like a qualified key, and the name of a metric like *)
(* the key of another's rate.  A value is an option; an aggregate is       *)
(* [sum, of], the fraction of a mean or a rate before the division, and    *)
(* what a list of values comes to.                                         *)
(***************************************************************************)
EXTENDS Integers, Sequences, FiniteSets

CONSTANTS
  Ids,         \* the ids of case results
  DatasetNames,  \* names of datasets
  Judged,      \* the judge entries a case may have: sequences of [name, pass, score]
  Specs,       \* the sequences of metric specs that are asked for
  MaxCases,    \* bound: the number of case results
  Digits       \* bound: the occurrences a key may be qualified with, in order

None == <<>>
VARIABLES
  specs,       \* the metrics: [metric, name, judge]
  cases,       \* EvalCaseResult: [id, dataset, pass, judges]
  keys,        \* the keys given so far, one per row
  usedKeys,
  perCase,     \* key |-> row
  rows,        \* a row: outName |-> value
  aggregated   \* an option: key |-> [sum, of]

vars == <<specs, cases, keys, usedKeys, perCase, rows, aggregated>>

-------------------------------------------------------------------------------
(* Values. *)

\* judgeEntries, by name; an entry without a name is called judge.
EntryOf(case, name) ==
  LET found == SelectSeq(case.judges, LAMBDA e : e.name = name)
  IN IF found = <<>> THEN None ELSE <<Head(found)>>

JudgePass(case) ==
  LET verdicts == SelectSeq(case.judges, LAMBDA e : e.pass # None)
  IN IF verdicts = <<>> THEN None
     ELSE <<IF \A i \in DOMAIN verdicts : verdicts[i].pass[1] = 1 THEN 1 ELSE 0>>

Flag(b) == <<IF b THEN 1 ELSE 0>>

\* compute of the built-in metrics, an example of each kind; tier is a plugin's, its values
\* are texts.
Compute(spec, case) ==
  CASE spec.metric = "passed" -> Flag(case.pass)
    [] spec.metric = "tier" -> Flag(case.pass)
    [] spec.metric = "judge_pass" -> JudgePass(case)
    [] spec.metric = "judge_pass_for" ->
         LET e == EntryOf(case, spec.judge) IN IF e = None THEN None ELSE e[1].pass
    [] spec.metric = "judge_score_for" ->
         LET e == EntryOf(case, spec.judge) IN IF e = None THEN None ELSE e[1].score

\* slug: a-b and a_b are the same in the name of a metric.
Slug(name) == IF name = "a-b" THEN "a_b" ELSE name

\* resolveMetric: the name a metric has in the output.
OutName(spec) ==
  IF spec.name # None THEN spec.name
  ELSE IF spec.metric \in {"judge_pass_for", "judge_score_for"}
    THEN <<spec.metric, Slug(spec.judge)>> ELSE <<spec.metric>>

\* A binary metric is aggregated to a rate, a continuous one to a mean, others to a list.
Kind(spec) ==
  CASE spec.metric \in {"passed", "judge_pass", "judge_pass_for"} -> "rate"
    [] spec.metric = "judge_score_for" -> "mean"
    [] OTHER -> "list"

AggregateKey(spec) ==
  OutName(spec) \o CASE Kind(spec) = "rate" -> <<"_rate">>
                     [] Kind(spec) = "mean" -> <<"_mean">>
                     [] OTHER -> <<>>

-------------------------------------------------------------------------------
(* Rows. *)

Qualified(case, occurrence) == <<"[", case.dataset>> \o case.id \o <<Digits[occurrence]>>

\* Mutant: a qualified key is not compared with the ids and keys there are.
KeyUnchecked(case) ==
  IF Cardinality({i \in DOMAIN cases : cases[i].id = case.id}) = 1 THEN case.id
  ELSE Qualified(case, 1)

\* The id where it is unique, else the first qualified key that is not in use.
Key(case) ==
  IF Cardinality({i \in DOMAIN cases : cases[i].id = case.id}) = 1 THEN case.id
  ELSE Qualified(case, CHOOSE n \in DOMAIN Digits :
                         /\ Qualified(case, n) \notin usedKeys
                         /\ \A m \in 1..(n - 1) : Qualified(case, m) \in usedKeys)

OutNames == {OutName(specs[i]) : i \in DOMAIN specs}

\* Two metrics of one name share a field: the last one is kept.
Last(name) ==
  specs[CHOOSE i \in DOMAIN specs :
          OutName(specs[i]) = name /\ \A j \in DOMAIN specs : OutName(specs[j]) = name => j <= i]

Row(case) == [name \in OutNames |-> Compute(Last(name), case)]

Init ==
  /\ specs \in Specs
  /\ cases \in UNION {[1..n -> [id : Ids, dataset : DatasetNames, pass : BOOLEAN, judges : Judged]] :
                        n \in 0..MaxCases}
  /\ usedKeys = {cases[i].id : i \in DOMAIN cases}
  /\ keys = <<>> /\ rows = <<>>
  /\ perCase = [key \in {} |-> None]
  /\ aggregated = None

AddRow ==
  /\ Len(rows) < Len(cases)
  /\ LET case == cases[Len(rows) + 1]
         key == Key(case)
         row == Row(case)
     IN /\ keys' = Append(keys, key)
        /\ usedKeys' = usedKeys \cup {key}
        /\ rows' = Append(rows, row)
        /\ perCase' = [k \in DOMAIN perCase \cup {key} |-> IF k = key THEN row ELSE perCase[k]]
  /\ UNCHANGED <<specs, cases, aggregated>>

\* meanAggregation and rateAggregation: a case without a value of the kind does not count.
Aggregation(spec) ==
  LET name == OutName(spec)
      Counted(i) == rows[i][name] # None /\ Kind(spec) \in {Kind(Last(name)), "list"}
      sum[i \in 0..Len(rows)] ==
        IF i = 0 THEN 0 ELSE sum[i - 1] + IF Counted(i) THEN rows[i][name][1] ELSE 0
  IN [sum |-> sum[Len(rows)], of |-> Cardinality({i \in DOMAIN rows : Counted(i)})]

\* The metrics with an aggregate of this key; there is none of a rate or mean of no value.
Writers(key) ==
  {i \in DOMAIN specs : /\ AggregateKey(specs[i]) = key
                        /\ Kind(specs[i]) = "list" \/ Aggregation(specs[i]).of > 0}

\* The last one is kept.
Writer(key) == specs[CHOOSE i \in Writers(key) : \A j \in Writers(key) : j <= i]

AggregateKeys == {key \in {AggregateKey(specs[i]) : i \in DOMAIN specs} : Writers(key) # {}}
Aggregates == [key \in AggregateKeys |-> Aggregation(Writer(key))]

Aggregate ==
  /\ Len(rows) = Len(cases) /\ aggregated = None
  /\ aggregated' = <<Aggregates>>
  /\ UNCHANGED <<specs, cases, keys, usedKeys, perCase, rows>>

Next == AddRow \/ Aggregate

-------------------------------------------------------------------------------
(* Properties. *)

\* Every case result keeps a row of its own and counts once, though ids repeat within and
\* across datasets and an id may be what another case's qualified key would be; a unique id
\* stays the key of its row.  And the rate of passed cases, under whatever name, is over all,
\* unless a later metric takes its name or its key.
EveryCaseCounts ==
  aggregated # None =>
    /\ Cardinality(DOMAIN perCase) = Len(cases)
    /\ \A i \in DOMAIN cases :
         /\ perCase[keys[i]] = Row(cases[i])
         /\ (\A j \in DOMAIN cases : cases[j].id = cases[i].id => j = i) => keys[i] = cases[i].id
    /\ \A key \in DOMAIN aggregated[1] :
         Writer(key).metric = "passed" /\ Last(OutName(Writer(key))).metric = "passed" =>
           aggregated[1][key] =
             [sum |-> Cardinality({i \in DOMAIN cases : cases[i].pass}), of |-> Len(cases)]
===============================================================================
