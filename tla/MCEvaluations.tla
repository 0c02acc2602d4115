----------------------------- MODULE MCEvaluations -----------------------------
(* The components around one case share this run, for they do not meet: a      *)
(* behaviour folds the iterations of a case (CaseRun), judges one answer by    *)
(* one expect block (Expectations), compares two runs (ServerComparison),      *)
(* searches for a variant (VariantExperiment), computes metrics (Metrics),     *)
(* loads plugins (Plugins) or datasets (Datasets), checks a server             *)
(* (Conformance), or saves and loads results (ResultStore).  The other parts   *)
(* never begin.                                                                *)
EXTENDS CaseRun, TLC

CONSTANTS
  MaxReps, MaxScore, Inputs,   \* Expectations
  Plans, Hooks, Fresh, MaxLoads,   \* Plugins
  Savers, Kinds, ArtifactIds, Nested, ListLimits,   \* ResultStore
  ComparedIds,   \* ServerComparison
  DatasetIds, MaxToolMetric, Rounds, MinImprovements, MaxVariants,   \* VariantExperiment
  CaseIds, DatasetNames, JudgeEntries, Specs, MaxCases, Digits,   \* Metrics
  Manifests, Trees, Types   \* Datasets

IsSeq(s) == s \in Seq({s[i] : i \in DOMAIN s})
Differ(s) == \A i, j \in DOMAIN s : s[i] = s[j] => i = j

ASSUME RepsAssumption ==
  \A input \in Inputs : \A i \in DOMAIN input[2].passesJudge : input[2].passesJudge[i].reps \in Nat
ASSUME CallsAssumption ==
  \A input \in Inputs :
    /\ IsSeq(input[1].events)
    /\ input[2].toolsTriggered # <<>> => IsSeq(input[2].toolsTriggered[1].calls)
ASSUME PluginsAssumption ==
  /\ \A c \in DOMAIN Plans : Plans[c] \in Seq(DOMAIN Hooks)
  /\ \A e \in DOMAIN Hooks : IsSeq(Hooks[e])
ASSUME StoreAssumption ==
  /\ IsFiniteSet(Savers) /\ Savers \cap {"missing", "torn"} = {}
  /\ "latest" \notin ArtifactIds
  /\ ListLimits \subseteq Nat
ASSUME ComparisonAssumption == \A list \in ComparedIds : IsSeq(list)
ASSUME ExperimentAssumption == IsSeq(DatasetIds) /\ MaxToolMetric \in Nat /\ MinImprovements \subseteq Int
\* There are digits enough for the keys of all cases, on top of the ids.
ASSUME MetricsAssumption ==
  /\ \A id \in CaseIds : IsSeq(id)
  /\ \A list \in Specs : IsSeq(list)
  /\ MaxCases \in Nat
  /\ IsSeq(Digits) /\ Differ(Digits) /\ 2 * MaxCases <= Len(Digits)
\* A config as it is written has not been through its schema.
ASSUME DatasetsAssumption ==
  LET Raw(config) == {"type", "label", "parsed", "asserted"} \subseteq DOMAIN config /\ config.parsed = 0
      Written(configs) ==
        configs # <<>> => IsSeq(configs[1]) /\ \A i \in DOMAIN configs[1] : Raw(configs[1][i])
      Limited(controls) == controls.maxCases # <<>> => controls.maxCases[1] \in Nat \ {0}
  IN /\ \A m \in Manifests :
          /\ (m.host # <<>> => Raw(m.host[1])) /\ (m.store # <<>> => Raw(m.store[1]))
          /\ Written(<<m.datasets>>) /\ Written(m.metrics) /\ Written(m.judges)
          /\ IsSeq(m.arms)
          /\ \A i \in DOMAIN m.arms : Written(m.arms[i].metrics) /\ Written(m.arms[i].judges)
          /\ Limited(m.controls) /\ Limited(m.run)
     /\ \A t \in Trees : IsSeq(t) /\ \A i \in DOMAIN t : IsSeq(t[i].cases)

VARIABLES
  part,
  answer, block, pc, results, judges,   \* Expectations
  ids, runs, running, outcome, comparison,   \* ServerComparison
  choice, status, baseline, round, queue, candidates, rounds, bestSoFar,
  bestAttempted, reason,   \* VariantExperiment
  specs, cases, keys, usedKeys, perCase, rows, aggregated,   \* Metrics
  registry, modules, pluginLoads, loads, callers, builtins,   \* Plugins
  manifest, recursive, tree, effective, reads, dataset, progress,   \* Datasets
  asked, server, probe, checks, raw, attached,   \* Conformance
  provider, stored, saves, overlaps, reader   \* ResultStore

judging == <<answer, block, pc, results, judges>>
comparisonVars == <<ids, runs, running, outcome, comparison>>
experimentVars == <<choice, status, baseline, round, queue, candidates, rounds,
                    bestSoFar, bestAttempted, reason>>
metricsVars == <<specs, cases, keys, usedKeys, perCase, rows, aggregated>>
pluginsVars == <<registry, modules, pluginLoads, loads, callers, builtins>>
datasetsVars == <<manifest, recursive, tree, effective, reads, dataset, progress>>
conformanceVars == <<asked, server, probe, checks, raw, attached>>
storeVars == <<provider, stored, saves, overlaps, reader>>
others == <<comparisonVars, experimentVars, metricsVars, pluginsVars, datasetsVars,
            conformanceVars, storeVars>>
allVars == <<part, vars, judging, others>>

-------------------------------------------------------------------------------
(* The answers and blocks to judge: the fields of a block are judged one by one *)
(* and do not meet before the verdict, so every input has one kind of field.    *)

Absent == <<>>

NoBlock == [response |-> Absent, schema |-> Absent, containsText |-> Absent,
            matchesPattern |-> Absent, isError |-> Absent, responseSize |-> Absent,
            toolsTriggered |-> Absent, toolCallCount |-> Absent, passesJudge |-> <<>>,
            snapshot |-> Absent]

Plain == [shape |-> "raw", text |-> {"w1"}, serialised |-> {"w1", "w2"}, structured |-> FALSE,
          json |-> FALSE, bytes |-> 1, isError |-> FALSE, evidence |-> "undefined",
          events |-> <<>>, toolMap |-> <<>>]

Texts == {[Plain EXCEPT !.shape = s, !.text = t, !.structured = c, !.json = j, !.isError = e] :
            s \in {"none", "string", "raw", "normalized", "content", "object"},
            t \in {{}, {"w1"}}, c \in BOOLEAN, j \in BOOLEAN, e \in BOOLEAN}

TextBlocks ==
  {[NoBlock EXCEPT !.response = <<Plain>>], [NoBlock EXCEPT !.containsText = <<{"w1"}>>]}
  \cup {[NoBlock EXCEPT !.schema = <<[registered |-> r, accepts |-> {k}]>>] :
          r \in BOOLEAN, k \in {"structured", "parsed"}}
  \cup {[NoBlock EXCEPT !.matchesPattern = <<[valid |-> v, words |-> {"w2"}]>>] : v \in BOOLEAN}
  \cup {[NoBlock EXCEPT !.isError = <<[error |-> e, words |-> w]>>] : e \in BOOLEAN, w \in {{}, {"w2"}}}
  \cup {[NoBlock EXCEPT !.responseSize = <<[min |-> m, max |-> x]>>] : m \in -1..1, x \in -1..1}

Call(name, args) == [name |-> name, args |-> args, source |-> "none", server |-> "none"]
Calls == {Call(<<"a">>, {}), Call(<<"a">>, {"p"}), Call(<<"b">>, {}), Call(<<"s1", "a">>, {}),
          [Call(<<"a">>, {}) EXCEPT !.source = "host"]}
AnyCall == [name : {<<"a">>, <<"b">>, <<"s1", "a">>}, kind : {"none"}, source : {"none"},
            server : {"none"}, args : {{}, {"p"}}, required : BOOLEAN]
OfServer == [name |-> <<"a">>, kind |-> "none", source |-> "none", server |-> "s1", args |-> {},
             required |-> TRUE]
Expected == AnyCall \cup {OfServer, [OfServer EXCEPT !.source = "host", !.server = "none"]}
UpTo(S, n) == UNION {[1..k -> S] : k \in 0..n}

J == INSTANCE Expectations WITH Inputs <- {}

Host(events, toolMap, evidence) ==
  [Plain EXCEPT !.shape = "host", !.events = events, !.toolMap = toolMap, !.evidence = evidence]

Traces == {Host(J!Events(c, s), <<>>, "structured") : c \in UpTo(Calls, 3), s \in {{"s1"}, {"s1", "s2"}}}
ASkill == [kind |-> "skill", args |-> {}, source |-> "host", server |-> "none", name |-> <<"b">>]
Renamed == {Host(J!Events(c, {"s1", "s2"}) \o <<ASkill>>, m, e) :
              c \in UpTo(Calls, 1), e \in {"undefined", "observed"},
              m \in {[a |-> {<<"b">>}], [a |-> {<<"b">>}, b |-> {<<"b">>, <<"a">>}],
                     [b |-> {<<"s1", "a">>}]}}
ToolBlocks == {[NoBlock EXCEPT !.toolsTriggered = <<[calls |-> c, order |-> o, exclusive |-> x]>>] :
                 c \in UpTo(Expected, 2), o \in {"strict", "any"}, x \in BOOLEAN}
CountBlocks == {[NoBlock EXCEPT !.toolCallCount = <<[exact |-> x, min |-> m, max |-> 2]>>] :
                  x \in {-1, 1}, m \in {-1, 1}}

AJudge == [named |-> FALSE, registered |-> TRUE, provider |-> "openai", key |-> TRUE,
           oversized |-> FALSE, reps |-> MaxReps, threshold |-> 1]
JudgeConfigs ==
  {[AJudge EXCEPT !.reps = r, !.threshold = t, !.key = k] :
     r \in 0..MaxReps, t \in {1, 2}, k \in BOOLEAN}
  \cup {[AJudge EXCEPT !.named = TRUE, !.registered = r] : r \in BOOLEAN}
  \cup {[AJudge EXCEPT !.provider = p, !.oversized = o] :
           p \in {"anthropic-agent-sdk", "vertex-anthropic", "unknown"}, o \in BOOLEAN}
JudgeBlocks == {[NoBlock EXCEPT !.passesJudge = j] : j \in UpTo(JudgeConfigs, 2)}
               \cup {[NoBlock EXCEPT !.snapshot = <<[hasExpect |-> h]>>] : h \in BOOLEAN}

MCInputs == (Texts \X TextBlocks)
            \cup (Traces \X ToolBlocks)
            \cup (Renamed \X (ToolBlocks \cup CountBlocks))
            \cup ({Plain} \X JudgeBlocks)

E == INSTANCE Expectations

-------------------------------------------------------------------------------
SomeDatasets == {<<"c1", "c2", "c3">>, <<"c1", "c2", "c1">>}

C == INSTANCE ServerComparison WITH Datasets <- ComparedIds

TwoCases == <<"c1", "c2">>

V == INSTANCE VariantExperiment

Judgement(name, pass, score) == [name |-> name, pass |-> pass, score |-> score]
MetricSpec(metric, name, judge) == [metric |-> metric, name |-> name, judge |-> judge]

\* An id looks like the key of a case whose id is repeated.
SomeIds == {<<"a">>, <<"b">>, <<"[", "d", "a", "0">>}
SomeEntries == {<<>>, <<Judgement("a-b", <<1>>, <<>>), Judgement("a_b", <<0>>, <<2>>)>>}
SomeSpecs ==
  {<<MetricSpec("passed", <<>>, ""), MetricSpec("judge_pass", <<>>, "")>>,
   <<MetricSpec("judge_pass_for", <<>>, "a-b"), MetricSpec("judge_score_for", <<>>, "a_b"),
     MetricSpec("judge_pass_for", <<>>, "a_b")>>,
   <<MetricSpec("tier", <<"passed", "_rate">>, ""), MetricSpec("passed", <<>>, "")>>,
   <<MetricSpec("passed", <<>>, ""), MetricSpec("tier", <<"passed", "_rate">>, ""),
     MetricSpec("judge_score_for", <<"passed">>, "a_b")>>}
SixDigits == <<"0", "1", "2", "3", "4", "5">>

M == INSTANCE Metrics WITH Ids <- CaseIds, Judged <- JudgeEntries

\* One plugin registers a name of another, or of the built-in sources, and one nothing.
ThreePlans == [c1 |-> <<"p", "q">>, c2 |-> <<"p", "r">>, c3 |-> <<"n">>]
FourHooks == [p |-> <<"x", "y">>, q |-> <<"dir">>, r |-> <<"x">>, n |-> <<>>]

L == INSTANCE Plugins

Tagged(type, label) == [type |-> type, label |-> label, parsed |-> 0, fits |-> TRUE, asserted |-> <<>>]
Asserting(label, threshold) == [Tagged("known", label) EXCEPT !.asserted = threshold]
Misfit == [Tagged("known", <<>>) EXCEPT !.fits = FALSE]
Limits == [maxCases : {<<>>, <<1>>}, filterTags : {<<>>, <<{"t"}>>}]
Arm(servers, host, metrics, armJudges) ==
  [servers |-> servers, host |-> host, metrics |-> metrics, judges |-> armJudges]

Bare == [datasets |-> <<Tagged("known", <<>>)>>, controls |-> [maxCases |-> <<>>, filterTags |-> <<>>],
         run |-> [maxCases |-> <<>>, filterTags |-> <<>>], profile |-> FALSE, servers |-> <<>>,
         host |-> <<>>, metrics |-> <<>>, judges |-> <<>>, store |-> <<>>, arms |-> <<>>]

\* Controls; hosts, servers and metrics with arms; datasets, judges and stores.
SomeManifests ==
  {[Bare EXCEPT !.controls = c, !.run = r] : c \in Limits, r \in Limits}
  \cup {[Bare EXCEPT !.profile = p, !.servers = s, !.host = h, !.metrics = m, !.arms = a] :
          p \in BOOLEAN, s \in {<<>>, <<<<>>>>, <<<<"s">>, <<"s">>>>, <<<<"s">>, <<>>>>},
          h \in {<<>>, <<Tagged("known", <<"h">>)>>, <<Tagged("unknown", <<>>)>>, <<Misfit>>},
          m \in {<<>>, <<<<Tagged("known", <<>>)>>>>, <<<<Tagged("unknown", <<>>)>>>>},
          a \in {<<Arm(<<>>, <<>>, <<>>, <<>>)>>,
                 <<Arm(<<<<<<"s">>>>>>, <<[type |-> <<>>, label |-> <<>>, fits |-> TRUE]>>,
                       <<<<Tagged("known", <<"m">>)>>>>, <<>>),
                   Arm(<<>>, <<[type |-> <<"known">>, label |-> <<"p">>, fits |-> TRUE]>>, <<>>, <<>>)>>}}
  \cup {[Bare EXCEPT !.datasets = <<d, Tagged("known", <<>>)>>, !.judges = j, !.store = s, !.arms = a] :
          d \in {Tagged("known", <<>>), Tagged("unknown", <<>>), Misfit},
          j \in {<<>>, <<<<Asserting(<<>>, <<1>>), Asserting(<<>>, <<2>>), Asserting(<<"j">>, <<>>)>>>>,
                 <<<<Tagged("unknown", <<>>)>>>>},
          s \in {<<>>, <<Tagged("known", <<>>)>>, <<Tagged("unknown", <<>>)>>},
          a \in {<<>>, <<Arm(<<>>, <<>>, <<>>, <<>>), Arm(<<>>, <<>>, <<>>, <<<<Asserting(<<"j">>, <<2>>)>>>>)>>,
                 <<Arm(<<>>, <<>>, <<>>, <<<<Misfit>>>>)>>}}

DirectCase(tags) == [tags |-> tags, mode |-> "direct", toolName |-> TRUE, scenario |-> FALSE,
                     unknownField |-> FALSE]
HostCase == [DirectCase({"t"}) EXCEPT !.mode = "mcp_host", !.toolName = FALSE]
File(nested, readable, list) == [json |-> TRUE, nested |-> nested, readable |-> readable, cases |-> list]

SomeTrees ==
  {<<>>,
   <<File(FALSE, TRUE, <<DirectCase({"t"}), DirectCase({})>>),
     File(TRUE, TRUE, <<DirectCase({}), DirectCase({"t"})>>), File(FALSE, TRUE, <<DirectCase({"t", "u"})>>)>>,
   <<File(FALSE, TRUE, <<DirectCase({})>>), File(FALSE, FALSE, <<>>)>>,
   <<File(TRUE, TRUE, <<HostCase>>), [File(FALSE, TRUE, <<>>) EXCEPT !.json = FALSE]>>}

D == INSTANCE Datasets

F == INSTANCE Conformance WITH
  Offered <- SUBSET [name : {"", "t1"}, schema : {"object", "other"}],
  RequiredTools <- {"t1", "t2"}

S == INSTANCE ResultStore WITH Ids <- ArtifactIds, Limits <- ListLimits

-------------------------------------------------------------------------------
CaseOff ==
  /\ iterations = 1 /\ phase = "done" /\ answers = <<>> /\ iterationResults = <<>>
  /\ lastResult = NoResult /\ caseResult = NoResult
JudgingOff == answer = Plain /\ block = NoBlock /\ pc = "done" /\ results = <<>> /\ judges = <<>>
ComparisonOff ==
  /\ ids = "off" /\ runs = "off" /\ running = "off" /\ outcome = "off"
  /\ comparison = "off"
ExperimentOff ==
  /\ choice = "off" /\ status = "off" /\ baseline = "off" /\ round = "off"
  /\ queue = "off" /\ candidates = "off" /\ rounds = "off" /\ bestSoFar = "off"
  /\ bestAttempted = "off" /\ reason = "off"
MetricsOff ==
  /\ specs = "off" /\ cases = "off" /\ keys = "off" /\ usedKeys = "off"
  /\ perCase = "off" /\ rows = "off" /\ aggregated = "off"
PluginsOff ==
  /\ registry = "off" /\ modules = "off" /\ pluginLoads = "off" /\ loads = "off"
  /\ callers = "off" /\ builtins = "off"
DatasetsOff ==
  /\ manifest = "off" /\ recursive = "off" /\ tree = "off" /\ effective = "off"
  /\ reads = "off" /\ dataset = "off" /\ progress = "off"
ConformanceOff ==
  /\ asked = "off" /\ server = "off" /\ probe = "off" /\ checks = "off" /\ raw = "off"
  /\ attached = "off"
StoreOff ==
  provider = "off" /\ stored = "off" /\ saves = "off" /\ overlaps = "off" /\ reader = "off"

MCInit ==
  /\ part \in {"case", "judging", "comparison", "experiment", "metrics", "plugins", "datasets", "conformance",
             "store"}
  /\ IF part = "case" THEN Init ELSE CaseOff
  /\ IF part = "judging" THEN E!Init ELSE JudgingOff
  /\ IF part = "comparison" THEN C!Init ELSE ComparisonOff
  /\ IF part = "experiment" THEN V!Init ELSE ExperimentOff
  /\ IF part = "metrics" THEN M!Init ELSE MetricsOff
  /\ IF part = "plugins" THEN L!Init ELSE PluginsOff
  /\ IF part = "datasets" THEN D!Init ELSE DatasetsOff
  /\ IF part = "conformance" THEN F!Init ELSE ConformanceOff
  /\ IF part = "store" THEN S!Init ELSE StoreOff

MCNext ==
  \/ part = "case" /\ Next
       /\ UNCHANGED <<part, judging, others>>
  \/ part = "judging" /\ E!Next
       /\ UNCHANGED <<part, vars, others>>
  \/ part = "comparison" /\ C!Next
       /\ UNCHANGED <<part, vars, judging, experimentVars, metricsVars, pluginsVars,
                        datasetsVars, conformanceVars, storeVars>>
  \/ part = "experiment" /\ V!Next
       /\ UNCHANGED <<part, vars, judging, comparisonVars, metricsVars, pluginsVars,
                        datasetsVars, conformanceVars, storeVars>>
  \/ part = "metrics" /\ M!Next
       /\ UNCHANGED <<part, vars, judging, comparisonVars, experimentVars, pluginsVars,
                        datasetsVars, conformanceVars, storeVars>>
  \/ part = "plugins" /\ L!Next
       /\ UNCHANGED <<part, vars, judging, comparisonVars, experimentVars, metricsVars,
                        datasetsVars, conformanceVars, storeVars>>
  \/ part = "datasets" /\ D!Next
       /\ UNCHANGED <<part, vars, judging, comparisonVars, experimentVars, metricsVars,
                        pluginsVars, conformanceVars, storeVars>>
  \/ part = "conformance" /\ F!Next
       /\ UNCHANGED <<part, vars, judging, comparisonVars, experimentVars, metricsVars,
                        pluginsVars, datasetsVars, storeVars>>
  \/ part = "store" /\ S!Next
       /\ UNCHANGED <<part, vars, judging, comparisonVars, experimentVars, metricsVars,
                        pluginsVars, datasetsVars, conformanceVars>>

MCSpec == MCInit /\ [][MCNext]_allVars

-------------------------------------------------------------------------------
\* A verdict is earned: CaseRun!PassIsVerified and CaseRun!LossesDecideNothing.
VerdictEarned == PassIsVerified /\ LossesDecideNothing

\* Strict order is exact: Expectations!StrictOrderExact.
StrictOrderExact == part = "judging" => E!StrictOrderExact

\* All judges pass: Expectations!JudgesUnanimous.
JudgesUnanimous == part = "judging" => E!JudgesUnanimous

\* Two comparisons tell the same: ServerComparison!ComparisonsAgree.
ComparisonsAgree == part = "comparison" => C!ComparisonsAgree

\* What is recommended is the best: VariantExperiment!ApplyIsBest.
ApplyIsBest == part = "experiment" => V!ApplyIsBest

\* No case is lost from the metrics: Metrics!EveryCaseCounts.
EveryCaseCounts == part = "metrics" => M!EveryCaseCounts

\* Plugins load once: Plugins!PluginsLoadOnce.
PluginsLoadOnce == part = "plugins" => L!PluginsLoadOnce

\* A manifest applies once: Datasets!AppliedOnce.
AppliedOnce == part = "datasets" => D!AppliedOnce

\* What was saved is found: ResultStore!StoredIsFound.
StoredIsFound == part = "store" => S!StoredIsFound
===============================================================================
