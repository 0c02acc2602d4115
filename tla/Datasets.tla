-------------------------------- MODULE Datasets --------------------------------
(***************************************************************************)
(* From a manifest to the cases of a suite: the manifest                   *)
(* (src/src/evals/evalManifest.ts), its registered options and arms        *)
(* (frameworkRegistries.ts), what a suite makes of them (runEvalSuite.ts),  *)
(* and a dataset source that reads a directory (builtinDatasetSources.ts,  *)
(* buildEvalDataset.ts, datasetLoader.ts).                                 *)
(*                                                                         *)
(* An option is <<>> or <<value>>.  A tagged config is                     *)
(* [type, label, parsed, fits, asserted]: parsed counts how often its      *)
(* schema was applied, for a schema may transform its input; fits says if  *)
(* the schema accepts it; asserted is the threshold and reference of a     *)
(* judge, as an option, which its schema may strip.                        *)
(***************************************************************************)
EXTENDS Integers, Sequences, SequencesExt, FiniteSets

CONSTANTS
  Manifests,   \* the manifests: [datasets, controls, run, profile, host, servers, metrics, judges,
               \* store, arms]
  Trees,       \* the directories: sequences of [name, json, nested, readable, cases]
  Types        \* the types of config that are registered

None == <<>>

VARIABLES
  manifest,    \* as it was written
  recursive,   \* the option of the dataset
  tree,        \* the entries of the directory, in the order of their names
  effective,   \* what validateManifestRegistrations returned, as an option
  reads,       \* file |-> its cases, as an option; only while the directory is read
  dataset,     \* the cases of the dataset, as an option
  progress     \* "manifest", "registrations", "reading", "loaded", "rejected"

vars == <<manifest, recursive, tree, effective, reads, dataset, progress>>

-------------------------------------------------------------------------------
(* The manifest. *)

Controls == {"maxCases", "filterTags"}

\* normalizeSuiteControls: run.x and x may both be there if they say the same.
Conflict(m) == \E k \in Controls : m.run[k] # None /\ m.controls[k] # None /\ m.run[k] # m.controls[k]
Control(m, k) == IF m.controls[k] # None THEN m.controls[k] ELSE m.run[k]

\* validateLabels
BadLabels(servers) ==
  LET labels == SelectSeq(servers, LAMBDA s : s # None)
  IN Cardinality(ToSet(labels)) # Len(labels) \/ (Len(servers) > 1 /\ Len(labels) # Len(servers))

ParseConfig(config) == [config EXCEPT !.parsed = @ + 1, !.asserted = None]
Accepted(config) == config.type \in Types /\ config.fits

\* parseJudges: the schema of a judge does not change what it asserts.
ParseJudge(config) == [ParseConfig(config) EXCEPT !.asserted = config.asserted]

ParseOne(config) == IF config = None THEN None ELSE <<ParseConfig(config[1])>>
ParseAll(configs) == IF configs = None THEN None ELSE <<[i \in DOMAIN configs[1] |-> ParseConfig(configs[1][i])]>>
ParseJudges(configs) == IF configs = None THEN None ELSE <<[i \in DOMAIN configs[1] |-> ParseJudge(configs[1][i])]>>
AllAccepted(configs) == configs = None \/ \A i \in DOMAIN configs[1] : Accepted(configs[1][i])
OneAccepted(config) == config = None \/ Accepted(config[1])

\* A host with the fields of a patch over its own.
Patched(host, patch) ==
  IF patch = None THEN host
  ELSE <<[type |-> IF patch[1].type # None THEN patch[1].type[1]
                   ELSE IF host # None THEN host[1].type ELSE "claude-cli",
          label |-> IF patch[1].label # None \/ host = None THEN patch[1].label ELSE host[1].label,
          parsed |-> IF host # None THEN host[1].parsed ELSE 0,
          fits |-> patch[1].fits,
          asserted |-> None]>>

\* Mutant: arms patch the host that has already been parsed.
ArmHostParsed(m, arm) ==
  IF arm.host = None THEN ParseOne(m.host) ELSE ParseOne(Patched(ParseOne(m.host), arm.host))

\* The host of an arm: a patch of the manifest's host as it was written.
ArmHost(m, arm) == ParseOne(Patched(m.host, arm.host))

EffectiveArm(m, arm) ==
  [servers |-> IF arm.servers # None THEN arm.servers[1] ELSE m.servers,
   host |-> ArmHost(m, arm),
   metrics |-> ParseAll(IF arm.metrics # None THEN arm.metrics ELSE m.metrics),
   judges |-> ParseJudges(IF arm.judges # None THEN arm.judges ELSE m.judges)]

Effective(m) ==
  [datasets |-> ParseAll(<<m.datasets>>),
   host |-> ParseOne(m.host),
   metrics |-> ParseAll(m.metrics),
   judges |-> ParseJudges(m.judges),
   store |-> ParseOne(m.store),
   arms |-> [i \in DOMAIN m.arms |-> EffectiveArm(m, m.arms[i])]]

\* A config whose type is not registered, or that its schema refuses, rejects the manifest.
Invalid(m) ==
  LET e == Effective(m)
  IN \/ m.profile \/ Conflict(m) \/ BadLabels(m.servers)
     \/ ~AllAccepted(e.datasets) \/ ~OneAccepted(e.host) \/ ~AllAccepted(e.metrics)
     \/ ~AllAccepted(e.judges) \/ ~OneAccepted(e.store)
     \/ \E i \in DOMAIN e.arms :
          \/ BadLabels(e.arms[i].servers) \/ ~OneAccepted(e.arms[i].host)
          \/ ~AllAccepted(e.arms[i].metrics) \/ ~AllAccepted(e.arms[i].judges)

Rejected == progress' = "rejected" /\ UNCHANGED <<manifest, recursive, tree, effective, reads, dataset>>

\* loadEvalManifest: the schema of the manifest, and the paths of its datasets.
LoadEvalManifest ==
  /\ progress = "manifest"
  /\ \/ Rejected
     \/ /\ progress' = "registrations"
        /\ UNCHANGED <<manifest, recursive, tree, effective, reads, dataset>>

ValidateManifestRegistrations ==
  /\ progress = "registrations"
  /\ IF Invalid(manifest) THEN Rejected
     ELSE /\ effective' = <<Effective(manifest)>>
          /\ progress' = "reading"
          /\ UNCHANGED <<manifest, recursive, tree, reads, dataset>>

-------------------------------------------------------------------------------
(* What a suite makes of them for the cases of an arm. *)

\* A case's own host is a patch of the arm's host as it was written.
CaseHost(m, arm, host) == ParseOne(Patched(Patched(m.host, arm.host), <<host>>))

\* A manifest without arms runs as one arm that inherits everything.
DefaultArm == [servers |-> None, host |-> None, metrics |-> None, judges |-> None]

\* rawArm.judges ?? rawManifest.judges ?? []
RawJudges(m, arm) ==
  IF arm.judges # None THEN arm.judges[1] ELSE IF m.judges # None THEN m.judges[1] ELSE <<>>

\* The first judge as written of this type and name.
RawOf(judge, raws) ==
  LET same == {i \in DOMAIN raws : raws[i].type = judge.type /\ raws[i].label = judge.label}
  IN IF same = {} THEN judge ELSE raws[CHOOSE i \in same : \A k \in same : i <= k]

\* configuredJudges and getRegisteredJudgeOptions: the policy is parsed from the judge as
\* written when it is evaluated; what it asserts is that of the judge parsed with the manifest.
Policy(judge, raws) == [ParseConfig(RawOf(judge, raws)) EXCEPT !.asserted = judge.asserted]

-------------------------------------------------------------------------------
(* The dataset. *)

\* EvalCaseSchema.strict() and what a mode asks for.
Canonical(case) ==
  /\ ~case.unknownField
  /\ IF case.mode = "direct" THEN case.toolName ELSE case.scenario

\* selectEvalCases
SelectEvalCases(cases, filterTags, maxCases) ==
  LET kept[n \in 0..Len(cases)] ==
        IF n = 0 THEN <<>>
        ELSE IF cases[n].tags \cap filterTags[1] = {} THEN kept[n - 1] ELSE Append(kept[n - 1], cases[n])
      tagged == IF filterTags \in {None, <<{}>>} THEN cases
                ELSE kept[Len(cases)]
  IN IF maxCases = None \/ Len(tagged) <= maxCases[1] THEN tagged ELSE SubSeq(tagged, 1, maxCases[1])

Selected(cases) == SelectEvalCases(cases, Control(manifest, "filterTags"), Control(manifest, "maxCases"))

\* collect: nested directories only if recursive, in the order of their names.
Collected == {i \in DOMAIN tree : tree[i].json /\ (tree[i].nested => recursive)}

Init ==
  /\ manifest \in Manifests
  /\ recursive \in BOOLEAN
  /\ tree \in Trees
  /\ effective = None
  /\ reads = [i \in DOMAIN tree |-> None]
  /\ dataset = None
  /\ progress = "manifest"

\* loadFileDataset of a file of the directory: the controls are taken out of its manifest.
ReadFile(i) ==
  /\ progress = "reading" /\ i \in Collected /\ reads[i] = None
  /\ tree[i].readable /\ tree[i].cases # <<>> /\ \A k \in DOMAIN tree[i].cases : Canonical(tree[i].cases[k])
  /\ reads' = [reads EXCEPT ![i] = <<SelectEvalCases(tree[i].cases, None, None)>>]
  /\ UNCHANGED <<manifest, recursive, tree, effective, dataset, progress>>

\* The first file that fails rejects Promise.all.
ReadFails(i) ==
  /\ progress = "reading" /\ i \in Collected
  /\ ~(tree[i].readable /\ tree[i].cases # <<>> /\ \A k \in DOMAIN tree[i].cases : Canonical(tree[i].cases[k]))
  /\ Rejected

NoFiles == progress = "reading" /\ Collected = {} /\ Rejected

\* The cases of all the files collected, in the order of the names.
Concatenated(cases) == FlattenSeq([i \in DOMAIN tree |-> IF i \in Collected THEN cases[i] ELSE <<>>])

\* loadDirectoryDataset after Promise.all.  A suite takes the controls out of the manifest it
\* gives to a source and selects the cases itself; another caller leaves them in.
Joined ==
  /\ progress = "reading" /\ Collected # {}
  /\ \A i \in Collected : reads[i] # None
  /\ LET all == Concatenated([i \in Collected |-> reads[i][1]])
     IN dataset' \in {<<SelectEvalCases(all, None, None)>>, <<Selected(all)>>}
  /\ progress' = "loaded"
  /\ UNCHANGED <<manifest, recursive, tree, effective, reads>>

Next ==
  \/ LoadEvalManifest \/ ValidateManifestRegistrations
  \/ (\E i \in DOMAIN tree : ReadFile(i) \/ ReadFails(i))
  \/ NoFiles \/ Joined

-------------------------------------------------------------------------------
(* Properties. *)

Once(configs) == configs = None \/ \A i \in DOMAIN configs[1] : configs[1][i].parsed = 1
OneOnce(config) == config = None \/ config[1].parsed = 1

\* The judges of an arm: what they assert is what was written, and each is evaluated with a
\* policy that was parsed once.
JudgedOnce(m, arm) ==
  LET raws == RawJudges(m, arm)
      judges == EffectiveArm(m, arm).judges
  IN judges # None =>
       \A i \in DOMAIN judges[1] :
         /\ judges[1][i].parsed = 1 /\ judges[1][i].asserted = raws[i].asserted
         /\ Policy(judges[1][i], raws).parsed = 1
         /\ Policy(judges[1][i], raws).asserted = raws[i].asserted

\* What a manifest says applies once.  Its filter and limit: what a suite selects of the dataset
\* is what they leave of the cases of all the files in the order of their names, in whatever
\* order the files were read and though the source may have selected before.  Its configs: every
\* dataset, host, metric, judge and result store of the manifest that is returned, those an arm
\* inherits or patches included, has been through its schema exactly once, and so have the host
\* of a case and the policy of a judge, which a suite parses from what was written; and no
\* schema changes what a judge asserts.  (The built-in dataset sources check their config a
\* second time, with schemas that transform nothing.)
AppliedOnce ==
  /\ progress = "loaded" =>
       Selected(dataset[1]) = Selected(Concatenated([i \in Collected |-> tree[i].cases]))
  /\ effective # None =>
       LET e == effective[1]
       IN /\ Once(e.datasets) /\ OneOnce(e.host) /\ Once(e.metrics) /\ Once(e.judges) /\ OneOnce(e.store)
          /\ \A i \in DOMAIN e.arms :
               OneOnce(e.arms[i].host) /\ Once(e.arms[i].metrics) /\ Once(e.arms[i].judges)
          /\ \A arm \in {DefaultArm} \cup ToSet(manifest.arms) :
               /\ JudgedOnce(manifest, arm)
               /\ \A type \in Types :
                    OneOnce(CaseHost(manifest, arm, [type |-> <<type>>, label |-> None, fits |-> TRUE]))
===============================================================================
