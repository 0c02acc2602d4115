# mcp-server-tester in TLA+

`mcp-server-tester` tests MCP servers: Playwright fixtures open a session to a server, an
evaluation framework runs datasets of cases against it (directly, or by way of a host that lets a
model call the tools), results are judged, stored, compared and reported, and a CLI generates
datasets and keeps OAuth tokens for servers that want them. This directory models the parts of it
that have states: what is concurrent, fails half way, or shares files with other processes, and
the algorithms that decide a verdict.

    tlc -config MCReports.cfg MCReports        one run; PROJECT.json lists all of them
    tlapm Reports_proofs.tla                   the proofs about the components of one run

`PROJECT.json` relates every definition to the lines it models, every property to a plausible bug
that breaks it (a `\* Mutant:` operator before the definition it replaces), every hazard of the code
to the properties that look for it, and every theorem to what it establishes. Line numbers below
are of `src/src/`.

## 1. Inventory

### Components, their state and what makes them correct

| Component | State it keeps | What makes it correct | Modules |
|---|---|---|---|
| Eval runner, dataset (`evals/evalRunner.ts:1446-1780`, `evals/baseline.ts`) | the shared index, the array of results | each case once, its result in its slot, nothing shown of a rejected run, every run settles | `CaseLedger`, `EvalRunner` |
| Eval runner, case (`evalRunner.ts:1026-1424`) | results of the iterations | a case passes on evidence only, lost iterations decide nothing | `CaseRun` |
| Validators and judges (`assertions/validators/`, `judge/`) | judges in flight, results of the fields | strict order is a search for a subsequence, all judges pass | `ToolCalls`, `Expectations` |
| Built-in hosts (`evals/builtinHosts.ts`, `evals/anthropicApiHost.ts`, `evals/mcpHost/adapters/`) | connections, child process, browser, directory with credentials, counters | ends in time, cleans up what is opened late, keeps to its budget | `HostRun`, `ApiHost`, `BrowserHost` |
| External hosts (`evals/externalHost/`) | one clipboard and one desktop app for all runs | a confident answer is the run's own, its session is not overlooked | `ExternalHost` |
| MCP session (`mcp/clientFactory.ts`, `mcp/fixtures/mcpFixture.ts`, `fixtures/mcp.ts`) | client, agents, calls in flight | retries within the budget, agents released, late answers not reported, calls settle | `Session` |
| Token storage (`auth/storage.ts`) | a JSON file and its `.tmp` per kind, a directory per server | each file is an atomic register, keys lead back to servers | `AtomicRegister`, `StateFile`, `StoredServers` |
| CLI OAuth client (`auth/cli.ts`, `auth/oauthFlow.ts`, `auth/discovery.ts`) | three files of a server, shared by processes; a loopback server | refresh tokens survive concurrent use, a refresh names their client, a login exchanges its own code and ends | `TokenClient`, `LoginFlow` |
| OAuth for Playwright (`auth/oauthClientProvider.ts`, `auth/setupOAuth.ts`) | a cached state, written as a whole in place | tests that do not overlap keep the session, if the client they refresh with is the one that logged in | `OAuthProvider` |
| Eval suite and batch (`evals/runEvalSuite.ts`, `evals/runEvalBatch.ts`) | items of a batch, results of the arms | only what was completed is skipped, one failure does not stop the others | `EvalBatch` |
| Result stores (`evals/resultStore.ts`) | `<id>.json`, `latest.json`, or the objects of a bucket | what was saved is found, and only overlapping saves tear a file | `ResultStore`, `EvalBatch` |
| Playwright reporter (`reporters/mcpReporter.ts`) | collected results, output directory, store | nothing twice, the newest runs kept, a report whatever the store does | `Reporter` |
| Comparison and experiments (`evalRunComparison.ts`, `serverComparison.ts`, `variantExperiment.ts`) | two runs, the best variant so far | the comparisons agree, what is recommended is the best | `Comparison`, `ServerComparison`, `VariantExperiment` |
| Metrics (`metrics.ts`) | rows keyed by case | no case is lost | `Metrics` |
| Datasets and manifests (`evalManifest.ts`, `builtinDatasetSources.ts`) | configs, files in flight | a manifest applies once | `Datasets` |
| Registries and plugins (`frameworkRegistries.ts`, `plugins/loadPlugins.ts`) | process-wide maps, loads in flight | a plugin's hook runs once | `Plugins` |
| Dry-run proxy (`mcp/dryRunProxy.ts`) | cache of the tools | a write is never forwarded | `DryRunProxy` |
| Conformance probes (`spec/conformanceChecks.ts`) | the report | | `Conformance` |
| Interactive CLI (`cli/commands/generate`, `init`, `token`) | forms, a connection, a dataset file | cases were seen, connections closed | `GenerateWizard`, `Suggestions`, `InitWizard`, `StoredServers` |
| Reporter web page, parsers of traces, prompts | none | | not modelled (section 6) |

### How they interact

    Playwright test ─ fixtures/mcp.ts ─ Session ──HTTP/stdio──> MCP server <── DryRunProxy
          │              ├ tryGetAccessToken ─ TokenClient ─ StateFile (three per server) <─ LoginFlow
          │              └ OAuthProvider (one state file, in place)
          ├ runEvalDataset (EvalRunner) ─ runEvalCase (CaseRun) ─┬ call of a tool (Session)
          │        ^ Datasets, Plugins                           ├ HostRun, ApiHost, BrowserHost
          │                                                      ├ ExternalHost (desktop app)
          │                                                      └ Expectations ─ ToolCalls, judges
          └ testInfo.attach ─> Reporter ─> run-*.json, report, ResultStore
    run / batch CLI ─ runEvalBatch ─ runEvalSuite (EvalBatch) ─ runEvalDataset
                        └ ResultStore      └ Metrics, Comparison, ServerComparison, VariantExperiment
    generate / init / token / login CLI ─ GenerateWizard, InitWizard, StoredServers

Components meet through promises (the race of a host with its timer), callbacks
(`onCaseComplete`), attachments (read asynchronously by the reporter) and files (tokens, artifacts,
runs) that several processes use without a lock. What one module takes from another is stated at the
boundary: `CaseRun` takes from a host an answer with its evidence and from `Expectations` a verdict;
`EvalRunner` takes from `CaseRun` a verdict or an exception; `EvalBatch` takes from `EvalRunner` a run
that ends or throws; `TokenClient` takes from `LoginFlow` a login that succeeds or fails, and from
`StateFile` files that behave like registers, which is what `StateFile` proves of one writer and what
run `state_file_two` shows to be false of two; `ServerComparison`, `VariantExperiment` use the
operators of `Comparison`.

### What is hard here

Everything is single-threaded JavaScript, so atomic steps are the stretches between two awaits, and
what is hard is what happens across them: workers sharing an index; orphaned workers of a rejected run;
a timer that wins while a host is still opening things; a model loop nobody waits for any more;
answers after a timeout; a wizard that is left while a promise is in flight; two callers of one plugin.
Between processes there is no order at all: rotating refresh tokens, two saves through one `.tmp` name,
batches that look for each other's artifacts, reporters that prune one directory, runs that share one
desktop app with its user. And any of them may die between two steps.

## 2. The modules

**CaseLedger / EvalRunner.** `CaseLedger` is what `runEvalDataset` promises, without workers: every case
goes todo → running → pass, fail or thrown, at most `Limit` at a time, and the run resolves, with exactly the
ledger's verdicts, only when nothing runs and nothing was thrown. `EvalRunner` is the code: `Launch` is
the claim of the index (test, read, advance: one step, since there is no await in it), `FinishCase` a case
that returns, `Resume` `onCaseComplete` and the store into the slot, `TaskThrows` the rejection of
`Promise.all`, after which other workers go on. `Summarise`, `CompareBaseline`, `Save`, `Attach` are the
awaits after the pool. The refinement maps a case held by a busy worker to "running" and one held by a
crashed worker to "thrown".

**CaseRun.** One iteration is one step: its answer is any combination of error, evidence, failure kind and
verdicts the code can tell apart; the last step folds the iterations. `answers` keeps what came in, so that
the properties compare the result with the answers and not with the code's own counters.

**ToolCalls / Expectations.** `ToolCalls` has the operators of `validateToolCalls` and of the mapping of tool
names; an event names its source and its server, which an expected call may ask for.
`Expectations` judges one answer by one block: the fields in the order of the code, then the judges,
which answer in any order, once per repetition. Texts are sets of words, patterns what they match.

**HostRun.** `phase` is where `execute()` is; `deadline`, `aborted` and `outcome` are the timer, the
controller and the settled race. After the race is lost `execute()` keeps going, and every step of it looks at
what the code looks at (the signal before and after an await, or not at all). The simulation's own
loop (`ToolCall`, `ToolAnswers`) goes on independently, as the provider's SDK does.

**ApiHost.** `at` is where the loop is: connecting to the servers one after the other, listing, asking the model,
calling, tearing down. `Expire` is the one deadline that every await races with, the teardown too; a connection
that arrives afterwards closes itself. **BrowserHost** is the same race around a script nobody can stop.

**ExternalHost.** The configuration is merged with the implementations of the platform, the bindings of each capability are
tried until one gives a result, the prompt goes through the one clipboard into the current session of
the app, and the sessions that are new or changed since the snapshot are searched. Sessions are logs of prompts and
answers; the user of the app writes to them as well.

**Session.** `phase` walks through one fixture: the token of an earlier login may be mixed into the
configuration, the configuration is validated, credentials are chosen, agents made, Streamable HTTP tried, then
SSE, the pair retried by `retryWithBackoff`; calls race with their timers and their answers may come late; the
close terminates the session, closes the client and the registered agent.

**AtomicRegister / StateFile.** Names are bound to inodes and an open file keeps its inode. A save is three
steps (open and truncate the `.tmp`, write, rename), a load two, and a process may crash between any two.
Writing over a longer text that another process has just written leaves a torn text.

**TokenClient.** Each file is a register. Every step is one file access or one request. The authorization
server (external) numbers its grants, binds them to the client they were issued to, asks a confidential client for
its secret, and revokes a refresh token when it is used if `Rotates`. Tokens that name their client are refreshed with it, and
with the secret of `client.json` if that is its client; those that name none (`injectTokens`) with the client `getOrRegisterClient`
finds: the one that is configured, the one of `client.json`, or a new registration (cli.ts:595-611). A login takes its client from
the same place. `Starts` is what was there before. `past` remembers whether a grant was lost on its way to the file, and
whether somebody logged in. **LoginFlow** is the login it takes as one step: discovery, the loopback server with its
timer, requests of anybody, the exchange. **OAuthProvider** is the other client: a test loads the state once and
writes back the whole of what it keeps; what it refreshes with is the client that is configured or the one of the state, which
need not be the one that logged in; and each scope of `invalidateCredentials` takes something away. **StoredServers** has the keys of the directories and what `login`, `token` and
`generate` make of them.

**EvalBatch.** An item of a batch lists the summaries, reads them, skips or prepares a run, runs its arms, and
stores an artifact per arm and then the summary, each by opening (torn), writing (whole) and writing
`latest.json`. `ArmRun` is `run --arm`, in one step because its interleavings are those of a batch with one
arm. `Edit` changes the manifests at any time, `Crash` ends a process at any step. **ResultStore** is the store itself, for both
providers: a file is truncated and then written in place, so that two saves that have one open at once may leave a mixture
(`overlaps` remembers who did); an object of the bucket appears as a whole.

**Reporter.** `reading` is `onTestEnd`, which Playwright does not wait for, `pc` is `onEnd`; the output
directory and the store are shared by the processes. Runs are their timestamps, which are also their file names.

**Comparison, ServerComparison, VariantExperiment, Metrics, Datasets, Plugins, Conformance.** Runs are sequences of
case results whose ids need not be unique. Two servers are run at once; variants are scored in rounds
against one baseline; the keys of metric rows are sequences of parts, so that an id can look like a made-up key, and the name of a
metric like the key of another's rate; a config (of a dataset, a host, a metric, a judge or the result store) counts how often its
schema has parsed it, and `Datasets` has what a suite makes of a manifest as well: the host of a case, and the judges with their
policies; a load of a plugin is queued, runs its hook, resolves or fails.

**DryRunProxy, GenerateWizard, Suggestions, InitWizard.** One action per message of the host, per handler of a
prompt and per continuation of a promise. Handlers of React components are closures of the render that drew
them, which `InitWizard` keeps apart from the current state.

## 3. The runs

Several components share one run when they do not meet: the MC module has a variable `part`, chosen in
its initial states, and only the part that was chosen takes steps. `MCStorage`, `MCReports`, `MCHosts`,
`MCEvaluations` and `MCCommands` are of this kind; their properties name the property of the module they
come from.

| Run | Instance | Shows |
|---|---|---|
| `reports` | 4 cases, 3 workers, every baseline, cases and callbacks that throw; or 2 reporters, 4 old runs, limit 3, a store that fails | `RejectedNotAttached`, `DeltaExplained`, `RunSettles`, `ImplementsLedger`; `NoDuplicates`, `NewestKept`, `ReportDespiteStore` |
| `evaluations` | a case of 1 to 3 iterations; answers with up to 3 calls and blocks with up to 2; 2 judges, 2 repetitions; datasets of 3 cases with and without repeated ids; 2 rounds of 2 variants; 3 case results of 2 datasets; 4 plugins, 3 callers; directories of 3 files, manifests whose every config may be unknown or refused; 8 probes; 2 savers and a reader | `VerdictEarned`, `StrictOrderExact`, `JudgesUnanimous`, `ComparisonsAgree`, `ApplyIsBest`, `EveryCaseCounts`, `PluginsLoadOnce`, `AppliedOnce`, `StoredIsFound` |
| `hosts` | SDK and CLI host with 2 servers and a budget of 2, with and without a timeout; the API host with 2 servers; a browser; 2 runs over one desktop app with its user | `EndsClean`, `HostsEndInTime`, `NothingLeftOpen`, `HighMeansOwn`, `NotOverlooked` |
| `session` | every configuration, 2 calls, 2 retries | `RetryDiscipline`, `AgentReleased`, `ReportsWhatReturned`, `CallsSettle` |
| `storage` | 1 writer and 2 other processes over one file, with crashes; or 2 processes with every kind of call, configured with a client or not, over 4 starts; rotation, a confidential client, lost requests and answers, failing saves, crashes | `NoTornLoad`, `ImplementsRegister`; `FileRefreshLive`, `OwnClient`, `NeverBackwards` |
| `batch` | 2 batches, 2 manifests, 2 arms, single-arm runs, edits, failures, crashes | `SkippedWasComplete`, `Immutable`, `BatchReturnsEventually` |
| `commands` | a login with stray requests; 2 tests over one OAuth file, with and without bound tokens and invalidated credentials; the wizards; 4 URLs; a proxy with 2 tools and 2 requests | `OwnCodeOnly`, `LoginSettles`, `SerialKeepsSession`, `CasesWereSeen`, `ConnectionsReleased`, `TokensAreFound`, `WritesStayHere` |
| `state_file_two` | as `storage` with 2 writers | `NoTornLoad` fails (finding 1) |
| `token_stale` | 2 workers that look for a token | `ReturnsValid` fails (finding 2) |
| `token_static` | a server that does not reissue refresh tokens | `StaysRefreshable` fails (finding 3) |
| `session_credentials` | every configuration | `ClientCredentialsUsed` fails (finding 4) |
| `init_install` | one prompt answered with No | `InstallsAsAsked` fails (finding 5) |

### Bounds, and why they are enough

- `reports`: three workers are needed for one to throw, one to be orphaned in a case and one to be orphaned
  between cases; a fourth case leaves one to be claimed after the rejection. `stopOnFailure` forces one
  worker, which makes the pool a loop: that case is proved (`StopsEarly`) and has no run. One more old run
  than the limit, so that the first prune deletes one and the second, of the other process, the next.
- `evaluations`: the fold of a case looks at counts only; three iterations have a proper majority, and a
  threshold of 2/3 is met with equality. Three calls and two expectations (each with and without arguments, required
  or not) have every order and a repeated call. Two judges disagree; two repetitions have a mean that is no verdict.
  Ids repeat in three cases. Two rounds of two variants let a later round be worse, equal, better, empty or
  disqualified. Three case results are the two of one key and one whose id is the made-up key; six digits are two for each. The sequences of
  metrics have two of one name and two of one key, in both orders.
  One plugin registers a name of another, one a built-in name, one nothing. One artifact per saver, of the same or another
  id and kind, is every overlap of two saves; the third process reads.
- `hosts`: the second server makes "connected some, aborted in between" happen; the budget of 2 lets two
  calls be asked for at once at the limit. Two runs, three sessions and five events let a run find a session that is
  older than it, shared with the other run, or continued by the user.
- `session`: two retries have a first, a middle and a last attempt. Calls do not interact but through the
  close; two are there to be in different states when it happens.
- `storage`: a torn text needs two lengths; four inodes are the file, the `.tmp`, and two replaced files that
  are still open for reading. Three grants are a stored grant and two refreshes, so that a token file can be replaced
  twice and the second process can hold what was replaced. A behaviour registers one client (`MaxClients` is one more than `Known`), and
  what a race of two registrations leaves is one of the `Starts`: tokens of one client beside the `client.json` of another. The other
  starts are an empty directory, and tokens that name no client, with their `client.json` or with a configured, confidential client.
- `batch`: one worker per batch, two batches: the interleavings of two workers of one batch on different
  manifests are those of two batches. `MaxRuns = 2` lets one run be found, or be torn, while another is
  stored; a batch with no run left waits in "prepare", where `Throws` is always possible.
- `commands`: two tests are what it takes to lose a session, one writing back what the other replaced; two cases let the second contain leftovers
  of the first; the URLs are one with a port, one that looks like it, and two with unsafe characters.

`CHECK_DEADLOCK FALSE` stands where a run of the program comes to its end.

### Fairness

Each module states what the code's scheduling gives and no more:

- `EvalRunner`: workers and the caller go on. A case is assumed to return or throw, which the timers of
  `Session` and the hosts see to.
- `HostRun`, `ApiHost`, `BrowserHost`: timers fire, aborted requests and killed children end, cut connections
  close, a browser closes. A server, a model, a script and a graceful close may hang for ever: nothing fair is said of them.
- `Session`: the timers of calls fire and attachments are written. The server need not answer and the test need not end.
- `LoginFlow`: requests of discovery and of the exchange end, the timer fires; nobody need call back.
- `EvalBatch`: a batch whose process lives takes a step when it can.
- `Reporter`: a process that lives goes on reading attachments and writing its report; the store answers or fails.

## 4. The proofs

Checked by `tlapm` for every value of the constants that satisfies the modules' assumptions. A proof module extends
the MC module of a run, so that a theorem names the very property the run checks. A run with several parts has one
invariant with a conjunct per part; a part that has not begun stays as it is, and a part that no theorem is about is
not in it. Every invariant was checked by TLC before it was proved.

**Reports_proofs** (`EvalRunner`, `Reporter`). `PoolInv` is inductive. The claimed cases are exactly `1..index`, each started once
(`ClaimedPrefix`); a busy worker holds a claimed case, alone, that has no result yet (`Exclusive`); every
claimed case is stored or held (`Accounted`); what is stored is what the case returned (`Faithful`); a worker
leaves only when the index is past the end (`LeavesLast`); the phases after the pool have no busy worker
(`Quiet`). That a case starts once is not inductive by itself: it needs the prefix, since a claim is safe only because
everything from the index on is unclaimed. From `PoolInv` follow `EachCaseStartsOnce`, `OrderPreserved`,
`NoCaseIsLost`, `RejectedShowsNothing`, `SameResultsTwice` and `FrozenResults`; `StopsEarly` adds that with
`stopOnFailure` the single worker holds the last claimed case, so that no case after a failing one starts
(evalRunner.ts:1636). `DeltasAddUp` counts: with unique ids and complete results, both pass counts have the cases that
passed twice in common, and the rest are the two buckets. `PoolImplementsLedger` maps the initial state and every step to `CaseLedger`; the
bound on cases in flight is a cardinality argument: busy cases map into the workers. For the reporters, a run that a cleanup has
listed has `HistoryLimit` newer ones (`ListedAreOld`), and that survives the other cleanups: if one of them deletes a newer run, then
those still newer than the deleted one are enough. `NewestStay` and `CallsAreReportedOnce` follow for any number of processes.

**StateFile_proofs.** `TypeCorrect` holds for any number of writers. The others assume `OneWriter` (at most one
process saves), and `FileInv` is the strengthening: the `.tmp` inode belongs to the saving process (`TmpOK`),
and the file and everything open for reading is whole and is not the `.tmp` (`WholeOK`). From it: loads and
saves never throw, and the file implements `AtomicRegister`, where the rename is the step at which a save
takes effect. `OneWriter` is an assumption about use, not a fact of the code: finding 1 is what happens without it.

**TokenClient_proofs.** For any number of processes and no lock: unless a grant was lost on its way, the refresh token in the file
is one the server accepts or who used it up is about to replace it (`FileStaysUsable`); a refresh names the client of its token
or, when its tokens name none, the client it is configured with or finds, which is theirs unless another was configured or cached
(`RefreshesNameOwner`); and unless somebody logs in or clears it, the file does not go back to an older token (`FileGoesOn`). The last is
proved of a server that rotates (`Rotates` is a hypothesis of the theorem, and true in the run): there one chain of grants
goes through the file, because a refresh token is used once (`OneChain`); with another server two processes may refresh the same
token, and the slower one writes last.

**Session_proofs.** For any number of calls and retries: retries stay within the budget and follow only what is retried
(`RetriesWithinBudget`), the agents of a session that closed are released (`AgentsAreReleased`; those of a connection that
failed are not, see section 5), and what the test was told of a call is what is attached (`ReportMatchesTest`).

**Hosts_proofs.** For any number of servers and any budget: however a run of an SDK, CLI, API or browser host ends, nothing
of it is left open or running once it is at its end (`HostsEndClean`). The invariant says who owns a connection: the simulation, the
teardown, or the late arrival that closes itself. For the desktop host, a confident answer comes after the prompt of its own run
(`ConfidentAnswersAreOwn`) and the session of a waiting run is looked at (`WaitingRunsLook`), for any number of runs, sessions and events.

**EvalBatch_proofs.** `StoreInv`: a run that is executed or stored has an id that was given out, and one owner
(`RunsOwned`, `RunsDistinct`); nothing is stored for ids not yet given, nor for a run whose arms still run
(`NotStored`, `NotStoredYet`); the parts before the one being saved are whole and those after it are not begun
(`SavedInOrder`), so that a whole summary of all the arms has all their artifacts (`SummaryLast`). From it:
artifacts are immutable, `latest.json` never names what cannot be loaded, and a skipped manifest was completed
(`SkipsOnlyComplete`), since what is complete can no longer change.

**Commands_proofs.** A login exchanges only its own code (`LoginTakesOwnCode`), whatever requests come; tests that do not overlap
keep the session (`SerialTestsKeepSession`), for any number of them, if nobody invalidates credentials and setup is configured with a client
wherever the server binds refresh tokens to clients (`KeepsClient`; section 5 has what happens otherwise); a write stays in the dry-run proxy (`ProxyKeepsWrites`), for any
tools, hints and messages; the wizard's connections are closed and its cases were seen (`WizardReleases`,
`WizardWritesWhatItSaw`); stored tokens are found (`StoredTokensAreFound`), for URLs of scheme, port and path over the alphabet of
`ServersAssumption`: one safe, one unsafe and one separating character, a digit, and the one that replaces unsafe ones.

**Evaluations_proofs.** `VerdictsAreEarned`: what is kept of an iteration is what its answer says (`Kept`), so that the
iterations judged are those that count, and a case passes on proved calls only, for any number of iterations and any threshold.
`PluginsAreLoadedOnce`: what `pluginLoads` has of an entry is its one load that is not rejected (`Known`, `Points`), a hook has registered
every name it went past (`HookRegistered`), and what a caller has behind it is resolved (`Told`), for all plans and hooks.
`SavesAreFound`: an artifact is stored in its place (`InPlace`), where a save has been something is left (`Left`), and a reader has found, or has
yet to look at, everything saved before its call (`Reading`); a file is torn only while a save has it open, after one that failed
in it, or after two that had it open at once (`Tears`), for any number of savers. `CasesPassAllJudges`: a judge is
passed only when all of its repetitions are given (`AllGiven`), for all blocks. `StrictOrderIsExact`: the verdict on the tool calls is
kept (`TraceInv`), and the search behind it is the last of the places it went through (`Search`), which rise, lie behind what was found
(`PlacesRise`, `SearchIsSound`) and never pass a choice of positions that exists (`SearchIsComplete`); the induction on
the calls is the one of `Least` and `Up`, over sets of numbers. `ComparisonsTell`: each side's results are those of the dataset in its order, and both
are complete when they are compared (`Side`), so that with unique ids every case is in exactly one bucket, and in the one its two outcomes say,
for all datasets. `TheBestIsApplied`: no candidate is eligible that broke a case (`Honest`), every candidate belongs to a round (`Filed`), the best so far is eligible
and no eligible one of the rounds is better (`Best`), and something is attempted with the first candidate (`Attempted`), for any number of
rounds and variants; the best of a round is a fold over its candidates, which `BestOfRound` opens. `EveryCaseIsCounted`: the
key made up for a repeated id is one that is not in use, and there is one, for the keys in use are at most two for
each case and the occurrences differ (`FreeKey`, `Used`); keys therefore differ (`Keyed`) and no row replaces another
(`Rowed`), for any number of cases. `ManifestsApplyOnce`: the files are joined in their order (`Flat`), a selection from the selection is the same (`SelectedAgain`), and what a schema
has parsed is not parsed again (`ParsedOnce`), for all manifests and directories. Functions and folds that recurse over numbers are opened by `Recursion`, which is
proved from the existence of a least counterexample. The assumptions: traces, expected calls, datasets, case ids and files are sequences; repetitions and
metrics are numbers, `maxCases` is positive; a plan is a sequence of plugins; ids of artifacts are generated, so that none is "latest"; the
occurrences written as `Digits` differ and are two for each case; a manifest as it is written has been through no schema.

Every safety invariant, action property and refinement of the passing runs is thus stated by a theorem.

Only model-checked: liveness (`RunSettles`, `ReportDespiteStore`, `CallsSettle`, `HostsEndInTime`, `NothingLeftOpen`,
`BatchReturnsEventually`, `LoginSettles`), since fairness and ENABLED are outside the prover.

## 5. Findings

1. **Two savers share one `.tmp` name** (`auth/storage.ts:464`): one truncates or overwrites what the other is
   about to rename, and a load reads a text that does not parse, against "Write data atomically" (storage.ts:453).
2. **The verdict is about another token** (`auth/cli.ts:240`): tokens are loaded, then `hasValidToken` reads the
   file again; when another process refreshed in between, the expired token is returned as valid.
3. **A refresh token is forgotten** (`auth/cli.ts:783`): a refresh answer without `refresh_token` keeps the old one
   valid at the server (RFC 6749, section 6), but the file no longer has it.
4. **Client credentials are not used** (`fixtures/mcp.ts:130`): a token of an earlier `login` is mixed into the
   configuration and replaces the grant that the documentation describes.
5. **No means yes** (`InitApp.tsx:271`): the handler of the last prompt sets a state and calls a callback of
   the render before it, so `npm install` runs after "Install dependencies now?" was answered with No.

Seen while modelling, and without a run. Where a property leaves one of these out, its comment says so.

Sessions and tokens
- `fixtures/mcp.ts:130` also makes a configuration with `auth.oauth` (no `authStatePath`) or `accessTokenEnv`
  invalid once somebody has logged in; a session with client credentials is reported with authType "none".
- `LoginApp.tsx:62`: `--force` clears the tokens first, and a refresh in flight in another process puts tokens back that the login then reuses.
- `cli.ts:665`: a callback with a wrong state ends the login that the real callback would have completed, and a port in
  use leaves the timer running.
- `setupOAuth.ts:83`, `:166`: without a configured `clientId` setup logs in as a default client that is saved nowhere; the
  provider of a test registers another, and a server that binds refresh tokens to clients (cli.ts:571 says they are bound) answers
  its refresh with `invalid_grant`, upon which the tokens are deleted. `SerialKeepsSession` is about other configurations.
- `injectTokens` stores tokens that name no client: a refresh presents them as the client that is configured or cached, or
  as one registered for it, and is refused if they belong to another.
- `oauthClientProvider.ts:261`: tests that overlap lose the session, as each writes back all it had loaded; `:285` writes in place.
- `storage.ts:126`: servers whose URLs differ in scheme, or in a port that looks like a path, share their tokens; a path that
  begins or ends with an unsafe character is not found again; `token` exports expired tokens.
- `clientFactory.ts:367`: whether an attempt is retried depends on the error of the SSE fallback alone; agents made
  for a connection that fails, and a proxy agent that the TLS agent replaces, stay open.

Hosts
- `anthropicApiHost.ts:110`: closing a connection that came late is under no deadline; an override of a bare name is
  ignored in silence when the qualified one is given.
- `browser/runner.ts`: the script goes on after the timer until its browser is gone; the launch is outside the `try`; a
  failing `browser.close()` replaces the result.
- `macosDesktop.ts:151`: concurrent cases share the clipboard. `anthropicClaude.ts:532`: a run without a marker that begins
  right after another matches its session; a prompt the user adds in the session of a run is answered in its place,
  with high confidence; `:501` calls a partial transcript parsed.

Evaluations
- `evalRunner.ts:1374`: the pass rate leaves out the iterations lost to the infrastructure; docs/evals-guide.md:336 speaks of all.
- `evalRunner.ts:1464`: concurrency 0 starts no worker, and the run resolves with holes; `:1376`: with a threshold of 0 a case passes that was never judged.
- `assertions/validators/toolCalls.ts:202`: in strict order an optional call found late makes required calls before it be missed.
- `assertions/validators/schema.ts:79`: null structured content is not what its comment says; only the agent SDK's judge looks at
  `maxToolOutputSize`; a named judge ignores repetitions; an invalid pattern or an ambiguous tool map throws out of the case.
- `metrics.ts`: metrics of the same name after slugging (a-b, a_b) overwrite each other's values, and a metric that is called like the
  key of another's aggregate (`x_rate`) the aggregate.
- `runEvalSuite.ts:282`: of two judges of one type and name both are evaluated with the policy written for the first;
  `builtinDatasetSources.ts:28`, `:48`, `:77` parse a config again that the manifest has parsed, with schemas that transform nothing.
- `buildEvalDataset.ts:12`: the comment says strict, `EvalExpectBlockSchema` (datasetTypes.ts:461) is not.
- `loadPlugins.ts:80`: the hook preferences of the first caller win; an import that failed is cached by the runtime, and
  built-in sources that failed half way conflict with themselves at every retry.

Stores and reports
- `resultStore.ts:218`: one torn artifact makes every later listing of its kind fail; two batches that start together
  both run a manifest; saves that overlap can leave the older artifact as the latest, or
  (`:173` writes in place) a `latest.json` that does not parse until the next save; stores of one bucket need prefixes of which
  none begins with another. `latest.json` is shared by datasets and arms, and contains failing runs
  (docs/evals-guide.md:629 calls it the most recently promoted known-good run).
- `mcpReporter.ts:481`: with `historyLimit` 1, `slice(-0)` is the whole list; `:459`: a late attachment may be in the
  results and not in the metrics; `:558`: the order of the history is that of the saves, not of the runs.

Commands
- `GenerateApp.tsx:234`: a connection whose tools cannot be listed is never closed; declining to append, or a file that does
  not parse, overwrites the file; a file that changed since it was read is overwritten; default ids repeat.
- `dryRunProxy.ts:182`: a request that fails or times out ends the loop, and later requests are not answered; hints
  of tools that changed are stale; a `tools/call` without an id is forwarded.
- `spec/conformanceChecks.ts`: when listing the tools fails nothing is attached.

## 6. Not modelled, and why

- Text and layout (prompts, HTML, formatting, templates) has no states to explore: the reporter's web page, `resultSummary.ts`, the
  prompts of judges. Schemas are modelled where a rule relates two fields.
- The parsers of transcripts (`adapters/cli/parsers.ts`, most of `anthropicClaude.ts`) are functions from text to events;
  the modules take their outcome. AppleScript is a script for another program.
- Models, MCP servers, authorization servers, child processes, the desktop app and its user are external: they answer anything,
  fail or hang.
- The configuration written for the Claude CLI (`builtinHosts.ts:313-479`), options of providers, the usage of tokens, TLS options and file
  modes are data no property looks at.
- The suite controls of a manifest other than `maxCases` and `filterTags`, defaults a host takes from the manifest, and a case's own
  settings of a judge are not in `Datasets`. The repetition of a refused refresh by the MCP SDK is without a limit in `OAuthProvider`.
- MCP_ACCESS_TOKEN is looked at before `TokenClient` begins; what it and its companions are read as is in `StoredServers`.

## 7. Plan

Every component that keeps state has a module. What is left, in this order:

1. The configuration of the Claude CLI and its policy, as operators of `HostRun`.
2. A refinement that replaces the login of `TokenClient` by `LoginFlow`.
