------------------------------- MODULE EvalBatch -------------------------------
(***************************************************************************)
(* runEvalBatch (src/src/evals/runEvalBatch.ts) over runEvalSuite and the  *)
(* file result store: several processes run the same manifests.  An item   *)
(* of a batch looks for a stored summary of its manifest (--skip-existing) *)
(* and runs the suite when it finds none; a suite stores an artifact per   *)
(* arm, then the summary that points at them, then results.json.  `run     *)
(* --arm` stores a summary of one arm under the same identity.             *)
(*                                                                         *)
(* An artifact is written in place: between opening its file and the end   *)
(* of the write it is torn, and it stays torn when the process dies.       *)
(***************************************************************************)
EXTENDS Integers, FiniteSets

CONSTANTS Batches,      \* the processes
          NumManifests, \* the manifests of every batch, in order
          NumArms,      \* the arms of every manifest
          Workers,      \* options.workers
          SkipExisting, \* options.skipExisting
          MaxRuns,      \* bound: suite executions
          MaxVersions   \* bound: the versions the manifests have

ASSUME SizesAssumption == {NumManifests, NumArms, Workers, MaxRuns, MaxVersions} \subseteq Nat \ {0}
ASSUME SkipAssumption == SkipExisting \in BOOLEAN

Manifests == 1..NumManifests
Arms == 1..NumArms
Versions == 1..MaxVersions
Runs == 1..MaxRuns

\* The artifacts of a run: one per arm, and the summary.
Summary == 0
Parts == {Summary} \cup Arms

Kind(part) == IF part = Summary THEN "eval-run-summary" ELSE "eval-runner-result"
Kinds == {"eval-run-summary", "eval-runner-result"}

VARIABLES
  version,  \* the content of the manifest files, which are edited together
  item,     \* the items of every batch
  proc,     \* the process of every batch: "running", "returned" or "crashed"
  runs,     \* how many executions were given an id
  about,    \* what the summary of a run says
  file,     \* <id>.json of every artifact: "none", "torn" or "whole"
  latest,   \* latest.json of every kind
  results   \* the runs whose results.json is written

storeVars == <<file, latest, results>>
vars == <<version, item, proc, runs, about, storeVars>>

-------------------------------------------------------------------------------
(* An item: the version of the manifest it read last, the summaries it     *)
(* listed, its run, the arm it is at and the part it saves.                *)

Waiting == [pc |-> "waiting", version |-> 0, listed |-> {}, run |-> 0, arm |-> 0, part |-> 0]

Settled == {"skipped", "error", "done"}

NoArtifact == [run |-> 0, part |-> Summary]

\* What a summary says: manifest and version are its identity, arms those it covers.
NoSummary == [manifest |-> 0, version |-> 0, arms |-> {}]

Init ==
  /\ version = 1
  /\ item = [b \in Batches |-> [m \in Manifests |-> Waiting]]
  /\ proc = [b \in Batches |-> "running"]
  /\ runs = 0
  /\ about = [r \in Runs |-> NoSummary]
  /\ file = [r \in Runs |-> [p \in Parts |-> "none"]]
  /\ latest = [k \in Kinds |-> NoArtifact]
  /\ results = {}

Active(b) == {m \in Manifests : item[b][m].pc \notin Settled \cup {"waiting"}}

\* The item of b and m moves on to step pc, or settles there and forgets its run.
Goes(b, m, pc) == item' = [item EXCEPT ![b][m].pc = pc]
Resets(b, m, pc) == item' = [item EXCEPT ![b][m] = [Waiting EXCEPT !.pc = pc]]

-------------------------------------------------------------------------------
(* The pool: manifests are claimed in order by a bounded number of workers. *)

\* Mutant: the error of a manifest ends the worker that ran it.
StartUnlessErrors(b, m) ==
  /\ item[b][m].pc = "waiting"
  /\ \A n \in 1..(m - 1) : item[b][n].pc \notin {"waiting", "error"}
  /\ Cardinality(Active(b)) < Workers
  /\ Goes(b, m, IF SkipExisting THEN "list" ELSE "prepare")
  /\ UNCHANGED <<version, proc, runs, about, storeVars>>

Start(b, m) ==
  /\ item[b][m].pc = "waiting"
  /\ \A n \in 1..(m - 1) : item[b][n].pc # "waiting"
  /\ Cardinality(Active(b)) < Workers
  /\ Goes(b, m, IF SkipExisting THEN "list" ELSE "prepare")
  /\ UNCHANGED <<version, proc, runs, about, storeVars>>

BatchReturns(b) ==
  /\ \A m \in Manifests : item[b][m].pc \in Settled
  /\ proc' = [proc EXCEPT ![b] = "returned"]
  /\ UNCHANGED <<version, item, runs, about, storeVars>>

-------------------------------------------------------------------------------
(* hasMatchingSavedResult: read the manifest and the names of the summaries, then the   *)
(* summaries themselves.                                                                *)

Listed == {r \in Runs : file[r][Summary] # "none"}

List(b, m) ==
  /\ item[b][m].pc = "list"
  /\ item' = [item EXCEPT ![b][m].pc = "match", ![b][m].version = version,
                          ![b][m].listed = Listed]
  /\ UNCHANGED <<version, proc, runs, about, storeVars>>

Names(r, m, v) == about[r].manifest = m /\ about[r].version = v

\* Mutant: the arms a summary covers are not compared with those of the manifest.
MatchesIdentityOnly(r, m, v) == Names(r, m, v)

\* isMatchingCompletedSummary
Matches(r, m, v) == Names(r, m, v) /\ about[r].arms = Arms

\* listArtifacts reads all of them and fails when one cannot be parsed; an item whose
\* store cannot be read is not skipped.
Match(b, m) ==
  LET i == item[b][m]
      readable == \A r \in i.listed : file[r][Summary] = "whole"
      found == \E r \in i.listed : Matches(r, m, i.version)
  IN /\ i.pc = "match"
     /\ IF readable /\ found
          THEN item' = [item EXCEPT ![b][m].pc = "skipped", ![b][m].listed = {}]
          ELSE Resets(b, m, "prepare")
     /\ UNCHANGED <<version, proc, runs, about, storeVars>>

-------------------------------------------------------------------------------
(* runEvalSuite *)

\* Mutant: the id of an execution is derived from its manifest.
PrepareSameId(b, m) ==
  /\ item[b][m].pc = "prepare"
  /\ runs < MaxRuns
  /\ runs' = runs + 1
  /\ item' = [item EXCEPT ![b][m].pc = "arm", ![b][m].version = version,
                          ![b][m].run = m, ![b][m].arm = 1]
  /\ UNCHANGED <<version, proc, about, storeVars>>

\* Manifest, plugins, secrets and datasets are loaded; the execution gets its id.
Prepare(b, m) ==
  /\ item[b][m].pc = "prepare"
  /\ runs < MaxRuns
  /\ runs' = runs + 1
  /\ item' = [item EXCEPT ![b][m].pc = "arm", ![b][m].version = version,
                          ![b][m].run = runs + 1, ![b][m].arm = 1]
  /\ UNCHANGED <<version, proc, about, storeVars>>

\* An arm runs all its datasets; the next one begins when it is done.
RunArm(b, m) ==
  LET i == item[b][m]
  IN /\ i.pc = "arm"
     /\ item' = [item EXCEPT ![b][m].arm = IF i.arm = NumArms THEN NumArms ELSE i.arm + 1,
                             ![b][m].pc = IF i.arm = NumArms THEN "summarise" ELSE "arm"]
     /\ UNCHANGED <<version, proc, runs, about, storeVars>>

Summarise(b, m) ==
  LET i == item[b][m]
  IN /\ i.pc = "summarise"
     /\ about' = [about EXCEPT ![i.run] = [manifest |-> m, version |-> i.version,
                                           arms |-> Arms]]
     /\ item' = [item EXCEPT ![b][m].pc = "open", ![b][m].part = 1]
     /\ UNCHANGED <<version, proc, runs, storeVars>>

\* Loading, an arm or the store throws: the item keeps the message, the run is lost.
Throws(b, m) ==
  /\ item[b][m].pc \in {"prepare", "arm", "open", "write", "latest", "results"}
  /\ Resets(b, m, "error")
  /\ UNCHANGED <<version, proc, runs, about, storeVars>>

\* The arms are saved one after the other, the summary last.
NextPart(part) == IF part = NumArms THEN Summary ELSE part + 1

Open(b, m) ==
  LET i == item[b][m]
  IN /\ i.pc = "open"
     /\ file' = [file EXCEPT ![i.run][i.part] = "torn"]
     /\ Goes(b, m, "write")
     /\ UNCHANGED <<version, proc, runs, about, latest, results>>

Write(b, m) ==
  LET i == item[b][m]
  IN /\ i.pc = "write"
     /\ file' = [file EXCEPT ![i.run][i.part] = "whole"]
     /\ Goes(b, m, "latest")
     /\ UNCHANGED <<version, proc, runs, about, latest, results>>

\* latest.json is torn while it is written, too; nothing here reads it then.
WriteLatest(b, m) ==
  LET i == item[b][m]
  IN /\ i.pc = "latest"
     /\ latest' = [latest EXCEPT ![Kind(i.part)] = [run |-> i.run, part |-> i.part]]
     /\ item' = [item EXCEPT ![b][m].pc = IF i.part = Summary THEN "results" ELSE "open",
                             ![b][m].part = IF i.part = Summary THEN 0 ELSE NextPart(i.part)]
     /\ UNCHANGED <<version, proc, runs, about, file, results>>

WriteResults(b, m) ==
  LET i == item[b][m]
  IN /\ i.pc = "results"
     /\ results' = results \cup {i.run}
     /\ Resets(b, m, "done")
     /\ UNCHANGED <<version, proc, runs, about, file, latest>>

-------------------------------------------------------------------------------
(* What else happens to the manifests and the store. *)

\* `run --arm a`, in one step: its interleavings are those of a batch of one arm.  The
\* arm's artifact has index 0 among the arms that ran.
ArmRun(m, a) ==
  LET r == runs + 1
  IN /\ runs < MaxRuns
     /\ runs' = r
     /\ about' = [about EXCEPT ![r] = [manifest |-> m, version |-> version,
                                       arms |-> {a}]]
     /\ file' = [file EXCEPT ![r] = [p \in Parts |-> IF p \in {Summary, 1} THEN "whole" ELSE "none"]]
     /\ results' = results \cup {r}
     /\ UNCHANGED <<version, item, proc, latest>>

Edit ==
  /\ version < MaxVersions
  /\ version' = version + 1
  /\ UNCHANGED <<item, proc, runs, about, storeVars>>

Crash(b) ==
  /\ proc[b] = "running"
  /\ proc' = [proc EXCEPT ![b] = "crashed"]
  /\ UNCHANGED <<version, item, runs, about, storeVars>>

ItemStep(b, m) ==
  \/ Start(b, m) \/ List(b, m) \/ Match(b, m)
  \/ Prepare(b, m) \/ RunArm(b, m) \/ Summarise(b, m)
  \/ Open(b, m) \/ Write(b, m) \/ WriteLatest(b, m) \/ WriteResults(b, m)
  \/ Throws(b, m)

BatchStep(b) == proc[b] = "running" /\ (BatchReturns(b) \/ \E m \in Manifests : ItemStep(b, m))

Next ==
  \/ \E b \in Batches : BatchStep(b) \/ Crash(b)
  \/ \E m \in Manifests, a \in Arms : ArmRun(m, a)
  \/ Edit

Spec == Init /\ [][Next]_vars

\* Arms, requests and writes end or throw, so a process that lives goes on.
FairSpec == Spec /\ \A b \in Batches : WF_vars(BatchStep(b))

-------------------------------------------------------------------------------
(* Properties. *)

ItemRecords ==
  [pc : {"waiting", "list", "match", "prepare", "arm", "summarise", "open", "write",
         "latest", "results", "skipped", "error", "done"},
   version : 0..MaxVersions, listed : SUBSET Runs, run : 0..MaxRuns, arm : 0..NumArms,
   part : Parts]

TypeOK ==
  /\ version \in Versions
  /\ item \in [Batches -> [Manifests -> ItemRecords]]
  /\ proc \in [Batches -> {"running", "returned", "crashed"}]
  /\ runs \in 0..MaxRuns
  /\ about \in [Runs -> [manifest : 0..NumManifests, version : 0..MaxVersions,
                         arms : SUBSET Arms]]
  /\ file \in [Runs -> [Parts -> {"none", "torn", "whole"}]]
  /\ latest \in [Kinds -> [run : 0..MaxRuns, part : Parts]]
  /\ results \subseteq Runs

Complete(r) == \A p \in Parts : file[r][p] = "whole"

\* "Invalid or unavailable inputs must never skip" (runEvalBatch.ts:165): what is skipped
\* was run, with all its arms and in the version the batch looked at, and everything the
\* summary points at can be loaded, whatever crashed or was being written meanwhile.
SkippedWasComplete ==
  \A b \in Batches, m \in Manifests :
    item[b][m].pc = "skipped" =>
      \E r \in Runs : /\ about[r].manifest = m
                      /\ about[r].version = item[b][m].version
                      /\ about[r].arms = Arms
                      /\ Complete(r)

\* Whoever loads latest.json finds an artifact that can be loaded by its id as well.
LatestIsStored ==
  \A k \in Kinds : latest[k] # NoArtifact => file[latest[k].run][latest[k].part] = "whole"

\* "Immutable <id>.json" (docs/architecture.md:131): no execution writes over another's.
Immutable ==
  [][\A r \in Runs, p \in Parts : file[r][p] = "whole" => file'[r][p] = "whole"]_vars

\* A batch whose process lives returns, whatever its manifests do: the error of one is
\* kept with it and does not stop the workers.
BatchReturnsEventually == \A b \in Batches : proc[b] = "running" ~> proc[b] # "running"

===============================================================================
