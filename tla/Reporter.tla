-------------------------------- MODULE Reporter --------------------------------
(***************************************************************************)
(* MCPReporter (src/src/reporters/mcpReporter.ts): every Playwright        *)
(* process collects results from the attachments of its tests while they   *)
(* run, and at the end saves its run next to the runs of others, prunes    *)
(* the old ones, stores the run and writes the report with its history.    *)
(*                                                                         *)
(* Playwright does not wait for onTestEnd: an attachment that is read from *)
(* a file may arrive when onEnd has begun.  Several processes may share    *)
(* the output directory and the store.  Runs are ordered by their          *)
(* timestamps, which are also the names of their files.                    *)
(***************************************************************************)
EXTENDS Integers, FiniteSets, SequencesExt

CONSTANTS Procs,         \* the processes, of one run each
          OldRuns,       \* the runs already there, made with another limit perhaps
          HistoryLimit,  \* config.historyLimit
          UseStore,      \* config.resultStore is given
          AutoTracking   \* config.includeAutoTracking

VARIABLES
  attached,   \* what the test of every process attached: "dataset", "calls"
  reading,    \* where onTestEnd is
  collected,  \* allResults: what came from which kind of attachment
  pc,         \* where onEnd is
  clock,      \* the last timestamp given to a run
  stamp,      \* the timestamp of every run
  history,    \* the runs whose summaries it loaded
  listed,     \* the names it read from the output directory
  file,       \* run-<timestamp>.json: "none", "torn", "whole" or "deleted"
  stored      \* the runs in the store, in the order in which they were saved

testVars == <<attached, reading, collected>>
vars == <<testVars, pc, clock, stamp, history, listed, file, stored>>

LastStamp == OldRuns + Cardinality(Procs)
Stamps == 1..LastStamp

Init ==
  /\ attached \in [Procs -> SUBSET {"dataset", "calls"}]
  /\ reading = [p \in Procs |-> "none"]
  /\ collected = [p \in Procs |-> {}]
  /\ pc = [p \in Procs |-> "running"]
  /\ clock = OldRuns
  /\ stamp = [p \in Procs |-> 0]
  /\ history = [p \in Procs |-> <<>>]
  /\ listed = [p \in Procs |-> {}]
  /\ file = [s \in Stamps |-> IF s <= OldRuns THEN "whole" ELSE "none"]
  /\ stored = [s \in 1..OldRuns |-> s]

Goes(p, step) == pc' = [pc EXCEPT ![p] = step]

\* slice(-n) and slice(0, n)
LastOf(s, n) == IF Len(s) <= n \/ n = 0 THEN s ELSE SubSeq(s, Len(s) - n + 1, Len(s))
FirstOf(s, n) == SubSeq(s, 1, IF Len(s) <= n THEN Len(s) ELSE n)

\* The files sorted by their names.
Oldest(runs) == SelectSeq([s \in Stamps |-> s], LAMBDA s : s \in runs)

\* listArtifacts: the artifacts carry the time of their creation, which is not the
\* timestamp of the run, and come newest first.
ListArtifacts(limit) == FirstOf(Reverse(stored), limit)

-------------------------------------------------------------------------------
(* onTestEnd *)

TestEnds(p) ==
  /\ pc[p] = "running"
  /\ reading[p] = "none"
  /\ reading' = [reading EXCEPT ![p] = IF "dataset" \in attached[p] THEN "dataset" ELSE "calls"]
  /\ UNCHANGED <<attached, collected, pc, clock, stamp, history, listed, file, stored>>

\* Mutant: a test with dataset results is not remembered as one.
ReadDatasetForgotten(p) ==
  /\ reading[p] = "dataset"
  /\ collected' = [collected EXCEPT ![p] = @ \cup {"dataset"}]
  /\ reading' = [reading EXCEPT ![p] = "calls"]
  /\ UNCHANGED <<attached, pc, clock, stamp, history, listed, file, stored>>

\* The results of runEvalDataset; an attachment that cannot be read or parsed is logged.
ReadDataset(p) ==
  /\ reading[p] = "dataset"
  /\ \/ /\ collected' = [collected EXCEPT ![p] = @ \cup {"dataset"}]
        /\ reading' = [reading EXCEPT ![p] = "done"]
     \/ reading' = [reading EXCEPT ![p] = "calls"] /\ UNCHANGED collected
  /\ UNCHANGED <<attached, pc, clock, stamp, history, listed, file, stored>>

\* The calls made through the fixture, when no dataset accounts for them.
ReadCalls(p) ==
  /\ reading[p] = "calls"
  /\ reading' = [reading EXCEPT ![p] = "done"]
  /\ \/ /\ AutoTracking /\ "calls" \in attached[p]
        /\ collected' = [collected EXCEPT ![p] = @ \cup {"calls"}]
     \/ UNCHANGED collected
  /\ UNCHANGED <<attached, pc, clock, stamp, history, listed, file, stored>>

-------------------------------------------------------------------------------
(* onEnd *)

NothingCollected(p) ==
  /\ pc[p] = "running"
  /\ reading[p] # "none"
  /\ collected[p] = {}
  /\ Goes(p, "empty")
  /\ UNCHANGED <<testVars, clock, stamp, history, listed, file, stored>>

\* buildRunData
Build(p) ==
  /\ pc[p] = "running"
  /\ collected[p] # {}
  /\ clock' = clock + 1
  /\ stamp' = [stamp EXCEPT ![p] = clock + 1]
  /\ Goes(p, IF UseStore THEN "loadStored" ELSE "list")
  /\ UNCHANGED <<testVars, history, listed, file, stored>>

\* The newest artifacts, oldest first; when the store fails the files are read instead.
LoadStored(p) ==
  /\ pc[p] = "loadStored"
  /\ \/ /\ history' = [history EXCEPT ![p] = Reverse(ListArtifacts(HistoryLimit - 1))]
        /\ Goes(p, "open")
     \/ Goes(p, "list") /\ UNCHANGED history
  /\ UNCHANGED <<testVars, clock, stamp, listed, file, stored>>

RunFiles == {s \in Stamps : file[s] \in {"torn", "whole"}}

\* The files that come before that of s, newest first.
Newer(s) == {t \in RunFiles : t > s}

ListRuns(p) ==
  /\ pc[p] = "list"
  /\ listed' = [listed EXCEPT ![p] = RunFiles]
  /\ Goes(p, "read")
  /\ UNCHANGED <<testVars, clock, stamp, history, file, stored>>

\* A run that is being written, or was deleted meanwhile, is logged and left out.
ReadRuns(p) ==
  LET recent == LastOf(Oldest(listed[p]), HistoryLimit - 1)
  IN /\ pc[p] = "read"
     /\ history' = [history EXCEPT ![p] = SelectSeq(recent, LAMBDA s : file[s] = "whole")]
     /\ listed' = [listed EXCEPT ![p] = {}]
     /\ Goes(p, "open")
     /\ UNCHANGED <<testVars, clock, stamp, file, stored>>

OpenRun(p) ==
  /\ pc[p] = "open"
  /\ file' = [file EXCEPT ![stamp[p]] = "torn"]
  /\ Goes(p, "write")
  /\ UNCHANGED <<testVars, clock, stamp, history, listed, stored>>

WriteRun(p) ==
  /\ pc[p] = "write"
  /\ file' = [file EXCEPT ![stamp[p]] = "whole"]
  /\ Goes(p, "listOld")
  /\ UNCHANGED <<testVars, clock, stamp, history, listed, stored>>

\* Mutant: the files are sorted the other way round.
ListOldReversed(p) ==
  /\ pc[p] = "listOld"
  /\ listed' = [listed EXCEPT ![p] = {s \in RunFiles : Cardinality(RunFiles \ Newer(s)) > HistoryLimit}]
  /\ Goes(p, "unlink")
  /\ UNCHANGED <<testVars, clock, stamp, history, file, stored>>

\* The files newest first, without the first historyLimit.
ListOld(p) ==
  /\ pc[p] = "listOld"
  /\ listed' = [listed EXCEPT ![p] = {s \in RunFiles : Cardinality(Newer(s)) >= HistoryLimit}]
  /\ Goes(p, "unlink")
  /\ UNCHANGED <<testVars, clock, stamp, history, file, stored>>

\* The old runs are deleted, newest first; a deletion that fails, as it does when another
\* process was faster, ends the cleanup.
Unlink(p) ==
  \E s \in listed[p] :
    /\ pc[p] = "unlink"
    /\ \A t \in listed[p] : t <= s
    /\ \/ /\ file[s] # "deleted"
          /\ file' = [file EXCEPT ![s] = "deleted"]
          /\ listed' = [listed EXCEPT ![p] = @ \ {s}]
       \/ listed' = [listed EXCEPT ![p] = {}] /\ UNCHANGED file
    /\ UNCHANGED <<testVars, pc, clock, stamp, history, stored>>

Cleaned(p) ==
  /\ pc[p] = "unlink"
  /\ listed[p] = {}
  /\ Goes(p, IF UseStore THEN "store" ELSE "report")
  /\ UNCHANGED <<testVars, clock, stamp, history, listed, file, stored>>

\* Mutant: an error of the store is thrown out of onEnd.
SaveToStoreThrows(p) ==
  /\ pc[p] = "store"
  /\ \/ stored' = Append(stored, stamp[p]) /\ Goes(p, "report")
     \/ Goes(p, "threw") /\ UNCHANGED stored
  /\ UNCHANGED <<testVars, clock, stamp, history, listed, file>>

\* The store may be down: that is logged, and the report is written all the same.
SaveToStore(p) ==
  /\ pc[p] = "store"
  /\ \/ stored' = Append(stored, stamp[p])
     \/ UNCHANGED stored
  /\ Goes(p, "report")
  /\ UNCHANGED <<testVars, clock, stamp, history, listed, file>>

GenerateReport(p) ==
  /\ pc[p] = "report"
  /\ Goes(p, "reported")
  /\ UNCHANGED <<testVars, clock, stamp, history, listed, file, stored>>

Crash(p) ==
  /\ pc[p] \notin {"empty", "reported", "threw", "crashed"}
  /\ Goes(p, "crashed")
  /\ UNCHANGED <<testVars, clock, stamp, history, listed, file, stored>>

TestStep(p) ==
  pc[p] \notin {"empty", "reported", "threw", "crashed"} /\ (TestEnds(p) \/ ReadDataset(p) \/ ReadCalls(p))

EndStep(p) ==
  \/ NothingCollected(p) \/ Build(p) \/ LoadStored(p) \/ ListRuns(p) \/ ReadRuns(p)
  \/ OpenRun(p) \/ WriteRun(p) \/ ListOld(p) \/ Unlink(p) \/ Cleaned(p)
  \/ SaveToStore(p) \/ GenerateReport(p)

Next == \E p \in Procs : TestStep(p) \/ EndStep(p) \/ Crash(p)

Spec == Init /\ [][Next]_vars

\* Reads, writes and deletions end; the disk is assumed to take what is written.
Fairness == \A p \in Procs : WF_vars(TestStep(p)) /\ WF_vars(EndStep(p))

-------------------------------------------------------------------------------
(* Properties. *)

\* The calls a dataset made are not reported a second time as calls of the test ("to
\* avoid duplicates", mcpReporter.ts:263), however the reads of the attachments end.
NoDuplicates == \A p \in Procs : collected[p] # {"dataset", "calls"}

\* A run is deleted only when HistoryLimit newer ones are there ("keep only historyLimit
\* most recent runs", mcpReporter.ts:583), also when several processes clean up at once.
NewestKept ==
  [][\A s \in Stamps : file[s] # "deleted" /\ file'[s] = "deleted" =>
        Cardinality(Newer(s)) >= HistoryLimit]_vars

\* "Local report generation should still work if remote storage is down"
\* (mcpReporter.ts:353): a process that lives and has results ends with a report.
ReportDespiteStore ==
  \A p \in Procs : stamp[p] # 0 ~> pc[p] \in {"reported", "crashed"}

===============================================================================
