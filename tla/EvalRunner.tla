------------------------------ MODULE EvalRunner ------------------------------
(***************************************************************************)
(* runEvalDataset and runWithConcurrency (src/src/evals/evalRunner.ts): a  *)
(* pool of async workers (or one sequential loop) pulls the cases of a     *)
(* dataset, awaits runEvalCase and the onCaseComplete callback of each,    *)
(* and when all are done the results are summarised, compared with a       *)
(* baseline, saved and attached to the Playwright report.                  *)
(*                                                                         *)
(* The promise returned to the caller is rejected by the first task that   *)
(* throws, but nothing cancels the other workers: they go on pulling.      *)
(***************************************************************************)
EXTENDS Integers, FiniteSets

CONSTANTS NumCases,       \* casesToRun.length
          Concurrency,    \* options.concurrency
          StopOnFailure,  \* options.stopOnFailure
          CaseId,         \* the id of every case; ids need not be unique
          UseBaseline,    \* options.baselineResultsFrom is given
          SaveResults,    \* options.saveResultsTo is given
          HasTestInfo     \* context.testInfo is given

ASSUME NumCasesAssumption == NumCases \in Nat
ASSUME ConcurrencyAssumption == Concurrency \in Nat \ {0}
ASSUME OptionsAssumption == {StopOnFailure, UseBaseline, SaveResults, HasTestInfo} \subseteq BOOLEAN
ASSUME CaseIdAssumption == DOMAIN CaseId = 1..NumCases

Cases == 1..NumCases

Verdicts == {"pass", "fail"}

Sequential == Concurrency = 1 \/ StopOnFailure

WorkerCount == IF Sequential THEN 1
               ELSE IF Concurrency <= NumCases THEN Concurrency ELSE NumCases

Workers == 1..WorkerCount

VARIABLES
  phase,        \* where runEvalDataset stands
  index,        \* how many cases the workers have claimed
  worker,       \* the state of every worker
  caseResults,  \* results[i], "hole" until a worker stores it
  baselinePass, \* cr.baselinePass, "none" when undefined
  summary,      \* the counts of the result and of the baseline it is compared with
  saved,        \* the results written by saveResultsTo
  attached,     \* the results attached for the reporter
  starts,       \* history: how often the task of every case was started
  verdict       \* history: what runEvalCase returned for every case

vars == <<phase, index, worker, caseResults, baselinePass, summary, saved, attached,
          starts, verdict>>

poolVars == <<index, worker, caseResults, starts, verdict>>
resultVars == <<baselinePass, summary, saved, attached>>

-------------------------------------------------------------------------------
(* The state of a worker between two awaits. *)

Exited == [pc |-> "exited", case |-> 0, result |-> "hole"]
Running(c) == [pc |-> "running", case |-> c, result |-> "hole"]
InCallback(c, v) == [pc |-> "callback", case |-> c, result |-> v]
Crashed(c) == [pc |-> "crashed", case |-> c, result |-> "hole"]

WorkerState == [pc : {"running", "callback", "exited", "crashed"},
                case : 0..NumCases,
                result : Verdicts \cup {"hole"}]

Busy(w) == worker[w].pc \in {"running", "callback"}

NoResults == [c \in Cases |-> "hole"]
NoBaseline == [c \in Cases |-> "none"]

NoSummary == [total |-> 0, passed |-> 0, regressions |-> 0, improvements |-> 0,
              baselineTotal |-> 0, baselinePassed |-> 0]

Init ==
  /\ phase = "start"
  /\ index = 0
  /\ worker = [w \in Workers |-> Exited]
  /\ caseResults = NoResults
  /\ baselinePass = NoBaseline
  /\ summary = NoSummary
  /\ saved = NoResults
  /\ attached = NoResults
  /\ starts = [c \in Cases |-> 0]
  /\ verdict = [c \in Cases |-> "hole"]

-------------------------------------------------------------------------------
(* The pool. *)

\* Every worker is created, and claims its first case, before any of them awaits.
Launch ==
  /\ phase = "start"
  /\ phase' = "running"
  /\ index' = IF WorkerCount <= NumCases THEN WorkerCount ELSE NumCases
  /\ worker' = [w \in Workers |-> IF w <= NumCases THEN Running(w) ELSE Exited]
  /\ starts' = [c \in Cases |-> IF c <= WorkerCount THEN 1 ELSE 0]
  /\ UNCHANGED <<caseResults, verdict, resultVars>>

\* runEvalCase of worker w's case returns v; the worker then awaits onCaseComplete.
FinishCase(w, v) ==
  /\ worker[w].pc = "running"
  /\ worker' = [worker EXCEPT ![w] = InCallback(worker[w].case, v)]
  /\ verdict' = [verdict EXCEPT ![worker[w].case] = v]
  /\ UNCHANGED <<phase, index, caseResults, starts, resultVars>>

\* The callback returned: the result is stored and the next case claimed, with no
\* await between the test of the index and its increment.
Resume(w) ==
  LET last == worker[w]
      next == index + 1
      stop == StopOnFailure /\ last.result = "fail"
  IN /\ last.pc = "callback"
     /\ caseResults' = [caseResults EXCEPT ![last.case] = last.result]
     /\ \/ /\ index < NumCases
           /\ ~stop
           /\ index' = next
           /\ worker' = [worker EXCEPT ![w] = Running(next)]
           /\ starts' = [starts EXCEPT ![next] = @ + 1]
        \/ /\ index = NumCases \/ stop
           /\ worker' = [worker EXCEPT ![w] = Exited]
           /\ UNCHANGED <<index, starts>>
     /\ UNCHANGED <<phase, verdict, resultVars>>

\* Mutant: a task that throws is retried by its worker, without a limit.
TaskRetries(w) ==
  /\ Busy(w)
  /\ worker' = [worker EXCEPT ![w] = Running(worker[w].case)]
  /\ UNCHANGED <<phase, index, caseResults, starts, verdict, resultVars>>

\* The task throws, in runEvalCase or in onCaseComplete: this worker is gone and
\* the promise of the run is rejected, unless another worker already did it.
TaskThrows(w) ==
  /\ Busy(w)
  /\ worker' = [worker EXCEPT ![w] = Crashed(worker[w].case)]
  /\ phase' = "rejected"
  /\ UNCHANGED <<index, caseResults, starts, verdict, resultVars>>

-------------------------------------------------------------------------------
(* After the pool: every step runs once, in this order. *)

PassedIn(results) == Cardinality({c \in Cases : results[c] = "pass"})

StoredIn(results) == {c \in Cases : results[c] # "hole"}

\* Mutant: the run does not wait for all of its workers (Promise.race).
SummariseAtFirstExit ==
  /\ phase = "running"
  /\ \E w \in Workers : worker[w].pc = "exited"
  /\ phase' = "baseline"
  /\ summary' = [summary EXCEPT !.total = NumCases, !.passed = PassedIn(caseResults)]
  /\ UNCHANGED <<poolVars, baselinePass, saved, attached>>

\* Promise.all resolved: total, passed and the metadata are computed.
Summarise ==
  /\ phase = "running"
  /\ \A w \in Workers : worker[w].pc = "exited"
  /\ phase' = "baseline"
  /\ summary' = [summary EXCEPT
                   !.total = IF Sequential THEN Cardinality(StoredIn(caseResults)) ELSE NumCases,
                   !.passed = PassedIn(caseResults)]
  /\ UNCHANGED <<poolVars, baselinePass, saved, attached>>

\* Mutant: the baseline is matched by position, whatever ids the cases have.
BaselineByPosition(baseline, c) ==
  IF c > 1 /\ baseline[c - 1] # "hole" THEN baseline[c - 1] ELSE "none"

\* buildBaselinePassMap: of several results with the same id the last one counts.
BaselineOf(baseline, c) ==
  LET same == {d \in Cases : CaseId[d] = CaseId[c] /\ baseline[d] # "hole"}
      last == {d \in same : \A e \in same : e <= d}
  IN IF last = {} THEN "none" ELSE baseline[CHOOSE d \in last : TRUE]

\* A baseline of the same dataset is loaded: its cases passed, failed or are absent.
CompareBaseline(baseline) ==
  LET old == [c \in Cases |-> IF caseResults[c] = "hole" THEN "none"
                              ELSE BaselineOf(baseline, c)]
  IN /\ phase = "baseline"
     /\ UseBaseline
     /\ phase' = "save"
     /\ baselinePass' = old
     /\ summary' = [summary EXCEPT
          !.baselineTotal = Cardinality(StoredIn(baseline)),
          !.baselinePassed = PassedIn(baseline),
          !.regressions = Cardinality({c \in Cases : old[c] = "pass" /\ caseResults[c] = "fail"}),
          !.improvements = Cardinality({c \in Cases : old[c] = "fail" /\ caseResults[c] = "pass"})]
     /\ UNCHANGED <<poolVars, saved, attached>>

\* No baseline is asked for, or loading it fails and a warning is logged.
SkipBaseline ==
  /\ phase = "baseline"
  /\ phase' = "save"
  /\ UNCHANGED <<poolVars, resultVars>>

Save ==
  /\ phase = "save"
  /\ phase' = "attach"
  /\ saved' = IF SaveResults THEN caseResults ELSE saved
  /\ UNCHANGED <<poolVars, baselinePass, summary, attached>>

Attach ==
  /\ phase = "attach"
  /\ phase' = "resolved"
  /\ attached' = IF HasTestInfo THEN caseResults ELSE attached
  /\ UNCHANGED <<poolVars, baselinePass, summary, saved>>

\* Writing the results, or attaching them, throws out of runEvalDataset.
SaveOrAttachThrows ==
  /\ \/ phase = "save" /\ SaveResults
     \/ phase = "attach" /\ HasTestInfo
  /\ phase' = "rejected"
  /\ UNCHANGED <<poolVars, resultVars>>

-------------------------------------------------------------------------------
Baselines == [Cases -> Verdicts \cup {"hole"}]

WorkerStep(w) ==
  \/ \E v \in Verdicts : FinishCase(w, v)
  \/ Resume(w)
  \/ TaskThrows(w)

Report ==
  \/ Summarise
  \/ \E b \in Baselines : CompareBaseline(b)
  \/ SkipBaseline
  \/ Save
  \/ Attach
  \/ SaveOrAttachThrows

Next == Launch \/ (\E w \in Workers : WorkerStep(w)) \/ Report

Spec == Init /\ [][Next]_vars

\* Every await is assumed to settle: a case that never answers is the subject of
\* the modules on timeouts, here it would only stop its worker.
Fairness == WF_vars(Launch) /\ WF_vars(Report) /\ \A w \in Workers : WF_vars(WorkerStep(w))

FairSpec == Spec /\ Fairness
-------------------------------------------------------------------------------
(* Properties. *)

Phases == {"start", "running", "baseline", "save", "attach", "resolved", "rejected"}

TypeOK ==
  /\ phase \in Phases
  /\ index \in 0..NumCases
  /\ worker \in [Workers -> WorkerState]
  /\ caseResults \in [Cases -> Verdicts \cup {"hole"}]
  /\ baselinePass \in [Cases -> Verdicts \cup {"none", "hole"}]
  /\ summary \in [total : Nat, passed : Nat, regressions : Nat, improvements : Nat,
                  baselineTotal : Nat, baselinePassed : Nat]
  /\ saved \in [Cases -> Verdicts \cup {"hole"}]
  /\ attached \in [Cases -> Verdicts \cup {"hole"}]
  /\ starts \in [Cases -> Nat]
  /\ verdict \in [Cases -> Verdicts \cup {"hole"}]

\* However the workers interleave, the task of a case is started at most once: no
\* two workers capture the same value of the shared index (evalRunner.ts:1455-1460).
StartedOnce == \A c \in Cases : starts[c] <= 1

\* The pool preserves the order of the dataset: what is stored for a case is what
\* that case returned, also when the cases finish in another order.
ResultsInPlace == \A c \in Cases : caseResults[c] # "hole" => caseResults[c] = verdict[c]

\* Without stopOnFailure a run that got past its cases has a result for every one of
\* them; a worker that leaves early would leave a hole that counts as a failure.
NoHoles ==
  phase \in {"baseline", "save", "attach", "resolved"} /\ ~StopOnFailure
    => StoredIn(caseResults) = Cases

\* stopOnFailure is obeyed whatever concurrency asks for: the cases that were started
\* are a prefix of the dataset and only the last of them may have failed.
StopsAtFirstFailure ==
  StopOnFailure => \A c \in Cases : verdict[c] = "fail" =>
                      \A d \in Cases : d > c => starts[d] = 0

\* A run that was rejected never shows results to the reporter, although its orphaned
\* workers go on storing results.
RejectedNotAttached == phase = "rejected" => attached = NoResults

\* What was saved and what is attached are the same results, and both are complete: no
\* result is stored between the two.
SavedIsAttached ==
  phase = "resolved" /\ SaveResults /\ HasTestInfo => saved = attached

\* deltaPassRate and the two buckets tell the same story: when ids are unique and both
\* runs have all the cases, the pass counts differ by improvements minus regressions.
DeltaExplained ==
  /\ phase \in {"save", "attach", "resolved"}
  /\ summary.total = NumCases /\ summary.baselineTotal = NumCases
  /\ \A c, d \in Cases : CaseId[c] = CaseId[d] => c = d
  => summary.passed - summary.baselinePassed = summary.improvements - summary.regressions

\* Results are frozen once they are summarised: no worker of this run is still writing.
FrozenAfterSummary ==
  [][phase \notin {"start", "running", "rejected"} => UNCHANGED <<caseResults, starts>>]_vars

\* The promise of every run settles, and no orphaned worker goes on for ever.
Settles == <>[](phase \in {"resolved", "rejected"} /\ \A w \in Workers : ~Busy(w))

-------------------------------------------------------------------------------
(* The promise to the caller, seen through the ledger of the cases. *)

Holders(c) == {w \in Workers : worker[w].case = c}

LedgerEntry(c) ==
  IF caseResults[c] # "hole" THEN caseResults[c]
  ELSE IF \E w \in Holders(c) : worker[w].pc = "crashed" THEN "thrown"
  ELSE IF \E w \in Holders(c) : Busy(w) THEN "running"
  ELSE "todo"

Ledger == INSTANCE CaseLedger WITH
  Limit <- Concurrency,
  MayStop <- StopOnFailure,
  ledger <- [c \in Cases |-> LedgerEntry(c)],
  promise <- IF phase \in {"resolved", "rejected"} THEN phase ELSE "pending",
  published <- [c \in Cases |-> IF phase = "resolved" /\ caseResults[c] # "hole"
                                THEN caseResults[c] ELSE "none"]

\* The pool keeps the promise of CaseLedger.
ImplementsLedger == Ledger!LedgerSpec
===============================================================================
