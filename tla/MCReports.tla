------------------------------- MODULE MCReports -------------------------------
(* One run for a dataset and what reports it: a behaviour is one run of a dataset  *)
(* (EvalRunner), or that of the reporters that collect what such runs attached     *)
(* (Reporter).  The other part never begins.                                       *)
EXTENDS EvalRunner, TLC

CONSTANTS Procs, OldRuns, HistoryLimit, UseStore, AutoTracking

ASSUME ReporterAssumption == IsFiniteSet(Procs) /\ OldRuns \in Nat /\ HistoryLimit \in Nat

VARIABLES part, testAttached, reading, collected, pc, clock, stamp, history, listed, file, stored

reporterVars == <<testAttached, reading, collected, pc, clock, stamp, history, listed, file,
                  stored>>
allVars == <<part, vars, reporterVars>>

R == INSTANCE Reporter WITH attached <- testAttached

UniqueIds == [c \in 1..4 |-> c]

\* Reporters that died before their tests began.
ReporterOff ==
  /\ testAttached = [p \in Procs |-> {}] /\ reading = [p \in Procs |-> "none"]
  /\ collected = [p \in Procs |-> {}] /\ pc = [p \in Procs |-> "crashed"]
  /\ clock = OldRuns /\ stamp = [p \in Procs |-> 0] /\ history = [p \in Procs |-> <<>>]
  /\ listed = [p \in Procs |-> {}] /\ file = [s \in R!Stamps |-> "none"] /\ stored = <<>>

MCInit ==
  \/ part = "dataset" /\ Init /\ ReporterOff
  \/ part = "reporter" /\ Init /\ R!Init

MCNext ==
  \/ part = "dataset" /\ Next /\ UNCHANGED <<part, reporterVars>>
  \/ part = "reporter" /\ R!Next /\ UNCHANGED <<part, vars>>

MCSpec ==
  /\ MCInit /\ [][MCNext]_allVars
  /\ part = "dataset" => Fairness
  /\ R!Fairness

-------------------------------------------------------------------------------
\* Every run of a dataset settles: EvalRunner!Settles.
RunSettles == part = "dataset" => Settles

\* Nothing is reported twice: Reporter!NoDuplicates.
NoDuplicates == R!NoDuplicates

\* The newest runs are kept: Reporter!NewestKept.
NewestKept == R!NewestKept

\* A broken store does not cost the report: Reporter!ReportDespiteStore.
ReportDespiteStore == R!ReportDespiteStore
===============================================================================
