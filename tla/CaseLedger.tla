------------------------------ MODULE CaseLedger ------------------------------
(***************************************************************************)
(* What runEvalDataset promises about the cases of a dataset, with nothing *)
(* said about workers, indexes or callbacks: every case goes once through  *)
(* todo -> running -> pass | fail | thrown, at most Limit cases run at a   *)
(* time, and the promise of the run settles once.  It resolves only when   *)
(* nothing runs and nothing was thrown, and it then publishes exactly the  *)
(* verdicts of the ledger.                                                 *)
(***************************************************************************)
EXTENDS Integers, FiniteSets

CONSTANTS Cases,      \* the cases of the (filtered) dataset
          Limit,      \* how many of them may be in flight
          MayStop     \* TRUE when the run may end before every case ran

VARIABLES ledger,     \* the status of every case
          promise,    \* of the run: "pending", "resolved" or "rejected"
          published   \* the verdicts the resolved promise carries

ledgerVars == <<ledger, promise, published>>

Status == {"todo", "running", "pass", "fail", "thrown"}

Unfinished == {"todo", "running", "thrown"}

InFlight == {c \in Cases : ledger[c] = "running"}

Nothing == [c \in Cases |-> "none"]

LedgerInit ==
  /\ ledger = [c \in Cases |-> "todo"]
  /\ promise = "pending"
  /\ published = Nothing

\* A case moves forward only, and never from "todo" to a verdict in one step.
Forward(from, to) ==
  \/ to = from
  \/ from = "todo" /\ to = "running"
  \/ from = "running" /\ to \in {"pass", "fail", "thrown"}

\* Cases start and finish; the promise is rejected by the first one that throws.
\* Cases in flight at that moment go on, and others may still be started.
Advance ==
  /\ \A c \in Cases : Forward(ledger[c], ledger'[c])
  /\ DOMAIN ledger' = Cases
  /\ Cardinality(InFlight') <= Limit
  /\ promise # "resolved"
  /\ promise' = IF \E c \in Cases : ledger'[c] = "thrown" THEN "rejected" ELSE promise
  /\ UNCHANGED published

\* The run ends well: the published verdicts are those of the ledger.
Publish ==
  /\ promise = "pending"
  /\ InFlight = {}
  /\ \A c \in Cases : ledger[c] # "thrown"
  /\ MayStop \/ \A c \in Cases : ledger[c] # "todo"
  /\ promise' = "resolved"
  /\ published' = [c \in Cases |-> IF ledger[c] \in Unfinished THEN "none" ELSE ledger[c]]
  /\ UNCHANGED ledger

\* The run ends badly after the cases (saving or attaching the results failed).
Abandon ==
  /\ promise = "pending"
  /\ InFlight = {}
  /\ promise' = "rejected"
  /\ UNCHANGED <<ledger, published>>

LedgerNext == Advance \/ Publish \/ Abandon

LedgerSpec == LedgerInit /\ [][LedgerNext]_ledgerVars
===============================================================================
