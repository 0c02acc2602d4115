---------------------------- MODULE Reports_proofs -----------------------------
(***************************************************************************)
(* Proofs about EvalRunner for every dataset, concurrency and option.      *)
(* PoolInv is the inductive invariant: it says who holds which case, and   *)
(* what is known of the results once the workers have exited.              *)
(***************************************************************************)
EXTENDS MCReports, FiniteSetTheorems, TLAPS

Idle(w) == worker[w].pc = "exited"
Holds(w, c) == ~Idle(w) /\ worker[w].case = c

\* The claimed cases are exactly 1..index, and each was started exactly once.
ClaimedPrefix == \A c \in Cases : starts[c] = IF c <= index THEN 1 ELSE 0

\* A worker that holds a case holds a claimed one, alone, and it has no result yet.
Exclusive ==
  /\ \A w \in Workers : ~Idle(w) => /\ worker[w].case \in 1..index
                                     /\ caseResults[worker[w].case] = "hole"
  /\ \A w, x \in Workers : ~Idle(w) /\ ~Idle(x) /\ worker[w].case = worker[x].case => w = x

\* A claimed case is stored or still held; a verdict is known only of a claimed case.
Accounted ==
  \A c \in Cases :
    /\ c <= index => caseResults[c] # "hole" \/ \E w \in Workers : Holds(w, c)
    /\ c > index => caseResults[c] = "hole" /\ verdict[c] = "hole"

\* What is stored, or is about to be, is what the case returned.
Faithful ==
  /\ ResultsInPlace
  /\ \A w \in Workers : worker[w].pc = "callback" =>
        worker[w].result = verdict[worker[w].case] /\ worker[w].result \in Verdicts

\* A worker leaves only when nothing is left to claim.
LeavesLast ==
  ~StopOnFailure /\ phase # "start" =>
     \A w \in Workers : Idle(w) => index = NumCases

\* The phases after the pool are reached with every worker gone and none crashed.
Quiet ==
  /\ phase = "start" => index = 0 /\ \A w \in Workers : Idle(w)
  /\ phase \in {"baseline", "save", "attach", "resolved"} => \A w \in Workers : Idle(w)

\* Nothing is attached before the last step, and what was saved is what is known then.
Published ==
  /\ phase # "resolved" => attached = NoResults
  /\ phase \in {"attach", "resolved"} /\ SaveResults => saved = caseResults
  /\ phase = "resolved" /\ HasTestInfo => attached = caseResults

\* A worker that is gone with its case has rejected the run.
CrashRejects == \A w \in Workers : worker[w].pc = "crashed" => phase = "rejected"

PoolInv == /\ ClaimedPrefix /\ Exclusive /\ Accounted /\ Faithful
           /\ LeavesLast /\ Quiet /\ CrashRejects /\ Published

\* With stopOnFailure the one worker holds the last claimed case, and a failing case is
\* the last one claimed and is not running any more.
StopInv ==
  StopOnFailure => \A w \in Workers :
    /\ ~Idle(w) => worker[w].case = index
    /\ \A c \in Cases : verdict[c] = "fail" => c = index /\ worker[w].pc # "running"

-------------------------------------------------------------------------------
\* The options are what the constants' assumptions say; there is a worker for any case.
LEMMA WorkersExist ==
  /\ WorkerCount \in Nat
  /\ NumCases # 0 => WorkerCount >= 1
  /\ WorkerCount <= Concurrency
  /\ StopOnFailure => WorkerCount = 1
  /\ WorkerCount <= NumCases \/ WorkerCount = 1
BY NumCasesAssumption, ConcurrencyAssumption, OptionsAssumption DEF WorkerCount, Sequential

\* Counting the cases that satisfy a condition gives a natural number.
LEMMA CasesFinite == \A S \in SUBSET Cases : Cardinality(S) \in Nat
<1> TAKE S \in SUBSET Cases
<1>1. IsFiniteSet(Cases)
  BY FS_Interval, NumCasesAssumption DEF Cases
<1>2. IsFiniteSet(S)
  BY <1>1, FS_Subset
<1> QED
  BY <1>2, FS_CardinalityType

\* A baseline gives every case a verdict or nothing.
LEMMA BaselineTyped ==
  \A b \in Baselines, c \in Cases : BaselineOf(b, c) \in Verdicts \cup {"none", "hole"}
<1> TAKE b \in Baselines, c \in Cases
<1> DEFINE last == {d \in {e \in Cases : CaseId[e] = CaseId[c] /\ b[e] # "hole"} :
                      \A f \in {e \in Cases : CaseId[e] = CaseId[c] /\ b[e] # "hole"} : f <= d}
<1>1. CASE last = {}
  BY <1>1 DEF BaselineOf
<1>2. CASE last # {}
  <2>1. (CHOOSE d \in last : TRUE) \in Cases
    BY <1>2
  <2> QED
    BY <1>2, <2>1 DEF BaselineOf, Baselines
<1> QED
  BY <1>1, <1>2

\* Type correctness of the run, for every dataset and options.
THEOREM TypeCorrect == Spec => []TypeOK
<1> USE NumCasesAssumption, WorkersExist DEF Cases, Workers, Phases
<1>1. Init => TypeOK
  BY DEF Init, TypeOK, NoResults, NoBaseline, NoSummary, Exited, WorkerState
<1>2. TypeOK /\ [Next]_vars => TypeOK'
  <2> SUFFICES ASSUME TypeOK, [Next]_vars PROVE TypeOK'
    OBVIOUS
  <2> USE DEF TypeOK
  <2>1. CASE Launch
    BY <2>1 DEF Launch, resultVars, Running, Exited, WorkerState
  <2>2. ASSUME NEW w \in Workers, NEW v \in Verdicts, FinishCase(w, v) PROVE TypeOK'
    <3>1. worker[w].case \in 0..NumCases
      BY DEF WorkerState
    <3>2. InCallback(worker[w].case, v) \in WorkerState
      BY <3>1 DEF InCallback, WorkerState
    <3> QED
      BY <2>2, <3>2 DEF FinishCase, resultVars
  <2>3. ASSUME NEW w \in Workers, Resume(w) PROVE TypeOK'
    <3>1. worker[w].result \in Verdicts \cup {"hole"}
      BY DEF WorkerState
    <3>2. caseResults' \in [Cases -> Verdicts \cup {"hole"}]
      BY <2>3, <3>1 DEF Resume
    <3>3. Exited \in WorkerState /\ (index < NumCases => Running(index + 1) \in WorkerState)
      BY DEF Exited, Running, WorkerState
    <3>4. CASE index' = index + 1 /\ index < NumCases
      <4>1. index' \in 0..NumCases /\ worker' = [worker EXCEPT ![w] = Running(index + 1)]
            /\ starts' = [starts EXCEPT ![index + 1] = @ + 1]
        BY <2>3, <3>4 DEF Resume
      <4>2. worker' \in [Workers -> WorkerState] /\ starts' \in [Cases -> Nat]
        BY <4>1, <3>3, <3>4
      <4> QED
        BY <2>3, <3>2, <4>1, <4>2 DEF Resume, resultVars
    <3>5. CASE index' = index
      <4>1. worker' = [worker EXCEPT ![w] = Exited] /\ starts' = starts
        BY <2>3, <3>5 DEF Resume
      <4> QED
        BY <2>3, <3>2, <3>3, <3>5, <4>1 DEF Resume, resultVars
    <3> QED
      BY <2>3, <3>4, <3>5 DEF Resume
  <2>4. ASSUME NEW w \in Workers, TaskThrows(w) PROVE TypeOK'
    <3>1. Crashed(worker[w].case) \in WorkerState
      BY DEF Crashed, WorkerState
    <3> QED
      BY <2>4, <3>1 DEF TaskThrows, resultVars
  <2>5. CASE Summarise
    <3>1. Cardinality(StoredIn(caseResults)) \in Nat /\ PassedIn(caseResults) \in Nat
      BY CasesFinite DEF StoredIn, PassedIn
    <3> QED
      BY <2>5, <3>1 DEF Summarise, poolVars
  <2>6. ASSUME NEW b \in Baselines, CompareBaseline(b) PROVE TypeOK'
    <3>1. baselinePass' \in [Cases -> Verdicts \cup {"none", "hole"}]
      BY <2>6, BaselineTyped DEF CompareBaseline
    <3>2. Cardinality(StoredIn(b)) \in Nat /\ PassedIn(b) \in Nat
      BY CasesFinite DEF StoredIn, PassedIn
    <3>3. summary' \in [total : Nat, passed : Nat, regressions : Nat, improvements : Nat,
                        baselineTotal : Nat, baselinePassed : Nat]
      BY <2>6, <3>2, CasesFinite DEF CompareBaseline
    <3> QED
      BY <2>6, <3>1, <3>3 DEF CompareBaseline, poolVars
  <2>7. CASE SkipBaseline \/ Save \/ Attach \/ SaveOrAttachThrows
    BY <2>7 DEF SkipBaseline, Save, Attach, SaveOrAttachThrows, poolVars, resultVars
  <2>8. CASE UNCHANGED vars
    BY <2>8 DEF vars
  <2> QED
    BY <2>1, <2>2, <2>3, <2>4, <2>5, <2>6, <2>7, <2>8 DEF Next, WorkerStep, Report
<1> QED
  BY <1>1, <1>2, PTL DEF Spec

-------------------------------------------------------------------------------
(* PoolInv, one lemma per kind of step. *)

\* The pool is launched with every worker on a case of its own.
LEMMA LaunchInv == TypeOK /\ PoolInv /\ Launch => PoolInv'
<1> SUFFICES ASSUME TypeOK, PoolInv, Launch PROVE PoolInv'
  OBVIOUS
<1> USE NumCasesAssumption, WorkersExist DEF Cases, Workers, Idle, Holds
<1>. /\ index \in 0..NumCases /\ worker \in [Workers -> WorkerState]
     /\ caseResults \in [Cases -> Verdicts \cup {"hole"}]
     /\ verdict \in [Cases -> Verdicts \cup {"hole"}] /\ starts \in [Cases -> Nat]
  BY DEF TypeOK
<1>0. /\ index = 0 /\ phase' = "running" /\ caseResults' = caseResults /\ verdict' = verdict
      /\ attached' = attached /\ saved' = saved
      /\ index' = IF WorkerCount <= NumCases THEN WorkerCount ELSE NumCases
      /\ worker' = [w \in Workers |-> IF w <= NumCases THEN Running(w) ELSE Exited]
  BY DEF Launch, PoolInv, Quiet, resultVars
<1>1. \A c \in Cases : caseResults[c] = "hole" /\ verdict[c] = "hole"
  BY <1>0 DEF PoolInv, Accounted
<1>2. \A w \in Workers : /\ w <= NumCases => worker'[w].pc = "running" /\ worker'[w].case = w
                         /\ w > NumCases => worker'[w].pc = "exited"
  BY <1>0 DEF Running, Exited
<1>3. ClaimedPrefix'
  BY <1>0 DEF Launch, ClaimedPrefix
<1>4. Exclusive'
  BY <1>0, <1>1, <1>2 DEF Exclusive
<1>5. Accounted'
  <2> SUFFICES ASSUME NEW c \in Cases
               PROVE  /\ c <= index' => \E w \in Workers : Holds(w, c)'
                      /\ c > index' => caseResults'[c] = "hole" /\ verdict'[c] = "hole"
    BY DEF Accounted
  <2>1. CASE c <= WorkerCount
    <3>1. c \in Workers /\ c <= NumCases
      BY <2>1
    <3>2. Holds(c, c)'
      BY <1>2, <3>1
    <3> QED
      BY <1>0, <2>1, <3>1, <3>2
  <2>2. CASE c > WorkerCount
    BY <1>0, <1>1, <2>2
  <2> QED
    BY <2>1, <2>2
<1>6. Faithful'
  BY <1>0, <1>1, <1>2 DEF Faithful, ResultsInPlace
<1>7. LeavesLast'
  BY <1>0, <1>2 DEF LeavesLast
<1>8. Quiet'
  BY <1>0 DEF Quiet
<1>9. Published'
  <2>1. phase = "start"
    BY DEF Launch
  <2> QED
    BY <1>0, <2>1 DEF PoolInv, Published
<1>10. CrashRejects'
  BY <1>2 DEF CrashRejects
<1> QED
  BY <1>3, <1>4, <1>5, <1>6, <1>7, <1>8, <1>9, <1>10 DEF PoolInv

\* A worker whose case returns keeps that case.
LEMMA FinishInv ==
  ASSUME TypeOK, PoolInv, NEW w \in Workers, NEW v \in Verdicts, FinishCase(w, v)
  PROVE  PoolInv'
<1> USE NumCasesAssumption, WorkersExist DEF Cases, Workers, Idle, Holds
<1>. /\ index \in 0..NumCases /\ worker \in [Workers -> WorkerState]
     /\ caseResults \in [Cases -> Verdicts \cup {"hole"}]
     /\ verdict \in [Cases -> Verdicts \cup {"hole"}] /\ starts \in [Cases -> Nat]
  BY DEF TypeOK
<1> DEFINE c == worker[w].case
<1>0. /\ worker[w].pc = "running" /\ c \in Cases /\ c <= index /\ caseResults[c] = "hole"
      /\ \A x \in Workers : x # w /\ ~Idle(x) => worker[x].case # c
  BY DEF FinishCase, PoolInv, Exclusive
<1>1. /\ worker' = [worker EXCEPT ![w] = InCallback(c, v)]
      /\ verdict' = [verdict EXCEPT ![c] = v]
      /\ UNCHANGED <<phase, index, caseResults, starts, saved, attached>>
  BY DEF FinishCase, resultVars
<1>2. /\ worker'[w].pc = "callback" /\ worker'[w].case = c /\ worker'[w].result = v
      /\ \A x \in Workers : x # w => worker'[x] = worker[x]
  BY <1>1 DEF InCallback
<1>3. ClaimedPrefix'
  BY <1>1 DEF PoolInv, ClaimedPrefix
<1>4. Exclusive'
  BY <1>0, <1>1, <1>2 DEF PoolInv, Exclusive
<1>5. Accounted'
  BY <1>0, <1>1, <1>2 DEF PoolInv, Accounted
<1>6. Faithful'
  <2>1. ResultsInPlace'
    BY <1>0, <1>1 DEF PoolInv, Faithful, ResultsInPlace
  <2>2. ASSUME NEW x \in Workers, (worker[x].pc = "callback")'
        PROVE  (worker[x].result = verdict[worker[x].case] /\ worker[x].result \in Verdicts)'
    <3>1. CASE x = w
      BY <1>0, <1>1, <1>2, <3>1
    <3>2. CASE x # w
      BY <1>0, <1>1, <1>2, <2>2, <3>2 DEF PoolInv, Faithful
    <3> QED
      BY <3>1, <3>2
  <2> QED
    BY <2>1, <2>2 DEF Faithful
<1>7. LeavesLast'
  BY <1>1, <1>2 DEF PoolInv, LeavesLast
<1>8. Quiet'
  BY <1>0, <1>1 DEF PoolInv, Quiet
<1>9. Published'
  BY <1>1 DEF PoolInv, Published
<1>10. CrashRejects'
  BY <1>1, <1>2 DEF PoolInv, CrashRejects
<1> QED
  BY <1>3, <1>4, <1>5, <1>6, <1>7, <1>8, <1>9, <1>10 DEF PoolInv

\* A worker whose callback returned stores its result and leaves, or claims the next case.
LEMMA ResumeInv ==
  ASSUME TypeOK, PoolInv, NEW w \in Workers, Resume(w)
  PROVE  PoolInv'
<1> USE NumCasesAssumption, WorkersExist DEF Cases, Workers, Idle, Holds
<1>. /\ index \in 0..NumCases /\ worker \in [Workers -> WorkerState]
     /\ caseResults \in [Cases -> Verdicts \cup {"hole"}]
     /\ verdict \in [Cases -> Verdicts \cup {"hole"}] /\ starts \in [Cases -> Nat]
  BY DEF TypeOK
<1> DEFINE c == worker[w].case
           v == worker[w].result
<1>0. /\ worker[w].pc = "callback" /\ c \in Cases /\ c <= index
      /\ v \in Verdicts /\ v = verdict[c]
      /\ \A x \in Workers : x # w /\ ~Idle(x) => worker[x].case # c
      /\ phase \notin {"start", "baseline", "save", "attach", "resolved"}
  <2>1. worker[w].pc = "callback" /\ ~Idle(w)
    BY DEF Resume
  <2>2. c \in 1..index /\ \A x \in Workers : x # w /\ ~Idle(x) => worker[x].case # c
    BY <2>1 DEF PoolInv, Exclusive
  <2>3. v \in Verdicts /\ v = verdict[c]
    BY <2>1 DEF PoolInv, Faithful
  <2>4. phase \notin {"start", "baseline", "save", "attach", "resolved"}
    BY <2>1 DEF PoolInv, Quiet
  <2> QED
    BY <2>1, <2>2, <2>3, <2>4
<1>1. /\ caseResults' = [caseResults EXCEPT ![c] = v]
      /\ UNCHANGED <<phase, verdict, saved, attached>>
  BY DEF Resume, resultVars
<1>2. caseResults'[c] # "hole"
  BY <1>0, <1>1 DEF Verdicts
<1>3. ResultsInPlace'
  BY <1>0, <1>1 DEF PoolInv, Faithful, ResultsInPlace
<1>4. Quiet' /\ Published'
  BY <1>0, <1>1 DEF PoolInv, Quiet, Published
<1>5. CASE index < NumCases /\ index' = index + 1
  <2>1. /\ worker' = [worker EXCEPT ![w] = Running(index + 1)]
        /\ starts' = [starts EXCEPT ![index + 1] = @ + 1]
    BY <1>5 DEF Resume
  <2>2. /\ worker'[w].pc = "running" /\ worker'[w].case = index + 1
        /\ \A x \in Workers : x # w => worker'[x] = worker[x]
    BY <2>1 DEF Running
  <2>3. ClaimedPrefix'
    BY <1>5, <2>1 DEF PoolInv, ClaimedPrefix
  <2>4. Exclusive'
    <3>1. ASSUME NEW x \in Workers, ~Idle(x)'
          PROVE  (worker[x].case \in 1..index /\ caseResults[worker[x].case] = "hole")'
      <4>1. CASE x = w
        BY <1>0, <1>1, <1>5, <2>2, <4>1 DEF PoolInv, Accounted
      <4>2. CASE x # w
        BY SMTT(60), <1>0, <1>1, <1>5, <2>2, <3>1, <4>2 DEF PoolInv, Exclusive
      <4> QED
        BY <4>1, <4>2
    <3>2. \A x \in Workers : x # w /\ ~Idle(x) => worker[x].case # index + 1
      BY DEF PoolInv, Exclusive
    <3>3. (\A x, y \in Workers : ~Idle(x) /\ ~Idle(y) /\ worker[x].case = worker[y].case => x = y)'
      BY <2>2, <3>2 DEF PoolInv, Exclusive
    <3> QED
      BY <3>1, <3>3 DEF Exclusive
  <2>5. Accounted'
    <3> SUFFICES ASSUME NEW d \in Cases
                 PROVE  /\ d <= index' => caseResults'[d] # "hole" \/ \E x \in Workers : Holds(x, d)'
                        /\ d > index' => caseResults'[d] = "hole" /\ verdict'[d] = "hole"
      BY <1>5 DEF Accounted
    <3>1. CASE d = index + 1
      BY <1>5, <2>2, <3>1
    <3>2. CASE d = c
      BY <1>0, <1>1, <1>2, <1>5, <3>2
    <3>3. CASE d # index + 1 /\ d # c
      <4>1. /\ caseResults'[d] = caseResults[d] /\ verdict'[d] = verdict[d]
            /\ d <= index' <=> d <= index
            /\ d > index' <=> d > index
        BY <1>1, <1>5, <3>3
      <4>2. \A x \in Workers : Holds(x, d) => Holds(x, d)'
        BY <2>2, <3>3
      <4> QED
        BY <1>5, <4>1, <4>2 DEF PoolInv, Accounted
    <3> QED
      BY <3>1, <3>2, <3>3
  <2>6. Faithful'
    BY <1>0, <1>1, <1>3, <2>2 DEF PoolInv, Faithful
  <2>7. LeavesLast'
    <3> SUFFICES ASSUME ~StopOnFailure, NEW x \in Workers, Idle(x)' PROVE index' = NumCases
      BY DEF LeavesLast
    <3>1. x # w /\ Idle(x)
      BY <2>2
    <3>2. index = NumCases
      BY <1>0, <3>1 DEF PoolInv, LeavesLast
    <3> QED
      BY <1>5, <3>2
  <2>8. CrashRejects'
    BY <1>1, <2>2 DEF PoolInv, CrashRejects
  <2> QED
    BY <1>4, <2>3, <2>4, <2>5, <2>6, <2>7, <2>8 DEF PoolInv
<1>6. CASE index' = index /\ (index = NumCases \/ (StopOnFailure /\ v = "fail"))
  <2>1. worker' = [worker EXCEPT ![w] = Exited] /\ starts' = starts
    BY <1>6 DEF Resume
  <2>2. worker'[w].pc = "exited" /\ \A x \in Workers : x # w => worker'[x] = worker[x]
    BY <2>1 DEF Exited
  <2>3. ClaimedPrefix'
    BY <1>6, <2>1 DEF PoolInv, ClaimedPrefix
  <2>4. Exclusive'
    <3>1. \A x \in Workers : ~Idle(x)' => x # w /\ ~Idle(x) /\ worker'[x] = worker[x]
      BY <2>2
    <3> QED
      BY SMTT(60), <1>0, <1>1, <1>6, <3>1 DEF PoolInv, Exclusive
  <2>5. Accounted'
    <3> SUFFICES ASSUME NEW d \in Cases
                 PROVE  /\ d <= index => caseResults'[d] # "hole" \/ \E x \in Workers : Holds(x, d)'
                        /\ d > index => caseResults'[d] = "hole" /\ verdict'[d] = "hole"
      BY <1>6 DEF Accounted
    <3>1. CASE d = c
      BY <1>0, <1>1, <1>2, <3>1
    <3>2. CASE d # c
      <4>1. caseResults'[d] = caseResults[d] /\ verdict'[d] = verdict[d]
        BY <1>1, <3>2
      <4>2. \A x \in Workers : Holds(x, d) => Holds(x, d)'
        BY <2>2, <3>2
      <4> QED
        BY <4>1, <4>2 DEF PoolInv, Accounted
    <3> QED
      BY <3>1, <3>2
  <2>6. Faithful'
    BY <1>0, <1>1, <1>3, <2>2 DEF PoolInv, Faithful
  <2>7. LeavesLast'
    BY <1>0, <1>1, <1>6, <2>2 DEF PoolInv, LeavesLast
  <2>8. CrashRejects'
    BY <1>1, <2>2 DEF PoolInv, CrashRejects
  <2> QED
    BY <1>4, <2>3, <2>4, <2>5, <2>6, <2>7, <2>8 DEF PoolInv
<1> QED
  BY <1>5, <1>6 DEF Resume

\* A worker whose task throws keeps its case for ever; the run is rejected.
LEMMA ThrowInv ==
  ASSUME TypeOK, PoolInv, NEW w \in Workers, TaskThrows(w)
  PROVE  PoolInv'
<1> USE NumCasesAssumption, WorkersExist DEF Cases, Workers, Idle, Holds
<1>. /\ index \in 0..NumCases /\ worker \in [Workers -> WorkerState]
     /\ caseResults \in [Cases -> Verdicts \cup {"hole"}]
     /\ verdict \in [Cases -> Verdicts \cup {"hole"}] /\ starts \in [Cases -> Nat]
  BY DEF TypeOK
<1>0. /\ ~Idle(w) /\ phase' = "rejected"
      /\ phase \notin {"start", "baseline", "save", "attach", "resolved"}
  BY DEF TaskThrows, Busy, PoolInv, Quiet
<1>1. /\ worker' = [worker EXCEPT ![w] = Crashed(worker[w].case)]
      /\ UNCHANGED <<index, caseResults, starts, verdict, saved, attached>>
  BY DEF TaskThrows, resultVars
<1>2. /\ worker'[w].pc = "crashed" /\ worker'[w].case = worker[w].case
      /\ \A x \in Workers : x # w => worker'[x] = worker[x]
  BY <1>1 DEF Crashed
<1>3. ClaimedPrefix'
  BY <1>1 DEF PoolInv, ClaimedPrefix
<1>4. Exclusive'
  BY <1>0, <1>1, <1>2 DEF PoolInv, Exclusive
<1>5. Accounted'
  BY <1>0, <1>1, <1>2 DEF PoolInv, Accounted
<1>6. Faithful'
  BY <1>1, <1>2 DEF PoolInv, Faithful, ResultsInPlace
<1>7. LeavesLast'
  BY <1>0, <1>1, <1>2 DEF PoolInv, LeavesLast
<1>8. Quiet' /\ Published'
  BY <1>0, <1>1 DEF PoolInv, Quiet, Published
<1>9. CrashRejects'
  BY <1>0 DEF CrashRejects
<1> QED
  BY <1>3, <1>4, <1>5, <1>6, <1>7, <1>8, <1>9 DEF PoolInv

\* Reporting touches neither the workers nor the results.
LEMMA ReportInv == TypeOK /\ PoolInv /\ Report => PoolInv'
<1> SUFFICES ASSUME TypeOK, PoolInv, Report PROVE PoolInv'
  OBVIOUS
<1>1. UNCHANGED poolVars
  BY DEF Report, Summarise, CompareBaseline, SkipBaseline, Save, Attach, SaveOrAttachThrows
<1>2. phase # "start" /\ phase' # "start"
  BY DEF Report, Summarise, CompareBaseline, SkipBaseline, Save, Attach, SaveOrAttachThrows
<1>3. (ClaimedPrefix /\ Exclusive /\ Accounted /\ Faithful /\ LeavesLast)'
  BY <1>1, <1>2 DEF PoolInv, poolVars, ClaimedPrefix, Exclusive, Accounted, Faithful,
       LeavesLast, ResultsInPlace, Idle, Holds
<1>0. CrashRejects'
  BY <1>1 DEF Report, Summarise, CompareBaseline, SkipBaseline, Save, Attach, SaveOrAttachThrows,
       PoolInv, CrashRejects, poolVars
<1>4. CASE Summarise
  BY <1>0, <1>1, <1>3, <1>4 DEF Summarise, PoolInv, Quiet, Published, Idle, poolVars
<1>5. CASE SkipBaseline \/ \E b \in Baselines : CompareBaseline(b)
  BY <1>0, <1>1, <1>3, <1>5 DEF SkipBaseline, CompareBaseline, PoolInv, Quiet, Published, Idle, poolVars,
       resultVars
<1>6. CASE Save \/ Attach \/ SaveOrAttachThrows
  BY <1>0, <1>1, <1>3, <1>6 DEF Save, Attach, SaveOrAttachThrows, PoolInv, Quiet, Published, Idle,
       poolVars, resultVars
<1> QED
  BY <1>4, <1>5, <1>6 DEF Report

\* The invariant of the pool holds in every state of every run.
THEOREM PoolCorrect == Spec => []PoolInv
<1>1. Init => PoolInv
  BY NumCasesAssumption DEF Init, PoolInv, ClaimedPrefix, Exclusive, Accounted, Faithful, LeavesLast,
       Quiet, CrashRejects, Published, ResultsInPlace, NoResults, Idle, Holds, Exited, Cases, Verdicts
<1>2. TypeOK /\ PoolInv /\ [Next]_vars => PoolInv'
  <2> SUFFICES ASSUME TypeOK, PoolInv, [Next]_vars PROVE PoolInv'
    OBVIOUS
  <2>1. CASE UNCHANGED vars
    BY <2>1 DEF vars, PoolInv, ClaimedPrefix, Exclusive, Accounted, Faithful, LeavesLast, Quiet,
         CrashRejects, Published, ResultsInPlace, Idle, Holds
  <2> QED
    BY <2>1, LaunchInv, FinishInv, ResumeInv, ThrowInv, ReportInv DEF Next, WorkerStep
<1> QED
  BY <1>1, <1>2, TypeCorrect, PTL DEF Spec

-------------------------------------------------------------------------------
(* What PoolInv gives to the caller. *)

\* The task of a case is started at most once, whatever the number of workers.
THEOREM EachCaseStartsOnce == Spec => []StartedOnce
<1>1. PoolInv => StartedOnce
  BY DEF PoolInv, ClaimedPrefix, StartedOnce
<1> QED
  BY <1>1, PoolCorrect, PTL

\* Results are stored in the order of the dataset, whatever the order of completion.
THEOREM OrderPreserved == Spec => []ResultsInPlace
<1>1. PoolInv => ResultsInPlace
  BY DEF PoolInv, Faithful
<1> QED
  BY <1>1, PoolCorrect, PTL

\* When the workers are gone and left only for want of cases, every case is stored.
LEMMA PoolGivesNoHoles == TypeOK /\ PoolInv => NoHoles
  <2> SUFFICES ASSUME TypeOK, PoolInv, ~StopOnFailure,
                      phase \in {"baseline", "save", "attach", "resolved"},
                      NEW c \in Cases
               PROVE  caseResults[c] # "hole"
    BY DEF NoHoles, StoredIn
  <2>1. \A w \in Workers : Idle(w)
    BY DEF PoolInv, Quiet
  <2>2. 1 \in Workers
    BY NumCasesAssumption, WorkersExist DEF Workers, Cases
  <2>3. index = NumCases
    BY <2>1, <2>2 DEF PoolInv, LeavesLast
  <2> QED
    BY <2>1, <2>3, NumCasesAssumption DEF PoolInv, Accounted, Holds, Cases

\* Without stopOnFailure nothing is summarised before every case has a result.
THEOREM NoCaseIsLost == Spec => []NoHoles
BY PoolGivesNoHoles, TypeCorrect, PoolCorrect, PTL

\* A rejected run shows nothing to the reporter.
THEOREM RejectedShowsNothing == Spec => []RejectedNotAttached
<1>1. PoolInv => RejectedNotAttached
  BY DEF PoolInv, Published, RejectedNotAttached
<1> QED
  BY <1>1, PoolCorrect, PTL

\* What is saved is what is attached.
THEOREM SameResultsTwice == Spec => []SavedIsAttached
<1>1. PoolInv => SavedIsAttached
  BY DEF PoolInv, Published, SavedIsAttached
<1> QED
  BY <1>1, PoolCorrect, PTL

\* Once the results are summarised no worker changes them.
THEOREM FrozenResults == Spec => FrozenAfterSummary
<1>1. TypeOK /\ PoolInv /\ [Next]_vars
      => [phase \notin {"start", "running", "rejected"} => UNCHANGED <<caseResults, starts>>]_vars
  <2> SUFFICES ASSUME TypeOK, PoolInv, [Next]_vars, phase \notin {"start", "running", "rejected"}
               PROVE  UNCHANGED <<caseResults, starts>>
    OBVIOUS
  <2>1. \A w \in Workers : worker[w].pc = "exited"
    BY DEF TypeOK, Phases, PoolInv, Quiet, Idle
  <2>2. ~ \E w \in Workers : WorkerStep(w)
    BY <2>1 DEF WorkerStep, FinishCase, Resume, TaskThrows, Busy
  <2>3. CASE Report
    BY <2>3 DEF Report, Summarise, CompareBaseline, SkipBaseline, Save, Attach,
         SaveOrAttachThrows, poolVars
  <2> QED
    BY <2>2, <2>3 DEF Next, Launch, vars
<1> QED
  BY <1>1, TypeCorrect, PoolCorrect, PTL DEF Spec, FrozenAfterSummary

-------------------------------------------------------------------------------
(* What the summary says of a run and its baseline. *)

NoComparison ==
  /\ summary.baselineTotal = 0 /\ summary.baselinePassed = 0
  /\ summary.regressions = 0 /\ summary.improvements = 0

\* The total tells whether every case has a result: a run that stopped early counts only
\* what it has, and any other has all of them.
DeltaInv ==
  /\ phase \in {"start", "running"} => NoComparison
  /\ phase = "baseline" =>
       /\ NoComparison
       /\ summary.total = NumCases => StoredIn(caseResults) = Cases
       /\ summary.passed = PassedIn(caseResults)
  /\ phase \in {"save", "attach", "resolved"} => DeltaExplained

\* As many results as cases are the results of all cases.
LEMMA AllStored ==
  \A results : Cardinality(StoredIn(results)) = NumCases => StoredIn(results) = Cases
<1> TAKE results
<1>1. IsFiniteSet(Cases) /\ Cardinality(Cases) = NumCases
  BY FS_Interval, NumCasesAssumption DEF Cases
<1>2. StoredIn(results) \in SUBSET Cases
  BY DEF StoredIn
<1> QED
  BY <1>1, <1>2, FS_Subset

\* With unique ids the baseline has of a case what the case did then.
LEMMA UniqueBaseline ==
  ASSUME NEW b \in Baselines, \A c, d \in Cases : CaseId[c] = CaseId[d] => c = d, NEW c \in Cases,
         b[c] # "hole"
  PROVE  BaselineOf(b, c) = b[c]
<1> DEFINE same == {d \in Cases : CaseId[d] = CaseId[c] /\ b[d] # "hole"}
           last == {d \in same : \A e \in same : e <= d}
<1>1. same = {c}
  OBVIOUS
<1>2. last = {c}
  BY <1>1, NumCasesAssumption DEF Cases
<1>3. (CHOOSE d \in last : TRUE) = c
  BY <1>2
<1>4. BaselineOf(b, c) = IF last = {} THEN "none" ELSE b[CHOOSE d \in last : TRUE]
  BY DEF BaselineOf
<1> QED
  BY <1>2, <1>3, <1>4

\* Two complete runs differ in their passes by what improved and what regressed.
LEMMA PassesDiffer ==
  ASSUME NEW now \in Baselines, NEW old \in Baselines,
         StoredIn(now) = Cases, StoredIn(old) = Cases
  PROVE  PassedIn(now) - PassedIn(old)
           = Cardinality({c \in Cases : old[c] = "fail" /\ now[c] = "pass"})
             - Cardinality({c \in Cases : old[c] = "pass" /\ now[c] = "fail"})
<1> DEFINE P == {c \in Cases : now[c] = "pass"}
           B == {c \in Cases : old[c] = "pass"}
<1>1. \A c \in Cases : now[c] \in Verdicts /\ old[c] \in Verdicts
  BY DEF StoredIn, Baselines
<1>2. P \ B = {c \in Cases : old[c] = "fail" /\ now[c] = "pass"}
  BY <1>1 DEF Verdicts
<1>3. B \ P = {c \in Cases : old[c] = "pass" /\ now[c] = "fail"}
  BY <1>1 DEF Verdicts
<1>4. IsFiniteSet(Cases) /\ P \in SUBSET Cases /\ B \in SUBSET Cases
  BY FS_Interval, NumCasesAssumption DEF Cases
<1>5. IsFiniteSet(P) /\ IsFiniteSet(B)
  BY <1>4, FS_Subset
<1>6. Cardinality(P \ B) = Cardinality(P) - Cardinality(P \cap B)
  BY <1>5, FS_Difference
<1>7. Cardinality(B \ P) = Cardinality(B) - Cardinality(B \cap P)
  BY <1>5, FS_Difference
<1>8. /\ Cardinality(P) \in Nat /\ Cardinality(B) \in Nat
      /\ Cardinality(P \cap B) \in Nat /\ B \cap P = P \cap B
  BY <1>4, CasesFinite
<1>9. PassedIn(now) = Cardinality(P) /\ PassedIn(old) = Cardinality(B)
  BY DEF PassedIn
<1> HIDE DEF P, B
<1>10. Cardinality(P) - Cardinality(B) = Cardinality(P \ B) - Cardinality(B \ P)
  BY <1>6, <1>7, <1>8
<1> QED
  BY <1>2, <1>3, <1>9, <1>10

\* Without a case there is nothing to explain.
LEMMA NothingPasses == NumCases = 0 => \A results : PassedIn(results) = 0
<1> SUFFICES ASSUME NumCases = 0, NEW results PROVE PassedIn(results) = 0
  OBVIOUS
<1>1. {c \in Cases : results[c] = "pass"} = {}
  BY DEF Cases
<1> QED
  BY <1>1, FS_EmptySet DEF PassedIn

\* Comparing with a baseline keeps it.
LEMMA CompareDelta ==
  ASSUME TypeOK, DeltaInv, NEW b \in Baselines, CompareBaseline(b)
  PROVE  DeltaInv'
<1> DEFINE old == [c \in Cases |-> IF caseResults[c] = "hole" THEN "none" ELSE BaselineOf(b, c)]
<1>1. phase = "baseline" /\ phase' = "save" /\ caseResults' = caseResults
  BY DEF CompareBaseline, poolVars
<1>2. /\ summary'.total = summary.total /\ summary'.passed = summary.passed
      /\ summary'.baselineTotal = Cardinality(StoredIn(b))
      /\ summary'.baselinePassed = PassedIn(b)
      /\ summary'.regressions = Cardinality({c \in Cases : old[c] = "pass" /\ caseResults[c] = "fail"})
      /\ summary'.improvements = Cardinality({c \in Cases : old[c] = "fail" /\ caseResults[c] = "pass"})
  BY DEF CompareBaseline, TypeOK
<1> HIDE DEF old
<1>3. SUFFICES ASSUME summary'.total = NumCases, summary'.baselineTotal = NumCases,
                      \A c, d \in Cases : CaseId[c] = CaseId[d] => c = d
               PROVE  summary'.passed - summary'.baselinePassed = summary'.improvements - summary'.regressions
  BY <1>1 DEF DeltaInv, DeltaExplained
<1>4. StoredIn(caseResults) = Cases /\ summary.passed = PassedIn(caseResults)
  BY <1>1, <1>2, <1>3 DEF DeltaInv
<1>5. StoredIn(b) = Cases
  BY <1>2, <1>3, AllStored
<1>6. \A c \in Cases : caseResults[c] # "hole" /\ b[c] # "hole"
  BY <1>4, <1>5 DEF StoredIn
<1>7. \A c \in Cases : old[c] = b[c]
  BY <1>3, <1>6, UniqueBaseline DEF old
<1>8. /\ {c \in Cases : old[c] = "pass" /\ caseResults[c] = "fail"}
           = {c \in Cases : b[c] = "pass" /\ caseResults[c] = "fail"}
      /\ {c \in Cases : old[c] = "fail" /\ caseResults[c] = "pass"}
           = {c \in Cases : b[c] = "fail" /\ caseResults[c] = "pass"}
  BY <1>7
<1>9. caseResults \in Baselines
  BY DEF TypeOK, Baselines
<1> QED
  BY <1>2, <1>4, <1>5, <1>8, <1>9, PassesDiffer

\* The pass rates of a run and of its baseline differ by what improved and what regressed
\* (evalRunner.ts), for every dataset with unique ids and every baseline.
THEOREM DeltasAddUp == Spec => []DeltaExplained
<1>1. Init => DeltaInv
  BY DEF Init, DeltaInv, NoComparison, NoSummary
<1>2. TypeOK /\ PoolInv /\ NoHoles' /\ DeltaInv /\ [Next]_vars => DeltaInv'
  <2> SUFFICES ASSUME TypeOK, PoolInv, NoHoles', DeltaInv, [Next]_vars PROVE DeltaInv'
    OBVIOUS
  <2>1. CASE Launch
    BY <2>1 DEF Launch, resultVars, DeltaInv, NoComparison
  <2>2. ASSUME NEW w \in Workers, WorkerStep(w) PROVE DeltaInv'
    <3>1. Busy(w) /\ UNCHANGED summary /\ phase' \in {phase, "rejected"}
      BY <2>2 DEF WorkerStep, FinishCase, Resume, TaskThrows, Busy, resultVars
    <3>2. phase \in {"running", "rejected"}
      BY <3>1 DEF PoolInv, Quiet, Busy, Idle, TypeOK, Phases
    <3> QED
      BY <3>1, <3>2 DEF DeltaInv, NoComparison
  <2>3. CASE Summarise
    <3>1. phase = "running" /\ phase' = "baseline" /\ caseResults' = caseResults
      BY <2>3 DEF Summarise, poolVars
    <3>2. /\ summary'.total = IF Sequential THEN Cardinality(StoredIn(caseResults)) ELSE NumCases
          /\ summary'.passed = PassedIn(caseResults) /\ NoComparison'
      BY <2>3, <3>1 DEF Summarise, TypeOK, DeltaInv, NoComparison
    <3>3. summary'.total = NumCases => StoredIn(caseResults) = Cases
      <4>1. CASE Sequential
        BY <4>1, <3>2, AllStored
      <4>2. CASE ~Sequential
        <5>1. (StoredIn(caseResults) = Cases)'
          BY <4>2, <3>1 DEF NoHoles, Sequential
        <5> QED
          BY <5>1, <3>1 DEF StoredIn
      <4> QED
        BY <4>1, <4>2
    <3> QED
      BY <3>1, <3>2, <3>3 DEF DeltaInv, StoredIn, PassedIn
  <2>4. ASSUME NEW b \in Baselines, CompareBaseline(b) PROVE DeltaInv'
    BY <2>4, CompareDelta
  <2>5. CASE SkipBaseline
    <3>1. phase = "baseline" /\ phase' = "save" /\ summary' = summary
      BY <2>5 DEF SkipBaseline, resultVars
    <3>2. NoComparison /\ summary.passed = PassedIn(caseResults)
      BY <3>1 DEF DeltaInv
    <3>3. NumCases = 0 => PassedIn(caseResults) = 0
      BY NothingPasses
    <3> QED
      BY <3>1, <3>2, <3>3 DEF DeltaInv, DeltaExplained, NoComparison
  <2>6. CASE Save \/ Attach \/ SaveOrAttachThrows
    <3>1. /\ summary' = summary
          /\ phase \in {"save", "attach"} /\ phase' \in {"attach", "resolved", "rejected"}
      BY <2>6 DEF Save, Attach, SaveOrAttachThrows, resultVars
    <3> QED
      BY <3>1 DEF DeltaInv, DeltaExplained
  <2>7. CASE UNCHANGED vars
    <3>1. phase' = phase /\ summary' = summary /\ caseResults' = caseResults
      BY <2>7 DEF vars
    <3> QED
      BY <3>1 DEF DeltaInv, NoComparison, DeltaExplained, StoredIn, PassedIn
  <2> QED
    BY <2>1, <2>2, <2>3, <2>4, <2>5, <2>6, <2>7 DEF Next, Report
<1>3. DeltaInv => (phase \in {"save", "attach", "resolved"} => DeltaExplained)
  BY DEF DeltaInv
<1>4. DeltaInv => DeltaExplained
  <2> SUFFICES ASSUME DeltaInv, phase \notin {"save", "attach", "resolved"} PROVE DeltaExplained
    BY <1>3
  <2> QED
    BY DEF DeltaExplained
<1> QED
  BY <1>1, <1>2, <1>4, TypeCorrect, PoolCorrect, NoCaseIsLost, PTL DEF Spec

-------------------------------------------------------------------------------
\* stopOnFailure: no case after a failing one is started, whatever concurrency says.
THEOREM StopsEarly == Spec => []StopsAtFirstFailure
<1> USE NumCasesAssumption, WorkersExist DEF Cases, Workers
<1>1. Init => StopInv
  BY DEF Init, StopInv, Idle, Exited
<1>2. TypeOK /\ PoolInv /\ StopInv /\ [Next]_vars => StopInv'
  <2> SUFFICES ASSUME TypeOK, PoolInv, StopInv, [Next]_vars, StopOnFailure
               PROVE  /\ ~Idle(1)' => worker'[1].case = index'
                      /\ \A c \in Cases : verdict'[c] = "fail" => c = index' /\ worker'[1].pc # "running"
    BY DEF StopInv
  <2>0. Workers = {1} /\ index \in 0..NumCases /\ worker \in [Workers -> WorkerState]
        /\ verdict \in [Cases -> Verdicts \cup {"hole"}]
    BY DEF TypeOK
  <2>s. /\ ~Idle(1) => worker[1].case = index /\ index \in Cases
        /\ \A c \in Cases : verdict[c] = "fail" => c = index /\ worker[1].pc # "running"
    BY <2>0 DEF StopInv, PoolInv, Exclusive
  <2>1. CASE Launch
    <3>1. \A c \in Cases : verdict'[c] = "hole"
      BY <2>1 DEF Launch, PoolInv, Quiet, Accounted
    <3>2. ~Idle(1)' => worker'[1].case = index'
      BY <2>0, <2>1 DEF Launch, Idle, Running, Exited
    <3> QED
      BY <3>1, <3>2
  <2>2. ASSUME NEW v \in Verdicts, FinishCase(1, v)
        PROVE  /\ ~Idle(1)' => worker'[1].case = index'
               /\ \A c \in Cases : verdict'[c] = "fail" => c = index' /\ worker'[1].pc # "running"
    <3>1. /\ worker'[1].pc = "callback" /\ worker'[1].case = worker[1].case /\ index' = index
          /\ verdict' = [verdict EXCEPT ![worker[1].case] = v]
      BY <2>0, <2>2 DEF FinishCase, InCallback
    <3>2. worker[1].case = index /\ index \in Cases
      BY <2>2, <2>s DEF FinishCase, Idle
    <3> QED
      BY <2>0, <2>s, <3>1, <3>2
  <2>3. ASSUME Resume(1)
        PROVE  /\ ~Idle(1)' => worker'[1].case = index'
               /\ \A c \in Cases : verdict'[c] = "fail" => c = index' /\ worker'[1].pc # "running"
    <3>1. /\ worker[1].pc = "callback" /\ verdict' = verdict /\ worker[1].case = index
          /\ worker[1].result = verdict[index]
      BY <2>0, <2>3, <2>s DEF Resume, Idle, PoolInv, Faithful
    <3>2. CASE index' = index /\ worker' = [worker EXCEPT ![1] = Exited]
      BY <2>0, <2>s, <3>1, <3>2 DEF Exited, Idle
    <3>3. CASE index' = index + 1 /\ worker[1].result # "fail" /\ worker' = [worker EXCEPT ![1] = Running(index + 1)]
      BY <2>0, <2>s, <3>1, <3>3 DEF Running, Idle
    <3> QED
      BY <2>3, <3>2, <3>3 DEF Resume
  <2>4. ASSUME TaskThrows(1)
        PROVE  /\ ~Idle(1)' => worker'[1].case = index'
               /\ \A c \in Cases : verdict'[c] = "fail" => c = index' /\ worker'[1].pc # "running"
    <3>1. worker'[1].pc = "crashed" /\ worker'[1].case = worker[1].case /\ index' = index
          /\ verdict' = verdict /\ ~Idle(1)
      BY <2>0, <2>4 DEF TaskThrows, Busy, Crashed, Idle
    <3> QED
      BY <2>s, <3>1
  <2>5. CASE Report
    BY <2>5, <2>s DEF Report, Summarise, CompareBaseline, SkipBaseline, Save, Attach,
         SaveOrAttachThrows, poolVars, Idle
  <2>6. CASE UNCHANGED vars
    BY <2>6, <2>s DEF vars, Idle
  <2> QED
    BY <2>0, <2>1, <2>2, <2>3, <2>4, <2>5, <2>6 DEF Next, WorkerStep
<1>3. TypeOK /\ PoolInv /\ StopInv => StopsAtFirstFailure
  <2> SUFFICES ASSUME TypeOK, PoolInv, StopInv, StopOnFailure, NEW c \in Cases, verdict[c] = "fail",
                      NEW d \in Cases, d > c
               PROVE  starts[d] = 0
    BY DEF StopsAtFirstFailure
  <2>1. c = index
    BY DEF StopInv
  <2> QED
    BY <2>1 DEF PoolInv, ClaimedPrefix
<1> QED
  BY <1>1, <1>2, <1>3, TypeCorrect, PoolCorrect, PTL DEF Spec

-------------------------------------------------------------------------------
(* The pool implements the ledger. *)

\* What the ledger says of a case, by what the pool knows of it.
LEMMA EntryOf ==
  ASSUME TypeOK, PoolInv, NEW c \in Cases
  PROVE  /\ caseResults[c] # "hole" => LedgerEntry(c) = caseResults[c] /\ LedgerEntry(c) \in Verdicts
         /\ \A w \in Workers : Holds(w, c) /\ worker[w].pc = "crashed" => LedgerEntry(c) = "thrown"
         /\ \A w \in Workers : Holds(w, c) /\ Busy(w) => LedgerEntry(c) = "running"
         /\ c > index => LedgerEntry(c) = "todo"
         /\ LedgerEntry(c) = "running" => \E w \in Workers : Holds(w, c) /\ Busy(w)
         /\ LedgerEntry(c) = "thrown" => \E w \in Workers : worker[w].pc = "crashed"
<1> USE DEF Idle, Holds, Busy, Holders
<1>0. caseResults[c] \in Verdicts \cup {"hole"}
  BY DEF TypeOK
<1>1. \A w \in Workers : Holds(w, c) => caseResults[c] = "hole"
  BY DEF PoolInv, Exclusive
<1>2. \A w, x \in Workers : Holds(w, c) /\ Holds(x, c) => w = x
  BY DEF PoolInv, Exclusive
<1>3. c > index => caseResults[c] = "hole" /\ \A w \in Workers : ~Holds(w, c)
  <2>1. index \in Int /\ c \in Int
    BY NumCasesAssumption DEF TypeOK, Cases
  <2> QED
    BY <2>1 DEF PoolInv, Accounted, Exclusive
<1>4. caseResults[c] # "hole" => LedgerEntry(c) = caseResults[c] /\ LedgerEntry(c) \in Verdicts
  BY <1>0 DEF LedgerEntry
<1>5. \A w \in Workers : Holds(w, c) /\ worker[w].pc = "crashed" => LedgerEntry(c) = "thrown"
  BY <1>1 DEF LedgerEntry
<1>6. \A w \in Workers : Holds(w, c) /\ Busy(w) => LedgerEntry(c) = "running"
  BY <1>1, <1>2 DEF LedgerEntry
<1>7. c > index => LedgerEntry(c) = "todo"
  BY <1>3 DEF LedgerEntry
<1>8. LedgerEntry(c) = "running" => \E w \in Workers : Holds(w, c) /\ Busy(w)
  BY <1>0 DEF LedgerEntry, Verdicts
<1>9. LedgerEntry(c) = "thrown" => \E w \in Workers : worker[w].pc = "crashed"
  BY <1>0 DEF LedgerEntry, Verdicts
<1> QED
  BY <1>4, <1>5, <1>6, <1>7, <1>8, <1>9

\* Every running case has a worker of its own, so at most Concurrency of them run.
LEMMA InFlightBound ==
  TypeOK /\ PoolInv => Cardinality(Ledger!InFlight) <= Concurrency
<1> SUFFICES ASSUME TypeOK, PoolInv
             PROVE  Cardinality({c \in Cases : LedgerEntry(c) = "running"}) <= Concurrency
  BY DEF Ledger!InFlight
<1> DEFINE S == {c \in Cases : LedgerEntry(c) = "running"}
           f == [c \in S |-> CHOOSE w \in Workers : Holds(w, c)]
<1>1. \A c \in S : f[c] \in Workers /\ Holds(f[c], c)
  BY EntryOf
<1>2. f \in Injection(S, Workers)
  <2>1. f \in [S -> Workers]
    BY <1>1
  <2>2. \A c, d \in S : f[c] = f[d] => c = d
    BY <1>1 DEF Holds
  <2> QED
    BY <2>1, <2>2 DEF Injection, IsInjective
<1>3. IsFiniteSet(Workers) /\ Cardinality(Workers) = WorkerCount
  BY FS_Interval, WorkersExist DEF Workers
<1>4. Cardinality(S) <= Cardinality(Workers) /\ IsFiniteSet(S)
  BY <1>2, <1>3, FS_Injection
<1>5. Cardinality(S) \in Nat
  BY <1>4, FS_CardinalityType
<1> QED
  BY <1>3, <1>4, <1>5, WorkersExist, ConcurrencyAssumption

\* The ledger counts as this module does.
LEMMA SameCardinality == \A S : Ledger!Cardinality(S) = Cardinality(S)
BY DEF Cardinality, Ledger!Cardinality, IsFiniteSet, Ledger!IsFiniteSet

\* The promise of the ledger, read off the phase.
Promise == IF phase \in {"resolved", "rejected"} THEN phase ELSE "pending"

\* A step of the pool that moves cases forward, and rejects if one of them threw, is an
\* Advance of the ledger.
LEMMA AdvanceStep ==
  ASSUME TypeOK, PoolInv, TypeOK', PoolInv',
         phase \notin {"resolved"}, phase' \notin {"resolved"},
         \A c \in Cases : Ledger!Forward(LedgerEntry(c), LedgerEntry(c)'),
         Promise' = IF \E c \in Cases : LedgerEntry(c)' = "thrown" THEN "rejected" ELSE Promise
  PROVE  Ledger!Advance
<1>1. (Cardinality(Ledger!InFlight) <= Concurrency)'
  BY InFlightBound, PTL
<1>2. Promise # "resolved"
  BY DEF Promise
<1>4. Ledger!Cardinality(Ledger!InFlight') <= Concurrency
  BY <1>1, SameCardinality
<1>5. [c \in Cases |-> LedgerEntry(c)]' = [c \in Cases |-> LedgerEntry(c)']
  OBVIOUS
<1>3. UNCHANGED [c \in Cases |-> IF phase = "resolved" /\ caseResults[c] # "hole"
                                THEN caseResults[c] ELSE "none"]
  OBVIOUS
<1> QED
  BY <1>2, <1>3, <1>4, <1>5 DEF Ledger!Advance, Promise

\* EntryOf and CrashRejects, as one state formula.
EntriesAgree ==
  \A c \in Cases :
    /\ caseResults[c] # "hole" => LedgerEntry(c) = caseResults[c]
    /\ \A w \in Workers : Holds(w, c) /\ worker[w].pc = "crashed" => LedgerEntry(c) = "thrown"
    /\ \A w \in Workers : Holds(w, c) /\ Busy(w) => LedgerEntry(c) = "running"
    /\ c > index => LedgerEntry(c) = "todo"
    /\ LedgerEntry(c) = "thrown" => phase = "rejected"

\* The invariant fixes what the ledger says.
LEMMA EntryFacts == TypeOK /\ PoolInv => EntriesAgree
BY EntryOf DEF PoolInv, CrashRejects, EntriesAgree

\* Every run of the pool is a run of the ledger: at most Concurrency cases in flight,
\* every case run once, one settlement, and the published verdicts are the returned ones.
THEOREM PoolImplementsLedger == Spec => ImplementsLedger
<1>1. Init => Ledger!LedgerInit
  BY WorkersExist DEF Init, NoResults, Exited, LedgerEntry, Holders, Busy, Ledger!LedgerInit, Ledger!Nothing
<1>2. TypeOK /\ TypeOK' /\ PoolInv /\ PoolInv' /\ [Next]_vars => [Ledger!LedgerNext]_(Ledger!ledgerVars)
  <2> SUFFICES ASSUME TypeOK, TypeOK', PoolInv, PoolInv', [Next]_vars
               PROVE  [Ledger!LedgerNext]_(Ledger!ledgerVars)
    OBVIOUS
  <2>c. NumCases \in Nat /\ WorkerCount \in Nat /\ Cases = 1..NumCases /\ Workers = 1..WorkerCount
    BY NumCasesAssumption, WorkersExist DEF Cases, Workers
  <2>t. /\ index \in 0..NumCases /\ worker \in [Workers -> WorkerState]
        /\ caseResults \in [Cases -> Verdicts \cup {"hole"}]
    BY DEF TypeOK
  <2>e. \A c \in Cases : c > index => LedgerEntry(c) = "todo"
    BY EntryOf
  <2>r. EntriesAgree'
    BY EntryFacts, PTL
  <2>q. EntriesAgree
    BY EntryFacts
  <2>1. CASE Launch
    <3>1. /\ index = 0 /\ phase = "start" /\ phase' = "running"
          /\ index' = IF WorkerCount <= NumCases THEN WorkerCount ELSE NumCases
          /\ worker' = [w \in Workers |-> IF w <= NumCases THEN Running(w) ELSE Exited]
      BY <2>1 DEF Launch, PoolInv, Quiet
    <3>2. ASSUME NEW c \in Cases PROVE LedgerEntry(c) = "todo" /\ LedgerEntry(c)' \in {"todo", "running"}
      <4>0. c \in 1..NumCases
        BY <2>c
      <4>1. LedgerEntry(c) = "todo"
        BY <2>e, <3>1, <4>0
      <4>2. CASE c <= WorkerCount
        <5>1. c \in Workers /\ Holds(c, c)' /\ Busy(c)'
          BY <2>c, <3>1, <4>0, <4>2 DEF Holds, Idle, Busy, Running
        <5> QED
          BY <2>r, <4>1, <5>1 DEF EntriesAgree
      <4>3. CASE c > WorkerCount
        <5>1. c > index'
          BY <2>c, <3>1, <4>0, <4>3
        <5> QED
          BY <2>r, <4>1, <5>1 DEF EntriesAgree
      <4> QED
        BY <2>c, <4>0, <4>2, <4>3
    <3>3. Ledger!Advance
      BY AdvanceStep, <3>1, <3>2 DEF Promise, Ledger!Forward
    <3> QED
      BY <3>3 DEF Ledger!LedgerNext
  <2>2. ASSUME NEW w \in Workers, NEW v \in Verdicts, FinishCase(w, v)
        PROVE  UNCHANGED Ledger!ledgerVars
    <3>1. /\ worker[w].pc = "running"
          /\ worker' = [worker EXCEPT ![w] = InCallback(worker[w].case, v)]
          /\ UNCHANGED <<phase, caseResults>>
      BY <2>2 DEF FinishCase
    <3>2. /\ worker'[w].pc = "callback" /\ worker'[w].case = worker[w].case
          /\ \A x \in Workers : x # w => worker'[x] = worker[x]
      BY <2>t, <3>1 DEF InCallback
    <3>3. ASSUME NEW x \in Workers
          PROVE  /\ worker'[x].case = worker[x].case
                 /\ worker'[x].pc = "crashed" <=> worker[x].pc = "crashed"
                 /\ Busy(x)' <=> Busy(x)
      BY <3>1, <3>2 DEF Busy
    <3>4. ASSUME NEW c \in Cases PROVE LedgerEntry(c)' = LedgerEntry(c)
      <4>1. Holders(c)' = Holders(c)
        BY <3>3 DEF Holders
      <4>2. \A x \in Holders(c) : x \in Workers
        BY DEF Holders
      <4> QED
        BY <3>1, <3>3, <4>1, <4>2 DEF LedgerEntry
    <3> QED
      BY <3>1, <3>4 DEF Ledger!ledgerVars
  <2>3. ASSUME NEW w \in Workers, Resume(w)
        PROVE  Ledger!Advance
    <3>0. worker[w].case \in Cases
      <4>1. ~Idle(w)
        BY <2>3 DEF Resume, Idle
      <4> QED
        BY <2>c, <2>t, <4>1 DEF PoolInv, Exclusive
    <3> PICK c \in Cases : c = worker[w].case
      BY <3>0
    <3> PICK n \in Int : n = index + 1
      BY <2>t
    <3>1. /\ worker[w].pc = "callback" /\ Holds(w, c) /\ Busy(w)
          /\ worker[w].result \in Verdicts
          /\ caseResults' = [caseResults EXCEPT ![c] = worker[w].result]
          /\ phase' = phase /\ phase \notin {"start", "resolved"}
      <4>1. worker[w].pc = "callback" /\ ~Idle(w) /\ Busy(w)
        BY <2>3 DEF Resume, Idle, Busy
      <4>3. worker[w].result \in Verdicts
        BY <4>1 DEF PoolInv, Faithful
      <4>4. phase \notin {"start", "resolved"}
        BY <4>1 DEF PoolInv, Quiet
      <4> QED
        BY <2>3, <2>c, <2>t, <4>1, <4>3, <4>4 DEF Resume, Holds
    <3>2. LedgerEntry(c) = "running" /\ LedgerEntry(c)' \in {"pass", "fail"}
      <4>1. caseResults'[c] = worker[w].result
        BY <2>t, <3>1
      <4> QED
        BY <2>q, <2>r, <3>1, <4>1 DEF EntriesAgree, Verdicts
    <3>3. ASSUME NEW d \in Cases, d # c, d # n PROVE LedgerEntry(d)' = LedgerEntry(d)
      <4>1. caseResults'[d] = caseResults[d]
        BY <2>t, <3>1, <3>3
      <4>2. \A x \in Workers : x # w => worker'[x] = worker[x]
        BY <2>3, <2>t DEF Resume
      <4>3. worker'[w].case # d /\ worker[w].case # d
        <5>1. d # 0 /\ d # n
          BY <2>c, <3>3
        <5>2. worker'[w] = Exited \/ worker'[w] = Running(n)
          BY <2>3, <2>t DEF Resume
        <5> QED
          BY <3>3, <5>1, <5>2 DEF Running, Exited
      <4>4. \A x \in Workers : worker'[x].case = d <=> worker[x].case = d
        BY <4>2, <4>3
      <4>5. Holders(d)' = Holders(d) /\ w \notin Holders(d) /\ Holders(d) \subseteq Workers
        BY <4>3, <4>4 DEF Holders
      <4>6. \A x \in Holders(d) : worker'[x].pc = worker[x].pc
        BY <4>2, <4>5
      <4> QED
        BY <4>1, <4>5, <4>6 DEF LedgerEntry, Busy
    <3>4. ASSUME n \in Cases
          PROVE  LedgerEntry(n) = "todo" /\ LedgerEntry(n)' \in {"todo", "running"}
      <4>1. LedgerEntry(n) = "todo"
        BY <2>c, <2>t, <2>e, <3>4
      <4>2. CASE index' = index
        BY <2>c, <2>t, <2>r, <3>4, <4>1, <4>2 DEF EntriesAgree
      <4>3. CASE worker' = [worker EXCEPT ![w] = Running(n)]
        <5>1. worker'[w].pc = "running" /\ worker'[w].case = n
          BY <2>t, <4>3 DEF Running
        <5>2. Holds(w, n)' /\ Busy(w)'
          BY <5>1 DEF Holds, Idle, Busy
        <5> QED
          BY <2>r, <3>4, <4>1, <5>2 DEF EntriesAgree
      <4> QED
        BY <2>3, <4>2, <4>3 DEF Resume
    <3>5. \A d \in Cases : Ledger!Forward(LedgerEntry(d), LedgerEntry(d)')
      <4> TAKE d \in Cases
      <4>1. CASE d = c
        BY <3>2, <4>1 DEF Ledger!Forward
      <4>2. CASE d = n
        BY <3>4, <4>2 DEF Ledger!Forward
      <4>3. CASE d # c /\ d # n
        BY <3>3, <4>3 DEF Ledger!Forward
      <4> QED
        BY <4>1, <4>2, <4>3
    <3> QED
      BY <2>r, <3>1, <3>5, AdvanceStep DEF Promise, EntriesAgree
  <2>4. ASSUME NEW w \in Workers, TaskThrows(w)
        PROVE  Ledger!Advance
    <3>0. worker[w].case \in Cases
      <4>1. ~Idle(w)
        BY <2>4 DEF TaskThrows, Busy, Idle
      <4> QED
        BY <2>c, <2>t, <4>1 DEF PoolInv, Exclusive
    <3> PICK c \in Cases : c = worker[w].case
      BY <3>0
    <3>1. /\ Holds(w, c) /\ Busy(w) /\ phase # "resolved" /\ phase' = "rejected"
          /\ worker' = [worker EXCEPT ![w] = Crashed(c)] /\ caseResults' = caseResults
      <4>1. ~Idle(w) /\ Busy(w)
        BY <2>4 DEF TaskThrows, Idle, Busy
      <4>3. phase # "resolved"
        BY <4>1 DEF PoolInv, Quiet
      <4> QED
        BY <2>4, <2>c, <2>t, <4>1, <4>3 DEF TaskThrows, Holds
    <3>2. /\ worker'[w].pc = "crashed" /\ worker'[w].case = c
          /\ \A x \in Workers : x # w => worker'[x] = worker[x]
      BY <2>t, <3>1 DEF Crashed
    <3>3. LedgerEntry(c) = "running" /\ LedgerEntry(c)' = "thrown"
      <4>1. Holds(w, c)'
        BY <3>2 DEF Holds, Idle
      <4> QED
        BY <2>q, <2>r, <3>1, <3>2, <4>1 DEF EntriesAgree
    <3>4. ASSUME NEW d \in Cases, d # c PROVE LedgerEntry(d)' = LedgerEntry(d)
      <4>1. Holders(d)' = Holders(d) /\ w \notin Holders(d) /\ Holders(d) \subseteq Workers
        BY <3>2, <3>4 DEF Holders
      <4>2. \A x \in Holders(d) : worker'[x].pc = worker[x].pc
        BY <3>2, <4>1
      <4> QED
        BY <3>1, <4>1, <4>2 DEF LedgerEntry, Busy
    <3>5. \A d \in Cases : Ledger!Forward(LedgerEntry(d), LedgerEntry(d)')
      BY <3>3, <3>4 DEF Ledger!Forward
    <3> QED
      BY <3>1, <3>3, <3>5, AdvanceStep DEF Promise
  <2>5. CASE Attach
    <3>1. /\ phase = "attach" /\ phase' = "resolved"
          /\ UNCHANGED <<worker, caseResults>> /\ \A w \in Workers : Idle(w)
      BY <2>5 DEF Attach, poolVars, PoolInv, Quiet
    <3>2. \A c \in Cases : /\ LedgerEntry(c) \in {"pass", "fail", "todo"}
                           /\ LedgerEntry(c)' = LedgerEntry(c)
                           /\ LedgerEntry(c) = "todo" <=> caseResults[c] = "hole"
                           /\ caseResults[c] # "hole" => LedgerEntry(c) = caseResults[c]
      BY <2>t, <3>1 DEF LedgerEntry, Holders, Busy, Idle, Verdicts
    <3>3. ~StopOnFailure => \A c \in Cases : LedgerEntry(c) # "todo"
      <4>1. TypeOK /\ PoolInv => NoHoles
        BY PoolGivesNoHoles
      <4> QED
        BY <3>1, <3>2, <4>1 DEF NoHoles, StoredIn
    <3>4. Ledger!InFlight = {} /\ \A c \in Cases : LedgerEntry(c) # "thrown"
      BY <3>2 DEF Ledger!InFlight
    <3> QED
      BY <2>t, <3>1, <3>2, <3>3, <3>4, OptionsAssumption DEF Ledger!LedgerNext, Ledger!Publish, Ledger!Unfinished
  <2>6. CASE SaveOrAttachThrows
    <3>1. /\ phase \in {"save", "attach"} /\ phase' = "rejected"
          /\ UNCHANGED <<worker, caseResults>> /\ \A w \in Workers : Idle(w)
      BY <2>6 DEF SaveOrAttachThrows, poolVars, PoolInv, Quiet
    <3>2. \A c \in Cases : LedgerEntry(c) # "running" /\ LedgerEntry(c)' = LedgerEntry(c)
      BY <2>t, <3>1 DEF LedgerEntry, Holders, Busy, Idle, Verdicts
    <3> QED
      BY <3>1, <3>2 DEF Ledger!LedgerNext, Ledger!Abandon, Ledger!InFlight
  <2>7. CASE Summarise \/ SkipBaseline \/ Save \/ \E b \in Baselines : CompareBaseline(b)
    <3>1. UNCHANGED poolVars /\ phase \notin {"resolved", "rejected"} /\ phase' \notin {"resolved", "rejected"}
      BY <2>7 DEF Summarise, SkipBaseline, Save, CompareBaseline
    <3> QED
      BY <3>1 DEF Ledger!ledgerVars, poolVars, LedgerEntry, Holders, Busy
  <2>8. CASE UNCHANGED vars
    BY <2>8 DEF vars, Ledger!ledgerVars, LedgerEntry, Holders, Busy
  <2> QED
    BY <2>1, <2>2, <2>3, <2>4, <2>5, <2>6, <2>7, <2>8 DEF Next, WorkerStep, Report, Ledger!LedgerNext
<1> QED
  BY <1>1, <1>2, TypeCorrect, PoolCorrect, PTL DEF Spec, ImplementsLedger, Ledger!LedgerSpec
-------------------------------------------------------------------------------
(* The reporters: what a test adds to the results, and which runs are listed to be     *)
(* deleted.                                                                            *)

\* Only a test that has been read has results, of one kind.
OneKind ==
  \A p \in Procs :
    /\ collected[p] \in {{}, {"dataset"}, {"calls"}}
    /\ reading[p] # "done" => collected[p] = {}

\* A run that a cleanup is about to delete has HistoryLimit newer runs beside it, whatever
\* the other cleanups have deleted since it was listed.
ListedAreOld ==
  \A p \in Procs : pc[p] = "unlink" => \A s \in listed[p] : R!Cardinality(R!Newer(s)) >= HistoryLimit

ReporterTypeOK ==
  /\ reading \in [Procs -> {"none", "dataset", "calls", "done"}]
  /\ collected = [p \in Procs |-> collected[p]]
  /\ pc = [p \in Procs |-> pc[p]]
  /\ listed \in [Procs -> SUBSET R!Stamps]
  /\ file \in [R!Stamps -> {"none", "torn", "whole", "deleted"}]

ReporterInv == ReporterTypeOK /\ OneKind /\ ListedAreOld

\* The reporters count as this module does.
LEMMA ReportersCount == \A S : R!Cardinality(S) = Cardinality(S)
BY DEF Cardinality, R!Cardinality, IsFiniteSet, R!IsFiniteSet

\* There are finitely many timestamps, and they are numbers.
LEMMA StampsFinite == R!Stamps \subseteq Int /\ IsFiniteSet(R!Stamps)
<1>1. Cardinality(Procs) \in Nat
  BY ReporterAssumption, FS_CardinalityType
<1>2. R!LastStamp \in Nat
  BY <1>1, ReporterAssumption, ReportersCount DEF R!LastStamp
<1> QED
  BY <1>2, FS_Interval DEF R!Stamps

\* What is newer than a run can be counted, now and in the next state.
LEMMA CountNewer ==
  \A T \in SUBSET R!Stamps : IsFiniteSet(T) /\ Cardinality(T) \in Nat /\ R!Cardinality(T) = Cardinality(T)
BY StampsFinite, FS_Subset, FS_CardinalityType, ReportersCount

\* More files are more newer files.
LEMMA MoreFiles ==
  ASSUME NEW s \in R!Stamps, R!Newer(s) \subseteq R!Newer(s)', R!Cardinality(R!Newer(s)) >= HistoryLimit
  PROVE  R!Cardinality(R!Newer(s)') >= HistoryLimit
<1>1. R!Newer(s) \in SUBSET R!Stamps /\ R!Newer(s)' \in SUBSET R!Stamps
  BY DEF R!Newer, R!RunFiles
<1>2. Cardinality(R!Newer(s)) <= Cardinality(R!Newer(s)')
  BY <1>1, CountNewer, FS_Subset
<1>3. /\ R!Cardinality(R!Newer(s)) = Cardinality(R!Newer(s)) /\ Cardinality(R!Newer(s)) \in Nat
      /\ R!Cardinality(R!Newer(s)') = Cardinality(R!Newer(s)') /\ Cardinality(R!Newer(s)') \in Nat
  BY <1>1, CountNewer
<1> QED
  BY <1>2, <1>3, ReporterAssumption

\* A cleanup deletes the newest run it lists.  An older run that another cleanup lists loses
\* a newer one, but keeps those that are newer than the deleted: they are enough.
LEMMA UnlinkStep ==
  ASSUME ReporterInv, NEW p \in Procs, R!Unlink(p)
  PROVE  ReporterInv'
<1>1. PICK s \in listed[p] :
        /\ pc[p] = "unlink"
        /\ \/ /\ file[s] # "deleted"
              /\ file' = [file EXCEPT ![s] = "deleted"]
              /\ listed' = [listed EXCEPT ![p] = @ \ {s}]
           \/ listed' = [listed EXCEPT ![p] = {}] /\ UNCHANGED file
        /\ pc' = pc /\ reading' = reading /\ collected' = collected
  BY DEF R!Unlink, R!testVars
<1>2. s \in R!Stamps /\ s \in Int
  BY StampsFinite DEF ReporterInv, ReporterTypeOK
<1>3. ReporterTypeOK'
  BY <1>1, <1>2 DEF ReporterInv, ReporterTypeOK
<1>4. OneKind'
  BY <1>1 DEF ReporterInv, OneKind
<1>5. ASSUME NEW q \in Procs, pc'[q] = "unlink", NEW t \in listed'[q]
      PROVE  R!Cardinality(R!Newer(t)') >= HistoryLimit
  <2>1. pc[q] = "unlink" /\ t \in listed[q] /\ t \in R!Stamps /\ t \in Int
    BY <1>1, <1>5, StampsFinite DEF ReporterInv, ReporterTypeOK
  <2>2. R!Cardinality(R!Newer(t)) >= HistoryLimit /\ R!Cardinality(R!Newer(s)) >= HistoryLimit
    BY <1>1, <2>1 DEF ReporterInv, ListedAreOld
  <2>3. CASE UNCHANGED file
    <3>1. R!Newer(t)' = R!Newer(t)
      BY <2>3 DEF R!Newer, R!RunFiles
    <3> QED
      BY <2>2, <3>1
  <2>4. CASE file' = [file EXCEPT ![s] = "deleted"]
    <3>1. \A u \in R!Stamps : u # s => file'[u] = file[u]
      BY <2>4 DEF ReporterInv, ReporterTypeOK
    <3>2. CASE s <= t
      <4>1. R!Newer(t) \subseteq R!Newer(t)'
        <5> SUFFICES ASSUME NEW u \in R!Newer(t) PROVE u \in R!Newer(t)'
          OBVIOUS
        <5>1. u \in R!Stamps /\ u \in Int /\ file[u] \in {"torn", "whole"} /\ u > t
          BY StampsFinite DEF R!Newer, R!RunFiles
        <5>2. u # s
          BY <1>2, <2>1, <3>2, <5>1
        <5> QED
          BY <3>1, <5>1, <5>2 DEF R!Newer, R!RunFiles
      <4> QED
        BY <2>1, <2>2, <4>1, MoreFiles
    <3>3. CASE t < s
      <4>1. R!Newer(s) \subseteq R!Newer(t)'
        <5> SUFFICES ASSUME NEW u \in R!Newer(s) PROVE u \in R!Newer(t)'
          OBVIOUS
        <5>1. u \in R!Stamps /\ u \in Int /\ file[u] \in {"torn", "whole"} /\ u > s
          BY StampsFinite DEF R!Newer, R!RunFiles
        <5>2. u # s /\ u > t
          BY <1>2, <2>1, <3>3, <5>1
        <5> QED
          BY <3>1, <5>1, <5>2 DEF R!Newer, R!RunFiles
      <4>2. R!Newer(s) \in SUBSET R!Stamps /\ R!Newer(t)' \in SUBSET R!Stamps
        BY DEF R!Newer, R!RunFiles
      <4>3. Cardinality(R!Newer(s)) <= Cardinality(R!Newer(t)')
        BY <4>1, <4>2, CountNewer, FS_Subset
      <4>4. /\ R!Cardinality(R!Newer(s)) = Cardinality(R!Newer(s)) /\ Cardinality(R!Newer(s)) \in Nat
            /\ R!Cardinality(R!Newer(t)') = Cardinality(R!Newer(t)') /\ Cardinality(R!Newer(t)') \in Nat
        BY <4>2, CountNewer
      <4> QED
        BY <2>2, <4>3, <4>4, ReporterAssumption
    <3> QED
      BY <1>2, <2>1, <3>2, <3>3
  <2> QED
    BY <1>1, <2>3, <2>4
<1> QED
  BY <1>3, <1>4, <1>5 DEF ReporterInv, ListedAreOld

\* A step of a test gives its process results of one kind and deletes nothing.
LEMMA TestStepInv ==
  ASSUME ReporterInv, NEW p \in Procs, R!TestStep(p)
  PROVE  ReporterInv'
<1>1. pc' = pc /\ listed' = listed /\ file' = file
  BY DEF R!TestStep, R!TestEnds, R!ReadDataset, R!ReadCalls
<1>2. reading' \in [Procs -> {"none", "dataset", "calls", "done"}] /\ collected' = [q \in Procs |-> collected'[q]]
  BY DEF ReporterInv, ReporterTypeOK, R!TestStep, R!TestEnds, R!ReadDataset, R!ReadCalls
<1>3. \A q \in Procs : q # p => reading'[q] = reading[q] /\ collected'[q] = collected[q]
  BY DEF ReporterInv, ReporterTypeOK, R!TestStep, R!TestEnds, R!ReadDataset, R!ReadCalls
<1>4. collected'[p] \in {{}, {"dataset"}, {"calls"}} /\ (reading'[p] # "done" => collected'[p] = {})
  <2>1. CASE R!TestEnds(p)
    BY <2>1 DEF ReporterInv, ReporterTypeOK, OneKind, R!TestEnds
  <2>2. CASE R!ReadDataset(p)
    BY <2>2 DEF ReporterInv, ReporterTypeOK, OneKind, R!ReadDataset
  <2>3. CASE R!ReadCalls(p)
    BY <2>3 DEF ReporterInv, ReporterTypeOK, OneKind, R!ReadCalls
  <2> QED
    BY <2>1, <2>2, <2>3 DEF R!TestStep
<1>5. OneKind'
  BY <1>3, <1>4 DEF ReporterInv, OneKind
<1>6. ReporterTypeOK'
  BY <1>1, <1>2 DEF ReporterInv, ReporterTypeOK
<1>7. ListedAreOld'
  BY <1>1 DEF ReporterInv, ListedAreOld, R!Newer, R!RunFiles
<1> QED
  BY <1>5, <1>6, <1>7 DEF ReporterInv

\* The steps of onEnd but the deletion: files are only added, and what ListOld lists is old.
LEMMA EndStepInv ==
  ASSUME ReporterInv, NEW p \in Procs,
         \/ R!NothingCollected(p) \/ R!Build(p) \/ R!LoadStored(p) \/ R!ListRuns(p) \/ R!ReadRuns(p)
         \/ R!OpenRun(p) \/ R!WriteRun(p) \/ R!ListOld(p) \/ R!Cleaned(p) \/ R!SaveToStore(p)
         \/ R!GenerateReport(p) \/ R!Crash(p)
  PROVE  ReporterInv'
<1> USE DEF R!Goes, R!testVars
<1>1. reading' = reading /\ collected' = collected
  BY DEF R!NothingCollected, R!Build, R!LoadStored, R!ListRuns, R!ReadRuns, R!OpenRun, R!WriteRun,
         R!ListOld, R!Cleaned, R!SaveToStore, R!GenerateReport, R!Crash
<1>2. OneKind'
  BY <1>1 DEF ReporterInv, OneKind
<1>3. /\ pc' = [q \in Procs |-> pc'[q]]
      /\ \A q \in Procs : q # p => pc'[q] = pc[q]
      /\ pc'[p] = "unlink" => R!ListOld(p)
  BY DEF ReporterInv, ReporterTypeOK, R!NothingCollected, R!Build, R!LoadStored, R!ListRuns, R!ReadRuns,
         R!OpenRun, R!WriteRun, R!ListOld, R!Cleaned, R!SaveToStore, R!GenerateReport, R!Crash
<1>4. \/ file' = file
      \/ \E v \in {"torn", "whole"} : file' = [file EXCEPT ![stamp[p]] = v]
  BY DEF R!NothingCollected, R!Build, R!LoadStored, R!ListRuns, R!ReadRuns, R!OpenRun, R!WriteRun,
         R!ListOld, R!Cleaned, R!SaveToStore, R!GenerateReport, R!Crash
<1>5. R!RunFiles \subseteq R!Stamps
  BY DEF R!RunFiles
<1>6. \/ listed' = listed
      \/ \E T \in SUBSET R!Stamps : listed' = [listed EXCEPT ![p] = T]
  <2>1. CASE R!ListRuns(p)
    BY <2>1, <1>5 DEF R!ListRuns
  <2>2. CASE R!ReadRuns(p)
    BY <2>2 DEF R!ReadRuns
  <2>3. CASE R!ListOld(p)
    BY <2>3, <1>5 DEF R!ListOld
  <2> QED
    BY <2>1, <2>2, <2>3 DEF R!NothingCollected, R!Build, R!LoadStored, R!OpenRun, R!WriteRun,
         R!Cleaned, R!SaveToStore, R!GenerateReport, R!Crash
<1>7. ReporterTypeOK'
  <2>1. file' \in [R!Stamps -> {"none", "torn", "whole", "deleted"}]
    BY <1>4 DEF ReporterInv, ReporterTypeOK
  <2>2. listed' \in [Procs -> SUBSET R!Stamps]
    BY <1>6 DEF ReporterInv, ReporterTypeOK
  <2> QED
    BY <1>1, <1>3, <2>1, <2>2 DEF ReporterInv, ReporterTypeOK
<1>8. \A s \in R!Stamps : R!Newer(s) \subseteq R!Newer(s)'
  BY <1>4 DEF ReporterInv, ReporterTypeOK, R!Newer, R!RunFiles
<1>9. ASSUME NEW q \in Procs, pc'[q] = "unlink", NEW s \in listed'[q]
      PROVE  R!Cardinality(R!Newer(s)') >= HistoryLimit
  <2>1. s \in R!Stamps
    BY <1>7 DEF ReporterTypeOK
  <2>2. R!Cardinality(R!Newer(s)) >= HistoryLimit
    <3>1. CASE q = p
      BY <1>3, <1>9, <3>1 DEF R!ListOld, ReporterInv, ReporterTypeOK
    <3>2. CASE q # p
      BY <1>3, <1>6, <1>9, <3>2 DEF ReporterInv, ReporterTypeOK, ListedAreOld
    <3> QED
      BY <3>1, <3>2
  <2> QED
    BY <1>8, <2>1, <2>2, MoreFiles
<1> QED
  BY <1>2, <1>7, <1>9 DEF ReporterInv, ListedAreOld

\* ReporterInv holds in every state.
THEOREM ReportersCorrect == MCSpec => []ReporterInv
<1>1. MCInit => ReporterInv
  <2> SUFFICES ASSUME MCInit PROVE ReporterInv
    OBVIOUS
  <2>1. ReporterTypeOK
    BY DEF MCInit, ReporterOff, R!Init, ReporterTypeOK
  <2>2. OneKind /\ ListedAreOld
    BY DEF MCInit, ReporterOff, R!Init, OneKind, ListedAreOld
  <2> QED
    BY <2>1, <2>2 DEF ReporterInv
<1>2. ReporterInv /\ [MCNext]_allVars => ReporterInv'
  <2> SUFFICES ASSUME ReporterInv, [MCNext]_allVars PROVE ReporterInv'
    OBVIOUS
  <2>1. CASE UNCHANGED reporterVars
    <3>1. pc' = pc /\ listed' = listed /\ file' = file /\ reading' = reading /\ collected' = collected
      BY <2>1 DEF reporterVars
    <3> QED
      BY <3>1 DEF ReporterInv, ReporterTypeOK, OneKind, ListedAreOld, R!Newer, R!RunFiles
  <2>2. CASE R!Next
    BY <2>2, TestStepInv, EndStepInv, UnlinkStep DEF R!Next, R!EndStep
  <2> QED
    BY <2>1, <2>2 DEF MCNext, allVars
<1> QED
  BY <1>1, <1>2, PTL DEF MCSpec

\* Reporter: the calls a dataset made are not reported a second time, however the reads of
\* the attachments end (onTestEnd), for any number of processes.
THEOREM CallsAreReportedOnce == MCSpec => []NoDuplicates
<1>1. ReporterInv => NoDuplicates
  BY DEF ReporterInv, OneKind, NoDuplicates, R!NoDuplicates
<1> QED
  BY <1>1, ReportersCorrect, PTL

\* Reporter: a run is deleted only while HistoryLimit newer ones are there, whatever other
\* processes save and delete at the same time (cleanupOldRuns), for any number of processes.
THEOREM NewestStay == MCSpec => NewestKept
<1>1. ReporterInv /\ [MCNext]_allVars
      => [\A s \in R!Stamps : file[s] # "deleted" /\ file'[s] = "deleted" =>
            R!Cardinality(R!Newer(s)) >= HistoryLimit]_(R!vars)
  <2> SUFFICES ASSUME ReporterInv, [MCNext]_allVars, NEW s \in R!Stamps,
                      file[s] # "deleted", file'[s] = "deleted"
               PROVE  R!Cardinality(R!Newer(s)) >= HistoryLimit
    OBVIOUS
  <2>1. PICK p \in Procs : R!TestStep(p) \/ R!EndStep(p) \/ R!Crash(p)
    BY DEF MCNext, allVars, reporterVars, R!Next
  <2>2. ReporterTypeOK
    BY DEF ReporterInv
  <2>3. CASE R!Unlink(p)
    <3>1. pc[p] = "unlink" /\ s \in listed[p]
      BY <2>2, <2>3 DEF R!Unlink, ReporterTypeOK
    <3> QED
      BY <3>1 DEF ReporterInv, ListedAreOld
  <2>4. CASE ~R!Unlink(p)
    <3>1. \/ file' = file
          \/ \E v \in {"torn", "whole"} : file' = [file EXCEPT ![stamp[p]] = v]
      BY <2>1, <2>4 DEF R!TestStep, R!EndStep, R!TestEnds, R!ReadDataset, R!ReadCalls, R!NothingCollected,
         R!Build, R!LoadStored, R!ListRuns, R!ReadRuns, R!OpenRun, R!WriteRun, R!ListOld, R!Cleaned,
         R!SaveToStore, R!GenerateReport, R!Crash
    <3> QED
      BY <2>2, <3>1 DEF ReporterTypeOK
  <2> QED
    BY <2>3, <2>4
<1> QED
  BY <1>1, ReportersCorrect, PTL DEF MCSpec, NewestKept, R!NewestKept
===============================================================================
