-------------------------------- MODULE MCHosts --------------------------------
(* One run for all the hosts: a behaviour is one run of an SDK or CLI host         *)
(* (HostRun), of the host with a loop of its own (ApiHost) or of a browser         *)
(* (BrowserHost), or the runs of a desktop host over one app (ExternalHost).  The  *)
(* other parts never begin.                                                        *)
EXTENDS HostRun, Sequences

CONSTANTS
  NumRuns, Concurrency, MaxSessions, MaxEvents,   \* ExternalHost
  Labels, Tools, Overridden, Budget   \* ApiHost

ASSUME NumRunsAssumption == NumRuns \in Nat
ASSUME LabelsAssumption == Labels \in Seq({Labels[s] : s \in DOMAIN Labels}) /\ Labels # <<>>
ASSUME BudgetAssumption == Budget \in Nat

VARIABLES
  part,
  hostConfig, loaded, runPhase, next, snapshot, recent, pending, trace, runOutcome, sessions,
  current, clipboard,   \* ExternalHost
  offered, overrides, at, connections, listed, wanted, toolCalls, expired, error,   \* ApiHost
  step, browser, script, ended   \* BrowserHost

desktop == <<hostConfig, loaded, runPhase, next, snapshot, recent, pending, trace, runOutcome,
             sessions, current, clipboard>>
api == <<offered, overrides, at, connections, listed, wanted, toolCalls, expired, error>>
page == <<step, browser, script, ended>>
allVars == <<part, vars, desktop, api, page>>

X == INSTANCE ExternalHost WITH config <- hostConfig, phase <- runPhase, outcome <- runOutcome

A == INSTANCE ApiHost
B == INSTANCE BrowserHost

\* Two servers; overrides of a tool, and of the tool of one of them.
TwoLabels == <<"s1", "s2">>
SomeOverridden == {{}, {<<"t">>}, {<<"s2", "t">>}}

DesktopOff ==
  /\ hostConfig = "off" /\ loaded = "off" /\ runPhase = "off" /\ next = "off" /\ snapshot = "off"
  /\ recent = "off" /\ pending = "off" /\ trace = "off" /\ runOutcome = "off" /\ sessions = "off"
  /\ current = "off" /\ clipboard = "off"
ApiOff ==
  /\ offered = "off" /\ overrides = "off" /\ at = "off" /\ connections = [s \in A!Servers |-> "off"]
  /\ listed = {} /\ wanted = <<>> /\ toolCalls = <<>> /\ expired = FALSE /\ error = "off"
PageOff == step = "off" /\ browser = "off" /\ script = "off" /\ ended = "off"

\* A built-in run that is over and owns nothing.
BuiltinOff ==
  /\ config = [hostType |-> "sdk", timeout |-> FALSE, inline |-> FALSE, overrides |-> FALSE]
  /\ phase = "ended" /\ result = "error" /\ outcome = "error"
  /\ clients = [s \in Servers |-> "none"] /\ aborted = FALSE /\ deadline = FALSE
  /\ configDir = "none" /\ child = "none" /\ sdk = "idle" /\ attempted = 0 /\ inFlight = 0
  /\ overBudget = FALSE

MCInit ==
  /\ part \in {"builtin", "desktop", "api", "browser"}
  /\ IF part = "builtin" THEN Init ELSE BuiltinOff
  /\ IF part = "desktop" THEN X!Init ELSE DesktopOff
  /\ IF part = "api" THEN A!Init ELSE ApiOff
  /\ IF part = "browser" THEN B!Init ELSE PageOff

MCNext ==
  \/ part = "builtin" /\ Next /\ UNCHANGED <<part, desktop, api, page>>
  \/ part = "desktop" /\ X!Next /\ UNCHANGED <<part, vars, api, page>>
  \/ part = "api" /\ A!Next /\ UNCHANGED <<part, vars, desktop, page>>
  \/ part = "browser" /\ B!Next /\ UNCHANGED <<part, vars, desktop, api>>

MCSpec ==
  /\ MCInit /\ [][MCNext]_allVars
  /\ Fairness /\ A!Fairness /\ B!Fairness

\* However a run of a host ends, it leaves nothing behind: HostRun!CleanEnd,
\* ApiHost!ApiCleanEnd and BrowserHost!BrowserCleanEnd.
EndsClean ==
  /\ CleanEnd
  /\ part = "api" => A!ApiCleanEnd
  /\ part = "browser" => B!BrowserCleanEnd

\* It ends, whatever hangs: HostRun!EndsInTime, ApiHost!ApiEndsInTime and
\* BrowserHost!BrowserEndsInTime.
HostsEndInTime == EndsInTime /\ A!ApiEndsInTime /\ B!BrowserEndsInTime

\* A confident answer is the run's own: ExternalHost!HighMeansOwn.
HighMeansOwn == part = "desktop" => X!HighMeansOwn

\* The session of a waiting run is looked at: ExternalHost!NotOverlooked.
NotOverlooked == part = "desktop" => X!NotOverlooked
===============================================================================
