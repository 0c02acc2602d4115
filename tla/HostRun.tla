-------------------------------- MODULE HostRun --------------------------------
(***************************************************************************)
(* runBuiltinHost (src/src/evals/builtinHosts.ts): one scenario is run by  *)
(* an SDK host, which connects to every server itself and lets the model   *)
(* call their tools (mcpHost/adapters/vercel.ts), or by a CLI host, which  *)
(* is a child process (mcpHost/adapters/cli/runner.ts).  The run races     *)
(* with its timeout: execute() goes on after the race is lost, and has to  *)
(* clean up what it opens from then on.                                    *)
(*                                                                         *)
(* What happens between two awaits is one step, and no timer fires in it.  *)
(* The servers, the model and the child process are external.              *)
(***************************************************************************)
EXTENDS Naturals

CONSTANTS NumServers,    \* options.servers.length
          MaxToolCalls   \* config.maxToolCalls

ASSUME NumServersAssumption == NumServers \in Nat \ {0}
ASSUME MaxToolCallsAssumption == MaxToolCalls \in Nat

Servers == 1..NumServers

VARIABLES
  config,     \* hostType; timeout: there is one; inline: cli.args hold the MCP configuration;
              \* overrides: tool descriptions are overridden
  phase,      \* where execute() is
  result,     \* what execute() will end with
  clients,    \* the clients it owns
  aborted,    \* controller.signal.aborted
  deadline,   \* timeout ms are over
  outcome,    \* what runBuiltinHost returned
  configDir,  \* the directory with the MCP configuration and its credentials
  child,      \* the CLI process
  sdk,        \* the AbortController of the simulation: "idle", "live" or "aborted"
  attempted,  \* attemptedToolCalls, the calls sent to the servers
  inFlight,   \* those that are not answered yet
  overBudget  \* budgetError

resources == <<clients, configDir, child>>
simulation == <<sdk, attempted, inFlight, overBudget>>
vars == <<config, phase, result, aborted, deadline, outcome, resources, simulation>>

Hosts == [hostType : {"sdk", "cli"}, timeout : BOOLEAN, inline : BOOLEAN, overrides : BOOLEAN]

Init ==
  /\ config \in Hosts
  /\ phase = "start"
  /\ result = "none"
  /\ clients = [s \in Servers |-> "none"]
  /\ aborted = FALSE
  /\ deadline = FALSE
  /\ outcome = "pending"
  /\ configDir = "none"
  /\ child = "none"
  /\ sdk = "idle"
  /\ attempted = 0
  /\ inFlight = 0
  /\ overBudget = FALSE

\* closeOwnedClient for every client: each is closed once, however often this is asked.
Closing(cs) == [s \in Servers |-> IF cs[s] = "open" THEN "closing" ELSE cs[s]]

Kill(process) == IF process = "running" THEN "killed" ELSE process

Removed(dir) == IF dir = "there" THEN "removed" ELSE dir

-------------------------------------------------------------------------------
(* execute() *)

\* The finally of execute(): from here on it only waits for its clients.
Finish(r, cs) ==
  /\ phase' = "closing"
  /\ result' = r
  /\ clients' = Closing(cs)

\* The rest of execute() up to the next await: the configuration of a CLI goes to a
\* file, overrides are refused for it, and the host starts.
Start(cs) ==
  /\ configDir' = IF config.inline THEN "there" ELSE configDir
  /\ IF config.hostType = "cli" /\ config.overrides
       THEN Finish("error", cs) /\ UNCHANGED <<child, sdk>>
       ELSE /\ phase' = "simulating"
            /\ clients' = cs
            /\ child' = IF config.hostType = "cli" THEN "running" ELSE child
            /\ sdk' = IF config.hostType = "sdk" THEN "live" ELSE sdk
            /\ UNCHANGED result

Begin ==
  /\ phase = "start"
  /\ \/ /\ deadline
        /\ aborted' = TRUE
        /\ Finish("timeout", clients)
        /\ UNCHANGED <<configDir, child, sdk>>
     \/ /\ ~deadline
        /\ IF config.hostType = "sdk"
             THEN phase' = "connecting" /\ UNCHANGED <<result, resources, sdk>>
             ELSE Start(clients)
        /\ UNCHANGED aborted
  /\ UNCHANGED <<config, deadline, outcome, attempted, inFlight, overBudget>>

Connected(s) == \A earlier \in 1..(s - 1) : clients[earlier] # "none"

\* Mutant: the deadline is looked at before the new client is one of ours.
ConnectUnowned(s) ==
  LET cs == [clients EXCEPT ![s] = "open"]
  IN /\ phase = "connecting"
     /\ clients[s] = "none" /\ Connected(s)
     /\ \/ /\ deadline \/ aborted
           /\ aborted' = TRUE
           /\ phase' = "closing"
           /\ result' = "timeout"
           /\ clients' = [Closing(clients) EXCEPT ![s] = "open"]
           /\ UNCHANGED <<configDir, child, sdk>>
        \/ /\ ~deadline /\ ~aborted
           /\ IF s < NumServers
                THEN clients' = cs /\ UNCHANGED <<phase, result, configDir, child, sdk>>
                ELSE Start(cs)
           /\ UNCHANGED aborted
     /\ UNCHANGED <<config, deadline, outcome, attempted, inFlight, overBudget>>

\* Mutant: the deadline is not looked at after an await.
ConnectUnchecked(s) ==
  LET cs == [clients EXCEPT ![s] = "open"]
  IN /\ phase = "connecting"
     /\ clients[s] = "none" /\ Connected(s)
     /\ IF s < NumServers
          THEN clients' = cs /\ UNCHANGED <<phase, result, configDir, child, sdk>>
          ELSE Start(cs)
     /\ UNCHANGED <<config, aborted, deadline, outcome, attempted, inFlight, overBudget>>

\* The servers are connected to one by one; a connection that comes too late is closed.
ConnectServer(s) ==
  LET cs == [clients EXCEPT ![s] = "open"]
  IN /\ phase = "connecting"
     /\ clients[s] = "none" /\ Connected(s)
     /\ \/ /\ deadline \/ aborted
           /\ aborted' = TRUE
           /\ Finish("timeout", cs)
           /\ UNCHANGED <<configDir, child, sdk>>
        \/ /\ ~deadline /\ ~aborted
           /\ IF s < NumServers
                THEN clients' = cs /\ UNCHANGED <<phase, result, configDir, child, sdk>>
                ELSE Start(cs)
           /\ UNCHANGED aborted
     /\ UNCHANGED <<config, deadline, outcome, attempted, inFlight, overBudget>>

ConnectFails ==
  /\ phase = "connecting"
  /\ Finish("error", clients)
  /\ UNCHANGED <<config, aborted, deadline, outcome, configDir, child, simulation>>

-------------------------------------------------------------------------------
(* The SDK host: the loop of the model and the tools runs until it is aborted. *)

\* The model asks for a tool, also several at once.
ToolCall ==
  /\ sdk = "live"
  /\ \/ /\ attempted < MaxToolCalls
        /\ attempted' = attempted + 1
        /\ inFlight' = inFlight + 1
        /\ UNCHANGED overBudget
     \/ /\ attempted = MaxToolCalls
        /\ overBudget' = TRUE
        /\ UNCHANGED <<attempted, inFlight>>
  /\ UNCHANGED <<config, phase, result, aborted, deadline, outcome, resources, sdk>>

ToolAnswers ==
  /\ inFlight > 0
  /\ inFlight' = inFlight - 1
  /\ UNCHANGED <<config, phase, result, aborted, deadline, outcome, resources, sdk, attempted,
                 overBudget>>

\* generateText returns its text: a failure when the model wanted more than its budget.
SimulationEnds ==
  /\ phase = "simulating" /\ sdk = "live"
  /\ ~config.inline
  /\ inFlight = 0
  /\ sdk' = "aborted"
  /\ Finish(IF overBudget THEN "failure" ELSE "success", clients)
  /\ UNCHANGED <<config, aborted, deadline, outcome, configDir, child, attempted, inFlight,
                 overBudget>>

\* The model fails, an import does, the configuration is refused (it is when it has a cli
\* section), or the abort of the host rejects what is awaited.
SimulationFails ==
  /\ phase = "simulating" /\ sdk # "idle"
  /\ sdk' = "aborted"
  /\ Finish("failure", clients)
  /\ UNCHANGED <<config, aborted, deadline, outcome, configDir, child, attempted, inFlight,
                 overBudget>>

-------------------------------------------------------------------------------
(* The CLI host. *)

\* The process exits by itself, or cannot be started.
ChildCloses(r) ==
  /\ child = "running"
  /\ child' = "exited"
  /\ Finish(r, clients)
  /\ UNCHANGED <<config, aborted, deadline, outcome, configDir, simulation>>

\* Without a timeout of the host the runner has its own, of 120 s by default.
ChildTerminated ==
  /\ child = "running"
  /\ ~config.timeout
  /\ child' = "terminated"
  /\ Finish("failure", clients)
  /\ UNCHANGED <<config, aborted, deadline, outcome, configDir, simulation>>

\* The abort has killed the process and rejected what execute() awaits.
ChildAborted ==
  /\ phase = "simulating" /\ child = "killed"
  /\ Finish("failure", clients)
  /\ UNCHANGED <<config, aborted, deadline, outcome, configDir, child, simulation>>

-------------------------------------------------------------------------------
(* Closing, and the race with the timeout. *)

\* A graceful close may stall for ever; once aborted the connection is cut.
Closed(s) ==
  /\ clients[s] = "closing"
  /\ clients' = [clients EXCEPT ![s] = "closed"]
  /\ UNCHANGED <<config, phase, result, aborted, deadline, outcome, configDir, child, simulation>>

\* execute() settles and, unless the timer was first, decides the race; a result that
\* comes after the deadline is a timeout.
End ==
  /\ phase = "closing"
  /\ \A s \in Servers : clients[s] \in {"none", "closed"}
  /\ phase' = "ended"
  /\ outcome' = IF outcome # "pending" THEN outcome
                ELSE IF result = "error" THEN "error"
                ELSE IF deadline \/ result = "timeout" THEN "timeout" ELSE "trace"
  /\ aborted' = (aborted \/ deadline)
  /\ configDir' = Removed(configDir)
  /\ UNCHANGED <<config, result, deadline, clients, child, simulation>>

DeadlinePasses ==
  /\ config.timeout /\ ~deadline
  /\ deadline' = TRUE
  /\ UNCHANGED <<config, phase, result, aborted, outcome, resources, simulation>>

\* The timer aborts everything, closes the clients there are, and wins the race.
Expire ==
  /\ deadline
  /\ outcome = "pending"
  /\ aborted' = TRUE
  /\ clients' = Closing(clients)
  /\ child' = Kill(child)
  /\ sdk' = IF sdk = "live" THEN "aborted" ELSE sdk
  /\ outcome' = "timeout"
  /\ configDir' = Removed(configDir)
  /\ UNCHANGED <<config, phase, result, deadline, attempted, inFlight, overBudget>>

-------------------------------------------------------------------------------
Connecting == ConnectFails \/ \E s \in Servers : ConnectServer(s)

Simulating ==
  \/ ToolCall \/ ToolAnswers \/ SimulationEnds \/ SimulationFails
  \/ (\E r \in {"success", "failure"} : ChildCloses(r)) \/ ChildTerminated \/ ChildAborted

Next ==
  \/ Begin \/ Connecting \/ Simulating
  \/ (\E s \in Servers : Closed(s)) \/ End
  \/ DeadlinePasses \/ Expire

Spec == Init /\ [][Next]_vars

\* Time passes and timers fire, and an abort ends what it reaches.  A connection attempt, a
\* model, a tool, a process or a graceful close need not end.
Fairness ==
  /\ WF_vars(Begin) /\ WF_vars(DeadlinePasses) /\ WF_vars(Expire) /\ WF_vars(End)
  /\ WF_vars(aborted /\ SimulationFails) /\ WF_vars(ChildAborted)
  /\ \A s \in Servers : WF_vars(aborted /\ Closed(s))

FairSpec == Spec /\ Fairness

-------------------------------------------------------------------------------
(* Properties. *)

\* When the run is over nothing of it is left: the directory with the servers' credentials is
\* gone, also when execute() lost the race and went on, and no process is left running.  A run
\* that gives a trace left nothing open or working for it, no call of a successful run is
\* unanswered, and the model kept to its budget of tool calls all along.
CleanEnd ==
  /\ outcome # "pending" => configDir # "there" /\ child # "running"
  /\ outcome = "trace" =>
       /\ \A s \in Servers : clients[s] \in {"none", "closed"}
       /\ result = "success" => inFlight = 0 /\ ~overBudget
  /\ attempted <= MaxToolCalls

\* A run with a timeout ends, whatever hangs.
EndsInTime == config.timeout ~> outcome # "pending"

\* Every client is closed in the end, also one that was connected after the timeout.
NothingLeftOpen ==
  outcome # "pending" ~> [](\A s \in Servers : clients[s] \in {"none", "closed"})
===============================================================================
