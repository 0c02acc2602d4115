------------------------------ MODULE MCCommands ------------------------------
(* The components around the evaluations share this run, for they do not meet: a   *)
(* behaviour is one login of the CLI (LoginFlow), one run of Playwright tests      *)
(* (OAuthProvider), one use of the wizards `generate` and `init`, the commands     *)
(* over the stored tokens, or one dry-run proxy.  The other parts never begin.     *)
EXTENDS LoginFlow, Sequences, TLC

CONSTANTS
  Tests, MaxIssued, t1, t2,   \* OAuthProvider
  MaxListed, Shown, Fields, Entries, ToolAnswers, OldCases, MaxCases,   \* GenerateWizard
  Files, MaxPresses,   \* InitWizard
  Urls, Times, Buffer,   \* StoredServers
  ToolNames, Messages, MaxRequests, MinTools   \* DryRunProxy

ASSUME TestsAssumption == MaxIssued \in Nat /\ MaxIssued >= 1
ASSUME WizardAssumption == OldCases \in Seq({OldCases[i] : i \in DOMAIN OldCases})
ASSUME ServersAssumption ==
  /\ \A url \in Urls : url \in [scheme : {"http", "https"}, port : Seq({"8"}),
                                path : Seq({"/", "a", "_", "!", "8"})]
  /\ Times \subseteq Nat /\ Buffer \in Nat

VARIABLES
  part,
  config, file, issued, fresh, setup, pc, cached, grant,   \* OAuthProvider
  step, options, mcpConfig, flight, client, stray, output, dataset, form,
  reply, currentCase, called,   \* GenerateWizard
  screen, transport, installDeps, wanted, directory, jobs,   \* InitWizard
  disk, env, shell,   \* StoredServers
  hints, settings, checked, toolCache, inbox, loop, sessionId, forwarded,
  replies   \* DryRunProxy

login == vars
tests == <<config, file, issued, fresh, setup, pc, cached, grant>>
generateVars == <<step, options, mcpConfig, flight, client, stray, output, dataset, form,
                  reply, currentCase, called>>
initVars == <<screen, transport, installDeps, wanted, directory, jobs>>
serversVars == <<disk, env, shell>>
proxyVars == <<hints, settings, checked, toolCache, inbox, loop, sessionId, forwarded,
               replies>>
allVars == <<part, login, tests, generateVars, initVars, serversVars, proxyVars>>

P == INSTANCE OAuthProvider

-------------------------------------------------------------------------------
(* What the wizard of `generate` meets: a tool with a field of each type and one   *)
(* without fields; answers with and without suggestions.                           *)

Field(name, type, required) == [name |-> name, type |-> type, required |-> required]
Snippet(format) == [format |-> format]

ShownFields == [search |-> <<Field("n", "number", TRUE), Field("b", "boolean", FALSE)>>,
                ping |-> <<>>]
TypedEntries == {"", "1", "true"}
ShownAnswers == {<<Snippet("header"), Snippet("url"), Snippet("pair")>>, <<Snippet("short")>>}
SavedCases == <<[tool |-> <<"ping">>, args |-> <<>>, expect |-> {}]>>

(* URLs that share a key, URLs a key does not lead back to, and plain ones. *)
TypedUrls == {[scheme |-> "http", port |-> <<"8">>, path |-> <<"/">>],
              [scheme |-> "https", port |-> <<>>, path |-> <<"/", "8", "/">>],
              [scheme |-> "https", port |-> <<>>, path |-> <<"/", "a", "_", "!">>],
              [scheme |-> "https", port |-> <<>>, path |-> <<"/", "!", "a", "/">>]}

(* Calls of two tools with an id of each kind, the handshake and a list of the tools. *)
SentMessages ==
  {[method |-> "tools/call", id |-> i, tool |-> t] :
     i \in {"number", "other", "absent"}, t \in {"read", "send"}}
  \cup {[method |-> m, id |-> "number", tool |-> ""] : m \in {"initialize", "tools/list"}}
  \cup {[method |-> "notifications/initialized", id |-> "absent", tool |-> ""]}

W == INSTANCE GenerateWizard WITH Answers <- ToolAnswers
I == INSTANCE InitWizard
S == INSTANCE StoredServers
D == INSTANCE DryRunProxy WITH Requests <- Messages

-------------------------------------------------------------------------------
\* A login that has failed at once, and tests that wait: the parts that do not begin.
LoginOff == server = "none" /\ timer = "none" /\ promise = "pending" /\ exchanged = "none" /\ stage = "failed"
TestsOff ==
  /\ config = [setupClient |-> FALSE, clientId |-> FALSE, binds |-> FALSE, invalidates |-> FALSE,
               overlap |-> FALSE]
  /\ file = P!None /\ issued = 1 /\ fresh = FALSE
  /\ setup = "start" /\ pc = [t \in Tests |-> "idle"] /\ cached = [t \in Tests |-> P!None]
  /\ grant = [t \in Tests |-> 0]
GenerateOff ==
  /\ step = "off" /\ options = "off" /\ mcpConfig = "off" /\ flight = "off"
  /\ client = "off" /\ stray = "off" /\ output = "off" /\ dataset = "off"
  /\ form = "off" /\ reply = "off" /\ currentCase = "off" /\ called = "off"
InitOff ==
  /\ screen = "off" /\ transport = "off" /\ installDeps = "off" /\ wanted = "off"
  /\ directory = "off" /\ jobs = "off"
ServersOff ==
  /\ disk = "off" /\ env = "off" /\ shell = "off"
ProxyOff ==
  /\ hints = "off" /\ settings = "off" /\ checked = "off" /\ toolCache = "off"
  /\ inbox = "off" /\ loop = "off" /\ sessionId = "off" /\ forwarded = "off"
  /\ replies = "off"

MCInit ==
  \/ part = "login" /\ Init /\ TestsOff /\ GenerateOff /\ InitOff /\ ServersOff /\ ProxyOff
  \/ part = "tests" /\ LoginOff /\ P!Init /\ GenerateOff /\ InitOff /\ ServersOff /\ ProxyOff
  \/ part = "generate" /\ LoginOff /\ TestsOff /\ W!Init /\ InitOff /\ ServersOff /\ ProxyOff
  \/ part = "init" /\ LoginOff /\ TestsOff /\ GenerateOff /\ I!Init /\ ServersOff /\ ProxyOff
  \/ part = "servers" /\ LoginOff /\ TestsOff /\ GenerateOff /\ InitOff /\ S!Init /\ ProxyOff
  \/ part = "proxy" /\ LoginOff /\ TestsOff /\ GenerateOff /\ InitOff /\ ServersOff /\ D!Init

MCNext ==
  \/ part = "login" /\ Next /\ UNCHANGED <<part, tests, generateVars, initVars, serversVars, proxyVars>>
  \/ part = "tests" /\ P!Next /\ UNCHANGED <<part, login, generateVars, initVars, serversVars, proxyVars>>
  \/ part = "generate" /\ W!Next /\ UNCHANGED <<part, login, tests, initVars, serversVars, proxyVars>>
  \/ part = "init" /\ I!Next /\ UNCHANGED <<part, login, tests, generateVars, serversVars, proxyVars>>
  \/ part = "servers" /\ S!Next /\ UNCHANGED <<part, login, tests, generateVars, initVars, proxyVars>>
  \/ part = "proxy" /\ D!Next /\ UNCHANGED <<part, login, tests, generateVars, initVars, serversVars>>

MCSpec == MCInit /\ [][MCNext]_allVars /\ Fairness

-------------------------------------------------------------------------------
\* A login ends: LoginFlow!LoginEnds.
LoginSettles == LoginEnds

\* Tests that do not overlap keep the session: OAuthProvider!SerialKeepsSession.
SerialKeepsSession == P!SerialKeepsSession

\* A generated case was seen: GenerateWizard!CasesWereSeen.
CasesWereSeen == part = "generate" => W!CasesWereSeen

\* The wizard leaves no connection open: GenerateWizard!ConnectionsReleased.
ConnectionsReleased == part = "generate" => W!ConnectionsReleased

\* Tokens that are offered or exported are there: StoredServers!TokensAreFound.
TokensAreFound == part = "servers" => S!TokensAreFound

\* Writes do not leave the proxy: DryRunProxy!WritesStayHere.
WritesStayHere == part = "proxy" => D!WritesStayHere
===============================================================================
