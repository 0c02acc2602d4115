-------------------------------- MODULE Session --------------------------------
(***************************************************************************)
(* The MCP session of one test: the mcpClient and mcp fixtures             *)
(* (src/src/fixtures/mcp.ts) choose the credential, the client factory     *)
(* (src/src/mcp/clientFactory.ts) connects with retries and a fallback     *)
(* from Streamable HTTP to SSE and closes again, and the wrapper of        *)
(* src/src/mcp/fixtures/mcpFixture.ts races every call with a timer and    *)
(* attaches what was answered for the reporter.                            *)
(*                                                                         *)
(* The server, the MCP SDK and the CLI token lookup (TokenClient) are      *)
(* external: they answer, fail, or never answer.  A test may end with      *)
(* calls it did not wait for, as a test that times out does.               *)
(***************************************************************************)
EXTENDS Naturals, Sequences

CONSTANTS Calls,       \* the calls the test makes
          MaxRetries   \* bound: config.retryAttempts is 0..MaxRetries

ASSUME MaxRetriesAssumption == MaxRetries \in Nat

\* What config says: a field is whether an optional setting is there.  oauth is "state"
\* with an authStatePath, "plain" without; tracked is whether there is a testInfo.
Configs ==
  {c \in [transport : {"stdio", "http"}, accessToken : BOOLEAN, accessTokenEnv : BOOLEAN,
          oauth : {"none", "plain", "state"}, clientCredentials : BOOLEAN,
          proxy : BOOLEAN, tls : BOOLEAN, retryAttempts : 0..MaxRetries, tracked : BOOLEAN] :
     c.transport = "stdio" =>
       /\ {c.accessToken, c.accessTokenEnv, c.clientCredentials, c.proxy, c.tls} = {FALSE}
       /\ c.oauth = "none" /\ c.retryAttempts = 0}

\* MCPAuthConfigSchema: a token given twice, or with oauth, is refused.
ValidAuth(token, config) ==
  /\ ~(token /\ config.accessTokenEnv)
  /\ ~(token /\ config.oauth # "none")

VARIABLES
  config,      \* testInfo.project.use.mcpConfig
  phase,       \* how far the fixture is
  cliToken,    \* tryGetAccessToken found a token, which becomes auth.accessToken
  authType,    \* resolvedAuthType
  credential,  \* what authorizes the requests
  agents,      \* the undici agents that were made: "none", "open" or "closed"
  registered,  \* agentRegistry.get(client)
  attempt,     \* retryWithBackoff's counter
  errors,      \* history: why the SSE attempts failed
  transport,   \* client.transport once connected
  call,        \* where each call of the test stands
  server,      \* the server owes an answer, has given it, or was not asked
  attached     \* the calls whose answer was attached for the reporter

connectVars == <<agents, registered, attempt, errors, transport>>
callVars == <<call, server, attached>>
authVars == <<cliToken, authType, credential>>
vars == <<config, phase, authVars, connectVars, callVars>>

Retryable == {"transient", "rateLimit"}
ConnectErrors == Retryable \cup {"other"}

Init ==
  /\ config \in Configs
  /\ ValidAuth(config.accessToken, config)
  /\ phase = "auth"
  /\ cliToken = FALSE
  /\ authType = "none"
  /\ credential = "none"
  /\ agents = [a \in {"proxy", "tls"} |-> "none"]
  /\ registered = "none"
  /\ attempt = 0
  /\ errors = <<>>
  /\ transport = "none"
  /\ call = [c \in Calls |-> "idle"]
  /\ server = [c \in Calls |-> "idle"]
  /\ attached = {}

Goes(next) == phase' = next

-------------------------------------------------------------------------------
(* The mcpClient fixture and createMCPClientForConfig. *)

\* The tokens of `mcp-server-tester login` are looked up for every HTTP server without a
\* static token or an OAuth state, and found or not.
ResolveAuth(found) ==
  /\ phase = "auth"
  /\ found => config.transport = "http" /\ ~config.accessToken /\ config.oauth # "state"
  /\ cliToken' = found
  /\ authType' = IF found \/ (config.oauth = "state" /\ ~config.accessToken) THEN "oauth"
                 ELSE IF config.accessToken THEN "api-token" ELSE "none"
  /\ Goes("validate")
  /\ UNCHANGED <<config, credential, connectVars, callVars>>

\* validateMCPConfig sees the configuration with the token that was found.
Validate ==
  /\ phase = "validate"
  /\ IF ValidAuth(config.accessToken \/ cliToken, config) THEN Goes("credentials")
     ELSE Goes("failed")
  /\ UNCHANGED <<config, authVars, connectVars, callVars>>

\* The token of the client credentials grant is fetched first, and may be replaced by
\* the static token of the configuration, which the token found for the CLI now is.
Authorize ==
  /\ phase = "credentials"
  /\ credential' = IF config.oauth = "state" THEN "provider"
                   ELSE IF cliToken THEN "cli"
                   ELSE IF config.accessToken THEN "token"
                   ELSE IF config.clientCredentials THEN "client"
                   ELSE "none"
  /\ Goes("agents")
  /\ UNCHANGED <<config, cliToken, authType, connectVars, callVars>>

\* The grant fails, or a client id, secret or endpoint is missing.
AuthorizeThrows ==
  /\ phase = "credentials"
  /\ config.clientCredentials /\ config.oauth # "state"
  /\ Goes("failed")
  /\ UNCHANGED <<config, authVars, connectVars, callVars>>

Made(used) == [a \in {"proxy", "tls"} |-> IF a \in used THEN "open" ELSE "none"]

\* The agent for TLS replaces the one for the proxy as dispatcher and in the registry.
MakeAgents ==
  /\ phase = "agents"
  /\ agents' = Made({a \in {"proxy", "tls"} : config[a]})
  /\ registered' = IF config.tls THEN "tls" ELSE IF config.proxy THEN "proxy" ELSE "none"
  /\ Goes(IF config.transport = "stdio" THEN "stdio" ELSE "streamable")
  /\ UNCHANGED <<config, authVars, attempt, errors, transport, callVars>>

\* A certificate file cannot be read.
MakeAgentsThrows ==
  /\ phase = "agents"
  /\ config.tls
  /\ agents' = Made({a \in {"proxy"} : config[a]})
  /\ Goes("failed")
  /\ UNCHANGED <<config, authVars, registered, attempt, errors, transport, callVars>>

Connect ==
  /\ phase \in {"stdio", "streamable", "sse"}
  /\ transport' = phase
  /\ Goes("using")
  /\ UNCHANGED <<config, authVars, agents, registered, attempt, errors, callVars>>

\* The error of the Streamable HTTP attempt is only logged.
FallBack ==
  /\ phase = "streamable"
  /\ Goes("sse")
  /\ UNCHANGED <<config, authVars, connectVars, callVars>>

\* Mutant: retryAttempts counts the first attempt, too.
SseFailsOnceLess(error) ==
  /\ phase = "sse"
  /\ errors' = Append(errors, error)
  /\ IF attempt + 1 < config.retryAttempts /\ error \in Retryable
       THEN attempt' = attempt + 1 /\ Goes("streamable")
       ELSE UNCHANGED attempt /\ Goes("failed")
  /\ UNCHANGED <<config, authVars, agents, registered, transport, callVars>>

\* retryWithBackoff looks at the error of the SSE attempt alone.  The client is assumed to
\* be as good as new for the next attempt.
SseFails(error) ==
  /\ phase = "sse"
  /\ errors' = Append(errors, error)
  /\ IF attempt < config.retryAttempts /\ error \in Retryable
       THEN attempt' = attempt + 1 /\ Goes("streamable")
       ELSE UNCHANGED attempt /\ Goes("failed")
  /\ UNCHANGED <<config, authVars, agents, registered, transport, callVars>>

StdioFails ==
  /\ phase = "stdio"
  /\ Goes("failed")
  /\ UNCHANGED <<config, authVars, connectVars, callVars>>

-------------------------------------------------------------------------------
(* The calls of the test. *)

CallIs(c, state) == call' = [call EXCEPT ![c] = state]

Call(c) ==
  /\ phase = "using"
  /\ call[c] = "idle"
  /\ CallIs(c, "waiting")
  /\ server' = [server EXCEPT ![c] = "owes"]
  /\ UNCHANGED <<config, phase, authVars, connectVars, attached>>

\* Mutant: the answer is attached when it comes, not when it wins the race.
AnswerAttaches(c) ==
  /\ server[c] = "owes"
  /\ phase \notin {"closeAgent", "closed"}
  /\ server' = [server EXCEPT ![c] = "answered"]
  /\ attached' = IF config.tracked THEN attached \cup {c} ELSE attached
  /\ CallIs(c, IF call[c] = "waiting" THEN "returned" ELSE call[c])
  /\ UNCHANGED <<config, phase, authVars, connectVars>>

\* An answer in time wins the race; a late one is dropped by it.
Answer(c) ==
  /\ server[c] = "owes"
  /\ phase \notin {"closeAgent", "closed"}
  /\ server' = [server EXCEPT ![c] = "answered"]
  /\ CallIs(c, IF call[c] # "waiting" THEN call[c]
               ELSE IF config.tracked THEN "attaching" ELSE "returned")
  /\ UNCHANGED <<config, phase, authVars, connectVars, attached>>

\* The server, or the SDK, answers with an error.
AnswerFails(c) ==
  /\ server[c] = "owes"
  /\ phase \notin {"closeAgent", "closed"}
  /\ server' = [server EXCEPT ![c] = "answered"]
  /\ CallIs(c, IF call[c] = "waiting" THEN "threw" ELSE call[c])
  /\ UNCHANGED <<config, phase, authVars, connectVars, attached>>

\* Mutant: the timers are cleared when the test ends.
TimeoutWhileUsing(c) ==
  /\ phase = "using"
  /\ call[c] = "waiting"
  /\ CallIs(c, "threw")
  /\ UNCHANGED <<config, phase, authVars, connectVars, server, attached>>

\* withCallTimeout: the timer wins the race.
Timeout(c) ==
  /\ call[c] = "waiting"
  /\ CallIs(c, "threw")
  /\ UNCHANGED <<config, phase, authVars, connectVars, server, attached>>

\* testInfo.attach is awaited before the call returns, and may throw.
Attach(c) ==
  /\ call[c] = "attaching"
  /\ \/ attached' = attached \cup {c} /\ CallIs(c, "returned")
     \/ UNCHANGED attached /\ CallIs(c, "threw")
  /\ UNCHANGED <<config, phase, authVars, connectVars, server>>

-------------------------------------------------------------------------------
(* closeMCPClient. *)

\* The test passes, fails, or runs out of time: the fixture resumes in its finally.
TestEnds ==
  /\ phase = "using"
  /\ Goes(IF transport = "streamable" THEN "terminate" ELSE "close")
  /\ UNCHANGED <<config, authVars, connectVars, callVars>>

\* terminateSession: its error is only logged.
Terminate ==
  /\ phase = "terminate"
  /\ Goes("close")
  /\ UNCHANGED <<config, authVars, connectVars, callVars>>

\* client.close: the SDK rejects the requests that are still open.
Close ==
  /\ phase = "close"
  /\ call' = [c \in Calls |-> IF call[c] = "waiting" THEN "threw" ELSE call[c]]
  /\ Goes("closeAgent")
  /\ UNCHANGED <<config, authVars, connectVars, server, attached>>

\* Mutant: the agent is closed after client.close, not in a finally.
CloseThrowsOut ==
  /\ phase = "close"
  /\ Goes("closed")
  /\ UNCHANGED <<config, authVars, connectVars, callVars>>

CloseThrows ==
  /\ phase = "close"
  /\ Goes("closeAgent")
  /\ UNCHANGED <<config, authVars, connectVars, callVars>>

CloseAgent ==
  /\ phase = "closeAgent"
  /\ registered' = "none"
  /\ agents' = [a \in DOMAIN agents |-> IF a = registered THEN "closed" ELSE agents[a]]
  /\ Goes("closed")
  /\ UNCHANGED <<config, authVars, attempt, errors, transport, callVars>>

-------------------------------------------------------------------------------
Setup ==
  \/ \E found \in BOOLEAN : ResolveAuth(found)
  \/ Validate
  \/ Authorize \/ AuthorizeThrows
  \/ MakeAgents \/ MakeAgentsThrows
  \/ Connect \/ FallBack \/ StdioFails
  \/ \E e \in ConnectErrors : SseFails(e)

Teardown == Terminate \/ Close \/ CloseThrows \/ CloseAgent

Next ==
  \/ Setup
  \/ \E c \in Calls : Call(c) \/ Answer(c) \/ AnswerFails(c) \/ Timeout(c) \/ Attach(c)
  \/ TestEnds
  \/ Teardown

Spec == Init /\ [][Next]_vars

\* Timers fire and attachments are written.  The server need not answer, a connection
\* attempt and the closing of one need not end, and neither need the test.
Fairness == \A c \in Calls : WF_vars(Timeout(c)) /\ WF_vars(Attach(c))

FairSpec == Spec /\ Fairness

-------------------------------------------------------------------------------
(* Properties. *)

\* retryWithBackoff uses its budget and no more: a permanent error ends the attempts at
\* once, a retryable one only when retryAttempts retries were made, and whoever connects
\* did so within them.
RetryDiscipline ==
  /\ \A i \in 1..(Len(errors) - 1) : errors[i] \in Retryable
  /\ Len(errors) <= config.retryAttempts + 1
  /\ transport # "none" => Len(errors) <= config.retryAttempts
  /\ phase = "failed" /\ errors # <<>> =>
       Len(errors) = config.retryAttempts + 1 \/ errors[Len(errors)] = "other"

\* A closed session has closed the agent its requests went through, also when terminating
\* the session and closing the client failed (the finally of closeMCPClient).
AgentReleased ==
  phase = "closed" => /\ config.tls => agents["tls"] = "closed"
                      /\ config.proxy /\ ~config.tls => agents["proxy"] = "closed"

\* The report shows exactly the calls whose result the test got: a call that timed out
\* stays out of it when its answer comes late, also after the test or the session ended.
ReportsWhatReturned ==
  \A c \in Calls : c \in attached <=> config.tracked /\ call[c] = "returned"

\* Every call settles, whether or not the server answers, the test waits for it or the
\* connection is closed under it.
CallsSettle ==
  \A c \in Calls : call[c] \in {"waiting", "attaching"} ~> call[c] \in {"returned", "threw"}

\* docs/authentication.md:216 of the client credentials grant: the library fetches a token
\* "before connecting to the MCP server, then attaches it as a `Bearer` token on every
\* request".
ClientCredentialsUsed ==
  phase = "using" /\ config.clientCredentials /\ ~config.accessToken /\ config.oauth = "none"
    => credential = "client"
===============================================================================
