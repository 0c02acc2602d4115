----------------------------- MODULE Session_proofs -----------------------------
(***************************************************************************)
(* Proofs about Session for every set of calls, every number of retries    *)
(* and every configuration.  SessionInv is the inductive invariant: what   *)
(* the phases say of the attempts, of the registered agent and of the      *)
(* calls.                                                                  *)
(***************************************************************************)
EXTENDS Session, SequenceTheorems, TLAPS

Agents == {"proxy", "tls"}
CallStates == {"idle", "waiting", "attaching", "returned", "threw"}
Connecting == {"stdio", "streamable", "sse"}
Connected == {"using", "terminate", "close", "closeAgent", "closed"}
Preparing == {"auth", "validate", "credentials", "agents", "stdio"}
Phases == {"auth", "validate", "credentials", "agents", "failed"} \cup Connecting \cup Connected

TypeOK ==
  /\ config \in Configs
  /\ phase \in Phases
  /\ cliToken \in BOOLEAN
  /\ authType \in {"none", "oauth", "api-token"}
  /\ credential \in {"none", "provider", "cli", "token", "client"}
  /\ agents \in [Agents -> {"none", "open", "closed"}]
  /\ registered \in Agents \cup {"none"}
  /\ attempt \in Nat
  /\ errors \in Seq(ConnectErrors)
  /\ transport \in Connecting \cup {"none"}
  /\ call \in [Calls -> CallStates]
  /\ server \in [Calls -> {"idle", "owes", "answered"}]
  /\ attached \subseteq Calls

\* While the fixture has not failed, each retry stands for one retryable error; it has
\* failed with the error that ended the attempts last.
Attempts ==
  /\ phase # "failed" => /\ attempt = Len(errors)
                         /\ attempt <= config.retryAttempts
                         /\ \A i \in 1..Len(errors) : errors[i] \in Retryable
  /\ phase = "failed" /\ errors # <<>> =>
       /\ Len(errors) = attempt + 1
       /\ attempt <= config.retryAttempts
       /\ \A i \in 1..attempt : errors[i] \in Retryable
       /\ attempt = config.retryAttempts \/ errors[Len(errors)] = "other"
  /\ phase \in Preparing => errors = <<>>
  /\ transport # "none" <=> phase \in Connected

\* From the first attempt until it is closed, the registered agent is the one the requests
\* go through.
Registry ==
  /\ phase \in Connecting \cup (Connected \ {"closed"}) =>
       registered = IF config.tls THEN "tls" ELSE IF config.proxy THEN "proxy" ELSE "none"
  /\ AgentReleased

\* Only a call that is tracked is ever attached.
Attachments ==
  /\ \A c \in Calls : call[c] = "attaching" => config.tracked
  /\ ReportsWhatReturned

SessionInv == TypeOK /\ Attempts /\ Registry /\ Attachments

-------------------------------------------------------------------------------
\* What the proofs use of a configuration.
LEMMA ConfigFields ==
  ASSUME config \in Configs
  PROVE  /\ config.retryAttempts \in Nat
         /\ config.tls \in BOOLEAN /\ config.proxy \in BOOLEAN /\ config.tracked \in BOOLEAN
<1>1. config \in [transport : {"stdio", "http"}, accessToken : BOOLEAN,
                   accessTokenEnv : BOOLEAN, oauth : {"none", "plain", "state"},
                   clientCredentials : BOOLEAN, proxy : BOOLEAN, tls : BOOLEAN,
                   retryAttempts : 0..MaxRetries, tracked : BOOLEAN]
  BY Zenon DEF Configs
<1> QED
  BY <1>1, MaxRetriesAssumption

\* No step changes the configuration of the test.
LEMMA ConfigFixed == Next => config' = config
<1> SUFFICES ASSUME Next PROVE config' = config
  OBVIOUS
<1>1. CASE Setup
  BY <1>1 DEF Setup, ResolveAuth, Validate, Authorize, AuthorizeThrows, MakeAgents,
              MakeAgentsThrows, Connect, FallBack, StdioFails, SseFails
<1>2. ASSUME NEW c \in Calls, Call(c) \/ Answer(c) \/ AnswerFails(c) \/ Timeout(c) \/ Attach(c)
      PROVE  config' = config
  BY <1>2 DEF Call, Answer, AnswerFails, Timeout, Attach
<1>3. CASE TestEnds \/ Teardown
  BY <1>3 DEF TestEnds, Teardown, Terminate, Close, CloseThrows, CloseAgent
<1> QED
  BY <1>1, <1>2, <1>3 DEF Next

\* Every step keeps the state well typed.
LEMMA TypeStep == TypeOK /\ Next => TypeOK'
<1> SUFFICES ASSUME TypeOK, Next PROVE TypeOK'
  OBVIOUS
<1> USE DEF TypeOK, Phases, Connecting, Connected, Agents, CallStates, Goes, CallIs,
            authVars, connectVars, callVars
<1>1. CASE Setup
  <2>1. ASSUME NEW found \in BOOLEAN, ResolveAuth(found) PROVE TypeOK'
    BY <2>1 DEF ResolveAuth
  <2>2. CASE Validate
    BY <2>2 DEF Validate
  <2>3. CASE Authorize
    BY <2>3 DEF Authorize
  <2>4. CASE AuthorizeThrows
    BY <2>4 DEF AuthorizeThrows
  <2>5. CASE MakeAgents
    BY <2>5 DEF MakeAgents, Made
  <2>6. CASE MakeAgentsThrows
    BY <2>6 DEF MakeAgentsThrows, Made
  <2>7. CASE Connect
    BY <2>7 DEF Connect
  <2>8. CASE FallBack
    BY <2>8 DEF FallBack
  <2>9. CASE StdioFails
    BY <2>9 DEF StdioFails
  <2>10. ASSUME NEW e \in ConnectErrors, SseFails(e) PROVE TypeOK'
    <3>1. errors' \in Seq(ConnectErrors) /\ attempt' \in Nat
      BY <2>10 DEF SseFails
    <3> QED
      BY <2>10, <3>1 DEF SseFails
  <2> QED
    BY <1>1, <2>1, <2>2, <2>3, <2>4, <2>5, <2>6, <2>7, <2>8, <2>9, <2>10 DEF Setup
<1>2. ASSUME NEW c \in Calls, Call(c) \/ Answer(c) \/ AnswerFails(c) \/ Timeout(c) \/ Attach(c)
      PROVE  TypeOK'
  BY <1>2 DEF Call, Answer, AnswerFails, Timeout, Attach
<1>3. CASE TestEnds
  BY <1>3 DEF TestEnds
<1>4. CASE Teardown
  BY <1>4 DEF Teardown, Terminate, Close, CloseThrows, CloseAgent
<1> QED
  BY <1>1, <1>2, <1>3, <1>4 DEF Next

\* A step that makes no attempt keeps what is known of them.
LEMMA NoAttempt ==
  ASSUME Attempts, UNCHANGED <<config, attempt, errors>>, phase # "failed",
         phase' \in Preparing => phase \in Preparing,
         phase' = "failed" => phase \in Preparing,
         transport' # "none" <=> phase' \in Connected
  PROVE  Attempts'
BY DEF Attempts

\* The attempts: a retry is made for a retryable error and within the budget.
LEMMA AttemptsStep == TypeOK /\ Attempts /\ Next => Attempts'
<1> SUFFICES ASSUME TypeOK, Attempts, Next PROVE Attempts'
  OBVIOUS
<1> USE ConfigFields, ConfigFixed
    DEF TypeOK, Attempts, Preparing, Phases, Connecting, Connected, Goes, authVars, connectVars, callVars
<1>1. ASSUME NEW e \in ConnectErrors, SseFails(e) PROVE Attempts'
  <2> DEFINE n == Len(errors)
  <2>1. /\ n \in Nat /\ errors' = Append(errors, e) /\ Len(errors') = n + 1
        /\ errors'[n + 1] = e /\ \A i \in 1..n : errors'[i] = errors[i]
        /\ errors' # <<>>
    BY <1>1 DEF SseFails
  <2>2. phase = "sse" /\ attempt = n /\ n <= config.retryAttempts /\ transport = "none"
        /\ transport' = transport /\ \A i \in 1..n : errors[i] \in Retryable
    BY <1>1 DEF SseFails
  <2>3. CASE attempt < config.retryAttempts /\ e \in Retryable
    <3>1. phase' = "streamable" /\ attempt' = n + 1 /\ n + 1 <= config.retryAttempts
      BY <1>1, <2>1, <2>2, <2>3 DEF SseFails
    <3>2. \A i \in 1..(n + 1) : errors'[i] \in Retryable
      BY <2>1, <2>2, <2>3
    <3> QED
      BY <2>1, <2>2, <3>1, <3>2
  <2>4. CASE ~(attempt < config.retryAttempts /\ e \in Retryable)
    <3>1. phase' = "failed" /\ attempt' = n
      BY <1>1, <2>2, <2>4 DEF SseFails
    <3>2. attempt = config.retryAttempts \/ e = "other"
      BY <2>2, <2>4 DEF ConnectErrors
    <3> QED
      BY <2>1, <2>2, <3>1, <3>2
  <2> QED
    BY <2>3, <2>4
<1>2. ASSUME NEW found \in BOOLEAN, ResolveAuth(found) PROVE Attempts'
  BY <1>2, NoAttempt DEF ResolveAuth
<1>3. CASE Validate
  BY <1>3, NoAttempt DEF Validate
<1>4. CASE Authorize \/ AuthorizeThrows
  BY <1>4, NoAttempt DEF Authorize, AuthorizeThrows
<1>5. CASE MakeAgents
  BY <1>5, NoAttempt DEF MakeAgents
<1>6. CASE MakeAgentsThrows
  BY <1>6, NoAttempt DEF MakeAgentsThrows
<1>7. CASE Connect \/ FallBack \/ StdioFails
  BY <1>7, NoAttempt DEF Connect, FallBack, StdioFails
<1>8. CASE TestEnds \/ Teardown
  BY <1>8, NoAttempt DEF TestEnds, Teardown, Terminate, Close, CloseThrows, CloseAgent
<1>9. ASSUME NEW c \in Calls, Call(c) \/ Answer(c) \/ AnswerFails(c) \/ Timeout(c) \/ Attach(c)
      PROVE  Attempts'
  BY <1>9 DEF Call, Answer, AnswerFails, Timeout, Attach
<1> QED
  BY <1>1, <1>2, <1>3, <1>4, <1>5, <1>6, <1>7, <1>8, <1>9 DEF Next, Setup

\* The agents: the one in use stays registered until it is closed.
LEMMA RegistryStep == TypeOK /\ Registry /\ Next => Registry'
<1> SUFFICES ASSUME TypeOK, Registry, Next PROVE Registry'
  OBVIOUS
<1> USE ConfigFields, ConfigFixed
    DEF TypeOK, Registry, AgentReleased, Agents, Connecting, Connected, Phases, Goes,
        authVars, connectVars, callVars
<1>1. CASE MakeAgents
  BY <1>1 DEF MakeAgents
<1>2. CASE MakeAgentsThrows
  BY <1>2 DEF MakeAgentsThrows
<1>3. CASE CloseAgent
  <2>1. agents' = [a \in Agents |-> IF a = registered THEN "closed" ELSE agents[a]]
        /\ phase = "closeAgent" /\ phase' = "closed"
    BY <1>3 DEF CloseAgent
  <2>2. (config.tls => agents'["tls"] = "closed")
        /\ (config.proxy /\ ~config.tls => agents'["proxy"] = "closed")
    BY <2>1
  <2> QED
    BY <2>1, <2>2
<1>4. ASSUME NEW found \in BOOLEAN, ResolveAuth(found) PROVE Registry'
  BY <1>4 DEF ResolveAuth
<1>5. CASE Validate \/ Authorize \/ AuthorizeThrows
  BY <1>5 DEF Validate, Authorize, AuthorizeThrows
<1>6. CASE Connect \/ FallBack \/ StdioFails
  BY <1>6 DEF Connect, FallBack, StdioFails
<1>7. ASSUME NEW e \in ConnectErrors, SseFails(e) PROVE Registry'
  BY <1>7 DEF SseFails
<1>8. CASE TestEnds \/ Terminate \/ Close \/ CloseThrows
  BY <1>8 DEF TestEnds, Terminate, Close, CloseThrows
<1>9. ASSUME NEW c \in Calls, Call(c) \/ Answer(c) \/ AnswerFails(c) \/ Timeout(c) \/ Attach(c)
      PROVE  Registry'
  BY <1>9 DEF Call, Answer, AnswerFails, Timeout, Attach
<1> QED
  BY <1>1, <1>2, <1>3, <1>4, <1>5, <1>6, <1>7, <1>8, <1>9 DEF Next, Setup, Teardown

\* The calls: what is attached is what the test gets.
LEMMA AttachmentsStep == TypeOK /\ Attachments /\ Next => Attachments'
<1> SUFFICES ASSUME TypeOK, Attachments, Next PROVE Attachments'
  OBVIOUS
<1> USE ConfigFields, ConfigFixed DEF TypeOK, Attachments, ReportsWhatReturned, CallStates
<1>1. ASSUME NEW c \in Calls, Call(c) PROVE Attachments'
  BY <1>1 DEF Call, CallIs
<1>2. ASSUME NEW c \in Calls, Answer(c) PROVE Attachments'
  BY <1>2 DEF Answer, CallIs
<1>3. ASSUME NEW c \in Calls, AnswerFails(c) PROVE Attachments'
  BY <1>3 DEF AnswerFails, CallIs
<1>4. ASSUME NEW c \in Calls, Timeout(c) PROVE Attachments'
  BY <1>4 DEF Timeout, CallIs
<1>5. ASSUME NEW c \in Calls, Attach(c) PROVE Attachments'
  BY <1>5 DEF Attach, CallIs
<1>6. CASE Close
  BY <1>6 DEF Close
<1>7. CASE UNCHANGED callVars
  BY <1>7 DEF callVars
<1>8. Setup \/ TestEnds \/ Terminate \/ CloseThrows \/ CloseAgent => UNCHANGED callVars
  BY DEF Setup, ResolveAuth, Validate, Authorize, AuthorizeThrows, MakeAgents,
         MakeAgentsThrows, Connect, FallBack, StdioFails, SseFails, TestEnds, Terminate,
         CloseThrows, CloseAgent
<1> QED
  BY <1>1, <1>2, <1>3, <1>4, <1>5, <1>6, <1>7, <1>8 DEF Next, Teardown

\* Every state of a session satisfies the invariant.
THEOREM SessionCorrect == Spec => []SessionInv
<1>1. Init => SessionInv
  <2> SUFFICES ASSUME Init PROVE SessionInv
    OBVIOUS
  <2>1. TypeOK
    <3>1. phase \in Phases /\ attempt \in Nat /\ errors \in Seq(ConnectErrors)
      BY DEF Init, Phases
    <3>2. agents \in [Agents -> {"none", "open", "closed"}]
      BY DEF Init, Agents
    <3>3. call \in [Calls -> CallStates] /\ server \in [Calls -> {"idle", "owes", "answered"}]
      BY DEF Init, CallStates
    <3> QED
      BY <3>1, <3>2, <3>3 DEF Init, TypeOK
  <2>2. Attempts
    BY <2>1, ConfigFields DEF Init, Attempts, TypeOK, Connected
  <2>3. Registry
    BY DEF Init, Registry, Connecting, Connected, AgentReleased
  <2>4. Attachments
    BY DEF Init, Attachments, ReportsWhatReturned
  <2> QED
    BY <2>1, <2>2, <2>3, <2>4 DEF SessionInv
<1>2. SessionInv /\ [Next]_vars => SessionInv'
  <2> SUFFICES ASSUME SessionInv, [Next]_vars PROVE SessionInv'
    OBVIOUS
  <2>1. CASE Next
    BY <2>1, TypeStep, AttemptsStep, RegistryStep, AttachmentsStep DEF SessionInv
  <2>2. CASE UNCHANGED vars
    BY <2>2 DEF SessionInv, TypeOK, Attempts, Registry, AgentReleased, Attachments,
                ReportsWhatReturned, vars, authVars, connectVars, callVars
  <2> QED
    BY <2>1, <2>2
<1> QED
  BY <1>1, <1>2, PTL DEF Spec

\* Connecting uses the retry budget and no more, for every budget and every sequence of
\* errors.
THEOREM RetriesWithinBudget == Spec => []RetryDiscipline
<1>1. SessionInv => RetryDiscipline
  <2> SUFFICES ASSUME SessionInv PROVE RetryDiscipline
    OBVIOUS
  <2> USE ConfigFields DEF SessionInv, TypeOK
  <2>1. Len(errors) \in Nat /\ (errors = <<>> <=> Len(errors) = 0)
    BY EmptySeq
  <2>2. CASE phase # "failed"
    BY <2>1, <2>2 DEF Attempts, RetryDiscipline
  <2>3. CASE phase = "failed"
    <3>1. transport = "none"
      BY <2>3 DEF Attempts, Connected
    <3> QED
      BY <2>1, <2>3, <3>1 DEF Attempts, RetryDiscipline
  <2> QED
    BY <2>2, <2>3
<1> QED
  BY <1>1, SessionCorrect, PTL

\* A closed session has closed its agent, whichever of its steps failed.
THEOREM AgentsAreReleased == Spec => []AgentReleased
<1>1. SessionInv => AgentReleased
  BY DEF SessionInv, Registry
<1> QED
  BY <1>1, SessionCorrect, PTL

\* The report shows the calls whose result the test got, for any number of calls.
THEOREM ReportMatchesTest == Spec => []ReportsWhatReturned
<1>1. SessionInv => ReportsWhatReturned
  BY DEF SessionInv, Attachments
<1> QED
  BY <1>1, SessionCorrect, PTL
===============================================================================
