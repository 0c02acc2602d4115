------------------------------ MODULE Hosts_proofs ------------------------------
(***************************************************************************)
(* Proofs about the hosts of MCHosts, each with the other parts of the run *)
(* at rest: HostRun, ApiHost, BrowserHost and ExternalHost.  Each has an   *)
(* inductive invariant of its own, which HostsInv puts together.           *)
(***************************************************************************)
EXTENDS MCHosts, SequenceTheorems, WellFoundedInduction, TLAPS

-------------------------------------------------------------------------------
(* HostRun: what is open belongs to a phase of execute(), and nothing starts once the *)
(* race is decided.                                                                    *)

HostTypeOK ==
  /\ config \in Hosts
  /\ phase \in {"start", "connecting", "simulating", "closing", "ended"}
  /\ result \in {"none", "success", "failure", "error", "timeout"}
  /\ clients \in [Servers -> {"none", "open", "closing", "closed"}]
  /\ aborted \in BOOLEAN /\ deadline \in BOOLEAN
  /\ outcome \in {"pending", "error", "timeout", "trace"}
  /\ configDir \in {"none", "there", "removed"}
  /\ child \in {"none", "running", "killed", "exited", "terminated"}
  /\ sdk \in {"idle", "live", "aborted"}
  /\ attempted \in 0..MaxToolCalls
  /\ inFlight \in Nat
  /\ overBudget \in BOOLEAN

\* What an unfinished race and a phase say about the host and its directory.
Owned ==
  /\ child # "none" => config.hostType = "cli"
  /\ sdk # "idle" => config.hostType = "sdk"
  /\ child = "running" => phase = "simulating" /\ outcome = "pending"
  /\ sdk = "live" => phase = "simulating"
  /\ configDir = "there" => outcome = "pending"
  /\ phase \in {"start", "connecting"} => sdk = "idle" /\ child = "none"

\* The race is decided by the timer, or at the end; and then for good.
Race ==
  /\ phase = "ended" => outcome # "pending"
  /\ outcome # "pending" => deadline \/ phase = "ended"
  /\ outcome = "trace" =>
       phase = "ended" /\ \A s \in Servers : clients[s] \in {"none", "closed"}

\* A run succeeds with every call answered.
Answered ==
  /\ sdk = "idle" => inFlight = 0 /\ ~overBudget
  /\ phase \in {"closing", "ended"} /\ result = "success" => inFlight = 0 /\ ~overBudget

HostInv == HostTypeOK /\ Owned /\ Race /\ Answered

\* Asking the clients to close keeps them apart from the closed ones.
LEMMA ClosingType ==
  ASSUME NEW cs \in [Servers -> {"none", "open", "closing", "closed"}]
  PROVE  Closing(cs) \in [Servers -> {"none", "open", "closing", "closed"}]
BY DEF Closing

\* The run starts with nothing.
LEMMA HostInit == Init => HostInv
<1> SUFFICES ASSUME Init PROVE HostInv
  OBVIOUS
<1> USE DEF Init
<1>1. 0 \in 0..MaxToolCalls /\ 0 \in Nat
  BY MaxToolCallsAssumption
<1>2. clients \in [Servers -> {"none", "open", "closing", "closed"}]
  OBVIOUS
<1>3. HostTypeOK
  BY <1>1, <1>2 DEF HostTypeOK
<1> QED
  BY <1>3 DEF HostInv, Owned, Race, Answered

\* What the start of a host, after the last connection, leaves behind.
LEMMA StartKeeps ==
  ASSUME HostInv, NEW cs \in [Servers -> {"none", "open", "closing", "closed"}], Start(cs),
         phase \in {"start", "connecting"}, ~deadline,
         phase = "start" => config.hostType = "cli",
         UNCHANGED <<config, aborted, deadline, outcome, attempted, inFlight, overBudget>>
  PROVE  HostInv'
<1> USE DEF HostInv, HostTypeOK, Owned, Race, Answered, Hosts
<1>1. outcome = "pending" /\ sdk = "idle" /\ child = "none"
  OBVIOUS
<1>2. CASE config.hostType = "cli" /\ config.overrides
  BY <1>1, <1>2, ClosingType DEF Start, Finish
<1>3. CASE ~(config.hostType = "cli" /\ config.overrides)
  BY <1>1, <1>3 DEF Start
<1> QED
  BY <1>2, <1>3

\* Each action of a built-in run keeps its invariant.
LEMMA HostStep == HostInv /\ Next => HostInv'
<1> SUFFICES ASSUME HostInv, Next PROVE HostInv'
  OBVIOUS
<1> USE ClosingType, MaxToolCallsAssumption
    DEF HostInv, HostTypeOK, Owned, Race, Answered, Hosts
<1>1. CASE Begin
  <2>1. CASE deadline /\ aborted' = TRUE
    <3>1. CASE Finish("timeout", clients) /\ UNCHANGED <<configDir, child, sdk>>
      BY <1>1, <2>1, <3>1 DEF Begin, Finish
    <3>2. CASE ~deadline
      BY <2>1, <3>2
    <3> QED
      BY <1>1, <2>1, <3>1, <3>2 DEF Begin
  <2>2. CASE ~deadline /\ config.hostType = "sdk"
    BY <1>1, <2>2 DEF Begin, resources
  <2>3. CASE ~deadline /\ config.hostType # "sdk"
    BY <1>1, <2>3, StartKeeps DEF Begin
  <2> QED
    BY <1>1, <2>1, <2>2, <2>3 DEF Begin
<1>2. ASSUME NEW s \in Servers, ConnectServer(s) PROVE HostInv'
  <2> DEFINE cs == [clients EXCEPT ![s] = "open"]
  <2>1. cs \in [Servers -> {"none", "open", "closing", "closed"}]
    OBVIOUS
  <2>2. phase = "connecting"
    BY <1>2 DEF ConnectServer
  <2>3. CASE deadline \/ aborted
    <3>1. Finish("timeout", cs) /\ aborted' = TRUE
      BY <1>2, <2>3 DEF ConnectServer
    <3> QED
      BY <1>2, <2>1, <2>2, <2>3, <3>1 DEF ConnectServer, Finish
  <2>4. CASE ~deadline /\ ~aborted /\ s < NumServers
    BY <1>2, <2>1, <2>2, <2>4 DEF ConnectServer
  <2>5. CASE ~deadline /\ ~aborted /\ ~(s < NumServers)
    <3>1. Start(cs)
      BY <1>2, <2>5 DEF ConnectServer
    <3> QED
      BY <1>2, <2>1, <2>2, <2>5, <3>1, StartKeeps DEF ConnectServer
  <2> QED
    BY <2>3, <2>4, <2>5
<1>3. CASE ConnectFails
  BY <1>3 DEF ConnectFails, Finish, simulation
<1>4. CASE ToolCall
  <2>1. attempted < MaxToolCalls => attempted + 1 \in 0..MaxToolCalls /\ inFlight + 1 \in Nat
    OBVIOUS
  <2>2. sdk = "live" /\ phase = "simulating" /\ attempted' \in 0..MaxToolCalls
        /\ inFlight' \in Nat /\ overBudget' \in BOOLEAN
    BY <1>4, <2>1 DEF ToolCall
  <2>3. UNCHANGED <<config, phase, result, aborted, deadline, outcome, clients, configDir, child,
                    sdk>>
    BY <1>4 DEF ToolCall, resources
  <2> QED
    BY <2>2, <2>3
<1>5. CASE ToolAnswers
  BY <1>5 DEF ToolAnswers, resources
<1>6. CASE SimulationEnds \/ SimulationFails
  BY <1>6 DEF SimulationEnds, SimulationFails, Finish
<1>7. ASSUME NEW r \in {"success", "failure"}, ChildCloses(r) PROVE HostInv'
  BY <1>7 DEF ChildCloses, Finish, simulation
<1>8. CASE ChildTerminated \/ ChildAborted
  BY <1>8 DEF ChildTerminated, ChildAborted, Finish, simulation
<1>9. ASSUME NEW s \in Servers, Closed(s) PROVE HostInv'
  BY <1>9 DEF Closed, simulation
<1>10. CASE End
  BY <1>10 DEF End, Removed, simulation
<1>11. CASE DeadlinePasses
  BY <1>11 DEF DeadlinePasses, simulation, resources
<1>12. CASE Expire
  BY <1>12 DEF Expire, Removed, Kill
<1> QED
  BY <1>1, <1>2, <1>3, <1>4, <1>5, <1>6, <1>7, <1>8, <1>9, <1>10, <1>11, <1>12
     DEF Next, Connecting, Simulating

\* The invariant says how a run ends.
LEMMA HostEnds == HostInv => CleanEnd
BY MaxToolCallsAssumption DEF HostInv, HostTypeOK, Owned, Race, Answered, CleanEnd

-------------------------------------------------------------------------------
(* BrowserHost *)

BrowserInv ==
  /\ step \in {"import", "launch", "page", "race", "close", "returned"}
  /\ step \in {"import", "launch"} => browser = "none"
  /\ step \in {"import", "launch", "page", "race"} => ended = "none"
  /\ B!BrowserCleanEnd
  /\ ended = "answer" => script = "over"

\* Before the launch there is no browser, and an answer waits for its script.
LEMMA BrowserInit == B!Init => BrowserInv
BY DEF B!Init, BrowserInv, B!BrowserCleanEnd

\* Each action of the browser host keeps its invariant.
LEMMA BrowserStep == BrowserInv /\ B!Next => BrowserInv'
<1> SUFFICES ASSUME BrowserInv, B!Next PROVE BrowserInv'
  OBVIOUS
<1> USE DEF BrowserInv, B!BrowserCleanEnd
<1>1. CASE B!Import \/ B!Launch \/ B!OpenPage
  BY <1>1 DEF B!Import, B!Launch, B!OpenPage
<1>2. CASE B!ScriptEnds
  BY <1>2 DEF B!ScriptEnds
<1>3. CASE B!Expire \/ B!Close
  BY <1>3 DEF B!Expire, B!Close
<1> QED
  BY <1>1, <1>2, <1>3 DEF B!Next

-------------------------------------------------------------------------------
(* ApiHost: the servers are connected to in order, and every way out of the loop leaves *)
(* no connection open.                                                                  *)

\* What the model may ask for.
Names == (UNION {{A!HostName(s, t) : t \in Tools} : s \in A!Servers}) \cup {<<"unknown">>}

ConnectionStates == {"none", "connecting", "open", "terminating", "cutting", "closed"}

ApiTypeOK ==
  /\ at \in {"start", "threw", "connecting", "listing", "asking", "calling", "teardown",
             "cutting", "returned"}
  /\ offered \in [A!Servers -> SUBSET Tools]
  /\ connections \in [A!Servers -> ConnectionStates]
  /\ listed \subseteq A!Servers
  /\ expired \in BOOLEAN
  /\ error \in {"none", "failed", "timeout"}

CallsTypeOK == wanted \in Seq(Names) /\ toolCalls \in Seq(Names)

\* While server s is connected to, those before it are open and known; and while it is asked
\* for its tools it is open, too.
ConnectingTo(s) ==
  /\ listed = 1..(s - 1)
  /\ \A x \in A!Servers :
       connections[x] = IF x < s THEN "open" ELSE IF x = s THEN "connecting" ELSE "none"
ListingOf(s) ==
  /\ listed = 1..(s - 1)
  /\ \A x \in A!Servers : connections[x] = IF x <= s THEN "open" ELSE "none"

AllOpen == listed = A!Servers /\ \A x \in A!Servers : connections[x] = "open"

Progress ==
  /\ at \in {"start", "threw"} => listed = {} /\ \A x \in A!Servers : connections[x] = "none"
  /\ at = "connecting" => \E s \in A!Servers : ConnectingTo(s)
  /\ at = "listing" => \E s \in A!Servers : ListingOf(s)
  /\ at \in {"asking", "calling"} => AllOpen

\* No connection is left behind, and one that comes late is known to be late.
Leaving ==
  /\ expired => at \in {"cutting", "returned"}
  /\ at = "cutting" => expired /\ error # "none"
  /\ at \in {"teardown", "cutting", "returned"} =>
       \A x \in A!Servers : connections[x] # "open"
  /\ ~expired => \A x \in A!Servers : /\ connections[x] # "cutting"
                                      /\ connections[x] = "connecting" => at = "connecting"
  /\ at = "returned" => \A x \in A!Servers : connections[x] # "cutting"

\* A run that succeeds has done everything it was asked for, in its budget.
Succeeds ==
  /\ at \in {"teardown", "returned"} /\ error = "none" =>
       /\ wanted = <<>> /\ listed = A!Servers /\ ~expired
       /\ \A x \in A!Servers : connections[x] \in {"terminating", "closed"}
       /\ at = "returned" => \A x \in A!Servers : connections[x] = "closed"
  /\ at = "calling" => wanted # <<>> /\ Len(toolCalls) < Budget
  /\ Len(toolCalls) <= Budget

ApiInv == ApiTypeOK /\ CallsTypeOK /\ Progress /\ Leaving /\ Succeeds
\* The servers are numbered, and the names of the tools are sequences' elements.
LEMMA ApiServers ==
  /\ Len(Labels) \in Nat \ {0}
  /\ A!Servers = 1..Len(Labels)
BY LabelsAssumption, LenProperties, EmptySeq DEF A!Servers

\* The next call has a name.
LEMMA SequenceOfCalls ==
  \A calls \in Seq(Names) :
    calls # <<>> => Head(calls) \in Names /\ Tail(calls) \in Seq(Names)
BY HeadTailProperties

\* What the model asks for is a sequence of names.
LEMMA CallsAreNames ==
  ASSUME listed \subseteq A!Servers, offered \in [A!Servers -> SUBSET Tools]
  PROVE  A!Calls \subseteq Seq(Names)
<1> DEFINE Some == A!Routing \cup {<<"unknown">>}
<1>1. Some \subseteq Names
  BY DEF A!Routing, A!NamesOf, Names
<1> HIDE DEF Some
<1>2. \A c \in Some, d \in Some : <<c>> \in Seq(Names) /\ <<c, d>> \in Seq(Names)
  BY <1>1
<1>3. <<>> \in Seq(Names)
  BY EmptySeq
<1>4. ASSUME NEW calls \in A!Calls PROVE calls \in Seq(Names)
  <2>1. \/ calls = <<>>
        \/ \E c \in Some : calls = <<c>>
        \/ \E c \in Some, d \in Some : calls = <<c, d>>
    BY <1>4 DEF A!Calls, Some
  <2> QED
    BY <1>2, <1>3, <2>1
<1> QED
  BY <1>4

\* A graceful end is asked of the open connections, and of no other.
LEMMA TerminatingType ==
  ASSUME connections \in [A!Servers -> ConnectionStates]
  PROVE  A!Terminating \in [A!Servers -> ConnectionStates]
BY DEF A!Terminating, ConnectionStates

\* Nothing is open or known before the first server.
LEMMA ApiInit == A!Init => ApiInv
<1> SUFFICES ASSUME A!Init PROVE ApiInv
  OBVIOUS
<1>1. Len(toolCalls) = 0 /\ toolCalls \in Seq(Names) /\ wanted \in Seq(Names)
  BY EmptySeq DEF A!Init
<1>2. ApiTypeOK
  BY <1>1 DEF A!Init, ApiTypeOK, ConnectionStates
<1>3. CallsTypeOK
  BY <1>1 DEF CallsTypeOK
<1> QED
  BY <1>1, <1>2, <1>3, BudgetAssumption DEF A!Init, ApiInv, Progress, Leaving, Succeeds

\* The loop is left with a cause: what is open is asked to terminate.
LEMMA TearDownKeeps ==
  ASSUME ApiInv, NEW cause \in {"none", "failed"}, A!TearDown(cause),
         at \in {"listing", "asking", "calling"},
         cause = "none" => wanted' = <<>> /\ AllOpen,
         wanted' \in Seq(Names), toolCalls' \in Seq(Names), Len(toolCalls') <= Budget,
         UNCHANGED <<offered, listed, expired>>
  PROVE  ApiInv'
<1> USE DEF ApiInv
<1>1. ~expired /\ at' = "teardown" /\ error' = cause /\ connections' = A!Terminating
  BY DEF A!TearDown, Leaving
<1>2. \A x \in A!Servers : connections[x] \in {"none", "open", "terminating", "closed"}
  BY <1>1 DEF Leaving, ApiTypeOK, ConnectionStates
<1>3. \A x \in A!Servers :
        /\ connections'[x] \in {"none", "terminating", "closed"}
        /\ connections[x] = "open" => connections'[x] = "terminating"
  BY <1>1, <1>2 DEF A!Terminating
<1>4. ApiTypeOK'
  <2>1. connections' \in [A!Servers -> ConnectionStates]
    BY <1>1, TerminatingType DEF ApiTypeOK
  <2> QED
    BY <1>1, <2>1 DEF ApiTypeOK
<1>5. Leaving' /\ Progress'
  BY <1>1, <1>3 DEF Leaving, Progress
<1>6. Succeeds'
  BY <1>1, <1>3 DEF Succeeds, AllOpen
<1>7. CallsTypeOK'
  BY DEF CallsTypeOK
<1> QED
  BY <1>4, <1>5, <1>6, <1>7

\* The next call is performed, or the loop is left.
LEMMA PerformKeeps ==
  ASSUME ApiInv, NEW calls \in Seq(Names), A!Perform(calls, toolCalls'),
         at \in {"asking", "calling"}, wanted' = calls,
         toolCalls' \in Seq(Names), Len(toolCalls') <= Budget,
         UNCHANGED <<offered, listed, expired>>
  PROVE  ApiInv'
<1>1. AllOpen /\ ~expired
  BY DEF ApiInv, Progress, Leaving
<1>0. CallsTypeOK'
  BY DEF CallsTypeOK
<1>2. CASE A!TearDown("failed")
  BY <1>1, <1>2, TearDownKeeps
<1>3. CASE at' = "asking" /\ UNCHANGED <<connections, error>>
  <2>1. ApiTypeOK'
    BY <1>3 DEF ApiInv, ApiTypeOK
  <2>2. Progress' /\ Leaving'
    BY <1>1, <1>3 DEF ApiInv, Progress, Leaving, AllOpen
  <2>3. Succeeds'
    BY <1>3 DEF Succeeds
  <2> QED
    BY <1>0, <2>1, <2>2, <2>3 DEF ApiInv
<1>4. CASE /\ at' = "calling" /\ UNCHANGED <<connections, error>>
           /\ calls # <<>> /\ ~(Len(toolCalls') >= Budget)
  <2>1. Len(toolCalls') < Budget
    BY <1>4, LenProperties, BudgetAssumption
  <2>2. ApiTypeOK'
    BY <1>4 DEF ApiInv, ApiTypeOK
  <2>3. Progress' /\ Leaving'
    BY <1>1, <1>4 DEF ApiInv, Progress, Leaving, AllOpen
  <2>4. Succeeds'
    BY <1>4, <2>1 DEF Succeeds
  <2> QED
    BY <1>0, <2>2, <2>3, <2>4 DEF ApiInv
<1> QED
  BY <1>2, <1>3, <1>4 DEF A!Perform
\* A server is connected to, in time or late.
LEMMA ConnectKeeps ==
  ASSUME ApiInv, NEW s \in A!Servers, A!Connects(s) \/ A!ConnectsLate(s)
  PROVE  ApiInv'
<1> USE DEF ApiInv
<1>1. CallsTypeOK'
  BY DEF A!Connects, A!ConnectsLate, CallsTypeOK
<1>2. CASE A!Connects(s)
  <2>1. at = "connecting" /\ ~expired /\ connections[s] = "connecting"
    BY <1>2 DEF A!Connects, Leaving
  <2>2. PICK t \in A!Servers : ConnectingTo(t)
    BY <2>1 DEF Progress
  <2>3. t = s
    BY <2>1, <2>2 DEF ConnectingTo
  <2>4. connections' = [connections EXCEPT ![s] = "open"] /\ at' = "listing" /\ listed' = listed
    BY <1>2 DEF A!Connects
  <2>5. ListingOf(s)'
    BY <2>2, <2>3, <2>4, ApiServers DEF ConnectingTo, ListingOf, ApiTypeOK
  <2>6. ApiTypeOK'
    BY <1>2 DEF A!Connects, ApiTypeOK, ConnectionStates
  <2>7. \A x \in A!Servers : connections'[x] \in {"open", "none"}
    BY <2>5 DEF ListingOf
  <2> QED
    BY <1>1, <1>2, <2>1, <2>4, <2>5, <2>6, <2>7 DEF A!Connects, Progress, Leaving, Succeeds
<1>3. CASE A!ConnectsLate(s)
  <2>1. expired /\ at \in {"cutting", "returned"} /\ connections[s] = "connecting"
    BY <1>3 DEF A!ConnectsLate, Leaving
  <2>2. at = "returned" => error # "none"
    BY <2>1 DEF Succeeds
  <2>3. connections' = [connections EXCEPT ![s] = "terminating"] /\ UNCHANGED <<at, error, expired>>
    BY <1>3 DEF A!ConnectsLate
  <2>4. ApiTypeOK'
    BY <1>3 DEF A!ConnectsLate, ApiTypeOK, ConnectionStates
  <2> QED
    BY <1>1, <1>3, <2>1, <2>2, <2>3, <2>4 DEF A!ConnectsLate, ApiTypeOK, Progress, Leaving, Succeeds
<1> QED
  BY <1>2, <1>3

\* The tools of a server become known.
LEMMA ListKeeps ==
  ASSUME ApiInv, NEW s \in A!Servers, A!Lists(s)
  PROVE  ApiInv'
<1> USE DEF ApiInv
<1>1. at = "listing" /\ ~expired /\ UNCHANGED <<offered, wanted, toolCalls, expired>>
  BY DEF A!Lists, Leaving
<1>2. CallsTypeOK'
  BY <1>1 DEF CallsTypeOK
<1>3. PICK t \in A!Servers : ListingOf(t)
  BY <1>1 DEF Progress
<1>4. t = s /\ s \in Nat
  BY <1>3, ApiServers DEF ListingOf, A!Lists
<1>5. CASE A!TearDown("failed") /\ UNCHANGED listed
  BY <1>1, <1>5, TearDownKeeps DEF CallsTypeOK, Succeeds
<1>6. CASE ~(A!TearDown("failed") /\ UNCHANGED listed)
  <2>1. listed' = listed \cup {s} /\ error' = error
    BY <1>6 DEF A!Lists
  <2>2. CASE s = Len(Labels)
    <3>1. at' = "asking" /\ connections' = connections
      BY <1>6, <2>2 DEF A!Lists
    <3>2. AllOpen'
      BY <1>3, <1>4, <2>1, <2>2, <3>1, ApiServers DEF ListingOf, AllOpen
    <3>3. ApiTypeOK'
      BY <1>1, <2>1, <3>1 DEF ApiTypeOK
    <3> QED
      BY <1>1, <1>2, <2>1, <3>1, <3>2, <3>3 DEF AllOpen, Progress, Leaving, Succeeds
  <2>3. CASE s # Len(Labels)
    <3>1. at' = "connecting" /\ connections' = [connections EXCEPT ![s + 1] = "connecting"]
      BY <1>6, <2>3 DEF A!Lists
    <3>2. s + 1 \in A!Servers
      BY <1>4, <2>3, ApiServers
    <3>3. ConnectingTo(s + 1)'
      BY <1>3, <1>4, <2>1, <3>1, <3>2, ApiServers DEF ListingOf, ConnectingTo, ApiTypeOK
    <3>4. ApiTypeOK'
      BY <1>1, <2>1, <3>1, <3>2 DEF ApiTypeOK, ConnectionStates
    <3>5. \A x \in A!Servers : connections'[x] \in {"open", "connecting", "none"}
      BY <3>3 DEF ConnectingTo
    <3> QED
      BY <1>1, <1>2, <2>1, <3>1, <3>2, <3>3, <3>4, <3>5 DEF Progress, Leaving, Succeeds
  <2> QED
    BY <2>2, <2>3
<1> QED
  BY <1>5, <1>6

\* What is awaited is rejected, or runs out of time.
LEMMA BreakKeeps ==
  ASSUME ApiInv, A!Fails \/ A!Expire
  PROVE  ApiInv'
<1> USE DEF ApiInv
<1>1. CallsTypeOK' /\ Len(toolCalls') <= Budget
  BY DEF A!Fails, A!Expire, CallsTypeOK, Succeeds
<1>2. CASE A!Fails
  <2>1. ~expired /\ at' = "teardown" /\ error' = "failed"
    BY <1>2 DEF A!Fails, Leaving
  <2>2. \A x \in A!Servers : connections[x] \in ConnectionStates \ {"cutting"}
    BY <2>1 DEF ApiTypeOK, Leaving
  <2>3. connections' =
          [x \in A!Servers |-> IF connections[x] = "connecting" THEN "none" ELSE A!Terminating[x]]
    BY <1>2 DEF A!Fails
  <2>4. \A x \in A!Servers : connections'[x] \in {"none", "terminating", "closed"}
    BY <2>2, <2>3 DEF A!Terminating, ConnectionStates
  <2>5. ApiTypeOK'
    BY <1>2, <2>1, <2>3, <2>4 DEF A!Fails, ApiTypeOK, ConnectionStates
  <2> QED
    BY <1>1, <1>2, <2>1, <2>4, <2>5 DEF A!Fails, Progress, Leaving, Succeeds
<1>3. CASE A!Expire
  <2>1. expired' = TRUE /\ at' = "cutting" /\ error' \in {"failed", "timeout"}
    BY <1>3 DEF A!Expire, ApiTypeOK
  <2>2. connections' = [x \in A!Servers |->
          IF connections[x] \in {"open", "terminating"} THEN "cutting" ELSE connections[x]]
    BY <1>3 DEF A!Expire
  <2>3. ApiTypeOK'
    BY <1>3, <2>1, <2>2 DEF A!Expire, ApiTypeOK, ConnectionStates
  <2> QED
    BY <1>1, <2>1, <2>2, <2>3 DEF Progress, Leaving, Succeeds
<1> QED
  BY <1>2, <1>3

\* A connection is closed, in peace or not, and the wait for it ends.
LEMMA CloseKeeps ==
  ASSUME ApiInv,
         A!TearDownEnds \/ A!CutEnds \/ \E s \in A!Servers : A!Closed(s) \/ A!Cut(s)
  PROVE  ApiInv'
<1> USE DEF ApiInv
<1>1. CallsTypeOK' /\ Len(toolCalls') <= Budget
  BY DEF A!TearDownEnds, A!CutEnds, A!Closed, A!Cut, CallsTypeOK, Succeeds
<1>2. ASSUME NEW s \in A!Servers, A!Closed(s) \/ A!Cut(s) PROVE ApiInv'
  <2>1. /\ connections[s] \in {"terminating", "cutting"}
        /\ connections' = [connections EXCEPT ![s] = "closed"]
        /\ UNCHANGED <<offered, at, listed, wanted, toolCalls, expired, error>>
    BY <1>2 DEF A!Closed, A!Cut
  <2>2. ApiTypeOK'
    BY <2>1 DEF ApiTypeOK, ConnectionStates
  <2>3. at \notin {"start", "threw", "connecting", "listing", "asking", "calling"}
    BY <2>1 DEF Progress, ConnectingTo, ListingOf, AllOpen
  <2>4. Progress' /\ Leaving'
    BY <2>1, <2>3 DEF Progress, Leaving, ApiTypeOK
  <2>5. Succeeds'
    BY <2>1, <2>3 DEF Succeeds, ApiTypeOK
  <2> QED
    BY <1>1, <2>2, <2>4, <2>5
<1>3. CASE A!TearDownEnds
  <2>1. ~expired /\ at' = "returned" /\ UNCHANGED <<offered, connections, listed, wanted, toolCalls,
                                                     expired, error>>
    BY <1>3 DEF A!TearDownEnds, Leaving
  <2>2. ApiTypeOK'
    BY <2>1 DEF ApiTypeOK
  <2>3. Progress' /\ Leaving'
    BY <1>3, <2>1 DEF A!TearDownEnds, Progress, Leaving
  <2>4. Succeeds'
    BY <1>3, <2>1 DEF A!TearDownEnds, Succeeds
  <2> QED
    BY <1>1, <2>2, <2>3, <2>4
<1>4. CASE A!CutEnds
  <2>1. at' = "returned" /\ UNCHANGED <<offered, connections, listed, wanted, toolCalls,
                                        expired, error>>
    BY <1>4 DEF A!CutEnds
  <2>2. ApiTypeOK'
    BY <2>1 DEF ApiTypeOK
  <2>3. Progress' /\ Leaving'
    BY <1>4, <2>1 DEF A!CutEnds, Progress, Leaving
  <2>4. Succeeds'
    BY <1>4, <2>1 DEF A!CutEnds, Succeeds, Leaving
  <2> QED
    BY <1>1, <2>2, <2>3, <2>4
<1> QED
  BY <1>2, <1>3, <1>4

\* The model is asked, and its calls are performed one by one.
LEMMA CallKeeps ==
  ASSUME ApiInv, A!CallReturns \/ \E calls \in A!Calls : A!Answers(calls)
  PROVE  ApiInv'
<1> USE DEF ApiInv
<1>1. ASSUME NEW calls \in A!Calls, A!Answers(calls) PROVE ApiInv'
  <2>1. calls \in Seq(Names) /\ AllOpen
    BY <1>1, CallsAreNames DEF ApiTypeOK, A!Answers, Progress
  <2>2. /\ at = "asking" /\ wanted' = calls
        /\ UNCHANGED <<offered, listed, toolCalls, expired>>
    BY <1>1 DEF A!Answers
  <2>3. toolCalls' \in Seq(Names) /\ Len(toolCalls') <= Budget /\ wanted' \in Seq(Names)
    BY <2>1, <2>2 DEF CallsTypeOK, Succeeds
  <2>4. CASE calls = <<>>
    BY <1>1, <2>1, <2>2, <2>3, <2>4, TearDownKeeps DEF A!Answers
  <2>5. CASE calls # <<>>
    <3>1. A!Perform(calls, toolCalls')
      BY <1>1, <2>2, <2>5 DEF A!Answers
    <3> QED
      BY <2>1, <2>2, <2>3, <3>1, PerformKeeps
  <2> QED
    BY <2>4, <2>5
<1>2. CASE A!CallReturns
  <2>1. /\ at = "calling" /\ wanted # <<>> /\ Len(toolCalls) < Budget
        /\ wanted \in Seq(Names) /\ toolCalls \in Seq(Names)
    BY <1>2 DEF A!CallReturns, Succeeds, CallsTypeOK
  <2>2. Head(wanted) \in Names /\ Tail(wanted) \in Seq(Names)
    BY <2>1, SequenceOfCalls
  <2>3. /\ Append(toolCalls, Head(wanted)) \in Seq(Names)
        /\ Len(Append(toolCalls, Head(wanted))) = Len(toolCalls) + 1
    BY <2>1, <2>2, AppendProperties
  <2>4. Len(toolCalls) + 1 <= Budget
    BY <2>1, LenProperties, BudgetAssumption
  <2>5. /\ toolCalls' = Append(toolCalls, Head(wanted)) /\ wanted' = Tail(wanted)
        /\ A!Perform(Tail(wanted), toolCalls')
        /\ UNCHANGED <<offered, listed, expired>>
    BY <1>2 DEF A!CallReturns
  <2> QED
    BY <2>1, <2>2, <2>3, <2>4, <2>5, PerformKeeps
<1> QED
  BY <1>1, <1>2

\* Each action of the host keeps its invariant.
LEMMA ApiStep == ApiInv /\ A!Next => ApiInv'
<1> SUFFICES ASSUME ApiInv, A!Next PROVE ApiInv'
  OBVIOUS
<1>1. CASE A!Begin
  <2> USE DEF ApiInv
  <2>1. /\ at = "start" /\ ~expired /\ listed = {} /\ 1 \in A!Servers
        /\ UNCHANGED <<offered, listed, wanted, toolCalls, expired, error>>
    BY <1>1, ApiServers DEF A!Begin, Progress, Leaving
  <2>2. CallsTypeOK' /\ Len(toolCalls') <= Budget
    BY <2>1 DEF CallsTypeOK, Succeeds
  <2>3. CASE at' = "threw" /\ UNCHANGED connections
    BY <2>1, <2>2, <2>3 DEF ApiTypeOK, Progress, Leaving, Succeeds
  <2>4. CASE at' = "connecting" /\ connections' = [connections EXCEPT ![1] = "connecting"]
    <3>1. ConnectingTo(1)'
      BY <2>1, <2>4, ApiServers DEF Progress, ConnectingTo, ApiTypeOK
    <3>2. ApiTypeOK'
      BY <2>1, <2>4 DEF ApiTypeOK, ConnectionStates
    <3>3. \A x \in A!Servers : connections'[x] \in {"connecting", "none", "open"}
      BY <3>1 DEF ConnectingTo
    <3> QED
      BY <2>1, <2>2, <2>4, <3>1, <3>2, <3>3 DEF Progress, Leaving, Succeeds
  <2> QED
    BY <1>1, <2>3, <2>4 DEF A!Begin
<1>2. ASSUME NEW s \in A!Servers, A!OfServer(s) PROVE ApiInv'
  BY <1>2, ConnectKeeps, ListKeeps, CloseKeeps DEF A!OfServer
<1> QED
  BY <1>1, <1>2, BreakKeeps, CloseKeeps, CallKeeps DEF A!Next

\* The invariant says how a run of the host ends.
LEMMA ApiEnds == ApiInv => A!ApiCleanEnd
BY DEF ApiInv, Leaving, Succeeds, A!ApiCleanEnd
-------------------------------------------------------------------------------
(* ExternalHost: the capabilities that are loaded. *)

Ids == DOMAIN X!Implementations \cup {"missing"}
Binding == [uses : Ids, provides : SUBSET X!RequiredCapabilities]
Tracers == {b \in Binding : b.uses \in {"localTrace", "missing"}}
Normalizers == {b \in Binding : b.uses = "localNormalize"}

Platforms ==
  {<<>>, X!Use("platform"), X!Use("platform") \o X!Use("activate"),
   X!Use("platform") \o X!Use("coworkSurface")}

\* The bindings there can be, for each capability.
LEMMA BindingsAre ==
  ASSUME NEW c \in X!Configs
  PROVE  /\ X!Bindings(c, "control") \in Platforms
         /\ X!Bindings(c, "input") \in {<<>>, X!Use("submit")}
         /\ X!Bindings(c, "completion") \in
              {<<>>, X!Use("missing"), X!Providing("screen", {"trace", "normalize"}),
               X!Providing("localTrace", {"trace"})}
         /\ X!Bindings(c, "trace") = <<>>
         /\ X!Bindings(c, "normalize") \in {<<>>, X!Use("module"), X!Use("localNormalize")}
         /\ c.host # "cowork" => X!Bindings(c, "normalize") \in {<<>>, X!Use("module")}
         /\ c.host = "cowork" => X!Bindings(c, "completion") \in
              {X!Use("missing"), X!Providing("localTrace", {"trace"})}
<1>1. c.host \in {"chat", "cowork", "other"} /\ c.capabilities \in X!Overrides
  BY DEF X!Configs, X!Overrides
<1>2. CASE c.host = "chat"
  <2>1. /\ c.host \in DOMAIN X!Registry
        /\ DOMAIN X!Registry[c.host] = {"control", "input", "completion"}
        /\ X!Registry[c.host]["control"] = X!Use("platform")
        /\ X!Registry[c.host]["input"] = X!Use("submit")
        /\ X!Registry[c.host]["completion"] = X!Providing("screen", {"trace", "normalize"})
    BY <1>2 DEF X!Registry
  <2> QED
    BY <1>1, <1>2, <2>1 DEF X!Overrides, X!Bindings, Platforms
<1>3. CASE c.host = "cowork"
  <2>1. /\ c.host \in DOMAIN X!Registry
        /\ DOMAIN X!Registry[c.host] = {"control", "input", "completion", "normalize"}
        /\ X!Registry[c.host]["control"] = X!Use("platform") \o X!Use("activate")
        /\ X!Registry[c.host]["input"] = X!Use("submit")
        /\ X!Registry[c.host]["completion"] = X!Providing("localTrace", {"trace"})
        /\ X!Registry[c.host]["normalize"] = X!Use("localNormalize")
    BY <1>3 DEF X!Registry
  <2> QED
    BY <1>1, <1>3, <2>1 DEF X!Overrides, X!Bindings, Platforms
<1>4. CASE c.host = "other"
  <2>1. c.host \notin DOMAIN X!Registry
    BY <1>4 DEF X!Registry
  <2> QED
    BY <1>1, <1>4, <2>1 DEF X!Overrides, X!Bindings, Platforms
<1> QED
  BY <1>1, <1>2, <1>3, <1>4

\* What two sequences put together hold.
LEMMA Joined ==
  ASSUME NEW T, NEW bad, NEW x \in Seq(T), NEW y \in Seq(T)
  PROVE  /\ x \o y \in Seq(T) /\ Len(x \o y) = Len(x) + Len(y)
         /\ (\A i \in DOMAIN x : x[i] \notin bad) /\ (\A i \in DOMAIN y : y[i] \notin bad)
              => \A i \in DOMAIN (x \o y) : (x \o y)[i] \notin bad
         /\ \A i \in 1..Len(x) : (x \o y)[i] = x[i]
         /\ y # <<>> => Len(y) >= 1 /\ (x \o y)[Len(x) + 1] = y[1]
         /\ \A i \in DOMAIN (x \o y) :
              i > Len(x) => i - Len(x) \in DOMAIN y /\ (x \o y)[i] = y[i - Len(x)]
<1>1. Len(x) \in Nat /\ Len(y) \in Nat /\ DOMAIN x = 1..Len(x) /\ DOMAIN y = 1..Len(y)
  BY LenProperties
<1>2. /\ x \o y \in Seq(T) /\ Len(x \o y) = Len(x) + Len(y)
      /\ \A i \in 1..(Len(x) + Len(y)) :
           (x \o y)[i] = IF i <= Len(x) THEN x[i] ELSE y[i - Len(x)]
  BY ConcatProperties
<1>3. DOMAIN (x \o y) = 1..(Len(x) + Len(y))
  BY <1>2, LenProperties
<1>4. y # <<>> => Len(y) >= 1
  BY <1>1, EmptySeq
<1>5. \A i \in 1..(Len(x) + Len(y)) : i <= Len(x) \/ i - Len(x) \in 1..Len(y)
  BY <1>1
<1> QED
  BY <1>1, <1>2, <1>3, <1>4, <1>5

\* In a concatenation of five, what follows the third follows its first element.
LEMMA PartsInOrder ==
  ASSUME NEW T, NEW good \in SUBSET T, NEW bad \in SUBSET T,
         NEW a \in Seq(T), NEW b \in Seq(T), NEW c \in Seq(T), NEW d \in Seq(T), NEW e \in Seq(T),
         \A i \in DOMAIN a : a[i] \notin bad,
         \A i \in DOMAIN b : b[i] \notin bad,
         \A i \in DOMAIN c : c[i] \notin bad,
         \A i \in DOMAIN d : d[i] \notin bad,
         \A i \in DOMAIN e : e[i] \in bad => c # <<>> /\ c[1] \in good
  PROVE  \A i \in DOMAIN (a \o b \o c \o d \o e) :
           (a \o b \o c \o d \o e)[i] \in bad =>
             \E j \in 1..(i - 1) : (a \o b \o c \o d \o e)[j] \in good
<1>1. PICK ab \in Seq(T) :
        /\ ab = a \o b
        /\ Len(ab) = Len(a) + Len(b)
        /\ \A i \in DOMAIN ab : ab[i] \notin bad
  <2>1. a \o b \in Seq(T)
    BY Joined
  <2>2. Len(a \o b) = Len(a) + Len(b)
    BY Joined
  <2>3. \A i \in DOMAIN (a \o b) : (a \o b)[i] \notin bad
    BY Joined
  <2> QED
    BY <2>1, <2>2, <2>3
<1>2. PICK abc \in Seq(T) :
        /\ abc = ab \o c
        /\ Len(abc) = Len(ab) + Len(c)
        /\ \A i \in DOMAIN abc : abc[i] \notin bad
        /\ c # <<>> => Len(c) >= 1 /\ abc[Len(ab) + 1] = c[1]
  <2>1. ab \o c \in Seq(T)
    BY <1>1, Joined
  <2>2. Len(ab \o c) = Len(ab) + Len(c)
    BY <1>1, Joined
  <2>3. \A i \in DOMAIN (ab \o c) : (ab \o c)[i] \notin bad
    BY <1>1, Joined
  <2>4. c # <<>> => Len(c) >= 1 /\ (ab \o c)[Len(ab) + 1] = c[1]
    BY <1>1, Joined
  <2> QED
    BY <2>1, <2>2, <2>3, <2>4
<1>3. PICK abcd \in Seq(T) :
        /\ abcd = abc \o d
        /\ Len(abcd) = Len(abc) + Len(d)
        /\ \A i \in DOMAIN abcd : abcd[i] \notin bad
        /\ \A i \in 1..Len(abc) : abcd[i] = abc[i]
  <2>1. abc \o d \in Seq(T)
    BY <1>2, Joined
  <2>2. Len(abc \o d) = Len(abc) + Len(d)
    BY <1>2, Joined
  <2>3. \A i \in DOMAIN (abc \o d) : (abc \o d)[i] \notin bad
    BY <1>2, Joined
  <2>4. \A i \in 1..Len(abc) : (abc \o d)[i] = abc[i]
    BY <1>2, Joined
  <2> QED
    BY <2>1, <2>2, <2>3, <2>4
<1>4. PICK all \in Seq(T) :
        /\ all = abcd \o e
        /\ Len(all) = Len(abcd) + Len(e)
        /\ \A i \in 1..Len(abcd) : all[i] = abcd[i]
        /\ \A i \in DOMAIN all :
             i > Len(abcd) => i - Len(abcd) \in DOMAIN e /\ all[i] = e[i - Len(abcd)]
  <2>1. abcd \o e \in Seq(T)
    BY <1>3, Joined
  <2>2. Len(abcd \o e) = Len(abcd) + Len(e)
    BY <1>3, Joined
  <2>3. \A i \in 1..Len(abcd) : (abcd \o e)[i] = abcd[i]
    BY <1>3, Joined
  <2>4. \A i \in DOMAIN (abcd \o e) :
          i > Len(abcd) => i - Len(abcd) \in DOMAIN e /\ (abcd \o e)[i] = e[i - Len(abcd)]
    BY <1>3, Joined
  <2> QED
    BY <2>1, <2>2, <2>3, <2>4
<1>5. /\ Len(ab) \in Nat /\ Len(abc) \in Nat /\ Len(abcd) \in Nat /\ Len(e) \in Nat /\ Len(c) \in Nat
      /\ Len(d) \in Nat /\ DOMAIN all = 1..Len(all) /\ DOMAIN abcd = 1..Len(abcd)
  BY <1>1, <1>2, <1>3, <1>4, LenProperties
<1>6. c # <<>> =>
        /\ Len(ab) + 1 \in 1..Len(abc) /\ Len(ab) + 1 \in 1..Len(abcd)
        /\ Len(ab) + 1 \in DOMAIN all
  BY <1>2, <1>3, <1>4, <1>5
<1>7. c # <<>> => all[Len(ab) + 1] = c[1]
  BY <1>2, <1>3, <1>4, <1>6
<1>8. ASSUME NEW i \in DOMAIN all, all[i] \in bad
      PROVE  \E j \in 1..(i - 1) : all[j] \in good
  <2>1. ~(i \in 1..Len(abcd)) /\ i \in 1..Len(all)
    BY <1>3, <1>4, <1>5, <1>8
  <2>2. i > Len(abcd)
    BY <1>5, <2>1
  <2>3. c # <<>> /\ c[1] \in good
    BY <1>4, <1>8, <2>2
  <2>4. Len(ab) + 1 \in 1..(i - 1)
    BY <1>5, <1>6, <2>1, <2>2, <2>3
  <2> QED
    BY <1>7, <2>3, <2>4
<1> QED
  BY <1>1, <1>2, <1>3, <1>4, <1>6, <1>7, <1>8

\* One binding makes a sequence of one.
LEMMA OneBinding ==
  ASSUME NEW id \in Ids, NEW more \in SUBSET X!RequiredCapabilities
  PROVE  /\ X!Use(id) \in Seq(Binding) /\ X!Providing(id, more) \in Seq(Binding)
         /\ Len(X!Use(id)) = 1 /\ Len(X!Providing(id, more)) = 1
         /\ X!Use(id)[1].uses = id /\ X!Providing(id, more)[1].uses = id
         /\ X!Use(id)[1] \in Binding /\ X!Providing(id, more)[1] \in Binding
<1>1. [uses |-> id, provides |-> {}] \in Binding /\ [uses |-> id, provides |-> more] \in Binding
  BY DEF Binding
<1> DEFINE u == [uses |-> id, provides |-> {}]
           p == [uses |-> id, provides |-> more]
<1>2. u.uses = id /\ p.uses = id /\ u \in Binding /\ p \in Binding
  BY <1>1
<1>3. X!Use(id) = <<u>> /\ X!Providing(id, more) = <<p>>
  BY DEF X!Use, X!Providing
<1> HIDE DEF u, p
<1>4. /\ <<u>> \in Seq(Binding) /\ Len(<<u>>) = 1 /\ <<u>>[1] = u
      /\ <<p>> \in Seq(Binding) /\ Len(<<p>>) = 1 /\ <<p>>[1] = p
  BY <1>2
<1> QED
  BY <1>2, <1>3, <1>4

\* The bindings of each capability, seen from the trace.
LEMMA PartsAre ==
  ASSUME NEW c \in X!Configs
  PROVE  /\ \A capability \in X!RequiredCapabilities : X!Bindings(c, capability) \in Seq(Binding)
         /\ \A capability \in {"control", "input", "completion", "trace"} :
              \A i \in DOMAIN X!Bindings(c, capability) :
                X!Bindings(c, capability)[i] \notin Normalizers
         /\ \A i \in DOMAIN X!Bindings(c, "normalize") :
              X!Bindings(c, "normalize")[i] \in Normalizers =>
                /\ X!Bindings(c, "completion") # <<>>
                /\ X!Bindings(c, "completion")[1] \in Tracers
<1>1. /\ "control" \in X!RequiredCapabilities /\ "input" \in X!RequiredCapabilities
      /\ {"trace", "normalize"} \subseteq X!RequiredCapabilities
      /\ {"trace"} \subseteq X!RequiredCapabilities
  BY DEF X!RequiredCapabilities
<1> DEFINE Single(s, id) == /\ s \in Seq(Binding) /\ Len(s) = 1 /\ s[1].uses = id
                            /\ s[1] \in Binding
           Quiet(s) == \A i \in DOMAIN s : s[i] \notin Normalizers
<1>2. ASSUME NEW s, NEW id, Single(s, id), id # "localNormalize"
      PROVE  Quiet(s)
  BY <1>2, LenProperties DEF Normalizers
<1>3. <<>> \in Seq(Binding) /\ Quiet(<<>>) /\ Len(<<>>) = 0
  BY EmptySeq
<1>4. /\ \A id \in Ids : Single(X!Use(id), id)
      /\ \A id \in Ids, more \in SUBSET X!RequiredCapabilities :
           Single(X!Providing(id, more), id)
  BY OneBinding
<1>5. ASSUME NEW s \in Seq(Binding), NEW t \in Seq(Binding), Quiet(s), Quiet(t)
      PROVE  s \o t \in Seq(Binding) /\ Quiet(s \o t)
  BY <1>5, Joined
<1>6. \A s, id : Single(s, id) => s \in Seq(Binding) /\ Len(s) = 1 /\ s[1].uses = id
                                  /\ s[1] \in Binding
  OBVIOUS
<1>7. \A s : Quiet(s) => \A i \in DOMAIN s : s[i] \notin Normalizers
  OBVIOUS
<1> HIDE DEF Single, Quiet
<1>8. /\ Single(X!Use("platform"), "platform") /\ Single(X!Use("activate"), "activate")
      /\ Single(X!Use("coworkSurface"), "coworkSurface") /\ Single(X!Use("submit"), "submit")
      /\ Single(X!Use("missing"), "missing") /\ Single(X!Use("module"), "module")
      /\ Single(X!Use("localNormalize"), "localNormalize")
      /\ Single(X!Providing("screen", {"trace", "normalize"}), "screen")
      /\ Single(X!Providing("localTrace", {"trace"}), "localTrace")
  <2>1. {"trace", "normalize"} \in SUBSET X!RequiredCapabilities
        /\ {"trace"} \in SUBSET X!RequiredCapabilities
    BY <1>1
  <2>2. /\ "platform" \in Ids /\ "activate" \in Ids /\ "coworkSurface" \in Ids
        /\ "submit" \in Ids /\ "missing" \in Ids /\ "module" \in Ids
        /\ "localNormalize" \in Ids /\ "screen" \in Ids /\ "localTrace" \in Ids
    BY DEF Ids, X!Implementations
  <2> QED
    BY <1>4, <2>1, <2>2
<1>9. /\ Quiet(X!Use("platform")) /\ Quiet(X!Use("activate")) /\ Quiet(X!Use("coworkSurface"))
      /\ Quiet(X!Use("submit")) /\ Quiet(X!Use("missing")) /\ Quiet(X!Use("module"))
      /\ Quiet(X!Providing("screen", {"trace", "normalize"}))
      /\ Quiet(X!Providing("localTrace", {"trace"}))
  BY <1>2, <1>8
<1>10. \A s \in Platforms : s \in Seq(Binding) /\ Quiet(s)
  BY <1>3, <1>5, <1>6, <1>8, <1>9 DEF Platforms
<1>11. ASSUME NEW capability \in {"control", "input", "completion", "trace"}
       PROVE  X!Bindings(c, capability) \in Seq(Binding) /\ Quiet(X!Bindings(c, capability))
  BY <1>3, <1>6, <1>8, <1>9, <1>10, BindingsAre
<1>12. X!Bindings(c, "normalize") \in Seq(Binding)
  BY <1>3, <1>6, <1>8, BindingsAre
<1>13. ASSUME NEW i \in DOMAIN X!Bindings(c, "normalize"),
              X!Bindings(c, "normalize")[i] \in Normalizers
       PROVE  /\ X!Bindings(c, "completion") # <<>>
              /\ X!Bindings(c, "completion")[1] \in Tracers
  <2>1. ~Quiet(X!Bindings(c, "normalize"))
    BY <1>7, <1>13
  <2>2. c.host = "cowork"
    BY <1>3, <1>9, <2>1, BindingsAre
  <2>3. X!Bindings(c, "completion") \in {X!Use("missing"), X!Providing("localTrace", {"trace"})}
    BY <2>2, BindingsAre
  <2>4. \E id \in {"missing", "localTrace"} : Single(X!Bindings(c, "completion"), id)
    BY <1>8, <2>3
  <2> QED
    BY <1>3, <1>6, <2>4 DEF Tracers
<1>14. X!RequiredCapabilities = {"control", "input", "completion", "trace", "normalize"}
  BY DEF X!RequiredCapabilities
<1> QED
  BY <1>7, <1>11, <1>12, <1>13, <1>14

\* A trace is loaded before what normalizes it, whatever is declared: a configuration without
\* it does not load.
LEMMA TraceBeforeNormalizer ==
  ASSUME NEW c \in X!Configs, X!Loads(c)
  PROVE  /\ X!LoadedBindings(c) \in Seq(Binding)
         /\ \A i \in DOMAIN X!LoadedBindings(c) :
              X!LoadedBindings(c)[i].uses = "localNormalize" =>
                \E j \in 1..(i - 1) : X!LoadedBindings(c)[j].uses = "localTrace"
<1>1. PICK control \in Seq(Binding), input \in Seq(Binding), completion \in Seq(Binding),
           traces \in Seq(Binding), normalize \in Seq(Binding) :
        /\ control = X!Bindings(c, "control") /\ input = X!Bindings(c, "input")
        /\ completion = X!Bindings(c, "completion") /\ traces = X!Bindings(c, "trace")
        /\ normalize = X!Bindings(c, "normalize")
  BY PartsAre DEF X!RequiredCapabilities
<1>2. X!LoadedBindings(c) = control \o input \o completion \o traces \o normalize
  BY <1>1 DEF X!LoadedBindings
<1>3. PICK all : all = control \o input \o completion \o traces \o normalize
  OBVIOUS
<1>4. all \in Seq(Binding)
  BY <1>3, ConcatProperties
<1>5. /\ \A i \in DOMAIN control : control[i] \notin Normalizers
      /\ \A i \in DOMAIN input : input[i] \notin Normalizers
      /\ \A i \in DOMAIN completion : completion[i] \notin Normalizers
      /\ \A i \in DOMAIN traces : traces[i] \notin Normalizers
  BY <1>1, PartsAre
<1>6. \A i \in DOMAIN normalize : normalize[i] \in Normalizers =>
        completion # <<>> /\ completion[1] \in Tracers
  BY <1>1, PartsAre
<1>7. \A i \in DOMAIN all : all[i] \in Normalizers =>
        \E j \in 1..(i - 1) : all[j] \in Tracers
  <2>1. Normalizers \in SUBSET Binding /\ Tracers \in SUBSET Binding
    BY DEF Normalizers, Tracers
  <2> QED
    BY <1>3, <1>5, <1>6, <2>1, PartsInOrder
<1>8. \A j \in DOMAIN all : all[j] \in Binding /\ all[j].uses # "missing"
  <2>1. \A j \in DOMAIN all : all[j] \in Binding
    BY <1>4
  <2>2. \A j \in DOMAIN all : all[j].uses \in DOMAIN X!Implementations
    BY <1>2, <1>3 DEF X!Loads, X!Available, X!ToSet
  <2> QED
    BY <2>1, <2>2 DEF X!Implementations
<1>9. \A i \in DOMAIN all : \A j \in 1..(i - 1) : j \in DOMAIN all
  BY <1>4, LenProperties
<1>10. ASSUME NEW i \in DOMAIN all, all[i].uses = "localNormalize"
       PROVE  \E j \in 1..(i - 1) : all[j].uses = "localTrace"
  <2>1. all[i] \in Normalizers
    BY <1>8, <1>10 DEF Normalizers
  <2>2. PICK j \in 1..(i - 1) : all[j] \in Tracers
    BY <1>7, <2>1
  <2>3. all[j].uses # "missing"
    BY <1>8, <1>9
  <2> QED
    BY <2>2, <2>3 DEF Tracers
<1> QED
  BY <1>2, <1>3, <1>4, <1>10
-------------------------------------------------------------------------------
(* ExternalHost: the sessions only grow, and by nothing but what is on the clipboard. *)

Parties == X!Runs \cup {X!User}
Events == [kind : {"prompt", "result"}, by : Parties]

AppTypeOK ==
  /\ sessions \in Seq(Seq(Events))
  /\ \A s \in DOMAIN sessions : sessions[s] # <<>>
  /\ current \in 0..Len(sessions)
  /\ clipboard \in Parties

\* Event i of session s was there before.
Old(s, i) == s \in DOMAIN sessions /\ i \in 1..Len(sessions[s])

\* Nothing is lost, and a prompt that is new is one of this party.
Added(by) ==
  /\ \A s \in DOMAIN sessions :
       /\ s \in DOMAIN sessions' /\ Len(sessions[s]) <= Len(sessions'[s])
       /\ \A i \in 1..Len(sessions[s]) : sessions'[s][i] = sessions[s][i]
  /\ \A s \in DOMAIN sessions' : \A i \in 1..Len(sessions'[s]) :
       Old(s, i) \/ sessions'[s][i].kind # "prompt" \/ sessions'[s][i].by = by

\* The parties, and the user is no run.
LEMMA PartiesAre == \A r \in X!Runs : r \in Parties /\ r # X!User /\ r \in Nat
BY NumRunsAssumption DEF Parties, X!Runs, X!User

\* An event of a party is an event.
LEMMA EventsAre ==
  \A by \in Parties :
    /\ X!Event("prompt", by) \in Events /\ X!Event("prompt", by).by = by
    /\ X!Event("result", by) \in Events /\ X!Event("result", by).kind # "prompt"
BY DEF X!Event, Events

\* What the sessions hold.
LEMMA SessionFacts ==
  ASSUME NEW logs \in Seq(Seq(Events))
  PROVE  /\ Len(logs) \in Nat /\ DOMAIN logs = 1..Len(logs)
         /\ \A s \in DOMAIN logs :
              /\ logs[s] \in Seq(Events) /\ Len(logs[s]) \in Nat
              /\ DOMAIN logs[s] = 1..Len(logs[s])
              /\ \A i \in 1..Len(logs[s]) : logs[s][i] \in Events
BY LenProperties

\* A run's prompt is in a session when one of the events is it.
LEMMA Prompted ==
  ASSUME sessions \in Seq(Seq(Events)), NEW r
  PROVE  \A s \in DOMAIN sessions :
           X!PromptedBy(r, s) <=> \E i \in 1..Len(sessions[s]) : X!IsPromptOf(r, sessions[s][i])
BY SessionFacts DEF X!PromptedBy, X!ToSet

\* The same of the sessions after a step.
LEMMA PromptedNext ==
  ASSUME sessions' \in Seq(Seq(Events)), NEW r
  PROVE  \A s \in DOMAIN sessions' :
           X!PromptedBy(r, s)' <=>
             \E i \in 1..Len(sessions'[s]) : X!IsPromptOf(r, sessions'[s][i])
BY SessionFacts DEF X!PromptedBy, X!ToSet, X!IsPromptOf

\* An event is put at the end of a session.
LEMMA EventAdded ==
  ASSUME AppTypeOK, NEW s \in DOMAIN sessions, NEW e \in Events, NEW by,
         sessions' = [sessions EXCEPT ![s] = Append(@, e)],
         e.kind # "prompt" \/ e.by = by
  PROVE  /\ Added(by) /\ sessions' \in Seq(Seq(Events)) /\ Len(sessions') = Len(sessions)
         /\ \A t \in DOMAIN sessions' : sessions'[t] # <<>>
<1> USE DEF AppTypeOK
<1>1. PICK log \in Seq(Events) : log = sessions[s]
  BY SessionFacts
<1>2. PICK longer \in Seq(Events) :
        /\ longer = Append(log, e) /\ Len(longer) = Len(log) + 1 /\ Len(log) \in Nat
        /\ \A i \in 1..Len(log) : longer[i] = log[i]
        /\ longer[Len(log) + 1] = e /\ longer # <<>>
  BY AppendProperties, LenProperties
<1>3. sessions' = [sessions EXCEPT ![s] = longer]
  BY <1>1, <1>2
<1>4. sessions' \in Seq(Seq(Events)) /\ Len(sessions') = Len(sessions)
      /\ DOMAIN sessions' = DOMAIN sessions
  BY <1>3, ExceptSeq
<1>5. \A t \in DOMAIN sessions : sessions'[t] = IF t = s THEN longer ELSE sessions[t]
  BY <1>3
<1>6. \A t \in DOMAIN sessions : Len(sessions[t]) \in Nat
  BY SessionFacts
<1>7. \A t \in DOMAIN sessions' : sessions'[t] # <<>>
  BY <1>2, <1>4, <1>5
<1>8. \A t \in DOMAIN sessions :
        /\ Len(sessions[t]) <= Len(sessions'[t])
        /\ \A i \in 1..Len(sessions[t]) : sessions'[t][i] = sessions[t][i]
  BY <1>1, <1>2, <1>5, <1>6
<1>9. ASSUME NEW t \in DOMAIN sessions', NEW i \in 1..Len(sessions'[t]), ~Old(t, i)
      PROVE  sessions'[t][i] = e
  <2>1. t = s
    BY <1>4, <1>5, <1>9 DEF Old
  <2>2. i \in 1..(Len(log) + 1) /\ ~(i \in 1..Len(log))
    BY <1>1, <1>2, <1>4, <1>5, <1>9, <2>1 DEF Old
  <2>3. Len(log) \in Nat
    BY <1>2
  <2>4. i = Len(log) + 1
    BY <2>2, <2>3
  <2> QED
    BY <1>2, <1>4, <1>5, <2>1, <2>4
<1> QED
  BY <1>4, <1>7, <1>8, <1>9 DEF Added

\* A prompt goes into a session of its own, or at the end of one.
LEMMA PromptAdds ==
  ASSUME AppTypeOK, NEW by \in Parties, NEW c \in 0..Len(sessions), X!Prompt(by, c),
         clipboard' \in Parties
  PROVE  Added(by) /\ AppTypeOK'
<1> USE DEF AppTypeOK
<1>1. Len(sessions) \in Nat /\ DOMAIN sessions = 1..Len(sessions)
  BY SessionFacts
<1>2. X!Event("prompt", by) \in Events /\ X!Event("prompt", by).by = by
  BY EventsAre
<1>3. CASE c = 0
  <2>1. sessions' = Append(sessions, <<X!Event("prompt", by)>>) /\ current' = Len(sessions) + 1
    BY <1>3 DEF X!Prompt
  <2>2. PICK e \in Events : e = X!Event("prompt", by) /\ e.by = by
    BY <1>2
  <2>3. PICK log \in Seq(Events) : log = <<e>> /\ Len(log) = 1 /\ log[1] = e /\ log # <<>>
    <3>1. <<e>> \in Seq(Events) /\ Len(<<e>>) = 1 /\ <<e>>[1] = e /\ <<e>> # <<>>
      OBVIOUS
    <3> QED
      BY <3>1
  <2>4. sessions' = Append(sessions, log)
    BY <2>1, <2>2, <2>3
  <2>5. /\ sessions' \in Seq(Seq(Events)) /\ Len(sessions') = Len(sessions) + 1
        /\ \A t \in 1..Len(sessions) : sessions'[t] = sessions[t]
        /\ sessions'[Len(sessions) + 1] = log
        /\ DOMAIN sessions' = 1..(Len(sessions) + 1)
    BY <2>4, AppendProperties, LenProperties
  <2>6. \A t \in DOMAIN sessions : Len(sessions[t]) \in Nat /\ t \in DOMAIN sessions'
                                   /\ sessions'[t] = sessions[t]
    BY <1>1, <2>5, SessionFacts
  <2>7. \A t \in DOMAIN sessions' : t \in DOMAIN sessions \/ sessions'[t] = log
    BY <1>1, <2>5
  <2>8. ASSUME NEW t \in DOMAIN sessions', NEW i \in 1..Len(sessions'[t]), ~Old(t, i)
        PROVE  sessions'[t][i] = e
    <3>1. sessions'[t] = log
      BY <2>6, <2>7, <2>8 DEF Old
    <3> QED
      BY <2>3, <3>1
  <2>9. Added(by)
    BY <2>2, <2>6, <2>8 DEF Added
  <2>10. current' \in 0..Len(sessions') /\ \A t \in DOMAIN sessions' : sessions'[t] # <<>>
    BY <1>1, <2>1, <2>3, <2>5, <2>6, <2>7
  <2> QED
    BY <2>5, <2>9, <2>10
<1>4. CASE c # 0
  <2>1. c \in DOMAIN sessions
    BY <1>1, <1>4
  <2>2. sessions' = [sessions EXCEPT ![c] = Append(@, X!Event("prompt", by))] /\ current' = c
    BY <1>4 DEF X!Prompt
  <2> QED
    BY <1>2, <2>1, <2>2, EventAdded
<1> QED
  BY <1>3, <1>4

\* An answer is no prompt.
LEMMA AnswerAdds ==
  ASSUME AppTypeOK, NEW s \in DOMAIN sessions, X!Answers(s)
  PROVE  Added(X!User) /\ AppTypeOK'
<1> USE DEF AppTypeOK
<1>1. PICK log \in Seq(Events) : log = sessions[s] /\ log # <<>>
  BY SessionFacts
<1>2. log[Len(log)] \in Events
  BY <1>1, LenProperties, EmptySeq
<1>3. X!Last(log).by \in Parties
  BY <1>2 DEF X!Last, Events
<1>4. PICK e \in Events : e = X!Event("result", X!Last(log).by) /\ e.kind # "prompt"
  BY <1>3, EventsAre
<1>5. sessions' = [sessions EXCEPT ![s] = Append(@, e)]
  BY <1>1, <1>4 DEF X!Answers
<1> QED
  BY <1>4, <1>5, EventAdded DEF X!Answers
-------------------------------------------------------------------------------
(* ExternalHost: what a run knows of the sessions. *)

InPass == {"run", "script", "composer"}

DriverTypeOK ==
  /\ hostConfig \in X!Configs
  /\ runPhase \in [X!Runs -> {"idle", "setup", "done"} \cup InPass]
  /\ next \in [X!Runs -> Nat \ {0}]
  /\ DOMAIN snapshot = X!Runs /\ DOMAIN trace = X!Runs

\* What is loaded holds a trace before what normalizes it.
TraceFirst ==
  X!Loads(hostConfig) =>
    \A i \in DOMAIN loaded :
      loaded[i] = "localNormalize" => \E j \in 1..(i - 1) : loaded[j] = "localTrace"

\* An event of a session that comes after a prompt of the run, if runs have markers.
Confirmed(r, s, event) ==
  /\ s \in DOMAIN sessions /\ event \in 1..Len(sessions[s])
  /\ hostConfig.marked => \E i \in 1..(event - 1) : X!IsPromptOf(r, sessions[s][i])

GoodOutcome ==
  LET report == runOutcome.result
  IN report.success /\ report.confidence = "high" =>
       hostConfig.marked /\ Confirmed(runOutcome.run, report.session, report.answer)

\* The snapshot was taken before the prompt of the run was in the session.
Snapped(r) ==
  \A s \in DOMAIN snapshot[r] :
    /\ s \in DOMAIN sessions
    /\ snapshot[r][s] \in Nat /\ snapshot[r][s] <= Len(sessions[s])
    /\ X!PromptedBy(r, s) => snapshot[r][s] < Len(sessions[s])

\* Before its snapshot a run has written nothing.
Untold(r) ==
  runPhase[r] \in {"idle", "setup"} =>
    /\ next[r] = 1 /\ clipboard # r
    /\ \A s \in DOMAIN sessions : ~X!PromptedBy(r, s)

\* What the passes over the capabilities have brought.
Passed(r) ==
  /\ runPhase[r] \in InPass \cup {"setup"} => X!Loads(hostConfig)
  /\ runPhase[r] \in {"script", "composer"} =>
       next[r] \in DOMAIN loaded /\ loaded[next[r]] = "submit"
  /\ runPhase[r] \in InPass /\ (\E j \in 1..(next[r] - 1) : loaded[j] = "localTrace") =>
       Confirmed(r, trace[r].session, trace[r].result)

RunInv(r) == Snapped(r) /\ Untold(r) /\ Passed(r)

DesktopInv ==
  /\ AppTypeOK /\ DriverTypeOK /\ TraceFirst /\ GoodOutcome
  /\ \A r \in X!Runs : RunInv(r)

\* What was confirmed stays so while sessions grow.
LEMMA ConfirmedStays ==
  ASSUME NEW r, NEW s, NEW event, Confirmed(r, s, event), NEW by, Added(by),
         AppTypeOK, AppTypeOK', UNCHANGED hostConfig
  PROVE  Confirmed(r, s, event)'
<1>1. /\ s \in DOMAIN sessions /\ event \in 1..Len(sessions[s])
      /\ s \in DOMAIN sessions' /\ Len(sessions[s]) <= Len(sessions'[s])
      /\ \A i \in 1..Len(sessions[s]) : sessions'[s][i] = sessions[s][i]
  BY DEF Confirmed, Added
<1>2. Len(sessions[s]) \in Nat
  BY <1>1, SessionFacts DEF AppTypeOK
<1>3. Len(sessions'[s]) \in Nat
  BY <1>1, SessionFacts DEF AppTypeOK
<1>4. event \in 1..Len(sessions'[s]) /\ \A i \in 1..(event - 1) : i \in 1..Len(sessions[s])
  BY <1>1, <1>2, <1>3
<1> QED
  BY <1>1, <1>4 DEF Confirmed, X!IsPromptOf

\* A prompt that appears in a session is one of who wrote, and makes the session longer.
LEMMA NewPrompts ==
  ASSUME AppTypeOK, AppTypeOK', NEW r, NEW by, Added(by),
         NEW s \in DOMAIN sessions', X!PromptedBy(r, s)'
  PROVE  \/ s \in DOMAIN sessions /\ X!PromptedBy(r, s)
         \/ by = r /\ \E i \in 1..Len(sessions'[s]) : ~Old(s, i)
<1>1. PICK i \in 1..Len(sessions'[s]) : X!IsPromptOf(r, sessions'[s][i])
  BY PromptedNext DEF AppTypeOK
<1>2. CASE Old(s, i)
  <2>1. s \in DOMAIN sessions /\ i \in 1..Len(sessions[s]) /\ sessions'[s][i] = sessions[s][i]
    BY <1>2 DEF Old, Added
  <2> QED
    BY <1>1, <2>1, Prompted DEF AppTypeOK
<1>3. CASE ~Old(s, i)
  <2>1. sessions'[s][i].by = by
    BY <1>1, <1>3 DEF Added, X!IsPromptOf
  <2> QED
    BY <1>1, <1>3, <2>1 DEF X!IsPromptOf
<1> QED
  BY <1>2, <1>3

\* A snapshot stays what it is while sessions grow.
LEMMA SnappedStays ==
  ASSUME AppTypeOK, AppTypeOK', NEW r, NEW by, Added(by), Snapped(r), UNCHANGED snapshot[r]
  PROVE  Snapped(r)'
<1> SUFFICES ASSUME NEW s \in DOMAIN snapshot'[r]
             PROVE  /\ s \in DOMAIN sessions'
                    /\ snapshot'[r][s] \in Nat /\ snapshot'[r][s] <= Len(sessions'[s])
                    /\ X!PromptedBy(r, s)' => snapshot'[r][s] < Len(sessions'[s])
  BY DEF Snapped
<1>1. /\ s \in DOMAIN sessions /\ snapshot'[r][s] = snapshot[r][s]
      /\ snapshot[r][s] \in Nat /\ snapshot[r][s] <= Len(sessions[s])
      /\ X!PromptedBy(r, s) => snapshot[r][s] < Len(sessions[s])
  BY DEF Snapped
<1>2. s \in DOMAIN sessions' /\ Len(sessions[s]) <= Len(sessions'[s])
  BY <1>1 DEF Added
<1>3. Len(sessions[s]) \in Nat /\ Len(sessions'[s]) \in Nat
  BY <1>1, <1>2, SessionFacts DEF AppTypeOK
<1>4. ASSUME X!PromptedBy(r, s)' PROVE snapshot[r][s] < Len(sessions'[s])
  <2>1. CASE X!PromptedBy(r, s)
    BY <1>1, <1>2, <1>3, <2>1
  <2>2. CASE \E i \in 1..Len(sessions'[s]) : ~Old(s, i)
    <3>1. PICK i \in 1..Len(sessions'[s]) : ~(i \in 1..Len(sessions[s]))
      BY <1>1, <2>2 DEF Old
    <3> QED
      BY <1>1, <1>3, <3>1
  <2> QED
    BY NewPrompts, <1>2, <1>4, <2>1, <2>2
<1> QED
  BY <1>1, <1>2, <1>3, <1>4

\* A run keeps what it knows while others move, and the app.
LEMMA RunStays ==
  ASSUME DesktopInv, AppTypeOK', NEW r \in X!Runs, NEW by, Added(by),
         by = clipboard \/ by = X!User,
         clipboard' = clipboard \/ clipboard' # r,
         UNCHANGED <<hostConfig, loaded, runPhase[r], next[r], snapshot[r], trace[r]>>
  PROVE  RunInv(r)'
<1> USE DEF DesktopInv
<1>2. Snapped(r)'
  BY SnappedStays DEF RunInv
<1>3. Untold(r)'
  <2> SUFFICES ASSUME runPhase'[r] \in {"idle", "setup"}
               PROVE  /\ next'[r] = 1 /\ clipboard' # r
                      /\ \A s \in DOMAIN sessions' : ~X!PromptedBy(r, s)'
    BY DEF Untold
  <2>1. /\ next[r] = 1 /\ clipboard # r
        /\ \A s \in DOMAIN sessions : ~X!PromptedBy(r, s)
    BY DEF RunInv, Untold
  <2>2. by # r
    BY <2>1, PartiesAre
  <2> QED
    BY <2>1, <2>2, NewPrompts
<1>4. Passed(r)'
  <2>1. /\ UNCHANGED <<runPhase[r], next[r], trace[r], loaded>>
        /\ X!Loads(hostConfig)' = X!Loads(hostConfig)
    BY DEF X!Loads, X!Available, X!Provided, X!LoadedBindings, X!Bindings
  <2>2. Passed(r)
    BY DEF RunInv
  <2>3. ASSUME runPhase'[r] \in InPass, \E j \in 1..(next'[r] - 1) : loaded'[j] = "localTrace"
        PROVE  Confirmed(r, trace[r].session, trace[r].result)'
    <3>1. Confirmed(r, trace[r].session, trace[r].result)
      BY <2>1, <2>2, <2>3 DEF Passed
    <3>2. PICK s, event : s = trace[r].session /\ event = trace[r].result
      OBVIOUS
    <3>3. Confirmed(r, s, event)'
      BY <3>1, <3>2, ConfirmedStays
    <3>4. s = trace[r].session' /\ event = trace[r].result'
      BY <2>1, <3>2
    <3> QED
      BY <3>3, <3>4 DEF Confirmed
  <2> QED
    BY <2>1, <2>2, <2>3 DEF Passed
<1> QED
  BY <1>2, <1>3, <1>4 DEF RunInv

\* The sessions as they are hold nothing new.
LEMMA Unmoved ==
  ASSUME AppTypeOK, UNCHANGED sessions
  PROVE  Added(X!User)
<1>1. \A s \in DOMAIN sessions : Len(sessions[s]) \in Nat
  BY SessionFacts DEF AppTypeOK
<1> QED
  BY <1>1 DEF Added, Old

\* One run moves, or none; the others and the last outcome stay what they are.
LEMMA OneMoves ==
  ASSUME DesktopInv, NEW r, NEW by, Added(by), by = clipboard \/ by = X!User,
         AppTypeOK', DriverTypeOK',
         clipboard' \in {clipboard, r, X!User},
         UNCHANGED <<hostConfig, loaded, runOutcome>>,
         \A q \in X!Runs \ {r} : UNCHANGED <<runPhase[q], next[q], snapshot[q], trace[q]>>,
         r \in X!Runs => RunInv(r)'
  PROVE  DesktopInv'
<1>1. ASSUME NEW q \in X!Runs \ {r} PROVE RunInv(q)'
  <2>1. clipboard' = clipboard \/ clipboard' # q
    BY PartiesAre
  <2> QED
    BY <2>1, RunStays
<1>2. GoodOutcome'
  <2> SUFFICES ASSUME runOutcome.result.success, runOutcome.result.confidence = "high"
               PROVE  /\ hostConfig.marked
                      /\ Confirmed(runOutcome.run, runOutcome.result.session,
                                   runOutcome.result.answer)'
    BY DEF GoodOutcome
  <2>1. PICK q, s, event :
          q = runOutcome.run /\ s = runOutcome.result.session /\ event = runOutcome.result.answer
    OBVIOUS
  <2>2. hostConfig.marked /\ Confirmed(q, s, event)
    BY <2>1 DEF DesktopInv, GoodOutcome
  <2>3. Confirmed(q, s, event)'
    BY <2>2, ConfirmedStays DEF DesktopInv
  <2> QED
    BY <2>1, <2>2, <2>3 DEF Confirmed
<1>3. TraceFirst'
  BY DEF DesktopInv, TraceFirst, X!Loads, X!Available, X!Provided, X!LoadedBindings, X!Bindings
<1> QED
  BY <1>1, <1>2, <1>3 DEF DesktopInv

\* A run that is over knows nothing, and its result is as good as it says.
LEMMA FinishKeeps ==
  ASSUME DesktopInv, NEW r \in X!Runs, NEW report, X!Finish(r, report), UNCHANGED <<X!host, X!app>>,
         report.success /\ report.confidence = "high" =>
           hostConfig.marked /\ Confirmed(r, report.session, report.answer)
  PROVE  DesktopInv'
<1> USE DEF X!host, X!app
<1>1. AppTypeOK' /\ Added(X!User)
  BY Unmoved DEF DesktopInv, AppTypeOK
<1>2. /\ DriverTypeOK' /\ runPhase'[r] = "done" /\ next'[r] = 1
      /\ snapshot'[r] = <<>> /\ trace'[r] = <<>>
      /\ runOutcome' = [run |-> r, result |-> report]
      /\ \A q \in X!Runs \ {r} : UNCHANGED <<runPhase[q], next[q], snapshot[q], trace[q]>>
  BY DEF DesktopInv, DriverTypeOK, X!Finish
<1>3. RunInv(r)'
  BY <1>2 DEF RunInv, Snapped, Untold, Passed, InPass
<1>4. ASSUME NEW q \in X!Runs \ {r} PROVE RunInv(q)'
  BY <1>1, <1>2, RunStays
<1>5. GoodOutcome'
  BY <1>2 DEF GoodOutcome, Confirmed, X!IsPromptOf
<1>6. TraceFirst'
  BY DEF DesktopInv, TraceFirst, X!Loads, X!Available, X!Provided, X!LoadedBindings, X!Bindings
<1> QED
  BY <1>1, <1>2, <1>3, <1>4, <1>5, <1>6 DEF DesktopInv

\* A failure claims nothing.
LEMMA FailureKeeps ==
  ASSUME DesktopInv, NEW r \in X!Runs, NEW kind, X!Finish(r, X!Failure(kind)),
         UNCHANGED <<X!host, X!app>>
  PROVE  DesktopInv'
<1>1. ~X!Failure(kind).success
  BY DEF X!Failure
<1> QED
  BY <1>1, FinishKeeps

\* The next capability, after one that took no trace.
LEMMA ProceedKeeps ==
  ASSUME DesktopInv, NEW r \in X!Runs, X!Proceed(r), NEW by, Added(by), AppTypeOK',
         by = clipboard \/ by = X!User,
         UNCHANGED <<X!host, trace, clipboard>>,
         runPhase[r] \in InPass, loaded[next[r]] # "localTrace"
  PROVE  DesktopInv'
<1> USE DEF X!host
<1>1. /\ DriverTypeOK' /\ runPhase'[r] = "run" /\ next'[r] = next[r] + 1
      /\ UNCHANGED <<snapshot, runOutcome>>
      /\ \A q \in X!Runs \ {r} : UNCHANGED <<runPhase[q], next[q], snapshot[q], trace[q]>>
  BY DEF DesktopInv, DriverTypeOK, X!Proceed, InPass
<1>2. Snapped(r)'
  BY <1>1, SnappedStays DEF DesktopInv, RunInv
<1>3. Untold(r)'
  BY <1>1 DEF Untold
<1>4. Passed(r)'
  <2>1. Passed(r) /\ X!Loads(hostConfig)' = X!Loads(hostConfig)
    BY DEF DesktopInv, RunInv, X!Loads, X!Available, X!Provided, X!LoadedBindings, X!Bindings
  <2>2. ASSUME \E j \in 1..(next'[r] - 1) : loaded[j] = "localTrace"
        PROVE  Confirmed(r, trace[r].session, trace[r].result)'
    <3>1. \E j \in 1..(next[r] - 1) : loaded[j] = "localTrace"
      <4>1. PICK j \in 1..(next'[r] - 1) : loaded[j] = "localTrace"
        BY <2>2
      <4>2. next[r] \in Nat /\ j # next[r]
        BY <4>1 DEF DesktopInv, DriverTypeOK
      <4>3. j \in 1..(next[r] - 1)
        BY <1>1, <4>2
      <4> QED
        BY <4>1, <4>3
    <3>2. Confirmed(r, trace[r].session, trace[r].result)
      BY <2>1, <3>1 DEF Passed
    <3>3. PICK s, event : s = trace[r].session /\ event = trace[r].result
      OBVIOUS
    <3>4. Confirmed(r, s, event)'
      BY <3>2, <3>3, ConfirmedStays DEF DesktopInv
    <3> QED
      BY <3>3, <3>4 DEF Confirmed
  <2> QED
    BY <1>1, <2>1, <2>2 DEF Passed, InPass
<1> QED
  BY <1>1, <1>2, <1>3, <1>4, OneMoves DEF RunInv
-------------------------------------------------------------------------------
(* ExternalHost: the events of a run begin with its prompt. *)

\* A set of numbers has a least one.
LEMMA LeastNumber ==
  ASSUME NEW N \in SUBSET Nat, N # {}
  PROVE  \E i \in N : \A j \in N : i <= j
<1> DEFINE less == {p \in Nat \X Nat : p[1] < p[2]}
<1>1. IsWellFoundedOn(less, Nat)
  BY NatLessThanWellFounded DEF OpToRel
<1>2. \E i \in N : \A j \in N : ~(<<j, i>> \in less)
  <2> HIDE DEF less
  <2> QED
    BY <1>1, WFMin
<1>3. PICK i \in N : \A j \in N : ~(<<j, i>> \in less)
  BY <1>2
<1>4. ASSUME NEW j \in N PROVE i <= j
  <2>1. i \in Nat /\ j \in Nat
    OBVIOUS
  <2>2. ~(j < i)
    BY <1>3, <2>1
  <2> QED
    BY <2>1, <2>2
<1> QED
  BY <1>4

\* A set of numbers that is bounded has a greatest one.
LEMMA GreatestNumber ==
  ASSUME NEW n \in Nat, NEW N \in SUBSET (1..n), N # {}
  PROVE  \E i \in N : \A j \in N : i >= j
<1> DEFINE rest == {n - i : i \in N}
<1>1. rest \in SUBSET Nat /\ rest # {}
  <2>1. ASSUME NEW i \in N PROVE n - i \in Nat
    <3>1. i \in 1..n
      OBVIOUS
    <3> QED
      BY <3>1
  <2> QED
    BY <2>1
<1>2. PICK k \in rest : \A l \in rest : k <= l
  <2> HIDE DEF rest
  <2> QED
    BY <1>1, LeastNumber
<1>3. PICK i \in N : k = n - i
  BY <1>2
<1>4. ASSUME NEW j \in N PROVE i >= j
  <2>1. n - i <= n - j
    BY <1>2, <1>3
  <2>2. i \in Int /\ j \in Int
    OBVIOUS
  <2> QED
    BY <2>1, <2>2
<1> QED
  BY <1>4

\* The result that is taken is one of the session, after the prompt of the run.
LEMMA LastResultIsOwn ==
  ASSUME AppTypeOK, NEW r, NEW s \in DOMAIN sessions, X!LastResult(r, s) # 0
  PROVE  Confirmed(r, s, X!LastResult(r, s))
<1> DEFINE log == sessions[s]
           own == {i \in 1..Len(log) : X!IsPromptOf(r, log[i])}
           first == X!FirstOwnEvent(r, s)
           results == {i \in first..Len(log) : log[i].kind # "prompt"}
           last == X!LastResult(r, s)
<1>1. Len(log) \in Nat
  BY SessionFacts DEF AppTypeOK
<1>2. first # 0 /\ first \in 1..(Len(log) + 1) \cup {1}
      /\ (hostConfig.marked => first \in own)
  <2>1. first # 0
    BY DEF X!LastResult
  <2>2. CASE hostConfig.marked
    <3>1. first = IF own # {} THEN X!Min(own) ELSE 0
      BY <2>2 DEF X!FirstOwnEvent, X!SelectInSeq
    <3>2. own # {} /\ first = CHOOSE i \in own : \A j \in own : i <= j
      BY <2>1, <3>1 DEF X!Min
    <3>3. \E i \in own : \A j \in own : i <= j
      <4>1. own \in SUBSET Nat
        BY <1>1
      <4> HIDE DEF own
      <4> QED
        BY <3>2, <4>1, LeastNumber
    <3>4. first \in own
      <4> HIDE DEF own, first
      <4> QED
        BY <3>2, <3>3
    <3> QED
      BY <1>1, <2>1, <3>4
  <2>3. CASE ~hostConfig.marked
    BY <2>1, <2>3 DEF X!FirstOwnEvent
  <2> QED
    BY <2>2, <2>3
<1>3. last = IF results # {} THEN X!Max(results) ELSE 0
  BY <1>2 DEF X!LastResult, X!SelectLastInSubSeq
<1>4. results # {} /\ last = CHOOSE i \in results : \A j \in results : i >= j
  BY <1>3 DEF X!Max
<1>5. \E i \in results : \A j \in results : i >= j
  <2>1. results \in SUBSET (1..Len(log))
    <3> HIDE DEF first, log
    <3> QED
      BY <1>1, <1>2
  <2> HIDE DEF results
  <2> QED
    BY <1>1, <1>4, <2>1, GreatestNumber
<1>6. last \in results
  <2> HIDE DEF last, results
  <2> QED
    BY <1>4, <1>5
<1>7. last \in 1..Len(log) /\ last >= first /\ log[last].kind # "prompt"
  <2> HIDE DEF first, log, last
  <2> QED
    BY <1>1, <1>2, <1>6
<1>8. hostConfig.marked => first \in 1..(last - 1)
  <2>1. hostConfig.marked => log[first].kind = "prompt" /\ first \in 1..Len(log)
    BY <1>2 DEF X!IsPromptOf
  <2> HIDE DEF first, log, last, own
  <2> QED
    BY <1>1, <1>7, <2>1
<1> QED
  BY <1>2, <1>7, <1>8 DEF Confirmed
-------------------------------------------------------------------------------
(* ExternalHost: the steps. *)

\* The first session was there before, and nobody has written.
LEMMA DesktopInit == X!Init => DesktopInv
<1> SUFFICES ASSUME X!Init PROVE DesktopInv
  OBVIOUS
<1>1. AppTypeOK
  <2>1. X!User \in Parties /\ X!Event("prompt", X!User) \in Events
        /\ X!Event("result", X!User) \in Events
    BY EventsAre DEF Parties
  <2>2. PICK p \in Events, q \in Events :
          p = X!Event("prompt", X!User) /\ q = X!Event("result", X!User)
    BY <2>1
  <2>3. PICK log \in Seq(Events) : log = <<p, q>> /\ log # <<>>
    <3>1. <<p, q>> \in Seq(Events) /\ <<p, q>> # <<>>
      OBVIOUS
    <3> QED
      BY <3>1
  <2>4. sessions = <<log>>
    BY <2>2, <2>3 DEF X!Init
  <2>5. sessions \in Seq(Seq(Events)) /\ Len(sessions) = 1 /\ \A s \in DOMAIN sessions : sessions[s] = log
    BY <2>4
  <2> QED
    BY <2>1, <2>3, <2>5 DEF X!Init, AppTypeOK
<1>2. DriverTypeOK
  BY DEF X!Init, DriverTypeOK
<1>3. TraceFirst
  <2> SUFFICES ASSUME X!Loads(hostConfig),
                      NEW i \in DOMAIN loaded, loaded[i] = "localNormalize"
               PROVE  \E j \in 1..(i - 1) : loaded[j] = "localTrace"
    BY DEF TraceFirst
  <2>1. PICK bindings \in Seq(Binding) :
          /\ bindings = X!LoadedBindings(hostConfig)
          /\ \A k \in DOMAIN bindings :
               bindings[k].uses = "localNormalize" =>
                 \E j \in 1..(k - 1) : bindings[j].uses = "localTrace"
    BY TraceBeforeNormalizer DEF X!Init
  <2>2. loaded = [k \in DOMAIN bindings |-> bindings[k].uses]
    BY <2>1 DEF X!Init
  <2>3. i \in DOMAIN bindings /\ bindings[i].uses = "localNormalize"
    BY <2>2
  <2>4. PICK j \in 1..(i - 1) : bindings[j].uses = "localTrace"
    BY <2>1, <2>3
  <2>5. j \in DOMAIN bindings
    BY <2>3, LenProperties
  <2> QED
    BY <2>2, <2>4, <2>5
<1>4. GoodOutcome
  BY DEF X!Init, GoodOutcome, X!Failure
<1>5. ASSUME NEW r \in X!Runs PROVE RunInv(r)
  <2>1. runPhase[r] = "idle" /\ next[r] = 1 /\ snapshot[r] = <<>> /\ clipboard # r
    BY PartiesAre DEF X!Init
  <2>2. \A s \in DOMAIN sessions : ~X!PromptedBy(r, s)
    <3> SUFFICES ASSUME NEW s \in DOMAIN sessions, X!PromptedBy(r, s) PROVE FALSE
      OBVIOUS
    <3>1. PICK e \in X!ToSet(sessions[s]) : X!IsPromptOf(r, e)
      BY DEF X!PromptedBy
    <3>2. sessions[s] = <<X!Event("prompt", X!User), X!Event("result", X!User)>>
      BY DEF X!Init
    <3>3. e.by = X!User
      BY <3>1, <3>2 DEF X!ToSet, X!Event
    <3> QED
      BY <3>1, <3>3, PartiesAre DEF X!IsPromptOf
  <2> QED
    BY <2>1, <2>2 DEF RunInv, Snapped, Untold, Passed, InPass
<1> QED
  BY <1>1, <1>2, <1>3, <1>4, <1>5 DEF DesktopInv

\* A run begins, if its configuration loads.
LEMMA BeginKeeps == ASSUME DesktopInv, NEW r \in X!Runs, X!Begin(r) PROVE DesktopInv'
<1>1. CASE X!Loads(hostConfig)
  <2>1. /\ runPhase[r] = "idle" /\ runPhase' = [runPhase EXCEPT ![r] = "setup"]
        /\ UNCHANGED <<next, snapshot, trace, runOutcome, X!host, X!app>>
    BY <1>1 DEF X!Begin
  <2>2. AppTypeOK' /\ Added(X!User)
    BY <2>1, Unmoved DEF DesktopInv, AppTypeOK, X!app
  <2>3. DriverTypeOK' /\ runPhase'[r] = "setup"
    BY <2>1 DEF DesktopInv, DriverTypeOK, X!host
  <2>4. Snapped(r)'
    BY <2>1, <2>2, SnappedStays DEF DesktopInv, RunInv
  <2>5. Untold(r)' /\ Passed(r)'
    BY <1>1, <2>1, <2>3 DEF DesktopInv, RunInv, Untold, Passed, InPass, X!host, X!app,
       X!Loads, X!Available, X!Provided, X!LoadedBindings, X!Bindings, X!PromptedBy
  <2>6. \A q \in X!Runs \ {r} : UNCHANGED <<runPhase[q], next[q], snapshot[q], trace[q]>>
    BY <2>1 DEF DesktopInv, DriverTypeOK
  <2> QED
    BY <2>1, <2>2, <2>3, <2>4, <2>5, <2>6, OneMoves DEF RunInv, X!host, X!app
<1>2. CASE ~X!Loads(hostConfig)
  BY <1>2, FailureKeeps DEF X!Begin
<1> QED
  BY <1>1, <1>2

\* The snapshot is taken.
LEMMA SetupKeeps == ASSUME DesktopInv, NEW r \in X!Runs, X!Setup(r) PROVE DesktopInv'
<1>1. /\ runPhase[r] = "setup" /\ runPhase' = [runPhase EXCEPT ![r] = "run"]
      /\ UNCHANGED <<next, trace, runOutcome, X!host, X!app>>
      /\ \/ UNCHANGED snapshot
         \/ \E torn : snapshot' =
              [snapshot EXCEPT ![r] = [s \in DOMAIN sessions \ torn |-> X!Version(s)]]
  BY DEF X!Setup
<1>2. AppTypeOK' /\ Added(X!User)
  BY <1>1, Unmoved DEF DesktopInv, AppTypeOK, X!app
<1>3. DriverTypeOK' /\ runPhase'[r] = "run"
  BY <1>1 DEF DesktopInv, DriverTypeOK, X!host, InPass
<1>4. Snapped(r)'
  <2>1. CASE UNCHANGED snapshot
    BY <1>2, <2>1, SnappedStays DEF DesktopInv, RunInv
  <2>2. ASSUME NEW torn, snapshot' =
          [snapshot EXCEPT ![r] = [s \in DOMAIN sessions \ torn |-> X!Version(s)]]
        PROVE  Snapped(r)'
    <3>1. snapshot'[r] = [s \in DOMAIN sessions \ torn |-> Len(sessions[s])]
      BY <2>2 DEF DesktopInv, DriverTypeOK, X!Version
    <3>2. \A s \in DOMAIN sessions : Len(sessions[s]) \in Nat /\ ~X!PromptedBy(r, s)
      BY <1>1, SessionFacts DEF DesktopInv, AppTypeOK, RunInv, Untold
    <3>3. sessions' = sessions
      BY <1>1 DEF X!app
    <3> QED
      BY <3>1, <3>2, <3>3 DEF Snapped, X!PromptedBy
  <2> QED
    BY <1>1, <2>1, <2>2
<1>5. Untold(r)' /\ Passed(r)'
  BY <1>1, <1>3 DEF DesktopInv, RunInv, Untold, Passed, InPass, X!host, X!app,
     X!Loads, X!Available, X!Provided, X!LoadedBindings, X!Bindings
<1>6. \A q \in X!Runs \ {r} : UNCHANGED <<runPhase[q], next[q], snapshot[q], trace[q]>>
  BY <1>1 DEF DesktopInv, DriverTypeOK
<1> QED
  BY <1>1, <1>2, <1>3, <1>4, <1>5, <1>6, OneMoves DEF RunInv, X!host, X!app
\* A capability without a trace hands over, or ends the run with a failure.
LEMMA PlainCapability ==
  ASSUME DesktopInv, NEW r \in X!Runs, NEW id, X!At(r, id), id # "localTrace",
         UNCHANGED <<X!host, X!app>>,
         \/ X!Proceed(r) /\ UNCHANGED trace
         \/ \E kind : X!Finish(r, X!Failure(kind))
  PROVE  DesktopInv'
<1>1. CASE X!Proceed(r) /\ UNCHANGED trace
  <2>1. runPhase[r] \in InPass /\ loaded[next[r]] # "localTrace"
    BY DEF X!At, InPass
  <2>2. AppTypeOK' /\ Added(X!User) /\ UNCHANGED clipboard
    BY Unmoved DEF DesktopInv, AppTypeOK, X!app
  <2> QED
    BY <1>1, <2>1, <2>2, ProceedKeeps
<1>2. CASE \E kind : X!Finish(r, X!Failure(kind))
  BY <1>2, FailureKeeps
<1> QED
  BY <1>1, <1>2

\* The prompt is copied and pasted: from here on it can appear in a session.
LEMMA SubmitKeeps ==
  ASSUME DesktopInv, NEW r \in X!Runs,
         X!WriteClipboard(r) \/ X!OpenConversation(r) \/ X!Paste(r)
  PROVE  DesktopInv'
<1> USE DEF X!host, X!app
<1>1. CASE X!WriteClipboard(r) \/ X!OpenConversation(r)
  <2>1. /\ runPhase[r] \in InPass
        /\ next[r] \in DOMAIN loaded /\ loaded[next[r]] = "submit"
        /\ \E p \in {"script", "composer"} : runPhase' = [runPhase EXCEPT ![r] = p]
        /\ clipboard' \in {clipboard, r} /\ current' \in {0, current}
        /\ UNCHANGED <<hostConfig, loaded, next, snapshot, trace, runOutcome, sessions>>
    BY <1>1 DEF X!WriteClipboard, X!OpenConversation, X!At, InPass, DesktopInv, RunInv, Passed
  <2>2. AppTypeOK' /\ Added(X!User)
    <3>1. Len(sessions) \in Nat
      BY SessionFacts DEF DesktopInv, AppTypeOK
    <3> QED
      BY <2>1, <3>1, Unmoved, PartiesAre DEF DesktopInv, AppTypeOK
  <2>3. /\ DriverTypeOK' /\ runPhase'[r] \in {"script", "composer"}
        /\ \A q \in X!Runs \ {r} : UNCHANGED <<runPhase[q], next[q], snapshot[q], trace[q]>>
    BY <2>1 DEF DesktopInv, DriverTypeOK, InPass
  <2>4. Snapped(r)'
    BY <2>1, <2>2, SnappedStays DEF DesktopInv, RunInv
  <2>5. Untold(r)'
    BY <2>3 DEF Untold
  <2>6. Passed(r)'
    BY <2>1, <2>3 DEF DesktopInv, RunInv, Passed, InPass, Confirmed, X!IsPromptOf,
       X!Loads, X!Available, X!Provided, X!LoadedBindings, X!Bindings
  <2> QED
    BY <2>1, <2>2, <2>3, <2>4, <2>5, <2>6, OneMoves DEF RunInv
<1>2. CASE X!Paste(r)
  <2>1. /\ runPhase[r] = "composer" /\ X!Prompt(clipboard, current) /\ X!Proceed(r)
        /\ UNCHANGED <<X!host, trace, clipboard>>
    BY <1>2 DEF X!Paste
  <2>2. runPhase[r] \in InPass /\ loaded[next[r]] # "localTrace"
    BY <2>1 DEF DesktopInv, RunInv, Passed, InPass
  <2>3. PICK by \in Parties, c \in 0..Len(sessions) : by = clipboard /\ c = current
    BY DEF DesktopInv, AppTypeOK
  <2>4. Added(by) /\ AppTypeOK'
    BY <2>1, <2>3, PromptAdds DEF DesktopInv, AppTypeOK
  <2> QED
    BY <2>1, <2>2, <2>3, <2>4, ProceedKeeps
<1> QED
  BY <1>1, <1>2

\* One look at the sessions on disk.
LEMMA PollKeeps == ASSUME DesktopInv, NEW r \in X!Runs, X!Poll(r) PROVE DesktopInv'
<1> USE DEF X!host, X!app
<1>1. /\ runPhase[r] = "run" /\ next[r] \in DOMAIN loaded
      /\ UNCHANGED <<hostConfig, loaded, sessions, current, clipboard>>
  BY DEF X!Poll, X!At
<1>2. AppTypeOK' /\ Added(X!User)
  BY <1>1, Unmoved DEF DesktopInv, AppTypeOK
<1>3. CASE X!Finish(r, X!Failure("ambiguous_matching_sessions"))
  BY <1>1, <1>3, FailureKeeps
<1>4. ASSUME NEW skipped, NEW s \in X!Matching(r, skipped), NEW audit, NEW transcript,
             X!Look(r, X!TraceOf(r, s, audit, transcript), transcript)
      PROVE  DesktopInv'
  <2> DEFINE t == X!TraceOf(r, s, audit, transcript)
  <2>1. s \in DOMAIN sessions
    BY DEF X!Matching
  <2>2. t.session = s /\ (t.result # 0 => t.result = X!LastResult(r, s))
    BY DEF X!TraceOf
  <2>3. CASE X!Proceed(r) /\ trace' = [trace EXCEPT ![r] = t] /\ t.result # 0
    <3>1. Confirmed(r, s, t.result)
      BY <2>1, <2>2, <2>3, LastResultIsOwn DEF DesktopInv
    <3>2. /\ DriverTypeOK' /\ runPhase'[r] = "run" /\ trace'[r] = t
          /\ UNCHANGED <<snapshot, runOutcome>>
          /\ \A q \in X!Runs \ {r} : UNCHANGED <<runPhase[q], next[q], snapshot[q], trace[q]>>
      <4> HIDE DEF t
      <4> QED
        BY <1>1, <2>3 DEF DesktopInv, DriverTypeOK, X!Proceed, InPass
    <3>3. Confirmed(r, trace[r].session, trace[r].result)'
      <4>1. trace'[r].session = s /\ trace'[r].result = t.result
        BY <2>2, <3>2
      <4> HIDE DEF t
      <4> QED
        BY <1>1, <3>1, <4>1 DEF Confirmed, X!IsPromptOf
    <3>4. Passed(r)'
      BY <1>1, <3>2, <3>3 DEF DesktopInv, RunInv, Passed, InPass,
         X!Loads, X!Available, X!Provided, X!LoadedBindings, X!Bindings
    <3>5. Snapped(r)' /\ Untold(r)'
      BY <1>2, <3>2, SnappedStays DEF DesktopInv, RunInv, Untold
    <3> QED
      BY <1>1, <1>2, <3>2, <3>4, <3>5, OneMoves DEF RunInv
  <2>4. CASE UNCHANGED <<runPhase, next, snapshot, trace, runOutcome>>
    <3>1. DriverTypeOK'
      BY <1>1, <2>4 DEF DesktopInv, DriverTypeOK
    <3>2. RunInv(r)'
      BY <1>1, <1>2, <2>4, RunStays
    <3> QED
      BY <1>1, <1>2, <2>4, <3>1, <3>2, OneMoves
  <2> QED
    BY <1>4, <2>3, <2>4 DEF X!Look, X!TraceReady
<1> QED
  BY <1>3, <1>4 DEF X!Poll

\* The answer of a trace is confident when the trace has the marker of the run.
LEMMA NormalizeKeeps == ASSUME DesktopInv, NEW r \in X!Runs, X!Normalize(r) PROVE DesktopInv'
<1>1. X!At(r, "localNormalize") /\ UNCHANGED <<X!host, X!app>>
  BY DEF X!Normalize
<1>2. Confirmed(r, trace[r].session, trace[r].result)
  <2>1. runPhase[r] = "run" /\ next[r] \in DOMAIN loaded /\ loaded[next[r]] = "localNormalize"
    BY <1>1 DEF X!At
  <2>2. \E j \in 1..(next[r] - 1) : loaded[j] = "localTrace"
    BY <2>1 DEF DesktopInv, RunInv, Passed, InPass, TraceFirst
  <2> QED
    BY <2>1, <2>2 DEF DesktopInv, RunInv, Passed, InPass
<1>3. PICK s, event, confidence :
        /\ s = trace[r].session /\ event = trace[r].result
        /\ confidence = X!TraceConfidence(trace[r])
  OBVIOUS
<1>4. confidence = "high" => hostConfig.marked
  BY <1>3 DEF X!TraceConfidence
<1>5. CASE X!Finish(r, X!Success(s, event, confidence))
  <2>1. PICK report : report = X!Success(s, event, confidence)
    OBVIOUS
  <2>2. report.session = s /\ report.answer = event /\ report.confidence = confidence
    BY <2>1 DEF X!Success
  <2>3. report.success /\ report.confidence = "high" =>
          hostConfig.marked /\ Confirmed(r, report.session, report.answer)
    BY <1>2, <1>3, <1>4, <2>2
  <2> QED
    BY <1>1, <1>5, <2>1, <2>3, FinishKeeps
<1>6. ASSUME NEW kind, X!Finish(r, X!Failure(kind)) PROVE DesktopInv'
  BY <1>1, <1>6, FailureKeeps
<1> QED
  BY <1>3, <1>5, <1>6 DEF X!Normalize

\* Each step of a run.
LEMMA DriverKeeps == ASSUME DesktopInv, NEW r \in X!Runs, X!Driver(r) PROVE DesktopInv'
<1>1. CASE X!Begin(r) \/ X!Setup(r)
  BY <1>1, BeginKeeps, SetupKeeps
<1>2. CASE X!NoResult(r) \/ X!SubmitFails(r) \/ X!WaitTimesOut(r) \/ X!ScreenTimesOut(r)
  <2>1. PICK kind : X!Finish(r, X!Failure(kind)) /\ UNCHANGED <<X!host, X!app>>
    BY <1>2 DEF X!NoResult, X!SubmitFails, X!WaitTimesOut, X!ScreenTimesOut
  <2> QED
    BY <2>1, FailureKeeps
<1>3. CASE X!Platform(r) \/ X!Surface(r) \/ X!Module(r)
  <2>1. /\ UNCHANGED <<X!host, X!app>>
        /\ (X!Proceed(r) /\ UNCHANGED trace) \/ \E kind : X!Finish(r, X!Failure(kind))
    BY <1>3 DEF X!Platform, X!Surface, X!Module
  <2>2. PICK id : X!At(r, id) /\ id # "localTrace"
    BY <1>3 DEF X!Platform, X!Surface, X!Module
  <2> QED
    BY <2>1, <2>2, PlainCapability
<1>4. CASE X!WriteClipboard(r) \/ X!OpenConversation(r) \/ X!Paste(r)
  BY <1>4, SubmitKeeps
<1>5. CASE X!Poll(r)
  BY <1>5, PollKeeps
<1>6. CASE X!ReadScreen(r)
  <2>1. PICK report : report = X!Success(current, X!VisibleAnswer, "low")
    OBVIOUS
  <2>2. report.confidence # "high"
    BY <2>1 DEF X!Success
  <2>3. X!Finish(r, report) /\ UNCHANGED <<X!host, X!app>>
    BY <1>6, <2>1 DEF X!ReadScreen
  <2> QED
    BY <2>2, <2>3, FinishKeeps
<1>7. CASE X!Normalize(r)
  BY <1>7, NormalizeKeeps
<1> QED
  BY <1>1, <1>2, <1>3, <1>4, <1>5, <1>6, <1>7 DEF X!Driver, X!Capture

\* The app and its user write, copy and ask.
LEMMA AppKeeps ==
  ASSUME DesktopInv, X!UserActs \/ \E s \in DOMAIN sessions : X!Answers(s)
  PROVE  DesktopInv'
<1> USE DEF X!host, X!driver
<1>1. UNCHANGED <<hostConfig, loaded, runPhase, next, snapshot, trace, runOutcome>>
  BY DEF X!UserActs, X!Answers
<1>2. X!User \in Parties
  BY DEF Parties
<1>3. clipboard' \in {clipboard, X!User} /\ AppTypeOK' /\ Added(X!User)
  <2>1. CASE clipboard' = X!User /\ UNCHANGED <<sessions, current>>
    BY <1>2, <2>1, Unmoved DEF DesktopInv, AppTypeOK
  <2>2. ASSUME NEW c \in 0..Len(sessions), X!Prompt(X!User, c), UNCHANGED clipboard
        PROVE  AppTypeOK' /\ Added(X!User)
    BY <1>2, <2>2, PromptAdds DEF DesktopInv, AppTypeOK
  <2>3. ASSUME NEW s \in DOMAIN sessions, X!Answers(s)
        PROVE  AppTypeOK' /\ Added(X!User) /\ UNCHANGED clipboard
    BY <2>3, AnswerAdds DEF DesktopInv, X!Answers
  <2> QED
    BY <2>1, <2>2, <2>3 DEF X!UserActs
<1>4. DriverTypeOK'
  BY <1>1 DEF DesktopInv, DriverTypeOK
<1>5. X!User \notin X!Runs
  BY PartiesAre
<1> QED
  BY <1>1, <1>3, <1>4, <1>5, OneMoves

\* Each action of the desktop host keeps its invariant.
LEMMA DesktopStep == DesktopInv /\ X!Next => DesktopInv'
BY DriverKeeps, AppKeeps DEF X!Next

\* The invariant says that a confident answer is the run's own.
LEMMA DesktopConfidence == DesktopInv => X!HighMeansOwn
BY DEF DesktopInv, GoodOutcome, Confirmed, X!HighMeansOwn

\* And that the session of a waiting run is looked at.
LEMMA DesktopLooks == DesktopInv => X!NotOverlooked
<1> SUFFICES ASSUME DesktopInv, NEW r \in X!Runs, NEW s \in DOMAIN sessions, X!PromptedBy(r, s)
             PROVE  s \in X!Matching(r, {})
  BY DEF X!NotOverlooked
<1>1. X!NewOrUpdated(r, s)
  BY SessionFacts DEF DesktopInv, AppTypeOK, RunInv, Snapped, X!NewOrUpdated, X!Version
<1> QED
  BY <1>1 DEF X!Matching, X!MatchesCorrelation
-------------------------------------------------------------------------------
(* The run. *)

HostsInv ==
  /\ HostInv
  /\ part = "desktop" => DesktopInv
  /\ part = "api" => ApiInv
  /\ part = "browser" => BrowserInv

\* A part that rests keeps its invariant.
LEMMA PartsRest ==
  /\ HostInv /\ UNCHANGED vars => HostInv'
  /\ DesktopInv /\ UNCHANGED desktop => DesktopInv'
  /\ ApiInv /\ UNCHANGED api => ApiInv'
  /\ BrowserInv /\ UNCHANGED page => BrowserInv'
<1>1. HostInv /\ UNCHANGED vars => HostInv'
  BY DEF HostInv, HostTypeOK, Owned, Race, Answered, vars, resources, simulation
<1>2. ASSUME DesktopInv, UNCHANGED desktop PROVE DesktopInv'
  <2> USE DEF desktop
  <2>1. AppTypeOK' /\ DriverTypeOK' /\ Added(X!User)
    BY <1>2, Unmoved DEF DesktopInv, AppTypeOK, DriverTypeOK
  <2>2. X!User \notin X!Runs
    BY PartiesAre
  <2> QED
    BY <1>2, <2>1, <2>2, OneMoves
<1>3. ApiInv /\ UNCHANGED api => ApiInv'
  BY DEF ApiInv, ApiTypeOK, CallsTypeOK, Progress, ConnectingTo, ListingOf, AllOpen, Leaving,
     Succeeds, api
<1>4. BrowserInv /\ UNCHANGED page => BrowserInv'
  BY DEF BrowserInv, B!BrowserCleanEnd, page
<1> QED
  BY <1>1, <1>2, <1>3, <1>4

\* The built-in run that is over in the other parts.
LEMMA BuiltinRests == BuiltinOff => HostInv
<1> SUFFICES ASSUME BuiltinOff PROVE HostInv
  OBVIOUS
<1> USE DEF BuiltinOff
<1>1. config \in Hosts /\ clients \in [Servers -> {"none", "open", "closing", "closed"}]
  BY DEF Hosts
<1>2. 0 \in 0..MaxToolCalls /\ 0 \in Nat
  BY MaxToolCallsAssumption
<1>3. HostTypeOK
  BY <1>1, <1>2 DEF HostTypeOK
<1> QED
  BY <1>3 DEF HostInv, Owned, Race, Answered

\* The hosts of builtinHosts.ts, anthropicApiHost.ts, the browser runner and externalHost keep
\* their invariants all along.
THEOREM HostsCorrect == MCSpec => []HostsInv
<1>1. MCInit => HostsInv
  BY HostInit, BuiltinRests, DesktopInit, ApiInit, BrowserInit DEF MCInit, HostsInv
<1>2. HostsInv /\ [MCNext]_allVars => HostsInv'
  <2> SUFFICES ASSUME HostsInv, [MCNext]_allVars PROVE HostsInv'
    OBVIOUS
  <2> USE DEF HostsInv
  <2>1. CASE part = "builtin" /\ Next /\ UNCHANGED <<part, desktop, api, page>>
    BY <2>1, HostStep, PartsRest
  <2>2. CASE part = "desktop" /\ X!Next /\ UNCHANGED <<part, vars, api, page>>
    BY <2>2, DesktopStep, PartsRest
  <2>3. CASE part = "api" /\ A!Next /\ UNCHANGED <<part, vars, desktop, page>>
    BY <2>3, ApiStep, PartsRest
  <2>4. CASE part = "browser" /\ B!Next /\ UNCHANGED <<part, vars, desktop, api>>
    BY <2>4, BrowserStep, PartsRest
  <2>5. CASE UNCHANGED allVars
    BY <2>5, PartsRest DEF allVars
  <2> QED
    BY <2>1, <2>2, <2>3, <2>4, <2>5 DEF MCNext
<1> QED
  BY <1>1, <1>2, PTL DEF MCSpec

\* However a run of a built-in, API or browser host ends, nothing of it is left open or running
\* (builtinHosts.ts runBuiltinHost, anthropicApiHost.ts, browser/runner.ts), for any number of
\* servers and any budget of tool calls.
THEOREM HostsEndClean == MCSpec => []EndsClean
<1>1. HostsInv => EndsClean
  BY HostEnds, ApiEnds DEF HostsInv, BrowserInv, EndsClean
<1> QED
  BY <1>1, HostsCorrect, PTL

\* A confident answer of a desktop host comes after the prompt of the run it is given to
\* (anthropicClaude.ts selectEventsForMarker, getTraceConfidence), for any number of runs,
\* sessions and events, and whatever the user of the app does.
THEOREM ConfidentAnswersAreOwn == MCSpec => []HighMeansOwn
<1>1. HostsInv => HighMeansOwn
  BY DesktopConfidence DEF HostsInv, HighMeansOwn
<1> QED
  BY <1>1, HostsCorrect, PTL

\* The session with the prompt of a waiting run is among those looked at (anthropicClaude.ts
\* snapshotClaudeSessions, findMatchingClaudeSessions).
THEOREM WaitingRunsLook == MCSpec => []NotOverlooked
<1>1. HostsInv => NotOverlooked
  BY DesktopLooks DEF HostsInv, NotOverlooked
<1> QED
  BY <1>1, HostsCorrect, PTL
===============================================================================
