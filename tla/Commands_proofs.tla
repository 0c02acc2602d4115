----------------------------- MODULE Commands_proofs -----------------------------
(***************************************************************************)
(* Proofs about the components of MCCommands, each with the other parts of *)
(* the run at rest: LoginFlow, OAuthProvider, DryRunProxy, GenerateWizard  *)
(* and StoredServers.  Each has an inductive invariant of its own, which   *)
(* CommandsInv puts together.                                              *)
(***************************************************************************)
EXTENDS MCCommands, SequenceTheorems, WellFoundedInduction, TLAPS

-------------------------------------------------------------------------------
(* LoginFlow: what settles the promise, and who closes the server. *)

LoginInv ==
  /\ promise \in {"pending", "own", "rejected"}
  /\ exchanged \in {"none", "own"}
  /\ stage \in {"discover", "authorization server", "start", "no endpoint"} =>
       server = "none" /\ timer = "none"
  /\ stage \in {"saved", "failed"} => server # "listening"

\* No request, whatever it says, settles the promise with a foreign code.
LEMMA HandledIsOwn ==
  \A q \in Requests : Genuine(q) => Handled(q) \in {"own", "rejected"}
BY DEF Requests, Genuine, Handled

\* The promise never brings a foreign code, and the server is closed wherever a login ends.
LEMMA LoginStep == LoginInv /\ Next => LoginInv'
<1> SUFFICES ASSUME LoginInv, Next PROVE LoginInv'
  OBVIOUS
<1> USE DEF LoginInv
<1>1. CASE DiscoverResource \/ DiscoverServer
  BY <1>1 DEF DiscoverResource, DiscoverServer
<1>2. CASE StartServer \/ NoEndpoint
  BY <1>2 DEF StartServer, NoEndpoint
<1>3. CASE Request
  <2> PICK q \in Requests :
        /\ Genuine(q)
        /\ IF q.path = "other" THEN UNCHANGED <<stage, promise, timer>>
           ELSE /\ timer' = IF timer = "set" THEN "cleared" ELSE timer
                /\ Settle(Handled(q))
    BY <1>3 DEF Request
  <2>1. server' = "listening" /\ server = "listening" /\ exchanged' = exchanged
    BY <1>3 DEF Request
  <2>2. CASE q.path = "other"
    BY <2>1, <2>2
  <2>3. CASE q.path # "other"
    <3>1. Handled(q) \in {"own", "rejected"} /\ Settle(Handled(q))
      BY <2>3, HandledIsOwn
    <3>2. promise' \in {promise, "own", "rejected"} /\ stage' \in {stage, "crashed"}
      BY <3>1 DEF Settle
    <3> QED
      BY <2>1, <3>2
  <2> QED
    BY <2>2, <2>3
<1>4. CASE TimerFires
  <2>1. promise' \in {promise, "rejected"} /\ stage' \in {stage, "crashed"}
    BY <1>4 DEF TimerFires, Settle
  <2> QED
    BY <1>4, <2>1 DEF TimerFires
<1>5. CASE OpenBrowser \/ Exchange \/ Rejected \/ ExchangeEnds
  BY <1>5 DEF OpenBrowser, Exchange, Rejected, ExchangeEnds
<1> QED
  BY <1>1, <1>2, <1>3, <1>4, <1>5 DEF Next

-------------------------------------------------------------------------------
(* OAuthProvider: while the tests do not overlap, whoever is at work holds the newest  *)
(* tokens and the client they belong to, or the file does.                             *)

Clients == {"none", "configured", "registered"}
States == [kind : {"state"}, tokens : Nat, client : Clients, verifier : BOOLEAN]
AtRest == {"idle", "passed", "failed"}
Saving == {"truncate auth", "truncate loaded", "truncate failed",
           "write auth", "write loaded", "write failed"}
AtWork == {"load", "loaded", "auth", "client", "granted"} \cup Saving

TestsTypeOK ==
  /\ config \in P!Configs
  /\ file \in States \cup {P!None, P!Empty, P!Torn}
  /\ issued \in Nat \ {0}
  /\ setup \in {"start", "login", "write", "done", "thrown"}
  /\ pc \in [Tests -> AtRest \cup AtWork]
  /\ cached \in [Tests -> States \cup {P!None}]
  /\ grant \in [Tests -> Nat]

\* What is granted belongs to a state that was read.
Granted == \A t \in Tests : pc[t] = "granted" => cached[t] \in States

\* The client of the state is the one the newest tokens are bound to, if they are.
Bound(s) == s.kind = "state" /\ (config.binds => s.client = "configured")
Good(s) == Bound(s) /\ s.tokens = issued

\* What a test has, if it is the only one at work.
Alone(t) ==
  /\ pc[t] \in {"load", "loaded", "auth", "client"} => Good(file)
  /\ pc[t] \in {"loaded", "auth", "client"} \cup Saving => Good(cached[t])
  /\ pc[t] \in {"idle", "load"} => cached[t] = P!None
  /\ pc[t] \in {"write auth", "write loaded", "write failed"} => file = P!Empty
  /\ pc[t] = "granted" => Bound(cached[t]) /\ grant[t] = issued

Serial ==
  ~config.overlap /\ P!KeepsClient =>
    /\ setup # "done" => P!Running = {}
    /\ setup = "start" /\ file.kind = "state" => Bound(file) /\ file.tokens \in {0, issued}
    /\ \A t, u \in P!Running : t = u
    /\ \A t \in Tests : Alone(t)
    /\ setup = "done" /\ P!Running = {} => Good(file)

TestsInv == TestsTypeOK /\ Granted /\ Serial

\* The kinds of what is in a file or a cache.
LEMMA Kinds ==
  /\ P!None.kind = "none" /\ P!Empty.kind = "empty" /\ P!Torn.kind = "torn"
  /\ P!None \notin States \cup P!Broken /\ P!Broken \cap States = {}
  /\ P!Broken = {P!Empty, P!Torn}
  /\ \A s \in States : s.kind = "state" /\ s.tokens \in Nat /\ s.client \in Clients
<1>1. P!None.kind = "none" /\ P!Empty.kind = "empty" /\ P!Torn.kind = "torn"
  BY DEF P!None, P!Empty, P!Torn
<1>2. \A s \in States : s.kind = "state" /\ s.tokens \in Nat /\ s.client \in Clients
  BY DEF States
<1> QED
  BY <1>1, <1>2 DEF P!Broken

\* What a state is made of.
LEMMA StateIs ==
  \A n \in Nat, c \in Clients, v \in BOOLEAN :
    /\ P!State(n, c, v) \in States /\ P!State(n, c, v).tokens = n
    /\ P!State(n, c, v).kind = "state" /\ P!State(n, c, v).client = c
BY DEF P!State, States

\* What a provider reads.
LEMMA ReadIs ==
  ASSUME TestsTypeOK, NEW t \in Tests
  PROVE  /\ P!Read(t) \notin P!Broken =>
              P!StateOf(t) \in States /\ P!Read(t) \in States \cup {P!None}
         /\ P!Read(t) \in States => P!StateOf(t) = P!Read(t)
         /\ cached[t].kind = "state" => P!Read(t) = cached[t] /\ cached[t] \in States
         /\ cached[t] = P!None => P!Read(t) = file
<1>1. cached[t] \in States \cup {P!None} /\ file \in States \cup {P!None, P!Empty, P!Torn}
  BY DEF TestsTypeOK
<1>2. P!State(0, "none", FALSE) \in States
  BY StateIs DEF Clients
<1> QED
  BY <1>1, <1>2, Kinds DEF P!Read, P!StateOf

\* A state stays one whichever of its fields is set, and the others keep their value.
LEMMA StateUpdates ==
  ASSUME NEW s \in States
  PROVE  /\ \A c \in Clients :
              /\ [s EXCEPT !.client = c] \in States /\ [s EXCEPT !.client = c].tokens = s.tokens
              /\ [s EXCEPT !.client = c].kind = "state"
         /\ \A v \in BOOLEAN :
              /\ [s EXCEPT !.verifier = v] \in States /\ [s EXCEPT !.verifier = v].kind = "state"
              /\ [s EXCEPT !.verifier = v].tokens = s.tokens
              /\ [s EXCEPT !.verifier = v].client = s.client
         /\ [s EXCEPT !.tokens = 0] \in States
         /\ \A n \in Nat : /\ [s EXCEPT !.tokens = n, !.verifier = FALSE] \in States
                           /\ [s EXCEPT !.tokens = n, !.verifier = FALSE].tokens = n
                           /\ [s EXCEPT !.tokens = n, !.verifier = FALSE].kind = "state"
                           /\ [s EXCEPT !.tokens = n, !.verifier = FALSE].client = s.client
BY DEF States

\* The configuration says yes or no.
LEMMA ConfigFields == \A c \in P!Configs : c.setupClient \in BOOLEAN /\ c.binds \in BOOLEAN
BY DEF P!Configs

\* What the numbers and the configuration are.
LEMMA TestsNumbers ==
  ASSUME TestsTypeOK
  PROVE  /\ issued \in Nat /\ issued # 0 /\ issued + 1 \in Nat \ {0}
         /\ P!State(issued, P!SavedClient, FALSE) \in States
<1>1. issued \in Nat /\ issued # 0
  BY DEF TestsTypeOK
<1>2. issued + 1 \in Nat \ {0}
  BY <1>1
<1>3. P!SavedClient \in Clients
  BY DEF P!SavedClient, Clients
<1> QED
  BY <1>1, <1>2, <1>3, StateIs

\* Every step of the tests keeps the state well typed.
LEMMA TestsTypeStep == TestsTypeOK /\ Granted /\ P!Next => TestsTypeOK'
<1> SUFFICES ASSUME TestsTypeOK, Granted, P!Next PROVE TestsTypeOK'
  OBVIOUS
<1> USE DEF AtRest, AtWork, Saving
<1>1. CASE P!Setup
  BY <1>1, TestsNumbers DEF P!Setup, P!SetupIfNeeded, P!SetupLogin, P!SetupSave, TestsTypeOK
<1>2. CASE P!Expire
  BY <1>2 DEF P!Expire, TestsTypeOK
<1>3. ASSUME NEW t \in Tests, P!StartTest(t) \/ P!Unreadable(t) \/ P!Truncate(t) \/ P!Write(t)
      PROVE  TestsTypeOK'
  BY <1>3 DEF P!StartTest, P!Unreadable, P!Truncate, P!Write, P!Outcomes, P!AfterWrite, TestsTypeOK
<1>4. ASSUME NEW t \in Tests, NEW at \in AtRest \cup AtWork, P!Read(t) \notin P!Broken, P!Reads(t, at)
      PROVE  /\ pc' \in [Tests -> AtRest \cup AtWork]
             /\ cached' \in [Tests -> States \cup {P!None}]
  <2>1. P!Read(t) \in States \cup {P!None}
    BY <1>4, ReadIs
  <2> QED
    BY <1>4, <2>1 DEF P!Reads, TestsTypeOK
<1>5. ASSUME NEW t \in Tests, NEW at \in AtRest \cup AtWork, NEW s \in States, P!Saves(t, s, at)
      PROVE  TestsTypeOK'
  BY <1>5 DEF P!Saves, TestsTypeOK
<1>6. ASSUME NEW t \in Tests, P!Load(t) \/ P!TokenAccepted(t) \/ P!Unauthorized(t) \/ P!HasClient(t)
      PROVE  TestsTypeOK'
  <2>1. P!Read(t) \notin P!Broken /\ \E at \in AtRest \cup AtWork : P!Reads(t, at)
    BY <1>6 DEF P!Load, P!TokenAccepted, P!Unauthorized, P!HasClient, P!At
  <2>2. /\ pc' \in [Tests -> AtRest \cup AtWork]
        /\ cached' \in [Tests -> States \cup {P!None}]
    BY <2>1, <1>4
  <2>3. UNCHANGED <<config, file, issued, fresh, setup, grant>>
    BY <1>6 DEF P!Load, P!TokenAccepted, P!Unauthorized, P!HasClient
  <2> QED
    BY <2>2, <2>3 DEF TestsTypeOK
<1>7. ASSUME NEW t \in Tests, P!Refresh(t) PROVE TestsTypeOK'
  <2>1. issued + 1 \in Nat \ {0}
    BY TestsNumbers
  <2>2. P!Read(t) \notin P!Broken /\ P!Reads(t, "granted") /\ "granted" \in AtRest \cup AtWork
    BY <1>7 DEF P!Refresh, P!At
  <2>3. /\ pc' \in [Tests -> AtRest \cup AtWork]
        /\ cached' \in [Tests -> States \cup {P!None}]
    BY <2>2, <1>4
  <2>4. UNCHANGED <<config, file, setup>> /\ issued' = issued + 1 /\ grant' = [grant EXCEPT ![t] = issued + 1]
    BY <1>7 DEF P!Refresh
  <2>5. grant' \in [Tests -> Nat]
    BY <2>1, <2>4 DEF TestsTypeOK
  <2> QED
    BY <2>1, <2>3, <2>4, <2>5 DEF TestsTypeOK
<1>8. ASSUME NEW t \in Tests, P!SaveTokens(t) \/ P!ClientRejected(t) PROVE TestsTypeOK'
  <2>1. CASE P!SaveTokens(t)
    <3>1. cached[t] \in States /\ grant[t] \in Nat
      BY <2>1 DEF P!SaveTokens, Granted, TestsTypeOK
    <3>2. PICK loaded \in States : loaded = P!StateOf(t)
      BY <3>1, Kinds, ReadIs
    <3>3. [loaded EXCEPT !.tokens = grant[t], !.verifier = FALSE] \in States
      BY <3>1, StateUpdates
    <3>4. cached' = [cached EXCEPT ![t] = [loaded EXCEPT !.tokens = grant[t], !.verifier = FALSE]]
      BY <2>1, <3>2 DEF P!SaveTokens
    <3>5. cached' \in [Tests -> States \cup {P!None}]
      BY <3>3, <3>4 DEF TestsTypeOK
    <3> QED
      BY <2>1, <3>5 DEF P!SaveTokens, TestsTypeOK
  <2>2. CASE P!ClientRejected(t)
    BY <2>2 DEF P!ClientRejected, P!Deletes, P!At, TestsTypeOK
  <2> QED
    BY <1>8, <2>1, <2>2
<1>9. ASSUME NEW t \in Tests, P!RefreshRejected(t) \/ P!SaveCodeVerifier(t) \/ P!Invalidate(t) \/ P!Register(t)
      PROVE  TestsTypeOK'
  <2>1. P!Read(t) \notin P!Broken
    BY <1>9 DEF P!RefreshRejected, P!SaveCodeVerifier, P!Invalidate, P!Register, P!At
  <2>2. PICK loaded \in States : loaded = P!StateOf(t)
    BY <2>1, ReadIs
  <2>3. /\ [loaded EXCEPT !.client = "registered"] \in States
        /\ [loaded EXCEPT !.client = "none"] \in States
        /\ [loaded EXCEPT !.verifier = TRUE] \in States
        /\ [loaded EXCEPT !.verifier = FALSE] \in States
        /\ [loaded EXCEPT !.tokens = 0] \in States
    BY StateUpdates DEF Clients
  <2>4. \/ \E s \in States, at \in AtRest \cup AtWork : P!Saves(t, s, at)
        \/ P!Reads(t, "failed") /\ UNCHANGED <<config, file, issued, fresh, setup, grant>>
    BY <1>9, <2>2, <2>3 DEF P!RefreshRejected, P!SaveCodeVerifier, P!Invalidate, P!Register
  <2>5. CASE P!Reads(t, "failed") /\ UNCHANGED <<config, file, issued, fresh, setup, grant>>
    <3>1. /\ pc' \in [Tests -> AtRest \cup AtWork]
          /\ cached' \in [Tests -> States \cup {P!None}]
      BY <2>1, <2>5, <1>4
    <3> QED
      BY <2>5, <3>1 DEF TestsTypeOK
  <2> QED
    BY <2>4, <2>5, <1>5
<1> QED
  BY <1>1, <1>2, <1>3, <1>6, <1>7, <1>8, <1>9 DEF P!Next, P!Provider

\* Only a state that was read is granted tokens.
LEMMA GrantedStep == TestsTypeOK /\ Granted /\ P!Next => Granted'
<1> SUFFICES ASSUME TestsTypeOK, Granted, P!Next PROVE Granted'
  OBVIOUS
<1>1. CASE P!Setup \/ P!Expire
  BY <1>1 DEF P!Setup, P!SetupIfNeeded, P!SetupLogin, P!SetupSave, P!Expire, Granted
<1>2. ASSUME NEW t \in Tests, P!Provider(t) PROVE Granted'
  <2>1. /\ \A u \in Tests : u # t => pc'[u] = pc[u] /\ cached'[u] = cached[u]
        /\ ~P!Refresh(t) => pc'[t] # "granted"
    BY <1>2 DEF P!Provider, P!StartTest, P!Load, P!Unreadable, P!TokenAccepted, P!Unauthorized,
                P!HasClient, P!Register, P!Refresh, P!SaveTokens, P!RefreshRejected, P!Deletes,
                P!ClientRejected, P!Invalidate, P!SaveCodeVerifier, P!Truncate, P!Write,
                P!AfterWrite, P!Reads, P!Saves, TestsTypeOK
  <2>2. CASE P!Refresh(t)
    <3>1. P!Read(t) \notin P!Broken /\ P!StateOf(t).tokens # 0 /\ P!Reads(t, "granted")
      BY <2>2 DEF P!Refresh, P!At
    <3>2. P!State(0, "none", FALSE).tokens = 0
      BY StateIs DEF Clients
    <3>3. P!Read(t) \in States
      BY <3>1, <3>2, ReadIs DEF P!StateOf
    <3>4. cached'[t] \in States
      BY <3>1, <3>3 DEF P!Reads, TestsTypeOK
    <3> QED
      BY <2>1, <3>4 DEF Granted
  <2> QED
    BY <2>1, <2>2 DEF Granted
<1> QED
  BY <1>1, <1>2 DEF P!Next

\* When t alone is at work, the other tests have nothing to say.
LEMMA OthersAtRest ==
  ASSUME TestsTypeOK, Serial, ~config.overlap, P!KeepsClient, NEW t \in P!Running
  PROVE  /\ setup = "done" /\ \A u \in Tests : u # t => pc[u] \in AtRest
BY DEF Serial, P!Running, AtRest, TestsTypeOK

\* A step of t that leaves the others alone.
LEMMA OneWorks ==
  ASSUME TestsTypeOK, TestsTypeOK', NEW t \in Tests,
         setup = "done", UNCHANGED <<setup, config>>,
         \A u \in Tests : u # t => /\ pc[u] \in AtRest /\ pc'[u] = pc[u]
                                   /\ cached'[u] = cached[u] /\ Alone(u),
         Alone(t)',
         pc'[t] \in AtRest => Good(file)'
  PROVE  Serial'
<1>1. \A u \in Tests : Alone(u)'
  BY DEF Alone, AtRest, Saving
<1>2. \A u, v \in P!Running' : u = v
  BY DEF P!Running, AtRest
<1>3. P!Running' = {} => Good(file)'
  BY DEF P!Running, AtRest, AtWork, Saving, TestsTypeOK
<1> QED
  BY <1>1, <1>2, <1>3 DEF Serial

\* Where the tokens are bound, they are bound to the client that is configured.
LEMMA BoundTo ==
  ASSUME P!KeepsClient
  PROVE  /\ ~config.invalidates
         /\ config.binds => P!SavedClient = "configured" /\ P!Owner = "configured"
BY DEF P!KeepsClient, P!SavedClient, P!Owner

\* Tests that do not overlap hand the newest tokens from one to the next.
LEMMA SerialStep == TestsTypeOK /\ Granted /\ Serial /\ P!Next => Serial'
<1> SUFFICES ASSUME TestsTypeOK, TestsTypeOK', Serial, P!Next, ~config'.overlap, P!KeepsClient'
             PROVE Serial'
  BY TestsTypeStep DEF Serial
<1>0. config' = config /\ P!KeepsClient /\ ~config.overlap
  <2>1. config' = config
    BY DEF P!Next, P!Setup, P!SetupIfNeeded, P!SetupLogin, P!SetupSave, P!Expire,
           P!Provider, P!StartTest, P!Load, P!Unreadable, P!TokenAccepted, P!Unauthorized,
           P!HasClient, P!Register, P!Refresh, P!SaveTokens, P!RefreshRejected, P!Deletes,
           P!ClientRejected, P!Invalidate, P!SaveCodeVerifier, P!Truncate, P!Write, P!Saves
  <2> QED
    BY <2>1 DEF P!KeepsClient
<1>1. CASE P!Setup
  <2>1. setup # "done" /\ UNCHANGED <<config, pc, cached, grant>>
    BY <1>1 DEF P!Setup, P!SetupIfNeeded, P!SetupLogin, P!SetupSave
  <2>2. P!Running = {} /\ P!Running' = {} /\ \A t \in Tests : Alone(t)
    BY <1>0, <2>1 DEF Serial, P!Running
  <2>3. \A t \in Tests : Alone(t)'
    BY <2>1, <2>2 DEF Alone, P!Running, Saving, Good, Bound
  <2>4. setup' # "start" /\ (setup' = "done" => Good(file)')
    <3>1. CASE P!SetupIfNeeded
      BY <1>0, <3>1 DEF P!SetupIfNeeded, P!HasValid, Good, Bound, Serial
    <3>2. CASE P!SetupLogin
      BY <3>2 DEF P!SetupLogin
    <3>3. CASE P!SetupSave
      <4>1. P!SavedClient \in Clients /\ issued \in Nat
        BY DEF P!SavedClient, Clients, TestsTypeOK
      <4>2. file'.kind = "state" /\ file'.tokens = issued' /\ file'.client = P!SavedClient
        BY <3>3, <4>1, StateIs DEF P!SetupSave
      <4> QED
        BY <1>0, <3>3, <4>2, BoundTo DEF Good, Bound, P!SetupSave
    <3> QED
      BY <1>1, <3>1, <3>2, <3>3 DEF P!Setup
  <2> QED
    BY <2>2, <2>3, <2>4 DEF Serial
<1>2. CASE P!Expire
  BY <1>2 DEF P!Expire, Serial, P!Running, P!KeepsClient, Alone, Good, Bound
<1>3. ASSUME NEW t \in Tests, P!StartTest(t) PROVE Serial'
  <2>1. P!Running = {} /\ setup = "done" /\ UNCHANGED <<setup, config, file, issued, cached>>
    BY <1>0, <1>3 DEF P!StartTest
  <2>2. Good(file) /\ Good(file)' /\ \A u \in Tests : Alone(u)
    BY <1>0, <2>1 DEF Serial, Good, Bound
  <2>3. \A u \in Tests : u # t => pc[u] \in AtRest /\ pc'[u] = pc[u] /\ cached'[u] = cached[u]
    BY <1>3, <2>1 DEF P!StartTest, P!Running, AtRest, TestsTypeOK
  <2>4. pc'[t] = "load" /\ pc[t] = "idle" /\ cached'[t] = cached[t]
    BY <1>3 DEF P!StartTest, TestsTypeOK
  <2>5. Alone(t)'
    BY <2>2, <2>4 DEF Alone, Saving
  <2> QED
    BY <2>1, <2>2, <2>3, <2>4, <2>5, OneWorks DEF AtRest
<1>4. ASSUME NEW t \in Tests, P!Provider(t), ~P!StartTest(t) PROVE Serial'
  <2>1. /\ t \in P!Running /\ UNCHANGED <<setup, config>>
        /\ \A u \in Tests : u # t => pc'[u] = pc[u] /\ cached'[u] = cached[u]
    BY <1>4 DEF P!Provider, P!Load, P!Unreadable, P!TokenAccepted, P!Unauthorized,
                P!HasClient, P!Register, P!Refresh, P!SaveTokens, P!RefreshRejected, P!Deletes,
                P!ClientRejected, P!Invalidate, P!SaveCodeVerifier, P!Truncate, P!Write,
                P!At, P!Reads, P!Saves, P!Running, TestsTypeOK
  <2>2. /\ setup = "done" /\ Alone(t)
        /\ \A u \in Tests : Alone(u) /\ (u # t => pc[u] \in AtRest)
    BY <1>0, <2>1, OthersAtRest DEF Serial
  <2> SUFFICES Alone(t)' /\ (pc'[t] \in AtRest => Good(file)')
    BY <2>1, <2>2, OneWorks
  <2>3. CASE pc[t] \in {"load", "loaded", "auth", "client"}
    <3>1. Good(file) /\ P!Read(t) \in States /\ Good(P!Read(t)) /\ P!StateOf(t) = P!Read(t)
      <4>1. CASE pc[t] = "load"
        <5>1. Good(file) /\ cached[t] = P!None
          BY <2>2, <4>1 DEF Alone
        <5>2. P!Read(t) = file /\ file \in States
          BY <5>1, ReadIs, Kinds DEF Good, Bound, TestsTypeOK
        <5> QED
          BY <5>1, <5>2, ReadIs
      <4>2. CASE pc[t] # "load"
        <5>1. Good(file) /\ Good(cached[t])
          BY <2>2, <2>3, <4>2 DEF Alone
        <5>2. P!Read(t) = cached[t] /\ cached[t] \in States
          BY <5>1, ReadIs DEF Good, Bound
        <5> QED
          BY <5>1, <5>2, ReadIs
      <4> QED
        BY <4>1, <4>2
    <3>2. PICK loaded \in States : loaded = P!StateOf(t) /\ loaded = P!Read(t)
      BY <3>1
    <3>3. ASSUME NEW at, P!Reads(t, at), UNCHANGED file
          PROVE  cached'[t] = loaded /\ pc'[t] = at /\ file' = file
      BY <3>2, <3>3 DEF P!Reads, TestsTypeOK
    <3>4. CASE P!Load(t) \/ P!TokenAccepted(t) \/ P!Unauthorized(t) \/ P!HasClient(t)
      <4>1. /\ issued' = issued /\ cached'[t] = loaded /\ file' = file
            /\ pc'[t] \in {"loaded", "passed", "auth", "client"}
        BY <3>3, <3>4 DEF P!Load, P!TokenAccepted, P!Unauthorized, P!HasClient
      <4> QED
        BY <2>1, <3>1, <3>2, <4>1 DEF Alone, AtRest, Saving, Good, Bound
    <3>5. ASSUME NEW s, NEW at \in {"truncate auth", "truncate failed"}, P!Saves(t, s, at), Good(s)
          PROVE  Alone(t)' /\ (pc'[t] \in AtRest => Good(file)')
      <4>1. cached'[t] = s /\ pc'[t] = at /\ issued' = issued
        BY <3>5 DEF P!Saves, TestsTypeOK
      <4> QED
        BY <2>1, <3>5, <4>1 DEF Alone, AtRest, Saving, Good, Bound
    <3>6. CASE P!Register(t)
      <4>1. ~config.binds
        BY <3>1, <3>6 DEF P!Register, Good, Bound
      <4>2. Good([loaded EXCEPT !.client = "registered"])
        BY <3>1, <3>2, <4>1, StateUpdates DEF Good, Bound, Clients
      <4>3. \/ P!Saves(t, [loaded EXCEPT !.client = "registered"], "truncate auth")
            \/ P!Reads(t, "failed") /\ UNCHANGED <<file, issued>>
        BY <3>2, <3>6 DEF P!Register
      <4>4. CASE P!Reads(t, "failed") /\ UNCHANGED <<file, issued>>
        <5>1. cached'[t] = loaded /\ pc'[t] = "failed" /\ file' = file /\ issued' = issued
          BY <3>3, <4>4
        <5> QED
          BY <2>1, <3>1, <5>1 DEF Alone, AtRest, Saving, Good, Bound
      <4> QED
        BY <3>5, <4>2, <4>3, <4>4
    <3>7. CASE P!SaveCodeVerifier(t)
      <4>1. PICK s \in States : /\ s = [loaded EXCEPT !.verifier = TRUE] /\ s.kind = "state"
                                /\ s.tokens = loaded.tokens /\ s.client = loaded.client
        BY StateUpdates, Zenon
      <4>2. Good(s)
        BY <3>1, <3>2, <4>1 DEF Good, Bound
      <4>3. P!Saves(t, s, "truncate failed")
        BY <3>2, <3>7, <4>1 DEF P!SaveCodeVerifier
      <4> QED
        BY <3>5, <4>2, <4>3
    <3>8. CASE P!Refresh(t)
      <4>1. /\ P!Reads(t, "granted") /\ UNCHANGED file /\ issued' = issued + 1
            /\ grant' = [grant EXCEPT ![t] = issued + 1]
        BY <3>8 DEF P!Refresh
      <4>2. pc'[t] = "granted" /\ cached'[t] = loaded /\ grant'[t] = issued'
        BY <3>3, <4>1 DEF TestsTypeOK
      <4> QED
        BY <2>1, <3>1, <3>2, <4>2 DEF Alone, AtRest, Saving, Good, Bound
    <3>9. ~P!RefreshRejected(t) /\ ~P!ClientRejected(t) /\ ~P!Invalidate(t) /\ ~P!Unreadable(t)
      <4>1. config.binds => P!ClientOf(t) = "configured"
        BY <3>1 DEF P!ClientOf, Good, Bound
      <4>2. P!Accepts(t)
        BY <1>0, <3>1, <4>1, BoundTo DEF P!Accepts, Good
      <4>3. P!Read(t) \notin P!Broken
        BY <3>1, Kinds
      <4> QED
        BY <1>0, <4>2, <4>3, BoundTo DEF P!RefreshRejected, P!ClientRejected, P!Invalidate, P!Unreadable
    <3> QED
      BY <1>4, <2>3, <3>4, <3>6, <3>7, <3>8, <3>9
         DEF P!Provider, P!SaveTokens, P!Truncate, P!Write
  <2>4. CASE P!SaveTokens(t)
    <3>1. Bound(cached[t]) /\ grant[t] = issued /\ issued' = issued
      BY <2>2, <2>4 DEF P!SaveTokens, Alone
    <3>2. PICK loaded \in States : loaded = P!StateOf(t) /\ Bound(loaded)
      BY <3>1, ReadIs DEF Bound
    <3>3. PICK n \in Nat : n = grant[t]
      BY DEF TestsTypeOK
    <3>4. pc'[t] = "truncate loaded" /\ cached'[t] = [loaded EXCEPT !.tokens = n, !.verifier = FALSE]
      BY <2>4, <3>2, <3>3 DEF P!SaveTokens, TestsTypeOK
    <3>5. PICK s : s = cached'[t]
      OBVIOUS
    <3>6. s.kind = "state" /\ s.tokens = n /\ s.client = loaded.client
      <4>1. s = [loaded EXCEPT !.tokens = n, !.verifier = FALSE]
        BY <3>4, <3>5
      <4> QED
        BY <4>1 DEF States
    <3>7. Good(s)
      BY <3>1, <3>2, <3>3, <3>6 DEF Good, Bound
    <3>8. Good(cached'[t])
      BY <3>5, <3>7
    <3> QED
      BY <2>1, <3>1, <3>4, <3>8 DEF Alone, AtRest, Saving, Good, Bound
  <2>5. CASE P!Truncate(t)
    <3>1. UNCHANGED <<issued, cached, grant>> /\ pc[t] \in Saving /\ file' = P!Empty
          /\ pc'[t] \in {"write auth", "write loaded", "write failed"}
      BY <2>5 DEF P!Truncate, Saving, TestsTypeOK
    <3> QED
      BY <2>1, <2>2, <3>1 DEF Alone, AtRest, Saving, Good, Bound
  <2>6. CASE P!Write(t)
    <3>1. UNCHANGED <<issued, cached, grant>> /\ file' = cached[t] /\ pc[t] \in Saving
          /\ pc'[t] \in {"auth", "loaded", "failed"}
      <4>1. file = P!Empty
        BY <2>2, <2>6 DEF P!Write, Alone
      <4>2. P!Empty # P!None
        BY Kinds
      <4>3. P!Outcomes(t) = {cached[t]}
        BY <1>0, <4>1, <4>2, BoundTo DEF P!Outcomes
      <4> QED
        BY <2>6, <4>3 DEF P!Write, P!AfterWrite, Saving, TestsTypeOK
    <3> QED
      BY <2>1, <2>2, <3>1 DEF Alone, AtRest, Saving, Good, Bound
  <2> QED
    BY <1>4, <2>3, <2>4, <2>5, <2>6
       DEF P!Provider, P!Load, P!Unreadable, P!TokenAccepted, P!Unauthorized, P!HasClient,
           P!Register, P!Refresh, P!RefreshRejected, P!ClientRejected, P!Invalidate,
           P!SaveCodeVerifier, P!At
<1> QED
  BY <1>1, <1>2, <1>3, <1>4 DEF P!Next

-------------------------------------------------------------------------------
(* DryRunProxy: the message at work has passed the classification, and is the only one  *)
(* without an answer.                                                                   *)

MayPass(m) ==
  m.method = "tools/call" /\ ~D!Notification(m) =>
    /\ m.tool \notin settings.alwaysWrite
    /\ m.tool \in settings.readOnly \/ hints[m.tool]

ReplyTexts == [to : Nat, id : {"number", "1"}, planned : BOOLEAN]

ProxyInv ==
  /\ inbox \in Seq(Messages)
  /\ replies \in Seq(ReplyTexts)
  /\ loop \in {"listing", "deciding"} => inbox # <<>> /\ ~D!Notification(D!Current)
  /\ loop = "calling" => inbox # <<>> /\ MayPass(D!Current)
  /\ forwarded \subseteq DOMAIN inbox
  /\ D!WritesStayHere

\* Where the inbox and the answers are as before, so are the properties of the answers, but
\* for the message at work.
LEMMA NothingAnswered ==
  ASSUME ProxyInv, UNCHANGED <<inbox, replies, hints, settings>>,
         loop # "idle", loop' \in {"deciding", "calling", "threw"},
         loop' = "deciding" => ~D!Notification(D!Current),
         loop' = "calling" => MayPass(D!Current),
         forwarded' \in {forwarded, forwarded \cup {Len(inbox)}},
         forwarded' # forwarded => inbox # <<>> /\ MayPass(D!Current),
         inbox # <<>>
  PROVE  ProxyInv'
<1>1. Len(inbox) \in DOMAIN inbox
  BY DEF ProxyInv
<1>2. \A i \in forwarded' : i \in DOMAIN inbox /\ MayPass(inbox[i])
  BY <1>1 DEF ProxyInv, D!WritesStayHere, MayPass, D!Current
<1>3. \A i : D!Answered(i)' <=> D!Answered(i)
  BY DEF D!Answered
<1> QED
  BY <1>1, <1>2, <1>3 DEF ProxyInv, D!WritesStayHere, MayPass, D!Current, D!Notification

\* The answer to the message at work: every earlier one has its answer already.
LEMMA AnswerInTurn ==
  ASSUME ProxyInv, NEW planned \in BOOLEAN, D!Reply(planned),
         inbox # <<>>, ~D!Notification(D!Current),
         loop # "idle", loop' = "idle", UNCHANGED <<inbox, hints, settings>>,
         forwarded' \in {forwarded, forwarded \cup {Len(inbox)}},
         forwarded' # forwarded => MayPass(D!Current)
  PROVE  ProxyInv'
<1> DEFINE new == [to |-> Len(inbox), id |-> D!AnswerId(D!Current), planned |-> planned]
<1>1. Len(inbox) \in DOMAIN inbox /\ Len(inbox) \in Nat /\ DOMAIN inbox = 1..Len(inbox)
  BY DEF ProxyInv
<1>2. new \in ReplyTexts
  BY <1>1 DEF ReplyTexts, D!AnswerId
<1>3. /\ replies' \in Seq(ReplyTexts) /\ Len(replies') = Len(replies) + 1
      /\ \A k \in DOMAIN replies : replies'[k] = replies[k]
      /\ replies'[Len(replies) + 1].to = Len(inbox)
      /\ DOMAIN replies = 1..Len(replies) /\ DOMAIN replies' = 1..(Len(replies) + 1)
      /\ Len(replies) \in Nat
  BY <1>2 DEF D!Reply, ProxyInv
<1>4. \A i \in forwarded' : i \in DOMAIN inbox /\ MayPass(inbox[i])
  BY <1>1 DEF ProxyInv, D!WritesStayHere, MayPass, D!Current
<1>5. \A k \in DOMAIN replies : replies[k].to \in DOMAIN inbox /\ replies[k].to < Len(inbox)
  BY <1>1 DEF ProxyInv, D!WritesStayHere, D!Answered
<1>6. \A i : D!Answered(i)' <=> D!Answered(i) \/ i = Len(inbox)
  BY <1>3 DEF D!Answered
<1>7. \A j, k \in DOMAIN replies' :
        replies'[k].to \in DOMAIN inbox /\ (j < k => replies'[j].to < replies'[k].to)
  BY <1>1, <1>3, <1>5 DEF ProxyInv, D!WritesStayHere
<1>8. \A i \in DOMAIN inbox : D!Answered(i)' <=> ~D!Notification(inbox[i])
  BY <1>1, <1>6 DEF ProxyInv, D!WritesStayHere, D!Current
<1> QED
  BY <1>3, <1>4, <1>7, <1>8 DEF ProxyInv, D!WritesStayHere, MayPass, D!Notification

\* Every step keeps the writes here.
LEMMA ProxyStep == ProxyInv /\ D!Next => ProxyInv'
<1> SUFFICES ASSUME ProxyInv, D!Next PROVE ProxyInv'
  OBVIOUS
<1>1. CASE D!PreflightInitialize \/ D!PreflightNotify \/ D!PreflightList
  <2>1. UNCHANGED <<hints, settings, inbox, loop, forwarded, replies>>
    BY <1>1 DEF D!PreflightInitialize, D!PreflightNotify, D!PreflightList, D!Configured, D!proxied
  <2> QED
    BY <2>1 DEF ProxyInv, D!WritesStayHere, MayPass, D!Current, D!Notification, D!Answered
<1>2. CASE D!Read
  <2> PICK m \in Messages :
        /\ inbox' = Append(inbox, m)
        /\ loop' = IF D!Notification(m) \/ m.method # "tools/call" THEN "calling"
                   ELSE IF m.tool \in toolCache THEN "deciding" ELSE "listing"
    BY <1>2 DEF D!Read
  <2>1. loop = "idle" /\ UNCHANGED <<hints, settings, forwarded, replies>>
    BY <1>2 DEF D!Read, D!Configured
  <2>2. /\ inbox' \in Seq(Messages) /\ Len(inbox') = Len(inbox) + 1 /\ inbox'[Len(inbox')] = m
        /\ \A i \in DOMAIN inbox : inbox'[i] = inbox[i]
        /\ DOMAIN inbox = 1..Len(inbox) /\ DOMAIN inbox' = 1..(Len(inbox) + 1) /\ Len(inbox) \in Nat
        /\ inbox' # <<>>
    BY DEF ProxyInv
  <2>3. loop' # "idle"
    OBVIOUS
  <2>4. \A i : D!Answered(i)' <=> D!Answered(i)
    BY <2>1 DEF D!Answered
  <2>5. ~D!Answered(Len(inbox) + 1)
    BY <2>2 DEF D!Answered, ProxyInv, D!WritesStayHere
  <2>6. \A i \in DOMAIN inbox' :
          D!Answered(i)' <=> ~D!Notification(inbox'[i]) /\ i < Len(inbox')
    BY <2>1, <2>2, <2>4, <2>5 DEF ProxyInv, D!WritesStayHere
  <2>7. \A i \in forwarded : i \in DOMAIN inbox /\ MayPass(inbox[i])
    BY DEF ProxyInv, D!WritesStayHere, MayPass
  <2>8. D!WritesStayHere'
    BY <2>1, <2>2, <2>3, <2>6, <2>7 DEF ProxyInv, D!WritesStayHere, MayPass, D!Notification
  <2>9. (loop \in {"listing", "deciding"} => inbox # <<>> /\ ~D!Notification(D!Current))'
    BY <2>2 DEF D!Current, D!Notification
  <2>10. (loop = "calling" => inbox # <<>> /\ MayPass(D!Current))'
    BY <2>2 DEF D!Current, D!Notification, MayPass
  <2> QED
    BY <2>1, <2>2, <2>7, <2>8, <2>9, <2>10 DEF ProxyInv
<1>3. CASE D!ListForCall
  BY <1>3, NothingAnswered DEF D!ListForCall, D!Configured, ProxyInv
<1>4. CASE D!ReadOnlyCall
  BY <1>4, NothingAnswered DEF D!ReadOnlyCall, D!Configured, ProxyInv, D!Write, MayPass
<1>5. CASE D!RpcThrows
  BY <1>5, NothingAnswered DEF D!RpcThrows, D!Configured, ProxyInv
<1>6. CASE D!PlannedWrite
  BY <1>6, AnswerInTurn DEF D!PlannedWrite, D!Configured, ProxyInv
<1>7. CASE D!Forward
  <2>1. /\ loop = "calling" /\ loop' = "idle" /\ UNCHANGED <<inbox, hints, settings>>
        /\ forwarded' = forwarded \cup {Len(inbox)}
        /\ inbox # <<>> /\ MayPass(D!Current)
    BY <1>7 DEF D!Forward, D!Configured, ProxyInv
  <2>2. CASE ~D!Notification(D!Current)
    BY <1>7, <2>1, <2>2, AnswerInTurn DEF D!Forward
  <2>3. CASE D!Notification(D!Current)
    <3>1. replies' = replies
      BY <1>7, <2>3 DEF D!Forward
    <3>2. Len(inbox) \in DOMAIN inbox /\ DOMAIN inbox = 1..Len(inbox) /\ Len(inbox) \in Nat
      BY <2>1 DEF ProxyInv
    <3>3. \A i \in forwarded' : i \in DOMAIN inbox /\ MayPass(inbox[i])
      BY <2>1, <3>2 DEF ProxyInv, D!WritesStayHere, MayPass, D!Current
    <3>4. \A i : D!Answered(i)' <=> D!Answered(i)
      BY <3>1 DEF D!Answered
    <3>5. \A i \in DOMAIN inbox : D!Answered(i) <=> ~D!Notification(inbox[i])
      BY <2>1, <2>3, <3>2 DEF ProxyInv, D!WritesStayHere, D!Current
    <3> QED
      BY <2>1, <3>1, <3>3, <3>4, <3>5 DEF ProxyInv, D!WritesStayHere, MayPass, D!Notification
  <2> QED
    BY <2>2, <2>3
<1> QED
  BY <1>1, <1>2, <1>3, <1>4, <1>5, <1>6, <1>7 DEF D!Next

-------------------------------------------------------------------------------
(* GenerateWizard: which promise is in flight on which prompt, and who holds the connection. *)

Configuring == {"loadingServers", "selectServer", "configTransport", "configStdio", "configHttp"}

WizardConn ==
  /\ mcpConfig \in BOOLEAN
  /\ W!Gone \/ step \in Configuring => client # "open"
  /\ stray = "open" => flight = "listTools"
  /\ flight \in {"connect", "listTools", "stat"} => mcpConfig /\ step \in {"connecting", "gone"}
  /\ flight = "callTool" => step \in {"callingTool", "gone"}
  /\ flight = "saveDataset" => step \in {"saving", "gone"}
  /\ flight \in {"none", "connect", "listTools", "stat", "callTool", "saveDataset"}

\* What the prompts of a case leave alone.
LEMMA CasePrompts ==
  ASSUME W!CaseId \/ W!CaseDescription \/ W!UseTextContains \/ W!UseRegex \/ W!UseExact
           \/ W!UseSnapshot
  PROVE  /\ step \in {"caseId", "caseDescription", "useTextContains", "useRegex", "useExact",
                      "useSnapshot"}
         /\ step' \in {"caseDescription", "useTextContains", "useRegex", "useExact",
                       "useSnapshot", "askContinue"}
         /\ UNCHANGED <<options, mcpConfig, flight, client, stray, output, form, reply, called>>
BY DEF W!CaseId, W!CaseDescription, W!UseTextContains, W!UseRegex, W!UseExact, W!UseSnapshot,
       W!Ask, W!AddCase, W!prompted, W!wizard

\* Wherever the wizard is left, what is in flight is accounted for.
LEMMA ConnectionStep == WizardConn /\ W!Next => WizardConn'
<1> SUFFICES ASSUME WizardConn, W!Next PROVE WizardConn'
  OBVIOUS
<1> USE DEF WizardConn, Configuring, W!Gone
<1>1. CASE W!LoadKnownServers \/ W!SelectServer \/ W!ConfigTransport \/ W!ConfigTyped \/ W!LoadConfig
  BY <1>1 DEF W!LoadKnownServers, W!SelectServer, W!ConfigTransport, W!ConfigTyped, W!LoadConfig,
              W!unconfigured
<1>2. CASE W!ConnectToServer \/ W!Connected \/ W!ListFails \/ W!ToolsListed \/ W!StatOutput
  BY <1>2 DEF W!ConnectToServer, W!Connected, W!ListFails, W!ToolsListed, W!StatOutput,
              W!untouched, W!GoTo
<1>3. CASE W!AppendConfirmed \/ W!AppendDeclined \/ W!DatasetName
  BY <1>3 DEF W!AppendConfirmed, W!AppendDeclined, W!DatasetName, W!wizard
<1>4. CASE W!SelectTool \/ W!EnterRawArgs
  BY <1>4 DEF W!SelectTool, W!EnterRawArgs, W!wizard
<1>5. CASE W!EnterArgField
  <2>1. /\ step = "enterArgField" /\ UNCHANGED <<mcpConfig, client, stray>>
        /\ \/ step' = "callingTool" /\ flight' = "callTool"
           \/ step' = step /\ flight' = flight
    BY <1>5 DEF W!EnterArgField
  <2> QED
    BY <2>1
<1>6. CASE W!CallAnswers \/ W!CallFails
  BY <1>6 DEF W!CallAnswers, W!CallFails, W!GoTo
<1>7. CASE W!ReviewResponse
  BY <1>7 DEF W!ReviewResponse, W!prompted, W!wizard
<1>8. CASE W!CaseId \/ W!CaseDescription \/ W!UseTextContains \/ W!UseRegex \/ W!UseExact
             \/ W!UseSnapshot
  BY <1>8, CasePrompts
<1>9. CASE W!AskContinue
  BY <1>9 DEF W!AskContinue, W!wizard
<1>10. CASE W!Finish \/ W!SaveDataset \/ W!Exit
  BY <1>10 DEF W!Finish, W!SaveDataset, W!Exit, W!untouched, W!GoTo
<1> QED
  BY <1>1, <1>2, <1>3, <1>4, <1>5, <1>6, <1>7, <1>8, <1>9, <1>10 DEF W!Next

-------------------------------------------------------------------------------
(* GenerateWizard: the case that is put together is of the answer on the screen, and *)
(* the dataset consists of earlier cases of the file and of cases that were seen.    *)

IsCase(c) == c = [tool |-> c.tool, args |-> c.args, expect |-> c.expect]

Expectations(text) ==
  {<<"containsText", W!TextContains(text)>>, <<"matchesPattern", W!Patterns(text)>>,
   <<"response", text>>, <<"snapshot">>}

Fits(c, call) == c.tool = call.tool /\ c.args = call.args /\ c.expect \subseteq Expectations(call.text)
Seen(c) == \E call \in called : Fits(c, call)

\* The case at work is of the answer on the screen.
CurrentFits == \E call \in called : call.text = reply.text /\ Fits(currentCase, call)

DatasetSeen ==
  \/ \A i \in DOMAIN dataset : Seen(dataset[i])
  \/ /\ Len(OldCases) <= Len(dataset)
     /\ \A i \in 1..Len(OldCases) : dataset[i] = OldCases[i]
     /\ \A i \in (Len(OldCases) + 1)..Len(dataset) : Seen(dataset[i])

WizardCases ==
  /\ IsCase(currentCase)
  /\ reply = [error |-> reply.error, text |-> reply.text]
  /\ \E Items : dataset \in Seq(Items)
  /\ output.kind = "dataset" => output.cases = OldCases \/ step \in {"done", "gone"}
  /\ step \in {"caseId", "caseDescription", "useTextContains", "useRegex", "useExact",
               "useSnapshot"} => CurrentFits
  /\ step = "reviewResponse" /\ ~reply.error => CurrentFits
  /\ DatasetSeen

CasePrompt == {"caseId", "caseDescription", "useTextContains", "useRegex", "useExact", "useSnapshot"}

\* A record of three fields takes a new one as it should.
LEMMA ExpectUpdates ==
  ASSUME NEW c, IsCase(c), NEW new
  PROVE  /\ IsCase([c EXCEPT !.expect = new])
         /\ [c EXCEPT !.expect = new].tool = c.tool
         /\ [c EXCEPT !.expect = new].args = c.args
         /\ [c EXCEPT !.expect = new].expect = new
BY DEF IsCase

\* Outside the prompts of a case nothing is seen or lost.
LEMMA CasesKept ==
  ASSUME WizardCases, UNCHANGED <<dataset, reply, currentCase, called, output>>,
         step' \notin CasePrompt, step' # "reviewResponse",
         step \in {"done", "gone"} => step' \in {"done", "gone"}
  PROVE  WizardCases'
<1>1. DatasetSeen'
  BY DEF WizardCases, DatasetSeen, Seen
<1> QED
  BY <1>1 DEF WizardCases, CasePrompt

\* An answer that is added to the calls takes nothing away.
LEMMA SeenStays ==
  ASSUME called \subseteq called', UNCHANGED dataset, DatasetSeen
  PROVE  DatasetSeen'
<1>1. \A c : Seen(c) => Seen(c)'
  BY DEF Seen
<1> QED
  BY <1>1 DEF DatasetSeen

\* A case that fits an answer is one more of the dataset.
LEMMA SeenGrows ==
  ASSUME WizardCases, NEW c, Seen(c), UNCHANGED called, dataset' = Append(dataset, c)
  PROVE  DatasetSeen' /\ \E Items : dataset' \in Seq(Items)
<1> PICK Items : dataset \in Seq(Items)
  BY DEF WizardCases
<1>1. dataset \in Seq(Items \cup {c})
  BY SeqDef
<1>2. /\ dataset' \in Seq(Items \cup {c}) /\ Len(dataset') = Len(dataset) + 1 /\ Len(dataset) \in Nat
      /\ \A i \in 1..Len(dataset) : dataset'[i] = dataset[i]
      /\ dataset'[Len(dataset) + 1] = c /\ DOMAIN dataset' = 1..(Len(dataset) + 1)
      /\ DOMAIN dataset = 1..Len(dataset)
  BY <1>1
<1>3. Len(OldCases) \in Nat
  BY WizardAssumption
<1>4. \A d : Seen(d)' <=> Seen(d)
  BY DEF Seen
<1>5. CASE \A i \in DOMAIN dataset : Seen(dataset[i])
  <2>1. \A i \in DOMAIN dataset' : Seen(dataset'[i])
    BY <1>2, <1>5
  <2> QED
    BY <1>2, <1>4, <2>1 DEF DatasetSeen
<1>6. CASE /\ Len(OldCases) <= Len(dataset)
           /\ \A i \in 1..Len(OldCases) : dataset[i] = OldCases[i]
           /\ \A i \in (Len(OldCases) + 1)..Len(dataset) : Seen(dataset[i])
  <2>1. /\ Len(OldCases) <= Len(dataset')
        /\ \A i \in 1..Len(OldCases) : dataset'[i] = OldCases[i]
    BY <1>2, <1>3, <1>6
  <2>2. \A i \in (Len(OldCases) + 1)..Len(dataset') : Seen(dataset'[i])
    BY <1>2, <1>3, <1>6
  <2> QED
    BY <1>2, <1>4, <2>1, <2>2 DEF DatasetSeen
<1> QED
  BY <1>2, <1>5, <1>6 DEF WizardCases, DatasetSeen

\* A prompt about an expectation adds one of the answer on the screen.
LEMMA AskFits ==
  ASSUME WizardCases, CurrentFits, UNCHANGED <<reply, called>>,
         NEW expectation \in Expectations(reply.text),
         currentCase' \in {currentCase, [currentCase EXCEPT !.expect = @ \cup {expectation}]}
  PROVE  IsCase(currentCase)' /\ CurrentFits'
<1> PICK call \in called : call.text = reply.text /\ Fits(currentCase, call)
  BY DEF CurrentFits
<1>1. CASE currentCase' = currentCase
  BY <1>1 DEF WizardCases, CurrentFits
<1>2. CASE currentCase' = [currentCase EXCEPT !.expect = @ \cup {expectation}]
  <2>1. /\ IsCase(currentCase') /\ currentCase'.tool = currentCase.tool
        /\ currentCase'.args = currentCase.args
        /\ currentCase'.expect = currentCase.expect \cup {expectation}
    BY <1>2, ExpectUpdates DEF WizardCases
  <2>2. Fits(currentCase', call)
    BY <2>1 DEF Fits
  <2> QED
    BY <2>1, <2>2 DEF CurrentFits
<1> QED
  BY <1>1, <1>2

\* Every case of the dataset was seen, whatever the user does.
LEMMA CasesStep == WizardConn /\ WizardCases /\ W!Next => WizardCases'
<1> SUFFICES ASSUME WizardConn, WizardCases, W!Next PROVE WizardCases'
  OBVIOUS
<1>1. CASE W!LoadKnownServers \/ W!SelectServer \/ W!ConfigTransport \/ W!ConfigTyped \/ W!LoadConfig
  BY <1>1, CasesKept DEF W!LoadKnownServers, W!SelectServer, W!ConfigTransport, W!ConfigTyped,
              W!LoadConfig, W!unconfigured, CasePrompt
<1>2. CASE W!ConnectToServer \/ W!Connected \/ W!ListFails \/ W!ToolsListed \/ W!StatOutput
  BY <1>2, CasesKept DEF W!ConnectToServer, W!Connected, W!ListFails, W!ToolsListed,
              W!StatOutput, W!untouched, W!GoTo, W!Gone, WizardConn, CasePrompt
<1>3. CASE W!AppendConfirmed
  <2>1. CASE output.kind = "dataset"
    <3>1. dataset' = OldCases /\ step' = "selectTool" /\ UNCHANGED <<output, reply, currentCase, called>>
      BY <1>3, <2>1 DEF W!AppendConfirmed, WizardCases, W!wizard
    <3>2. DatasetSeen' /\ \E Items : dataset' \in Seq(Items)
      BY <3>1, WizardAssumption DEF DatasetSeen
    <3>3. output.cases = OldCases
      BY <1>3, <2>1 DEF W!AppendConfirmed, WizardCases
    <3> QED
      BY <3>1, <3>2, <3>3 DEF WizardCases
  <2>2. CASE output.kind # "dataset"
    BY <1>3, <2>2, CasesKept DEF W!AppendConfirmed, W!wizard, CasePrompt
  <2> QED
    BY <2>1, <2>2
<1>4. CASE W!AppendDeclined \/ W!DatasetName \/ W!SelectTool \/ W!EnterRawArgs
  BY <1>4, CasesKept DEF W!AppendDeclined, W!DatasetName, W!SelectTool, W!EnterRawArgs, W!wizard,
              CasePrompt
<1>5. CASE W!EnterArgField
  <2>1. /\ step = "enterArgField" /\ step' \in {"callingTool", "enterArgField"}
        /\ UNCHANGED <<dataset, reply, currentCase, called, output>>
    BY <1>5 DEF W!EnterArgField
  <2> QED
    BY <2>1, CasesKept DEF CasePrompt
<1>6. CASE W!CallAnswers
  <2>1. step' \in {"reviewResponse", "gone"} /\ UNCHANGED <<output, dataset>>
        /\ step \in {"callingTool", "gone"} /\ (step = "gone" => step' = "gone")
    BY <1>6 DEF W!CallAnswers, W!GoTo, W!Gone, WizardConn
  <2> PICK text \in ToolAnswers :
        /\ reply' = [error |-> FALSE, text |-> text]
        /\ currentCase' = [tool |-> form.tool, args |-> form.args, expect |-> {}]
        /\ called' = called \cup {[tool |-> form.tool, args |-> form.args, text |-> text]}
    BY <1>6 DEF W!CallAnswers
  <2>2. IsCase(currentCase')
    BY DEF IsCase
  <2>3. CurrentFits'
    <3> DEFINE call == [tool |-> form.tool, args |-> form.args, text |-> text]
    <3>1. call \in called' /\ call.text = reply'.text /\ Fits(currentCase', call)
      BY DEF Fits
    <3> QED
      BY <3>1 DEF CurrentFits
  <2>4. DatasetSeen'
    BY <2>1, SeenStays DEF WizardCases
  <2> QED
    BY <2>1, <2>2, <2>3, <2>4 DEF WizardCases
<1>7. CASE W!CallFails
  <2>1. /\ step' \in {"reviewResponse", "gone"} /\ UNCHANGED <<output, dataset, currentCase, called>>
        /\ step \in {"callingTool", "gone"} /\ (step = "gone" => step' = "gone")
        /\ reply' = [reply EXCEPT !.error = TRUE]
    BY <1>7 DEF W!CallFails, W!GoTo, W!Gone, WizardConn
  <2>2. reply' = [error |-> TRUE, text |-> reply.text]
    BY <2>1 DEF WizardCases
  <2>3. DatasetSeen'
    BY <2>1, SeenStays DEF WizardCases
  <2> QED
    BY <2>1, <2>2, <2>3 DEF WizardCases
<1>8. CASE W!ReviewResponse \/ W!CaseId
  <2>1. UNCHANGED <<output, dataset, currentCase, called, reply>>
    BY <1>8 DEF W!ReviewResponse, W!CaseId, W!prompted, W!wizard
  <2>2. step' \in CasePrompt => CurrentFits
    BY <1>8 DEF W!ReviewResponse, W!CaseId, WizardCases, CasePrompt
  <2>3. step' # "reviewResponse" /\ step \notin {"done", "gone"}
    BY <1>8 DEF W!ReviewResponse, W!CaseId
  <2>4. DatasetSeen'
    BY <2>1, SeenStays DEF WizardCases
  <2> QED
    BY <2>1, <2>2, <2>3, <2>4 DEF WizardCases, CasePrompt, CurrentFits
<1>9. CASE W!UseTextContains \/ W!UseRegex \/ W!UseExact
  <2>1. /\ step \in CasePrompt /\ step' # "reviewResponse"
        /\ UNCHANGED <<output, dataset, called, reply>>
    BY <1>9 DEF W!UseTextContains, W!UseRegex, W!UseExact, W!Ask, W!prompted, W!wizard, CasePrompt
  <2>2. PICK expectation \in Expectations(reply.text) :
          currentCase' \in {currentCase, [currentCase EXCEPT !.expect = @ \cup {expectation}]}
    <3>1. CASE W!UseTextContains
      BY <3>1 DEF W!UseTextContains, W!Ask, Expectations
    <3>2. CASE W!UseRegex
      BY <3>2 DEF W!UseRegex, W!Ask, Expectations
    <3>3. CASE W!UseExact
      BY <3>3 DEF W!UseExact, W!Ask, Expectations
    <3> QED
      BY <1>9, <3>1, <3>2, <3>3
  <2>3. IsCase(currentCase)' /\ CurrentFits'
    BY <2>1, <2>2, AskFits DEF WizardCases, CasePrompt
  <2>4. DatasetSeen'
    BY <2>1, SeenStays DEF WizardCases
  <2> QED
    BY <2>1, <2>3, <2>4 DEF WizardCases, CasePrompt
<1>10. CASE W!CaseDescription \/ W!UseSnapshot
  <2>1. /\ CurrentFits /\ step' \in {"useTextContains", "askContinue"} /\ step \in CasePrompt
        /\ UNCHANGED <<output, called, reply, currentCase>>
    BY <1>10 DEF W!CaseDescription, W!UseSnapshot, W!AddCase, W!prompted, W!wizard, WizardCases,
                 CasePrompt
  <2>2. PICK call \in called : call.text = reply.text /\ Fits(currentCase, call)
    BY <2>1 DEF CurrentFits
  <2>3. \/ dataset' = dataset
        \/ /\ step' = "askContinue"
           /\ \E expect \in SUBSET Expectations(reply.text) :
                dataset' = Append(dataset, [currentCase EXCEPT !.expect = expect])
    BY <1>10, <2>2 DEF W!CaseDescription, W!UseSnapshot, W!AddCase, Expectations, Fits
  <2>4. CASE dataset' = dataset
    <3>1. DatasetSeen'
      BY <2>1, <2>4, SeenStays DEF WizardCases
    <3> QED
      BY <2>1, <2>4, <3>1 DEF WizardCases, CasePrompt, CurrentFits
  <2>5. CASE /\ step' = "askContinue"
             /\ \E expect \in SUBSET Expectations(reply.text) :
                  dataset' = Append(dataset, [currentCase EXCEPT !.expect = expect])
    <3> PICK expect \in SUBSET Expectations(reply.text) :
               dataset' = Append(dataset, [currentCase EXCEPT !.expect = expect])
      BY <2>5
    <3> DEFINE new == [currentCase EXCEPT !.expect = expect]
    <3>1. new.tool = currentCase.tool /\ new.args = currentCase.args /\ new.expect = expect
      BY ExpectUpdates DEF WizardCases
    <3>2. Seen(new)
      BY <2>2, <3>1 DEF Seen, Fits
    <3> HIDE DEF new
    <3>3. DatasetSeen' /\ \E Items : dataset' \in Seq(Items)
      BY <2>1, <3>2, SeenGrows DEF new
    <3> QED
      BY <2>1, <2>5, <3>3 DEF WizardCases, CasePrompt
  <2> QED
    BY <2>3, <2>4, <2>5
<1>11. CASE W!AskContinue
  <2>1. /\ step = "askContinue" /\ step' = "selectTool" /\ UNCHANGED <<output, dataset, called>>
        /\ reply' = W!EmptyReply /\ currentCase' = W!EmptyCase
    BY <1>11 DEF W!AskContinue, W!wizard
  <2>2. IsCase(currentCase') /\ reply' = [error |-> reply'.error, text |-> reply'.text]
    BY <2>1 DEF IsCase, W!EmptyCase, W!EmptyReply
  <2>3. DatasetSeen'
    BY <2>1, SeenStays DEF WizardCases
  <2> QED
    BY <2>1, <2>2, <2>3 DEF WizardCases
<1>12. CASE W!Finish \/ W!Exit
  BY <1>12, CasesKept DEF W!Finish, W!Exit, W!untouched, CasePrompt
<1>13. CASE W!SaveDataset
  <2>1. /\ UNCHANGED <<dataset, reply, currentCase, called>> /\ step \in {"saving", "gone"}
        /\ step' \in {"done", "error", "gone"} /\ (step = "gone" => step' = "gone")
        /\ output' = output \/ output'.kind = "garbage" \/ step' \in {"done", "gone"}
    BY <1>13 DEF W!SaveDataset, W!untouched, W!GoTo, W!Gone, WizardConn
  <2>2. DatasetSeen'
    BY <2>1, SeenStays DEF WizardCases
  <2> QED
    BY <2>1, <2>2 DEF WizardCases
<1> QED
  BY <1>1, <1>2, <1>3, <1>4, <1>5, <1>6, <1>7, <1>8, <1>9, <1>10, <1>11, <1>12, <1>13 DEF W!Next

\* What was seen is what the run asks of the new cases.
LEMMA DatasetWasSeen == WizardCases => W!CasesWereSeen
<1> SUFFICES ASSUME WizardCases, NEW c \in W!ToSet(W!NewCases)
             PROVE  Seen(c)
  BY DEF W!CasesWereSeen, Seen, Fits, Expectations
<1> PICK Items : dataset \in Seq(Items)
  BY DEF WizardCases
<1> PICK i \in DOMAIN W!NewCases : c = W!NewCases[i]
  BY DEF W!ToSet
<1> DEFINE n == Len(OldCases)
<1>1. n \in Nat /\ Len(dataset) \in Nat /\ DOMAIN dataset = 1..Len(dataset)
  BY WizardAssumption
<1>2. CASE Len(dataset) >= n /\ SubSeq(dataset, 1, n) = OldCases
  <2>1. W!NewCases = SubSeq(dataset, n + 1, Len(dataset))
    BY <1>2 DEF W!NewCases
  <2>2. \A j \in (n + 1)..Len(dataset) : dataset[j] \in Items
    BY <1>1
  <2>3. /\ i \in 1..(Len(dataset) - n) /\ c = dataset[n + i]
    BY <1>1, <1>2, <2>1, <2>2, SubSeqProperties
  <2> QED
    BY <1>1, <2>3 DEF WizardCases, DatasetSeen
<1>3. CASE ~(Len(dataset) >= n /\ SubSeq(dataset, 1, n) = OldCases)
  <2>1. W!NewCases = dataset
    BY <1>3 DEF W!NewCases
  <2>2. \A j \in DOMAIN dataset : Seen(dataset[j])
    <3> SUFFICES ASSUME Len(dataset) >= n, \A j \in 1..n : dataset[j] = OldCases[j]
                 PROVE  FALSE
      BY <1>1 DEF WizardCases, DatasetSeen
    <3>1. SubSeq(dataset, 1, n) = OldCases
      BY <1>1, WizardAssumption
    <3> QED
      BY <1>3, <3>1
  <2> QED
    BY <2>1, <2>2
<1> QED
  BY <1>2, <1>3

-------------------------------------------------------------------------------
(* StoredServers: a key leads back to itself. *)

UrlTypes == [scheme : {"http", "https"}, port : Seq({"8"}), path : Seq({"/", "a", "_", "!", "8"})]

\* A set of numbers has a least one.
LEMMA LeastNatural ==
  ASSUME NEW N \in SUBSET Nat, N # {}
  PROVE  \E i \in N : \A j \in N : i <= j
<1> DEFINE less == {p \in Nat \X Nat : p[1] < p[2]}
<1>1. IsWellFoundedOn(less, Nat)
  BY NatLessThanWellFounded DEF OpToRel
<1>2. N \subseteq Nat /\ N # {}
  OBVIOUS
<1>3. \E i \in N : \A j \in N : ~(<<j, i>> \in less)
  <2> HIDE DEF less
  <2> QED
    BY <1>1, <1>2, WFMin
<1>4. PICK i \in N : \A j \in N : ~(<<j, i>> \in less)
  BY <1>3
<1>5. ASSUME NEW j \in N PROVE i <= j
  <2>1. i \in Nat /\ j \in Nat
    OBVIOUS
  <2>2. ~(j < i)
    BY <1>4, <2>1
  <2> QED
    BY <2>1, <2>2
<1> QED
  BY <1>5

\* The first and the last of the characters that are no slash.
LEMMA StrippedEnds ==
  ASSUME NEW T, NEW path \in Seq(T)
  PROVE  LET clean == S!Stripped(path) IN
         /\ clean \in Seq(T)
         /\ clean # <<>> => clean[1] # "/" /\ clean[Len(clean)] # "/"
<1> DEFINE inner == {i \in DOMAIN path : path[i] # "/"}
           first == CHOOSE i \in inner : \A j \in inner : i <= j
           last == CHOOSE i \in inner : \A j \in inner : i >= j
<1>1. CASE inner = {}
  <2>1. S!Stripped(path) = <<>>
    BY <1>1 DEF S!Stripped
  <2> QED
    BY <2>1
<1>2. CASE inner # {}
  <2>1. DOMAIN path = 1..Len(path) /\ Len(path) \in Nat /\ inner \subseteq 1..Len(path)
    OBVIOUS
  <2>2. first \in inner /\ \A j \in inner : first <= j
    <3>1. inner \in SUBSET Nat
      BY <2>1
    <3>2. \E i \in inner : \A j \in inner : i <= j
      BY <1>2, <3>1, LeastNatural
    <3> QED
      BY <3>2
  <2>3. last \in inner /\ \A j \in inner : last >= j
    <3> DEFINE mirrored == {Len(path) - i : i \in inner}
    <3>1. mirrored \in SUBSET Nat /\ mirrored # {}
      BY <1>2, <2>1
    <3>2. \E i \in mirrored : \A j \in mirrored : i <= j
      BY <3>1, LeastNatural
    <3>3. PICK i \in inner : \A j \in mirrored : Len(path) - i <= j
      BY <3>2
    <3>4. \A j \in inner : Len(path) - i <= Len(path) - j
      BY <3>3
    <3>5. \A j \in inner : i >= j
      BY <2>1, <3>4
    <3> QED
      BY <3>5
  <2> HIDE DEF first, last
  <2>4. S!Stripped(path) = SubSeq(path, first, last)
    BY <1>2 DEF S!Stripped, first, last
  <2>5. first \in 1..Len(path) /\ last \in 1..Len(path) /\ first <= last
    BY <2>1, <2>2, <2>3
  <2>6. /\ SubSeq(path, first, last) \in Seq(T)
        /\ Len(SubSeq(path, first, last)) = last - first + 1
        /\ \A i \in 1..(last - first + 1) : SubSeq(path, first, last)[i] = path[first + i - 1]
    BY <2>1, <2>5
  <2>7. SubSeq(path, first, last)[1] = path[first] /\ SubSeq(path, first, last)[last - first + 1] = path[last]
    BY <2>1, <2>5, <2>6
  <2> QED
    BY <2>2, <2>3, <2>4, <2>6, <2>7
<1> QED
  BY <1>1, <1>2

\* A sequence with one more in front.
LEMMA Prefixed ==
  ASSUME NEW T, NEW e \in T, NEW s \in Seq(T), s # <<>>, NEW r, r = <<e>> \o s
  PROVE  /\ r \in Seq(T) /\ Len(r) \in Nat /\ Len(r) >= 2
         /\ r[1] = e /\ r[2] = s[1] /\ r[Len(r)] = s[Len(s)]
<1>1. Len(s) \in Nat /\ Len(s) >= 1
  OBVIOUS
<1>2. <<e>> \in Seq(T) /\ Len(<<e>>) = 1 /\ <<e>>[1] = e
  OBVIOUS
<1>3. /\ <<e>> \o s \in Seq(T) /\ Len(<<e>> \o s) = 1 + Len(s)
      /\ \A i \in 1..(1 + Len(s)) : (<<e>> \o s)[i] = IF i <= 1 THEN <<e>>[i] ELSE s[i - 1]
  BY <1>2, ConcatProperties
<1> QED
  BY <1>1, <1>2, <1>3

\* Two sequences that begin with the same and go on and end alike, one after the other.
LEMMA Concatenated ==
  ASSUME NEW T, NEW a \in Seq(T), NEW b \in Seq(T), NEW r, r = a \o b, Len(a) >= 2, Len(b) >= 2
  PROVE  /\ r \in Seq(T) /\ Len(r) \in Nat /\ Len(r) >= 2
         /\ r[1] = a[1] /\ r[2] = a[2] /\ r[Len(r)] = b[Len(b)]
<1>1. Len(a) \in Nat /\ Len(b) \in Nat
  OBVIOUS
<1>2. /\ r \in Seq(T) /\ Len(r) = Len(a) + Len(b)
      /\ \A i \in 1..(Len(a) + Len(b)) : r[i] = IF i <= Len(a) THEN a[i] ELSE b[i - Len(a)]
  BY ConcatProperties
<1> QED
  BY <1>1, <1>2

\* A sequence whose elements are replaced one by one.
LEMMA Replaced ==
  ASSUME NEW T, NEW n \in Nat, NEW f \in [1..n -> T]
  PROVE  f \in Seq(T) /\ Len(f) = n
<1>1. f \in Seq(T)
  BY SeqDef
<1>2. DOMAIN f = 1..Len(f) /\ Len(f) \in Nat /\ DOMAIN f = 1..n
  BY <1>1, LenProperties
<1>3. 1..Len(f) = 1..n
  BY <1>2
<1> QED
  BY <1>1, <1>2, <1>3

(* The characters, by what becomes of them; the proofs use Alphabet, not what they are. *)
Characters == {"/", "a", "_", "!", "8"}
Letters == {"a", "8"}
Unsafe == {"/", "!"}
Dash == "_"
Slash == "/"
KeyCharacters == Letters \cup {Dash}

\* How the characters differ.
LEMMA Alphabet ==
  /\ Dash \in Characters /\ Slash \in Characters /\ Letters \subseteq Characters
  /\ Dash \notin Unsafe /\ Slash \in Unsafe /\ Dash # Slash
  /\ \A c \in Letters : c \notin Unsafe /\ c # Dash /\ c # Slash
  /\ \A c \in Characters : c \in Letters \/ c \in Unsafe \/ c = Dash
BY DEF Characters, Letters, Unsafe, Dash, Slash

Joined(port, clean) ==
  (IF port = <<>> THEN <<>> ELSE <<Dash>> \o port) \o (IF clean = <<>> THEN <<>> ELSE <<Dash>> \o clean)

\* Nothing, or a dash and then what the port and the path begin and end with.
HasEnds(s, ends) ==
  s # <<>> => Len(s) >= 2 /\ s[1] = Dash /\ s[2] \in ends /\ s[Len(s)] \in ends

\* The text that becomes a key begins and ends like the port and the path it consists of.
LEMMA JoinedShape ==
  ASSUME NEW port \in Seq(Characters), NEW clean \in Seq(Characters), NEW ends,
         port # <<>> => port[1] \in ends /\ port[Len(port)] \in ends,
         clean # <<>> => clean[1] \in ends /\ clean[Len(clean)] \in ends
  PROVE  Joined(port, clean) \in Seq(Characters) /\ HasEnds(Joined(port, clean), ends)
<1> DEFINE a == <<Dash>> \o port
           b == <<Dash>> \o clean
<1>1. Dash \in Characters
  BY Alphabet
<1>2. port # <<>> => /\ a \in Seq(Characters) /\ Len(a) \in Nat /\ Len(a) >= 2
                     /\ a[1] = Dash /\ a[2] \in ends /\ a[Len(a)] \in ends
  BY <1>1, Prefixed
<1>3. clean # <<>> => /\ b \in Seq(Characters) /\ Len(b) \in Nat /\ Len(b) >= 2
                      /\ b[1] = Dash /\ b[2] \in ends /\ b[Len(b)] \in ends
  BY <1>1, Prefixed
<1> HIDE DEF a, b
<1>4. CASE port = <<>> /\ clean = <<>>
  <2>1. Joined(port, clean) = <<>>
    BY <1>4, ConcatEmptySeq DEF Joined
  <2> QED
    BY <2>1, EmptySeq DEF HasEnds
<1>5. CASE port = <<>> /\ clean # <<>>
  <2>1. Joined(port, clean) = b
    BY <1>3, <1>5, ConcatEmptySeq DEF Joined, b
  <2> QED
    BY <1>3, <1>5, <2>1 DEF HasEnds
<1>6. CASE port # <<>> /\ clean = <<>>
  <2>1. Joined(port, clean) = a
    BY <1>2, <1>6, ConcatEmptySeq DEF Joined, a
  <2> QED
    BY <1>2, <1>6, <2>1 DEF HasEnds
<1>7. CASE port # <<>> /\ clean # <<>>
  <2>1. Joined(port, clean) = a \o b
    BY <1>7 DEF Joined, a, b
  <2>2. /\ a \o b \in Seq(Characters) /\ Len(a \o b) >= 2
        /\ (a \o b)[1] = a[1] /\ (a \o b)[2] = a[2] /\ (a \o b)[Len(a \o b)] = b[Len(b)]
    BY <1>2, <1>3, <1>7, Concatenated
  <2> QED
    BY <1>2, <1>3, <1>7, <2>1, <2>2 DEF HasEnds
<1> QED
  BY <1>4, <1>5, <1>6, <1>7

Keyed(s) == [i \in DOMAIN s |-> IF s[i] \in Unsafe THEN Dash ELSE s[i]]

\* A key has the length and, but for what is unsafe, the characters of its text.
LEMMA KeyedShape ==
  ASSUME NEW s \in Seq(Characters)
  PROVE  /\ Keyed(s) \in Seq(KeyCharacters) /\ Len(Keyed(s)) = Len(s) /\ Len(s) \in Nat
         /\ \A i \in 1..Len(s) : Keyed(s)[i] = IF s[i] \in Unsafe THEN Dash ELSE s[i]
<1>1. DOMAIN s = 1..Len(s) /\ Len(s) \in Nat /\ \A i \in 1..Len(s) : s[i] \in Characters
  OBVIOUS
<1>2. Keyed(s) \in [1..Len(s) -> KeyCharacters]
  BY <1>1, Alphabet DEF Keyed, KeyCharacters
<1>3. \A i \in 1..Len(s) : Keyed(s)[i] = IF s[i] \in Unsafe THEN Dash ELSE s[i]
  BY <1>1 DEF Keyed
<1> QED
  BY <1>1, <1>2, <1>3, Replaced

\* A text that begins and ends so has a key that does.
LEMMA KeyedEnds ==
  ASSUME NEW s \in Seq(Characters), HasEnds(s, Letters)
  PROVE  HasEnds(Keyed(s), Letters)
<1>1. /\ Keyed(s) \in Seq(KeyCharacters) /\ Len(Keyed(s)) = Len(s) /\ Len(s) \in Nat
      /\ \A i \in 1..Len(s) : Keyed(s)[i] = IF s[i] \in Unsafe THEN Dash ELSE s[i]
  BY KeyedShape
<1> SUFFICES ASSUME Keyed(s) # <<>> PROVE HasEnds(Keyed(s), Letters)
  BY DEF HasEnds
<1>2. s # <<>>
  BY <1>1, EmptySeq
<1>3. Len(s) >= 2 /\ s[1] = Dash /\ s[2] \in Letters /\ s[Len(s)] \in Letters
  BY <1>2 DEF HasEnds
<1>4. 1 \in 1..Len(s) /\ 2 \in 1..Len(s) /\ Len(s) \in 1..Len(s)
  BY <1>1, <1>3
<1> QED
  BY <1>1, <1>3, <1>4, Alphabet DEF HasEnds

\* What a key is: nothing, or a "_" and letters, digits and further "_"; and unless the URL is
\* Ambiguous it neither goes on nor ends with one.
LEMMA KeyShape ==
  ASSUME NEW url \in UrlTypes
  PROVE  /\ S!ServerKey(url) \in Seq(KeyCharacters)
         /\ ~S!Ambiguous(url) => HasEnds(S!ServerKey(url), Letters)
<1> PICK port \in Seq({"8"}) : port = url.port
  BY DEF UrlTypes
<1> PICK path \in Seq(Characters) : path = url.path
  BY DEF UrlTypes, Characters
<1> PICK clean \in Seq(Characters) :
      /\ clean = S!Stripped(path)
      /\ clean # <<>> => clean[1] # "/" /\ clean[Len(clean)] # "/"
  BY StrippedEnds
<1> DEFINE s == Joined(port, clean)
<1>1. S!ServerKey(url) = Keyed(s)
  BY DEF S!ServerKey, Keyed, Joined, Dash, Unsafe
<1>2. port \in Seq(Characters)
  BY SeqMonotonic DEF Characters
<1>3. port # <<>> => port[1] \in Letters /\ port[Len(port)] \in Letters
  BY DEF Letters
<1>4. clean # <<>> => clean[1] \in Characters /\ clean[Len(clean)] \in Characters
  OBVIOUS
<1>5. s \in Seq(Characters)
  <2>1. port # <<>> => port[1] \in Characters /\ port[Len(port)] \in Characters
    BY <1>3, Alphabet
  <2> QED
    BY <1>2, <1>4, <2>1, JoinedShape, Zenon
<1>6. ASSUME ~S!Ambiguous(url) PROVE HasEnds(s, Letters)
  <2>1. clean # <<>> => {clean[1], S!Last(clean)} \cap {"_", "!"} = {}
    BY <1>6 DEF S!Ambiguous
  <2>2. clean # <<>> => clean[1] \notin {"_", "!"} /\ clean[Len(clean)] \notin {"_", "!"}
    BY <2>1 DEF S!Last
  <2>3. clean # <<>> => clean[1] \in Letters /\ clean[Len(clean)] \in Letters
    BY <1>4, <2>2 DEF Characters, Letters
  <2> QED
    BY <1>2, <1>3, <2>3, JoinedShape, Zenon
<1> HIDE DEF s
<1> QED
  BY <1>1, <1>5, <1>6, KeyedShape, KeyedEnds

\* One more in front, element by element.
LEMMA Shifted ==
  ASSUME NEW T, NEW e \in T, NEW s \in Seq(T), NEW r, r = <<e>> \o s
  PROVE  /\ r \in Seq(T) /\ Len(r) = Len(s) + 1 /\ Len(s) \in Nat
         /\ r[1] = e /\ \A i \in 1..Len(s) : r[i + 1] = s[i]
<1>1. <<e>> \in Seq(T) /\ Len(<<e>>) = 1 /\ <<e>>[1] = e
  OBVIOUS
<1>2. /\ <<e>> \o s \in Seq(T) /\ Len(<<e>> \o s) = 1 + Len(s) /\ Len(s) \in Nat
      /\ \A i \in 1..(1 + Len(s)) : (<<e>> \o s)[i] = IF i <= 1 THEN <<e>>[i] ELSE s[i - 1]
  BY <1>1, ConcatProperties
<1> QED
  BY <1>1, <1>2

\* A slash in front of what neither begins nor ends with one is all that is taken off.
LEMMA OneSlash ==
  ASSUME NEW T, NEW q \in Seq(T), NEW path \in Seq(T),
         Len(path) = Len(q) + 1, path[1] = Slash, \A i \in 1..Len(q) : path[i + 1] = q[i],
         q # <<>> => q[1] # Slash /\ q[Len(q)] # Slash
  PROVE  S!Stripped(path) = q
<1> DEFINE inner == {i \in DOMAIN path : path[i] # Slash}
           first == CHOOSE i \in inner : \A j \in inner : i <= j
           last == CHOOSE i \in inner : \A j \in inner : i >= j
<1>1. Len(q) \in Nat /\ DOMAIN path = 1..(Len(q) + 1)
  OBVIOUS
<1>2. CASE q = <<>>
  <2>1. inner = {}
    BY <1>1, <1>2
  <2> QED
    BY <1>2, <2>1 DEF S!Stripped, Slash
<1>3. CASE q # <<>>
  <2>1. Len(q) >= 1
    BY <1>1, <1>3, EmptySeq
  <2>2. 2 \in inner /\ Len(q) + 1 \in inner
    <3>1. 1 \in 1..Len(q) /\ Len(q) \in 1..Len(q) /\ 2 \in 1..(Len(q) + 1) /\ Len(q) + 1 \in 1..(Len(q) + 1)
      BY <1>1, <2>1
    <3>2. path[2] = q[1] /\ path[Len(q) + 1] = q[Len(q)]
      BY <3>1
    <3> QED
      BY <1>1, <1>3, <3>1, <3>2
  <2>3. \A j \in inner : j \in Nat /\ 2 <= j /\ j <= Len(q) + 1
    BY <1>1
  <2>4. first = 2
    <3>1. first \in inner /\ \A j \in inner : first <= j
      BY <2>2, <2>3
    <3> QED
      BY <2>2, <2>3, <3>1
  <2>5. last = Len(q) + 1
    <3>1. last \in inner /\ \A j \in inner : last >= j
      BY <1>1, <2>2, <2>3
    <3> QED
      BY <1>1, <2>2, <2>3, <3>1
  <2>6. S!Stripped(path) = SubSeq(path, 2, Len(q) + 1)
    BY <2>2, <2>4, <2>5 DEF S!Stripped, Slash
  <2>7. /\ SubSeq(path, 2, Len(q) + 1) \in Seq(T) /\ Len(SubSeq(path, 2, Len(q) + 1)) = Len(q)
        /\ \A i \in 1..Len(q) : SubSeq(path, 2, Len(q) + 1)[i] = q[i]
    BY <1>1, <2>1
  <2> QED
    BY <2>6, <2>7, SeqEqual
<1> QED
  BY <1>2, <1>3

\* What KnownUrl makes of a key.
Guessed(key) == [i \in 1..(Len(key) - 1) |-> IF key[i + 1] = Dash THEN Slash ELSE key[i + 1]]

\* It has the places of the key but the first, and slashes for its "_".
LEMMA GuessedShape ==
  ASSUME NEW key \in Seq(KeyCharacters), key # <<>>
  PROVE  /\ Guessed(key) \in Seq(Characters) /\ Len(Guessed(key)) = Len(key) - 1 /\ Len(key) - 1 \in Nat
         /\ \A i \in 1..(Len(key) - 1) :
              /\ key[i + 1] = Dash => Guessed(key)[i] = Slash
              /\ key[i + 1] # Dash => Guessed(key)[i] = key[i + 1] /\ key[i + 1] \in Letters
<1>1. Len(key) - 1 \in Nat
  BY EmptySeq
<1>2. \A i \in 1..(Len(key) - 1) : key[i + 1] \in KeyCharacters
  BY <1>1
<1>3. \A i \in 1..(Len(key) - 1) :
        /\ key[i + 1] = Dash => Guessed(key)[i] = Slash
        /\ key[i + 1] # Dash => Guessed(key)[i] = key[i + 1] /\ key[i + 1] \in Letters
  BY <1>2 DEF Guessed, KeyCharacters
<1>4. Guessed(key) \in [1..(Len(key) - 1) -> Characters]
  BY <1>2, Alphabet DEF Guessed, KeyCharacters
<1> QED
  BY <1>1, <1>3, <1>4, Replaced

\* A key that has two letters at its ends comes back from the path that is guessed from it.
LEMMA GuessLeadsBack ==
  ASSUME NEW key \in Seq(KeyCharacters), key # <<>>, HasEnds(key, Letters)
  PROVE  Keyed(Joined(<<>>, S!Stripped(<<Slash>> \o Guessed(key)))) = key
<1> DEFINE q == Guessed(key)
           path == <<Slash>> \o q
           joined == <<Dash>> \o q
<1>1. /\ q \in Seq(Characters) /\ Len(q) = Len(key) - 1 /\ Len(key) - 1 \in Nat
      /\ \A i \in 1..(Len(key) - 1) :
           /\ key[i + 1] = Dash => q[i] = Slash
           /\ key[i + 1] # Dash => q[i] = key[i + 1] /\ key[i + 1] \in Letters
  BY GuessedShape
<1> HIDE DEF q
<1>2. Len(key) >= 2 /\ key[1] = Dash /\ key[2] \in Letters /\ key[Len(key)] \in Letters
  BY DEF HasEnds
<1>3. Len(q) \in Nat /\ Len(q) >= 1 /\ Len(key) = Len(q) + 1
  BY <1>1, <1>2
<1>4. q # <<>> /\ q[1] # Slash /\ q[Len(q)] # Slash
  <2>1. 1 \in 1..Len(q) /\ Len(q) \in 1..Len(q)
    BY <1>3
  <2>2. key[1 + 1] \in Letters /\ key[Len(q) + 1] \in Letters
    BY <1>2, <1>3
  <2>3. q[1] = key[1 + 1] /\ q[Len(q)] = key[Len(q) + 1]
    BY <1>1, <1>3, <2>1, <2>2, Alphabet
  <2>4. q # <<>>
    BY <1>3, EmptySeq
  <2> QED
    BY <2>2, <2>3, <2>4, Alphabet
<1>5. /\ path \in Seq(Characters) /\ Len(path) = Len(q) + 1 /\ path[1] = Slash
      /\ \A i \in 1..Len(q) : path[i + 1] = q[i]
  BY <1>1, Alphabet, Shifted
<1>6. /\ joined \in Seq(Characters) /\ Len(joined) = Len(q) + 1 /\ joined[1] = Dash
      /\ \A i \in 1..Len(q) : joined[i + 1] = q[i]
  BY <1>1, Alphabet, Shifted
<1>7. Joined(<<>>, q) = joined
  BY <1>4, <1>6, ConcatEmptySeq DEF Joined
<1> HIDE DEF path, joined
<1>8. S!Stripped(path) = q
  BY <1>1, <1>4, <1>5, OneSlash
<1>9. Keyed(joined) = key
  <2>1. /\ Keyed(joined) \in Seq(KeyCharacters) /\ Len(Keyed(joined)) = Len(joined)
        /\ \A i \in 1..Len(joined) : Keyed(joined)[i] = IF joined[i] \in Unsafe THEN Dash ELSE joined[i]
    BY <1>6, KeyedShape
  <2>2. ASSUME NEW i \in 1..Len(key) PROVE Keyed(joined)[i] = key[i]
    <3>1. CASE i = 1
      BY <1>2, <1>3, <1>6, <2>1, <3>1, Alphabet
    <3>2. CASE i # 1
      <4>1. i - 1 \in 1..Len(q) /\ (i - 1) + 1 = i /\ i \in 1..Len(joined)
        BY <1>3, <1>6, <3>2
      <4>2. joined[i] = q[i - 1]
        BY <1>6, <4>1
      <4>3. /\ key[i] = Dash => q[i - 1] = Slash
            /\ key[i] # Dash => q[i - 1] = key[i] /\ key[i] \in Letters
        BY <1>1, <1>3, <4>1
      <4> QED
        BY <2>1, <4>1, <4>2, <4>3, Alphabet
    <3> QED
      BY <3>1, <3>2
  <2> QED
    BY <1>3, <1>6, <2>1, <2>2, SeqEqual
<1> QED
  BY <1>7, <1>8, <1>9 DEF path, q

\* Unless a URL is Ambiguous, the URL that is guessed from its key has that key.
LEMMA KeyLeadsBack ==
  ASSUME NEW url \in UrlTypes, ~S!Ambiguous(url)
  PROVE  S!ServerKey(S!KnownUrl(S!ServerKey(url))) = S!ServerKey(url)
<1> PICK key \in Seq(KeyCharacters) : key = S!ServerKey(url) /\ HasEnds(key, Letters)
  BY KeyShape
<1> DEFINE guess == S!KnownUrl(key)
<1>1. guess.port = <<>> /\ guess.path = <<Slash>> \o Guessed(key)
  BY DEF S!KnownUrl, Guessed, Dash, Slash
<1>2. S!ServerKey(guess) = Keyed(Joined(<<>>, S!Stripped(<<Slash>> \o Guessed(key))))
  BY <1>1 DEF S!ServerKey, Keyed, Joined, Dash, Unsafe
<1>3. CASE key = <<>>
  <2>1. Guessed(key) \in Seq(Characters) /\ Guessed(key) = <<>>
    BY <1>3, EmptySeq DEF Guessed
  <2>2. /\ <<Slash>> \o Guessed(key) \in Seq(Characters) /\ Len(<<Slash>> \o Guessed(key)) = 1
        /\ (<<Slash>> \o Guessed(key))[1] = Slash
    BY <2>1, Alphabet, Shifted
  <2>3. S!Stripped(<<Slash>> \o Guessed(key)) = <<>>
    <3>1. ASSUME NEW path \in Seq(Characters), Len(path) = 1, path[1] = Slash
          PROVE  S!Stripped(path) = <<>>
      <4>1. DOMAIN path = 1..1
        BY <3>1
      <4>2. {i \in DOMAIN path : path[i] # "/"} = {}
        BY <3>1, <4>1 DEF Slash
      <4> QED
        BY <4>2 DEF S!Stripped
    <3> QED
      BY <2>2, <3>1
  <2>4. Joined(<<>>, <<>>) = <<>>
    BY ConcatEmptySeq DEF Joined
  <2>5. Keyed(<<>>) = <<>>
    BY DEF Keyed
  <2> QED
    BY <1>2, <1>3, <2>3, <2>4, <2>5
<1>4. CASE key # <<>>
  BY <1>2, <1>4, GuessLeadsBack
<1> QED
  BY <1>3, <1>4

-------------------------------------------------------------------------------
(* StoredServers: what is in a directory was issued for a URL with its key. *)

StoredTokens(key) ==
  {tokens \in [url : Urls, access : {TRUE}, refresh : BOOLEAN, expiresAt : Times \cup {-1}] :
     S!ServerKey(tokens.url) = key}

ServersInv ==
  /\ \A key \in DOMAIN disk : disk[key] = S!None \/ \E tokens \in StoredTokens(key) : disk[key] = <<tokens>>
  /\ \A url \in Urls : S!ServerKey(url) \in DOMAIN disk
  /\ shell = [step |-> shell.step, url |-> shell.url, tokens |-> shell.tokens]
  /\ shell.step = "authenticating" => \E url \in Urls : shell.url = <<url>>
  /\ shell.step = "selected" =>
       \/ shell.tokens # S!None
       \/ \E key \in DOMAIN disk : /\ disk[key] # S!None /\ S!Ambiguous(disk[key][1].url)
                                  /\ S!KnownUrl(key) = shell.url[1]
  /\ shell.step = "exported" =>
       \E key, tokens : tokens \in StoredTokens(key) /\ shell.tokens = <<tokens>> /\ env = S!EnvFormat(tokens)

\* Tokens that are stored for a URL are in the directory of its key.
LEMMA StoreStep ==
  ASSUME ServersInv, NEW url \in Urls,
         NEW tokens, tokens = S!None \/ \E t \in S!Tokens(url) : tokens = <<t>>,
         S!Store(url, tokens)
  PROVE  /\ \A key \in DOMAIN disk' : disk'[key] = S!None \/ \E t \in StoredTokens(key) : disk'[key] = <<t>>
         /\ \A u \in Urls : S!ServerKey(u) \in DOMAIN disk'
<1>1. \A t \in S!Tokens(url) : t \in StoredTokens(S!ServerKey(url))
  BY DEF S!Tokens, StoredTokens
<1>2. DOMAIN disk' = DOMAIN disk /\ \A key \in DOMAIN disk :
        disk'[key] = IF key = S!ServerKey(url) THEN tokens ELSE disk[key]
  BY DEF S!Store
<1> QED
  BY <1>1, <1>2 DEF ServersInv

\* No command loses the tokens of a server that is offered, or exports others.
LEMMA ServersStep == ServersInv /\ S!Next => ServersInv'
<1> SUFFICES ASSUME ServersInv, S!Next PROVE ServersInv'
  OBVIOUS
<1>1. CASE S!Login
  <2> PICK url \in Urls, force \in BOOLEAN :
        /\ shell' = [step |-> "authenticating", url |-> <<url>>, tokens |-> S!None]
        /\ IF force THEN S!Store(url, S!None) ELSE UNCHANGED disk
    BY <1>1 DEF S!Login
  <2>1. /\ \A key \in DOMAIN disk' : disk'[key] = S!None \/ \E t \in StoredTokens(key) : disk'[key] = <<t>>
        /\ \A u \in Urls : S!ServerKey(u) \in DOMAIN disk'
    BY StoreStep DEF ServersInv
  <2>2. shell'.step = "authenticating" /\ shell'.url = <<url>>
    OBVIOUS
  <2> QED
    BY <2>1, <2>2 DEF ServersInv
<1>2. CASE S!Authenticate
  <2> PICK url \in Urls : shell.url = <<url>>
    BY <1>2 DEF S!Authenticate, ServersInv
  <2>1. \/ /\ UNCHANGED disk
           /\ \/ shell' = [shell EXCEPT !.step = "done", !.tokens = disk[S!ServerKey(url)]]
              \/ shell' = [shell EXCEPT !.step = "error"]
        \/ \E tokens \in S!Tokens(url) :
             /\ S!Store(url, <<tokens>>)
             /\ shell' = [shell EXCEPT !.step = "done", !.tokens = <<tokens>>]
    <3>1. shell.url[1] = url
      OBVIOUS
    <3> QED
      BY <1>2, <3>1, Zenon DEF S!Authenticate
  <2>2. /\ \A key \in DOMAIN disk' : disk'[key] = S!None \/ \E t \in StoredTokens(key) : disk'[key] = <<t>>
        /\ \A u \in Urls : S!ServerKey(u) \in DOMAIN disk'
    BY <2>1, StoreStep DEF ServersInv
  <2>3. /\ shell' = [step |-> shell'.step, url |-> shell'.url, tokens |-> shell'.tokens]
        /\ shell'.step \in {"done", "error"}
    BY <2>1 DEF ServersInv
  <2> QED
    BY <2>2, <2>3 DEF ServersInv
<1>3. CASE S!Token
  <2> PICK url \in Urls :
        LET stored == disk[S!ServerKey(url)]
        IN /\ shell' = [step |-> IF stored = S!None THEN "error" ELSE "exported",
                        url |-> <<url>>, tokens |-> stored]
           /\ env' = IF stored = S!None THEN env ELSE S!EnvFormat(stored[1])
    BY <1>3 DEF S!Token
  <2>1. disk' = disk
    BY <1>3 DEF S!Token
  <2>2. CASE disk[S!ServerKey(url)] = S!None
    <3>1. shell' = [step |-> "error", url |-> <<url>>, tokens |-> S!None]
      BY <2>2
    <3> QED
      BY <2>1, <3>1 DEF ServersInv
  <2>3. CASE disk[S!ServerKey(url)] # S!None
    <3> PICK tokens \in StoredTokens(S!ServerKey(url)) : disk[S!ServerKey(url)] = <<tokens>>
      BY <2>3 DEF ServersInv
    <3>1. shell' = [step |-> "exported", url |-> <<url>>, tokens |-> <<tokens>>] /\ env' = S!EnvFormat(tokens)
      BY <2>3
    <3> QED
      BY <2>1, <3>1 DEF ServersInv
  <2> QED
    BY <2>2, <2>3
<1>4. CASE S!SelectKnown
  <2> PICK key \in DOMAIN disk :
        /\ disk[key] # S!None
        /\ shell' = [step |-> "selected", url |-> <<S!KnownUrl(key)>>,
                     tokens |-> IF S!ServerKey(S!KnownUrl(key)) \in DOMAIN disk
                                THEN disk[S!ServerKey(S!KnownUrl(key))] ELSE S!None]
    BY <1>4 DEF S!SelectKnown
  <2>1. UNCHANGED <<disk, env>>
    BY <1>4 DEF S!SelectKnown
  <2> PICK tokens \in StoredTokens(key) : disk[key] = <<tokens>>
    BY DEF ServersInv
  <2>2. tokens.url \in UrlTypes /\ S!ServerKey(tokens.url) = key
    BY ServersAssumption DEF StoredTokens, UrlTypes
  <2>3. disk[key][1].url = tokens.url
    OBVIOUS
  <2>4. ~S!Ambiguous(tokens.url) => S!ServerKey(S!KnownUrl(key)) = key
    BY <2>2, KeyLeadsBack
  <2>5. /\ shell'.step = "selected" /\ shell'.url[1] = S!KnownUrl(key)
        /\ shell' = [step |-> shell'.step, url |-> shell'.url, tokens |-> shell'.tokens]
        /\ S!ServerKey(S!KnownUrl(key)) = key => shell'.tokens # S!None
    OBVIOUS
  <2>6. \/ shell'.tokens # S!None
        \/ \E k \in DOMAIN disk' : /\ disk'[k] # S!None /\ S!Ambiguous(disk'[k][1].url)
                                   /\ S!KnownUrl(k) = shell'.url[1]
    BY <2>1, <2>3, <2>4, <2>5
  <2> QED
    BY <2>1, <2>5, <2>6 DEF ServersInv
<1>5. CASE S!Prompt
  <2>1. shell' = [step |-> "prompt", url |-> S!None, tokens |-> S!None] /\ UNCHANGED <<disk, env>>
    BY <1>5 DEF S!Prompt
  <2> QED
    BY <2>1 DEF ServersInv
<1> QED
  BY <1>1, <1>2, <1>3, <1>4, <1>5 DEF S!Next

\* What the variables say is what was exported.
LEMMA ServersFind == ServersInv => S!TokensAreFound
<1> SUFFICES ASSUME ServersInv, shell.step = "exported"
             PROVE  LET loaded == S!LoadTokensFromEnv(env)
                    IN /\ loaded # S!None
                       /\ \A now \in Times : S!Valid(loaded[1], now) = S!Valid(shell.tokens[1], now)
                       /\ loaded[1].refresh = shell.tokens[1].refresh
  BY DEF ServersInv, S!TokensAreFound
<1> PICK key, tokens : tokens \in StoredTokens(key) /\ shell.tokens = <<tokens>> /\ env = S!EnvFormat(tokens)
  BY DEF ServersInv
<1> PICK loaded : loaded = S!LoadTokensFromEnv(env)
  OBVIOUS
<1>1. tokens.refresh \in BOOLEAN /\ tokens.access = TRUE /\ tokens.expiresAt \in Times \cup {-1}
  BY DEF StoredTokens
<1>2. env.MCP_ACCESS_TOKEN = <<tokens.url>>
  BY DEF S!EnvFormat
<1>3. env.MCP_REFRESH_TOKEN # S!None <=> tokens.refresh
  BY <1>1 DEF S!EnvFormat, S!None
<1>4. env.MCP_TOKEN_EXPIRES_AT = IF tokens.expiresAt \in {-1, 0} THEN S!None ELSE <<tokens.expiresAt>>
  BY DEF S!EnvFormat
<1> DEFINE expires == IF tokens.expiresAt \in {-1, 0} THEN -1 ELSE tokens.expiresAt
<1>5. (env.MCP_TOKEN_EXPIRES_AT = S!None <=> tokens.expiresAt \in {-1, 0}) /\ <<tokens.url>> # S!None
  BY <1>4 DEF S!None
<1>6. tokens.expiresAt \notin {-1, 0} => env.MCP_TOKEN_EXPIRES_AT[1] = tokens.expiresAt
  BY <1>4
<1>7. loaded = <<[url |-> tokens.url, access |-> TRUE, refresh |-> env.MCP_REFRESH_TOKEN # S!None,
                  expiresAt |-> expires]>>
  <2>1. (IF env.MCP_TOKEN_EXPIRES_AT = S!None THEN -1 ELSE env.MCP_TOKEN_EXPIRES_AT[1]) = expires
    BY <1>5, <1>6
  <2>2. env.MCP_ACCESS_TOKEN # S!None /\ env.MCP_ACCESS_TOKEN[1] = tokens.url
    BY <1>2, <1>5
  <2> HIDE DEF expires
  <2> QED
    BY <2>1, <2>2 DEF S!LoadTokensFromEnv
<1>8. loaded # S!None /\ loaded[1].access = TRUE /\ loaded[1].expiresAt = expires
  BY <1>7 DEF S!None
<1>9. loaded[1].refresh = tokens.refresh
  BY <1>1, <1>3, <1>7
<1>10. \A now \in Times : S!Valid(loaded[1], now) = S!Valid(tokens, now)
  BY <1>1, <1>8 DEF S!Valid
<1> QED
  BY <1>8, <1>9, <1>10

-------------------------------------------------------------------------------
(* The run: one of the parts begins, and the others stay as they are. *)

CommandsInv ==
  /\ LoginInv
  /\ TestsInv
  /\ part = "generate" => WizardConn /\ WizardCases
  /\ part = "servers" => ServersInv
  /\ part = "proxy" => ProxyInv

\* What a part that is at rest promises stays promised.
LEMMA Still ==
  /\ UNCHANGED login /\ LoginInv => LoginInv'
  /\ UNCHANGED tests /\ TestsInv => TestsInv'
  /\ UNCHANGED generateVars /\ WizardConn /\ WizardCases => WizardConn' /\ WizardCases'
  /\ UNCHANGED serversVars /\ ServersInv => ServersInv'
  /\ UNCHANGED proxyVars /\ ProxyInv => ProxyInv'
<1>1. UNCHANGED login /\ LoginInv => LoginInv'
  BY DEF login, vars, LoginInv
<1>2. UNCHANGED tests /\ TestsInv => TestsInv'
  <2>1. UNCHANGED tests /\ TestsTypeOK => TestsTypeOK'
    BY DEF tests, TestsTypeOK
  <2>2. UNCHANGED tests /\ Serial => Serial'
    <3> SUFFICES ASSUME UNCHANGED tests, Serial PROVE Serial'
      OBVIOUS
    <3>1. UNCHANGED <<config, file, issued, setup, pc, cached, grant>>
      BY DEF tests
    <3>2. (P!KeepsClient' <=> P!KeepsClient) /\ P!Running' = P!Running
      BY <3>1 DEF P!KeepsClient, P!Running
    <3>3. (Good(file)' <=> Good(file)) /\ (Bound(file)' <=> Bound(file))
      BY <3>1 DEF Good, Bound
    <3>4. \A t \in Tests : Alone(t) => Alone(t)'
      BY <3>1 DEF Alone, Good, Bound, P!None, P!Empty
    <3> QED
      BY <3>1, <3>2, <3>3, <3>4 DEF Serial
  <2>3. UNCHANGED tests /\ Granted => Granted'
    BY DEF tests, Granted
  <2> QED
    BY <2>1, <2>2, <2>3 DEF TestsInv
<1>3. UNCHANGED generateVars /\ WizardConn /\ WizardCases => WizardConn' /\ WizardCases'
  BY DEF generateVars, WizardConn, WizardCases, DatasetSeen, CurrentFits, Seen, W!Gone
<1>4. UNCHANGED serversVars /\ ServersInv => ServersInv'
  BY DEF serversVars, ServersInv
<1>5. UNCHANGED proxyVars /\ ProxyInv => ProxyInv'
  BY DEF proxyVars, ProxyInv, MayPass, D!Current, D!Notification, D!WritesStayHere, D!Answered
<1> QED
  BY <1>1, <1>2, <1>3, <1>4, <1>5

\* Every part begins as its invariant says, and so do the parts that do not begin.
LEMMA CommandsStart == MCInit => CommandsInv
<1>1. Init \/ LoginOff => LoginInv
  BY DEF Init, LoginOff, LoginInv
<1>2. P!Init \/ TestsOff => TestsInv
  <2> SUFFICES ASSUME P!Init \/ TestsOff PROVE TestsInv
    OBVIOUS
  <2>1. /\ config \in P!Configs /\ issued = 1 /\ setup = "start"
        /\ pc = [t \in Tests |-> "idle"] /\ cached = [t \in Tests |-> P!None]
        /\ grant = [t \in Tests |-> 0]
        /\ \/ file = P!None
           \/ \E n \in {0, 1}, c \in Clients :
                /\ file = P!State(n, c, FALSE) /\ (config.setupClient => c = "configured")
    <3>1. CASE P!Init
      <4>1. config \in P!Configs /\ config.setupClient \in BOOLEAN
        BY <3>1, ConfigFields DEF P!Init
      <4>2. CASE file = P!None
        BY <3>1, <4>2 DEF P!Init
      <4>3. CASE file # P!None
        <5>1. PICK n \in {0, 1}, c \in P!LeftClients : file = P!State(n, c, FALSE)
          BY <3>1, <4>3 DEF P!Init
        <5>2. c \in Clients /\ (config.setupClient => c = "configured")
          BY <4>1, <5>1 DEF P!LeftClients, Clients
        <5> QED
          BY <3>1, <5>1, <5>2 DEF P!Init
      <4> QED
        BY <4>2, <4>3
    <3>2. CASE TestsOff
      BY <3>2 DEF TestsOff, P!Configs
    <3> QED
      BY <3>1, <3>2
  <2>2. /\ file \in States \cup {P!None, P!Empty, P!Torn}
        /\ file.kind = "state" =>
             /\ file.tokens \in {0, issued}
             /\ config.setupClient => file.client = "configured"
    <3>1. CASE file = P!None
      BY <3>1, Kinds
    <3>2. ASSUME NEW n \in {0, 1}, NEW c \in Clients, file = P!State(n, c, FALSE),
                 config.setupClient => c = "configured"
          PROVE  /\ file \in States /\ file.tokens \in {0, 1}
                 /\ config.setupClient => file.client = "configured"
      <4>1. n \in Nat /\ FALSE \in BOOLEAN
        OBVIOUS
      <4> QED
        BY <3>2, <4>1, StateIs
    <3> QED
      BY <2>1, <3>1, <3>2
  <2>3. TestsTypeOK
    <3>1. pc \in [Tests -> AtRest \cup AtWork] /\ cached \in [Tests -> States \cup {P!None}]
      BY <2>1 DEF AtRest
    <3>2. grant \in [Tests -> Nat] /\ issued \in Nat \ {0}
      BY <2>1
    <3> QED
      BY <2>1, <2>2, <3>1, <3>2 DEF TestsTypeOK
  <2>4. P!Running = {} /\ Granted /\ \A t \in Tests : Alone(t)
    BY <2>1 DEF P!Running, Alone, Granted, Saving
  <2>5. (P!KeepsClient /\ file.kind = "state") => Bound(file)
    <3>1. config.binds \in BOOLEAN /\ config.setupClient \in BOOLEAN
      BY <2>1, ConfigFields
    <3> QED
      BY <2>2, <3>1 DEF P!KeepsClient, Bound
  <2> QED
    BY <2>1, <2>2, <2>3, <2>4, <2>5 DEF TestsInv, Serial
<1>3. W!Init => WizardConn /\ WizardCases
  <2> SUFFICES ASSUME W!Init PROVE WizardConn /\ WizardCases
    OBVIOUS
  <2>1. WizardConn
    BY DEF W!Init, WizardConn, W!Gone
  <2>2. IsCase(currentCase) /\ reply = [error |-> reply.error, text |-> reply.text]
    BY DEF W!Init, W!EmptyCase, W!EmptyReply, IsCase
  <2>3. dataset \in Seq({}) /\ DatasetSeen
    BY DEF W!Init, DatasetSeen
  <2>4. output.kind = "dataset" => output.cases = OldCases
    BY DEF W!Init
  <2>5. step \in {"connecting", "loadingServers"}
    BY DEF W!Init
  <2> QED
    BY <2>1, <2>2, <2>3, <2>4, <2>5 DEF WizardCases
<1>4. S!Init => ServersInv
  BY DEF S!Init, ServersInv
<1>5. D!Init => ProxyInv
  <2> SUFFICES ASSUME D!Init PROVE ProxyInv
    OBVIOUS
  <2>1. inbox = <<>> /\ replies = <<>> /\ forwarded = {} /\ loop = "idle"
    BY DEF D!Init
  <2> QED
    BY <2>1 DEF ProxyInv, D!WritesStayHere
<1> QED
  BY <1>1, <1>2, <1>3, <1>4, <1>5 DEF MCInit, CommandsInv

\* A step is one of a part, and nothing else changes.
LEMMA CommandsStep == CommandsInv /\ [MCNext]_allVars => CommandsInv'
<1> SUFFICES ASSUME CommandsInv, [MCNext]_allVars PROVE CommandsInv'
  OBVIOUS
<1> USE DEF CommandsInv
<1>1. CASE part = "login" /\ Next /\ UNCHANGED <<part, tests, generateVars, initVars, serversVars, proxyVars>>
  BY <1>1, LoginStep, Still
<1>2. CASE part = "tests" /\ P!Next /\ UNCHANGED <<part, login, generateVars, initVars, serversVars, proxyVars>>
  BY <1>2, TestsTypeStep, GrantedStep, SerialStep, Still DEF TestsInv
<1>3. CASE part = "generate" /\ W!Next /\ UNCHANGED <<part, login, tests, initVars, serversVars, proxyVars>>
  BY <1>3, ConnectionStep, CasesStep, Still
<1>4. CASE part = "init" /\ I!Next /\ UNCHANGED <<part, login, tests, generateVars, serversVars, proxyVars>>
  BY <1>4, Still
<1>5. CASE part = "servers" /\ S!Next /\ UNCHANGED <<part, login, tests, generateVars, initVars, proxyVars>>
  BY <1>5, ServersStep, Still
<1>6. CASE part = "proxy" /\ D!Next /\ UNCHANGED <<part, login, tests, generateVars, initVars, serversVars>>
  BY <1>6, ProxyStep, Still
<1>7. CASE UNCHANGED allVars
  BY <1>7, Still DEF allVars
<1> QED
  BY <1>1, <1>2, <1>3, <1>4, <1>5, <1>6, <1>7 DEF MCNext

\* CommandsInv holds in every state.
THEOREM CommandsCorrect == MCSpec => []CommandsInv
<1>1. MCInit => CommandsInv
  BY CommandsStart
<1>2. CommandsInv /\ [MCNext]_allVars => CommandsInv'
  BY CommandsStep
<1> QED
  BY <1>1, <1>2, PTL DEF MCSpec

\* LoginFlow: whatever requests reach the loopback server, only the code of this login is
\* exchanged, and nothing listens when the login is over.
THEOREM LoginTakesOwnCode == MCSpec => []OwnCodeOnly
<1>1. CommandsInv => OwnCodeOnly
  BY DEF CommandsInv, LoginInv, OwnCodeOnly
<1> QED
  BY <1>1, CommandsCorrect, PTL

\* OAuthProvider: any number of tests that do not overlap, refreshing as often as they like,
\* leave the newest refresh token in the file, if the client it is bound to is configured.
THEOREM SerialTestsKeepSession == MCSpec => []SerialKeepsSession
<1>1. CommandsInv => SerialKeepsSession
  BY DEF CommandsInv, TestsInv, Serial, Good, Bound, SerialKeepsSession, P!SerialKeepsSession
<1> QED
  BY <1>1, CommandsCorrect, PTL

\* DryRunProxy: whatever the tools, the hints, the settings and the messages, a call that is
\* not declared read-only does not leave the proxy, and every request has its one answer.
THEOREM ProxyKeepsWrites == MCSpec => []WritesStayHere
<1>1. CommandsInv => WritesStayHere
  BY DEF CommandsInv, ProxyInv, WritesStayHere
<1> QED
  BY <1>1, CommandsCorrect, PTL

\* GenerateWizard: wherever the wizard is left, it leaves no connection behind.
THEOREM WizardReleases == MCSpec => []ConnectionsReleased
<1>1. CommandsInv => ConnectionsReleased
  BY DEF CommandsInv, WizardConn, ConnectionsReleased, W!ConnectionsReleased
<1> QED
  BY <1>1, CommandsCorrect, PTL

\* GenerateWizard: for every tool, answer and file at the output path, a case expects what
\* an answer to its very call showed.
THEOREM WizardWritesWhatItSaw == MCSpec => []CasesWereSeen
<1>1. CommandsInv => CasesWereSeen
  BY DatasetWasSeen DEF CommandsInv, CasesWereSeen
<1> QED
  BY <1>1, CommandsCorrect, PTL

\* StoredServers: for every set of URLs, a known server that is chosen has its tokens, and a
\* CI job is given tokens that are valid as long as the exported ones.
THEOREM StoredTokensAreFound == MCSpec => []TokensAreFound
<1>1. CommandsInv => TokensAreFound
  BY ServersFind DEF CommandsInv, TokensAreFound
<1> QED
  BY <1>1, CommandsCorrect, PTL

===============================================================================
