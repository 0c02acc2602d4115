----------------------------- MODULE OAuthProvider -----------------------------
(***************************************************************************)
(* The OAuth state of Playwright tests: globalSetup logs in and writes a   *)
(* file (src/src/auth/setupOAuth.ts), and every test has a provider        *)
(* (auth/oauthClientProvider.ts) that loads the file once, keeps what it   *)
(* loaded and writes it back as a whole.  The MCP SDK, which asks the      *)
(* provider for the client and its tokens and refreshes them, is external; *)
(* so is the authorization server.  It rotates refresh tokens, so that     *)
(* only the newest one is good, and may bind them to the client that       *)
(* logged in.  None of its answers is lost.                                *)
(***************************************************************************)
EXTENDS Naturals, Sequences

CONSTANTS Tests,      \* the tests, each with its provider
          MaxIssued   \* bounds how many tokens are issued

VARIABLES
  config,     \* what the behaviour is about, see Configs
  file,       \* the file at storagePath: None, broken, or a state
  issued,     \* the newest tokens of the authorization server
  fresh,      \* their access token has not expired
  setup,      \* globalSetup: "start", "login", "write", "done", "thrown"
  pc,         \* what a test does
  cached,     \* cachedState of its provider; None: nothing is cached
  grant       \* tokens it was granted and has not stored; 0: none

vars == <<config, file, issued, fresh, setup, pc, cached, grant>>

\* setupClient: globalSetup is configured with a clientId; clientId: so are the providers;
\* binds: the server binds refresh tokens to clients; invalidates: it may refuse a client,
\* or somebody invalidates credentials; overlap: tests run in several workers.
Configs ==
  [setupClient : BOOLEAN, clientId : BOOLEAN, binds : BOOLEAN, invalidates : BOOLEAN,
   overlap : BOOLEAN]

None == [kind |-> "none"]

\* A file that was truncated, or written by two at once: JSON.parse throws.
Empty == [kind |-> "empty"]
Torn == [kind |-> "torn"]
Broken == {Empty, Torn}

\* client: clientInfo, "none", the one that is "configured" or one that was "registered".
State(tokens, client, verifier) ==
  [kind |-> "state", tokens |-> tokens, client |-> client, verifier |-> verifier]

\* The client that setup saves, and the one it logs in with.
SavedClient == IF config.setupClient THEN "configured" ELSE "none"
Owner == IF config.setupClient THEN "configured" ELSE "mcp-server-tester-client"

LeftClients == IF config.setupClient THEN {"configured"} ELSE {"none", "registered"}

\* Nothing, or what earlier runs of the same configuration left.
Init ==
  /\ config \in Configs
  /\ file = None \/ \E n \in {0, 1}, c \in LeftClients : file = State(n, c, FALSE)
  /\ issued = 1
  /\ fresh \in BOOLEAN
  /\ setup = "start"
  /\ pc = [t \in Tests |-> "idle"]
  /\ cached = [t \in Tests |-> None]
  /\ grant = [t \in Tests |-> 0]

-------------------------------------------------------------------------------
(* globalSetup, before any test. *)

\* hasValidOAuthState: the file has an access token that is good for another minute, or of
\* which the server did not tell how long it is good.
HasValid(told) == file.kind = "state" /\ file.tokens # 0 /\ (told => fresh)

\* performOAuthSetupIfNeeded.
SetupIfNeeded ==
  /\ setup = "start"
  /\ \E told \in BOOLEAN : setup' = IF HasValid(told) THEN "done" ELSE "login"
  /\ UNCHANGED <<config, file, issued, fresh, pc, cached, grant>>

\* performOAuthSetup: discovery, the login in a browser and the exchange of the code; any
\* of them may fail, which ends the run of the tests.
SetupLogin ==
  /\ setup = "login"
  /\ \/ /\ setup' = "write"
        /\ issued' = issued + 1
        /\ fresh' = TRUE
     \/ setup' = "thrown" /\ UNCHANGED <<issued, fresh>>
  /\ UNCHANGED <<config, file, pc, cached, grant>>

\* saveOAuthState: neither the verifier of the login is written nor the default client.
SetupSave ==
  /\ setup = "write"
  /\ setup' = "done"
  /\ file' = State(issued, SavedClient, FALSE)
  /\ UNCHANGED <<config, issued, fresh, pc, cached, grant>>

-------------------------------------------------------------------------------
(* The provider of a test. *)

Running == {t \in Tests : pc[t] \notin {"idle", "passed", "failed"}}

\* loadState: what is cached, or the file; createEmptyState when there is none.
Read(t) == IF cached[t] = None THEN file ELSE cached[t]
StateOf(t) == IF Read(t) = None THEN State(0, "none", FALSE) ELSE Read(t)

\* t is at a place where it reads its state, and can.
At(t, place) == pc[t] = place /\ Read(t) \notin Broken

\* It has read the state, which is cached then, and goes on.
Reads(t, at) ==
  /\ cached' = [cached EXCEPT ![t] = Read(t)]
  /\ pc' = [pc EXCEPT ![t] = at]

\* The fixture makes a provider and connects.
StartTest(t) ==
  /\ setup = "done" /\ pc[t] = "idle"
  /\ config.overlap \/ Running = {}
  /\ pc' = [pc EXCEPT ![t] = "load"]
  /\ UNCHANGED <<config, file, issued, fresh, setup, cached, grant>>

Load(t) ==
  /\ At(t, "load")
  /\ Reads(t, "loaded")
  /\ UNCHANGED <<config, file, issued, fresh, setup, grant>>

\* A broken file is thrown out of wherever it is read.
Unreadable(t) ==
  /\ pc[t] \in {"load", "loaded", "auth", "client"}
  /\ Read(t) \in Broken
  /\ pc' = [pc EXCEPT ![t] = "failed"]
  /\ UNCHANGED <<config, file, issued, fresh, setup, cached, grant>>

\* The access token is accepted; the test runs with it.
TokenAccepted(t) ==
  /\ At(t, "loaded")
  /\ StateOf(t).tokens = issued /\ fresh
  /\ Reads(t, "passed")
  /\ UNCHANGED <<config, file, issued, fresh, setup, grant>>

\* The server answers 401, and the SDK begins with auth().
Unauthorized(t) ==
  /\ At(t, "loaded")
  /\ ~(StateOf(t).tokens = issued /\ fresh)
  /\ Reads(t, "auth")
  /\ UNCHANGED <<config, file, issued, fresh, setup, grant>>

\* clientInformation has a client: the one that is configured, or that of the state.
HasClient(t) ==
  /\ At(t, "auth")
  /\ config.clientId \/ StateOf(t).client # "none"
  /\ Reads(t, "client")
  /\ UNCHANGED <<config, file, issued, fresh, setup, grant>>

\* saveState caches the state before it writes it; the SDK goes on at `at`.
Saves(t, state, at) ==
  /\ cached' = [cached EXCEPT ![t] = state]
  /\ pc' = [pc EXCEPT ![t] = at]
  /\ UNCHANGED <<config, file, issued, fresh, setup, grant>>

\* It has none: the SDK registers one and saveClientInformation stores it; or the server
\* registers nobody.
Register(t) ==
  /\ At(t, "auth")
  /\ ~config.clientId /\ StateOf(t).client = "none"
  /\ \/ Saves(t, [StateOf(t) EXCEPT !.client = "registered"], "truncate auth")
     \/ /\ Reads(t, "failed")
        /\ UNCHANGED <<config, file, issued, fresh, setup, grant>>

ClientOf(t) == IF config.clientId THEN "configured" ELSE StateOf(t).client

\* A refresh token is good if it is the newest one and is presented by its client.
Accepts(t) == StateOf(t).tokens = issued /\ (config.binds => ClientOf(t) = Owner)

\* With a refresh token the SDK refreshes.
Refresh(t) ==
  /\ At(t, "client") /\ StateOf(t).tokens # 0
  /\ Accepts(t) /\ issued < MaxIssued
  /\ Reads(t, "granted")
  /\ issued' = issued + 1
  /\ fresh' = TRUE
  /\ grant' = [grant EXCEPT ![t] = issued + 1]
  /\ UNCHANGED <<config, file, setup>>

\* Mutant: the tokens that were granted are used and not kept.
SaveTokensInFileOnly(t) ==
  /\ pc[t] = "granted"
  /\ grant' = [grant EXCEPT ![t] = 0]
  /\ pc' = [pc EXCEPT ![t] = "truncate loaded"]
  /\ UNCHANGED <<config, file, issued, fresh, setup, cached>>

\* saveTokens: the tokens replace those of the cached state, and its verifier goes.
SaveTokens(t) ==
  /\ pc[t] = "granted"
  /\ cached' = [cached EXCEPT ![t] = [StateOf(t) EXCEPT !.tokens = grant[t], !.verifier = FALSE]]
  /\ grant' = [grant EXCEPT ![t] = 0]
  /\ pc' = [pc EXCEPT ![t] = "truncate loaded"]
  /\ UNCHANGED <<config, file, issued, fresh, setup>>

\* invalid_grant: the SDK calls invalidateCredentials("tokens") and tries again.
RefreshRejected(t) ==
  /\ At(t, "client") /\ StateOf(t).tokens # 0
  /\ ~Accepts(t)
  /\ Saves(t, [StateOf(t) EXCEPT !.tokens = 0], "truncate auth")

\* invalidateCredentials("all"): deleteState.
Deletes(t, at) ==
  /\ cached' = [cached EXCEPT ![t] = None]
  /\ file' = IF Read(t) = None THEN file ELSE None
  /\ pc' = [pc EXCEPT ![t] = at]
  /\ UNCHANGED <<config, issued, fresh, setup, grant>>

\* invalid_client: the SDK calls invalidateCredentials("all") and tries again.
ClientRejected(t) ==
  /\ config.invalidates
  /\ At(t, "client") /\ StateOf(t).tokens # 0
  /\ Deletes(t, "auth")

\* invalidateCredentials with the other scopes, by whoever has the provider.
Invalidate(t) ==
  /\ config.invalidates
  /\ At(t, "loaded") /\ Read(t) # None
  /\ \/ Saves(t, [StateOf(t) EXCEPT !.client = "none"], "truncate loaded")
     \/ Saves(t, [StateOf(t) EXCEPT !.verifier = FALSE], "truncate loaded")

\* Without tokens, or when the server cannot refresh them now, the SDK begins an
\* authorization: saveCodeVerifier.
SaveCodeVerifier(t) ==
  /\ At(t, "client")
  /\ Saves(t, [StateOf(t) EXCEPT !.verifier = TRUE], "truncate failed")

\* saveState writes the whole cached state over the file, in place: the file is empty first.
Truncate(t) ==
  /\ pc[t] \in {"truncate auth", "truncate loaded", "truncate failed"}
  /\ pc' = [pc EXCEPT ![t] = CASE pc[t] = "truncate auth" -> "write auth"
                               [] pc[t] = "truncate loaded" -> "write loaded"
                               [] OTHER -> "write failed"]
  /\ file' = Empty
  /\ UNCHANGED <<config, issued, fresh, setup, cached, grant>>

\* What the SDK does next: auth() goes on, tokens are used, and after the verifier
\* redirectToAuthorization throws: the test fails and asks for a setup.
AfterWrite(at) ==
  CASE at = "write auth" -> "auth" [] at = "write loaded" -> "loaded" [] OTHER -> "failed"

\* The state is what was cached, unless another test wrote the file meanwhile and leaves the
\* tail of a longer text, or deleted it: what is written then is in no file, even when the
\* other wrote it anew.
Outcomes(t) ==
  IF file = None THEN {None}
  ELSE {cached[t]} \cup (IF file = Empty THEN {} ELSE {Torn})
                   \cup (IF config.invalidates THEN {file} ELSE {})

Write(t) ==
  /\ pc[t] \in {"write auth", "write loaded", "write failed"}
  /\ pc' = [pc EXCEPT ![t] = AfterWrite(pc[t])]
  /\ file' \in Outcomes(t)
  /\ UNCHANGED <<config, issued, fresh, setup, cached, grant>>

\* The access token expires.
Expire ==
  /\ fresh /\ issued < MaxIssued
  /\ fresh' = FALSE
  /\ UNCHANGED <<config, file, issued, setup, pc, cached, grant>>

-------------------------------------------------------------------------------
Setup == SetupIfNeeded \/ SetupLogin \/ SetupSave

Provider(t) ==
  \/ StartTest(t) \/ Load(t) \/ Unreadable(t) \/ TokenAccepted(t) \/ Unauthorized(t)
  \/ HasClient(t) \/ Register(t) \/ Refresh(t) \/ SaveTokens(t) \/ RefreshRejected(t)
  \/ ClientRejected(t) \/ Invalidate(t) \/ SaveCodeVerifier(t) \/ Truncate(t) \/ Write(t)

Next == Setup \/ Expire \/ \E t \in Tests : Provider(t)

Spec == Init /\ [][Next]_vars

-------------------------------------------------------------------------------
(* Properties. *)

\* Nobody invalidates credentials, and where the server binds refresh tokens to clients,
\* setup is configured with one: its default client is saved nowhere (setupOAuth.ts:83,
\* 166-171), so that the providers register another and their refresh is refused.
KeepsClient == ~config.invalidates /\ (config.binds => config.setupClient)

\* Tests that run one after the other do not lose the session: whenever none of them is at
\* work, the file holds the newest refresh token.  (Tests that overlap do lose it: each
\* writes back what it had loaded.)
SerialKeepsSession ==
  setup = "done" /\ ~config.overlap /\ KeepsClient /\ Running = {} =>
    file.kind = "state" /\ file.tokens = issued
===============================================================================
