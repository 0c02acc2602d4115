------------------------------ MODULE TokenClient ------------------------------
(***************************************************************************)
(* CLIOAuthClient (src/src/auth/cli.ts): several processes (login          *)
(* commands, Playwright workers) share the state files of one server.  A   *)
(* call loads the tokens, reads the file again to see whether they are     *)
(* still valid, refreshes them, and logs in or gives up when that fails.   *)
(* There is no lock between the processes, and nothing orders what the     *)
(* token endpoint did with what is written to the file.                    *)
(*                                                                         *)
(* Each file is an atomic register here: StateFile says when it is one.    *)
(* The authorization server is external; it numbers the grants it issues,  *)
(* and a grant's access and refresh token have the grant's number.         *)
(***************************************************************************)
EXTENDS Integers, FiniteSets

CONSTANTS Procs,       \* the processes
          Modes,       \* the calls they make, a subset of {"try", "get", "force"}
          Rotates,     \* the server revokes a refresh token when it is used
          Faults,      \* requests and answers may be lost, saves fail, processes die
          Configs,     \* the clientId a call may be configured with; 0: none
          Known,       \* the clients 1..Known were registered before
          Confidential,   \* the clients that have a secret
          Starts,      \* what is there at first: [owner, named, cached, metadata]
          MaxGrants,   \* bound: the grants the server issues
          MaxClients   \* bound: the clients that are registered

VARIABLES
  tokenFile,   \* tokens.json
  clientFile,  \* client.json: the registered client, 0 when absent
  metadata,    \* server.json is there
  call,        \* the call each process is in
  issued,      \* server: grants 1..issued were issued
  live,        \* server: the refresh tokens it accepts
  owner,       \* server: the client every grant was issued to
  clients,     \* server: clients 1..clients are registered
  expired,     \* the access tokens whose time is over
  past         \* history: whether grants were lost, and whether somebody logged in

fileVars == <<tokenFile, clientFile, metadata>>
serverVars == <<issued, live, owner, clients>>
vars == <<fileVars, call, serverVars, expired, past>>

Grants == 1..MaxGrants

Tokens(access, refresh, client) == [access |-> access, refresh |-> refresh, client |-> client]

NoTokens == Tokens(0, 0, 0)

\* config: clientId of its CLIOAuthClient; seen: the tokens loaded; got: those the server
\* just issued; client: of the request, secret: its secret is known; goal: what a client
\* is looked for; result: the access token returned, 0 for null; fresh: history of how.
Idle == [pc |-> "idle", mode |-> "none", config |-> 0, seen |-> NoTokens, got |-> NoTokens,
         client |-> 0, secret |-> FALSE, goal |-> "none", result |-> 0, fresh |-> FALSE]

\* Tokens issued to start.owner, by a login or by injectTokens, which need not name it.
InitFrom(start) ==
  LET stored == start.owner # 0
  IN /\ tokenFile = IF stored THEN Tokens(1, 1, IF start.named THEN start.owner ELSE 0)
                               ELSE NoTokens
     /\ clientFile = start.cached
     /\ metadata = start.metadata
     /\ call = [p \in Procs |-> Idle]
     /\ issued = IF stored THEN 1 ELSE 0
     /\ live = IF stored THEN {1} ELSE {}
     /\ owner = [g \in Grants |-> IF g = 1 THEN start.owner ELSE 0]
     /\ clients = Known
     /\ expired = {}
     /\ past = [lost |-> FALSE, login |-> FALSE]

Init == \E start \in Starts : InitFrom(start)

\* What one login leaves.
OneLogin == {[owner |-> 1, named |-> TRUE, cached |-> 1, metadata |-> TRUE]}

Valid(tokens) == tokens.access # 0 /\ tokens.access \notin expired

\* p's call moves on.
Goes(p, pc) == call' = [call EXCEPT ![p].pc = pc]

\* p's call returns a token, or null, or throws.
Returns(p, token, fresh) ==
  call' = [call EXCEPT ![p] = [Idle EXCEPT !.pc = "done", !.result = token, !.fresh = fresh]]
Throws(p) == call' = [call EXCEPT ![p] = [Idle EXCEPT !.pc = "threw"]]

\* No usable token: tryGetAccessToken returns null, getAccessToken runs the full flow.
GiveUp(p) ==
  \/ call[p].mode = "try" /\ Returns(p, 0, FALSE)
  \/ /\ call[p].mode # "try"
     /\ call' = [call EXCEPT ![p] = [Idle EXCEPT !.pc = "discover", !.mode = call[p].mode,
                                                !.config = call[p].config]]

-------------------------------------------------------------------------------
(* getAccessToken and tryGetAccessToken. *)

Begin(p, mode, config) ==
  /\ call[p].pc = "idle"
  /\ call' = [call EXCEPT ![p].mode = mode, ![p].config = config,
                          ![p].pc = IF mode = "force" THEN "clear" ELSE "load"]
  /\ UNCHANGED <<fileVars, serverVars, expired, past>>

\* clearCredentials, the first step of login --force.
Clear(p) ==
  /\ call[p].pc = "clear"
  /\ tokenFile' = NoTokens
  /\ Goes(p, "load")
  /\ UNCHANGED <<clientFile, metadata, serverVars, expired, past>>

LoadTokens(p) ==
  /\ call[p].pc = "load"
  /\ IF tokenFile = NoTokens
       THEN GiveUp(p)
       ELSE call' = [call EXCEPT ![p].seen = tokenFile, ![p].pc = "check"]
  /\ UNCHANGED <<fileVars, serverVars, expired, past>>

\* hasValidToken reads the file again: the tokens it judges need not be those loaded.
CheckValid(p) ==
  LET seen == call[p].seen
  IN /\ call[p].pc = "check"
     /\ \/ /\ Valid(tokenFile)
           /\ Returns(p, seen.access, Valid(seen))
        \/ /\ ~Valid(tokenFile)
           /\ IF seen.refresh # 0 THEN Goes(p, "credentials") ELSE GiveUp(p)
     /\ UNCHANGED <<fileVars, serverVars, expired, past>>

\* Mutant: the refresh request is made with the client of client.json.
CredentialsOfFile(p) ==
  /\ call[p].pc = "credentials"
  /\ call' = [call EXCEPT ![p].pc = "refresh", ![p].client = clientFile, ![p].secret = TRUE]
  /\ UNCHANGED <<fileVars, serverVars, expired, past>>

\* refreshStoredToken uses the client the tokens were issued to, with the secret of
\* client.json if that is its client.  Tokens that name no client are refreshed with one
\* from getOrRegisterClient.  Without cached server metadata it throws.
Credentials(p) ==
  LET seen == call[p].seen
  IN /\ call[p].pc = "credentials"
     /\ \/ ~metadata /\ GiveUp(p)
        \/ /\ metadata /\ seen.client # 0
           /\ call' = [call EXCEPT ![p].pc = "refresh", ![p].client = seen.client,
                                   ![p].secret = clientFile = seen.client]
        \/ /\ metadata /\ seen.client = 0
           /\ call' = [call EXCEPT ![p].pc = "client", ![p].goal = "refresh"]
     /\ UNCHANGED <<fileVars, serverVars, expired, past>>

Accepts(p) ==
  LET r == call[p].seen.refresh
  IN /\ r \in live /\ owner[r] = call[p].client
     /\ call[p].client \in Confidential => call[p].secret

\* The token endpoint issues the next grant; a rotating server revokes the old refresh
\* token and returns a new one, another returns none.
GrantRefresh(p) ==
  LET g == issued + 1
  IN /\ call[p].pc = "refresh"
     /\ issued < MaxGrants
     /\ Accepts(p)
     /\ issued' = g
     /\ owner' = [owner EXCEPT ![g] = call[p].client]
     /\ live' = IF Rotates THEN (live \ {call[p].seen.refresh}) \cup {g} ELSE live
     /\ UNCHANGED <<fileVars, clients, expired>>

\* tokenResultToStoredTokens: what the answer does not hold is not stored.
NewTokens(p) == Tokens(issued + 1, IF Rotates THEN issued + 1 ELSE 0, call[p].client)

Refresh(p) ==
  /\ GrantRefresh(p)
  /\ call' = [call EXCEPT ![p].pc = "refreshed", ![p].got = NewTokens(p)]
  /\ UNCHANGED past

\* Mutant: a rejected refresh token clears the stored tokens.
RejectedClears(p) ==
  /\ call[p].pc = "refresh"
  /\ ~Accepts(p)
  /\ tokenFile' = NoTokens
  /\ GiveUp(p)
  /\ UNCHANGED <<clientFile, metadata, serverVars, expired, past>>

RefreshRejected(p) ==
  /\ call[p].pc = "refresh"
  /\ ~Accepts(p)
  /\ GiveUp(p)
  /\ UNCHANGED <<fileVars, serverVars, expired, past>>

\* The request, or the answer to it, is lost.
RefreshLost(p) ==
  /\ Faults
  /\ \/ GrantRefresh(p) /\ past' = [past EXCEPT !.lost = TRUE]
     \/ call[p].pc = "refresh" /\ UNCHANGED <<fileVars, serverVars, expired, past>>
  /\ GiveUp(p)

\* Mutant: the refreshed tokens are returned but not saved.
SaveRefreshedForgotten(p) ==
  /\ call[p].pc = "refreshed"
  /\ Returns(p, call[p].got.access, TRUE)
  /\ UNCHANGED <<fileVars, serverVars, expired, past>>

SaveRefreshed(p) ==
  /\ call[p].pc = "refreshed"
  /\ tokenFile' = call[p].got
  /\ Returns(p, call[p].got.access, TRUE)
  /\ UNCHANGED <<clientFile, metadata, serverVars, expired, past>>

\* A save that fails is caught with the failures of the refresh itself.
SaveRefreshedFails(p) ==
  /\ Faults
  /\ call[p].pc = "refreshed"
  /\ past' = [past EXCEPT !.lost = TRUE]
  /\ GiveUp(p)
  /\ UNCHANGED <<fileVars, serverVars, expired>>

-------------------------------------------------------------------------------
(* authenticate *)

\* discoverServers saves what it discovered before it returns.
Discover(p) ==
  /\ call[p].pc = "discover"
  /\ metadata' = TRUE
  /\ call' = [call EXCEPT ![p].pc = "client", ![p].goal = "browser"]
  /\ UNCHANGED <<tokenFile, clientFile, serverVars, expired, past>>

\* getOrRegisterClient: the client that is configured, that of client.json, or a new one.
Takes(p, client) ==
  call' = [call EXCEPT ![p].pc = call[p].goal, ![p].client = client, ![p].secret = TRUE]

ConfiguredClient(p) ==
  /\ call[p].pc = "client" /\ call[p].config # 0
  /\ Takes(p, call[p].config)
  /\ UNCHANGED <<fileVars, serverVars, expired, past>>

CachedClient(p) ==
  /\ call[p].pc = "client" /\ call[p].config = 0
  /\ clientFile # 0
  /\ Takes(p, clientFile)
  /\ UNCHANGED <<fileVars, serverVars, expired, past>>

RegisterClient(p) ==
  /\ call[p].pc = "client" /\ call[p].config = 0
  /\ clientFile = 0
  /\ clients < MaxClients
  /\ clients' = clients + 1
  /\ call' = [call EXCEPT ![p].pc = "register", ![p].client = clients + 1]
  /\ UNCHANGED <<fileVars, issued, live, owner, expired, past>>

SaveClient(p) ==
  /\ call[p].pc = "register"
  /\ clientFile' = call[p].client
  /\ Takes(p, call[p].client)
  /\ UNCHANGED <<tokenFile, metadata, serverVars, expired, past>>

\* The registration is refused or cannot be saved: the login throws, the refresh has failed.
NoClient(p) ==
  /\ \/ call[p].pc = "client" /\ call[p].config = 0
     \/ Faults /\ call[p].pc = "register"
  /\ IF call[p].goal = "refresh" THEN GiveUp(p) ELSE Throws(p)
  /\ UNCHANGED <<fileVars, serverVars, expired, past>>

\* The user approves, the callback brings a code and the code is exchanged.
Login(p) ==
  LET g == issued + 1
  IN /\ call[p].pc = "browser"
     /\ issued < MaxGrants
     /\ issued' = g
     /\ live' = live \cup {g}
     /\ owner' = [owner EXCEPT ![g] = call[p].client]
     /\ call' = [call EXCEPT ![p].pc = "loggedIn", ![p].got = Tokens(g, g, call[p].client)]
     /\ past' = [past EXCEPT !.login = TRUE]
     /\ UNCHANGED <<fileVars, clients, expired>>

SaveLogin(p) ==
  /\ call[p].pc = "loggedIn"
  /\ tokenFile' = call[p].got
  /\ Returns(p, call[p].got.access, TRUE)
  /\ UNCHANGED <<clientFile, metadata, serverVars, expired, past>>

\* The user refuses, nobody answers in time, the exchange fails or a request is refused.
LoginThrows(p) ==
  /\ call[p].pc \in {"discover", "browser"}
  /\ Throws(p)
  /\ UNCHANGED <<fileVars, serverVars, expired, past>>

-------------------------------------------------------------------------------
Return(p) ==
  /\ call[p].pc \in {"done", "threw"}
  /\ call' = [call EXCEPT ![p] = Idle]
  /\ UNCHANGED <<fileVars, serverVars, expired, past>>

Crash(p) ==
  /\ Faults
  /\ call[p].pc \notin {"idle", "done", "threw"}
  /\ call' = [call EXCEPT ![p] = Idle]
  /\ past' = [past EXCEPT !.lost = @ \/ call[p].pc = "refreshed"]
  /\ UNCHANGED <<fileVars, serverVars, expired>>

Expire(g) ==
  /\ g \in 1..issued
  /\ expired' = expired \cup {g}
  /\ UNCHANGED <<fileVars, call, serverVars, past>>

Next ==
  \/ \E p \in Procs :
       \/ \E m \in Modes, c \in Configs : Begin(p, m, c)
       \/ Clear(p) \/ LoadTokens(p) \/ CheckValid(p) \/ Credentials(p)
       \/ Refresh(p) \/ RefreshRejected(p) \/ RefreshLost(p)
       \/ SaveRefreshed(p) \/ SaveRefreshedFails(p)
       \/ Discover(p) \/ ConfiguredClient(p) \/ CachedClient(p) \/ RegisterClient(p)
       \/ SaveClient(p) \/ NoClient(p)
       \/ Login(p) \/ SaveLogin(p) \/ LoginThrows(p)
       \/ Return(p) \/ Crash(p)
  \/ \E g \in Grants : Expire(g)

Spec == Init /\ [][Next]_vars

-------------------------------------------------------------------------------
(* Properties. *)

\* What the file and the server know stays together without a lock: unless a grant was
\* lost on its way to the file, the refresh token in the file is one the server accepts,
\* or the process that used it up is about to replace it.
FileRefreshLive ==
  tokenFile.refresh \in live \cup {0}
    \/ past.lost
    \/ \E p \in Procs : /\ call[p].pc = "refreshed"
                        /\ call[p].seen.refresh = tokenFile.refresh

\* The client a call finds when the tokens name none.
Fallback(p) == IF call[p].config # 0 THEN call[p].config ELSE clientFile

\* A refresh request names the client its refresh token is bound to (cli.ts:568-574),
\* also when another process registered a client and replaced client.json meanwhile.  Only
\* tokens that name no client (injectTokens) may be presented by another one, and only
\* where the configured client, or else that of client.json, is not theirs.
OwnClient ==
  \A p \in Procs : call[p].pc = "refresh" =>
    LET bound == owner[call[p].seen.refresh]
    IN \/ call[p].client = bound
       \/ call[p].seen.client = 0 /\ Fallback(p) # bound

\* As long as nobody logs in or clears the file, it never goes back to older tokens,
\* although nothing orders the saves of the processes and any of them may be lost: only
\* the holder of the file's refresh token can replace it.
NeverBackwards ==
  [][past.login \/ tokenFile'.access >= tokenFile.access
       \/ \E p \in Procs : call[p].pc = "clear"]_vars

\* "Get a valid access token" (cli.ts:147): a token that is returned was valid when it
\* was judged.
ReturnsValid == \A p \in Procs : call[p].pc = "done" /\ call[p].result # 0 => call[p].fresh

\* Tokens are "automatically refreshed when expired" (docs/cli.md:349): as long as the
\* server accepts a refresh token of a login, the file still has one.
StaysRefreshable == tokenFile # NoTokens /\ live # {} => tokenFile.refresh # 0

===============================================================================
