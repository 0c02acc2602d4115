------------------------------- MODULE LoginFlow -------------------------------
(***************************************************************************)
(* One login of the CLI (src/src/auth/cli.ts): discovery of the servers    *)
(* (auth/discovery.ts), the loopback server for the callback of the        *)
(* browser, and the exchange of the code (auth/oauthFlow.ts).  TokenClient *)
(* takes this as a step that succeeds or fails.                            *)
(*                                                                         *)
(* The browser is external: whatever runs on the machine may send requests *)
(* to the loopback server, in any order, while it listens.                 *)
(***************************************************************************)
EXTENDS Naturals

VARIABLES
  stage,     \* where performOAuthFlow is; "failed" and "saved" are its ends, "crashed" the
             \* end of the process
  server,    \* the callback server
  timer,     \* its timeout: "none", "set", "cleared", "fired"
  promise,   \* codePromise
  exchanged  \* the code that was sent to the token endpoint

vars == <<stage, server, timer, promise, exchanged>>

Ended == stage \in {"failed", "saved", "crashed"}

Init ==
  /\ stage = "discover"
  /\ server = "none"
  /\ timer = "none"
  /\ promise = "pending"
  /\ exchanged = "none"

-------------------------------------------------------------------------------
(* Discovery. *)

\* What a metadata URL answers: metadata, metadata without the required field, 404, or
\* something else that fails.
Answers == {"found", "incomplete", "404", "fails"}

\* discoverProtectedResource: the URL with the path first, that of the origin after a 404.
ProtectedResource(pathAware, base) == IF pathAware = "404" THEN base ELSE pathAware

DiscoverResource ==
  /\ stage = "discover"
  /\ \E pathAware, base \in Answers, listed \in BOOLEAN :
       stage' = IF ProtectedResource(pathAware, base) = "found" /\ listed
                  THEN "authorization server" ELSE "failed"
  /\ UNCHANGED <<server, timer, promise, exchanged>>

\* validateAuthServerEndpoints: only https, or the local host.
Permitted(endpoint) == endpoint \in {"https", "localhost", "missing"}

DiscoverServer ==
  /\ stage = "authorization server"
  /\ \E authorization, token \in {"https", "localhost", "http", "missing"} :
       stage' = IF ~Permitted(authorization) \/ ~Permitted(token) THEN "failed"
                ELSE IF authorization = "missing" THEN "no endpoint"
                ELSE "start"
  /\ UNCHANGED <<server, timer, promise, exchanged>>

-------------------------------------------------------------------------------
(* The callback server. *)

\* The timer is set before the server listens, and goes on if it cannot.
StartServer ==
  /\ stage \in {"start", "no endpoint"}
  /\ timer' = "set"
  /\ \/ server' = "listening" /\ stage' = IF stage = "start" THEN "browser" ELSE "unbuilt"
     \/ server' = "closed" /\ stage' = "failed"
  /\ UNCHANGED <<promise, exchanged>>

\* buildAuthorizationUrl throws, and the finally closes the server.
NoEndpoint ==
  /\ stage = "unbuilt"
  /\ stage' = "failed" /\ server' = "closed"
  /\ UNCHANGED <<timer, promise, exchanged>>

\* A promise settles once.  A rejection nobody waits for yet ends the process.
Settle(value) ==
  /\ promise' = IF promise = "pending" THEN value ELSE promise
  /\ stage' = IF promise = "pending" /\ value = "rejected" /\ stage # "code"
                THEN "crashed" ELSE stage

Requests == [path : {"other"}, error : {FALSE}, state : {"none"}, code : {"none"}]
              \cup [path : {"callback"}, error : BOOLEAN, state : {"none", "own", "foreign"},
                    code : {"none", "own", "foreign"}]

\* What the authorization server redirects to has the code that goes with the state.
Genuine(q) == q.state = "own" => q.code \in {"none", "own"}

\* Mutant: the state is not looked at.
HandledUnchecked(q) == IF q.error \/ q.code = "none" THEN "rejected" ELSE q.code

\* Error, state, code: the first that is wrong rejects.
Handled(q) ==
  IF q.error \/ q.state # "own" \/ q.code = "none" THEN "rejected" ELSE q.code

\* Mutant: every request ends the wait for the timeout.
RequestClears ==
  /\ server = "listening"
  /\ \E q \in Requests :
       /\ Genuine(q)
       /\ timer' = IF timer = "set" THEN "cleared" ELSE timer
       /\ IF q.path = "other" THEN UNCHANGED <<stage, promise>> ELSE Settle(Handled(q))
  /\ UNCHANGED <<server, exchanged>>

\* A request: other paths get a 404, and every callback clears the timer.
Request ==
  /\ server = "listening"
  /\ \E q \in Requests :
       /\ Genuine(q)
       /\ IF q.path = "other" THEN UNCHANGED <<stage, promise, timer>>
          ELSE /\ timer' = IF timer = "set" THEN "cleared" ELSE timer
               /\ Settle(Handled(q))
  /\ UNCHANGED <<server, exchanged>>

TimerFires ==
  /\ timer = "set" /\ stage # "crashed"
  /\ timer' = "fired"
  /\ server' = "closed"
  /\ Settle("rejected")
  /\ UNCHANGED exchanged

-------------------------------------------------------------------------------
(* performOAuthFlow. *)

\* openBrowserOrPrintUrl returns in any case: it prints the URL where no browser opens.
OpenBrowser ==
  /\ stage = "browser"
  /\ stage' = "code"
  /\ UNCHANGED <<server, timer, promise, exchanged>>

\* The code is there and goes to the token endpoint.
Exchange ==
  /\ stage = "code" /\ promise \in {"own", "foreign"}
  /\ stage' = "exchange"
  /\ exchanged' = promise
  /\ UNCHANGED <<server, timer, promise>>

\* The finally of performOAuthFlow closes the server, however the flow ends.
Rejected ==
  /\ stage = "code" /\ promise = "rejected"
  /\ stage' = "failed" /\ server' = "closed"
  /\ UNCHANGED <<timer, promise, exchanged>>

\* The token endpoint grants tokens and they are saved, or something fails.
ExchangeEnds ==
  /\ stage = "exchange"
  /\ stage' \in {"saved", "failed"}
  /\ server' = "closed"
  /\ UNCHANGED <<timer, promise, exchanged>>

-------------------------------------------------------------------------------
Next ==
  \/ DiscoverResource \/ DiscoverServer \/ StartServer \/ NoEndpoint
  \/ Request \/ TimerFires \/ OpenBrowser \/ Exchange \/ Rejected \/ ExchangeEnds

Spec == Init /\ [][Next]_vars

\* The process goes on and its timer fires; requests need not come.
Fairness ==
  /\ WF_vars(DiscoverResource) /\ WF_vars(DiscoverServer) /\ WF_vars(StartServer)
  /\ WF_vars(NoEndpoint) /\ WF_vars(TimerFires) /\ WF_vars(OpenBrowser)
  /\ WF_vars(Exchange) /\ WF_vars(Rejected) /\ WF_vars(ExchangeEnds)

-------------------------------------------------------------------------------
(* Properties. *)

\* Whatever requests reach the loopback server, and in whatever order: the code that is
\* exchanged for tokens is the one of this login, and when it is over nothing listens.
OwnCodeOnly == exchanged # "foreign" /\ (stage \in {"saved", "failed"} => server # "listening")

\* Whatever requests reach the server, a login does not wait for ever.
LoginEnds == <>Ended
===============================================================================
