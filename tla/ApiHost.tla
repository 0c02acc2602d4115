-------------------------------- MODULE ApiHost --------------------------------
(***************************************************************************)
(* runAnthropicApiHost (src/src/evals/anthropicApiHost.ts): one scenario is *)
(* run by the loop of the host itself, which connects to the servers one   *)
(* by one, offers their tools to the model, and performs the calls of each *)
(* answer in order.  Everything it awaits, the teardown too, races with    *)
(* one deadline; a connection that comes too late closes itself.           *)
(* What happens between two awaits is one step.                            *)
(***************************************************************************)
EXTENDS Integers, Sequences, FiniteSets

CONSTANTS
  Labels,     \* the labels of the servers, in their order
  Tools,      \* the names of tools a server may offer
  Overridden, \* sets of names of toolOverrides: <<tool>> or <<label, tool>>
  Budget      \* config.maxToolCalls

Servers == DOMAIN Labels

VARIABLES
  offered,     \* server |-> the tools it lists
  overrides,   \* the names of toolOverrides.tools
  at,          \* what the loop awaits
  connections, \* server |-> "none", "connecting", "open", "terminating", "cutting", "closed"
  listed,      \* the servers whose tools are known
  wanted,      \* the calls of the last answer that are left
  toolCalls,   \* the calls that were answered
  expired,     \* the timer has fired: controller.signal.aborted
  error        \* of the result

vars == <<offered, overrides, at, connections, listed, wanted, toolCalls, expired, error>>

Init ==
  /\ offered \in [Servers -> SUBSET Tools]
  /\ overrides \in Overridden
  /\ at = "start"
  /\ connections = [s \in Servers |-> "none"]
  /\ listed = {} /\ wanted = <<>> /\ toolCalls = <<>>
  /\ expired = FALSE
  /\ error = "none"

\* What the model calls a tool; the label is left out for a single server.
HostName(s, t) == IF Len(Labels) > 1 THEN <<Labels[s], t>> ELSE <<t>>
NamesOf(s) == {HostName(s, t) : t \in offered[s]}
Routing == UNION {NamesOf(s) : s \in listed}

\* The tools that a name in toolOverrides can mean: it must be one.
Matches(name) ==
  {e \in Servers \X Tools : /\ e[2] \in offered[e[1]]
                            /\ name \in {<<e[2]>>, <<Labels[e[1]], e[2]>>}}
OverridesFit == \A name \in overrides : Cardinality(Matches(name)) = 1

\* closeMCPClient for every client: a graceful end of the session, then the transport.
Terminating == [s \in Servers |-> IF connections[s] = "open" THEN "terminating" ELSE connections[s]]

\* The catch and the finally up to its await.
TearDown(cause) ==
  /\ error' = cause
  /\ connections' = Terminating
  /\ at' = "teardown"

-------------------------------------------------------------------------------
\* A configuration that does not parse, a missing key or no scenario is thrown out.
Begin ==
  /\ at = "start"
  /\ \/ at' = "threw" /\ UNCHANGED connections
     \/ at' = "connecting" /\ connections' = [connections EXCEPT ![1] = "connecting"]
  /\ UNCHANGED <<offered, overrides, listed, wanted, toolCalls, expired, error>>

Connects(s) ==
  /\ connections[s] = "connecting" /\ ~expired
  /\ connections' = [connections EXCEPT ![s] = "open"]
  /\ at' = "listing"
  /\ UNCHANGED <<offered, overrides, listed, wanted, toolCalls, expired, error>>

\* Nobody waits for it any more: it is closed by what it resolves.
ConnectsLate(s) ==
  /\ connections[s] = "connecting" /\ expired
  /\ connections' = [connections EXCEPT ![s] = "terminating"]
  /\ UNCHANGED <<offered, overrides, at, listed, wanted, toolCalls, expired, error>>

\* The tools of the server get their names, which must be new; after the last server the
\* overrides are looked up, and the model is asked.
Lists(s) ==
  /\ at = "listing" /\ connections[s] = "open" /\ s \notin listed
  /\ LET last == s = Len(Labels)
     IN IF NamesOf(s) \cap Routing # {} \/ (last /\ ~OverridesFit)
          THEN TearDown("failed") /\ UNCHANGED listed
          ELSE /\ listed' = listed \cup {s}
               /\ at' = IF last THEN "asking" ELSE "connecting"
               /\ connections' = IF last THEN connections ELSE [connections EXCEPT ![s + 1] = "connecting"]
               /\ UNCHANGED error
  /\ UNCHANGED <<offered, overrides, wanted, toolCalls, expired>>

\* The next of the calls, up to its await: it must be in the budget and known.
Perform(calls, done) ==
  IF calls = <<>> THEN at' = "asking" /\ UNCHANGED <<connections, error>>
  ELSE IF Len(done) >= Budget \/ Head(calls) \notin Routing THEN TearDown("failed")
  ELSE at' = "calling" /\ UNCHANGED <<connections, error>>

\* The model answers: without calls this is the end.
Answers(calls) ==
  /\ at = "asking"
  /\ wanted' = calls
  /\ IF calls = <<>> THEN TearDown("none") ELSE Perform(calls, toolCalls)
  /\ UNCHANGED <<offered, overrides, listed, toolCalls, expired>>

\* The server answers the call, an error of the tool included.
CallReturns ==
  /\ at = "calling"
  /\ toolCalls' = Append(toolCalls, Head(wanted))
  /\ wanted' = Tail(wanted)
  /\ Perform(Tail(wanted), Append(toolCalls, Head(wanted)))
  /\ UNCHANGED <<offered, overrides, listed, expired>>

\* What is awaited is rejected.
Fails ==
  /\ at \in {"connecting", "listing", "asking", "calling"}
  /\ error' = "failed"
  /\ connections' = [s \in Servers |-> IF connections[s] = "connecting" THEN "none" ELSE Terminating[s]]
  /\ at' = "teardown"
  /\ UNCHANGED <<offered, overrides, listed, wanted, toolCalls, expired>>

\* closeMCPClient settles, with an error or without.
Closed(s) ==
  /\ connections[s] = "terminating"
  /\ connections' = [connections EXCEPT ![s] = "closed"]
  /\ UNCHANGED <<offered, overrides, at, listed, wanted, toolCalls, expired, error>>

TearDownEnds ==
  /\ at = "teardown"
  /\ \A s \in Servers : connections[s] # "terminating"
  /\ at' = "returned"
  /\ UNCHANGED <<offered, overrides, connections, listed, wanted, toolCalls, expired, error>>

\* Mutant: the teardown has no deadline.
ExpireBeforeTearDown ==
  /\ ~expired /\ at \in {"connecting", "listing", "asking", "calling"}
  /\ expired' = TRUE
  /\ TearDown("timeout")
  /\ UNCHANGED <<offered, overrides, listed, wanted, toolCalls>>

\* The timer aborts and rejects what is awaited.  The teardown then does not wait for the
\* graceful end of the sessions either: the clients are closed at once.
Expire ==
  /\ ~expired /\ at \in {"connecting", "listing", "asking", "calling", "teardown"}
  /\ expired' = TRUE
  /\ error' = IF at = "teardown" /\ error # "none" THEN error ELSE "timeout"
  /\ connections' = [s \in Servers |->
                       IF connections[s] \in {"open", "terminating"} THEN "cutting" ELSE connections[s]]
  /\ at' = "cutting"
  /\ UNCHANGED <<offered, overrides, listed, wanted, toolCalls>>

Cut(s) ==
  /\ connections[s] = "cutting"
  /\ connections' = [connections EXCEPT ![s] = "closed"]
  /\ UNCHANGED <<offered, overrides, at, listed, wanted, toolCalls, expired, error>>

CutEnds ==
  /\ at = "cutting"
  /\ \A s \in Servers : connections[s] # "cutting"
  /\ at' = "returned"
  /\ UNCHANGED <<offered, overrides, connections, listed, wanted, toolCalls, expired, error>>

-------------------------------------------------------------------------------
\* The answers: up to two calls, of tools that are offered or made up.
Calls == LET Some == Routing \cup {<<"unknown">>}
         IN {<<>>} \cup {<<c>> : c \in Some} \cup {<<c, d>> : c \in Some, d \in Some}

OfServer(s) == Connects(s) \/ ConnectsLate(s) \/ Lists(s) \/ Closed(s) \/ Cut(s)

Next ==
  \/ Begin \/ Fails \/ CallReturns \/ TearDownEnds \/ Expire \/ CutEnds
  \/ \E calls \in Calls : Answers(calls)
  \/ \E s \in Servers : OfServer(s)

\* The timer fires and a transport can be closed; servers and the model need not answer.
Fairness ==
  /\ WF_vars(Expire) /\ WF_vars(TearDownEnds) /\ WF_vars(CutEnds)
  /\ \A s \in Servers : WF_vars(Cut(s))

-------------------------------------------------------------------------------
(* Properties. *)

\* Once the run has returned nothing is open that is not being closed, a connection that came
\* after the deadline included; a run that succeeded was torn down in peace and did everything
\* the model asked for, and no run went over its budget.
ApiCleanEnd ==
  /\ at = "returned" =>
       /\ \A s \in Servers : connections[s] \notin {"open", "cutting"}
       /\ error = "none" => /\ wanted = <<>> /\ listed = Servers
                            /\ \A s \in Servers : connections[s] = "closed"
  /\ Len(toolCalls) <= Budget

\* A run that began returns within its deadline, whatever hangs.
ApiEndsInTime == at = "connecting" ~> at = "returned"
===============================================================================
