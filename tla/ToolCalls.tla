------------------------------- MODULE ToolCalls -------------------------------
(***************************************************************************)
(* The expectations on tool calls (src/src/assertions/validators/          *)
(* toolCalls.ts) and the way a call takes to them: the calls a simulated   *)
(* host reports become events (src/src/evals/hostTrace.ts), the events are *)
(* renamed to canonical tools (mapToolNames of src/src/evals/              *)
(* evalRunner.ts), and the renamed events are matched.                     *)
(*                                                                         *)
(* A name is <<tool>>, or <<server, tool>> where the source has            *)
(* "server.tool".  Arguments are the set of the key-value pairs given.     *)
(***************************************************************************)
EXTENDS Integers, Sequences, FiniteSets

\* Absent optional fields.
None == "none"

\* One call of a simulation as an event: a known server's label is split off its name, and
\* with a single server every call is taken for a call of that server, unless the parser of
\* the host says where it comes from.
ToEvent(call, servers) ==
  LET labelled == Len(call.name) = 2 /\ call.name[1] \in servers
      source == IF call.source # None THEN call.source
                ELSE IF labelled \/ Cardinality(servers) = 1 THEN "mcp" ELSE "host"
      server == IF call.server # None THEN call.server
                ELSE IF labelled THEN call.name[1]
                ELSE IF Cardinality(servers) = 1 THEN CHOOSE s \in servers : TRUE
                ELSE None
  IN [kind |-> "tool_call", args |-> call.args, source |-> source,
      server |-> IF source = "host" THEN None ELSE server,
      name |-> IF labelled /\ call.source # "host" THEN Tail(call.name) ELSE call.name]

Events(calls, servers) == [i \in DOMAIN calls |-> ToEvent(calls[i], servers)]

Qualified(call) == IF call.server = None THEN call.name ELSE <<call.server>> \o call.name

\* A toolMap gives every canonical tool the names that stand for it; a name listed under
\* two of them is an error, and the case throws.
Ambiguous(toolMap) ==
  \E c, d \in DOMAIN toolMap : c # d /\ toolMap[c] \cap toolMap[d] # {}

Canonical(name, toolMap) == {c \in DOMAIN toolMap : name \in toolMap[c]}

\* mapCall: the qualified name is looked up first, then the bare one; skills, commands
\* and subagents keep their names.
MapCall(call, toolMap) ==
  LET found == IF Canonical(Qualified(call), toolMap) # {} THEN Canonical(Qualified(call), toolMap)
               ELSE Canonical(call.name, toolMap)
  IN IF call.kind # "tool_call" \/ found = {} THEN call
     ELSE [call EXCEPT !.name = <<CHOOSE c \in found : TRUE>>]

MapToolNames(calls, toolMap) == [i \in DOMAIN calls |-> MapCall(calls[i], toolMap)]

\* matchesIdentity: by its name alone or by server and name, and by the kind, source and
\* server if they are asked for.
MatchesIdentity(call, expected) ==
  /\ call.name = expected.name \/ (call.server # None /\ Qualified(call) = expected.name)
  /\ expected.kind \in {None, call.kind}
  /\ expected.source \in {None, call.source} /\ expected.server \in {None, call.server}

\* partialMatch: every pair that is expected is there, others do not matter.
PartialMatch(actual, expected) == expected \subseteq actual

Matches(call, expected) ==
  MatchesIdentity(call, expected) /\ PartialMatch(call.args, expected.args)

\* findMatchingCall: the first call from a position on; 0 stands for -1.
FindMatchingCall(actual, expected, start) ==
  LET found == {i \in start..Len(actual) : Matches(actual[i], expected)}
  IN IF found = {} THEN 0 ELSE CHOOSE i \in found : \A j \in found : i <= j

RequiredCalls(calls) == {i \in DOMAIN calls : calls[i].required}

\* Mutant: the search starts at the call found last, which may then match twice.
SearchFromSame(actual, calls) ==
  LET from[i \in 0..Len(calls)] ==
        IF i = 0 THEN 1
        ELSE IF from[i - 1] = 0 THEN 0
        ELSE LET idx == FindMatchingCall(actual, calls[i], from[i - 1])
             IN IF idx # 0 THEN idx ELSE IF calls[i].required THEN 0 ELSE from[i - 1]
  IN from[Len(calls)]

\* The loop of strict order: every expected call is searched behind the last one found,
\* an optional one is skipped when it is not found; 0 when a required one is missing.
SearchFrom(actual, calls) ==
  LET from[i \in 0..Len(calls)] ==
        IF i = 0 THEN 1
        ELSE IF from[i - 1] = 0 THEN 0
        ELSE LET idx == FindMatchingCall(actual, calls[i], from[i - 1])
             IN IF idx # 0 THEN idx + 1 ELSE IF calls[i].required THEN 0 ELSE from[i - 1]
  IN from[Len(calls)]

InOrder(actual, calls) == SearchFrom(actual, calls) # 0

InAnyOrder(actual, calls) ==
  \A i \in RequiredCalls(calls) : FindMatchingCall(actual, calls[i], 1) # 0

Unexpected(actual, calls) ==
  {i \in DOMAIN actual : ~\E e \in DOMAIN calls : MatchesIdentity(actual[i], calls[e])}

\* validateToolCalls, for evidence that is absent or structured.
ValidateToolCalls(actual, expectation) ==
  /\ IF expectation.order = "strict" THEN InOrder(actual, expectation.calls)
     ELSE InAnyOrder(actual, expectation.calls)
  /\ expectation.exclusive => Unexpected(actual, expectation.calls) = {}

\* The metrics that go with the verdict, as <<numerator, denominator>>.
Recall(actual, calls) ==
  IF RequiredCalls(calls) = {} THEN <<1, 1>>
  ELSE <<Cardinality({i \in RequiredCalls(calls) : FindMatchingCall(actual, calls[i], 1) # 0}),
         Cardinality(RequiredCalls(calls))>>

Precision(actual, calls) ==
  IF actual = <<>> THEN <<1, 1>>
  ELSE <<Len(actual) - Cardinality(Unexpected(actual, calls)), Len(actual)>>

\* validateToolCallCount counts tool calls only; a bound of -1 is an absent one.
ValidateToolCallCount(actual, options) ==
  LET count == Cardinality({i \in DOMAIN actual : actual[i].kind = "tool_call"})
  IN /\ options.exact # -1 => count = options.exact
     /\ options.min # -1 => count >= options.min
     /\ options.max # -1 => count <= options.max

===============================================================================
