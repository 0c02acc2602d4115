------------------------------ MODULE DryRunProxy ------------------------------
(***************************************************************************)
(* runDryRunProxy and preflightMcpServer (src/src/mcp/dryRunProxy.ts): a   *)
(* stdio JSON-RPC proxy that answers calls of writing tools itself and     *)
(* forwards the rest, one message at a time.                               *)
(***************************************************************************)
EXTENDS Integers, Sequences, FiniteSets

CONSTANTS
  ToolNames,     \* the tools of the server, and one it does not have
  Requests,      \* the messages of the client: [method, id, tool], id one of "number",
                 \* "other", "absent"
  MaxRequests,   \* bound on the messages
  MinTools       \* expectedMinTools of the preflight

None == <<>>

VARIABLES
  hints,       \* tool |-> whether the server says it is read-only
  settings,    \* [alwaysWrite, readOnly]: sets of tools
  checked,     \* the preflight: "initialize", "notify", "list", "passed", "failed"
  toolCache,   \* the tools of the map
  inbox,       \* the messages taken from stdin
  loop,        \* "idle", "listing", "deciding", "calling", "threw"
  sessionId,   \* whether there is one
  forwarded,   \* the indices of the messages that reached the server
  replies      \* the answers on stdout: [to, id, planned]

vars == <<hints, settings, checked, toolCache, inbox, loop, sessionId, forwarded, replies>>
proxied == <<toolCache, inbox, loop, sessionId, forwarded, replies>>

Init ==
  /\ hints \in [ToolNames -> BOOLEAN]
  /\ settings \in [alwaysWrite : SUBSET ToolNames, readOnly : SUBSET ToolNames]
  /\ checked = "initialize"
  /\ toolCache = {} /\ inbox = <<>> /\ loop = "idle" /\ sessionId = FALSE
  /\ forwarded = {} /\ replies = <<>>

Configured == UNCHANGED <<hints, settings>>

-------------------------------------------------------------------------------
(* preflightMcpServer, with a client of its own. *)

PreflightInitialize ==
  /\ checked = "initialize"
  /\ checked' \in {"notify", "failed"}
  /\ Configured /\ UNCHANGED proxied

PreflightNotify ==
  /\ checked = "notify"
  /\ checked' \in {"list", "failed"}
  /\ Configured /\ UNCHANGED proxied

PreflightList ==
  /\ checked = "list"
  /\ \E listed \in SUBSET ToolNames :
       checked' = IF Cardinality(listed) >= MinTools THEN "passed" ELSE "failed"
  /\ Configured /\ UNCHANGED proxied

-------------------------------------------------------------------------------
(* The loop. *)

Current == inbox[Len(inbox)]
Notification(m) == m.id = "absent" \/ m.method = "notifications/initialized"
\* An id that is no number is answered as 1.
AnswerId(m) == IF m.id = "number" THEN "number" ELSE "1"

\* The next line; lines that are no JSON object are skipped.
Read ==
  /\ checked = "passed" /\ loop = "idle" /\ Len(inbox) < MaxRequests
  /\ \E m \in Requests :
       /\ inbox' = Append(inbox, m)
       /\ loop' = IF Notification(m) \/ m.method # "tools/call" THEN "calling"
                  ELSE IF m.tool \in toolCache THEN "deciding" ELSE "listing"
  /\ UNCHANGED <<checked, toolCache, sessionId, forwarded, replies>> /\ Configured

\* tools/list for a tool that is not in the map; the server may list only a part (the next
\* pages are not asked for), or answer with an error, which lists nothing.
ListForCall ==
  /\ loop = "listing"
  /\ \E listed \in SUBSET ToolNames : toolCache' = toolCache \cup listed
  /\ loop' = "deciding"
  /\ UNCHANGED <<checked, inbox, sessionId, forwarded, replies>> /\ Configured

\* Mutant: a tool nobody listed is not taken for a writing one.
WriteUnlessListed(tool) ==
  \/ tool \in settings.alwaysWrite
  \/ tool \notin settings.readOnly /\ tool \in toolCache /\ ~hints[tool]

\* A tool that is not in the map, or without hints, writes.
Write(tool) ==
  \/ tool \in settings.alwaysWrite
  \/ tool \notin settings.readOnly /\ ~(tool \in toolCache /\ hints[tool])

Reply(planned) == replies' = Append(replies, [to |-> Len(inbox), id |-> AnswerId(Current), planned |-> planned])

PlannedWrite ==
  /\ loop = "deciding" /\ Write(Current.tool)
  /\ Reply(TRUE)
  /\ loop' = "idle"
  /\ UNCHANGED <<checked, toolCache, inbox, sessionId, forwarded>> /\ Configured

ReadOnlyCall ==
  /\ loop = "deciding" /\ ~Write(Current.tool)
  /\ loop' = "calling"
  /\ UNCHANGED <<checked, toolCache, inbox, sessionId, forwarded, replies>> /\ Configured

\* rpc of the message, and its answer.  The server gets it whether or not the answer arrives.
Forward ==
  /\ loop = "calling"
  /\ forwarded' = forwarded \cup {Len(inbox)}
  /\ IF Current.method = "initialize" THEN sessionId' \in BOOLEAN ELSE UNCHANGED sessionId
  /\ IF Current.method = "tools/list" /\ ~Notification(Current)
       THEN \E listed \in SUBSET ToolNames : toolCache' = toolCache \cup listed
       ELSE UNCHANGED toolCache
  /\ IF Notification(Current) THEN UNCHANGED replies ELSE Reply(FALSE)
  /\ loop' = "idle"
  /\ UNCHANGED <<checked, inbox>> /\ Configured

\* A timeout, a lost connection or a body that is no JSON throws out of the loop.
RpcThrows ==
  /\ loop \in {"listing", "calling"}
  /\ loop' = "threw"
  /\ forwarded' \in IF loop = "calling" THEN {forwarded, forwarded \cup {Len(inbox)}} ELSE {forwarded}
  /\ UNCHANGED <<checked, toolCache, inbox, sessionId, replies>> /\ Configured

Next == \/ PreflightInitialize \/ PreflightNotify \/ PreflightList
        \/ Read \/ ListForCall \/ PlannedWrite \/ ReadOnlyCall \/ Forward \/ RpcThrows

-------------------------------------------------------------------------------
(* Properties. *)

\* Message i has an answer.
Answered(i) == \E k \in DOMAIN replies : replies[k].to = i

\* A call (with an id) that reaches the server is of a tool that the settings or the server
\* declare read-only, whatever part of its tools the server has listed by then; and as long as
\* the loop runs every earlier request has one answer, in order, and no notification has.
WritesStayHere ==
  /\ \A i \in forwarded :
       inbox[i].method = "tools/call" /\ ~Notification(inbox[i]) =>
         /\ inbox[i].tool \notin settings.alwaysWrite
         /\ inbox[i].tool \in settings.readOnly \/ hints[inbox[i].tool]
  /\ \A j, k \in DOMAIN replies :
       replies[k].to \in DOMAIN inbox /\ (j < k => replies[j].to < replies[k].to)
  /\ \A i \in DOMAIN inbox :
       Answered(i) <=> ~Notification(inbox[i]) /\ (i < Len(inbox) \/ loop = "idle")
===============================================================================
