------------------------------ MODULE Conformance ------------------------------
(***************************************************************************)
(* runConformanceChecks (src/src/spec/conformanceChecks.ts): eight probes  *)
(* of one connected server, in order, and the report of them.  A server    *)
(* may answer every probe or fail it.                                      *)
(***************************************************************************)
EXTENDS Integers, Sequences, SequencesExt, FiniteSets

CONSTANTS
  Offered,     \* the tools a server may list: sets of [name, schema], schema one of "object",
               \* "other", "missing"; name "" is a tool without a name
  RequiredTools

None == <<>>

VARIABLES
  asked,       \* the options: [required, schemas, info, resources, prompts]
  server,      \* what initialize gave: [info, capabilities], capabilities as an option
  probe,       \* the next probe; "done"
  checks,      \* the checks: [name, pass]
  raw,         \* [tools, resources, prompts]
  attached     \* whether the report was attached to the test

vars == <<asked, server, probe, checks, raw, attached>>

Init ==
  /\ asked \in [required : SUBSET RequiredTools, schemas : BOOLEAN, info : BOOLEAN,
                resources : BOOLEAN, prompts : BOOLEAN]
  /\ server \in [info : BOOLEAN, capabilities : {None} \cup {<<c>> : c \in SUBSET {"resources", "prompts"}}]
  /\ probe = "info"
  /\ checks = <<>>
  /\ raw = [tools |-> {}, resources |-> FALSE, prompts |-> FALSE]
  /\ attached = FALSE

Check(name, pass) == [name |-> name, pass |-> pass]
Checked(name, pass) == checks' = Append(checks, Check(name, pass))
Pass == \A i \in DOMAIN checks : checks[i].pass

ServerInfo ==
  /\ probe = "info"
  /\ checks' = (IF asked.info THEN <<Check("server_info_present", server.info)>> ELSE <<>>)
               \o <<Check("capabilities_valid", server.capabilities # None)>>
  /\ probe' = "tools"
  /\ UNCHANGED <<asked, server, raw, attached>>

\* A tool without a name, without a schema, or whose schema is not of an object.
InvalidTools(tools) == {t \in tools : t.name = "" \/ t.schema # "object"}

ListTools ==
  /\ probe = "tools"
  /\ \E tools \in Offered :
       /\ raw' = [raw EXCEPT !.tools = tools]
       /\ checks' = checks \o <<Check("list_tools_succeeds", TRUE)>>
            \o (IF asked.required = {} THEN <<>>
                ELSE <<Check("required_tools_present", asked.required \subseteq {t.name : t \in tools})>>)
            \o (IF asked.schemas /\ tools # {}
                  THEN <<Check("tool_schemas_valid", InvalidTools(tools) = {})>> ELSE <<>>)
  /\ probe' = "resources"
  /\ UNCHANGED <<asked, server, attached>>

\* The report ends here, and is not attached.
ListToolsFails ==
  /\ probe = "tools"
  /\ Checked("list_tools_succeeds", FALSE)
  /\ probe' = "done"
  /\ UNCHANGED <<asked, server, raw, attached>>

Declares(capability) == server.capabilities # None /\ capability \in server.capabilities[1]

ListOf(capability, wanted, check, next) ==
  /\ probe = capability
  /\ IF wanted /\ Declares(capability)
       THEN \E answers \in BOOLEAN :
              /\ Checked(check, answers)
              /\ raw' = [raw EXCEPT ![capability] = answers]
       ELSE UNCHANGED <<checks, raw>>
  /\ probe' = next
  /\ UNCHANGED <<asked, server, attached>>

ListResources == ListOf("resources", asked.resources, "list_resources_succeeds", "prompts")
ListPrompts == ListOf("prompts", asked.prompts, "list_prompts_succeeds", "invalid")

\* A tool that does not exist: the server may throw, answer with isError, or answer.
InvalidTool ==
  /\ probe = "invalid"
  /\ \E answer \in {"throws", "isError", "result"} : Checked("invalid_tool_returns_error", answer # "result")
  /\ probe' = "attach"
  /\ UNCHANGED <<asked, server, raw, attached>>

Attach ==
  /\ probe = "attach"
  /\ attached' \in BOOLEAN
  /\ probe' = "done"
  /\ UNCHANGED <<asked, server, checks, raw>>

Next == ServerInfo \/ ListTools \/ ListToolsFails \/ ListResources \/ ListPrompts \/ InvalidTool \/ Attach
===============================================================================
