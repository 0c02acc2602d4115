---------------------------- MODULE GenerateWizard ----------------------------
(***************************************************************************)
(* `generate` (src/src/cli/commands/generate/GenerateApp.tsx): a wizard    *)
(* that connects to a server, calls its tools and writes the answers as    *)
(* cases of a dataset.  One action per handler of a prompt and per         *)
(* continuation of a promise.  Ctrl+C may come at any time; what was in    *)
(* flight then goes on without the application.                            *)
(***************************************************************************)
EXTENDS Suggestions

CONSTANTS
  Fields,      \* tool |-> the properties of its input schema, <<>> if it has none:
               \*   a sequence of [name, type, required]
  Entries,     \* what the user may type as a value
  Answers,     \* the texts a tool may answer
  OldCases,    \* the cases of a dataset that is already at the output path
  MaxCases     \* bound on the cases of one sitting

Tools == DOMAIN Fields
None == <<>>

VARIABLES
  step,         \* the prompt on the screen; "gone": the application is unmounted
  options,      \* [config, snapshot] of the command line
  mcpConfig,    \* whether there is a configuration
  flight,       \* the promise the wizard waits for
  client,       \* the connection the state holds: "none", "open", "closed"
  stray,        \* the connection that is open and not (yet) in the state: "none", "open",
                \* "unlistable"
  output,       \* the file at outputPath: [kind, cases]
  dataset,      \* the cases of dataset
  form,         \* [tool, index, args]: selectedTool, currentPropertyIndex, argValues
  reply,        \* [error, text]: callError, and the text of the response
  currentCase,  \* the case that is put together
  called        \* the calls that were answered (not in the code)

vars == <<step, options, mcpConfig, flight, client, stray, output, dataset, form, reply,
          currentCase, called>>
wizard == <<options, mcpConfig, flight, client, stray, output>>   \* not changed by the prompts of a case

EmptyForm == [tool |-> None, index |-> 1, args |-> None]
EmptyReply == [error |-> FALSE, text |-> None]
EmptyCase == [tool |-> None, args |-> None, expect |-> {}]

Gone == step = "gone"
\* setStep does nothing once the application is unmounted.
GoTo(next) == step' = IF Gone THEN "gone" ELSE next

Init ==
  /\ options \in [config : BOOLEAN, snapshot : BOOLEAN]
  /\ step = IF options.config THEN "connecting" ELSE "loadingServers"
  /\ mcpConfig = FALSE
  /\ flight = "none"
  /\ client = "none" /\ stray = "none"
  /\ output \in {[kind |-> "absent", cases |-> <<>>], [kind |-> "garbage", cases |-> <<>>],
                 [kind |-> "dataset", cases |-> OldCases]}
  /\ dataset = <<>>
  /\ form = EmptyForm /\ reply = EmptyReply /\ currentCase = EmptyCase
  /\ called = {}

-------------------------------------------------------------------------------
(* The configuration. *)

unconfigured == <<options, flight, client, stray, output, dataset, form, reply, currentCase, called>>

LoadKnownServers ==
  /\ step = "loadingServers"
  /\ step' \in {"selectServer", "configTransport"}
  /\ UNCHANGED <<mcpConfig, unconfigured>>

SelectServer ==
  /\ step = "selectServer"
  /\ \/ step' = "configTransport" /\ UNCHANGED mcpConfig
     \/ step' = "connecting" /\ mcpConfig' = TRUE
  /\ UNCHANGED unconfigured

ConfigTransport ==
  /\ step = "configTransport"
  /\ step' \in {"configStdio", "configHttp"}
  /\ UNCHANGED <<mcpConfig, unconfigured>>

\* validateMCPConfig throws in the handler if what was typed is no configuration.
ConfigTyped ==
  /\ step \in {"configStdio", "configHttp"}
  /\ \/ step' = "connecting" /\ mcpConfig' = TRUE
     \/ step' = "gone" /\ UNCHANGED mcpConfig
  /\ UNCHANGED unconfigured

\* loadConfig of --config
LoadConfig ==
  /\ step = "connecting" /\ options.config /\ ~mcpConfig
  /\ \/ step' = "connecting" /\ mcpConfig' = TRUE
     \/ step' = "error" /\ UNCHANGED mcpConfig
  /\ UNCHANGED unconfigured

-------------------------------------------------------------------------------
(* Connecting. *)

untouched == <<options, mcpConfig, dataset, form, reply, currentCase, called>>

ConnectToServer ==
  /\ step = "connecting" /\ mcpConfig /\ flight = "none"
  /\ flight' = "connect"
  /\ UNCHANGED <<step, client, stray, output, untouched>>

\* isMountedRef is looked at after each await.
Connected ==
  /\ flight = "connect"
  /\ \/ /\ flight' = "none"
        /\ \E problem \in {"authRequired", "error"} : GoTo(problem)
        /\ UNCHANGED stray
     \/ /\ flight' = IF Gone THEN "none" ELSE "listTools"
        /\ stray' = IF Gone THEN stray ELSE "open"
        /\ UNCHANGED step
  /\ UNCHANGED <<client, output, untouched>>

\* Where listTools throws nobody closes the connection: the state does not hold it yet.
ListFails ==
  /\ flight = "listTools"
  /\ flight' = "none"
  /\ \E problem \in {"authRequired", "error"} : GoTo(problem)
  /\ stray' = "unlistable"
  /\ UNCHANGED <<client, output, untouched>>

\* Mutant: after the await nobody asks whether the application is still there.
ToolsListedUnchecked ==
  /\ flight = "listTools"
  /\ flight' = "stat" /\ client' = "open" /\ stray' = "none"
  /\ UNCHANGED <<step, output, untouched>>

ToolsListed ==
  /\ flight = "listTools"
  /\ stray' = "none"
  /\ flight' = IF Gone THEN "none" ELSE "stat"
  /\ client' = IF Gone THEN client ELSE "open"
  /\ UNCHANGED <<step, output, untouched>>

StatOutput ==
  /\ flight = "stat"
  /\ flight' = "none"
  /\ GoTo(IF output.kind = "absent" THEN "datasetName" ELSE "appendPrompt")
  /\ UNCHANGED <<client, stray, output, untouched>>

-------------------------------------------------------------------------------
(* The dataset. *)

AppendConfirmed ==
  /\ step = "appendPrompt"
  /\ IF output.kind = "dataset"
       THEN dataset' = output.cases /\ step' = "selectTool"
       ELSE step' = "datasetName" /\ UNCHANGED dataset
  /\ UNCHANGED <<wizard, form, reply, currentCase, called>>

AppendDeclined ==
  /\ step = "appendPrompt"
  /\ step' = "datasetName"
  /\ UNCHANGED <<wizard, dataset, form, reply, currentCase, called>>

DatasetName ==
  /\ step = "datasetName"
  /\ step' = "selectTool"
  /\ UNCHANGED <<wizard, dataset, form, reply, currentCase, called>>

-------------------------------------------------------------------------------
(* A call. *)

SelectTool ==
  /\ step = "selectTool"
  /\ \E tool \in Tools :
       /\ form' = [tool |-> <<tool>>, index |-> 1, args |-> None]
       /\ step' = IF Fields[tool] # <<>> THEN "enterArgField" ELSE "enterRawArgs"
  /\ UNCHANGED <<wizard, dataset, reply, currentCase, called>>

\* The value of an entry for a property of this type; None: the property is left out.
\* A number that cannot be read is NaN, and an empty boolean is false.
Parsed(type, entry) ==
  CASE type = "number" -> IF entry = "" THEN None ELSE IF entry = "1" THEN <<"number">> ELSE <<"NaN">>
    [] type = "boolean" -> <<IF entry = "true" THEN "true" ELSE "false">>
    [] OTHER -> IF entry = "" THEN None ELSE <<"text">>

\* callTool is given the arguments, since argValues is not yet set when it runs.
EnterArgField ==
  /\ step = "enterArgField"
  /\ LET fields == Fields[form.tool[1]]
         field == fields[form.index]
     IN \E entry \in Entries :
          /\ ~(field.required /\ entry = "")
          /\ LET value == Parsed(field.type, entry)
                 args == IF value = None THEN form.args
                         ELSE Append(form.args, <<field.name, value[1]>>)
                 last == form.index = Len(fields)
             IN /\ form' = [form EXCEPT !.args = args, !.index = IF last THEN @ ELSE @ + 1]
                /\ step' = IF last THEN "callingTool" ELSE step
                /\ flight' = IF last THEN "callTool" ELSE flight
  /\ UNCHANGED <<options, mcpConfig, client, stray, output, dataset, reply, currentCase, called>>

\* What is no JSON stays on the prompt.
EnterRawArgs ==
  /\ step = "enterRawArgs"
  /\ form' = [form EXCEPT !.args = <<<<"json", "object">>>>]
  /\ step' = "callingTool" /\ flight' = "callTool"
  /\ UNCHANGED <<options, mcpConfig, client, stray, output, dataset, reply, currentCase, called>>

CallAnswers ==
  /\ flight = "callTool" /\ client = "open"
  /\ flight' = "none"
  /\ GoTo("reviewResponse")
  /\ \E text \in Answers :
       /\ reply' = [error |-> FALSE, text |-> text]
       /\ currentCase' = [tool |-> form.tool, args |-> form.args, expect |-> {}]
       /\ called' = called \cup {[tool |-> form.tool, args |-> form.args, text |-> text]}
  /\ UNCHANGED <<options, mcpConfig, client, stray, output, dataset, form>>

CallFails ==
  /\ flight = "callTool"
  /\ flight' = "none"
  /\ GoTo("reviewResponse")
  /\ reply' = [reply EXCEPT !.error = TRUE]
  /\ UNCHANGED <<options, mcpConfig, client, stray, output, dataset, form, currentCase, called>>

-------------------------------------------------------------------------------
(* The expectations of the case. *)

prompted == <<wizard, form, reply, called>>

\* Mutant: a call that failed is made a case, too.
ReviewAlways ==
  /\ step = "reviewResponse"
  /\ step' = "caseId"
  /\ UNCHANGED <<prompted, dataset, currentCase>>

ReviewResponse ==
  /\ step = "reviewResponse"
  /\ step' = IF reply.error THEN "askContinue" ELSE "caseId"
  /\ UNCHANGED <<prompted, dataset, currentCase>>

CaseId ==
  /\ step = "caseId"
  /\ step' = "caseDescription"
  /\ UNCHANGED <<prompted, dataset, currentCase>>

AddCase(expect) ==
  /\ dataset' = Append(dataset, [currentCase EXCEPT !.expect = expect])
  /\ step' = "askContinue"

CaseDescription ==
  /\ step = "caseDescription"
  /\ IF options.snapshot THEN AddCase({<<"snapshot">>})
                         ELSE step' = "useTextContains" /\ UNCHANGED dataset
  /\ UNCHANGED <<prompted, currentCase>>

\* A prompt without suggestions is skipped by an effect.
Ask(prompt, next, suggested, expectation) ==
  /\ step = prompt
  /\ step' = next
  /\ currentCase' \in {currentCase} \cup
       IF suggested THEN {[currentCase EXCEPT !.expect = @ \cup {expectation}]} ELSE {}
  /\ UNCHANGED <<prompted, dataset>>

UseTextContains ==
  LET suggested == TextContains(reply.text)
  IN Ask("useTextContains", "useRegex", suggested # {}, <<"containsText", suggested>>)

UseRegex ==
  LET suggested == Patterns(reply.text)
  IN Ask("useRegex", "useExact", suggested # {}, <<"matchesPattern", suggested>>)

UseExact == Ask("useExact", "useSnapshot", TRUE, <<"response", reply.text>>)

UseSnapshot ==
  /\ step = "useSnapshot"
  /\ \E snapshot \in {{}, {<<"snapshot">>}} : AddCase(currentCase.expect \cup snapshot)
  /\ UNCHANGED <<prompted, currentCase>>

-------------------------------------------------------------------------------
(* The end. *)

AskContinue ==
  /\ step = "askContinue" /\ Len(dataset) < MaxCases
  /\ step' = "selectTool"
  /\ form' = EmptyForm /\ reply' = EmptyReply /\ currentCase' = EmptyCase
  /\ UNCHANGED <<wizard, dataset, called>>

Finish ==
  /\ step = "askContinue"
  /\ step' = "saving" /\ flight' = "saveDataset"
  /\ UNCHANGED <<client, stray, output, untouched>>

\* saveDataset writes the whole file in place.
SaveDataset ==
  /\ flight = "saveDataset"
  /\ flight' = "none"
  /\ \/ output' = [kind |-> "dataset", cases |-> dataset] /\ GoTo("done")
     \/ output' \in {output, [kind |-> "garbage", cases |-> <<>>]} /\ GoTo("error")
  /\ UNCHANGED <<client, stray, untouched>>

\* handleExit after the last screen, or Ctrl+C: the client of the state is closed.
Exit ==
  /\ ~Gone
  /\ step' = "gone"
  /\ client' = IF client = "open" THEN "closed" ELSE client
  /\ UNCHANGED <<flight, stray, output, untouched>>

Next ==
  \/ LoadKnownServers \/ SelectServer \/ ConfigTransport \/ ConfigTyped \/ LoadConfig
  \/ ConnectToServer \/ Connected \/ ListFails \/ ToolsListed \/ StatOutput
  \/ AppendConfirmed \/ AppendDeclined \/ DatasetName
  \/ SelectTool \/ EnterArgField \/ EnterRawArgs \/ CallAnswers \/ CallFails
  \/ ReviewResponse \/ CaseId \/ CaseDescription
  \/ UseTextContains \/ UseRegex \/ UseExact \/ UseSnapshot
  \/ AskContinue \/ Finish \/ SaveDataset \/ Exit

-------------------------------------------------------------------------------
(* Properties. *)

NewCases == IF Len(dataset) >= Len(OldCases) /\ SubSeq(dataset, 1, Len(OldCases)) = OldCases
              THEN SubSeq(dataset, Len(OldCases) + 1, Len(dataset)) ELSE dataset

\* A case expects only what was seen: its tool was called with these arguments and answered,
\* and every expectation was taken from that answer.  Earlier rounds of the wizard, calls
\* that failed and the case before leave nothing in it.
CasesWereSeen ==
  \A c \in ToSet(NewCases) :
    \E call \in called :
      /\ c.tool = call.tool /\ c.args = call.args
      /\ \A e \in c.expect :
           e \in {<<"containsText", TextContains(call.text)>>,
                  <<"matchesPattern", Patterns(call.text)>>,
                  <<"response", call.text>>, <<"snapshot">>}

\* Once the wizard is gone and nothing is in flight, no connection it obtained is left open,
\* whenever it was left: while connecting, while the tools were listed, or later.  The one
\* exception is a connection whose tools could not be listed.
ConnectionsReleased ==
  Gone /\ flight = "none" => client # "open" /\ stray # "open"
===============================================================================
