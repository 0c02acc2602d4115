------------------------------ MODULE ExternalHost ------------------------------
(***************************************************************************)
(* Runs of a desktop host (src/src/evals/externalHost): the capabilities   *)
(* of its configuration are loaded, the prompt is pasted into the app, and *)
(* the answer is looked for in the sessions the app writes to disk (Cowork *)
(* surface) or on its screen (Chat surface).  Cases run one after the      *)
(* other or several at once, over one clipboard and one app, which its     *)
(* user goes on using.                                                     *)
(*                                                                         *)
(* The app and its user are external.  A session is the log of its events; *)
(* the marker of a run is in a prompt or it is not.                        *)
(***************************************************************************)
EXTENDS Integers, SequencesExt

CONSTANTS NumRuns,     \* the cases of the dataset that use the host
          Concurrency, \* the concurrency of the dataset, where it is not 1
          MaxSessions, \* bounds what the app writes: sessions,
          MaxEvents    \* and events

Runs == 1..NumRuns
User == 0
Sessions == 1..MaxSessions

VARIABLES
  config,     \* the configuration of the host; marked: correlation.includedInPrompt
  loaded,     \* the implementations of loadedCapabilities
  phase,      \* what a run does: "idle", a pass over the capabilities, a step of one, "done"
  next,       \* the index in loadedCapabilities
  snapshot,   \* state.data.claudeSessionSnapshot
  recent,     \* sessions from here on were created at most 5 s before the run started
  pending,    \* lastPending: "none", "seen", or "complete" since some poll
  trace,      \* state.data.claudeTrace
  outcome,    \* the result that was returned last, and whose it is
  sessions,   \* the sessions on disk, each the sequence of its events
  current,    \* the conversation in the front window; 0: a new one
  clipboard   \* whose prompt is on the clipboard

app == <<sessions, current, clipboard>>
driver == <<phase, next, snapshot, recent, pending, trace, outcome>>
host == <<config, loaded>>
vars == <<host, driver, app>>

-------------------------------------------------------------------------------
(* The configuration and what is loaded for it. *)

RequiredCapabilities == {"control", "input", "completion", "trace", "normalize"}

Use(id) == <<[uses |-> id, provides |-> {}]>>
Providing(id, more) == <<[uses |-> id, provides |-> more]>>

\* EXTERNAL_HOST_REGISTRY: the capabilities of the two hosts that need no configuration.
Registry ==
  [chat   |-> [control    |-> Use("platform"),
               input      |-> Use("submit"),
               completion |-> Providing("screen", {"trace", "normalize"})],
   cowork |-> [control    |-> Use("platform") \o Use("activate"),
               input      |-> Use("submit"),
               completion |-> Providing("localTrace", {"trace"}),
               normalize  |-> Use("localNormalize")]]

\* The implementations that exist, and what they say they provide: those of the desktop
\* and of the app, and one a user loads with "module:".
Implementations ==
  [platform |-> {"control"}, submit |-> {"input"}, activate |-> {"control"},
   coworkSurface |-> {"control"}, screen |-> {"completion", "trace", "normalize"},
   localTrace |-> {"completion", "trace"}, localNormalize |-> {"normalize"},
   module |-> {"normalize"}]

\* What a user may declare: nothing, the older check of the surface, a normalizer of his
\* own, no normalizer, a trace without the snapshot's capability, or an unknown one.
Overrides ==
  { <<>>,
    [control |-> Use("platform") \o Use("coworkSurface")],
    [normalize |-> Use("module")],
    [normalize |-> <<>>],
    [completion |-> Use("missing")] }

Configs ==
  [host : {"chat", "cowork"}, capabilities : {<<>>}, marked : BOOLEAN,
   newConversation : BOOLEAN, darwin : {TRUE}, concurrency : {1}]
    \cup [host : {"chat", "cowork", "other"}, capabilities : Overrides, marked : {TRUE},
          newConversation : {TRUE}, darwin : BOOLEAN, concurrency : {1}]
    \cup [host : {"cowork"}, capabilities : {<<>>}, marked : {TRUE},
          newConversation : {TRUE}, darwin : {TRUE}, concurrency : {Concurrency}]

\* mergeExternalHostConfig: a declared capability replaces the registered one as a whole.
Bindings(c, capability) ==
  IF capability \in DOMAIN c.capabilities THEN c.capabilities[capability]
  ELSE IF c.host \in DOMAIN Registry /\ capability \in DOMAIN Registry[c.host]
    THEN Registry[c.host][capability]
  ELSE <<>>

\* The bindings in the order of the required capabilities, whatever order they are declared in.
LoadedBindings(c) ==
  Bindings(c, "control") \o Bindings(c, "input") \o Bindings(c, "completion")
    \o Bindings(c, "trace") \o Bindings(c, "normalize")

Available(c) == \A b \in ToSet(LoadedBindings(c)) : b.uses \in DOMAIN Implementations

Provided(c) ==
  {capability \in RequiredCapabilities : Bindings(c, capability) # <<>>}
    \cup UNION {Implementations[b.uses] \cup b.provides : b \in ToSet(LoadedBindings(c))}

\* loadExternalHostConfig returns, and does not throw.
Loads(c) == Available(c) /\ RequiredCapabilities \subseteq Provided(c)

-------------------------------------------------------------------------------
(* The trace of a session. *)

Event(kind, by) == [kind |-> kind, by |-> by]

IsPromptOf(r, e) == e.kind = "prompt" /\ e.by = r

PromptedBy(r, s) == \E e \in ToSet(sessions[s]) : IsPromptOf(r, e)

\* Mutant: the events of a run are those of the whole session.
FromTheBeginning(r, s) == 1

\* selectEventsForMarker: the events of a run begin with the one that holds its marker.
FirstOwnEvent(r, s) ==
  IF config.marked
    THEN SelectInSeq(sessions[s], LAMBDA e : IsPromptOf(r, e))
    ELSE 1

\* findLastResultEvent among the events of the run; 0: there is none.
LastResult(r, s) ==
  LET first == FirstOwnEvent(r, s)
  IN IF first = 0 THEN 0
     ELSE SelectLastInSubSeq(sessions[s], first, Len(sessions[s]), LAMBDA e : e.kind # "prompt")

\* parseClaudeTrace: what one look at the files of session s gives.  A line of the audit
\* log may be half written, the log unreadable; there need not be a transcript yet.
TraceOf(r, s, audit, transcript) ==
  [session |-> s, audit |-> audit,
   result |-> IF audit = "unreadable" /\ transcript \notin {"parsed", "torn"}
                THEN 0 ELSE LastResult(r, s)]

\* isTraceReady: a transcript that does not parse gets some time to become complete.
TraceReady(t, transcript, settled) ==
  t.result # 0 /\ (transcript \in {"no cliSessionId", "parsed"} \/ settled)

\* getTraceConfidence, for a complete trace.
TraceConfidence(t) ==
  IF t.audit = "unreadable" THEN "unknown"
  ELSE IF t.audit = "torn" \/ ~config.marked THEN "medium"
  ELSE "high"

\* getSessionObservedMtime: every event the app writes makes a session newer.
Version(s) == Len(sessions[s])

\* Mutant: a session of the snapshot is taken for an old one though it grew.
NewSessionOnly(r, s) == s \notin DOMAIN snapshot[r]

NewOrUpdated(r, s) == s \notin DOMAIN snapshot[r] \/ Version(s) > snapshot[r][s]

\* sessionMatchesCorrelation: by the marker, which may be anywhere in its files, or
\* any session that changed or is recent.
MatchesCorrelation(r, s) == config.marked => PromptedBy(r, s)

\* findMatchingClaudeSessions, when the metadata of the sessions in skipped do not parse.
Matching(r, skipped) ==
  {s \in DOMAIN sessions \ skipped :
     (NewOrUpdated(r, s) \/ s >= recent[r]) /\ MatchesCorrelation(r, s)}

\* A run ends with a result: a failure of some kind, or an answer and how sure the host is of it.
Failure(kind) == [success |-> FALSE, kind |-> kind]
Success(s, event, confidence) ==
  [success |-> TRUE, session |-> s, answer |-> event, confidence |-> confidence]

-------------------------------------------------------------------------------
Init ==
  /\ config \in Configs
  /\ loaded = [i \in DOMAIN LoadedBindings(config) |-> LoadedBindings(config)[i].uses]
  /\ phase = [r \in Runs |-> "idle"]
  /\ next = [r \in Runs |-> 1]
  /\ snapshot = [r \in Runs |-> <<>>]
  /\ recent = [r \in Runs |-> 1]
  /\ pending = [r \in Runs |-> "none"]
  /\ trace = [r \in Runs |-> <<>>]
  /\ outcome = [run |-> 0, result |-> Failure("none")]
  /\ sessions = << <<Event("prompt", User), Event("result", User)>> >>
  /\ current = 1
  /\ clipboard = User

\* The result goes to the case, and what the run kept for itself is gone.
Finish(r, result) ==
  /\ phase' = [phase EXCEPT ![r] = "done"]
  /\ outcome' = [run |-> r, result |-> result]
  /\ next' = [next EXCEPT ![r] = 1]
  /\ snapshot' = [snapshot EXCEPT ![r] = <<>>]
  /\ recent' = [recent EXCEPT ![r] = 1]
  /\ pending' = [pending EXCEPT ![r] = "none"]
  /\ trace' = [trace EXCEPT ![r] = <<>>]

Active == {r \in Runs : phase[r] \notin {"idle", "done"}}

\* runExternalHostScenario up to the first capability.  The newest session is
\* recent, too, if it was created less than 5 s ago.
Begin(r) ==
  /\ phase[r] = "idle"
  /\ \A earlier \in 1..(r - 1) : phase[earlier] # "idle"
  /\ Cardinality(Active) < config.concurrency
  /\ IF Loads(config)
       THEN /\ phase' = [phase EXCEPT ![r] = "setup"]
            /\ \E from \in {Len(sessions), Len(sessions) + 1} : recent' = [recent EXCEPT ![r] = from]
            /\ UNCHANGED <<next, snapshot, pending, trace, outcome>>
       ELSE Finish(r, Failure("unsupported_host"))
  /\ UNCHANGED <<host, app>>

\* The setups of all capabilities come before the first run.  Only localTrace has one,
\* snapshotClaudeSessions; a session whose metadata do not parse just now is left out.
Setup(r) ==
  /\ phase[r] = "setup"
  /\ IF \E i \in DOMAIN loaded : loaded[i] = "localTrace"
       THEN \E torn \in {{}} \cup {{s} : s \in DOMAIN sessions} :
              snapshot' = [snapshot EXCEPT ![r] = [s \in DOMAIN sessions \ torn |-> Version(s)]]
       ELSE UNCHANGED snapshot
  /\ phase' = [phase EXCEPT ![r] = "run"]
  /\ UNCHANGED <<host, next, recent, pending, trace, outcome, app>>

NoResult(r) ==
  /\ phase[r] = "run" /\ next[r] > Len(loaded)
  /\ Finish(r, Failure("unsupported_host"))
  /\ UNCHANGED <<host, app>>

\* A capability that gives no result hands over to the next one.
Proceed(r) ==
  /\ phase' = [phase EXCEPT ![r] = "run"]
  /\ next' = [next EXCEPT ![r] = @ + 1]
  /\ UNCHANGED <<snapshot, recent, pending, outcome>>

At(r, id) == phase[r] = "run" /\ next[r] \in DOMAIN loaded /\ loaded[next[r]] = id

\* requireMacosCapability.
Platform(r) ==
  /\ At(r, "platform")
  /\ IF config.darwin THEN Proceed(r) /\ UNCHANGED trace
     ELSE Finish(r, Failure("unsupported_host"))
  /\ UNCHANGED <<host, app>>

\* Cmd+2 brings up the Cowork surface, or its older substitute looks whether it is there.
Surface(r) ==
  /\ At(r, "activate") \/ At(r, "coworkSurface")
  /\ \/ Proceed(r) /\ UNCHANGED trace
     \/ Finish(r, Failure("submission_failed"))
  /\ UNCHANGED <<host, app>>

-------------------------------------------------------------------------------
(* Submitting the prompt: the clipboard, then a script that sends keystrokes. *)

WriteClipboard(r) ==
  /\ At(r, "submit")
  /\ clipboard' = r
  /\ phase' = [phase EXCEPT ![r] = "script"]
  /\ UNCHANGED <<host, next, snapshot, recent, pending, trace, outcome, sessions, current>>

\* submitPromptCapability catches what pbcopy and the script throw, and what the time limit
\* of the script cuts off.  The kind, told from the message, may say that a permission or
\* the app is missing.
SubmitFails(r) ==
  /\ At(r, "submit") \/ phase[r] \in {"script", "composer"}
  /\ Finish(r, Failure("submission_failed"))
  /\ UNCHANGED <<host, app>>

\* The app is in front; Cmd+N opens a new conversation if one is asked for.
OpenConversation(r) ==
  /\ phase[r] = "script"
  /\ current' = IF config.newConversation THEN 0 ELSE current
  /\ phase' = [phase EXCEPT ![r] = "composer"]
  /\ UNCHANGED <<host, next, snapshot, recent, pending, trace, outcome, sessions, clipboard>>

Written == FoldFunction(+, 0, [s \in DOMAIN sessions |-> Len(sessions[s])])

\* A prompt goes into a conversation; it makes a new one a session.
Prompt(by, conversation) ==
  /\ Written < MaxEvents
  /\ IF conversation = 0
       THEN /\ Len(sessions) < MaxSessions
            /\ sessions' = Append(sessions, <<Event("prompt", by)>>)
            /\ current' = Len(sessions) + 1
       ELSE /\ sessions' = [sessions EXCEPT ![conversation] = Append(@, Event("prompt", by))]
            /\ current' = conversation

\* Cmd+V and Return: what is on the clipboard now goes into the front window.
Paste(r) ==
  /\ phase[r] = "composer"
  /\ Prompt(clipboard, current)
  /\ Proceed(r)
  /\ UNCHANGED <<host, trace, clipboard>>

-------------------------------------------------------------------------------
(* Cowork: the trace of the session on disk. *)

\* The one session that matches is done with, or waited for.
Look(r, t, transcript) ==
  \E settled \in {FALSE, pending[r] = "complete"} :
    IF TraceReady(t, transcript, settled)
      THEN Proceed(r) /\ trace' = [trace EXCEPT ![r] = t]
      ELSE /\ pending' = [pending EXCEPT ![r] =
                            IF t.result # 0 \/ @ = "complete" THEN "complete" ELSE "seen"]
           /\ UNCHANGED <<phase, next, snapshot, recent, trace, outcome>>

\* One round of waitForClaudeTrace.
Poll(r) ==
  /\ At(r, "localTrace")
  /\ \E skipped \in {{}} \cup {{s} : s \in DOMAIN sessions} :
       LET matches == Matching(r, skipped)
       IN \/ /\ Cardinality(matches) > 1
             /\ Finish(r, Failure("ambiguous_matching_sessions"))
          \/ /\ Cardinality(matches) = 1
             /\ \E s \in matches, audit \in {"parsed", "torn", "unreadable"},
                   transcript \in {"no cliSessionId", "missing", "torn", "parsed"} :
                  Look(r, TraceOf(r, s, audit, transcript), transcript)
  /\ UNCHANGED <<host, app>>

\* The deadline of the wait, which counts from its beginning.
WaitTimesOut(r) ==
  /\ At(r, "localTrace")
  /\ Finish(r, Failure(IF pending[r] = "none" THEN "no_matching_session" ELSE "timeout"))
  /\ UNCHANGED <<host, app>>

\* normalizeClaudeCoworkAgentTrace: the result may be an error, or have no text.
Normalize(r) ==
  /\ At(r, "localNormalize")
  /\ \/ Finish(r, Success(trace[r].session, trace[r].result, TraceConfidence(trace[r])))
     \/ \E kind \in {"host_run_failed", "parse_failure"} : Finish(r, Failure(kind))
  /\ UNCHANGED <<host, app>>

\* A normalizer of the user gives a result of its own, or nothing.
Module(r) ==
  /\ At(r, "module")
  /\ \/ Finish(r, Failure("custom"))
     \/ Proceed(r) /\ UNCHANGED trace
  /\ UNCHANGED <<host, app>>

-------------------------------------------------------------------------------
(* Chat: the text on the screen. *)

\* extractAccessibilityResponse: the last answer that is visible, and without one the
\* line after the marker, which is some text of the window (0).
VisibleAnswer == SelectLastInSeq(sessions[current], LAMBDA e : e.kind # "prompt")

\* readAccessibilityFallback: the front window shows the marker and something after it.
\* The marker is looked for whether or not it was submitted.
ReadScreen(r) ==
  /\ At(r, "screen")
  /\ config.marked /\ current # 0 /\ PromptedBy(r, current)
  /\ Finish(r, Success(current, VisibleAnswer, "low"))
  /\ UNCHANGED <<host, app>>

ScreenTimesOut(r) ==
  /\ At(r, "screen")
  /\ Finish(r, Failure("timeout"))
  /\ UNCHANGED <<host, app>>

-------------------------------------------------------------------------------
(* The app and its user. *)

\* The last prompt of a session is answered.
Answers(s) ==
  /\ Last(sessions[s]).kind = "prompt" /\ Written < MaxEvents
  /\ sessions' = [sessions EXCEPT ![s] = Append(@, Event("result", Last(@).by))]
  /\ UNCHANGED <<host, driver, current, clipboard>>

\* The user copies something, or asks something in any conversation.  To bound the runs,
\* there is a user or there are concurrent cases.
UserActs ==
  /\ config.concurrency = 1
  /\ \/ clipboard' = User /\ UNCHANGED <<sessions, current>>
     \/ \E c \in 0..Len(sessions) : Prompt(User, c) /\ UNCHANGED clipboard
  /\ UNCHANGED <<host, driver>>

-------------------------------------------------------------------------------
Capture(r) == Poll(r) \/ WaitTimesOut(r) \/ ReadScreen(r) \/ ScreenTimesOut(r)

Driver(r) ==
  \/ Begin(r) \/ Setup(r) \/ NoResult(r)
  \/ Platform(r) \/ Surface(r)
  \/ WriteClipboard(r) \/ SubmitFails(r) \/ OpenConversation(r) \/ Paste(r)
  \/ Capture(r) \/ Normalize(r) \/ Module(r)

Next == (\E r \in Runs : Driver(r)) \/ (\E s \in DOMAIN sessions : Answers(s)) \/ UserActs

Spec == Init /\ [][Next]_vars

-------------------------------------------------------------------------------
(* Properties. *)

\* A confident answer is an answer to this run: it was given in a session that holds the
\* marker of the run, and after it, also in a conversation that was there before.
HighMeansOwn ==
  LET result == outcome.result
  IN result.success /\ result.confidence = "high" =>
       \E i \in 1..(result.answer - 1) : IsPromptOf(outcome.run, sessions[result.session][i])

\* The session that holds the prompt of a waiting run is among those looked at, whether it
\* is new or was there when the snapshot was taken.
NotOverlooked ==
  \A r \in Runs : At(r, "localTrace") =>
    \A s \in DOMAIN sessions : PromptedBy(r, s) => s \in Matching(r, {})

===============================================================================
