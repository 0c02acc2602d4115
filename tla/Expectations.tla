----------------------------- MODULE Expectations -----------------------------
(***************************************************************************)
(* runExpectBlockValidations (src/src/evals/evalRunner.ts): one answer is  *)
(* judged by the fields of an expect block.  The checks without an await   *)
(* come first, then all judges at once (Promise.all), each asking its      *)
(* model reps times in a row, then the snapshot.  The validators are those *)
(* of src/src/assertions/validators, the judges those of src/src/judge.    *)
(*                                                                         *)
(* A text is the set of the words in it; an absent field is <<>> and a     *)
(* given one <<value>>.                                                    *)
(***************************************************************************)
EXTENDS ToolCalls

CONSTANTS MaxReps,   \* bound: repetitions of a judge
          MaxScore, \* scores are k / MaxScore for k in 0..MaxScore
          Inputs    \* bound: pairs of an answer and the block it is judged by

VARIABLES answer,  \* the response under judgement
          block,   \* the expect block
          pc,      \* "checks", "judging", "snapshot", "done" or "threw"
          results, \* the expectation results so far: field -> pass
          judges   \* one record per judge of the block: status and scores

vars == <<answer, block, pc, results, judges>>

\* extractText: strings, normalized and host answers give their text, whatever it is; raw
\* answers without a text block give their structured content, the others are serialised.
ExtractText(a) ==
  CASE a.shape = "none" -> {}
    [] a.shape \in {"string", "normalized", "host"} \/ a.text # {} -> a.text
    [] a.shape = "raw" -> IF a.structured THEN a.serialised ELSE {}
    [] OTHER -> a.serialised

\* getValidatableValue: what the schema is given.  Structured content wins, then text that
\* parses as JSON, then the response itself; a normalized answer has null for structured
\* content it does not have, and null is what the schema gets.
ValidatableValue(a) ==
  CASE a.shape = "none" -> "null"
    [] a.structured /\ a.shape \in {"raw", "normalized", "object"} -> "structured"
    [] a.shape = "normalized" -> "null"
    [] a.shape \in {"string", "raw"} /\ a.json -> "parsed"
    [] OTHER -> "response"

\* stringifyResponse: no answer and the empty string are the same.
Stringified(a) ==
  IF a.shape \in {"none", "string"}
    THEN [text |-> ExtractText(a), object |-> {}] ELSE [text |-> {}, object |-> {a}]

\* getResponseSizeBytes; an absent answer has no bytes.
Size(a) == IF a.shape = "none" THEN 0 ELSE a.bytes

\* isErrorResponse: the flag of a raw or normalized answer.
IsError(a) == a.shape \in {"raw", "normalized"} /\ a.isError

\* validateError: with words, an error that has one of them.
ValidateError(a, expected) ==
  IF expected.words = {} THEN IsError(a) = expected.error
  ELSE IsError(a) /\ expected.words \cap ExtractText(a) # {}

\* validateSize: at least one bound is needed; -1 is an absent bound.
ValidateSize(a, bounds) ==
  /\ bounds # [min |-> -1, max |-> -1]
  /\ bounds.min # -1 => Size(a) >= bounds.min
  /\ bounds.max # -1 => Size(a) <= bounds.max

\* The trace the tool validators see: the renamed events of a host's answer, evidence
\* that is not structured fails them.
Trace(a) == MapToolNames(a.events, a.toolMap)
TraceVerified(a) == a.shape = "host" /\ a.evidence \in {"undefined", "structured"}

Given(field) == block[field] # <<>>

ValidateResponse(a, expected) == Stringified(a) = Stringified(expected)

\* A schema is the set of the values it accepts; one that is not registered fails.
ValidateSchema(a, schema) == schema.registered /\ ValidatableValue(a) \in schema.accepts

ValidateText(a, expected) == expected \subseteq ExtractText(a)

ValidatePattern(a, patterns) == patterns.words \subseteq ExtractText(a)

\* The verdict on one field of the block, for the fields checked without an await.
Verdict(field) ==
  LET expected == block[field][1]
  IN CASE field = "response" -> ValidateResponse(answer, expected)
       [] field = "schema" -> ValidateSchema(answer, expected)
       [] field = "containsText" -> ValidateText(answer, expected)
       [] field = "matchesPattern" -> ValidatePattern(answer, expected)
       [] field = "isError" -> ValidateError(answer, expected)
       [] field = "responseSize" -> ValidateSize(answer, expected)
       [] field = "toolsTriggered" ->
            TraceVerified(answer) /\ ValidateToolCalls(Trace(answer), expected)
       [] field = "toolCallCount" ->
            TraceVerified(answer) /\ ValidateToolCallCount(Trace(answer), expected)

CheckedFields == {"response", "schema", "containsText", "matchesPattern", "isError",
                  "responseSize", "toolsTriggered", "toolCallCount"}

Init ==
  /\ \E input \in Inputs : answer = input[1] /\ block = input[2]
  /\ pc = "checks"
  /\ results = <<>>
  /\ judges = <<>>

\* The first of two things that leave runExpectBlockValidations by a throw: a toolMap
\* that is ambiguous (before it is called) and a pattern that is no regular expression.
Throws == \/ answer.shape = "host" /\ Ambiguous(answer.toolMap)
          \/ Given("matchesPattern") /\ ~block.matchesPattern[1].valid

Throw ==
  /\ pc = "checks"
  /\ Throws
  /\ pc' = "threw"
  /\ UNCHANGED <<answer, block, results, judges>>

Providers == {"anthropic", "vertex-anthropic", "anthropic-agent-sdk", "openai", "google"}

\* createJudge: Vertex and the agent SDK find their credentials themselves, the others
\* throw without an API key.
Created(j) ==
  /\ j.provider \in Providers
  /\ j.provider \in {"vertex-anthropic", "anthropic-agent-sdk"} \/ j.key

\* The requests a judge makes: a named judge is asked once, whatever reps says.
Reps(j) == IF j.named THEN 1 ELSE j.reps

\* validateJudge up to its first request: a name that is not registered, a judge that
\* cannot be created and one without repetitions have failed already.
StartJudge(j) ==
  [scores |-> <<>>,
   status |-> IF (IF j.named THEN j.registered ELSE Created(j)) /\ Reps(j) > 0
              THEN "asking" ELSE "failed"]

Check ==
  /\ pc = "checks"
  /\ ~Throws
  /\ results' = [f \in {g \in CheckedFields : Given(g)} |-> Verdict(f)]
  /\ judges' = [i \in DOMAIN block.passesJudge |-> StartJudge(block.passesJudge[i])]
  /\ pc' = IF block.passesJudge = <<>> THEN "snapshot" ELSE "judging"
  /\ UNCHANGED <<answer, block>>

Total(scores) ==
  LET sum[i \in 0..Len(scores)] == IF i = 0 THEN 0 ELSE sum[i - 1] + scores[i]
  IN sum[Len(scores)]

\* The mean of the scores reaches the threshold.
Judged(j, scores) ==
  IF Len(scores) < Reps(j) THEN "asking"
  ELSE IF Total(scores) >= j.threshold * Reps(j) THEN "passed" ELSE "failed"

\* One score comes in.
Score(i, score) ==
  LET scores == Append(judges[i].scores, score)
  IN judges' = [judges EXCEPT ![i] = [status |-> Judged(block.passesJudge[i], scores),
                                      scores |-> scores]]

\* The size limit of the candidate, which only the agent SDK's judge looks at: the score
\* is 0 without a request.
OverLimit(j) == ~j.named /\ j.provider = "anthropic-agent-sdk" /\ j.oversized

\* parseJudgeResponse: text around the JSON is cut away by the agent SDK's judge and an
\* error for the others; a named judge returns its score without a model's text.
Parses(j, chatty) == chatty => j.named \/ j.provider = "anthropic-agent-sdk"

\* A model gives a verdict that has the form of JudgeResponseSchema.
JudgeAnswers(i, score, chatty) ==
  /\ pc = "judging"
  /\ judges[i].status = "asking"
  /\ IF OverLimit(block.passesJudge[i]) THEN Score(i, 0)
     ELSE IF Parses(block.passesJudge[i], chatty) THEN Score(i, score)
     ELSE judges' = [judges EXCEPT ![i] = [status |-> "failed", scores |-> <<>>]]
  /\ UNCHANGED <<answer, block, pc, results>>

\* A request fails, or its answer is no verdict: the judge fails at once and its other
\* repetitions are not asked for; validateJudge catches the error.
JudgeFails(i) ==
  /\ pc = "judging"
  /\ judges[i].status = "asking"
  /\ ~OverLimit(block.passesJudge[i])
  /\ judges' = [judges EXCEPT ![i] = [status |-> "failed", scores |-> <<>>]]
  /\ UNCHANGED <<answer, block, pc, results>>

\* Mutant: the first judge that passes decides (Promise.any).
JoinAny ==
  /\ pc = "judging"
  /\ \/ \E i \in DOMAIN judges : judges[i].status = "passed"
     \/ \A i \in DOMAIN judges : judges[i].status # "asking"
  /\ results' = [f \in DOMAIN results \cup {"judge"} |->
                   IF f = "judge" THEN \E i \in DOMAIN judges : judges[i].status = "passed"
                   ELSE results[f]]
  /\ pc' = "snapshot"
  /\ UNCHANGED <<answer, block, judges>>

\* Promise.all: all judges have to pass.
Join ==
  /\ pc = "judging"
  /\ \A i \in DOMAIN judges : judges[i].status # "asking"
  /\ results' = [f \in DOMAIN results \cup {"judge"} |->
                   IF f = "judge" THEN \A i \in DOMAIN judges : judges[i].status = "passed"
                   ELSE results[f]]
  /\ pc' = "snapshot"
  /\ UNCHANGED <<answer, block, judges>>

\* The snapshot needs Playwright's expect; a difference or a bad sanitizer fails it.
Snapshot(matches) ==
  /\ pc = "snapshot"
  /\ ~Given("snapshot") => ~matches
  /\ results' = IF ~Given("snapshot") THEN results
                ELSE [f \in DOMAIN results \cup {"snapshot"} |->
                        IF f = "snapshot" THEN block.snapshot[1].hasExpect /\ matches
                        ELSE results[f]]
  /\ pc' = "done"
  /\ UNCHANGED <<answer, block, judges>>

Next ==
  \/ Throw \/ Check \/ Join
  \/ \E i \in DOMAIN judges : JudgeFails(i) \/ \E s \in 0..MaxScore, c \in BOOLEAN : JudgeAnswers(i, s, c)
  \/ \E m \in BOOLEAN : Snapshot(m)

Spec == Init /\ [][Next]_vars

\* didCasePass: every expectation that was evaluated passes.
Passed == pc = "done" /\ \A f \in DOMAIN results : results[f]

-------------------------------------------------------------------------------
(* Properties. *)

\* The calls of an expectation can be laid over the trace in their order: a rising choice
\* of positions for the calls picked, each position used once.
Embeds(actual, calls, picked) ==
  \E pos \in [picked -> DOMAIN actual] :
    /\ \A i \in picked : Matches(actual[pos[i]], calls[i])
    /\ \A i, j \in picked : i < j => pos[i] < pos[j]

\* toolsTriggered in strict order passes only a trace that has the required calls one after
\* the other, and passes every such trace when no call of the list is optional: the greedy
\* search of validateToolCalls misses no sequence.  (With optional calls it may.)
StrictOrderExact ==
  "toolsTriggered" \in DOMAIN results /\ TraceVerified(answer) =>
    LET expected == block.toolsTriggered[1]
        required == RequiredCalls(expected.calls)
        found == Embeds(Trace(answer), expected.calls, required)
    IN expected.order = "strict" =>
         /\ results["toolsTriggered"] => found
         /\ found /\ required = DOMAIN expected.calls /\ ~expected.exclusive
              => results["toolsTriggered"]

\* A case passes its judges only when each of them gave every repetition it was asked for
\* and the mean of them reaches its threshold: no answer that failed to come or to parse is
\* averaged away, and no judge is outvoted (runExpectBlockValidations, validateJudge).
JudgesUnanimous ==
  Passed /\ block.passesJudge # <<>> =>
    \A i \in DOMAIN block.passesJudge :
      LET j == block.passesJudge[i]
      IN /\ Len(judges[i].scores) = Reps(j)
         /\ Total(judges[i].scores) >= j.threshold * Len(judges[i].scores)

===============================================================================
