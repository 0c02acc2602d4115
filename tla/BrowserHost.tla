------------------------------ MODULE BrowserHost ------------------------------
(***************************************************************************)
(* runBrowserHost (src/src/evals/mcpHost/adapters/browser/runner.ts): a    *)
(* script of the user drives a page of a browser, in a race with a timer.  *)
(* Nobody stops the script when it loses; it goes on until the browser it  *)
(* works on is gone.                                                       *)
(***************************************************************************)
EXTENDS Naturals

VARIABLES
  step,     \* where the host is
  browser,  \* "none", "open" or "closed"
  script,   \* "none", "running" or "over"
  ended     \* what the host gives: "none", "answer", "failure" or "error"

vars == <<step, browser, script, ended>>

Init == step = "import" /\ browser = "none" /\ script = "none" /\ ended = "none"

\* No playwright, no script, or no function in it: a failure without a browser.
Import ==
  /\ step = "import"
  /\ \/ step' = "launch" /\ UNCHANGED ended
     \/ step' = "returned" /\ ended' = "failure"
  /\ UNCHANGED <<browser, script>>

\* The launch is outside of the try: it throws out of the host.
Launch ==
  /\ step = "launch"
  /\ \/ step' = "page" /\ browser' = "open" /\ UNCHANGED ended
     \/ step' = "returned" /\ ended' = "error" /\ UNCHANGED browser
  /\ UNCHANGED script

\* The context, its cookies and the page: an error goes through the finally.
OpenPage ==
  /\ step = "page"
  /\ \/ step' = "race" /\ script' = "running" /\ UNCHANGED ended
     \/ step' = "close" /\ ended' = "error" /\ UNCHANGED script
  /\ UNCHANGED browser

\* The script settles first: validateSimulationResult looks at what it returns.
ScriptEnds ==
  /\ script = "running"
  /\ script' = "over"
  /\ IF step = "race" THEN step' = "close" /\ ended' \in {"answer", "failure"}
     ELSE UNCHANGED <<step, ended>>
  /\ UNCHANGED browser

Expire ==
  /\ step = "race"
  /\ step' = "close" /\ ended' = "failure"
  /\ UNCHANGED <<browser, script>>

\* The finally; when the browser does not close, its error replaces what was to be returned.
Close ==
  /\ step = "close"
  /\ step' = "returned"
  /\ \/ browser' = "closed" /\ UNCHANGED ended
     \/ ended' = "error" /\ UNCHANGED browser
  /\ UNCHANGED script

Next == Import \/ Launch \/ OpenPage \/ ScriptEnds \/ Expire \/ Close

Fairness == WF_vars(Expire) /\ WF_vars(Close)

-------------------------------------------------------------------------------
(* Properties. *)

\* A browser that is still open is the host's error, never hidden behind an answer or a failure
\* it reports; and an answer is that of a script which is over.
BrowserCleanEnd ==
  step = "returned" =>
    /\ ended \in {"answer", "failure"} => browser # "open"
    /\ ended = "answer" => script = "over"

\* A script that hangs does not keep the host.
BrowserEndsInTime == step = "race" ~> step = "returned"
===============================================================================
