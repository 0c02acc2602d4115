------------------------------ MODULE InitWizard ------------------------------
(***************************************************************************)
(* `init` (src/src/cli/commands/init/InitApp.tsx): a wizard that writes    *)
(* the files of a project and may run npm install.  The handlers of a      *)
(* prompt are closures of the render that drew it, so a job is started     *)
(* with the state of that render; the prompt stays on the screen, and      *)
(* takes keys, until the job sets the next step.                           *)
(***************************************************************************)
EXTENDS Naturals, Sequences

CONSTANTS
  Files,       \* how many files a project has (6)
  MaxPresses   \* bound on the keys pressed at one prompt

VARIABLES
  screen,       \* step; "gone": the application is unmounted
  transport,    \* transportType
  installDeps,  \* the state of that name
  wanted,       \* what the user said last (not in the code)
  directory,    \* the project path: "absent", "user" (it was there before), "ours",
                \* "overwritten"
  jobs          \* the runs of checkAndCreate and createProject: [at, install, written]

vars == <<screen, transport, installDeps, wanted, directory, jobs>>

Init ==
  /\ screen = "projectName"
  /\ transport = "stdio"
  /\ installDeps = TRUE
  /\ wanted = TRUE
  /\ directory \in {"absent", "user"}
  /\ jobs = <<>>

Gone == screen = "gone"
Show(next) == screen' = IF Gone THEN "gone" ELSE next

Start(at) == jobs' = Append(jobs, [at |-> at, install |-> installDeps, written |-> 0])
Move(i, at) == jobs' = [jobs EXCEPT ![i].at = at]

-------------------------------------------------------------------------------
(* The prompts. *)

ProjectName ==
  /\ screen = "projectName"
  /\ screen' = "transportType"
  /\ UNCHANGED <<transport, installDeps, wanted, directory, jobs>>

TransportType ==
  /\ screen = "transportType"
  /\ \/ transport' = "stdio" /\ screen' = "serverCommand"
     \/ transport' = "http" /\ screen' = "serverUrl"
  /\ UNCHANGED <<installDeps, wanted, directory, jobs>>

ServerEntered ==
  /\ screen \in {"serverCommand", "serverUrl"}
  /\ screen' = "installDeps"
  /\ UNCHANGED <<transport, installDeps, wanted, directory, jobs>>

\* setInstallDeps takes effect with the next render, checkAndCreate runs in this one.
InstallDeps ==
  /\ screen = "installDeps" /\ Len(jobs) < MaxPresses
  /\ \E yes \in BOOLEAN : installDeps' = yes /\ wanted' = yes
  /\ Start("stat")
  /\ UNCHANGED <<screen, transport, directory>>

ConfirmOverwrite ==
  /\ screen = "confirmOverwrite"
  /\ \/ Start("mkdir") /\ screen' = "creating"
     \/ screen' = "gone" /\ UNCHANGED jobs
  /\ UNCHANGED <<transport, installDeps, wanted, directory>>

Exit ==
  /\ ~Gone
  /\ screen' = "gone"
  /\ UNCHANGED <<transport, installDeps, wanted, directory, jobs>>

-------------------------------------------------------------------------------
(* The jobs: they go on after Exit. *)

\* checkAndCreate
Stat(i) ==
  /\ jobs[i].at = "stat"
  /\ IF directory = "absent" THEN Move(i, "mkdir") /\ Show("creating")
                             ELSE Move(i, "end") /\ Show("confirmOverwrite")
  /\ UNCHANGED <<transport, installDeps, wanted, directory>>

MakeDirectories(i) ==
  /\ jobs[i].at = "mkdir"
  /\ Move(i, "files")
  /\ directory' = CASE directory = "absent" -> "ours" [] directory = "user" -> "overwritten"
                    [] OTHER -> directory
  /\ UNCHANGED <<screen, transport, installDeps, wanted>>

WriteFile(i) ==
  /\ jobs[i].at = "files" /\ jobs[i].written < Files
  /\ jobs' = [jobs EXCEPT ![i].written = @ + 1]
  /\ UNCHANGED <<screen, transport, installDeps, wanted, directory>>

Written(i) ==
  /\ jobs[i].at = "files" /\ jobs[i].written = Files
  /\ IF jobs[i].install THEN Move(i, "npm") /\ Show("installing")
                        ELSE Move(i, "end") /\ Show("done")
  /\ UNCHANGED <<transport, installDeps, wanted, directory>>

NpmEnds(i) ==
  /\ jobs[i].at = "npm"
  /\ Move(i, "end") /\ Show("done")
  /\ UNCHANGED <<transport, installDeps, wanted, directory>>

Fails(i) ==
  /\ jobs[i].at \in {"mkdir", "files", "npm"}
  /\ Move(i, "end") /\ Show("error")
  /\ UNCHANGED <<transport, installDeps, wanted, directory>>

Next ==
  \/ ProjectName \/ TransportType \/ ServerEntered \/ InstallDeps \/ ConfirmOverwrite \/ Exit
  \/ \E i \in DOMAIN jobs :
       Stat(i) \/ MakeDirectories(i) \/ WriteFile(i) \/ Written(i) \/ NpmEnds(i) \/ Fails(i)

Spec == Init /\ [][Next]_vars

-------------------------------------------------------------------------------
(* Properties. *)

\* npm install runs only if the user asked for it: the prompt is "Install dependencies now?".
InstallsAsAsked == \A i \in DOMAIN jobs : jobs[i].at = "npm" => wanted
===============================================================================
