------------------------------- MODULE Installer -------------------------------
(***************************************************************************)
(* The Windows installer (whspr-setup: main.rs, install.rs, state.rs): the *)
(* plan of jobs for the chosen options, each run off the UI thread, any    *)
(* error leading to the failure screen and from there back to the first.   *)
(* A job that fails, or that closing the installer cuts off, may have done *)
(* part of its work.  What is modelled is the build that embeds a payload. *)
(***************************************************************************)
EXTENDS Naturals, Sequences

VARIABLES
  screen,       (* State::screen                                             *)
  options,      (* the toggles that are on                                   *)
  jobs,         (* the rest of the plan; its head is running                 *)
  bar,     (* .progress                                                  *)
  installDir,   (* %LOCALAPPDATA%\whspr exists                               *)
  installed,    (* of each payload file, what the directory has              *)
  entries,      (* the shortcuts and the Run value there are                 *)
  promised      (* history: the options of this install, less a Run value    *)
                (* the app or an uninstall took away since                   *)

installerVars == <<screen, options, jobs, bar, installDir, installed, entries, promised>>

Options == {"autostart", "start menu", "desktop"}
PayloadFiles == {"exe", "dll"}  (* written in either order *)

\* The job of an option, if it is chosen.
IfChosen(option, chosen) == IF option \in chosen THEN <<option>> ELSE <<>>

\* mutant: the shortcuts first
PlanShortcutsFirst(chosen) ==
  <<"dir">> \o IfChosen("start menu", chosen) \o IfChosen("desktop", chosen)
  \o <<"payload">> \o IfChosen("autostart", chosen) \o <<"finish">>

\* install::plan.
Plan(chosen) ==
  <<"dir", "payload">> \o IfChosen("start menu", chosen) \o IfChosen("desktop", chosen)
  \o IfChosen("autostart", chosen) \o <<"finish">>

StartProgress ==
  [job \in Options \cup {"dir", "payload", "finish"} |->
     CASE job = "dir" -> 5 [] job = "payload" -> 18 [] job = "start menu" -> 30
       [] job = "desktop" -> 42 [] job = "autostart" -> 60 [] job = "finish" -> 100]

\* Screen::install_default.
DefaultOptions == {"autostart", "start menu"}

InstallerInit ==
  /\ screen = "install" /\ options = DefaultOptions /\ jobs = <<>> /\ bar = 0
  /\ installDir = FALSE /\ installed = [file \in PayloadFiles |-> "absent"]
  /\ entries = {} /\ promised = {}

ToggleOption(option) ==
  /\ screen = "install"
  /\ options' = IF option \in options THEN options \ {option} ELSE options \cup {option}
  /\ UNCHANGED <<screen, jobs, bar, installDir, installed, entries, promised>>

\* begin_install.
StartInstall ==
  /\ screen = "install" /\ screen' = "installing"
  /\ jobs' = Plan(options) /\ bar' = StartProgress[Head(jobs')]
  /\ promised' = options
  /\ UNCHANGED <<options, installDir, installed, entries>>

\* install::perform, in full ...
Performed(job) ==
  /\ installDir' = (installDir \/ job = "dir")
  /\ installed' = [file \in PayloadFiles |-> IF job = "payload" THEN "whole" ELSE installed[file]]
  /\ entries' = entries \cup ({job} \cap Options)

\* ... and in part: of the payload, some files whole and one cut off (or none, the
\* file in use).  The other jobs do their one thing, or not.
PerformedPartly(job) ==
  \/ job # "payload" /\ Performed(job)
  \/ /\ UNCHANGED <<installDir, entries>>
     /\ \E whole \in SUBSET PayloadFiles, cut \in SUBSET PayloadFiles :
          /\ job # "payload" => whole \cup cut = {}
          /\ whole # PayloadFiles /\ \A a, b \in cut : a = b
          /\ installed' = [file \in PayloadFiles |->
               IF file \in whole THEN "whole" ELSE IF file \in cut THEN "cut" ELSE installed[file]]

\* InstallStepped(Ok) and the dispatch of the next job.
InstallStepped ==
  /\ screen = "installing" /\ jobs # <<>>
  /\ Performed(Head(jobs))
  /\ jobs' = Tail(jobs)
  /\ bar' = IF jobs' = <<>> THEN 100 ELSE StartProgress[Head(jobs')]
  /\ UNCHANGED <<screen, options, promised>>

\* mutant: on to the next job
InstallGoesOn ==
  /\ screen = "installing" /\ jobs # <<>>
  /\ PerformedPartly(Head(jobs))
  /\ jobs' = Tail(jobs)
  /\ UNCHANGED <<screen, options, bar, promised>>

\* InstallStepped(Err): the rest of the plan is dropped.
InstallFails ==
  /\ screen = "installing" /\ jobs # <<>>
  /\ PerformedPartly(Head(jobs))
  /\ screen' = "failure" /\ jobs' = <<>>
  /\ UNCHANGED <<options, bar, promised>>

InstallSucceeded ==
  /\ screen = "installing" /\ jobs = <<>> /\ screen' = "done"
  /\ UNCHANGED <<options, jobs, bar, installDir, installed, entries, promised>>

\* Back to the first screen, the toggles as they are by default.  Starting the
\* installer anew is the same.
Retry ==
  /\ screen \in {"failure", "closed"}
  /\ screen' = "install" /\ options' = DefaultOptions
  /\ UNCHANGED <<jobs, bar, installDir, installed, entries, promised>>

\* Close, and OpenApp of the last screen: the process ends, in the middle of a job
\* for all it knows.
CloseInstaller ==
  /\ screen # "closed" /\ screen' = "closed" /\ jobs' = <<>>
  /\ IF jobs # <<>> THEN PerformedPartly(Head(jobs)) ELSE UNCHANGED <<installDir, installed, entries>>
  /\ UNCHANGED <<options, bar, promised>>

\* The app's launch-at-login toggle (Uninstall), once the app can run, and an uninstall.
AutostartChangedElsewhere ==
  /\ \/ installed["exe"] = "whole" /\ entries' = entries \cup {"autostart"} /\ UNCHANGED promised
     \/ entries' = entries \ {"autostart"} /\ promised' = promised \ {"autostart"}
  /\ UNCHANGED <<screen, options, jobs, bar, installDir, installed>>

InstallerNext ==
  \/ \E option \in Options : ToggleOption(option)
  \/ StartInstall \/ InstallStepped \/ InstallFails \/ InstallSucceeded \/ Retry
  \/ CloseInstaller \/ AutostartChangedElsewhere

InstallerSpec == InstallerInit /\ [][InstallerNext]_installerVars

-----------------------------------------------------------------------------
InstallerTypeOK ==
  /\ screen \in {"install", "installing", "done", "failure", "closed"}
  /\ options \subseteq Options /\ entries \subseteq Options /\ promised \subseteq Options
  /\ jobs \in Seq(DOMAIN StartProgress) /\ bar \in 0..100
  /\ installDir \in BOOLEAN /\ installed \in [PayloadFiles -> {"absent", "cut", "whole"}]

\* The last screen is shown only of an install that is whole: every file of the
\* payload, and every entry that was chosen; and whatever failed or was cut off, now
\* or in an earlier install, no shortcut or Run value points to an exe that is not there.
InstalledWhole ==
  /\ screen = "done" =>
       /\ installDir /\ \A file \in PayloadFiles : installed[file] = "whole"
       /\ promised \subseteq entries
  /\ entries # {} => installed["exe"] # "absent"
=============================================================================
