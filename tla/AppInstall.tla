----------------------------- MODULE AppInstall -----------------------------
(***************************************************************************)
(* Installing, updating and removing the desktop application: one run of   *)
(* install-app.sh or uninstall-app.sh at a time, each of which may be cut   *)
(* off anywhere, also in the middle of a command, or end at a failing step, *)
(* on a Mac whose Pythons change.                                           *)
(***************************************************************************)
EXTENDS Naturals

CONSTANTS
    Python,     \* minor versions of the Pythons a Mac may have
    Abi,        \* the one the wheels in the repository are built for
    MaxFaults   \* bound: kills, steps that fail for a time, changes of the Pythons,
                \* versions published, removals

VARIABLES
    pythons,    \* on the PATH or at /usr/bin/python3
    published,  \* the version in the repository
    pc,         \* where the run is
    repo,       \* what git finds in the application's directory
    checkout,   \* the version of the application in it, 0 for none or for parts
    py312,      \* the private Python 3.12
    venv,       \* the application's environment
    bundle,     \* the application on the desktop is whole
    plist,      \* the LaunchAgent of the sweep is there
    faults      \* bounded

vars == <<pythons, published, pc, repo, checkout, py312, venv, bundle, plist, faults>>
world == <<pythons, published, faults>>
app == <<repo, checkout, venv, bundle, plist>>

\* Nothing; files without a repository, into which git does not clone; a
\* repository that is not whole or has a lock left in it, in which git does not
\* fetch or not reset; one that works.
Repo == {"none", "litter", "stuck", "usable"}

\* How far the unpacking of the private Python got: a torn one does not start,
\* a lame one does but lacks modules.
Unpacked == <<"none", "torn", "lame", "whole">>
Starts == py312 \in {"lame", "whole"}

\* How far the environment was made, and for which Python: its directory, its
\* bin/python, pip, the dependencies of a version of the application.  Its
\* bin/python is a link to the Python it was made for.  In a torn one packages
\* have lost files of theirs, of which pip takes no notice.
NoVenv == [st |-> "none", for |-> 0, deps |-> 0]
OnDisk == pythons \cup (IF Starts THEN {12} ELSE {})
HasPython == venv.st \notin {"none", "dir"} /\ venv.for \in OnDisk
HasPip == HasPython /\ venv.st # "python"

\* What is left of it when its removal is cut off, or fails for a file.
Parts == [none |-> {}, dir |-> {"dir"}, python |-> {"dir", "python"}, pip |-> {"dir", "python", "pip"},
          torn |-> {"dir", "python", "torn"}, full |-> {"dir", "python", "pip", "torn", "full"}]
LeftOfVenv == {NoVenv} \cup {[venv EXCEPT !.st = st] : st \in Parts[venv.st]}

Init ==
    /\ pythons \in SUBSET Python /\ published = 1
    /\ pc = "off"
    /\ repo = "none" /\ checkout = 0 /\ py312 = "none" /\ venv = NoVenv /\ bundle = FALSE /\ plist = FALSE
    /\ faults = 0

Limited == faults < MaxFaults /\ faults' = faults + 1
Goto(to) == pc' = to
\* set -e, or die.
Die == pc' = "off"
-----------------------------------------------------------------------------
(* install-app.sh.                                                         *)

StartInstall == pc = "off" /\ Goto("clone") /\ UNCHANGED <<world, py312, app>>

\* The repository is cloned, or fetched and the checkout reset to it.
Clone ==
    /\ pc = "clone" /\ repo \in {"none", "usable"} /\ Goto("py312")
    /\ checkout' = published /\ repo' = "usable"
    /\ UNCHANGED <<world, py312, venv, bundle, plist>>

\* A clone that is cut off leaves a repository or part of one; a fetch or a
\* reset may leave its lock, and the files of either version.
CloneCutOff ==
    /\ pc = "clone" /\ Limited /\ Die
    /\ \/ repo = "none" /\ repo' \in {"stuck", "usable"} /\ UNCHANGED checkout
       \/ repo = "usable" /\ repo' \in {"stuck", "usable"} /\ checkout' \in {checkout, published}
    /\ UNCHANGED <<pythons, published, py312, venv, bundle, plist>>

\* A Python 3.12 on the PATH, or a private one that starts, is kept.
ProvisionPython ==
    /\ pc = "py312"
    /\ IF 12 \in pythons \/ Starts THEN Goto("venv") /\ UNCHANGED py312
       ELSE py312' = "none" /\ Goto("unpack")
    /\ UNCHANGED <<world, app>>

\* Otherwise the pinned one is downloaded, its sum checked, and unpacked.
Unpack ==
    /\ pc = "unpack"
    /\ \E i \in 1..3 : Unpacked[i] = py312 /\ py312' = Unpacked[i + 1]
    /\ Goto(IF py312' = "whole" THEN "venv" ELSE "unpack")
    /\ UNCHANGED <<world, app>>

\* Of the Pythons from 3.9 on the one the wheels are for, else the newest; the
\* private one is on the PATH of the run by now.
Usable == {v \in OnDisk : v >= 9}
Best == IF Abi \in Usable THEN Abi ELSE CHOOSE v \in Usable : \A u \in Usable : u <= v
Online == Best # Abi

\* Mutant: an environment is kept whichever Python it was made for.
KeepVenv ==
    /\ pc = "venv" /\ Usable # {}
    /\ Goto(IF venv.st = "none" THEN "make venv" ELSE "deps") /\ UNCHANGED venv
    /\ UNCHANGED <<world, py312, repo, checkout, bundle, plist>>

\* An environment made for another Python is removed.
CheckVenv ==
    /\ pc = "venv" /\ Usable # {}
    /\ venv' = IF HasPython /\ venv.for # Best THEN NoVenv ELSE venv
    /\ Goto(IF venv'.st = "none" THEN "make venv" ELSE "deps")
    /\ UNCHANGED <<world, py312, repo, checkout, bundle, plist>>

\* That removal, cut off or failing for a file.
CheckVenvCutOff ==
    /\ pc = "venv" /\ Usable # {} /\ HasPython /\ venv.for # Best /\ Limited /\ Die
    /\ venv' \in LeftOfVenv
    /\ UNCHANGED <<pythons, published, py312, repo, checkout, bundle, plist>>

\* A lame Python cannot make one.
Lame == Best = 12 /\ 12 \notin pythons /\ py312 = "lame"

MakeVenv ==
    /\ pc = "make venv" /\ Usable # {} /\ ~Lame
    /\ venv' = [venv EXCEPT !.st = CASE @ = "none" -> "dir" [] @ = "dir" -> "python" [] OTHER -> "pip",
                            !.for = Best]
    /\ Goto(IF venv'.st = "pip" THEN "deps" ELSE "make venv")
    /\ UNCHANGED <<world, py312, repo, checkout, bundle, plist>>

\* From the wheels, which fit one Python only, or from the network.  Torn
\* packages count as installed, unless what says so is gone too.
InstallDeps ==
    /\ pc = "deps" /\ HasPip /\ Usable # {} /\ (Online \/ venv.for = Abi)
    /\ \E st \in {"full"} \cup ({venv.st} \cap {"torn"}) :
          venv' = [venv EXCEPT !.st = st, !.deps = checkout]
    /\ Goto("bundle")
    /\ UNCHANGED <<world, py312, repo, checkout, bundle, plist>>

\* No network, no room on the disk...
StepFails ==
    /\ \/ pc \in {"clone", "venv", "make venv", "deps"}
       \/ pc = "unpack" /\ py312 = "none"
    /\ Limited /\ Die
    /\ UNCHANGED <<pythons, published, py312, app>>

\* ... git does not work in the directory; a lame Python; pip or the right
\* wheels are not there.
CannotWork ==
    /\ \/ pc = "clone" /\ repo \in {"litter", "stuck"}
       \/ pc = "make venv" /\ Lame
       \/ pc = "deps" /\ ~(HasPip /\ (Online \/ venv.for = Abi))
    /\ Die
    /\ UNCHANGED <<world, py312, app>>

\* make_app_bundle.sh removes the old one and makes the new one.
RemoveOldBundle ==
    /\ pc = "bundle" /\ bundle' = FALSE /\ Goto("make bundle")
    /\ UNCHANGED <<world, py312, repo, checkout, venv, plist>>

MakeAppBundle ==
    /\ pc = "make bundle" /\ bundle' = TRUE /\ Goto("plist")
    /\ UNCHANGED <<world, py312, repo, checkout, venv, plist>>

WriteSweepPlist ==
    /\ pc = "plist" /\ plist' = TRUE /\ Goto("off")
    /\ UNCHANGED <<world, py312, repo, checkout, venv, bundle>>
-----------------------------------------------------------------------------
(* uninstall-app.sh and the uninstaller of the hooks it runs.              *)

\* It wants a Python from 3.10 on the PATH.
CanUninstall == \E v \in pythons : v >= 10

\* Mutant: the LaunchAgents are left to the system.
ForgetPlists ==
    /\ pc = "off" /\ CanUninstall /\ Limited /\ Goto("remove")
    /\ UNCHANGED <<pythons, published, py312, app>>

\* First the LaunchAgents, ...
RemovePlists ==
    /\ pc = "off" /\ CanUninstall /\ Limited /\ Goto("remove") /\ plist' = FALSE
    /\ UNCHANGED <<pythons, published, py312, repo, checkout, venv, bundle>>

\* ... the application's directory, ...
RemoveApp ==
    /\ pc = "remove" /\ Goto("remove bundle")
    /\ repo' = "none" /\ checkout' = 0 /\ venv' = NoVenv
    /\ UNCHANGED <<world, py312, bundle, plist>>

RemoveBundle ==
    /\ pc = "remove bundle" /\ Goto("purge") /\ bundle' = FALSE
    /\ UNCHANGED <<world, py312, repo, checkout, venv, plist>>

\* ... the data with --purge-data, ...
Purge == pc = "purge" /\ Goto("remove rest") /\ py312' = "none" /\ UNCHANGED <<world, app>>
KeepData == pc = "purge" /\ Goto("remove rest") /\ UNCHANGED <<world, py312, app>>

\* ... and what is left of the directory, now by rm.
RemoveRest ==
    /\ pc = "remove rest" /\ Goto("off")
    /\ repo' = "none" /\ checkout' = 0 /\ venv' = NoVenv
    /\ UNCHANGED <<world, py312, bundle, plist>>

\* A removal that fails for a file goes on, with all errors ignored; one that is
\* cut off ends.  Either leaves files, of the repository too or not.
RemoveInPart ==
    /\ Limited
    /\ \/ pc = "remove" /\ pc' \in {"remove bundle", "off"}
       \/ pc = "remove rest" /\ Die
    /\ repo # "none" /\ checkout' = 0 /\ venv' \in LeftOfVenv
    /\ repo' \in {repo, "litter"} \cup (IF repo = "usable" THEN {"stuck"} ELSE {})
    /\ UNCHANGED <<pythons, published, py312, bundle, plist>>

PurgeInPart ==
    /\ pc = "purge" /\ pc' \in {"remove rest", "off"} /\ Limited
    /\ py312 # "none" /\ py312' \in {"torn", "lame"} /\ (Starts \/ py312' = py312)
    /\ UNCHANGED <<pythons, published, app>>
-----------------------------------------------------------------------------
Kill ==
    /\ pc # "off" /\ Limited /\ Goto("off")
    /\ UNCHANGED <<pythons, published, py312, app>>

\* Homebrew comes, goes or moves on.
ChangePythons ==
    /\ pc = "off" /\ Limited /\ pythons' \in SUBSET Python
    /\ UNCHANGED <<published, pc, py312, app>>

Publish ==
    /\ Limited /\ published' = published + 1
    /\ UNCHANGED <<pythons, pc, py312, app>>

\* Running what is installed: an environment for the Python that the installer
\* would take, with what the version needs.
Installed ==
    /\ checkout = published /\ bundle /\ plist
    /\ venv.st = "full" /\ Usable # {} /\ venv.for = Best /\ venv.deps = checkout

Advance ==
    \/ Clone \/ ProvisionPython \/ Unpack \/ CheckVenv \/ MakeVenv \/ InstallDeps
    \/ CannotWork \/ RemoveOldBundle \/ MakeAppBundle \/ WriteSweepPlist
    \/ RemoveApp \/ RemoveBundle \/ Purge \/ KeepData \/ RemoveRest

Next ==
    \/ StartInstall \/ Advance \/ StepFails \/ CloneCutOff \/ CheckVenvCutOff
    \/ RemovePlists \/ RemoveInPart \/ PurgeInPart
    \/ Kill \/ ChangePythons \/ Publish

Spec == Init /\ [][Next]_vars

\* Fairness: the user runs the installer until the application is installed,
\* and a run goes on.
Fairness == WF_vars(StartInstall /\ ~Installed) /\ WF_vars(Advance)
FairSpec == Spec /\ Fairness
-----------------------------------------------------------------------------
(* Properties.                                                             *)

TypeOK ==
    /\ pythons \subseteq Python /\ published \in 1..(MaxFaults + 1)
    /\ pc \in {"off", "clone", "py312", "unpack", "venv", "make venv", "deps", "bundle", "make bundle",
               "plist", "remove", "remove bundle", "purge", "remove rest"}
    /\ repo \in Repo /\ checkout \in 0..published /\ py312 \in {"none", "torn", "lame", "whole"}
    /\ venv \in [st : {"none", "dir", "python", "pip", "torn", "full"}, for : Python \cup {0, 12},
                 deps : 0..published]
    /\ bundle \in BOOLEAN /\ plist \in BOOLEAN /\ faults \in 0..MaxFaults

\* JobHasApp: a LaunchAgent that launchd loads at the next login finds the
\* application it runs, wherever installing or removing it was cut off.
JobHasApp == plist => checkout # 0

\* Installs: whatever was cut off, changed on the Mac or failed for a time,
\* running the installer again installs the application, except for what no run
\* of it repairs: a directory that is not empty and in which git does not work;
\* an environment that was cut off before it had pip, whose Python is gone or
\* whose packages lost files; and a private Python that starts but lacks modules.
Unclonable == repo \in {"litter", "stuck"}
BrokenVenv == venv.st # "none" /\ ~HasPip
Installs ==
    []<>Installed \/ <>[]Unclonable \/ <>[]BrokenVenv \/ <>[](venv.st = "torn") \/ <>[](py312 = "lame")
=============================================================================
