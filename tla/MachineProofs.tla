--------------------------- MODULE MachineProofs ---------------------------
(***************************************************************************)
(* Proofs about what a Mac keeps besides the models, for any Pythons,      *)
(* launchers, versions, processes and rows and any number of faults: the   *)
(* desktop application, its launcher, the mini's server, the file of the   *)
(* shadow store.  Each is proved of its own specification.                 *)
(***************************************************************************)
EXTENDS MCMachine, FiniteSetTheorems, TLAPS

-----------------------------------------------------------------------------
(***************************************************************************)
(* The desktop application (AppInstall)                                    *)
(***************************************************************************)

Installing == {"py312", "unpack", "venv", "make venv", "deps", "bundle", "make bundle", "plist"}
Removing == {"remove", "remove bundle", "purge", "remove rest"}

\* The inductive invariant: a run that installs has the checkout once it got
\* past the repository, and one that removes has removed the LaunchAgent first.
Checkouts == published \in Nat \ {0} /\ checkout \in Nat
Busy ==
    /\ pc \in Installing => checkout # 0
    /\ pc \in Removing => ~plist
AppInv == Checkouts /\ Busy /\ JobHasApp

\* Init establishes the invariant.
LEMMA InitAppInv == Init => AppInv
BY DEF Init, AppInv, Checkouts, Busy, JobHasApp, Installing, Removing

\* Every step of the two scripts and of the Mac keeps it.
LEMMA NextAppInv == AppInv /\ [Next]_vars => AppInv'
<1> SUFFICES ASSUME AppInv, [Next]_vars PROVE AppInv'
  OBVIOUS
<1> USE DEF AppInv, Checkouts, Busy, JobHasApp, Installing, Removing
<1>1. CASE StartInstall \/ Clone \/ CloneCutOff
  <2>1. CASE StartInstall
    BY <2>1 DEF StartInstall, Goto, world, app
  <2>2. CASE Clone
    BY <2>2 DEF Clone, Goto, world
  <2>3. CASE CloneCutOff
    <3>1. /\ checkout' \in {checkout, published} /\ pc' = "off"
          /\ UNCHANGED <<published, plist>>
      BY <2>3 DEF CloneCutOff, Die
    <3> QED
      BY <3>1
  <2> QED
    BY <1>1, <2>1, <2>2, <2>3
<1>2. CASE ProvisionPython \/ Unpack
  BY <1>2 DEF ProvisionPython, Unpack, Goto, world, app
<1>3. CASE CheckVenv \/ MakeVenv \/ InstallDeps
  <2>1. UNCHANGED <<published, checkout, plist>> /\ pc \in Installing /\ pc' \in Installing
    BY <1>3 DEF CheckVenv, MakeVenv, InstallDeps, Goto, world
  <2> QED
    BY <2>1
<1>4. CASE CannotWork \/ StepFails \/ CheckVenvCutOff
  <2>1. UNCHANGED <<published, checkout, plist>> /\ pc' = "off"
    BY <1>4 DEF CannotWork, StepFails, CheckVenvCutOff, Die, world, app
  <2> QED
    BY <2>1
<1>5. CASE RemoveOldBundle \/ MakeAppBundle
  BY <1>5 DEF RemoveOldBundle, MakeAppBundle, Goto, world
<1>6. CASE WriteSweepPlist
  BY <1>6 DEF WriteSweepPlist, Goto, world
<1>7. CASE RemovePlists
  BY <1>7 DEF RemovePlists, Goto
<1>8. CASE RemoveApp \/ RemoveRest \/ RemoveInPart
  <2>1. /\ pc \in Removing /\ pc' \notin Installing /\ checkout' = 0
        /\ UNCHANGED <<published, plist>>
    BY <1>8 DEF RemoveApp, RemoveRest, RemoveInPart, Goto, Die, world
  <2> QED
    BY <2>1
<1>9. CASE RemoveBundle \/ Purge \/ KeepData \/ PurgeInPart
  <2>1. UNCHANGED <<published, checkout, plist>> /\ pc \in Removing /\ pc' \notin Installing
    BY <1>9 DEF RemoveBundle, Purge, KeepData, PurgeInPart, Goto, Limited, world, app
  <2> QED
    BY <2>1
<1>10. CASE Kill \/ ChangePythons
  <2>1. UNCHANGED <<published, checkout, plist>> /\ pc' = "off"
    BY <1>10 DEF Kill, ChangePythons, Goto, app
  <2> QED
    BY <2>1
<1>11. CASE Publish
  <2>1. UNCHANGED <<pc, checkout, plist>> /\ published' = published + 1
    BY <1>11 DEF Publish, app
  <2>2. published' \in Nat /\ published' # 0
    <3>1. published \in Nat /\ published # 0
      OBVIOUS
    <3> HIDE DEF AppInv
    <3> QED
      BY <2>1, <3>1
  <2> QED
    BY <2>1, <2>2, Zenon
<1>12. CASE UNCHANGED vars
  BY <1>12 DEF vars
<1> QED
  <2> HIDE DEF AppInv
  <2> QED
    BY <1>1, <1>2, <1>3, <1>4, <1>5, <1>6, <1>7, <1>8, <1>9, <1>10, <1>11, <1>12
       DEF Next, Advance

\* AgentHasApp: wherever runs of the installer and the uninstaller are cut off,
\* fail or are repeated, a LaunchAgent of the sweep finds the application.
THEOREM AgentHasApp == Spec => []JobHasApp
<1>1. AppInv => JobHasApp
  BY DEF AppInv
<1> QED
  BY <1>1, InitAppInv, NextAppInv, PTL DEF Spec

-----------------------------------------------------------------------------
(***************************************************************************)
(* The launcher (AppLauncher)                                              *)
(***************************************************************************)

Launching ==
    [pc : {"pgrep", "reap", "port", "start", "await", "window"}, frozen : BOOLEAN,
     since : Nat, strays : SUBSET Desk!Worker, reaped : BOOLEAN, port : Nat,
     own : Nat]
Serving == [st : {"starting", "serving"}, port : Nat, code : Nat, own : BOOLEAN,
            of : Launcher \cup {"launchd"}]

DeskTypes ==
    /\ code \in Nat
    /\ launcher \in [Launcher -> {Desk!Off, Desk!Failed} \cup Launching]
    /\ worker \in [Desk!Worker -> {Desk!NoWorker} \cup Serving]

\* A launcher has no server before it has started one.
OwnLater ==
    \A l \in Launcher :
        launcher[l].pc \in {"pgrep", "reap", "port", "start"} => launcher[l].own = 0

\* Servers that are older than what was installed at a launch that listed the
\* strays are those that it is about to end.
NotOlder(s, w) ==
    \/ ~worker[w].own \/ worker[w].code >= s.since
    \/ s.pc = "reap" /\ w \in s.strays
OldEnd(s) ==
    s \in Launching =>
        /\ s.since <= code
        /\ s.pc = "pgrep" => ~s.reaped
        /\ s.reaped => \A w \in Desk!Alive : NotOlder(s, w)
OldEnds == \A l \in Launcher : OldEnd(launcher[l])

DeskInv == DeskTypes /\ OwnLater /\ OldEnds /\ Desk!NoOrphan

LEMMA InitDeskInv == Desk!Init => DeskInv
BY DEF Desk!Init, DeskInv, DeskTypes, OwnLater, OldEnds, Desk!NoOrphan, Desk!Off, Desk!Failed,
       Desk!NoWorker, Desk!Alive, OldEnd, Launching

\* A record of a launch is neither of the two others.
LEMMA IsLaunching ==
    ASSUME DeskTypes, NEW l \in Launcher
    PROVE  /\ Desk!Running(l) <=> launcher[l] \in Launching
           /\ launcher[l].pc \notin {"off", "error"} => launcher[l] \in Launching
BY DEF DeskTypes, Launching, Desk!Running, Desk!Off, Desk!Failed

LEMMA IsAlive ==
    ASSUME DeskTypes, NEW w \in Desk!Worker
    PROVE  w \in Desk!Alive <=> worker[w] \in Serving
BY DEF DeskTypes, Serving, Desk!Alive, Desk!NoWorker

\* A server lives on as it was, or loses its launcher.
LivesOn(w) ==
    /\ w \in Desk!Alive
    /\ worker'[w].own = worker[w].own /\ worker'[w].code = worker[w].code
    /\ worker'[w].of \in {worker[w].of, "launchd"}

\* A launcher goes on to s, and servers only end.
LEMMA LaunchGoesOn ==
    ASSUME DeskInv, NEW l \in Launcher, NEW s \in {Desk!Off, Desk!Failed} \cup Launching,
           launcher' = [launcher EXCEPT ![l] = s], code' = code, DeskTypes',
           \A w \in Desk!Alive' : LivesOn(w),
           s.pc \in {"pgrep", "reap", "port", "start"} => s.own = 0,
           OldEnd(s)',
           \A w \in Desk!Alive' :
               worker'[w].of = l /\ l # "launchd" => s \in Launching /\ s.own = w
    PROVE  DeskInv'
<1>1. launcher'[l] = s /\ \A k \in Launcher : k # l => launcher'[k] = launcher[k]
  BY DEF DeskInv, DeskTypes
<1>2. OwnLater'
  BY <1>1 DEF DeskInv, OwnLater
<1>3. ASSUME NEW k \in Launcher PROVE OldEnd(launcher[k])'
  <2>1. CASE k = l
    BY <1>1, <2>1 DEF OldEnd, NotOlder
  <2>2. CASE k # l
    BY <1>1, <2>2 DEF DeskInv, OldEnds, OldEnd, NotOlder, LivesOn
  <2> QED
    BY <2>1, <2>2
<1>4. ASSUME NEW w \in Desk!Alive', worker'[w].of # "launchd"
      PROVE  Desk!Running(worker[w].of)' /\ launcher'[worker'[w].of].own = w
  <2>1. w \in Desk!Alive /\ worker'[w].of = worker[w].of /\ worker[w].of \in Launcher
    BY <1>4, IsAlive DEF LivesOn, DeskInv, DeskTypes, Serving, Desk!Alive
  <2>2. CASE worker[w].of = l
    BY <1>1, <1>4, <2>1, <2>2 DEF Desk!Running, Launching, Desk!Off, Desk!Failed
  <2>3. CASE worker[w].of # l
    BY <1>1, <1>4, <2>1, <2>3 DEF DeskInv, Desk!NoOrphan, Desk!Running, Desk!Off, Desk!Failed
  <2> QED
    BY <2>2, <2>3
<1> QED
  BY <1>2, <1>3, <1>4 DEF DeskInv, OldEnds, Desk!NoOrphan

\* It goes on and no server is touched.
LEMMA LaunchGoesOnAlone ==
    ASSUME DeskInv, NEW l \in Launcher, NEW s \in {Desk!Off, Desk!Failed} \cup Launching,
           launcher' = [launcher EXCEPT ![l] = s], UNCHANGED <<code, worker>>,
           s.pc \in {"pgrep", "reap", "port", "start"} => s.own = 0,
           OldEnd(s),
           \/ s \in Launching /\ launcher[l] \in Launching /\ s.own = launcher[l].own
           \/ launcher[l] \notin Launching
           \/ launcher[l].own \notin Desk!Alive
    PROVE  DeskInv'
<1>1. DeskTypes'
  BY DEF DeskInv, DeskTypes
<1>2. \A w \in Desk!Alive' : LivesOn(w)
  BY DEF LivesOn, Desk!Alive
<1>3. OldEnd(s)'
  BY DEF OldEnd, NotOlder, Desk!Alive
<1>4. ASSUME NEW w \in Desk!Alive', worker'[w].of = l, l # "launchd"
      PROVE  s \in Launching /\ s.own = w
  <2>1. w \in Desk!Alive /\ worker[w].of = l
    BY <1>4 DEF Desk!Alive
  <2>2. launcher[l] \in Launching /\ launcher[l].own = w
    BY <1>4, <2>1, IsLaunching DEF DeskInv, Desk!NoOrphan
  <2> QED
    BY <2>1, <2>2
<1> QED
  BY <1>1, <1>2, <1>3, <1>4, LaunchGoesOn

LEMMA StartStep ==
    ASSUME DeskInv, NEW l \in Launcher,
           Desk!Launch(l) \/ Desk!Pgrep(l) \/ Desk!FindFreePort(l)
    PROVE  DeskInv'
<1> USE DEF Desk!Set, Desk!Goto, Desk!At
<1>1. CASE Desk!Launch(l)
  <2>1. PICK frozen \in BOOLEAN : launcher' = [launcher EXCEPT ![l] = Desk!Started(frozen)]
    BY <1>1 DEF Desk!Launch
  <2>2. Desk!Started(frozen) \in Launching
    BY DEF Desk!Started, Launching, DeskInv, DeskTypes
  <2>3. OldEnd(Desk!Started(frozen))
    BY DEF Desk!Started, OldEnd, DeskInv, DeskTypes
  <2>4. launcher[l] \notin Launching
    BY <1>1 DEF Desk!Launch, Desk!Off, Launching
  <2> QED
    BY <1>1, <2>1, <2>2, <2>3, <2>4, LaunchGoesOnAlone DEF Desk!Launch, Desk!Started
<1>2. CASE Desk!Pgrep(l)
  <2>1. launcher[l].pc = "pgrep" /\ launcher[l] \in Launching /\ launcher[l].own = 0
    BY <1>2, IsLaunching DEF Desk!Pgrep, DeskInv, OwnLater
  <2>2. OldEnd(launcher[l])
    BY DEF DeskInv, OldEnds
  <2>3. CASE launcher' = [launcher EXCEPT ![l] = [launcher[l] EXCEPT !.pc = "reap", !.reaped = TRUE,
                     !.strays = {w \in Desk!Alive : worker[w].own}]]
    <3> DEFINE s == [launcher[l] EXCEPT !.pc = "reap", !.reaped = TRUE,
                        !.strays = {w \in Desk!Alive : worker[w].own}]
    <3>1. {w \in Desk!Alive : worker[w].own} \in SUBSET Desk!Worker
      BY DEF Desk!Alive
    <3>2. /\ s \in Launching /\ s.pc = "reap" /\ s.own = 0 /\ s.since = launcher[l].since
          /\ s.strays = {w \in Desk!Alive : worker[w].own}
      BY <2>1, <3>1 DEF Launching
    <3>3. OldEnd(s)
      <4>1. \A w \in Desk!Alive : NotOlder(s, w)
        BY <3>2 DEF NotOlder
      <4> QED
        BY <2>1, <2>2, <3>2, <4>1 DEF OldEnd
    <3>4. launcher' = [launcher EXCEPT ![l] = s] /\ UNCHANGED <<code, worker>>
      BY <1>2, <2>3 DEF Desk!Pgrep
    <3> HIDE DEF s
    <3> QED
      BY <2>1, <3>2, <3>3, <3>4, LaunchGoesOnAlone
  <2>4. CASE launcher' = [launcher EXCEPT ![l].pc = "port"]
    <3> DEFINE s == [launcher[l] EXCEPT !.pc = "port"]
    <3>1. /\ s \in Launching /\ s.pc = "port" /\ s.own = 0 /\ s.since = launcher[l].since
          /\ s.reaped = launcher[l].reaped
      BY <2>1 DEF Launching
    <3>2. OldEnd(s)
      BY <2>1, <2>2, <3>1 DEF OldEnd
    <3>3. launcher' = [launcher EXCEPT ![l] = s] /\ UNCHANGED <<code, worker>>
      BY <1>2, <2>4 DEF Desk!Pgrep
    <3> HIDE DEF s
    <3> QED
      BY <2>1, <3>1, <3>2, <3>3, LaunchGoesOnAlone
  <2> QED
    BY <1>2, <2>3, <2>4 DEF Desk!Pgrep
<1>3. CASE Desk!FindFreePort(l)
  <2>1. launcher[l].pc = "port" /\ launcher[l] \in Launching /\ launcher[l].own = 0
    BY <1>3, IsLaunching DEF Desk!FindFreePort, DeskInv, OwnLater
  <2>2. PICK n \in 0..MaxPort :
           launcher' = [launcher EXCEPT ![l] = [launcher[l] EXCEPT !.pc = "start", !.port = n]]
    BY <1>3 DEF Desk!FindFreePort
  <2> DEFINE s == [launcher[l] EXCEPT !.pc = "start", !.port = n]
  <2>3. n \in Nat
    BY <2>2, MachineAssumption
  <2>4. /\ s \in Launching /\ s.pc = "start" /\ s.own = 0 /\ s.since = launcher[l].since
        /\ s.reaped = launcher[l].reaped
    BY <2>1, <2>3 DEF Launching
  <2>5. OldEnd(s)
    BY <2>1, <2>4 DEF OldEnd, NotOlder, DeskInv, OldEnds
  <2> HIDE DEF s
  <2> QED
    BY <1>3, <2>1, <2>2, <2>4, <2>5, LaunchGoesOnAlone DEF Desk!FindFreePort, s
<1> QED
  BY <1>1, <1>2, <1>3

\* A server that ends, or is not there, is nobody's.
LEMMA EndStep ==
    ASSUME DeskInv, NEW l \in Launcher,
           \/ Desk!SpawnFails(l) \/ Desk!EarlyExit(l) \/ Desk!CloseError(l)
           \/ Desk!Timeout(l) \/ Desk!Close(l)
    PROVE  DeskInv'
<1>1. OldEnd(Desk!Off) /\ OldEnd(Desk!Failed)
  BY DEF OldEnd, Launching, Desk!Off, Desk!Failed
<1>2. CASE Desk!SpawnFails(l)
  <2>1. launcher[l].own \notin Desk!Alive
    BY <1>2 DEF Desk!SpawnFails, Desk!At, DeskInv, OwnLater, Desk!Alive, Desk!Worker
  <2> QED
    BY <1>1, <1>2, <2>1, LaunchGoesOnAlone DEF Desk!SpawnFails, Desk!Set, Desk!Failed
<1>3. CASE Desk!EarlyExit(l)
  BY <1>1, <1>3, LaunchGoesOnAlone DEF Desk!EarlyExit, Desk!Set, Desk!Failed
<1>4. CASE Desk!CloseError(l)
  <2>1. launcher[l] \notin Launching
    BY <1>4 DEF Desk!CloseError, Desk!At, Launching
  <2> QED
    BY <1>1, <1>4, <2>1, LaunchGoesOnAlone DEF Desk!CloseError, Desk!Set, Desk!Off
<1>5. CASE Desk!Close(l) /\ launcher[l].own \notin Desk!Alive
  BY <1>1, <1>5, LaunchGoesOnAlone DEF Desk!Close, Desk!Set, Desk!Off
<1>6. ASSUME NEW s \in {Desk!Off, Desk!Failed}, launcher' = [launcher EXCEPT ![l] = s],
             worker' = Desk!Stopped(l), code' = code, launcher[l] \in Launching
      PROVE  DeskInv'
  <2>1. worker' = [worker EXCEPT ![launcher[l].own] = Desk!NoWorker]
    BY <1>6 DEF Desk!Stopped
  <2>2. DeskTypes'
    BY <1>6, <2>1 DEF DeskInv, DeskTypes
  <2>3. ASSUME NEW w \in Desk!Alive' PROVE LivesOn(w) /\ w # launcher[l].own
    <3>1. w \in Desk!Worker /\ worker'[w] # Desk!NoWorker
      BY <2>3 DEF Desk!Alive, Desk!NoWorker
    <3>2. w # launcher[l].own /\ worker'[w] = worker[w]
      BY <2>1, <3>1 DEF DeskInv, DeskTypes
    <3> QED
      BY <2>3, <3>1, <3>2 DEF LivesOn, Desk!Alive
  <2>4. ASSUME NEW w \in Desk!Alive', worker'[w].of = l, l # "launchd" PROVE FALSE
    <3>1. w \in Desk!Alive /\ worker[w].of = l
      BY <2>3, <2>4 DEF LivesOn
    <3> QED
      BY <2>3, <2>4, <3>1 DEF DeskInv, Desk!NoOrphan
  <2>5. s.pc \notin {"pgrep", "reap", "port", "start"} /\ OldEnd(s)'
    BY <1>6 DEF OldEnd, Launching, Desk!Off, Desk!Failed
  <2> QED
    BY <1>6, <2>2, <2>3, <2>4, <2>5, LaunchGoesOn
<1>7. CASE Desk!Timeout(l)
  BY <1>6, <1>7, IsLaunching DEF Desk!Timeout, Desk!Set, Desk!At, DeskInv
<1>8. CASE Desk!Close(l) /\ launcher[l].own \in Desk!Alive
  BY <1>6, <1>8, IsLaunching DEF Desk!Close, Desk!Set, Desk!At, DeskInv
<1> QED
  BY <1>2, <1>3, <1>4, <1>5, <1>7, <1>8 DEF Desk!Close

LEMMA ReadyStep == ASSUME DeskInv, NEW l \in Launcher, Desk!Ready(l) PROVE DeskInv'
<1> DEFINE s == [launcher[l] EXCEPT !.pc = "window"]
<1>1. launcher[l].pc = "await" /\ launcher[l] \in Launching
  BY IsLaunching DEF Desk!Ready, Desk!At, DeskInv
<1>2. /\ s \in Launching /\ s.pc = "window" /\ s.own = launcher[l].own
      /\ s.since = launcher[l].since /\ s.reaped = launcher[l].reaped
  BY <1>1 DEF Launching
<1>3. OldEnd(s)
  BY <1>1, <1>2 DEF OldEnd, NotOlder, DeskInv, OldEnds
<1>4. launcher' = [launcher EXCEPT ![l] = s] /\ UNCHANGED <<code, worker>>
  BY DEF Desk!Ready, Desk!Goto
<1> HIDE DEF s
<1> QED
  BY <1>1, <1>2, <1>3, <1>4, LaunchGoesOnAlone

\* The strays end, so that nothing older than the launch is left.
LEMMA ReapStep == ASSUME DeskInv, NEW l \in Launcher, Desk!Reap(l) PROVE DeskInv'
<1>1. launcher[l].pc = "reap" /\ launcher[l] \in Launching /\ launcher[l].own = 0
  BY IsLaunching DEF Desk!Reap, Desk!At, DeskInv, OwnLater
<1>2. PICK s \in Launching :
         /\ s.pc = "port" /\ s.own = 0
         /\ s.since = launcher[l].since /\ s.reaped = launcher[l].reaped
         /\ s = [launcher[l] EXCEPT !.pc = "port", !.strays = {}]
  BY <1>1 DEF Launching
<1>3. /\ launcher' = [launcher EXCEPT ![l] = s] /\ code' = code
      /\ worker' = [w \in Desk!Worker |->
                       IF w \in launcher[l].strays THEN Desk!NoWorker ELSE worker[w]]
  BY <1>2 DEF Desk!Reap, Desk!Set
<1>4. DeskTypes'
  BY <1>2, <1>3 DEF DeskInv, DeskTypes
<1>5. ASSUME NEW w \in Desk!Alive'
      PROVE  w \notin launcher[l].strays /\ w \in Desk!Alive /\ worker'[w] = worker[w]
  BY <1>3, <1>5 DEF Desk!Alive, Desk!NoWorker
<1>6. OldEnd(s)'
  <2>1. \A w \in Desk!Alive' : s.reaped => ~worker'[w].own \/ worker'[w].code >= s.since
    BY <1>1, <1>2, <1>5 DEF DeskInv, OldEnds, OldEnd, NotOlder
  <2>2. s.since <= code
    BY <1>1, <1>2 DEF DeskInv, OldEnds, OldEnd
  <2> QED
    BY <1>2, <1>3, <2>1, <2>2 DEF OldEnd, NotOlder
<1>7. ASSUME NEW w \in Desk!Alive', worker'[w].of = l, l # "launchd" PROVE FALSE
  BY <1>1, <1>5, <1>7 DEF DeskInv, Desk!NoOrphan, Desk!Alive, Desk!Worker
<1>8. \A w \in Desk!Alive' : LivesOn(w)
  BY <1>5 DEF LivesOn
<1> QED
  BY <1>2, <1>3, <1>4, <1>6, <1>7, <1>8, LaunchGoesOn

\* A launcher that is killed leaves its server to launchd, or takes it along.
LEMMA DeskKillStep == ASSUME DeskInv, NEW l \in Launcher, Desk!Kill(l) PROVE DeskInv'
<1>1. /\ launcher' = [launcher EXCEPT ![l] = Desk!Off] /\ code' = code
      /\ worker' = [w \in Desk!Worker |->
             IF w \notin Desk!Alive \/ worker[w].of # l THEN worker[w]
             ELSE IF worker[w].own THEN [worker[w] EXCEPT !.of = "launchd"] ELSE Desk!NoWorker]
  BY DEF Desk!Kill, Desk!Set
<1>2. ASSUME NEW w \in Desk!Worker
      PROVE  /\ worker'[w] \in {Desk!NoWorker} \cup Serving
             /\ w \in Desk!Alive' => LivesOn(w) /\ worker'[w].of \in {"launchd"} \cup (Launcher \ {l})
  <2>1. CASE w \notin Desk!Alive
    BY <1>1, <2>1 DEF Desk!Alive, DeskInv, DeskTypes
  <2>2. CASE w \in Desk!Alive /\ worker[w].of # l
    <3>1. worker'[w] = worker[w] /\ worker[w] \in Serving
      BY <1>1, <2>2, IsAlive DEF DeskInv
    <3> QED
      BY <2>2, <3>1 DEF LivesOn, Serving
  <2>3. CASE w \in Desk!Alive /\ worker[w].of = l
    <3>1. worker[w] \in Serving
      BY <2>3, IsAlive DEF DeskInv
    <3>2. CASE worker[w].own
      <4> DEFINE r == [worker[w] EXCEPT !.of = "launchd"]
      <4>1. worker'[w] = r
        BY <1>1, <2>3, <3>2
      <4>2. r \in Serving /\ r.own = worker[w].own /\ r.code = worker[w].code /\ r.of = "launchd"
        BY <3>1 DEF Serving
      <4> HIDE DEF r
      <4> QED
        BY <2>3, <4>1, <4>2 DEF LivesOn
    <3>3. CASE ~worker[w].own
      BY <1>1, <2>3, <3>3 DEF Desk!Alive, Desk!NoWorker
    <3> QED
      BY <3>2, <3>3
  <2> QED
    BY <2>1, <2>2, <2>3
<1>3. DeskTypes'
  BY <1>1, <1>2 DEF DeskInv, DeskTypes
<1>4. OldEnd(Desk!Off)' /\ Desk!Off.pc \notin {"pgrep", "reap", "port", "start"}
  BY DEF OldEnd, Launching, Desk!Off
<1>5. \A w \in Desk!Alive' : w \in Desk!Worker
  BY DEF Desk!Alive
<1> QED
  BY <1>1, <1>2, <1>3, <1>4, <1>5, LaunchGoesOn

\* The server is new, of the version installed now and of a launcher that had none.
LEMMA SpawnStep == ASSUME DeskInv, NEW l \in Launcher, Desk!Spawn(l) PROVE DeskInv'
<1>1. launcher[l].pc = "start" /\ launcher[l] \in Launching /\ launcher[l].own = 0
  BY IsLaunching DEF Desk!Spawn, Desk!At, DeskInv, OwnLater
<1>2. PICK w \in Desk!Worker :
         /\ Desk!Unused(w)
         /\ worker' = [worker EXCEPT ![w] =
                          [st |-> "starting", port |-> launcher[l].port,
                           code |-> IF launcher[l].frozen THEN launcher[l].since ELSE code,
                           own |-> ~launcher[l].frozen, of |-> l]]
         /\ launcher' = [launcher EXCEPT ![l] = [launcher[l] EXCEPT !.pc = "await", !.own = w]]
  BY DEF Desk!Spawn, Desk!Set
<1>3. code' = code /\ w \in Nat
  BY DEF Desk!Spawn, Desk!Worker
<1>4. PICK s \in Launching :
         /\ s.pc = "await" /\ s.own = w
         /\ s.since = launcher[l].since /\ s.reaped = launcher[l].reaped
         /\ s = [launcher[l] EXCEPT !.pc = "await", !.own = w]
  BY <1>1, <1>3 DEF Launching
<1>5. PICK r \in Serving :
         /\ worker' = [worker EXCEPT ![w] = r] /\ r.of = l /\ (r.own => r.code = code)
  <2> DEFINE r == [st |-> "starting", port |-> launcher[l].port,
                   code |-> IF launcher[l].frozen THEN launcher[l].since ELSE code,
                   own |-> ~launcher[l].frozen, of |-> l]
  <2>1. launcher[l].frozen \in BOOLEAN /\ launcher[l].since \in Nat /\ launcher[l].port \in Nat
    BY <1>1 DEF Launching
  <2>2. code \in Nat
    BY DEF DeskInv, DeskTypes
  <2>3. r \in Serving /\ r.of = l /\ (r.own => r.code = code)
    BY <2>1, <2>2 DEF Serving
  <2> QED
    BY <1>2, <2>3
<1>6. /\ launcher'[l] = s /\ \A k \in Launcher : k # l => launcher'[k] = launcher[k]
      /\ worker'[w] = r /\ \A v \in Desk!Worker : v # w => worker'[v] = worker[v]
  BY <1>2, <1>4, <1>5 DEF DeskInv, DeskTypes
<1>7. DeskTypes'
  BY <1>2, <1>3, <1>4, <1>5 DEF DeskInv, DeskTypes
<1>8. OwnLater'
  BY <1>4, <1>6 DEF DeskInv, OwnLater
<1>9. ASSUME NEW v \in Desk!Alive', v # w PROVE v \in Desk!Alive
  <2>1. v \in Desk!Worker /\ worker'[v].st \in {"starting", "serving"}
    BY DEF Desk!Alive
  <2> QED
    BY <1>6, <1>9, <2>1 DEF Desk!Alive
<1>10. ASSUME NEW k \in Launcher PROVE OldEnd(launcher[k])'
  <2>1. OldEnd(launcher[k]) /\ OldEnd(launcher[l])
    BY DEF DeskInv, OldEnds
  <2>2. code \in Nat /\ (launcher[k] \in Launching => launcher[k].since <= code)
    BY <2>1 DEF OldEnd, DeskInv, DeskTypes
  <2>3. CASE k = l
    <3>1. \A v \in Desk!Alive' : s.reaped => NotOlder(s, v)'
      BY <1>1, <1>4, <1>5, <1>6, <1>9, <2>1, <2>2, <2>3 DEF OldEnd, NotOlder, Desk!Alive
    <3>2. s.since <= code'
      BY <1>1, <1>3, <1>4, <2>2, <2>3
    <3> QED
      BY <1>4, <1>6, <2>3, <3>1, <3>2 DEF OldEnd
  <2>4. CASE k # l
    <3>1. launcher'[k] = launcher[k]
      BY <1>6, <2>4
    <3>2. ASSUME NEW v \in Desk!Alive', launcher[k] \in Launching, launcher[k].reaped
          PROVE  NotOlder(launcher[k], v)'
      <4>1. CASE v = w
        BY <1>5, <1>6, <2>2, <3>1, <3>2, <4>1 DEF NotOlder
      <4>2. CASE v # w
        BY <1>6, <1>9, <2>1, <3>1, <3>2, <4>2 DEF NotOlder, OldEnd, Desk!Alive
      <4> QED
        BY <4>1, <4>2
    <3> QED
      BY <1>3, <2>1, <3>1, <3>2 DEF OldEnd
  <2> QED
    BY <2>3, <2>4
<1>11. ASSUME NEW v \in Desk!Alive', worker'[v].of # "launchd"
       PROVE  Desk!Running(worker[v].of)' /\ launcher'[worker'[v].of].own = v
  <2>1. CASE v = w
    <3>1. s \notin {Desk!Off, Desk!Failed}
      BY DEF Launching, Desk!Off, Desk!Failed
    <3>2. worker'[v].of = l /\ launcher'[l] = s /\ s.own = v
      BY <1>4, <1>5, <1>6, <2>1
    <3>3. launcher'[worker'[v].of] \notin {Desk!Off, Desk!Failed}
      BY <3>1, <3>2
    <3>4. launcher'[worker'[v].of].own = v
      BY <3>2
    <3> QED
      BY <3>3, <3>4 DEF Desk!Running, Desk!Off, Desk!Failed
  <2>2. CASE v # w
    <3>1. v \in Desk!Alive /\ worker'[v] = worker[v]
      BY <1>6, <1>9, <2>2 DEF Desk!Alive
    <3>2. Desk!Running(worker[v].of) /\ launcher[worker[v].of].own = v
      BY <1>11, <3>1 DEF DeskInv, Desk!NoOrphan
    <3>3. worker[v].of \in Launcher /\ worker[v].of # l
      <4>1. worker[v] \in Serving /\ v # 0
        BY <3>1, IsAlive DEF DeskInv, Desk!Alive, Desk!Worker
      <4> QED
        BY <1>1, <1>11, <3>1, <3>2, <4>1 DEF Serving
    <3> QED
      BY <1>6, <3>1, <3>2, <3>3 DEF Desk!Running, Desk!Off, Desk!Failed
  <2> QED
    BY <2>1, <2>2
<1> QED
  BY <1>7, <1>8, <1>10, <1>11 DEF DeskInv, OldEnds, Desk!NoOrphan

LEMMA BindStep == ASSUME DeskInv, NEW w \in Desk!Worker, Desk!Bind(w) PROVE DeskInv'
<1>1. worker[w] \in Serving /\ launcher' = launcher /\ code' = code
  BY DEF Desk!Bind, DeskInv, DeskTypes, Desk!NoWorker
<1>2. PICK r \in {Desk!NoWorker} \cup Serving :
         /\ worker' = [worker EXCEPT ![w] = r]
         /\ r # Desk!NoWorker => r.of = worker[w].of /\ r.own = worker[w].own /\ r.code = worker[w].code
  <2> DEFINE s == [worker[w] EXCEPT !.st = "serving"]
  <2>1. s \in Serving /\ s.of = worker[w].of /\ s.own = worker[w].own /\ s.code = worker[w].code
    BY <1>1 DEF Serving
  <2>2. \/ worker' = [worker EXCEPT ![w] = s]
        \/ worker' = [worker EXCEPT ![w] = Desk!NoWorker]
    BY <1>1 DEF Desk!Bind, DeskInv, DeskTypes
  <2> QED
    BY <2>1, <2>2
<1>3. DeskTypes' /\ OwnLater'
  BY <1>1, <1>2 DEF DeskInv, DeskTypes, OwnLater
<1>4. ASSUME NEW v \in Desk!Alive'
      PROVE  /\ v \in Desk!Alive /\ worker'[v].of = worker[v].of
             /\ worker'[v].own = worker[v].own /\ worker'[v].code = worker[v].code
  <2>1. v \in Desk!Worker /\ worker'[v] # Desk!NoWorker
    BY <1>4 DEF Desk!Alive, Desk!NoWorker
  <2>2. CASE v = w
    BY <1>1, <1>2, <2>1, <2>2, IsAlive DEF DeskInv, DeskTypes
  <2>3. CASE v # w
    BY <1>2, <1>4, <2>1, <2>3 DEF DeskInv, DeskTypes, Desk!Alive
  <2> QED
    BY <2>2, <2>3
<1>5. OldEnds'
  <2> SUFFICES ASSUME NEW k \in Launcher PROVE OldEnd(launcher[k])'
    BY DEF OldEnds
  <2>1. \A v \in Desk!Alive' : NotOlder(launcher[k], v) => NotOlder(launcher[k], v)'
    BY <1>1, <1>4 DEF NotOlder
  <2> QED
    BY <1>1, <1>4, <2>1 DEF DeskInv, OldEnds, OldEnd
<1>6. Desk!NoOrphan'
  BY <1>1, <1>4 DEF DeskInv, Desk!NoOrphan, Desk!Running
<1> QED
  BY <1>3, <1>5, <1>6 DEF DeskInv

LEMMA UpdateStep == ASSUME DeskInv, Desk!Update PROVE DeskInv'
<1>1. code' = code + 1 /\ UNCHANGED <<launcher, worker>> /\ code \in Nat
  BY DEF Desk!Update, DeskInv, DeskTypes
<1>2. DeskTypes' /\ OwnLater' /\ Desk!NoOrphan'
  BY <1>1 DEF DeskInv, DeskTypes, OwnLater, Desk!NoOrphan, Desk!Alive, Desk!Running
<1>3. OldEnds'
  <2> SUFFICES ASSUME NEW k \in Launcher, launcher[k] \in Launching PROVE OldEnd(launcher[k])'
    BY <1>1 DEF OldEnds, OldEnd
  <2>1. launcher[k].since \in Nat
    BY DEF Launching
  <2> QED
    BY <1>1, <2>1 DEF DeskInv, OldEnds, OldEnd, NotOlder, Desk!Alive
<1> QED
  BY <1>2, <1>3 DEF DeskInv

LEMMA NextDeskInv == DeskInv /\ [Desk!Next]_(Desk!vars) => DeskInv'
<1> SUFFICES ASSUME DeskInv, [Desk!Next]_(Desk!vars) PROVE DeskInv'
  OBVIOUS
<1>1. ASSUME NEW l \in Launcher, Desk!Launch(l) \/ Desk!Step(l) \/ Desk!Close(l) \/ Desk!Kill(l)
      PROVE  DeskInv'
  BY <1>1, StartStep, EndStep, ReadyStep, ReapStep, SpawnStep, DeskKillStep DEF Desk!Step
<1>2. ASSUME NEW w \in Desk!Worker, Desk!Bind(w) PROVE DeskInv'
  BY <1>2, BindStep
<1>3. CASE Desk!Update
  BY <1>3, UpdateStep
<1>4. CASE UNCHANGED Desk!vars
  BY <1>4 DEF Desk!vars, DeskInv, DeskTypes, OwnLater, OldEnds, OldEnd, NotOlder,
              Desk!NoOrphan, Desk!Alive, Desk!Running
<1> QED
  BY <1>1, <1>2, <1>3, <1>4 DEF Desk!Next

LEMMA DeskInvariance == Desk!Spec => []DeskInv
BY InitDeskInv, NextDeskInv, PTL DEF Desk!Spec

\* NoOrphanLeft: a server that is there without its launcher is one whose
\* launcher was killed, for any launchers, ports and numbers of servers.
THEOREM NoOrphanLeft == Desk!Spec => []NoOrphan
<1>1. DeskInv => NoOrphan
  BY DEF DeskInv, NoOrphan
<1> QED
  BY <1>1, DeskInvariance, PTL

\* WindowNotOlder: a launch that could list the strays opens its window on no
\* server older than what was installed when it was launched.
THEOREM WindowNotOlder == Desk!Spec => FreshWindow
<1>1. ASSUME DeskInv, NEW l \in Launcher, Desk!At(l, "await"), launcher[l].reaped,
             NEW w \in Desk!Serving(launcher[l].port), worker[w].own
      PROVE  worker[w].code >= launcher[l].since
  <2>1. launcher[l] \in Launching /\ launcher[l].pc = "await"
    BY <1>1, IsLaunching DEF DeskInv, Desk!At
  <2>2. w \in Desk!Alive
    BY DEF Desk!Serving, Desk!Alive
  <2> QED
    BY <1>1, <2>1, <2>2 DEF DeskInv, OldEnds, OldEnd, NotOlder
<1>2. DeskInv =>
        [\A l \in Launcher :
           Desk!At(l, "await") /\ launcher'[l].pc = "window" /\ launcher[l].reaped
           => \A w \in Desk!Serving(launcher[l].port) :
                 worker[w].own => worker[w].code >= launcher[l].since]_(Desk!vars)
  BY <1>1
<1> QED
  BY <1>2, DeskInvariance, PTL DEF FreshWindow, Desk!FreshWindow

-----------------------------------------------------------------------------
(***************************************************************************)
(* The server of the mini (MiniTier)                                       *)
(***************************************************************************)

Minid == [st : {"off", "token", "make token", "bind", "serving", "exited"},
          engine : Nat \cup {None}, token : Mini!Proc \cup {None}]
MiniTypes ==
    /\ version \in Nat
    /\ engine \in [Mini!Place -> Nat \cup {None}]
    /\ minid \in [Mini!Proc -> Minid]
    /\ token \in Mini!Proc \cup {None}

\* Two never serve: the second finds the port taken.
OneServes == Mini!Serves("job") => ~Mini!Serves("hand")

\* From the moment the set-up has stopped the job until it loads it again
\* launchd does not have it, and the job it loads has what was just installed
\* or nothing yet.
Stopped == {"script", "remove", "copy", "legacy", "plist", "load"}
Replaced ==
    /\ setup \in Stopped => loaded = FALSE /\ minid["job"] = Mini!Off
    /\ setup \in {"legacy", "plist", "load", "verify"} => engine["vendor"] = version
    /\ setup = "verify" => minid["job"].engine \in {None, version}

MiniInv == MiniTypes /\ OneServes /\ Replaced

LEMMA InitMiniInv == Mini!Init => MiniInv
<1> SUFFICES ASSUME Mini!Init PROVE MiniInv
  OBVIOUS
<1>1. Mini!Off \in Minid
  BY DEF Mini!Off, Minid
<1>2. MiniTypes
  BY <1>1 DEF Mini!Init, MiniTypes
<1>3. OneServes /\ Replaced
  BY DEF Mini!Init, OneServes, Replaced, Stopped, Mini!Serves, Mini!Off, Mini!Proc
<1> QED
  BY <1>2, <1>3 DEF MiniInv

\* A process that goes on, other than to serve or to load an engine.
LEMMA MinidGoesOn ==
    ASSUME MiniInv, NEW p \in Mini!Proc, NEW m \in Minid, Mini!Set(p, m),
           UNCHANGED <<version, engine, setup, loaded>>, token' \in Mini!Proc \cup {None},
           m.st = "serving" => \A q \in Mini!Proc : q # p => ~Mini!Serves(q),
           p = "job" => setup \notin Stopped \/ m = Mini!Off,
           p = "job" /\ setup = "verify" => m.engine \in {None, version}
    PROVE  MiniInv'
<1>1. /\ minid' \in [Mini!Proc -> Minid] /\ minid'[p] = m
      /\ \A q \in Mini!Proc : q # p => minid'[q] = minid[q]
  BY DEF Mini!Set, MiniInv, MiniTypes
<1>2. "job" \in Mini!Proc /\ "hand" \in Mini!Proc
  BY DEF Mini!Proc
<1>3. MiniTypes'
  BY <1>1 DEF MiniInv, MiniTypes
<1>4. OneServes'
  <2>1. CASE p = "job"
    BY <1>1, <1>2, <2>1 DEF MiniInv, OneServes, Mini!Serves
  <2>2. CASE p = "hand"
    BY <1>1, <1>2, <2>2 DEF MiniInv, OneServes, Mini!Serves
  <2> QED
    BY <2>1, <2>2 DEF Mini!Proc
<1>5. Replaced'
  BY <1>1, <1>2 DEF MiniInv, Replaced
<1> QED
  BY <1>3, <1>4, <1>5 DEF MiniInv

LEMMA MinidStep ==
    ASSUME MiniInv, NEW p \in Mini!Proc, Mini!Minid(p) \/ Mini!Crash(p)
    PROVE  MiniInv'
<1>1. minid[p] \in Minid
  BY DEF MiniInv, MiniTypes
<1>2. minid[p].st # "off" /\ UNCHANGED <<version, engine, setup, loaded>>
  BY DEF Mini!Minid, Mini!ReadToken, Mini!MakeToken, Mini!Bind, Mini!LoadEngine, Mini!Crash,
         Mini!Serves, Mini!daemon
<1>3. p = "job" => setup \notin Stopped
  BY <1>2 DEF MiniInv, Replaced, Mini!Off
<1>4. p = "job" /\ setup = "verify" => minid[p].engine \in {None, version}
  BY DEF MiniInv, Replaced
<1>5. ASSUME NEW m \in Minid, Mini!Set(p, m), m.engine \in {None, minid[p].engine},
             token' \in Mini!Proc \cup {None},
             m.st = "serving" => \A q \in Mini!Proc : ~Mini!Serves(q)
      PROVE  MiniInv'
  BY <1>2, <1>3, <1>4, <1>5, MinidGoesOn
<1>6. CASE Mini!ReadToken(p)
  <2>1. CASE token # None
    <3> DEFINE m == [minid[p] EXCEPT !.st = "bind", !.token = token]
    <3>1. m \in Minid /\ m.engine = minid[p].engine /\ m.st # "serving"
      BY <1>1, <2>1 DEF Minid, MiniInv, MiniTypes
    <3>2. Mini!Set(p, m) /\ token' \in Mini!Proc \cup {None}
      BY <1>6, <2>1 DEF Mini!ReadToken, MiniInv, MiniTypes
    <3> HIDE DEF m
    <3> QED
      BY <1>5, <3>1, <3>2
  <2>2. CASE token = None
    <3> DEFINE m == [minid[p] EXCEPT !.st = "make token", !.token = p]
    <3>1. m \in Minid /\ m.engine = minid[p].engine /\ m.st # "serving"
      BY <1>1, <2>2 DEF Minid
    <3>2. Mini!Set(p, m) /\ token' \in Mini!Proc \cup {None}
      BY <1>6, <2>2 DEF Mini!ReadToken, MiniInv, MiniTypes
    <3> HIDE DEF m
    <3> QED
      BY <1>5, <3>1, <3>2
  <2> QED
    BY <2>1, <2>2
<1>7. CASE Mini!MakeToken(p)
  <2> DEFINE m == [minid[p] EXCEPT !.st = "bind"]
  <2>1. m \in Minid /\ m.engine = minid[p].engine /\ m.st # "serving"
    BY <1>1 DEF Minid
  <2>2. Mini!Set(p, m) /\ token' \in Mini!Proc \cup {None}
    BY <1>7 DEF Mini!MakeToken
  <2> HIDE DEF m
  <2> QED
    BY <1>5, <2>1, <2>2
<1>8. CASE Mini!Bind(p)
  <2>1. token' \in Mini!Proc \cup {None}
    BY <1>8 DEF Mini!Bind, MiniInv, MiniTypes
  <2>2. CASE net /\ Mini!PortFree
    <3> DEFINE m == [minid[p] EXCEPT !.st = "serving"]
    <3>1. m \in Minid /\ m.engine = minid[p].engine
      BY <1>1 DEF Minid
    <3>2. Mini!Set(p, m) /\ \A q \in Mini!Proc : ~Mini!Serves(q)
      BY <1>8, <2>2 DEF Mini!Bind, Mini!PortFree
    <3> HIDE DEF m
    <3> QED
      BY <1>5, <2>1, <3>1, <3>2
  <2>3. CASE ~(net /\ Mini!PortFree)
    <3> DEFINE m == [Mini!Off EXCEPT !.st = "exited"]
    <3>1. m \in Minid /\ m.engine = None /\ m.st # "serving"
      BY DEF Minid, Mini!Off
    <3>2. Mini!Set(p, m)
      BY <1>8, <2>3 DEF Mini!Bind
    <3> HIDE DEF m
    <3> QED
      BY <1>5, <2>1, <3>1, <3>2
  <2> QED
    BY <2>2, <2>3
<1>9. CASE Mini!Crash(p)
  <2>1. Mini!Off \in Minid /\ Mini!Off.engine = None /\ Mini!Off.st # "serving"
    BY DEF Minid, Mini!Off
  <2>2. Mini!Set(p, Mini!Off) /\ token' \in Mini!Proc \cup {None}
    BY <1>9 DEF Mini!Crash, MiniInv, MiniTypes
  <2> QED
    BY <1>5, <2>1, <2>2
<1>10. CASE Mini!LoadEngine(p)
  <2> DEFINE m == [minid[p] EXCEPT !.engine = Mini!Finds(p)]
  <2>1. "vendor" \in Mini!Place /\ "legacy" \in Mini!Place
    BY DEF Mini!Place
  <2>2. Mini!Finds(p) \in Nat \cup {None}
    BY <2>1 DEF Mini!Finds, MiniInv, MiniTypes
  <2>3. m \in Minid /\ m.engine = Mini!Finds(p) /\ m.st = minid[p].st
    BY <1>1, <2>2 DEF Minid
  <2>4. p = "job" /\ setup = "verify" => Mini!Finds(p) = version
    BY MachineAssumption DEF Mini!Finds, MiniInv, MiniTypes, Replaced
  <2>5. Mini!Set(p, m) /\ token' \in Mini!Proc \cup {None}
    BY <1>10 DEF Mini!LoadEngine, MiniInv, MiniTypes
  <2>6. \A q \in Mini!Proc : q # p => ~Mini!Serves(q)
    BY <1>10 DEF Mini!LoadEngine, MiniInv, OneServes, Mini!Proc
  <2> HIDE DEF m
  <2> QED
    BY <1>2, <1>3, <2>3, <2>4, <2>5, <2>6, MinidGoesOn
<1> QED
  BY <1>6, <1>7, <1>8, <1>9, <1>10 DEF Mini!Minid

LEMMA MinidStarts ==
    ASSUME MiniInv, Mini!KeepAlive \/ Mini!StartByHand
    PROVE  MiniInv'
<1> DEFINE m == [Mini!Off EXCEPT !.st = "token"]
<1>1. m \in Minid /\ m.engine = None /\ m.st # "serving"
  BY DEF Minid, Mini!Off
<1>2. UNCHANGED <<version, engine, setup, loaded>> /\ token' \in Mini!Proc \cup {None}
  BY DEF Mini!KeepAlive, Mini!StartByHand, Mini!daemon, MiniInv, MiniTypes
<1>3. CASE Mini!KeepAlive
  <2>1. Mini!Set("job", m) /\ setup \notin Stopped
    BY <1>3 DEF Mini!KeepAlive, MiniInv, Replaced
  <2> HIDE DEF m
  <2> QED
    BY <1>1, <1>2, <2>1, MinidGoesOn DEF Mini!Proc
<1>4. CASE Mini!StartByHand
  <2>1. Mini!Set("hand", m)
    BY <1>4 DEF Mini!StartByHand
  <2> HIDE DEF m
  <2> QED
    BY <1>1, <1>2, <2>1, MinidGoesOn DEF Mini!Proc
<1> QED
  BY <1>3, <1>4

\* The job is ended, or nothing is.
LEMMA JobEnds ==
    ASSUME MiniInv, minid' = minid \/ Mini!Set("job", Mini!Off),
           UNCHANGED <<version, token>>, engine' \in [Mini!Place -> Nat \cup {None}]
    PROVE  MiniTypes' /\ OneServes'
<1>1. Mini!Off \in Minid /\ Mini!Off.st # "serving" /\ "job" \in Mini!Proc
  BY DEF Mini!Off, Minid, Mini!Proc
<1>2. CASE minid' = minid
  BY <1>2 DEF MiniInv, MiniTypes, OneServes, Mini!Serves
<1>3. CASE Mini!Set("job", Mini!Off)
  BY <1>1, <1>3 DEF Mini!Set, MiniInv, MiniTypes, OneServes, Mini!Serves
<1> QED
  BY <1>2, <1>3

LEMMA SetupStep == ASSUME MiniInv, Mini!Start \/ Mini!Advance PROVE MiniInv'
<1>1. UNCHANGED <<version, token>> /\ (minid' = minid \/ Mini!Set("job", Mini!Off))
  BY DEF Mini!Start, Mini!Advance, Mini!StopRunningMinid, Mini!CopyScript, Mini!RemoveEngine,
         Mini!CopyEngine, Mini!SweepLegacy, Mini!WritePlist, Mini!LoadPlist, Mini!VerifyServing,
         Mini!NobodyServes
<1>2. engine' \in [Mini!Place -> Nat \cup {None}]
  <2>1. engine \in [Mini!Place -> Nat \cup {None}] /\ version \in Nat
    BY DEF MiniInv, MiniTypes
  <2> QED
    BY <2>1 DEF Mini!Start, Mini!Advance, Mini!StopRunningMinid, Mini!CopyScript,
         Mini!RemoveEngine, Mini!CopyEngine, Mini!SweepLegacy, Mini!WritePlist, Mini!LoadPlist,
         Mini!VerifyServing, Mini!NobodyServes, Mini!daemon
<1>3. Mini!Set("job", Mini!Off) => minid'["job"] = Mini!Off
  BY DEF Mini!Set, MiniInv, MiniTypes, Mini!Proc
<1>4. Replaced'
  <2> USE DEF Replaced, Stopped, Mini!Goto, Mini!daemon
  <2>1. CASE Mini!Start \/ Mini!VerifyServing \/ Mini!NobodyServes
    BY <2>1 DEF Mini!Start, Mini!VerifyServing, Mini!NobodyServes
  <2>2. CASE Mini!StopRunningMinid
    BY <1>3, <2>2 DEF Mini!StopRunningMinid
  <2>3. CASE Mini!CopyScript \/ Mini!RemoveEngine \/ Mini!WritePlist
    BY <2>3 DEF Mini!CopyScript, Mini!RemoveEngine, Mini!WritePlist, MiniInv
  <2>4. CASE Mini!CopyEngine
    BY <2>4 DEF Mini!CopyEngine, MiniInv, MiniTypes, Mini!Place
  <2>5. CASE Mini!SweepLegacy
    BY <2>5 DEF Mini!SweepLegacy, MiniInv, MiniTypes, Mini!Place
  <2>6. CASE Mini!LoadPlist
    BY <1>3, <2>6 DEF Mini!LoadPlist, Mini!Off, MiniInv
  <2> QED
    BY <2>1, <2>2, <2>3, <2>4, <2>5, <2>6 DEF Mini!Advance
<1> QED
  BY <1>1, <1>2, <1>4, JobEnds DEF MiniInv

\* Wherever a run of the set-up ends, nothing is left to show.
LEMMA SetupEnds ==
    ASSUME MiniInv, Mini!TooSlow \/ Mini!Update \/ Mini!Uninstall \/ Mini!Kill \/ Mini!Restart
    PROVE  MiniInv'
<1>1. Replaced'
  BY DEF Mini!TooSlow, Mini!Update, Mini!Uninstall, Mini!Kill, Mini!Restart, Mini!Goto, Replaced,
         Stopped
<1>2. CASE Mini!TooSlow \/ Mini!Uninstall \/ Mini!Kill
  <2>1. UNCHANGED <<version, token, engine>> /\ (minid' = minid \/ Mini!Set("job", Mini!Off))
    BY <1>2 DEF Mini!TooSlow, Mini!Uninstall, Mini!Kill, Mini!daemon
  <2> QED
    BY <1>1, <2>1, JobEnds DEF MiniInv, MiniTypes
<1>3. CASE Mini!Update
  BY <1>1, <1>3 DEF Mini!Update, Mini!daemon, MiniInv, MiniTypes, OneServes, Mini!Serves
<1>4. CASE Mini!Restart
  <2>1. Mini!Off \in Minid /\ Mini!Off.st # "serving" /\ "job" \in Mini!Proc
    BY DEF Mini!Off, Minid, Mini!Proc
  <2> QED
    BY <1>1, <1>4, <2>1 DEF Mini!Restart, Mini!daemon, MiniInv, MiniTypes, OneServes, Mini!Serves
<1> QED
  BY <1>2, <1>3, <1>4

LEMMA NextMiniInv == MiniInv /\ [Mini!Next]_(Mini!vars) => MiniInv'
<1> SUFFICES ASSUME MiniInv, [Mini!Next]_(Mini!vars) PROVE MiniInv'
  OBVIOUS
<1>1. CASE UNCHANGED Mini!vars \/ Mini!NetUp
  BY <1>1 DEF Mini!vars, Mini!NetUp, Mini!daemon, MiniInv, MiniTypes, OneServes, Replaced, Mini!Serves
<1> QED
  BY <1>1, MinidStep, MinidStarts, SetupStep, SetupEnds DEF Mini!Next

\* EngineInstalled: when the set-up says that the tier is ready, the job serves
\* with the engine it installed, after any number of versions and faults.
THEOREM EngineInstalled == Mini!Spec => FreshEngine
<1>1. ASSUME MiniInv, Mini!Next, setup = "verify", setup' = "ready", Mini!Serves("job")
      PROVE  minid["job"].engine = version
  <2>1. Mini!VerifyServing
    BY <1>1 DEF Mini!Next, Mini!Start, Mini!Advance, Mini!TooSlow, Mini!Update, Mini!Uninstall,
         Mini!KeepAlive, Mini!StartByHand, Mini!Minid, Mini!ReadToken, Mini!MakeToken, Mini!Bind,
         Mini!LoadEngine, Mini!Crash, Mini!Kill, Mini!Restart, Mini!NetUp, Mini!Goto,
         Mini!StopRunningMinid, Mini!CopyScript, Mini!RemoveEngine, Mini!CopyEngine,
         Mini!SweepLegacy, Mini!WritePlist, Mini!LoadPlist, Mini!NobodyServes
  <2>2. minid["job"].engine # None \/ Mini!Finds("job") = None
    BY <1>1, <2>1 DEF Mini!VerifyServing, MiniInv, OneServes, Mini!Proc
  <2>3. Mini!Finds("job") = version /\ version # None
    BY <1>1, MachineAssumption DEF Mini!Finds, MiniInv, MiniTypes, Replaced
  <2> QED
    BY <1>1, <2>2, <2>3 DEF MiniInv, Replaced
<1>2. MiniInv /\ [Mini!Next]_(Mini!vars) =>
        [setup = "verify" /\ setup' = "ready" /\ Mini!Serves("job")
         => minid["job"].engine = version]_(Mini!vars)
  BY <1>1
<1> QED
  BY <1>2, InitMiniInv, NextMiniInv, PTL DEF Mini!Spec, FreshEngine, Mini!FreshEngine

-----------------------------------------------------------------------------
(***************************************************************************)
(* The file of the shadow store (SealedStore)                              *)
(***************************************************************************)

Op == {o \in [pc : {"idle", "decrypt", "write", "open", "sql", "drop", "seal", "tmp",
                    "envelope", "replace"},
              kind : {None, "list", "get", "put", "mark"}, row : Row \cup {None},
              fd : File!Inode \cup {None}, bytes : {Zero} \cup SUBSET Row, ok : BOOLEAN] :
          /\ o.kind = "put" => o.row \in Row
          /\ o.pc = "idle" => o = File!Idle}
StoreTypes ==
    /\ at \in [File!Path -> File!Inode \cup {None}]
    /\ disk \in [File!Inode -> {Zero} \cup SUBSET Row]
    /\ op \in [File!Proc -> Op]
    /\ todo \subseteq Row

\* A working copy is there only under an operation, or left by one.
Clear == at["db"] # None => left \/ \E p \in File!Proc : op[p].pc # "idle"

\* Without trouble operations come one after the other and the paths lead to
\* files of their own.
Alone(p) == \A q \in File!Proc : q # p => op[q].pc = "idle"
Sequential == \A p \in File!Proc : op[p].pc # "idle" => Alone(p)
OwnFiles == \A x, y \in File!Path : x # y /\ at[x] # None => at[x] # at[y]

\* A file whose rows are at least S.
Has(path, S) == at[path] # None /\ disk[at[path]] # Zero /\ S \subseteq disk[at[path]]
Saved == (put = {} /\ at["enc"] = None) \/ Has("enc", put)

\* The row that the operation of p has put, and what follows from how far it is.
Done(p) == IF op[p].ok /\ op[p].kind = "put" THEN {op[p].row} ELSE {}
Working(p) ==
    /\ op[p].pc \in {"decrypt", "write"} =>
          at["enc"] # None /\ op[p].bytes = disk[at["enc"]]
    /\ op[p].pc \in {"write", "sql", "seal"} => op[p].fd = at["db"] /\ at["db"] # None
    /\ op[p].pc = "open" /\ at["enc"] # None => Has("db", put)
    /\ op[p].pc \in {"decrypt", "write", "open", "sql"} => op[p].ok = FALSE
    /\ op[p].pc \in {"sql", "seal"} => Has("db", put \cup Done(p))
    /\ op[p].pc \in {"tmp", "envelope"} => op[p].bytes # Zero /\ put \cup Done(p) \subseteq op[p].bytes
    /\ op[p].pc = "envelope" => op[p].fd = at["tmp"] /\ at["tmp"] # None
    /\ op[p].pc = "replace" => Has("tmp", put \cup Done(p))
    /\ op[p].pc = "drop" /\ Done(p) # {} => Has("enc", Done(p))

Kept == Sequential /\ OwnFiles /\ Saved /\ \A p \in File!Proc : Working(p)
StoreInv == StoreTypes /\ Clear /\ (trouble = {} => Kept)

\* FiniteSets as SealedStore sees it.
LEMMA SameCardinality == \A S : File!Cardinality(S) = Cardinality(S)
BY DEF File!Cardinality, Cardinality

LEMMA Counts ==
    /\ IsFiniteSet(File!Path) /\ Cardinality(File!Path) \in Nat
    /\ IsFiniteSet(File!Proc) /\ Cardinality(File!Proc) \in Nat
    /\ IsFiniteSet(File!Inode)
    /\ Cardinality(File!Inode) = Cardinality(File!Proc) + Cardinality(File!Path) + 1
<1>1. IsFiniteSet({"db"}) /\ IsFiniteSet({"enc"}) /\ IsFiniteSet({"tmp"})
  BY FS_Singleton
<1>2. IsFiniteSet(File!Path)
  <2>1. File!Path = ({"db"} \cup {"enc"}) \cup {"tmp"}
    BY DEF File!Path
  <2> QED
    BY <1>1, <2>1, FS_Union
<1>3. IsFiniteSet(File!Proc)
  BY MachineAssumption, FS_Singleton, FS_Union DEF File!Proc
<1>4. Cardinality(File!Path) \in Nat /\ Cardinality(File!Proc) \in Nat
  BY <1>2, <1>3, FS_CardinalityType
<1> DEFINE n == Cardinality(File!Proc) + Cardinality(File!Path) + 1
<1>5. File!Inode = 1..n
  BY SameCardinality DEF File!Inode
<1>6. n \in Int /\ n >= 1
  BY <1>4
<1> HIDE DEF n
<1>7. IsFiniteSet(File!Inode) /\ Cardinality(File!Inode) = n
  BY <1>5, <1>6, FS_Interval
<1> QED
  BY <1>2, <1>3, <1>4, <1>7 DEF n

LEMMA IdleOp == File!Idle \in Op /\ File!Idle.pc = "idle"
BY MachineAssumption DEF File!Idle, Op

LEMMA InitStoreInv == File!Init => StoreInv
<1> SUFFICES ASSUME File!Init PROVE StoreInv
  OBVIOUS
<1>1. File!Idle \in Op /\ File!Idle.pc = "idle"
  BY IdleOp
<1>2. 1 \in File!Inode
  BY Counts, SameCardinality DEF File!Inode
<1>3. StoreTypes
  <2>1. PICK rows \in {{}, Row} :
           /\ at = [path \in File!Path |-> IF path = "db" /\ rows # {} THEN 1 ELSE None]
           /\ disk = [i \in File!Inode |-> IF i = 1 THEN rows ELSE {}]
    BY DEF File!Init
  <2>2. at \in [File!Path -> File!Inode \cup {None}]
    BY <1>2, <2>1
  <2>3. disk \in [File!Inode -> {Zero} \cup SUBSET Row]
    BY <2>1
  <2>4. op \in [File!Proc -> Op] /\ todo \subseteq Row
    BY <1>1 DEF File!Init
  <2> QED
    BY <2>2, <2>3, <2>4 DEF StoreTypes
<1>4. Clear
  BY DEF File!Init, Clear, File!Path
<1>5. trouble = {} => Kept
  BY <1>1 DEF File!Init, Kept, Sequential, Alone, OwnFiles, Saved, Working, File!Path
<1> QED
  BY <1>3, <1>4, <1>5 DEF StoreInv

\* There is always an inode that no path and no process has.
LEMMA FreshInode ==
    ASSUME StoreTypes
    PROVE  /\ File!Fresh \in File!Inode
           /\ \A path \in File!Path : at[path] # File!Fresh
           /\ \A p \in File!Proc : op[p].fd # File!Fresh
<1> DEFINE Paths == {at[path] : path \in File!Path}
           Opened == {op[p].fd : p \in File!Proc}
<1>1. IsFiniteSet(Paths) /\ Cardinality(Paths) <= Cardinality(File!Path)
  <2>1. [path \in File!Path |-> at[path]] \in Surjection(File!Path, Paths)
    BY DEF Surjection
  <2> QED
    BY <2>1, Counts, FS_Surjection
<1>2. IsFiniteSet(Opened) /\ Cardinality(Opened) <= Cardinality(File!Proc)
  <2>1. [p \in File!Proc |-> op[p].fd] \in Surjection(File!Proc, Opened)
    BY DEF Surjection
  <2> QED
    BY <2>1, Counts, FS_Surjection
<1> HIDE DEF Paths, Opened
<1>3. /\ IsFiniteSet(Paths \cup Opened)
      /\ Cardinality(Paths \cup Opened) <= Cardinality(Paths) + Cardinality(Opened)
  <2>1. IsFiniteSet(Paths \cap Opened)
    BY <1>1, FS_Subset
  <2>2. /\ Cardinality(Paths) \in Nat /\ Cardinality(Opened) \in Nat
        /\ Cardinality(Paths \cap Opened) \in Nat
    BY <1>1, <1>2, <2>1, FS_CardinalityType
  <2> QED
    BY <1>1, <1>2, <2>2, FS_Union
<1>4. \E i \in File!Inode : i \notin Paths \cup Opened
  <2> SUFFICES ASSUME File!Inode \subseteq Paths \cup Opened PROVE FALSE
    OBVIOUS
  <2>1. Cardinality(File!Inode) <= Cardinality(Paths \cup Opened)
    BY <1>3, FS_Subset
  <2>2. Cardinality(Paths \cup Opened) \in Nat /\ Cardinality(Paths) \in Nat /\ Cardinality(Opened) \in Nat
    BY <1>1, <1>2, <1>3, FS_CardinalityType
  <2> QED
    BY <1>1, <1>2, <1>3, <2>1, <2>2, Counts
<1>5. \E i \in File!Inode :
         /\ \A path \in File!Path : at[path] # i
         /\ \A p \in File!Proc : op[p].fd # i
  BY <1>4 DEF Paths, Opened
<1> QED
  BY <1>5 DEF File!Fresh

\* The operation of p goes on to s.
LEMMA StoreGoesOn ==
    ASSUME StoreInv, NEW p \in File!Proc, NEW s \in Op, op' = [op EXCEPT ![p] = s],
           at' \in [File!Path -> File!Inode \cup {None}],
           disk' \in [File!Inode -> {Zero} \cup SUBSET Row], todo' \subseteq Row,
           s.pc # "idle" \/ at'["db"] = None \/ left',
           trouble \subseteq trouble',
           trouble' = {} => Alone(p) /\ (OwnFiles /\ Saved /\ Working(p))'
    PROVE  StoreInv'
<1>1. op' \in [File!Proc -> Op] /\ op'[p] = s /\ \A q \in File!Proc : q # p => op'[q] = op[q]
  BY DEF StoreInv, StoreTypes
<1>2. StoreTypes'
  BY <1>1 DEF StoreTypes
<1>3. Clear'
  BY <1>1 DEF Clear
<1>4. ASSUME trouble' = {} PROVE Kept'
  <2>1. \A q \in File!Proc : q # p => op'[q].pc = "idle"
    BY <1>1, <1>4 DEF Alone
  <2>2. Sequential'
    BY <1>1, <2>1 DEF Sequential, Alone
  <2>3. \A q \in File!Proc : Working(q)'
    BY <1>4, <2>1 DEF Working
  <2> QED
    BY <1>4, <2>2, <2>3 DEF Kept
<1> QED
  BY <1>2, <1>3, <1>4 DEF StoreInv

\* An operation that is under way when there was no trouble is the only one.
LEMMA IsAlone ==
    ASSUME StoreInv, NEW p \in File!Proc, op[p].pc # "idle", trouble = {}
    PROVE  Alone(p) /\ OwnFiles /\ Saved /\ Working(p)
BY DEF StoreInv, Kept, Sequential

\* open(path), empty or not: the other paths lead where they led.
LEMMA OpenPath ==
    ASSUME StoreInv, NEW path \in File!Path, File!Create(path),
           NEW c \in {Zero} \cup SUBSET Row, disk' = [disk EXCEPT ![File!Opened(path)] = c]
    PROVE  /\ at' \in [File!Path -> File!Inode \cup {None}]
           /\ disk' \in [File!Inode -> {Zero} \cup SUBSET Row]
           /\ at'[path] = File!Opened(path) /\ at'[path] \in File!Inode
           /\ disk'[at'[path]] = c
           /\ \A q \in File!Path : q # path => at'[q] = at[q]
           /\ OwnFiles =>
                 /\ OwnFiles'
                 /\ \A q \in File!Path : q # path /\ at[q] # None => disk'[at[q]] = disk[at[q]]
<1>1. File!Opened(path) \in File!Inode
  BY FreshInode DEF File!Opened, StoreInv, StoreTypes
<1>2. /\ at' \in [File!Path -> File!Inode \cup {None}]
      /\ disk' \in [File!Inode -> {Zero} \cup SUBSET Row]
      /\ at'[path] = File!Opened(path) /\ disk'[at'[path]] = c
      /\ \A q \in File!Path : q # path => at'[q] = at[q]
  BY <1>1 DEF File!Create, StoreInv, StoreTypes
<1>3. ASSUME OwnFiles, NEW q \in File!Path, q # path, at[q] # None
      PROVE  at[q] # File!Opened(path) /\ disk'[at[q]] = disk[at[q]]
  <2>1. at[q] # File!Opened(path)
    BY <1>3, FreshInode DEF File!Opened, OwnFiles, StoreInv
  <2>2. at[q] \in File!Inode
    BY <1>3 DEF StoreInv, StoreTypes
  <2> QED
    BY <2>1, <2>2 DEF StoreInv, StoreTypes
<1>4. OwnFiles => OwnFiles'
  BY <1>2, <1>3 DEF OwnFiles
<1> QED
  BY <1>1, <1>2, <1>3, <1>4

LEMMA ConnectStep ==
    ASSUME StoreInv, NEW p \in File!Proc, NEW kind \in {"list", "get", "put", "mark"},
           NEW row \in Row \cup {None}, kind = "put" => row \in Row, todo' \subseteq Row,
           File!Connect(p, kind, row) \/ File!ConnectPlain(p, kind, row)
    PROVE  StoreInv'
<1>1. UNCHANGED <<at, disk, put>> /\ op[p] = File!Idle
  BY DEF File!Connect, File!ConnectPlain, File!files
<1>2. CASE File!Connect(p, kind, row)
  <2>1. PICK s \in Op :
           /\ op' = [op EXCEPT ![p] = s]
           /\ s.pc = IF at["enc"] # None THEN "decrypt" ELSE "open"
           /\ s.bytes = IF at["enc"] # None THEN disk[at["enc"]] ELSE Zero
           /\ s.ok = FALSE
    <3> DEFINE s == [File!Idle EXCEPT !.kind = kind, !.row = row,
                              !.pc = IF at["enc"] # None THEN "decrypt" ELSE "open",
                              !.bytes = IF at["enc"] # None THEN disk[at["enc"]] ELSE Zero]
    <3>1. at["enc"] # None => disk[at["enc"]] \in {Zero} \cup SUBSET Row
      BY DEF StoreInv, StoreTypes, File!Path
    <3>2. /\ s \in Op /\ s.ok = FALSE
          /\ s.pc = IF at["enc"] # None THEN "decrypt" ELSE "open"
          /\ s.bytes = IF at["enc"] # None THEN disk[at["enc"]] ELSE Zero
      BY <3>1 DEF File!Idle, Op
    <3>3. op' = [op EXCEPT ![p] = s]
      BY <1>2 DEF File!Connect
    <3> HIDE DEF s
    <3> QED
      BY <3>2, <3>3
  <2>2. trouble' = trouble \cup File!Overlap(p)
    BY <1>2 DEF File!Connect
  <2>3. ASSUME trouble' = {} PROVE Alone(p) /\ (OwnFiles /\ Saved /\ Working(p))'
    <3>1. Alone(p)
      BY <2>2, <2>3, IdleOp DEF File!Overlap, Alone
    <3>2. OwnFiles' /\ Saved'
      BY <1>1, <2>2, <2>3 DEF StoreInv, Kept, OwnFiles, Saved, Has
    <3>3. op'[p] = s
      BY <2>1 DEF StoreInv, StoreTypes
    <3>4. Working(p)'
      BY <1>1, <2>1, <3>3 DEF Working
    <3> QED
      BY <3>1, <3>2, <3>4
  <2> QED
    BY <1>1, <2>1, <2>2, <2>3, StoreGoesOn DEF StoreInv, StoreTypes
<1>3. CASE File!ConnectPlain(p, kind, row)
  <2>1. PICK s \in Op : op' = [op EXCEPT ![p] = s] /\ s.pc = "open"
    <3>1. [File!Idle EXCEPT !.kind = kind, !.row = row, !.pc = "open"] \in Op
      BY DEF File!Idle, Op
    <3> QED
      BY <1>3, <3>1 DEF File!ConnectPlain, File!Idle
  <2>2. trouble' # {} /\ trouble \subseteq trouble'
    BY <1>3 DEF File!ConnectPlain, File!NoKey
  <2> QED
    BY <1>1, <2>1, <2>2, StoreGoesOn DEF StoreInv, StoreTypes
<1> QED
  BY <1>2, <1>3

LEMMA DecryptStep ==
    ASSUME StoreInv, NEW p \in File!Proc, File!DecryptToWorkingCopy(p) PROVE StoreInv'
<1>1. /\ op[p] \in Op /\ op[p].pc = "decrypt" /\ "db" \in File!Path /\ "enc" \in File!Path
      /\ UNCHANGED <<put, trouble, todo, left>>
  BY DEF File!DecryptToWorkingCopy, File!At, File!books, StoreInv, StoreTypes, File!Path
<1>2. /\ File!Create("db") /\ disk' = [disk EXCEPT ![File!Opened("db")] = Zero]
      /\ op' = [op EXCEPT ![p] = [op[p] EXCEPT !.pc = "write", !.fd = File!Opened("db")]]
  BY DEF File!DecryptToWorkingCopy
<1>3. /\ at' \in [File!Path -> File!Inode \cup {None}]
      /\ disk' \in [File!Inode -> {Zero} \cup SUBSET Row]
      /\ at'["db"] = File!Opened("db") /\ at'["db"] \in File!Inode /\ at'["enc"] = at["enc"]
      /\ OwnFiles => OwnFiles' /\ (at["enc"] # None => disk'[at["enc"]] = disk[at["enc"]])
  BY <1>1, <1>2, OpenPath
<1>4. PICK s \in Op :
         /\ op' = [op EXCEPT ![p] = s]
         /\ s.pc = "write" /\ s.fd = at'["db"] /\ s.bytes = op[p].bytes /\ s.ok = op[p].ok
  <2>1. [op[p] EXCEPT !.pc = "write", !.fd = File!Opened("db")] \in Op
    BY <1>1, <1>3 DEF Op
  <2> QED
    BY <1>1, <1>2, <1>3, <2>1 DEF Op
<1>5. at'["db"] # None
  BY <1>3, MachineAssumption DEF File!Inode
<1>6. ASSUME trouble' = {} PROVE Alone(p) /\ (OwnFiles /\ Saved /\ Working(p))'
  <2>1. Alone(p) /\ OwnFiles /\ Saved /\ Working(p)
    BY <1>1, <1>6, IsAlone
  <2>2. OwnFiles' /\ Saved'
    BY <1>1, <1>3, <2>1 DEF Saved, Has
  <2>3. op'[p] = s
    BY <1>4 DEF StoreInv, StoreTypes
  <2>4. Working(p)'
    BY <1>1, <1>3, <1>4, <1>5, <2>1, <2>3 DEF Working
  <2> QED
    BY <2>1, <2>2, <2>4
<1> QED
  BY <1>1, <1>3, <1>4, <1>6, StoreGoesOn DEF StoreInv, StoreTypes

Writes(i, c) == disk' = [disk EXCEPT ![i] = c]

\* What is open is an inode: a process writes the file that it has open.
LEMMA WriteOpen ==
    ASSUME StoreInv, NEW p \in File!Proc, NEW path \in File!Path, NEW c \in {Zero} \cup SUBSET Row,
           at' = at, Writes(op[p].fd, c)
    PROVE  /\ disk' \in [File!Inode -> {Zero} \cup SUBSET Row]
           /\ OwnFiles /\ op[p].fd = at[path] /\ at[path] # None =>
                 /\ OwnFiles' /\ disk'[at[path]] = c
                 /\ \A q \in File!Path : q # path /\ at[q] # None => disk'[at[q]] = disk[at[q]]
BY DEF StoreInv, StoreTypes, OwnFiles, Writes

LEMMA WriteWorkingStep ==
    ASSUME StoreInv, NEW p \in File!Proc, File!WriteWorkingCopy(p) PROVE StoreInv'
<1>1. /\ op[p] \in Op /\ op[p].pc = "write" /\ "db" \in File!Path /\ "enc" \in File!Path
      /\ UNCHANGED <<at, put, trouble, todo, left>>
      /\ disk' = [disk EXCEPT ![op[p].fd] = op[p].bytes]
      /\ op' = [op EXCEPT ![p] = [op[p] EXCEPT !.pc = "open"]]
  BY DEF File!WriteWorkingCopy, File!Goto, File!At, File!books, StoreInv, StoreTypes, File!Path
<1>2. PICK s \in Op : op' = [op EXCEPT ![p] = s] /\ s.pc = "open" /\ s.ok = op[p].ok
  <2>1. [op[p] EXCEPT !.pc = "open"] \in Op
    BY <1>1 DEF Op
  <2> QED
    BY <1>1, <2>1 DEF Op
<1>3. op[p].bytes \in {Zero} \cup SUBSET Row
  BY <1>1 DEF Op
<1>4. /\ disk' \in [File!Inode -> {Zero} \cup SUBSET Row]
      /\ OwnFiles /\ op[p].fd = at["db"] /\ at["db"] # None =>
            /\ OwnFiles' /\ disk'[at["db"]] = op[p].bytes
            /\ at["enc"] # None => disk'[at["enc"]] = disk[at["enc"]]
  <2>1. at' = at /\ Writes(op[p].fd, op[p].bytes)
    BY <1>1 DEF Writes
  <2>2. "db" \in File!Path /\ "enc" \in File!Path /\ "enc" # "db"
    BY <1>1
  <2> QED
    BY <1>3, <2>1, <2>2, WriteOpen
<1>5. ASSUME trouble' = {} PROVE Alone(p) /\ (OwnFiles /\ Saved /\ Working(p))'
  <2>1. Alone(p) /\ OwnFiles /\ Saved /\ Working(p)
    BY <1>1, <1>5, IsAlone
  <2>2. /\ at["enc"] # None /\ op[p].bytes = disk[at["enc"]] /\ op[p].fd = at["db"] /\ at["db"] # None
        /\ op[p].ok = FALSE
    BY <1>1, <2>1 DEF Working
  <2>3. OwnFiles' /\ disk'[at["db"]] = op[p].bytes /\ disk'[at["enc"]] = disk[at["enc"]]
    BY <1>4, <2>1, <2>2
  <2>4. Saved' /\ Has("db", put)'
    BY <1>1, <2>1, <2>2, <2>3 DEF Saved, Has
  <2>5. op'[p] = s
    BY <1>2 DEF StoreInv, StoreTypes
  <2>6. Working(p)'
    BY <1>2, <2>2, <2>4, <2>5 DEF Working
  <2> QED
    BY <2>1, <2>3, <2>4, <2>6
<1> QED
  BY <1>1, <1>2, <1>4, <1>5, StoreGoesOn DEF StoreInv, StoreTypes

LEMMA RowsOf == \A c \in {Zero} \cup SUBSET Row : File!Rows(c) \in SUBSET Row /\ File!Rows(c) # Zero
BY MachineAssumption DEF File!Rows

LEMMA OpenDbStep == ASSUME StoreInv, NEW p \in File!Proc, File!OpenDb(p) PROVE StoreInv'
<1> DEFINE c == IF at["db"] = None THEN {} ELSE File!Rows(disk[at["db"]])
<1>1. /\ op[p] \in Op /\ op[p].pc = "open" /\ "db" \in File!Path /\ "enc" \in File!Path
      /\ UNCHANGED <<put, trouble, todo, left>>
  BY DEF File!OpenDb, File!At, File!books, StoreInv, StoreTypes, File!Path
<1>2. c \in SUBSET Row /\ c # Zero
  BY <1>1, RowsOf, MachineAssumption DEF StoreInv, StoreTypes
<1>3. /\ File!Create("db") /\ disk' = [disk EXCEPT ![File!Opened("db")] = c]
      /\ op' = [op EXCEPT ![p] = [op[p] EXCEPT !.pc = "sql", !.fd = File!Opened("db")]]
  BY <1>1, FreshInode DEF File!OpenDb, File!Opened, StoreInv, StoreTypes
<1>6. at["db"] # None /\ disk[at["db"]] # Zero => c = disk[at["db"]]
  BY DEF File!Rows
<1> HIDE DEF c
<1>4. /\ at' \in [File!Path -> File!Inode \cup {None}]
      /\ disk' \in [File!Inode -> {Zero} \cup SUBSET Row]
      /\ at'["db"] = File!Opened("db") /\ at'["db"] \in File!Inode /\ at'["enc"] = at["enc"]
      /\ disk'[at'["db"]] = c
      /\ OwnFiles => OwnFiles' /\ (at["enc"] # None => disk'[at["enc"]] = disk[at["enc"]])
  BY <1>1, <1>2, <1>3, OpenPath
<1>5. PICK s \in Op : op' = [op EXCEPT ![p] = s] /\ s.pc = "sql" /\ s.fd = at'["db"] /\ s.ok = op[p].ok
  <2>1. [op[p] EXCEPT !.pc = "sql", !.fd = File!Opened("db")] \in Op
    BY <1>1, <1>4 DEF Op
  <2> QED
    BY <1>1, <1>3, <1>4, <2>1 DEF Op
<1>7. at'["db"] # None
  BY <1>4, MachineAssumption DEF File!Inode
<1>8. ASSUME trouble' = {} PROVE Alone(p) /\ (OwnFiles /\ Saved /\ Working(p))'
  <2>1. Alone(p) /\ OwnFiles /\ Saved /\ Working(p)
    BY <1>1, <1>8, IsAlone
  <2>2. op[p].ok = FALSE /\ (at["enc"] # None => Has("db", put))
    BY <1>1, <2>1 DEF Working
  <2>3. OwnFiles' /\ Saved'
    BY <1>1, <1>4, <2>1 DEF Saved, Has
  <2>4. op'[p] = s
    BY <1>5 DEF StoreInv, StoreTypes
  <2>5. put \subseteq c
    BY <1>6, <2>1, <2>2 DEF Saved, Has
  <2>6. Has("db", put \cup Done(p))'
    BY <1>1, <1>2, <1>4, <1>5, <1>7, <2>2, <2>4, <2>5 DEF Has, Done
  <2>7. Working(p)'
    BY <1>5, <1>7, <2>2, <2>4, <2>6 DEF Working
  <2> QED
    BY <2>1, <2>3, <2>7
<1> QED
  BY <1>1, <1>4, <1>5, <1>8, StoreGoesOn DEF StoreInv, StoreTypes

LEMMA ReadStep == ASSUME StoreInv, NEW p \in File!Proc, File!Read(p) PROVE StoreInv'
<1>1. /\ op[p] \in Op /\ op[p].pc = "sql" /\ op[p].kind # "put"
      /\ UNCHANGED <<at, disk, put, trouble, left>>
      /\ op' = [op EXCEPT ![p] = [op[p] EXCEPT !.pc = "drop"]]
  BY DEF File!Read, File!Goto, File!At, File!files, File!Writer, StoreInv, StoreTypes
<1>2. PICK s \in Op : op' = [op EXCEPT ![p] = s] /\ s.pc = "drop" /\ s.kind = op[p].kind
  <2>1. [op[p] EXCEPT !.pc = "drop"] \in Op
    BY <1>1 DEF Op
  <2> QED
    BY <1>1, <2>1 DEF Op
<1>3. todo' \subseteq Row
  BY DEF File!Read, StoreInv, StoreTypes
<1>4. ASSUME trouble' = {} PROVE Alone(p) /\ (OwnFiles /\ Saved /\ Working(p))'
  <2>1. Alone(p) /\ OwnFiles /\ Saved
    BY <1>1, <1>4, IsAlone
  <2>2. OwnFiles' /\ Saved'
    BY <1>1, <2>1 DEF OwnFiles, Saved, Has
  <2>3. op'[p] = s
    BY <1>2 DEF StoreInv, StoreTypes
  <2>4. Working(p)'
    BY <1>1, <1>2, <2>3 DEF Working, Done
  <2> QED
    BY <2>1, <2>2, <2>4
<1> QED
  BY <1>1, <1>2, <1>3, <1>4, StoreGoesOn DEF StoreInv, StoreTypes

LEMMA WriteStep == ASSUME StoreInv, NEW p \in File!Proc, File!Write(p) PROVE StoreInv'
<1>1. /\ op[p] \in Op /\ op[p].pc = "sql" /\ "db" \in File!Path /\ "enc" \in File!Path
      /\ "enc" # "db" /\ UNCHANGED <<at, put, trouble, todo, left>>
  BY DEF File!Write, File!At, File!books, StoreInv, StoreTypes, File!Path
<1>2. CASE /\ disk' = [disk EXCEPT ![op[p].fd] =
                         IF op[p].kind = "put" THEN File!Rows(@) \cup {op[p].row} ELSE @]
           /\ op' = [op EXCEPT ![p].pc = "seal", ![p].ok = TRUE]
  <2> DEFINE c == IF op[p].kind = "put" THEN File!Rows(disk[op[p].fd]) \cup {op[p].row}
                  ELSE disk[op[p].fd]
  <2>1. PICK s \in Op : /\ op' = [op EXCEPT ![p] = s] /\ s.pc = "seal" /\ s.ok = TRUE
                        /\ s.fd = op[p].fd /\ s.kind = op[p].kind /\ s.row = op[p].row
    <3>1. [op[p] EXCEPT !.pc = "seal", !.ok = TRUE] \in Op
      BY <1>1 DEF Op
    <3>2. op' = [op EXCEPT ![p] = [op[p] EXCEPT !.pc = "seal", !.ok = TRUE]]
      BY <1>2
    <3> QED
      BY <1>1, <3>1, <3>2 DEF Op
  <2>2. Writes(op[p].fd, c)
    BY <1>2 DEF Writes
  <2>3. /\ disk[op[p].fd] \in {Zero} \cup SUBSET Row => c \in {Zero} \cup SUBSET Row
        /\ disk[op[p].fd] \in SUBSET Row /\ disk[op[p].fd] # Zero =>
              c \in SUBSET Row /\ disk[op[p].fd] \subseteq c
        /\ op[p].kind = "put" => op[p].row \in c
    <3>1. op[p].kind = "put" => op[p].row \in Row
      BY <1>1 DEF Op
    <3> QED
      BY <3>1, RowsOf DEF File!Rows
  <2>4. disk' \in [File!Inode -> {Zero} \cup SUBSET Row]
    <3>1. CASE op[p].fd \notin File!Inode
      BY <2>2, <3>1 DEF Writes, StoreInv, StoreTypes
    <3>2. CASE op[p].fd \in File!Inode
      <4>1. c \in {Zero} \cup SUBSET Row
        BY <2>3, <3>2 DEF StoreInv, StoreTypes
      <4> HIDE DEF c
      <4> QED
        BY <2>2, <4>1 DEF Writes, StoreInv, StoreTypes
    <3> QED
      BY <3>1, <3>2
  <2>5. ASSUME trouble' = {} PROVE Alone(p) /\ (OwnFiles /\ Saved /\ Working(p))'
    <3>1. Alone(p) /\ OwnFiles /\ Saved /\ Working(p)
      BY <1>1, <2>5, IsAlone
    <3>2. /\ op[p].fd = at["db"] /\ at["db"] # None /\ op[p].ok = FALSE
          /\ disk[at["db"]] # Zero /\ put \subseteq disk[at["db"]]
      BY <1>1, <3>1 DEF Working, Has
    <3>3. op'[p] = s
      BY <2>1 DEF StoreInv, StoreTypes
    <3>4. c \in SUBSET Row /\ put \cup Done(p)' \subseteq c
      <4>1. disk[at["db"]] \in SUBSET Row
        BY <1>1, <3>2 DEF StoreInv, StoreTypes
      <4>2. c \in SUBSET Row /\ put \subseteq c
        BY <2>3, <3>2, <4>1
      <4> HIDE DEF c
      <4> QED
        BY <2>1, <2>3, <3>3, <4>2 DEF Done
    <3>5. c \in {Zero} \cup SUBSET Row /\ c # Zero
      BY <3>4, MachineAssumption
    <3> HIDE DEF c
    <3>6. /\ OwnFiles' /\ disk'[at["db"]] = c
          /\ at["enc"] # None => disk'[at["enc"]] = disk[at["enc"]]
      BY <1>1, <2>2, <3>1, <3>2, <3>5, WriteOpen
    <3>7. Saved' /\ Has("db", put \cup Done(p))'
      BY <1>1, <3>1, <3>2, <3>4, <3>5, <3>6 DEF Saved, Has
    <3>8. Working(p)'
      BY <1>1, <2>1, <3>2, <3>3, <3>7 DEF Working
    <3> QED
      BY <3>1, <3>6, <3>7, <3>8
  <2> QED
    BY <1>1, <2>1, <2>4, <2>5, StoreGoesOn DEF StoreInv, StoreTypes
<1>3. CASE File!Goto(p, "seal") /\ UNCHANGED disk
  <2>1. PICK s \in Op : /\ op' = [op EXCEPT ![p] = s] /\ s.pc = "seal" /\ s.ok = op[p].ok
                        /\ s.fd = op[p].fd /\ s.kind = op[p].kind /\ s.row = op[p].row
    <3>1. [op[p] EXCEPT !.pc = "seal"] \in Op
      BY <1>1 DEF Op
    <3>2. op' = [op EXCEPT ![p] = [op[p] EXCEPT !.pc = "seal"]]
      BY <1>3 DEF File!Goto
    <3> QED
      BY <1>1, <3>1, <3>2 DEF Op
  <2>2. ASSUME trouble' = {} PROVE Alone(p) /\ (OwnFiles /\ Saved /\ Working(p))'
    <3>1. Alone(p) /\ OwnFiles /\ Saved /\ Working(p)
      BY <1>1, <2>2, IsAlone
    <3>2. op'[p] = s
      BY <2>1 DEF StoreInv, StoreTypes
    <3>3. OwnFiles' /\ Saved' /\ Working(p)'
      BY <1>1, <1>3, <2>1, <3>1, <3>2 DEF OwnFiles, Saved, Has, Working, Done
    <3> QED
      BY <3>1, <3>3
  <2> QED
    BY <1>1, <1>3, <2>1, <2>2, StoreGoesOn DEF StoreInv, StoreTypes
<1> QED
  BY <1>2, <1>3 DEF File!Write

LEMMA DropStep == ASSUME StoreInv, NEW p \in File!Proc, File!Drop(p) PROVE StoreInv'
<1>1. /\ op[p].pc = "drop" /\ "db" \in File!Path /\ "enc" \in File!Path /\ "enc" # "db"
      /\ UNCHANGED <<disk, trouble, todo>> /\ put' = put \cup Done(p)
      /\ at' = [at EXCEPT !["db"] = None] /\ op' = [op EXCEPT ![p] = File!Idle]
  BY DEF File!Drop, File!Key, File!Return, File!At, File!Path, Done
<1>2. at' \in [File!Path -> File!Inode \cup {None}] /\ at'["db"] = None /\ at'["enc"] = at["enc"]
  BY <1>1 DEF StoreInv, StoreTypes
<1>3. ASSUME trouble' = {} PROVE Alone(p) /\ (OwnFiles /\ Saved /\ Working(p))'
  <2>1. Alone(p) /\ OwnFiles /\ Saved /\ Working(p)
    BY <1>1, <1>3, IsAlone
  <2>2. OwnFiles'
    BY <1>1, <2>1 DEF OwnFiles, StoreInv, StoreTypes
  <2>3. Done(p) = {} \/ Has("enc", Done(p))
    BY <1>1, <2>1 DEF Working
  <2>4. Saved'
    BY <1>1, <1>2, <2>1, <2>3 DEF Saved, Has
  <2>5. op'[p].pc = "idle"
    BY <1>1, IdleOp DEF StoreInv, StoreTypes
  <2>6. Working(p)'
    BY <2>5 DEF Working
  <2> QED
    BY <2>1, <2>2, <2>4, <2>6
<1> QED
  BY <1>1, <1>2, <1>3, IdleOp, StoreGoesOn DEF StoreInv, StoreTypes

\* Sealing a working copy that is there; without trouble it is.
LEMMA SealStep == ASSUME StoreInv, NEW p \in File!Proc, File!Seal(p) PROVE StoreInv'
<1>1. /\ op[p] \in Op /\ op[p].pc = "seal" /\ "db" \in File!Path
      /\ UNCHANGED <<at, disk, trouble, todo, left>>
  BY DEF File!Seal, File!Key, File!At, File!files, StoreInv, StoreTypes, File!Path
<1>2. trouble = {} => Alone(p) /\ OwnFiles /\ Saved /\ Working(p) /\ at["db"] # None
  BY <1>1, IsAlone DEF Working
<1>3. CASE at["db"] = None
  <2>1. op' = [op EXCEPT ![p] = File!Idle]
    BY <1>3 DEF File!Seal, File!Return
  <2> QED
    BY <1>1, <1>2, <1>3, <2>1, IdleOp, StoreGoesOn DEF StoreInv, StoreTypes
<1>4. CASE at["db"] # None
  <2>1. /\ op' = [op EXCEPT ![p] = [op[p] EXCEPT !.pc = "tmp", !.bytes = File!Holds("db")]]
        /\ put' = put
    BY <1>4 DEF File!Seal
  <2>2. disk[at["db"]] \in {Zero} \cup SUBSET Row
    BY <1>1, <1>4 DEF StoreInv, StoreTypes
  <2>3. File!Holds("db") \in SUBSET Row /\ File!Holds("db") # Zero
    BY <2>2, RowsOf DEF File!Holds
  <2>4. PICK s \in Op : /\ op' = [op EXCEPT ![p] = s] /\ s.pc = "tmp" /\ s.bytes = File!Holds("db")
                        /\ s.ok = op[p].ok /\ s.kind = op[p].kind /\ s.row = op[p].row
    <3>1. [op[p] EXCEPT !.pc = "tmp", !.bytes = File!Holds("db")] \in Op
      BY <1>1, <2>3 DEF Op
    <3> QED
      BY <1>1, <2>1, <3>1 DEF Op
  <2>5. ASSUME trouble' = {} PROVE Alone(p) /\ (OwnFiles /\ Saved /\ Working(p))'
    <3>1. Alone(p) /\ OwnFiles /\ Saved /\ Working(p)
      BY <1>1, <1>2, <2>5
    <3>2. OwnFiles' /\ Saved'
      BY <1>1, <2>1, <3>1 DEF OwnFiles, Saved, Has
    <3>3. op'[p] = s
      BY <2>4 DEF StoreInv, StoreTypes
    <3>4. put \cup Done(p) \subseteq File!Holds("db")
      BY <1>1, <3>1 DEF Working, Has, File!Holds, File!Rows
    <3>5. Done(p)' = Done(p)
      BY <2>4, <3>3 DEF Done
    <3>6. Working(p)'
      BY <2>1, <2>3, <2>4, <3>3, <3>4, <3>5 DEF Working
    <3> QED
      BY <3>1, <3>2, <3>6
  <2> QED
    BY <1>1, <2>4, <2>5, StoreGoesOn DEF StoreInv, StoreTypes
<1> QED
  BY <1>3, <1>4

LEMMA OpenTmpStep == ASSUME StoreInv, NEW p \in File!Proc, File!OpenTmp(p) PROVE StoreInv'
<1>1. /\ op[p] \in Op /\ op[p].pc = "tmp" /\ "tmp" \in File!Path /\ "enc" \in File!Path
      /\ "enc" # "tmp" /\ UNCHANGED <<put, trouble, todo, left>>
  BY DEF File!OpenTmp, File!At, File!books, StoreInv, StoreTypes, File!Path
<1>2. /\ File!Create("tmp") /\ disk' = [disk EXCEPT ![File!Opened("tmp")] = Zero]
      /\ op' = [op EXCEPT ![p] = [op[p] EXCEPT !.pc = "envelope", !.fd = File!Opened("tmp")]]
  BY DEF File!OpenTmp
<1>3. /\ at' \in [File!Path -> File!Inode \cup {None}]
      /\ disk' \in [File!Inode -> {Zero} \cup SUBSET Row]
      /\ at'["tmp"] = File!Opened("tmp") /\ at'["tmp"] \in File!Inode /\ at'["enc"] = at["enc"]
      /\ OwnFiles => OwnFiles' /\ (at["enc"] # None => disk'[at["enc"]] = disk[at["enc"]])
  BY <1>1, <1>2, OpenPath
<1>4. PICK s \in Op : /\ op' = [op EXCEPT ![p] = s] /\ s.pc = "envelope" /\ s.fd = at'["tmp"]
                      /\ s.bytes = op[p].bytes
                      /\ s.ok = op[p].ok /\ s.kind = op[p].kind /\ s.row = op[p].row
  <2>1. [op[p] EXCEPT !.pc = "envelope", !.fd = File!Opened("tmp")] \in Op
    BY <1>1, <1>3 DEF Op
  <2> QED
    BY <1>1, <1>2, <1>3, <2>1 DEF Op
<1>5. at'["tmp"] # None
  BY <1>3, MachineAssumption DEF File!Inode
<1>6. ASSUME trouble' = {} PROVE Alone(p) /\ (OwnFiles /\ Saved /\ Working(p))'
  <2>1. Alone(p) /\ OwnFiles /\ Saved /\ Working(p)
    BY <1>1, <1>6, IsAlone
  <2>2. OwnFiles' /\ Saved'
    BY <1>1, <1>3, <2>1 DEF Saved, Has
  <2>3. op'[p] = s
    BY <1>4 DEF StoreInv, StoreTypes
  <2>4. Working(p)'
    BY <1>1, <1>4, <1>5, <2>1, <2>3 DEF Working, Done
  <2> QED
    BY <2>1, <2>2, <2>4
<1> QED
  BY <1>1, <1>3, <1>4, <1>6, StoreGoesOn DEF StoreInv, StoreTypes

LEMMA WriteTmpStep == ASSUME StoreInv, NEW p \in File!Proc, File!WriteTmp(p) PROVE StoreInv'
<1>1. /\ op[p] \in Op /\ op[p].pc = "envelope" /\ "tmp" \in File!Path /\ "enc" \in File!Path
      /\ "enc" # "tmp" /\ UNCHANGED <<at, put, trouble, todo, left>>
  BY DEF File!WriteTmp, File!At, File!books, StoreInv, StoreTypes, File!Path
<1>2. Writes(op[p].fd, op[p].bytes) /\ op[p].bytes \in {Zero} \cup SUBSET Row
  BY <1>1 DEF File!WriteTmp, Writes, Op
<1>3. PICK s \in Op : /\ op' = [op EXCEPT ![p] = s] /\ s.pc = "replace"
                      /\ s.ok = op[p].ok /\ s.kind = op[p].kind /\ s.row = op[p].row
  <2>1. [op[p] EXCEPT !.pc = "replace"] \in Op
    BY <1>1 DEF Op
  <2>2. op' = [op EXCEPT ![p] = [op[p] EXCEPT !.pc = "replace"]]
    BY DEF File!WriteTmp, File!Goto
  <2> QED
    BY <1>1, <2>1, <2>2 DEF Op
<1>4. disk' \in [File!Inode -> {Zero} \cup SUBSET Row]
  BY <1>1, <1>2, WriteOpen
<1>5. ASSUME trouble' = {} PROVE Alone(p) /\ (OwnFiles /\ Saved /\ Working(p))'
  <2>1. Alone(p) /\ OwnFiles /\ Saved /\ Working(p)
    BY <1>1, <1>5, IsAlone
  <2>2. /\ op[p].bytes # Zero /\ put \cup Done(p) \subseteq op[p].bytes
        /\ op[p].fd = at["tmp"] /\ at["tmp"] # None
    BY <1>1, <2>1 DEF Working
  <2>3. /\ OwnFiles' /\ disk'[at["tmp"]] = op[p].bytes
        /\ at["enc"] # None => disk'[at["enc"]] = disk[at["enc"]]
    BY <1>1, <1>2, <2>1, <2>2, WriteOpen
  <2>4. op'[p] = s
    BY <1>3 DEF StoreInv, StoreTypes
  <2>5. Saved' /\ Has("tmp", put \cup Done(p))'
    BY <1>1, <1>3, <2>1, <2>2, <2>3, <2>4 DEF Saved, Has, Done
  <2>6. Working(p)'
    BY <1>3, <2>4, <2>5 DEF Working
  <2> QED
    BY <2>1, <2>3, <2>5, <2>6
<1> QED
  BY <1>1, <1>3, <1>4, <1>5, StoreGoesOn DEF StoreInv, StoreTypes

\* The envelope takes the place of the one before, which it contains.
LEMMA ReplaceStep == ASSUME StoreInv, NEW p \in File!Proc, File!Replace(p) PROVE StoreInv'
<1>1. /\ op[p] \in Op /\ op[p].pc = "replace"
      /\ "tmp" \in File!Path /\ "enc" \in File!Path /\ "db" \in File!Path /\ "enc" # "tmp"
      /\ UNCHANGED <<disk, put, trouble, todo, left>>
  BY DEF File!Replace, File!At, File!books, StoreInv, StoreTypes, File!Path
<1>2. trouble = {} => Alone(p) /\ OwnFiles /\ Saved /\ Has("tmp", put \cup Done(p))
  BY <1>1, IsAlone DEF Working
<1>3. CASE at["tmp"] = None
  <2>1. PICK s \in Op : op' = [op EXCEPT ![p] = s] /\ s.pc = "drop"
    <3>1. [op[p] EXCEPT !.pc = "drop", !.ok = FALSE] \in Op
      BY <1>1 DEF Op
    <3>2. op' = [op EXCEPT ![p] = [op[p] EXCEPT !.pc = "drop", !.ok = FALSE]]
      BY <1>3 DEF File!Replace
    <3> QED
      BY <1>1, <3>1, <3>2 DEF Op
  <2>2. at' = at /\ trouble # {}
    BY <1>2, <1>3 DEF File!Replace, Has
  <2> QED
    BY <1>1, <2>1, <2>2, StoreGoesOn DEF StoreInv, StoreTypes
<1>4. CASE at["tmp"] # None
  <2>1. at' = [at EXCEPT !["enc"] = at["tmp"], !["tmp"] = None]
    BY <1>4 DEF File!Replace
  <2>2. /\ at' \in [File!Path -> File!Inode \cup {None}]
        /\ at'["enc"] = at["tmp"] /\ at'["tmp"] = None /\ at'["db"] = at["db"]
    BY <1>1, <2>1 DEF StoreInv, StoreTypes
  <2>3. PICK s \in Op : /\ op' = [op EXCEPT ![p] = s] /\ s.pc = "drop"
                        /\ s.ok = op[p].ok /\ s.kind = op[p].kind /\ s.row = op[p].row
    <3>1. [op[p] EXCEPT !.pc = "drop"] \in Op
      BY <1>1 DEF Op
    <3>2. op' = [op EXCEPT ![p] = [op[p] EXCEPT !.pc = "drop"]]
      BY <1>4 DEF File!Replace, File!Goto
    <3> QED
      BY <1>1, <3>1, <3>2 DEF Op
  <2>4. ASSUME trouble' = {} PROVE Alone(p) /\ (OwnFiles /\ Saved /\ Working(p))'
    <3>1. Alone(p) /\ OwnFiles /\ Has("tmp", put \cup Done(p))
      BY <1>1, <1>2, <2>4
    <3>2. OwnFiles'
      BY <2>2, <3>1 DEF OwnFiles, File!Path
    <3>3. op'[p] = s
      BY <2>3 DEF StoreInv, StoreTypes
    <3>4. Has("enc", put)' /\ Has("enc", Done(p))'
      BY <1>1, <2>2, <2>3, <3>1, <3>3 DEF Has, Done
    <3>5. Working(p)'
      BY <2>3, <3>3, <3>4 DEF Working
    <3> QED
      BY <3>1, <3>2, <3>4, <3>5 DEF Saved
  <2> QED
    BY <1>1, <2>2, <2>3, <2>4, StoreGoesOn DEF StoreInv, StoreTypes
<1> QED
  BY <1>3, <1>4

\* Operations that are cut short leave the envelope alone.
LEMMA FailsStep == ASSUME StoreInv, NEW p \in File!Proc, File!Fails(p) PROVE StoreInv'
<1>1. CASE File!ConnectFails(p) \/ File!Kill(p)
  <2>1. /\ UNCHANGED <<at, disk, put, trouble, todo>> /\ left' = (at["db"] # None)
        /\ op' = [op EXCEPT ![p] = File!Idle] /\ op[p] # File!Idle
    BY <1>1, IdleOp DEF File!ConnectFails, File!Kill, File!files, File!books
  <2>2. ASSUME trouble' = {} PROVE Alone(p) /\ (OwnFiles /\ Saved /\ Working(p))'
    <3>1. op[p].pc # "idle"
      BY <2>1 DEF StoreInv, StoreTypes, Op
    <3>2. Alone(p) /\ OwnFiles /\ Saved
      BY <2>1, <2>2, <3>1, IsAlone
    <3>3. OwnFiles' /\ Saved'
      BY <2>1, <3>2 DEF OwnFiles, Saved, Has
    <3>4. op'[p].pc = "idle"
      BY <2>1, IdleOp DEF StoreInv, StoreTypes
    <3>5. Working(p)'
      BY <3>4 DEF Working
    <3> QED
      BY <3>2, <3>3, <3>5
  <2> QED
    BY <2>1, <2>2, IdleOp, StoreGoesOn DEF StoreInv, StoreTypes
<1>2. CASE File!KeepWorkingCopy(p) \/ File!SealPlain(p)
  <2>1. /\ UNCHANGED <<at, disk, todo>> /\ left' = (at["db"] # None)
        /\ op' = [op EXCEPT ![p] = File!Idle]
        /\ trouble' = trouble \cup {"no passphrase"}
    BY <1>2 DEF File!KeepWorkingCopy, File!SealPlain, File!Return, File!NoKey, File!files
  <2> QED
    BY <2>1, IdleOp, StoreGoesOn DEF StoreInv, StoreTypes
<1>3. CASE File!SealFails(p)
  <2>1. /\ UNCHANGED <<at, disk, put, trouble, todo, left>>
        /\ op[p] \in Op /\ op[p].pc # "idle"
        /\ op' = [op EXCEPT ![p] = [op[p] EXCEPT !.pc = "drop", !.ok = FALSE]]
    BY <1>3 DEF File!SealFails, File!files, File!books, StoreInv, StoreTypes
  <2>2. PICK s \in Op : op' = [op EXCEPT ![p] = s] /\ s.pc = "drop" /\ s.ok = FALSE
    <3>1. [op[p] EXCEPT !.pc = "drop", !.ok = FALSE] \in Op
      BY <2>1 DEF Op
    <3> QED
      BY <2>1, <3>1 DEF Op
  <2>3. ASSUME trouble' = {} PROVE Alone(p) /\ (OwnFiles /\ Saved /\ Working(p))'
    <3>1. Alone(p) /\ OwnFiles /\ Saved
      BY <2>1, <2>3, IsAlone
    <3>2. OwnFiles' /\ Saved'
      BY <2>1, <3>1 DEF OwnFiles, Saved, Has
    <3>3. op'[p] = s
      BY <2>2 DEF StoreInv, StoreTypes
    <3>4. Working(p)'
      BY <2>2, <3>3 DEF Working, Done
    <3> QED
      BY <3>1, <3>2, <3>4
  <2> QED
    BY <2>1, <2>2, <2>3, StoreGoesOn DEF StoreInv, StoreTypes
<1> QED
  BY <1>1, <1>2, <1>3 DEF File!Fails

LEMMA BeginStep ==
    ASSUME StoreInv, File!Index \/ \E p \in Asker : File!Ask(p)
    PROVE  StoreInv'
<1>1. Sweeper \in File!Proc /\ \A p \in Asker : p \in File!Proc
  BY DEF File!Proc
<1>2. CASE File!Index
  <2>1. /\ todo' \subseteq Row
        /\ \/ \E kind \in {"list"}, row \in {None} :
                 File!Connect(Sweeper, kind, row) \/ File!ConnectPlain(Sweeper, kind, row)
           \/ \E row \in todo :
                 File!Connect(Sweeper, "put", row) \/ File!ConnectPlain(Sweeper, "put", row)
    BY <1>2 DEF File!Index, StoreInv, StoreTypes
  <2>2. todo \subseteq Row
    BY DEF StoreInv, StoreTypes
  <2> QED
    BY <1>1, <2>1, <2>2, ConnectStep
<1>3. CASE \E p \in Asker : File!Ask(p)
  <2>1. /\ todo' \subseteq Row
        /\ \E p \in Asker, kind \in {"get", "mark"} :
              File!Connect(p, kind, None) \/ File!ConnectPlain(p, kind, None)
    BY <1>3 DEF File!Ask, StoreInv, StoreTypes
  <2> QED
    BY <1>1, <2>1, ConnectStep
<1> QED
  BY <1>2, <1>3

LEMMA NextStoreInv == StoreInv /\ [File!Next]_(File!vars) => StoreInv'
<1> SUFFICES ASSUME StoreInv, [File!Next]_(File!vars) PROVE StoreInv'
  OBVIOUS
<1>1. ASSUME NEW p \in File!Proc, File!Step(p) PROVE StoreInv'
  BY <1>1, DecryptStep, WriteWorkingStep, OpenDbStep, ReadStep, WriteStep, DropStep, SealStep,
     OpenTmpStep, WriteTmpStep, ReplaceStep DEF File!Step
<1>2. CASE UNCHANGED File!vars
  BY <1>2 DEF File!vars, StoreInv, StoreTypes, Clear, Kept, Sequential, Alone, OwnFiles, Saved,
              Working, Has, Done
<1> QED
  BY <1>1, <1>2, FailsStep, BeginStep DEF File!Next

LEMMA StoreInvariance == File!Spec => []StoreInv
BY InitStoreInv, NextStoreInv, PTL DEF File!Spec

\* NoneInClear: when no operation is under way there is no working copy, unless
\* one was cut short and none has ended since; for any processes, rows, kills,
\* errors and passphrases that are not there.
THEOREM NoneInClear == File!Spec => []NothingInClear
<1>1. StoreInv => NothingInClear
  BY IdleOp DEF StoreInv, Clear, NothingInClear, File!NothingInClear
<1> QED
  BY <1>1, StoreInvariance, PTL

\* PutsStay: what was put in the store stays in it and the store stays readable,
\* wherever an operation is cut off or fails, as long as one runs at a time and
\* the passphrase is there.
THEOREM PutsStay == File!Spec => []PutsKept
<1>1. ASSUME StoreInv, trouble = {} PROVE put \subseteq File!Stored /\ ~File!Unreadable
  <2>1. Saved
    BY <1>1 DEF StoreInv, Kept
  <2> QED
    BY <2>1 DEF Saved, Has, File!Stored, File!Unreadable, File!Holds, File!Rows
<1>2. StoreInv => PutsKept
  BY <1>1 DEF PutsKept, File!PutsKept
<1> QED
  BY <1>2, StoreInvariance, PTL

-----------------------------------------------------------------------------
(***************************************************************************)
(* The OCR pack and reading a document (OcrPack)                           *)
(***************************************************************************)

\* The inductive invariant: the sentinel is written when both models are in the
\* cache, from which nothing removes them.
SentinelTold == sentinel \/ ocrSetup = "sentinel" => Ocr!Model \subseteq cached
PackInv == SentinelTold /\ OfflineReads

\* Init establishes the invariant.
LEMMA InitPackInv == Ocr!Init => PackInv
BY DEF Ocr!Init, PackInv, SentinelTold, OfflineReads, Ocr!OfflineReads

\* A step that is no part of the set-up's way to the sentinel, nor of a read.
LEMMA Elsewhere ==
    ASSUME PackInv, cached' = cached, sentinel' = sentinel \/ ~sentinel',
           ocrSetup' # "sentinel" \/ ocrSetup' = ocrSetup, read' = read
    PROVE  PackInv'
BY DEF PackInv, SentinelTold, OfflineReads, Ocr!OfflineReads

\* The steps of the set-up keep it.
LEMMA SetupPackInv == PackInv /\ (Ocr!Start \/ Ocr!Advance \/ Ocr!StepFails \/ Ocr!Kill) => PackInv'
<1> SUFFICES ASSUME PackInv, Ocr!Start \/ Ocr!Advance \/ Ocr!StepFails \/ Ocr!Kill PROVE PackInv'
  OBVIOUS
<1>1. CASE Ocr!Start \/ Ocr!EnsureVenv \/ Ocr!MakeVenv
  BY <1>1, Elsewhere DEF Ocr!Start, Ocr!EnsureVenv, Ocr!MakeVenv, Ocr!Goto, Ocr!Fail, Ocr!pack
<1>2. CASE Ocr!EnsureDeps \/ Ocr!InstallDeps
  BY <1>2, Elsewhere DEF Ocr!EnsureDeps, Ocr!InstallDeps, Ocr!Goto
<1>3. CASE Ocr!FetchModels
  <2>1. CASE sentinel
    BY <1>3, <2>1 DEF Ocr!FetchModels, PackInv, SentinelTold, OfflineReads, Ocr!OfflineReads, Ocr!Goto
  <2>2. CASE ~sentinel
    <3>1. /\ cached \subseteq cached' /\ UNCHANGED <<sentinel, read>>
          /\ ocrSetup' = "sentinel" => Ocr!Model \subseteq cached'
      BY <1>3, <2>2 DEF Ocr!FetchModels, Ocr!Goto
    <3> QED
      BY <2>2, <3>1 DEF PackInv, SentinelTold, OfflineReads, Ocr!OfflineReads
  <2> QED
    BY <2>1, <2>2
<1>4. CASE Ocr!WriteSentinel
  BY <1>4 DEF Ocr!WriteSentinel, PackInv, SentinelTold, OfflineReads, Ocr!OfflineReads, Ocr!Goto
<1>5. CASE Ocr!WriteManifest \/ Ocr!VerifyPack \/ Ocr!CopyVision \/ Ocr!SmokeVision
  BY <1>5, Elsewhere DEF Ocr!WriteManifest, Ocr!VerifyPack, Ocr!CopyVision, Ocr!SmokeVision, Ocr!Goto, Ocr!pack
<1>6. CASE Ocr!CannotWork \/ Ocr!StepFails \/ Ocr!Kill
  BY <1>6, Elsewhere DEF Ocr!CannotWork, Ocr!StepFails, Ocr!Kill, Ocr!Fail, Ocr!Goto, Ocr!Limited, Ocr!pack
<1> QED
  BY <1>1, <1>2, <1>3, <1>4, <1>5, <1>6 DEF Ocr!Advance

\* So do the steps of a read, and what happens to the machine.
LEMMA NextPackInv == PackInv /\ [Ocr!Next]_(Ocr!vars) => PackInv'
<1> SUFFICES ASSUME PackInv, [Ocr!Next]_(Ocr!vars) PROVE PackInv'
  OBVIOUS
<1>1. CASE Ocr!Start \/ Ocr!Advance \/ Ocr!StepFails \/ Ocr!Kill
  BY <1>1, SetupPackInv
<1>2. CASE Ocr!Purge \/ Ocr!ChangePythons
  BY <1>2, Elsewhere DEF Ocr!Purge, Ocr!ChangePythons, Ocr!Limited, Ocr!pack
<1>3. CASE Ocr!Extract \/ Ocr!Vision \/ Ocr!Pack \/ Ocr!Docling
  <2>1. UNCHANGED <<ocrSetup, cached, sentinel>>
    BY <1>3 DEF Ocr!Extract, Ocr!Vision, Ocr!Pack, Ocr!Docling, Ocr!pack
  <2>2. read'.at = "docling" => sentinel
    <3>1. ASSUME Ocr!NoOcr PROVE read'.at # "docling"
      <4>1. CASE read' = [at |-> "vision", kind |-> "glued"]
        BY <4>1
      <4>2. ASSUME NEW with, Ocr!End(with) PROVE read'.at # "docling"
        BY <4>2 DEF Ocr!End
      <4> QED
        BY <3>1, <4>1, <4>2 DEF Ocr!NoOcr
    <3>2. ASSUME NEW with, Ocr!Result(with) PROVE read'.at # "docling"
      BY <3>1, <3>2 DEF Ocr!Result, Ocr!End
    <3>3. CASE Ocr!Extract
      BY <3>3 DEF Ocr!Extract
    <3>4. CASE Ocr!Vision
      BY <3>2, <3>4 DEF Ocr!Vision
    <3>5. CASE Ocr!Pack
      BY <3>1, <3>5 DEF Ocr!Pack
    <3>6. CASE Ocr!Docling
      BY <3>1, <3>2, <3>6 DEF Ocr!Docling
    <3> QED
      BY <1>3, <3>3, <3>4, <3>5, <3>6
  <2> QED
    BY <2>1, <2>2 DEF PackInv, SentinelTold, OfflineReads, Ocr!OfflineReads
<1>4. CASE UNCHANGED Ocr!vars
  BY <1>4, Elsewhere DEF Ocr!vars
<1> QED
  BY <1>1, <1>2, <1>3, <1>4 DEF Ocr!Next

\* ReadsStayOffline: whichever runs of the set-up are cut off or repeated and
\* whatever is removed meanwhile, no read starts the pack's process, which may
\* not use the network, before both models are in the cache.
THEOREM ReadsStayOffline == Ocr!Spec => []OfflineReads
<1>1. PackInv => OfflineReads
  BY DEF PackInv, OfflineReads
<1> QED
  BY <1>1, InitPackInv, NextPackInv, PTL DEF Ocr!Spec

-----------------------------------------------------------------------------
(***************************************************************************)
(* The models (MlSetup)                                                    *)
(***************************************************************************)

Complete == "gliner" \in mlManifest /\ \A m \in Ml!Model : Ml!Whole(m)

MlTypes ==
    /\ run \in [Run -> [at : Ml!Places, named : BOOLEAN, ok : BOOLEAN]]
    /\ local \in [Ml!Model -> SUBSET Ml!Files]

\* What is known of a run that is at "verify", past it, or past the agent; and
\* of what runs that have ended left behind.
Verified(r) ==
    /\ run[r].at = "verify" => "gliner" \in mlManifest
    /\ run[r].at = "agent" => Complete
    /\ run[r].at \in {"gemma", "get gemma", "gemma agent"} => agent
MlInv ==
    /\ MlTypes
    /\ \A r \in Run : Verified(r)
    /\ agent => Complete
    /\ gemmaEnv => agent

LEMMA InitMlInv == Ml!Init => MlInv
<1> SUFFICES ASSUME Ml!Init PROVE MlInv
  OBVIOUS
<1>1. Ml!Off \in [at : Ml!Places, named : BOOLEAN, ok : BOOLEAN] /\ Ml!Off.at = "off"
  BY DEF Ml!Off, Ml!Places
<1>2. run = [r \in Run |-> Ml!Off] /\ local = [m \in Ml!Model |-> {}] /\ ~agent /\ ~gemmaEnv
  BY DEF Ml!Init
<1>3. \A r \in Run : run[r].at = "off"
  BY <1>1, <1>2
<1>4. MlTypes
  <2>1. run \in [Run -> [at : Ml!Places, named : BOOLEAN, ok : BOOLEAN]]
    BY <1>1, <1>2
  <2>2. local \in [Ml!Model -> SUBSET Ml!Files]
    BY <1>2
  <2> QED
    BY <2>1, <2>2 DEF MlTypes
<1> QED
  BY <1>2, <1>3, <1>4 DEF MlInv, Verified

\* A run goes on to s and nothing is taken away.
LEMMA RunGoesOn ==
    ASSUME MlInv, NEW r \in Run, NEW s \in [at : Ml!Places, named : BOOLEAN, ok : BOOLEAN],
           run' = [run EXCEPT ![r] = s], local' \in [Ml!Model -> SUBSET Ml!Files],
           \A m \in Ml!Model : local[m] \subseteq local'[m],
           "gliner" \in mlManifest => "gliner" \in mlManifest',
           agent => agent', agent' /\ ~agent => Complete,
           gemmaEnv' => agent',
           s.at = "verify" => "gliner" \in mlManifest',
           s.at = "agent" => Complete,
           s.at \in {"gemma", "get gemma", "gemma agent"} => agent'
    PROVE  MlInv'
<1>1. Complete => Complete'
  BY DEF Complete, Ml!Whole, MlInv, MlTypes
<1>2. run' \in [Run -> [at : Ml!Places, named : BOOLEAN, ok : BOOLEAN]] /\ run'[r] = s
  BY DEF MlInv, MlTypes
<1>3. ASSUME NEW q \in Run PROVE Verified(q)'
  <2>1. CASE q = r
    BY <1>1, <1>2, <2>1 DEF Verified
  <2>2. CASE q # r
    <3>1. run'[q] = run[q] /\ Verified(q)
      BY <2>2 DEF MlInv, MlTypes
    <3> QED
      BY <1>1, <3>1 DEF Verified
  <2> QED
    BY <2>1, <2>2
<1> QED
  BY <1>1, <1>2, <1>3 DEF MlInv, MlTypes

LEMMA SameModels ==
    ASSUME MlInv, UNCHANGED local
    PROVE  local' \in [Ml!Model -> SUBSET Ml!Files] /\ \A m \in Ml!Model : local[m] \subseteq local'[m]
BY DEF MlInv, MlTypes

\* What is known of a run, field by field.
LEMMA RunShape ==
    ASSUME MlInv, NEW r \in Run
    PROVE  /\ run[r] \in [at : Ml!Places, named : BOOLEAN, ok : BOOLEAN]
           /\ Verified(r)
           /\ agent => Complete
           /\ gemmaEnv => agent
BY DEF MlInv, MlTypes

\* A run goes somewhere else, with whatever flags, to a place that promises
\* nothing, or because nothing but the manifest and the files has changed.
LEMMA RunMoves ==
    ASSUME MlInv, NEW r \in Run, NEW s \in [at : Ml!Places, named : BOOLEAN, ok : BOOLEAN],
           run' = [run EXCEPT ![r] = s],
           UNCHANGED <<local, agent, mlManifest>>, gemmaEnv' => agent,
           s.at = "verify" => "gliner" \in mlManifest,
           s.at = "agent" => Complete,
           s.at \in {"gemma", "get gemma", "gemma agent"} => agent
    PROVE  MlInv'
BY SameModels, RunGoesOn, RunShape

\* Goto and Fail lead to such shapes.
LEMMA GotoMoves ==
    ASSUME MlInv, NEW r \in Run, NEW place \in Ml!Places, Ml!Goto(r, place)
    PROVE  \E s \in [at : Ml!Places, named : BOOLEAN, ok : BOOLEAN] :
               run' = [run EXCEPT ![r] = s] /\ s.at = place
<1> DEFINE s == [run[r] EXCEPT !.at = place]
<1>1. s \in [at : Ml!Places, named : BOOLEAN, ok : BOOLEAN] /\ s.at = place
  BY RunShape
<1>2. run' = [run EXCEPT ![r] = s]
  BY DEF Ml!Goto
<1> QED
  BY <1>1, <1>2

LEMMA FailMoves ==
    ASSUME MlInv, NEW r \in Run, Ml!Fail(r)
    PROVE  \E s \in [at : Ml!Places, named : BOOLEAN, ok : BOOLEAN] :
               run' = [run EXCEPT ![r] = s] /\ s.at = "end"
<1> DEFINE s == [[run[r] EXCEPT !.at = "end"] EXCEPT !.ok = FALSE]
<1>1. s \in [at : Ml!Places, named : BOOLEAN, ok : BOOLEAN] /\ s.at = "end"
  BY RunShape DEF Ml!Places
<1>2. run' = [run EXCEPT ![r] = s]
  BY DEF Ml!Fail
<1> QED
  BY <1>1, <1>2

LEMMA StartMl == ASSUME MlInv, NEW r \in Run, Ml!SetupStart(r) PROVE MlInv'
<1>1. PICK s \in [at : Ml!Places, named : BOOLEAN, ok : BOOLEAN] :
          run' = [run EXCEPT ![r] = s] /\ s.at = "venv"
  BY GotoMoves DEF Ml!SetupStart, Ml!Places
<1>2. UNCHANGED <<local, agent, mlManifest, gemmaEnv>>
  BY DEF Ml!SetupStart, Ml!gem
<1> QED
  BY <1>1, <1>2, RunMoves, RunShape

LEMMA EndMl == ASSUME MlInv, NEW r \in Run, Ml!End(r) PROVE MlInv'
<1>1. PICK s \in [at : Ml!Places, named : BOOLEAN, ok : BOOLEAN] :
          run' = [run EXCEPT ![r] = s] /\ s.at = "ocr"
  BY GotoMoves DEF Ml!End, Ml!Places
<1>2. UNCHANGED <<local, agent, mlManifest, gemmaEnv>>
  BY DEF Ml!End, Ml!gem
<1> QED
  BY <1>1, <1>2, RunMoves, RunShape

\* A run that is over, because it ended or was killed, promises nothing.
LEMMA OverMl ==
    ASSUME MlInv, NEW r \in Run, Ml!OcrSetup(r) \/ Ml!Kill(r)
    PROVE  MlInv'
<1>1. Ml!Off \in [at : Ml!Places, named : BOOLEAN, ok : BOOLEAN] /\ Ml!Off.at = "off"
  BY DEF Ml!Off, Ml!Places
<1>2. run' = [run EXCEPT ![r] = Ml!Off]
  BY DEF Ml!OcrSetup, Ml!Kill
<1>3. UNCHANGED <<local, agent, mlManifest, gemmaEnv>>
  BY DEF Ml!OcrSetup, Ml!Kill, Ml!gem
<1> QED
  BY <1>1, <1>2, <1>3, RunMoves, RunShape

LEMMA EnvironmentMl ==
    ASSUME MlInv, NEW r \in Run, Ml!EnsureVenv(r) \/ Ml!CreateVenv(r) \/ Ml!EnsureDeps(r)
    PROVE  MlInv'
<1>1. \E place \in {"create", "deps", "gliner"} : Ml!Goto(r, place) \/ Ml!Fail(r)
  BY DEF Ml!EnsureVenv, Ml!CreateVenv, Ml!EnsureDeps
<1>2. PICK s \in [at : Ml!Places, named : BOOLEAN, ok : BOOLEAN] :
          run' = [run EXCEPT ![r] = s] /\ s.at \in {"create", "deps", "gliner", "end"}
  <2>1. ASSUME NEW place \in {"create", "deps", "gliner"}, Ml!Goto(r, place)
        PROVE  \E s \in [at : Ml!Places, named : BOOLEAN, ok : BOOLEAN] :
                   /\ run' = [run EXCEPT ![r] = s]
                   /\ s.at \in {"create", "deps", "gliner", "end"}
    <3>1. place \in Ml!Places
      BY DEF Ml!Places
    <3> QED
      BY <2>1, <3>1, GotoMoves
  <2>2. CASE Ml!Fail(r)
    BY <2>2, FailMoves
  <2> QED
    BY <1>1, <2>1, <2>2
<1>3. UNCHANGED <<local, agent, mlManifest, gemmaEnv>>
  BY DEF Ml!EnsureVenv, Ml!CreateVenv, Ml!EnsureDeps, Ml!gem
<1> QED
  BY <1>2, <1>3, RunMoves, RunShape

\* Of "manifest" nothing is promised, whatever the run believes to have.
LEMMA NamedMoves ==
    ASSUME MlInv, NEW r \in Run, NEW named \in BOOLEAN,
           run' = [run EXCEPT ![r].at = "manifest", ![r].named = named]
    PROVE  \E s \in [at : Ml!Places, named : BOOLEAN, ok : BOOLEAN] :
               run' = [run EXCEPT ![r] = s] /\ s.at = "manifest"
<1> DEFINE s == [[run[r] EXCEPT !.at = "manifest"] EXCEPT !.named = named]
<1>1. s \in [at : Ml!Places, named : BOOLEAN, ok : BOOLEAN] /\ s.at = "manifest"
  BY RunShape DEF Ml!Places
<1>2. run' = [run EXCEPT ![r] = s]
  OBVIOUS
<1> QED
  BY <1>1, <1>2

LEMMA GotMoves ==
    ASSUME MlInv, NEW r \in Run, NEW m \in Ml!Model, Ml!Got(r, m)
    PROVE  \E s \in [at : Ml!Places, named : BOOLEAN, ok : BOOLEAN] :
               run' = [run EXCEPT ![r] = s] /\ s.at \in {"openai", "manifest"}
<1>1. CASE m = "gliner"
  <2>1. Ml!Goto(r, "openai")
    BY <1>1 DEF Ml!Got
  <2>2. "openai" \in Ml!Places
    BY DEF Ml!Places
  <2> QED
    BY <2>1, <2>2, GotoMoves
<1>2. CASE m # "gliner"
  BY <1>2, NamedMoves DEF Ml!Got
<1> QED
  BY <1>1, <1>2

LEMMA SkipMl == ASSUME MlInv, NEW r \in Run, NEW m \in Ml!Model, Ml!SkipModel(r, m) PROVE MlInv'
<1>1. UNCHANGED <<local, agent, mlManifest, gemmaEnv>>
  BY DEF Ml!SkipModel, Ml!gem
<1>2. PICK s \in [at : Ml!Places, named : BOOLEAN, ok : BOOLEAN] :
          /\ run' = [run EXCEPT ![r] = s]
          /\ s.at \in {"openai", "manifest", "get gliner", "get openai"}
  <2>1. CASE Ml!Got(r, m)
    BY <2>1, GotMoves
  <2>2. CASE Ml!Goto(r, Ml!Get(m))
    <3>1. Ml!Get(m) = "get gliner" \/ Ml!Get(m) = "get openai"
      BY DEF Ml!Get
    <3>2. "get gliner" \in Ml!Places /\ "get openai" \in Ml!Places
      BY DEF Ml!Places
    <3>3. Ml!Get(m) \in Ml!Places
      BY <3>1, <3>2
    <3>4. PICK s \in [at : Ml!Places, named : BOOLEAN, ok : BOOLEAN] :
              run' = [run EXCEPT ![r] = s] /\ s.at = Ml!Get(m)
      BY <2>2, <3>3, GotoMoves
    <3> QED
      BY <3>1, <3>4
  <2> QED
    BY <2>1, <2>2 DEF Ml!SkipModel
<1> QED
  BY <1>1, <1>2, RunMoves, RunShape

LEMMA DownloadMl == ASSUME MlInv, NEW r \in Run, NEW m \in Ml!Model, Ml!Download(r, m) PROVE MlInv'
<1>1. UNCHANGED <<agent, mlManifest, gemmaEnv>>
  BY DEF Ml!Download, Ml!gem
<1>2. CASE Ml!Whole(m)
  <2>1. PICK s \in [at : Ml!Places, named : BOOLEAN, ok : BOOLEAN] :
            run' = [run EXCEPT ![r] = s] /\ s.at \in {"openai", "manifest"}
    BY <1>2, GotMoves DEF Ml!Download
  <2>2. UNCHANGED local
    BY <1>2 DEF Ml!Download
  <2> QED
    BY <1>1, <2>1, <2>2, RunMoves, RunShape
<1>3. CASE ~Ml!Whole(m)
  <2>1. UNCHANGED run /\ \E f \in Ml!Files : local' = [local EXCEPT ![m] = @ \cup {f}]
    BY <1>3 DEF Ml!Download
  <2>2. /\ local' \in [Ml!Model -> SUBSET Ml!Files]
        /\ \A o \in Ml!Model : local[o] \subseteq local'[o]
    BY <2>1 DEF MlInv, MlTypes
  <2>3. run' = [run EXCEPT ![r] = run[r]]
    BY <2>1 DEF MlInv, MlTypes
  <2> QED
    BY <1>1, <2>2, <2>3, RunShape, RunGoesOn DEF Verified
<1> QED
  BY <1>2, <1>3

LEMMA DownloadFailsMl ==
    ASSUME MlInv, NEW r \in Run, NEW m \in Ml!Model, Ml!DownloadFails(r, m)
    PROVE  MlInv'
<1>1. UNCHANGED <<local, agent, mlManifest, gemmaEnv>>
  BY DEF Ml!DownloadFails, Ml!gem
<1>2. PICK s \in [at : Ml!Places, named : BOOLEAN, ok : BOOLEAN] :
          run' = [run EXCEPT ![r] = s] /\ s.at \in {"end", "manifest"}
  <2>1. CASE m = "gliner"
    BY <2>1, FailMoves DEF Ml!DownloadFails
  <2>2. CASE m # "gliner"
    BY <2>2, NamedMoves DEF Ml!DownloadFails
  <2> QED
    BY <2>1, <2>2
<1> QED
  BY <1>1, <1>2, RunMoves, RunShape

LEMMA WriteMl == ASSUME MlInv, NEW r \in Run, Ml!WriteManifest(r) PROVE MlInv'
<1>1. "verify" \in Ml!Places
  BY DEF Ml!Places
<1>2. PICK s \in [at : Ml!Places, named : BOOLEAN, ok : BOOLEAN] :
          run' = [run EXCEPT ![r] = s] /\ s.at = "verify"
  BY <1>1, GotoMoves DEF Ml!WriteManifest
<1>3. UNCHANGED <<local, agent, gemmaEnv>> /\ "gliner" \in mlManifest'
  BY DEF Ml!WriteManifest, Ml!gem
<1> QED
  BY <1>2, <1>3, SameModels, RunGoesOn, RunShape

\* Only a run that found both models whole, and the manifest written, goes on
\* to the agent.
LEMMA VerifyMl == ASSUME MlInv, NEW r \in Run, Ml!Verify(r) PROVE MlInv'
<1>1. UNCHANGED <<local, agent, mlManifest, gemmaEnv>>
  BY DEF Ml!Verify, Ml!gem
<1>2. CASE Ml!Fail(r)
  <2>1. PICK s \in [at : Ml!Places, named : BOOLEAN, ok : BOOLEAN] :
            run' = [run EXCEPT ![r] = s] /\ s.at = "end"
    BY <1>2, FailMoves
  <2> QED
    BY <1>1, <2>1, RunMoves, RunShape
<1>3. CASE ~Ml!Fail(r)
  <2>1. /\ Ml!Whole("gliner") /\ Ml!Whole("openai") /\ run[r].at = "verify"
        /\ run' = [run EXCEPT ![r].at = "agent", ![r].ok = TRUE]
    BY <1>3 DEF Ml!Verify, Ml!At
  <2>2. Complete
    BY <2>1, RunShape DEF Complete, Verified, Ml!Model
  <2> DEFINE s == [[run[r] EXCEPT !.at = "agent"] EXCEPT !.ok = TRUE]
  <2>3. s \in [at : Ml!Places, named : BOOLEAN, ok : BOOLEAN] /\ s.at = "agent"
    BY RunShape DEF Ml!Places
  <2>4. run' = [run EXCEPT ![r] = s]
    BY <2>1
  <2> HIDE DEF s
  <2> QED
    BY <1>1, <2>2, <2>3, <2>4, RunMoves, RunShape
<1> QED
  BY <1>2, <1>3

LEMMA AgentMl == ASSUME MlInv, NEW r \in Run, Ml!InstallLaunchAgent(r) PROVE MlInv'
<1>1. "gemma" \in Ml!Places
  BY DEF Ml!Places
<1>2. PICK s \in [at : Ml!Places, named : BOOLEAN, ok : BOOLEAN] :
          run' = [run EXCEPT ![r] = s] /\ s.at = "gemma"
  BY <1>1, GotoMoves DEF Ml!InstallLaunchAgent
<1>3. UNCHANGED <<local, mlManifest, gemmaEnv>> /\ agent' /\ run[r].at = "agent"
  BY DEF Ml!InstallLaunchAgent, Ml!At, Ml!gem
<1>4. Complete
  BY <1>3, RunShape DEF Verified
<1> QED
  BY <1>2, <1>3, <1>4, SameModels, RunGoesOn, RunShape

\* Gemma comes after the agent.
LEMMA GemmaMl ==
    ASSUME MlInv, NEW r \in Run,
           Ml!InstallGemmaEnv(r) \/ Ml!DownloadGemma(r) \/ Ml!InstallGemmaAgent(r)
    PROVE  MlInv'
<1>1. UNCHANGED <<local, agent, mlManifest>>
  BY DEF Ml!InstallGemmaEnv, Ml!DownloadGemma, Ml!InstallGemmaAgent
<1>2. agent
  BY RunShape DEF Verified, Ml!InstallGemmaEnv, Ml!DownloadGemma, Ml!InstallGemmaAgent, Ml!At
<1>3. \/ \E place \in {"get gemma", "gemma agent", "end"} : Ml!Goto(r, place)
      \/ UNCHANGED run
  BY DEF Ml!InstallGemmaEnv, Ml!DownloadGemma, Ml!InstallGemmaAgent
<1>4. CASE UNCHANGED run
  <2>1. run' = [run EXCEPT ![r] = run[r]]
    BY <1>4 DEF MlInv, MlTypes
  <2> QED
    BY <1>1, <1>2, <2>1, RunShape, RunMoves DEF Verified
<1>5. ASSUME NEW place \in {"get gemma", "gemma agent", "end"}, Ml!Goto(r, place) PROVE MlInv'
  <2>1. place \in Ml!Places
    BY DEF Ml!Places
  <2>2. PICK s \in [at : Ml!Places, named : BOOLEAN, ok : BOOLEAN] :
            run' = [run EXCEPT ![r] = s] /\ s.at = place
    BY <1>5, <2>1, GotoMoves
  <2> QED
    BY <1>1, <1>2, <2>2, RunMoves
<1> QED
  BY <1>3, <1>4, <1>5

LEMMA NextMlInv == MlInv /\ [Ml!Next]_(Ml!vars) => MlInv'
<1> SUFFICES ASSUME MlInv, [Ml!Next]_(Ml!vars) PROVE MlInv'
  OBVIOUS
<1>1. ASSUME NEW r \in Run, Ml!SetupStart(r) \/ Ml!Step(r) \/ Ml!Kill(r) PROVE MlInv'
  <2>1. CASE Ml!SetupStart(r) \/ Ml!Kill(r) \/ Ml!End(r) \/ Ml!OcrSetup(r)
    BY <2>1, StartMl, EndMl, OverMl
  <2>2. CASE Ml!EnsureVenv(r) \/ Ml!CreateVenv(r) \/ Ml!EnsureDeps(r)
    BY <2>2, EnvironmentMl
  <2>3. ASSUME NEW m \in Ml!Model,
               Ml!SkipModel(r, m) \/ Ml!Download(r, m) \/ Ml!DownloadFails(r, m)
        PROVE  MlInv'
    BY <2>3, SkipMl, DownloadMl, DownloadFailsMl
  <2>4. CASE Ml!WriteManifest(r) \/ Ml!Verify(r) \/ Ml!InstallLaunchAgent(r)
    BY <2>4, WriteMl, VerifyMl, AgentMl
  <2>5. CASE Ml!InstallGemmaEnv(r) \/ Ml!DownloadGemma(r) \/ Ml!InstallGemmaAgent(r)
    BY <2>5, GemmaMl
  <2> QED
    BY <1>1, <2>1, <2>2, <2>3, <2>4, <2>5 DEF Ml!Step
<1>2. CASE Ml!Gc \/ UNCHANGED Ml!vars
  <2>1. UNCHANGED <<run, local, agent, mlManifest, gemmaEnv>>
    BY <1>2 DEF Ml!Gc, Ml!vars, Ml!gem
  <2> QED
    BY <2>1 DEF MlInv, MlTypes, Verified, Complete, Ml!Whole
<1> QED
  BY <1>1, <1>2 DEF Ml!Next

\* AgentNeverHalf: however many runs there are at once, wherever each is cut
\* off, launchd is told to run the daemon only over models that are whole and
\* named in the manifest, and both stay so.
THEOREM AgentNeverHalf == Ml!Spec => []AgentHasModels
<1>1. MlInv => AgentHasModels
  BY DEF MlInv, Complete, AgentHasModels, Ml!AgentHasModels
<1> QED
  BY <1>1, InitMlInv, NextMlInv, PTL DEF Ml!Spec

\* ReadyMeansArmed: Gemma's environment is set up by no run that has not
\* installed the agent, so "ready" is told only where it is installed.
THEOREM ReadyMeansArmed == Ml!Spec => []ReadyIsArmed
<1>1. MlInv => ReadyIsArmed
  BY DEF MlInv, ReadyIsArmed, Ml!ReadyIsArmed, Ml!SetupStatus, Ml!AllPresent, Ml!GemmaPresent
<1> QED
  BY <1>1, InitMlInv, NextMlInv, PTL DEF Ml!Spec
=============================================================================
