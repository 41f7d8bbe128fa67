---------------------------- MODULE HooksProofs ----------------------------
(***************************************************************************)
(* Proofs about the hooks: their installation, for any number of processes,*)
(* versions, kills and edits and any entries of the user's own, and the    *)
(* guard, for every tree of folders and links, call and configuration.     *)
(*                                                                         *)
(* The argument about the user's entries: while a process holds what it    *)
(* read, the file may be torn, but what the process holds is what the user *)
(* left, unless he edits meanwhile (Held); so what it writes is, too.      *)
(*                                                                         *)
(* The argument about the guard's script: unless an installation and a     *)
(* removal overlap, all processes are on one side (OneSide).  Installing   *)
(* ones have the script in place before they reach settings.json           *)
(* (Prepared), and the script cannot go while they run; removing ones take *)
(* it away only when settings.json does not name it any more (Disarmed),   *)
(* and nobody names it again while they run.                               *)
(*                                                                         *)
(* The argument about updates: what a refresh that is alone has copied     *)
(* stays (Copied), and a daemon that runs on another copy than the one on  *)
(* the disk has its restart before it, unless that was cut off (Restarts). *)
(*                                                                         *)
(* The argument about the guard's decision: what has been protected ever   *)
(* since the call came is protected now (Watched), and the configuration   *)
(* that was loaded does not exempt it, whatever was edited later (Loaded); *)
(* so the scan, which reads markers and that configuration, meets it.      *)
(***************************************************************************)
EXTENDS Hooks, FiniteSetTheorems, WellFoundedInduction, TLAPS

Installs(p) == run[p].job # "remove"

\* Where a process is says what it is doing.
JobsMatch ==
    \A p \in Proc :
        /\ run[p].at \in {"guard.py", "posttool", "vendor", "daemon", "kickstart", "all vendor"}
              => Installs(p)
        /\ run[p].at \in {"rm stable", "rm agent", "rm cache", "rm data"} => ~Installs(p)
        /\ run[p].at \in {"read", "open", "write"} => run[p].job \in {"arm", "remove"}
        /\ run[p].at \in {"open", "write"} => run[p].seen \in Contents

Held ==
    ~raced =>
        /\ settings = None => foreign = {}
        /\ \A p \in Proc : run[p].at \in {"open", "write"} => run[p].seen.others = foreign

OneSide == \A p, q \in Proc : Active(p) /\ Active(q) => (Installs(p) <=> Installs(q))

\* Whoever installs has the plugin to install from, and the script before the
\* rest.
Prepared ==
    \A p \in Proc :
        /\ Active(p) /\ Installs(p) => plugin # None
        /\ run[p].job = "arm" /\ run[p].at \in {"posttool", "vendor", "read", "open", "write"}
              => stable["guard.py"] # None

Disarmed ==
    \A p \in Proc :
        run[p].at \in {"rm stable", "rm agent", "rm cache", "rm data"} => ~Armed

ForeignInv == ForeignKept /\ Held
GuardInv   == ArmedHasScript /\ (~overlap => OneSide /\ Prepared /\ Disarmed)
IInv       == TypeOK /\ JobsMatch /\ ForeignInv /\ GuardInv

-----------------------------------------------------------------------------
(***************************************************************************)
(* What a step does to its process                                         *)
(***************************************************************************)

LEMMA IdleType == Idle \in Runs
BY InstallAssumption DEF Idle, Runs, Jobs, Places, Version

\* Going on to a place changes this process only, keeps its job and, where
\* settings.json is about to be written, what was read of it.
LEMMA GoLaws ==
    ASSUME run \in [Proc -> Runs], NEW p \in Proc, NEW place \in Places, Go(p, place)
    PROVE  /\ run' \in [Proc -> Runs]
           /\ \A q \in Proc : q # p => run'[q] = run[q]
           /\ run'[p].at = place
           /\ place # "idle" => run'[p].job = run[p].job
           /\ place = "write" => run'[p].seen = run[p].seen
<1>1. \A r \in Runs : LET m == Moved(r, place) IN
         /\ m \in Runs /\ m.at = place
         /\ place # "idle" => m.job = r.job
         /\ place = "write" => m.seen = r.seen
  <2>1. CASE place = "idle"
    BY <2>1, IdleType DEF Idle, Moved
  <2>2. CASE place # "idle"
    BY <2>2 DEF Runs, Moved
  <2>. QED
    BY <2>1, <2>2
<1>2. run' = [run EXCEPT ![p] = Moved(run[p], place)]
  BY DEF Go
<1>. QED
  BY <1>1, <1>2

\* A process that starts leaves the others where they are.
LEMMA StartLaws ==
    ASSUME run \in [Proc -> Runs], plugin \in Version \cup {None},
           NEW p \in Proc, NEW job \in Jobs, NEW place \in Places, NEW purge \in BOOLEAN,
           job # "remove" => plugin # None, Start(p, job, place, purge)
    PROVE  /\ run' \in [Proc -> Runs]
           /\ \A q \in Proc : q # p => /\ run'[q].at = run[q].at
                                       /\ run'[q].job = run[q].job
                                       /\ run'[q].seen = run[q].seen
           /\ run'[p].at = place /\ run'[p].job = job
           /\ ~overlap' => /\ ~overlap
                           /\ \A q \in Proc \ {p} :
                                 Active(q) => (run[q].job = "remove") = (job = "remove")
<1> DEFINE new == [Idle EXCEPT !.job = job, !.at = place, !.purge = purge,
                               !.ver = IF job = "remove" THEN 1 ELSE plugin,
                               !.alone = ~\E r \in Proc : Active(r)]
<1>1. run' = [q \in Proc |-> IF q = p THEN new
                             ELSE [run[q] EXCEPT !.alone = @ /\ ~Active(q)]]
  BY DEF Start
<1>2. new \in Runs /\ new.at = place /\ new.job = job
  BY IdleType, InstallAssumption DEF Runs, Idle, Version
<1>3. \A q \in Proc : LET o == [run[q] EXCEPT !.alone = @ /\ ~Active(q)] IN
         o \in Runs /\ o.at = run[q].at /\ o.job = run[q].job /\ o.seen = run[q].seen
  BY DEF Runs, Active
<1>4. ~overlap' => /\ ~overlap
                   /\ \A q \in Proc \ {p} :
                         Active(q) => (run[q].job = "remove") = (job = "remove")
  BY DEF Start
<1>. QED
  BY <1>1, <1>2, <1>3, <1>4

\* Copying a script changes that script only, and leaves it there; it goes on
\* to what comes after it or stays.
LEMMA CopyLaws ==
    ASSUME TypeOK, NEW p \in Proc, NEW s \in Script, CopyTo(p, s),
           run[p].at \in {"guard.py", "posttool", "vendor", "all vendor"}
    PROVE  /\ run' \in [Proc -> Runs]
           /\ \A q \in Proc : q # p => run'[q] = run[q]
           /\ run'[p].at \in {run[p].at, After(p)}
           /\ run'[p].at # "idle" => run'[p].job = run[p].job
           /\ stable' \in [Script -> File]
           /\ \A t \in Script : t # s => stable'[t] = stable[t]
           /\ IF plugin = None THEN stable' = stable ELSE stable'[s] # None
<1>1. run \in [Proc -> Runs] /\ stable \in [Script -> File] /\ run[p].ver \in Version
  BY DEF TypeOK, Runs
<1>2. After(p) \in Places
  BY DEF After, Places
<1>3. CASE plugin = None
  BY <1>1, <1>2, <1>3, GoLaws DEF CopyTo
<1>4. CASE plugin # None
  <2>1. PICK whole \in BOOLEAN :
             /\ stable' = [stable EXCEPT ![s] = IF whole THEN run[p].ver ELSE Torn]
             /\ IF whole THEN Go(p, After(p))
                ELSE run' = [run EXCEPT ![p].copying = TRUE]
    BY <1>4 DEF CopyTo
  <2>2. None \notin Version \cup {Torn}
    BY InstallAssumption DEF Version
  <2>3. /\ stable' \in [Script -> File] /\ stable'[s] # None
        /\ \A t \in Script : t # s => stable'[t] = stable[t]
    BY <1>1, <2>1, <2>2 DEF File
  <2>4. CASE whole
    BY <1>1, <1>2, <1>4, <2>1, <2>3, <2>4, GoLaws
  <2>5. CASE ~whole
    <3>1. run' = [run EXCEPT ![p].copying = TRUE]
      BY <2>1, <2>5
    <3>2. /\ run' \in [Proc -> Runs]
          /\ \A q \in Proc : q # p => run'[q] = run[q]
          /\ run'[p].at = run[p].at /\ run'[p].job = run[p].job
      BY <1>1, <3>1 DEF Runs
    <3>. QED
      BY <1>4, <2>3, <3>2
  <2>. QED
    BY <2>4, <2>5
<1>. QED
  BY <1>3, <1>4

-----------------------------------------------------------------------------
(***************************************************************************)
(* Types                                                                   *)
(***************************************************************************)

LEMMA TypeInit == Init => TypeOK
<1> SUFFICES ASSUME Init PROVE TypeOK
  OBVIOUS
<1>1. 1 \in Version /\ {None, Torn} \subseteq File /\ 1 \in File
  BY InstallAssumption DEF Version, File
<1>2. settings \in Contents \cup {None, Torn} /\ foreign \subseteq Foreign
  BY DEF Init, Contents
<1>3. plugin \in Version /\ stable \in [Script -> File] /\ daemon \in File /\ running \in File
  BY <1>1 DEF Init
<1>4. run \in [Proc -> Runs]
  BY IdleType DEF Init
<1>5. {agent, data, shared, raced, overlap, cut} \subseteq BOOLEAN
  BY DEF Init
<1>6. starts \in 0..MaxStarts /\ kills \in 0..MaxKills /\ edits \in 0..MaxEdits
  BY InstallAssumption DEF Init
<1>. QED
  BY <1>2, <1>3, <1>4, <1>5, <1>6 DEF TypeOK

LEMMA TypeStep == TypeOK /\ JobsMatch /\ [Next]_vars => TypeOK'
<1> SUFFICES ASSUME TypeOK, JobsMatch, [Next]_vars PROVE TypeOK'
  OBVIOUS
<1> USE InstallAssumption DEF TypeOK
<1>0. /\ 1 \in Version /\ 1 \in File /\ {None, Torn} \subseteq File /\ Version \subseteq File
      /\ {"remove", "arm", "refresh"} \subseteq Jobs
  BY DEF Version, File, Jobs
<1>1. ASSUME NEW p \in Proc, Copy(p) PROVE TypeOK'
  <2> DEFINE s == IF run[p].at = "all vendor" THEN "vendor" ELSE run[p].at
  <2>1. s \in Script /\ CopyTo(p, s)
    BY <1>1 DEF Copy, Script
  <2>. QED
    BY <1>1, <2>1, CopyLaws DEF Copy, history
<1>2. ASSUME NEW p \in Proc, CopyVendor(p) PROVE TypeOK'
  <2>1. CASE CopyTo(p, "vendor")
    BY <1>2, <2>1, CopyLaws DEF CopyVendor, history, Script
  <2>2. CASE Go(p, After(p)) /\ UNCHANGED stable
    <3>1. After(p) \in Places
      BY DEF After, Places
    <3>. QED
      BY <1>2, <2>2, <3>1, GoLaws DEF CopyVendor, history
  <2>. QED
    BY <1>2, <2>1, <2>2 DEF CopyVendor
<1>3. ASSUME NEW p \in Proc, RefreshDaemon(p) PROVE TypeOK'
  <2>1. CASE UNCHANGED daemon /\
             Go(p, IF run[p].changed /\ ~run[p].copying THEN "kickstart" ELSE "all vendor")
    <3>1. {"kickstart", "all vendor"} \subseteq Places
      BY DEF Places
    <3>2. run' \in [Proc -> Runs]
      BY <2>1, <3>1, GoLaws
    <3>. QED
      BY <1>3, <2>1, <3>2 DEF RefreshDaemon, history
  <2>2. CASE \E whole \in BOOLEAN :
                /\ daemon' = IF whole THEN run[p].ver ELSE Torn
                /\ run' = [run EXCEPT ![p] = [@ EXCEPT !.changed = TRUE, !.copying = ~whole,
                                      !.at = IF whole THEN "kickstart" ELSE "daemon"]]
    <3>1. PICK whole \in BOOLEAN :
                /\ daemon' = IF whole THEN run[p].ver ELSE Torn
                /\ run' = [run EXCEPT ![p] = [@ EXCEPT !.changed = TRUE, !.copying = ~whole,
                                      !.at = IF whole THEN "kickstart" ELSE "daemon"]]
      BY <2>2
    <3>2. daemon' \in File
      BY <1>0, <3>1 DEF Runs
    <3>3. \A r \in Runs, b \in BOOLEAN, a \in Places :
             [r EXCEPT !.changed = TRUE, !.copying = b, !.at = a] \in Runs
      BY DEF Runs
    <3>4. run[p] \in Runs /\ (IF whole THEN "kickstart" ELSE "daemon") \in Places
      BY DEF Places
    <3>5. [run[p] EXCEPT !.changed = TRUE, !.copying = ~whole,
                         !.at = IF whole THEN "kickstart" ELSE "daemon"] \in Runs
      BY <3>3, <3>4, Zenon
    <3>6. run' \in [Proc -> Runs]
      BY <3>1, <3>5
    <3>. QED
      BY <1>3, <3>2, <3>6 DEF RefreshDaemon, history
  <2>. QED
    BY <1>3, <2>1, <2>2 DEF RefreshDaemon
<1>4. ASSUME NEW p \in Proc, Kickstart(p) PROVE TypeOK'
  <2>1. run' \in [Proc -> Runs]
    BY <1>4, GoLaws DEF Kickstart, Places
  <2>. QED
    BY <1>4, <2>1 DEF Kickstart, history
<1>5. ASSUME NEW p \in Proc, Read(p) PROVE TypeOK'
  <2> DEFINE seen == IF settings = None THEN [ours |-> {}, others |-> {}] ELSE settings
             next == IF run[p].job = "arm" THEN "idle" ELSE "rm stable"
  <2>1. CASE Go(p, next)
    <3>1. next \in Places
      BY DEF Places
    <3>2. run' \in [Proc -> Runs]
      BY <2>1, <3>1, GoLaws
    <3>. QED
      BY <1>5, <3>2 DEF Read, places, history
  <2>2. CASE settings # Torn /\ run' = [run EXCEPT ![p] = [@ EXCEPT !.seen = seen, !.at = "open"]]
    <3>1. seen \in Contents
      BY <2>2 DEF Contents
    <3>2. \A r \in Runs, c \in Contents : [r EXCEPT !.seen = c, !.at = "open"] \in Runs
      BY DEF Runs, Places
    <3>3. run' \in [Proc -> Runs]
      BY <2>2, <3>1, <3>2
    <3>. QED
      BY <1>5, <3>3 DEF Read, places, history
  <2>. QED
    BY <1>5, <2>1, <2>2 DEF Read
<1>6. ASSUME NEW p \in Proc, Open(p) PROVE TypeOK'
  <2>1. run' \in [Proc -> Runs]
    BY <1>6, GoLaws DEF Open, Places
  <2>. QED
    BY <1>6, <2>1 DEF Open, history
<1>7. ASSUME NEW p \in Proc, Write(p) PROVE TypeOK'
  <2>1. run' \in [Proc -> Runs]
    BY <1>7, GoLaws DEF Write, Places
  <2>2. run[p].seen \in Contents
    BY <1>7 DEF Write, JobsMatch
  <2>3. settings' \in Contents
    BY <1>7, <2>2 DEF Write, Contents, Ours, Entry
  <2>. QED
    BY <1>7, <2>1, <2>3 DEF Write, history
<1>8. ASSUME NEW p \in Proc, RemoveStable(p) PROVE TypeOK'
  <2>1. run' \in [Proc -> Runs]
    BY <1>8, GoLaws DEF RemoveStable, Places
  <2>. QED
    BY <1>0, <1>8, <2>1 DEF RemoveStable, history
<1>9. ASSUME NEW p \in Proc, RemoveLaunchAgent(p) PROVE TypeOK'
  <2>1. run' \in [Proc -> Runs]
    BY <1>9, GoLaws DEF RemoveLaunchAgent, Places
  <2>. QED
    BY <1>0, <1>9, <2>1 DEF RemoveLaunchAgent, history
<1>10. ASSUME NEW p \in Proc, RemovePlugin(p) PROVE TypeOK'
  <2>1. run' \in [Proc -> Runs]
    BY <1>10, GoLaws DEF RemovePlugin, Places
  <2>. QED
    BY <1>10, <2>1 DEF RemovePlugin, history
<1>11. ASSUME NEW p \in Proc, PurgeData(p) PROVE TypeOK'
  <2>1. run' \in [Proc -> Runs]
    BY <1>11, GoLaws DEF PurgeData, Places
  <2>. QED
    BY <1>0, <1>11, <2>1 DEF PurgeData, history
<1>12. ASSUME NEW p \in Proc, Kill(p) PROVE TypeOK'
  <2>1. run' \in [Proc -> Runs]
    BY <1>12, GoLaws DEF Kill, Places
  <2>2. kills' \in 0..MaxKills
    BY <1>12 DEF Kill
  <2>. QED
    BY <1>12, <2>1, <2>2 DEF Kill, places
<1>13. ASSUME NEW p \in Proc, NEW b \in BOOLEAN, SessionStart(p, b) \/ Uninstall(p, b)
       PROVE  TypeOK'
  <2>1. PICK job \in Jobs, place \in Places, purge \in BOOLEAN :
           Start(p, job, place, purge) /\ (job # "remove" => plugin # None)
    BY <1>0, <1>13 DEF SessionStart, Uninstall, Places
  <2>2. run' \in [Proc -> Runs]
    BY <2>1, StartLaws
  <2>3. starts' \in 0..MaxStarts
    <3>1. starts < MaxStarts /\ starts' = starts + 1
      BY <2>1, Zenon DEF Start
    <3>. QED
      BY <3>1
  <2>4. overlap' \in BOOLEAN
    BY <2>1, Zenon DEF Start
  <2>. QED
    BY <2>1, <2>2, <2>3, <2>4 DEF Start, places
<1>14. CASE Publish
  BY <1>14 DEF Publish, history
<1>15. CASE DaemonStarts \/ DaemonStops
  BY <1>0, <1>15 DEF DaemonStarts, DaemonStops, history
<1>16. ASSUME NEW o \in SUBSET Foreign, UserEdits(o) PROVE TypeOK'
  <2>1. settings' \in Contents
    BY <1>16 DEF UserEdits, Readable, Contents
  <2>2. edits' \in 0..MaxEdits /\ raced' \in BOOLEAN
    BY <1>16 DEF UserEdits
  <2>. QED
    BY <1>16, <2>1, <2>2 DEF UserEdits
<1>17. CASE UNCHANGED vars
  BY <1>17 DEF vars, places, history
<1>. QED
  BY <1>1, <1>2, <1>3, <1>4, <1>5, <1>6, <1>7, <1>8, <1>9, <1>10, <1>11, <1>12, <1>13,
     <1>14, <1>15, <1>16, <1>17 DEF Next, Step

-----------------------------------------------------------------------------
(***************************************************************************)
(* The three kinds of steps, as far as settings.json and the guard's       *)
(* script go                                                               *)
(***************************************************************************)

\* Steps that copy or restart leave settings.json alone; the guard's script is
\* there after it was copied and as before otherwise.
LEMMA CopyMoves ==
    ASSUME TypeOK, JobsMatch, NEW p \in Proc,
           Copy(p) \/ CopyVendor(p) \/ RefreshDaemon(p) \/ Kickstart(p)
    PROVE  /\ Active(p) /\ Installs(p) /\ UNCHANGED <<plugin, settings, foreign, raced, overlap>>
           /\ \A q \in Proc : q # p => run'[q] = run[q]
           /\ run'[p].at \in {"idle", "guard.py", "posttool", "vendor", "read",
                              "daemon", "kickstart", "all vendor"}
           /\ run'[p].at # "idle" => run'[p].job = run[p].job
           /\ run'[p].at \in {"posttool", "vendor", "read"} =>
                 run[p].at \in {"guard.py", "posttool", "vendor"}
           /\ run'[p].at = "read" => run[p].job = "arm"
           /\ IF plugin # None /\ run[p].at = "guard.py" THEN stable'["guard.py"] # None
              ELSE stable'["guard.py"] = stable["guard.py"]
<1> USE DEF TypeOK
<1>1. ASSUME NEW s \in Script, CopyTo(p, s), run[p].at \in {s, "all vendor"},
             (s = "guard.py") = (run[p].at = "guard.py")
      PROVE  /\ \A q \in Proc : q # p => run'[q] = run[q]
             /\ run'[p].at \in {"idle", "guard.py", "posttool", "vendor", "read",
                                "daemon", "all vendor"}
             /\ run'[p].at # "idle" => run'[p].job = run[p].job
             /\ run'[p].at \in {"posttool", "vendor", "read"} =>
                   run[p].at \in {"guard.py", "posttool", "vendor"}
             /\ run'[p].at = "read" => run[p].job = "arm"
             /\ IF plugin # None /\ run[p].at = "guard.py" THEN stable'["guard.py"] # None
                ELSE stable'["guard.py"] = stable["guard.py"]
  <2>1. run[p].at \in {"guard.py", "posttool", "vendor", "all vendor"}
    BY <1>1 DEF Script
  <2>2. run'[p].at \in {run[p].at, After(p)}
    BY <1>1, <2>1, CopyLaws
  <2>3. /\ \A q \in Proc : q # p => run'[q] = run[q]
        /\ run'[p].at # "idle" => run'[p].job = run[p].job
        /\ \A t \in Script : t # s => stable'[t] = stable[t]
        /\ IF plugin = None THEN stable' = stable ELSE stable'[s] # None
    BY <1>1, <2>1, CopyLaws
  <2>4. "guard.py" \in Script
    BY DEF Script
  <2>. QED
    BY <1>1, <2>1, <2>2, <2>3, <2>4 DEF After
<1>2. CASE Copy(p)
  <2> DEFINE s == IF run[p].at = "all vendor" THEN "vendor" ELSE run[p].at
  <2>1. /\ s \in Script /\ CopyTo(p, s) /\ run[p].at \in {s, "all vendor"}
        /\ (s = "guard.py") = (run[p].at = "guard.py")
    BY <1>2 DEF Copy, Script
  <2>. QED
    BY <1>1, <1>2, <2>1 DEF Copy, JobsMatch, Active, history
<1>3. CASE CopyVendor(p)
  <2>1. CASE CopyTo(p, "vendor")
    BY <1>1, <1>3, <2>1 DEF CopyVendor, JobsMatch, Active, history, Script
  <2>2. CASE Go(p, After(p)) /\ UNCHANGED stable
    <3>1. /\ After(p) \in {"read", "daemon"} /\ After(p) \in Places
          /\ After(p) = "read" => run[p].job = "arm"
      BY <1>3 DEF CopyVendor, After, Places
    <3>2. /\ \A q \in Proc : q # p => run'[q] = run[q]
          /\ run'[p].at = After(p) /\ run'[p].job = run[p].job
      BY <2>2, <3>1, GoLaws
    <3>. QED
      BY <1>3, <2>2, <3>1, <3>2 DEF CopyVendor, JobsMatch, Active, history
  <2>. QED
    BY <1>3, <2>1, <2>2 DEF CopyVendor
<1>4. CASE RefreshDaemon(p)
  <2>1. CASE \E place \in {"kickstart", "all vendor"} : Go(p, place)
    <3>1. {"kickstart", "all vendor"} \subseteq Places
      BY DEF Places
    <3>2. /\ \A q \in Proc : q # p => run'[q] = run[q]
          /\ run'[p].at \in {"kickstart", "all vendor"} /\ run'[p].job = run[p].job
      BY <2>1, <3>1, GoLaws
    <3>. QED
      BY <1>4, <3>2 DEF RefreshDaemon, JobsMatch, Active, history
  <2>2. CASE \E whole \in BOOLEAN :
               run' = [run EXCEPT ![p] = [@ EXCEPT !.changed = TRUE, !.copying = ~whole,
                                     !.at = IF whole THEN "kickstart" ELSE "daemon"]]
    <3>1. /\ \A q \in Proc : q # p => run'[q] = run[q]
          /\ run'[p].at \in {"kickstart", "daemon"} /\ run'[p].job = run[p].job
      BY <2>2 DEF Runs
    <3>. QED
      BY <1>4, <3>1 DEF RefreshDaemon, JobsMatch, Active, history
  <2>. QED
    BY <1>4, <2>1, <2>2 DEF RefreshDaemon
<1>5. CASE Kickstart(p)
  <2>1. /\ \A q \in Proc : q # p => run'[q] = run[q]
        /\ run'[p].at = "all vendor" /\ run'[p].job = run[p].job
    BY <1>5, GoLaws DEF Kickstart, Places
  <2>. QED
    BY <1>5, <2>1 DEF Kickstart, JobsMatch, Active, history
<1>. QED
  BY <1>2, <1>3, <1>4, <1>5

\* Steps that remove files leave settings.json alone, too.
LEMMA RemoveMoves ==
    ASSUME TypeOK, JobsMatch, NEW p \in Proc,
           RemoveStable(p) \/ RemoveLaunchAgent(p) \/ RemovePlugin(p) \/ PurgeData(p)
    PROVE  /\ Active(p) /\ ~Installs(p) /\ UNCHANGED <<settings, history>>
           /\ run[p].at \in {"rm stable", "rm agent", "rm cache", "rm data"}
           /\ \A q \in Proc : q # p => run'[q] = run[q]
           /\ run'[p].at \in {"idle", "rm agent", "rm cache", "rm data"}
           /\ run'[p].at # "idle" => run'[p].job = run[p].job
<1> USE DEF TypeOK
<1>1. /\ UNCHANGED <<settings, history>>
      /\ run[p].at \in {"rm stable", "rm agent", "rm cache", "rm data"}
      /\ \E place \in {"idle", "rm agent", "rm cache", "rm data"} : Go(p, place)
  BY DEF RemoveStable, RemoveLaunchAgent, RemovePlugin, PurgeData
<1>2. {"idle", "rm agent", "rm cache", "rm data"} \subseteq Places
  BY DEF Places
<1>3. /\ \A q \in Proc : q # p => run'[q] = run[q]
      /\ run'[p].at \in {"idle", "rm agent", "rm cache", "rm data"}
      /\ run'[p].at # "idle" => run'[p].job = run[p].job
  BY <1>1, <1>2, GoLaws
<1>. QED
  BY <1>1, <1>3 DEF JobsMatch, Active

\* settings.json is read: what is kept of it is what it holds, or nothing.
LEMMA ReadMoves ==
    ASSUME TypeOK, JobsMatch, NEW p \in Proc, Read(p)
    PROVE  /\ run[p].at = "read" /\ UNCHANGED <<places, history>>
           /\ \A q \in Proc : q # p => run'[q] = run[q]
           /\ \/ run'[p].at = "idle"
              \/ /\ run'[p].at = "rm stable" /\ run'[p].job = run[p].job
                 /\ run[p].job # "arm" /\ (run[p].job = "remove" => ~Armed)
              \/ /\ run'[p].at = "open" /\ run'[p].job = run[p].job
                 /\ run'[p].seen \in Contents
                 /\ IF settings = None THEN run'[p].seen.others = {}
                    ELSE Readable /\ run'[p].seen = settings
<1> USE DEF TypeOK
<1> DEFINE seen == IF settings = None THEN [ours |-> {}, others |-> {}] ELSE settings
<1>1. run[p].at = "read" /\ UNCHANGED <<places, history>>
  BY DEF Read
<1>2. CASE settings = Torn \/ (run[p].job = "remove" /\ seen.ours = {})
  <2>1. Go(p, IF run[p].job = "arm" THEN "idle" ELSE "rm stable")
    BY <1>2 DEF Read
  <2>2. ~Armed
    BY <1>2, InstallAssumption DEF Armed, Readable
  <2>3. {"idle", "rm stable"} \subseteq Places
    BY DEF Places
  <2>4. /\ \A q \in Proc : q # p => run'[q] = run[q]
        /\ run'[p].at = (IF run[p].job = "arm" THEN "idle" ELSE "rm stable")
        /\ run'[p].at # "idle" => run'[p].job = run[p].job
    BY <2>1, <2>3, GoLaws
  <2>. QED
    BY <1>1, <2>2, <2>4
<1>3. CASE ~(settings = Torn \/ (run[p].job = "remove" /\ seen.ours = {}))
  <2>1. run' = [run EXCEPT ![p] = [@ EXCEPT !.seen = seen, !.at = "open"]]
    BY <1>3 DEF Read
  <2>2. seen \in Contents
    BY <1>3 DEF Contents
  <2>3. /\ \A q \in Proc : q # p => run'[q] = run[q]
        /\ run'[p].at = "open" /\ run'[p].job = run[p].job /\ run'[p].seen = seen
    BY <2>1 DEF Runs
  <2>4. IF settings = None THEN seen.others = {} ELSE Readable /\ seen = settings
    BY <1>3 DEF Readable
  <2>. QED
    BY <1>1, <2>2, <2>3, <2>4
<1>. QED
  BY <1>2, <1>3

\* settings.json is truncated, then written with what was read of it.
LEMMA OpenMoves ==
    ASSUME TypeOK, NEW p \in Proc, Open(p)
    PROVE  /\ run[p].at = "open" /\ settings' = Torn /\ UNCHANGED <<plugin, stable, history>>
           /\ \A q \in Proc : q # p => run'[q] = run[q]
           /\ run'[p].at = "write" /\ run'[p].job = run[p].job
           /\ run'[p].seen = run[p].seen
BY GoLaws DEF Open, TypeOK, Places, history

LEMMA WriteMoves ==
    ASSUME TypeOK, JobsMatch, NEW p \in Proc, Write(p)
    PROVE  /\ run[p].at = "write" /\ UNCHANGED <<plugin, stable, history>>
           /\ settings' \in Contents /\ settings'.others = run[p].seen.others
           /\ settings'.ours = Ours(run[p].job)
           /\ \A q \in Proc : q # p => run'[q] = run[q]
           /\ run'[p].at = (IF run[p].job = "arm" THEN "idle" ELSE "rm stable")
           /\ run'[p].at # "idle" => run'[p].job = run[p].job
<1>1. run[p].at = "write" /\ UNCHANGED <<plugin, stable, history>>
  BY DEF Write, history
<1>2. run[p].seen \in Contents
  BY <1>1 DEF JobsMatch
<1>3. settings' = [run[p].seen EXCEPT !.ours = Ours(run[p].job)]
  BY DEF Write
<1>4. /\ settings' \in Contents /\ settings'.others = run[p].seen.others
      /\ settings'.ours = Ours(run[p].job)
  BY <1>2, <1>3 DEF Contents, Ours, Entry
<1>5. {"idle", "rm stable"} \subseteq Places
  BY DEF Places
<1>6. /\ \A q \in Proc : q # p => run'[q] = run[q]
      /\ run'[p].at = (IF run[p].job = "arm" THEN "idle" ELSE "rm stable")
      /\ run'[p].at # "idle" => run'[p].job = run[p].job
  BY <1>5, GoLaws DEF Write, TypeOK
<1>. QED
  BY <1>1, <1>4, <1>6

LEMMA KillMoves ==
    ASSUME TypeOK, NEW p \in Proc, Kill(p)
    PROVE  /\ UNCHANGED <<places, foreign, raced, overlap>> /\ run'[p].at = "idle"
           /\ \A q \in Proc : q # p => run'[q] = run[q]
BY GoLaws DEF Kill, TypeOK, Places

\* A process that starts copies the guard's script or reads settings.json.
LEMMA StartMoves ==
    ASSUME TypeOK, NEW p \in Proc, NEW b \in BOOLEAN, SessionStart(p, b) \/ Uninstall(p, b)
    PROVE  /\ UNCHANGED <<places, foreign, raced>>
           /\ \A q \in Proc : q # p => /\ run'[q].at = run[q].at
                                       /\ run'[q].job = run[q].job
                                       /\ run'[q].seen = run[q].seen
           /\ \/ /\ run'[p].at = "guard.py" /\ run'[p].job \in {"arm", "refresh"}
                 /\ plugin # None
              \/ run'[p].at = "read" /\ run'[p].job = "remove"
           /\ ~overlap' =>
                 /\ ~overlap
                 /\ \A q \in Proc \ {p} :
                       Active(q) => (run[q].job = "remove") = (run'[p].job = "remove")
<1>1. PICK job \in {"arm", "refresh", "remove"}, place \in {"guard.py", "read"},
           purge \in BOOLEAN :
         /\ Start(p, job, place, purge)
         /\ IF job = "remove" THEN place = "read" ELSE place = "guard.py" /\ plugin # None
  BY DEF SessionStart, Uninstall
<1>2. job \in Jobs /\ place \in Places
  BY DEF Jobs, Places
<1>3. /\ \A q \in Proc : q # p => /\ run'[q].at = run[q].at
                                  /\ run'[q].job = run[q].job
                                  /\ run'[q].seen = run[q].seen
      /\ run'[p].at = place /\ run'[p].job = job
      /\ ~overlap' => /\ ~overlap
                      /\ \A q \in Proc \ {p} :
                            Active(q) => (run[q].job = "remove") = (job = "remove")
  BY <1>1, <1>2, StartLaws DEF TypeOK
<1>4. UNCHANGED <<places, foreign, raced>>
  BY <1>1, Zenon DEF Start
<1>. QED
  BY <1>1, <1>3, <1>4

-----------------------------------------------------------------------------
(***************************************************************************)
(* Where a process is says what it is doing                                *)
(***************************************************************************)

LEMMA JobsInit == Init => JobsMatch
<1> SUFFICES ASSUME Init PROVE JobsMatch
  OBVIOUS
<1>1. run = [p \in Proc |-> Idle]
  BY DEF Init
<1>2. \A p \in Proc : run[p].at = "idle"
  BY <1>1 DEF Idle
<1>. QED
  BY <1>2 DEF JobsMatch

LEMMA JobsStep == TypeOK /\ JobsMatch /\ [Next]_vars => JobsMatch'
<1> SUFFICES ASSUME TypeOK, JobsMatch, [Next]_vars PROVE JobsMatch'
  OBVIOUS
<1>1. ASSUME NEW p \in Proc, Copy(p) \/ CopyVendor(p) \/ RefreshDaemon(p) \/ Kickstart(p)
      PROVE  JobsMatch'
  BY <1>1, CopyMoves DEF JobsMatch, Installs
<1>2. ASSUME NEW p \in Proc,
             RemoveStable(p) \/ RemoveLaunchAgent(p) \/ RemovePlugin(p) \/ PurgeData(p)
      PROVE  JobsMatch'
  BY <1>2, RemoveMoves DEF JobsMatch, Installs
<1>3. ASSUME NEW p \in Proc, Read(p) PROVE JobsMatch'
  BY <1>3, ReadMoves DEF JobsMatch, Installs
<1>4. ASSUME NEW p \in Proc, Open(p) PROVE JobsMatch'
  BY <1>4, OpenMoves DEF JobsMatch, Installs
<1>5. ASSUME NEW p \in Proc, Write(p) PROVE JobsMatch'
  BY <1>5, WriteMoves DEF JobsMatch, Installs
<1>6. ASSUME NEW p \in Proc, Kill(p) PROVE JobsMatch'
  BY <1>6, KillMoves DEF JobsMatch, Installs
<1>7. ASSUME NEW p \in Proc, NEW b \in BOOLEAN, SessionStart(p, b) \/ Uninstall(p, b)
      PROVE  JobsMatch'
  <2>1. /\ \A q \in Proc : q # p => /\ run'[q].at = run[q].at
                                    /\ run'[q].job = run[q].job
                                    /\ run'[q].seen = run[q].seen
        /\ \/ run'[p].at = "guard.py" /\ run'[p].job \in {"arm", "refresh"}
           \/ run'[p].at = "read" /\ run'[p].job = "remove"
    BY <1>7, StartMoves
  <2>. QED
    BY <2>1 DEF JobsMatch, Installs
<1>8. CASE UNCHANGED run
  BY <1>8 DEF JobsMatch, Installs
<1>9. Publish \/ DaemonStarts \/ DaemonStops \/ (\E o \in SUBSET Foreign : UserEdits(o))
         \/ UNCHANGED vars => UNCHANGED run
  BY DEF Publish, DaemonStarts, DaemonStops, UserEdits, vars
<1>. QED
  BY <1>1, <1>2, <1>3, <1>4, <1>5, <1>6, <1>7, <1>8, <1>9 DEF Next, Step

-----------------------------------------------------------------------------
(***************************************************************************)
(* The user's own entries                                                  *)
(***************************************************************************)

LEMMA ForeignInit == Init => ForeignInv
<1> SUFFICES ASSUME Init PROVE ForeignInv
  OBVIOUS
<1>1. \A p \in Proc : run[p].at = "idle"
  BY DEF Init, Idle
<1>2. /\ settings = None => foreign = {}
      /\ Readable => settings.others = foreign
  BY DEF Init, Readable
<1>. QED
  BY <1>1, <1>2 DEF ForeignInv, ForeignKept, Held

\* What none of ours does: a step that touches neither the file nor the
\* user's entries, and leaves no process holding anything new.
LEMMA ForeignUntouched ==
    ASSUME ForeignInv, UNCHANGED <<settings, foreign, raced>>,
           \A p \in Proc : run'[p].at \in {"open", "write"} =>
               run[p].at \in {"open", "write"} /\ run'[p].seen = run[p].seen
    PROVE  ForeignInv'
BY DEF ForeignInv, ForeignKept, Held, Readable

LEMMA ForeignStep == TypeOK /\ JobsMatch /\ ForeignInv /\ [Next]_vars => ForeignInv'
<1> SUFFICES ASSUME TypeOK, JobsMatch, ForeignInv, [Next]_vars PROVE ForeignInv'
  OBVIOUS
<1>0. None # Torn /\ \A c \in Contents : c # None /\ c # Torn
  BY InstallAssumption, ContentsAssumption
<1>1. ASSUME NEW p \in Proc, Copy(p) \/ CopyVendor(p) \/ RefreshDaemon(p) \/ Kickstart(p)
      PROVE  ForeignInv'
  BY <1>1, CopyMoves, ForeignUntouched DEF history
<1>2. ASSUME NEW p \in Proc,
             RemoveStable(p) \/ RemoveLaunchAgent(p) \/ RemovePlugin(p) \/ PurgeData(p)
      PROVE  ForeignInv'
  BY <1>2, RemoveMoves, ForeignUntouched DEF history
<1>3. ASSUME NEW p \in Proc, Read(p) PROVE ForeignInv'
  <2>1. /\ UNCHANGED <<settings, foreign, raced>> /\ \A q \in Proc : q # p => run'[q] = run[q]
        /\ run'[p].at \in {"open", "write"} =>
              IF settings = None THEN run'[p].seen.others = {}
              ELSE Readable /\ run'[p].seen = settings
    BY <1>3, ReadMoves DEF places, history
  <2>2. ~raced /\ run'[p].at \in {"open", "write"} => run'[p].seen.others = foreign
    BY <2>1 DEF ForeignInv, ForeignKept, Held
  <2>. QED
    BY <2>1, <2>2 DEF ForeignInv, ForeignKept, Held, Readable
<1>4. ASSUME NEW p \in Proc, Open(p) PROVE ForeignInv'
  <2>1. /\ settings' = Torn /\ UNCHANGED <<foreign, raced>> /\ run[p].at = "open"
        /\ \A q \in Proc : q # p => run'[q] = run[q]
        /\ run'[p].at = "write" /\ run'[p].seen = run[p].seen
    BY <1>4, OpenMoves DEF history
  <2>. QED
    BY <1>0, <2>1 DEF ForeignInv, ForeignKept, Held, Readable
<1>5. ASSUME NEW p \in Proc, Write(p) PROVE ForeignInv'
  <2>1. /\ settings' \in Contents /\ settings'.others = run[p].seen.others
        /\ UNCHANGED <<foreign, raced>> /\ run[p].at = "write"
        /\ \A q \in Proc : q # p => run'[q] = run[q]
        /\ run'[p].at \in {"idle", "rm stable"}
    BY <1>5, WriteMoves DEF history
  <2>. QED
    BY <1>0, <2>1 DEF ForeignInv, ForeignKept, Held, Readable
<1>6. ASSUME NEW p \in Proc, Kill(p) PROVE ForeignInv'
  BY <1>6, KillMoves, ForeignUntouched DEF places
<1>7. ASSUME NEW p \in Proc, NEW b \in BOOLEAN, SessionStart(p, b) \/ Uninstall(p, b)
      PROVE  ForeignInv'
  <2>1. /\ UNCHANGED <<settings, foreign, raced>> /\ run'[p].at \in {"guard.py", "read"}
        /\ \A q \in Proc : q # p => run'[q].at = run[q].at /\ run'[q].seen = run[q].seen
    BY <1>7, StartMoves DEF places
  <2>. QED
    BY <2>1, ForeignUntouched
<1>8. CASE Publish \/ DaemonStarts \/ DaemonStops \/ UNCHANGED vars
  <2>1. UNCHANGED <<settings, run, foreign, raced>>
    BY <1>8 DEF Publish, DaemonStarts, DaemonStops, vars, places, history
  <2>. QED
    BY <2>1, ForeignUntouched
<1>9. ASSUME NEW o \in SUBSET Foreign, UserEdits(o) PROVE ForeignInv'
  <2>1. settings' \in Contents /\ settings'.others = o /\ foreign' = o /\ UNCHANGED run
    BY <1>9 DEF UserEdits, Readable, Contents, TypeOK
  <2>2. ~raced' => ~raced /\ \A p \in Proc : run[p].at \notin {"open", "write"}
    BY <1>9 DEF UserEdits
  <2>. QED
    BY <1>0, <2>1, <2>2 DEF ForeignInv, ForeignKept, Held, Readable
<1>. QED
  BY <1>1, <1>2, <1>3, <1>4, <1>5, <1>6, <1>7, <1>8, <1>9 DEF Next, Step

-----------------------------------------------------------------------------
(***************************************************************************)
(* The guard's script                                                      *)
(***************************************************************************)

Sided == ArmedHasScript /\ OneSide /\ Prepared /\ Disarmed

LEMMA GuardInit == Init => GuardInv
<1> SUFFICES ASSUME Init PROVE GuardInv
  OBVIOUS
<1>1. \A p \in Proc : run[p].at = "idle"
  BY DEF Init, Idle
<1>2. ~Armed
  BY DEF Init, Armed, Readable
<1>. QED
  BY <1>1, <1>2 DEF GuardInv, ArmedHasScript, OneSide, Prepared, Disarmed, Active

LEMMA GuardStep == TypeOK /\ JobsMatch /\ GuardInv /\ [Next]_vars => GuardInv'
<1> SUFFICES ASSUME TypeOK, JobsMatch, GuardInv, [Next]_vars, ~overlap' PROVE Sided'
  BY DEF GuardInv, Sided, ArmedHasScript
<1>0. ASSUME ~overlap PROVE Sided
  BY <1>0 DEF GuardInv, Sided
<1> USE DEF Sided, ArmedHasScript, OneSide, Prepared, Disarmed, Armed, Readable
<1>1. ASSUME NEW p \in Proc, Copy(p) \/ CopyVendor(p) \/ RefreshDaemon(p) \/ Kickstart(p)
      PROVE  Sided'
  <2>1. /\ Active(p) /\ Installs(p) /\ UNCHANGED <<plugin, settings, overlap>>
        /\ \A q \in Proc : q # p => run'[q] = run[q]
        /\ run'[p].at \in {"idle", "guard.py", "posttool", "vendor", "read",
                           "daemon", "kickstart", "all vendor"}
        /\ run'[p].at # "idle" => run'[p].job = run[p].job
        /\ run'[p].at \in {"posttool", "vendor", "read"} =>
              run[p].at \in {"guard.py", "posttool", "vendor"}
        /\ IF plugin # None /\ run[p].at = "guard.py" THEN stable'["guard.py"] # None
           ELSE stable'["guard.py"] = stable["guard.py"]
    BY <1>1, CopyMoves DEF history
  <2>2. Sided /\ plugin # None
    BY <1>0, <2>1
  <2>3. stable["guard.py"] # None => stable'["guard.py"] # None
    BY <2>1
  <2>4. OneSide' /\ Disarmed'
    BY <2>1, <2>2 DEF Active, Installs
  <2>5. Prepared'
    BY <2>1, <2>2, <2>3 DEF Active, Installs
  <2>. QED
    BY <2>1, <2>2, <2>3, <2>4, <2>5
<1>2. ASSUME NEW p \in Proc,
             RemoveStable(p) \/ RemoveLaunchAgent(p) \/ RemovePlugin(p) \/ PurgeData(p)
      PROVE  Sided'
  <2>1. /\ Active(p) /\ ~Installs(p) /\ UNCHANGED <<settings, overlap>>
        /\ run[p].at \in {"rm stable", "rm agent", "rm cache", "rm data"}
        /\ \A q \in Proc : q # p => run'[q] = run[q]
        /\ run'[p].at \in {"idle", "rm agent", "rm cache", "rm data"}
        /\ run'[p].at # "idle" => run'[p].job = run[p].job
    BY <1>2, RemoveMoves DEF history
  <2>2. Sided /\ ~Armed /\ ~Armed'
    BY <1>0, <2>1
  <2>3. \A q \in Proc : Active(q) => ~Installs(q)
    BY <2>1, <2>2
  <2>4. \A q \in Proc : Active(q)' => ~Installs(q)'
    BY <2>1, <2>3 DEF Active, Installs
  <2>. QED
    BY <2>2, <2>4 DEF Active, Installs
<1>3. ASSUME NEW p \in Proc, Read(p) PROVE Sided'
  <2>1. /\ run[p].at = "read" /\ UNCHANGED <<plugin, settings, stable, overlap>>
        /\ \A q \in Proc : q # p => run'[q] = run[q]
        /\ \/ run'[p].at = "idle"
           \/ /\ run'[p].at = "rm stable" /\ run'[p].job = run[p].job
              /\ run[p].job # "arm" /\ (run[p].job = "remove" => ~Armed)
           \/ run'[p].at = "open" /\ run'[p].job = run[p].job
    BY <1>3, ReadMoves DEF places, history
  <2>2. Sided /\ run[p].job \in {"arm", "remove"}
    BY <1>0, <2>1 DEF JobsMatch
  <2>. QED
    BY <2>1, <2>2 DEF Active, Installs
<1>4. ASSUME NEW p \in Proc, Open(p) PROVE Sided'
  <2>1. /\ run[p].at = "open" /\ settings' = Torn /\ UNCHANGED <<plugin, stable, overlap>>
        /\ \A q \in Proc : q # p => run'[q] = run[q]
        /\ run'[p].at = "write" /\ run'[p].job = run[p].job
    BY <1>4, OpenMoves DEF history
  <2>. QED
    BY <1>0, <2>1 DEF Active, Installs
<1>5. ASSUME NEW p \in Proc, Write(p) PROVE Sided'
  <2>1. /\ run[p].at = "write" /\ UNCHANGED <<plugin, stable, overlap>>
        /\ settings'.ours = Ours(run[p].job)
        /\ \A q \in Proc : q # p => run'[q] = run[q]
        /\ run'[p].at = (IF run[p].job = "arm" THEN "idle" ELSE "rm stable")
        /\ run'[p].at # "idle" => run'[p].job = run[p].job
    BY <1>5, WriteMoves DEF history
  <2>2. Sided /\ run[p].job \in {"arm", "remove"}
    BY <1>0, <2>1 DEF JobsMatch
  <2>3. OneSide' /\ Prepared'
    BY <2>1, <2>2 DEF Active, Installs
  <2>4. CASE run[p].job = "arm"
    <3>1. stable'["guard.py"] # None
      BY <2>1, <2>2, <2>4
    <3>2. \A q \in Proc : Active(q) => Installs(q)
      BY <2>1, <2>2, <2>4 DEF Active, Installs
    <3>3. \A q \in Proc : run'[q].at \notin {"rm stable", "rm agent", "rm cache", "rm data"}
      BY <2>1, <2>4, <3>2 DEF Active, JobsMatch
    <3>. QED
      BY <2>3, <3>1, <3>3
  <2>5. CASE run[p].job = "remove"
    <3>1. ~Armed'
      BY <2>1, <2>5 DEF Ours
    <3>. QED
      BY <2>3, <3>1
  <2>. QED
    BY <2>2, <2>4, <2>5
<1>6. ASSUME NEW p \in Proc, Kill(p) PROVE Sided'
  <2>1. /\ UNCHANGED <<plugin, settings, stable, overlap>> /\ run'[p].at = "idle"
        /\ \A q \in Proc : q # p => run'[q] = run[q]
    BY <1>6, KillMoves DEF places
  <2>. QED
    BY <1>0, <2>1 DEF Active, Installs
<1>7. ASSUME NEW p \in Proc, NEW b \in BOOLEAN, SessionStart(p, b) \/ Uninstall(p, b)
      PROVE  Sided'
  <2>1. /\ UNCHANGED <<plugin, settings, stable>> /\ ~overlap
        /\ \A q \in Proc : q # p => run'[q].at = run[q].at /\ run'[q].job = run[q].job
        /\ \/ /\ run'[p].at = "guard.py" /\ run'[p].job \in {"arm", "refresh"}
              /\ plugin # None
           \/ run'[p].at = "read" /\ run'[p].job = "remove"
        /\ \A q \in Proc \ {p} :
              Active(q) => (run[q].job = "remove") = (run'[p].job = "remove")
    BY <1>7, StartMoves DEF places
  <2>2. Sided
    BY <1>0, <2>1
  <2>3. OneSide'
    <3>1. \A q \in Proc : Active(q)' => (Installs(q)' <=> run'[p].job # "remove")
      BY <2>1 DEF Active, Installs
    <3>. QED
      BY <3>1
  <2>4. Prepared' /\ Disarmed'
    BY <2>1, <2>2 DEF Active, Installs
  <2>. QED
    BY <2>1, <2>2, <2>3, <2>4
<1>8. CASE Publish
  <2>1. UNCHANGED <<settings, stable, run, overlap>> /\ plugin' \in Version
    BY <1>8 DEF Publish, history
  <2>2. plugin' # None
    BY <2>1, InstallAssumption DEF Version
  <2>. QED
    BY <1>0, <2>1, <2>2 DEF Active, Installs
<1>9. CASE DaemonStarts \/ DaemonStops \/ UNCHANGED vars
  <2>1. UNCHANGED <<plugin, settings, stable, run, overlap>>
    BY <1>9 DEF DaemonStarts, DaemonStops, vars, places, history
  <2>. QED
    BY <1>0, <2>1 DEF Active, Installs
<1>10. ASSUME NEW o \in SUBSET Foreign, UserEdits(o) PROVE Sided'
  <2>1. UNCHANGED <<plugin, stable, run, overlap>>
    BY <1>10 DEF UserEdits
  <2>2. Armed' => Armed
    BY <1>10 DEF UserEdits, TypeOK, Contents
  <2>. QED
    BY <1>0, <2>1, <2>2 DEF Active, Installs
<1>. QED
  BY <1>1, <1>2, <1>3, <1>4, <1>5, <1>6, <1>7, <1>8, <1>9, <1>10 DEF Next, Step

-----------------------------------------------------------------------------
(***************************************************************************)
(* Theorems                                                                *)
(***************************************************************************)

LEMMA Inductive == Spec => []IInv
<1>1. Init => IInv
  BY TypeInit, JobsInit, ForeignInit, GuardInit DEF IInv
<1>2. IInv /\ [Next]_vars => IInv'
  BY TypeStep, JobsStep, ForeignStep, GuardStep DEF IInv
<1>. QED
  BY <1>1, <1>2, PTL DEF Spec

\* Every variable always has its type, with any number of processes.
THEOREM InstallTypes == Spec => []TypeOK
<1>1. IInv => TypeOK
  BY DEF IInv
<1>. QED
  BY <1>1, Inductive, PTL

\* A guard that settings.json names has its script, wherever installations
\* and removals are killed, as long as none of the one kind ran beside one of
\* the other (main of install_user_hooks.py, uninstall of the other script).
THEOREM ScriptBeforeEntry == Spec => []ArmedHasScript
<1>1. IInv => ArmedHasScript
  BY DEF IInv, GuardInv
<1>. QED
  BY <1>1, Inductive, PTL

\* The user's own entries survive every interleaving and kill, unless he edits
\* the file while a process holds what it read of it.
THEOREM EntriesKept == Spec => []ForeignKept
<1>1. IInv => ForeignKept
  BY DEF IInv, ForeignInv
<1>. QED
  BY <1>1, Inductive, PTL
-----------------------------------------------------------------------------
(***************************************************************************)
(* Updates: the inductive invariant                                        *)
(***************************************************************************)

AloneMeans == \A p, q \in Proc : Active(p) /\ run[p].alone /\ q # p => ~Active(q)

\* What a refresh that is alone has copied so far stays there.
Refreshes(p) == Active(p) /\ run[p].alone /\ run[p].job = "refresh"

Copied ==
    \A p \in Proc : Refreshes(p) =>
        /\ plugin # None
        /\ run[p].at # "guard.py" => stable["guard.py"] = run[p].ver
        /\ run[p].at \notin {"guard.py", "posttool"} => stable["posttool"] = run[p].ver
        /\ run[p].at \in {"kickstart", "all vendor"} /\ ~cut => daemon \in {None, run[p].ver}

\* A refresh that has changed the daemon's copy and not yet restarted it; it
\* may be copying still.
Pending(p) == run[p].changed /\ run[p].at \in {"daemon", "kickstart"}
Copying(p) == Pending(p) /\ run[p].copying /\ run[p].at = "daemon"

Restarts ==
    /\ ~agent => running = None
    /\ \A p \in Proc : run[p].at \in {"rm cache", "rm data"} => ~agent
    /\ \A p \in Proc : run[p].copying /\ run[p].at = "daemon" => run[p].changed
    /\ ~cut => /\ daemon = Torn => \E p \in Proc : Copying(p)
               /\ running \in {None, daemon} \/ \E p \in Proc : Pending(p)

UpdateInv == AloneMeans /\ Copied /\ Restarts

-----------------------------------------------------------------------------
(***************************************************************************)
(* What a step does to what a refresh relies on                            *)
(***************************************************************************)

\* Going on keeps the version and who is alone; no copy is under way then.
LEMMA GoKeeps ==
    ASSUME run \in [Proc -> Runs], NEW p \in Proc, NEW place \in Places, Go(p, place)
    PROVE  /\ \A q \in Proc : q # p => run'[q] = run[q]
           /\ run'[p].at = place /\ ~run'[p].copying /\ (run'[p].changed => run[p].changed)
           /\ place # "idle" => /\ run'[p].job = run[p].job /\ run'[p].ver = run[p].ver
                                /\ run'[p].alone = run[p].alone
           /\ place = "kickstart" => run'[p].changed = run[p].changed
<1>1. \A r \in Runs : LET m == Moved(r, place) IN
         /\ m.at = place /\ ~m.copying /\ (m.changed => r.changed)
         /\ place # "idle" => m.job = r.job /\ m.ver = r.ver /\ m.alone = r.alone
         /\ place = "kickstart" => m.changed = r.changed
  <2>1. CASE place = "idle"
    BY <2>1 DEF Idle, Moved
  <2>2. CASE place \in {"all vendor", "rm stable"}
    BY <2>2 DEF Runs, Moved
  <2>3. CASE place \notin {"idle", "all vendor", "rm stable"}
    BY <2>3 DEF Runs, Moved
  <2>. QED
    BY <2>1, <2>2, <2>3
<1>2. run' = [run EXCEPT ![p] = Moved(run[p], place)]
  BY DEF Go
<1>3. /\ run'[p] = Moved(run[p], place) /\ run[p] \in Runs
      /\ \A q \in Proc : q # p => run'[q] = run[q]
  BY <1>2
<1>. QED
  BY <1>1, <1>3

\* What a step of p leaves of p, unless p ends, and of the others.
Same(p) == /\ run'[p].job = run[p].job /\ run'[p].ver = run[p].ver
           /\ run'[p].alone = run[p].alone
Others(p) == \A q \in Proc : q # p => run'[q] = run[q]

\* A copy is made whole and goes on, or stays in part.
LEMMA CopySteps ==
    ASSUME TypeOK, NEW p \in Proc, NEW s \in Script, CopyTo(p, s),
           run[p].at \in {"guard.py", "posttool", "vendor", "all vendor"}
    PROVE  /\ Others(p) /\ (run'[p].at # "idle" => Same(p))
           /\ run'[p].at \in {run[p].at, After(p)} /\ (run'[p].changed => run[p].changed)
           /\ run'[p].at # run[p].at => ~run'[p].copying
           /\ \A t \in Script : t # s => stable'[t] = stable[t]
           /\ plugin # None /\ run'[p].at # run[p].at => stable'[s] = run[p].ver
<1>1. run \in [Proc -> Runs] /\ stable \in [Script -> File] /\ run[p] \in Runs
  BY DEF TypeOK
<1>2. After(p) \in Places
  BY DEF After, Places
<1>3. CASE Go(p, After(p))
  <2>1. /\ Others(p) /\ run'[p].at = After(p) /\ ~run'[p].copying
        /\ (run'[p].changed => run[p].changed) /\ (run'[p].at # "idle" => Same(p))
    BY <1>1, <1>2, <1>3, GoKeeps DEF Others, Same
  <2>2. CASE plugin = None /\ UNCHANGED stable
    BY <2>1, <2>2
  <2>3. CASE plugin # None /\ \E whole \in BOOLEAN :
               /\ stable' = [stable EXCEPT ![s] = IF whole THEN run[p].ver ELSE Torn]
               /\ ~whole => run' = [run EXCEPT ![p].copying = TRUE]
    <3>1. PICK whole \in BOOLEAN :
               /\ stable' = [stable EXCEPT ![s] = IF whole THEN run[p].ver ELSE Torn]
               /\ ~whole => run' = [run EXCEPT ![p].copying = TRUE]
      BY <2>3
    <3>2. \A t \in Script : t # s => stable'[t] = stable[t]
      BY <1>1, <3>1
    <3>3. whole => stable'[s] = run[p].ver
      BY <1>1, <3>1
    <3>4. ~whole => run'[p].at = run[p].at
      BY <1>1, <3>1 DEF Runs
    <3>. QED
      BY <2>1, <3>2, <3>3, <3>4
  <2>. QED
    BY <2>2, <2>3 DEF CopyTo
<1>4. CASE ~Go(p, After(p))
  <2>1. PICK whole \in BOOLEAN :
             /\ ~whole /\ stable' = [stable EXCEPT ![s] = IF whole THEN run[p].ver ELSE Torn]
             /\ run' = [run EXCEPT ![p].copying = TRUE]
    BY <1>4 DEF CopyTo
  <2>2. \A t \in Script : t # s => stable'[t] = stable[t]
    BY <1>1, <2>1
  <2>3. Others(p) /\ Same(p) /\ run'[p].at = run[p].at /\ run'[p].changed = run[p].changed
    BY <1>1, <2>1 DEF Runs, Others, Same
  <2>. QED
    BY <2>2, <2>3
<1>. QED
  BY <1>3, <1>4

\* Copying goes from script to script; each is left whole, at its version.
LEMMA CopyPlaces ==
    ASSUME TypeOK, NEW p \in Proc, Copy(p) \/ CopyVendor(p)
    PROVE  /\ run[p].at \in {"guard.py", "posttool", "vendor", "all vendor"}
           /\ Others(p) /\ (run'[p].at # "idle" => Same(p))
           /\ run'[p].at \in {run[p].at, After(p)} /\ (run'[p].changed => run[p].changed)
           /\ run'[p].at # run[p].at => ~run'[p].copying
           /\ UNCHANGED <<plugin, daemon, agent, running, cut, kills>>
           /\ run[p].at # "guard.py" => stable'["guard.py"] = stable["guard.py"]
           /\ run[p].at # "posttool" => stable'["posttool"] = stable["posttool"]
           /\ plugin # None /\ run'[p].at # run[p].at =>
                 /\ run[p].at = "guard.py" => stable'["guard.py"] = run[p].ver
                 /\ run[p].at = "posttool" => stable'["posttool"] = run[p].ver
                 /\ run[p].at = "all vendor" => stable'["vendor"] = run[p].ver
<1>0. run \in [Proc -> Runs] /\ {"guard.py", "posttool", "vendor"} = Script
  BY DEF TypeOK, Script
<1>1. /\ run[p].at \in {"guard.py", "posttool", "vendor", "all vendor"}
      /\ UNCHANGED <<plugin, daemon, agent, running, cut, kills>>
  BY DEF Copy, CopyVendor, history
<1>2. CASE Copy(p)
  <2> DEFINE s == IF run[p].at = "all vendor" THEN "vendor" ELSE run[p].at
  <2>1. s \in Script /\ CopyTo(p, s) /\ run[p].at # "vendor"
    BY <1>0, <1>2 DEF Copy
  <2>2. /\ Others(p) /\ (run'[p].at # "idle" => Same(p))
        /\ run'[p].at \in {run[p].at, After(p)} /\ (run'[p].changed => run[p].changed)
        /\ run'[p].at # run[p].at => ~run'[p].copying
        /\ \A t \in Script : t # s => stable'[t] = stable[t]
        /\ plugin # None /\ run'[p].at # run[p].at => stable'[s] = run[p].ver
    BY <1>1, <2>1, CopySteps
  <2>. QED
    BY <1>0, <1>1, <2>1, <2>2
<1>3. CASE CopyVendor(p) /\ CopyTo(p, "vendor")
  <2>1. /\ Others(p) /\ (run'[p].at # "idle" => Same(p))
        /\ run'[p].at \in {run[p].at, After(p)} /\ (run'[p].changed => run[p].changed)
        /\ run'[p].at # run[p].at => ~run'[p].copying
        /\ \A t \in Script : t # "vendor" => stable'[t] = stable[t]
    BY <1>0, <1>1, <1>3, CopySteps
  <2>. QED
    BY <1>0, <1>1, <1>3, <2>1 DEF CopyVendor
<1>4. CASE CopyVendor(p) /\ Go(p, After(p)) /\ UNCHANGED stable
  <2>1. After(p) \in Places
    BY DEF After, Places
  <2>. QED
    BY <1>0, <1>1, <1>4, <2>1, GoKeeps DEF CopyVendor, Others, Same
<1>. QED
  BY <1>2, <1>3, <1>4 DEF CopyVendor

\* The daemon's copy is refreshed, in part or whole, or found as it should be.
LEMMA RefreshSteps ==
    ASSUME TypeOK, NEW p \in Proc, RefreshDaemon(p)
    PROVE  /\ run[p].at = "daemon" /\ Others(p) /\ Same(p)
           /\ UNCHANGED <<plugin, stable, agent, running, kills>>
           /\ cut' = (cut \/ (plugin = None /\ run[p].copying))
           /\ \/ /\ plugin = None \/ (daemon \in {None, Torn, run[p].ver} /\ ~run[p].copying)
                 /\ daemon' = daemon /\ (run'[p].changed => run[p].changed)
                 /\ ~run'[p].copying
                 /\ run'[p].at = IF run[p].changed /\ ~run[p].copying THEN "kickstart"
                                 ELSE "all vendor"
                 /\ run'[p].at = "kickstart" => run'[p].changed
              \/ /\ daemon' = run[p].ver /\ run'[p].at = "kickstart" /\ run'[p].changed
                 /\ plugin # None /\ ~run'[p].copying
              \/ /\ daemon' = Torn /\ run'[p].at = "daemon" /\ run'[p].changed
                 /\ plugin # None /\ run'[p].copying
<1>0. run \in [Proc -> Runs] /\ run[p] \in Runs
  BY DEF TypeOK
<1>1. /\ run[p].at = "daemon" /\ UNCHANGED <<plugin, stable, agent, running, kills>>
      /\ cut' = (cut \/ (plugin = None /\ run[p].copying))
  BY DEF RefreshDaemon
<1> DEFINE place == IF run[p].changed /\ ~run[p].copying THEN "kickstart" ELSE "all vendor"
<1>2. CASE /\ plugin = None \/ (daemon \in {None, Torn, run[p].ver} /\ ~run[p].copying)
           /\ Go(p, place) /\ UNCHANGED daemon
  <2>1. place \in Places /\ place # "idle" /\ (place = "kickstart" => run[p].changed)
    BY DEF Places
  <2> HIDE DEF place
  <2>2. /\ Others(p) /\ Same(p) /\ run'[p].at = place /\ ~run'[p].copying
        /\ (run'[p].changed => run[p].changed)
        /\ place = "kickstart" => run'[p].changed
    BY <1>0, <1>2, <2>1, GoKeeps DEF Others, Same
  <2>. QED
    BY <1>1, <1>2, <2>2 DEF place
<1>3. CASE /\ plugin # None
           /\ \E whole \in BOOLEAN :
                /\ daemon' = IF whole THEN run[p].ver ELSE Torn
                /\ run' = [run EXCEPT ![p] = [@ EXCEPT !.changed = TRUE, !.copying = ~whole,
                                      !.at = IF whole THEN "kickstart" ELSE "daemon"]]
  <2>1. PICK whole \in BOOLEAN :
                /\ daemon' = IF whole THEN run[p].ver ELSE Torn
                /\ run' = [run EXCEPT ![p] = [@ EXCEPT !.changed = TRUE, !.copying = ~whole,
                                      !.at = IF whole THEN "kickstart" ELSE "daemon"]]
    BY <1>3
  <2>2. /\ Others(p)
        /\ run'[p] = [run[p] EXCEPT !.changed = TRUE, !.copying = ~whole,
                                    !.at = IF whole THEN "kickstart" ELSE "daemon"]
    BY <1>0, <2>1 DEF Others
  <2>3. \A r \in Runs, b \in BOOLEAN, a \in Places :
           LET m == [r EXCEPT !.changed = TRUE, !.copying = ~b, !.at = a]
           IN  /\ m.changed = TRUE /\ m.copying = ~b /\ m.at = a
               /\ m.job = r.job /\ m.ver = r.ver /\ m.alone = r.alone
    BY DEF Runs
  <2>4. (IF whole THEN "kickstart" ELSE "daemon") \in Places
    BY DEF Places
  <2>5. /\ run'[p].changed = TRUE /\ run'[p].copying = ~whole
        /\ run'[p].at = (IF whole THEN "kickstart" ELSE "daemon") /\ Same(p)
    BY <1>0, <2>2, <2>3, <2>4 DEF Same
  <2>. QED
    BY <1>1, <1>3, <2>1, <2>2, <2>5
<1>. QED
  BY <1>2, <1>3 DEF RefreshDaemon

LEMMA KickSteps ==
    ASSUME TypeOK, NEW p \in Proc, Kickstart(p)
    PROVE  /\ run[p].at = "kickstart" /\ Others(p) /\ Same(p)
           /\ run'[p].at = "all vendor" /\ ~run'[p].copying
           /\ UNCHANGED <<plugin, stable, daemon, agent, cut, kills>>
           /\ running' = IF agent THEN daemon ELSE running
<1>1. Go(p, "all vendor") /\ "all vendor" \in Places /\ run \in [Proc -> Runs]
  BY DEF Kickstart, Places, TypeOK
<1>2. Others(p) /\ Same(p) /\ run'[p].at = "all vendor" /\ ~run'[p].copying
  BY <1>1, GoKeeps DEF Others, Same
<1>. QED
  BY <1>2 DEF Kickstart, history

\* settings.json is read and written: nothing that a refresh relies on.
LEMMA SettingsSteps ==
    ASSUME TypeOK, NEW p \in Proc, Read(p) \/ Open(p) \/ Write(p)
    PROVE  /\ run[p].at \in {"read", "open", "write"} /\ Others(p)
           /\ run'[p].at # "idle" => Same(p)
           /\ run'[p].at \in {"idle", "rm stable", "open", "write"}
           /\ UNCHANGED <<plugin, stable, daemon, agent, running, cut, kills>>
<1>0. run \in [Proc -> Runs] /\ run[p] \in Runs
  BY DEF TypeOK
<1>1. /\ run[p].at \in {"read", "open", "write"}
      /\ UNCHANGED <<plugin, stable, daemon, agent, running, cut, kills>>
  BY DEF Read, Open, Write, places, history
<1>2. CASE \E place \in {"idle", "rm stable", "write"} : Go(p, place)
  <2>1. PICK place \in {"idle", "rm stable", "write"} : Go(p, place)
    BY <1>2
  <2>2. place \in Places
    BY DEF Places
  <2>. QED
    BY <1>0, <1>1, <2>1, <2>2, GoKeeps DEF Others, Same
<1>3. CASE \E seen : run' = [run EXCEPT ![p] = [@ EXCEPT !.seen = seen, !.at = "open"]]
  <2>1. PICK seen : run' = [run EXCEPT ![p] = [@ EXCEPT !.seen = seen, !.at = "open"]]
    BY <1>3
  <2>2. Others(p) /\ Same(p) /\ run'[p].at = "open"
    BY <1>0, <2>1 DEF Runs, Others, Same
  <2>. QED
    BY <1>1, <2>2
<1>. QED
  BY <1>2, <1>3 DEF Read, Open, Write

\* Files are removed, the daemon's copy only after its agent.
LEMMA RemoveSteps ==
    ASSUME TypeOK, NEW p \in Proc,
           RemoveStable(p) \/ RemoveLaunchAgent(p) \/ RemovePlugin(p) \/ PurgeData(p)
    PROVE  /\ run[p].at \in {"rm stable", "rm agent", "rm cache", "rm data"} /\ Others(p)
           /\ run'[p].at # "idle" => Same(p)
           /\ run'[p].at \in {"idle", "rm agent", "rm cache", "rm data"}
           /\ UNCHANGED <<cut, kills>>
           /\ IF run[p].at = "rm agent" THEN agent' = FALSE /\ running' = None
              ELSE UNCHANGED <<agent, running>>
           /\ run'[p].at \in {"rm cache", "rm data"} => run[p].at \in {"rm agent", "rm cache"}
           /\ daemon' = daemon \/ (daemon' = None /\ run[p].at = "rm data")
<1>1. \E place \in {"idle", "rm agent", "rm cache", "rm data"} : Go(p, place)
  BY DEF RemoveStable, RemoveLaunchAgent, RemovePlugin, PurgeData
<1>2. PICK place \in {"idle", "rm agent", "rm cache", "rm data"} : Go(p, place)
  BY <1>1
<1>3. place \in Places
  BY DEF Places
<1>4. Others(p) /\ (run'[p].at # "idle" => Same(p)) /\ run'[p].at = place
  BY <1>2, <1>3, GoKeeps DEF Others, Same, TypeOK
<1>5. /\ run[p].at \in {"rm stable", "rm agent", "rm cache", "rm data"} /\ UNCHANGED <<cut, kills>>
      /\ IF run[p].at = "rm agent" THEN agent' = FALSE /\ running' = None
         ELSE UNCHANGED <<agent, running>>
      /\ daemon' = daemon \/ (daemon' = None /\ run[p].at = "rm data")
  BY DEF RemoveStable, RemoveLaunchAgent, RemovePlugin, PurgeData, history
<1>6. run[p].at \in {"rm stable", "rm data"} => run'[p].at \in {"rm agent", "idle"}
  <2>1. run[p].at \in {"rm stable", "rm data"} => Go(p, "rm agent") \/ Go(p, "idle")
    BY DEF RemoveStable, RemoveLaunchAgent, RemovePlugin, PurgeData
  <2>. QED
    BY <2>1, GoKeeps DEF TypeOK, Places
<1>. QED
  BY <1>2, <1>4, <1>5, <1>6

\* What no step of a process changes of it, and of the others.
LEMMA Steady ==
    ASSUME TypeOK, JobsMatch, NEW p \in Proc, Step(p) \/ Kill(p)
    PROVE  /\ Active(p) /\ Others(p) /\ (run'[p].at # "idle" => Same(p))
           /\ cut => cut'
<1>1. CASE Copy(p) \/ CopyVendor(p)
  BY <1>1, CopyPlaces DEF Active
<1>2. CASE RefreshDaemon(p)
  BY <1>2, RefreshSteps DEF Active
<1>3. CASE Kickstart(p)
  BY <1>3, KickSteps DEF Active
<1>4. CASE Read(p) \/ Open(p) \/ Write(p)
  BY <1>4, SettingsSteps DEF Active
<1>5. CASE RemoveStable(p) \/ RemoveLaunchAgent(p) \/ RemovePlugin(p) \/ PurgeData(p)
  BY <1>5, RemoveSteps DEF Active
<1>6. CASE Kill(p)
  BY <1>6, KillMoves DEF Kill, Others
<1>. QED
  BY <1>1, <1>2, <1>3, <1>4, <1>5, <1>6 DEF Step

\* A process that starts is alone if nobody else is active, and nobody else is
\* alone any more.
LEMMA StartSteps ==
    ASSUME TypeOK, NEW p \in Proc, NEW b \in BOOLEAN, SessionStart(p, b) \/ Uninstall(p, b)
    PROVE  /\ UNCHANGED <<plugin, stable, daemon, agent, running, cut, kills>> /\ ~Active(p)
           /\ \A q \in Proc : q # p =>
                 /\ run'[q].at = run[q].at /\ run'[q].job = run[q].job /\ run'[q].ver = run[q].ver
                 /\ run'[q].copying = run[q].copying /\ run'[q].changed = run[q].changed
                 /\ run'[q].alone => run[q].alone /\ ~Active(q)
           /\ run'[p].alone => \A q \in Proc : ~Active(q)
           /\ ~run'[p].copying /\ ~run'[p].changed
           /\ \/ run'[p].at = "guard.py" /\ plugin # None
              \/ run'[p].at = "read" /\ run'[p].job = "remove"
<1>1. PICK job \in {"arm", "refresh", "remove"}, place \in {"guard.py", "read"},
           purge \in BOOLEAN :
         /\ Start(p, job, place, purge)
         /\ IF job = "remove" THEN place = "read" ELSE place = "guard.py" /\ plugin # None
  BY DEF SessionStart, Uninstall
<1> DEFINE new == [Idle EXCEPT !.job = job, !.at = place, !.purge = purge,
                               !.ver = IF job = "remove" THEN 1 ELSE plugin,
                               !.alone = ~\E r \in Proc : Active(r)]
           old(q) == [run[q] EXCEPT !.alone = @ /\ ~Active(q)]
<1>2. run' = [q \in Proc |-> IF q = p THEN new ELSE old(q)]
  BY <1>1 DEF Start
<1>3. /\ ~Active(p) /\ UNCHANGED <<plugin, stable, daemon, agent, running, cut, kills>>
  BY <1>1 DEF Start, places
<1>4. /\ new.job = job /\ new.at = place /\ new.copying = FALSE /\ new.changed = FALSE
      /\ new.alone = (~\E r \in Proc : Active(r))
  BY DEF Idle
<1>5. \A q \in Proc : /\ old(q).at = run[q].at /\ old(q).job = run[q].job
                      /\ old(q).ver = run[q].ver /\ old(q).copying = run[q].copying
                      /\ old(q).changed = run[q].changed
                      /\ old(q).alone = (run[q].alone /\ ~Active(q))
  BY DEF TypeOK, Runs
<1> HIDE DEF new, old
<1>6. run'[p] = new /\ \A q \in Proc : q # p => run'[q] = old(q)
  BY <1>2
<1>7. run'[p].alone => \A q \in Proc : ~Active(q)
  BY <1>4, <1>6
<1>. QED
  BY <1>1, <1>3, <1>4, <1>5, <1>6, <1>7

-----------------------------------------------------------------------------
(***************************************************************************)
(* Updates: the steps                                                      *)
(***************************************************************************)

LEMMA UpdateInit == Init => UpdateInv
<1> SUFFICES ASSUME Init PROVE UpdateInv
  OBVIOUS
<1>1. \A p \in Proc : run[p].at = "idle" /\ ~run[p].copying
  BY DEF Init, Idle
<1>2. daemon \in {None, 1} /\ agent = (daemon = 1) /\ running \in IF daemon = 1 THEN {None, 1} ELSE {None}
  BY DEF Init
<1>3. 1 # Torn
  BY InstallAssumption
<1>4. daemon # Torn /\ running \in {None, daemon}
  BY <1>2, <1>3, InstallAssumption
<1>5. ~agent => running = None
  BY <1>2
<1>. QED
  BY <1>1, <1>4, <1>5 DEF UpdateInv, AloneMeans, Copied, Refreshes, Active, Restarts

\* While p is alone nobody else acts.
LEMMA NobodyElse ==
    ASSUME AloneMeans, NEW p \in Proc, NEW q \in Proc, Active(p), Active(q), run[q].alone
    PROVE  p = q
BY DEF AloneMeans

LEMMA AloneStep == TypeOK /\ JobsMatch /\ AloneMeans /\ [Next]_vars => AloneMeans'
<1> SUFFICES ASSUME TypeOK, JobsMatch, AloneMeans, [Next]_vars PROVE AloneMeans'
  OBVIOUS
<1>1. ASSUME NEW p \in Proc, Step(p) \/ Kill(p) PROVE AloneMeans'
  <2>1. Active(p) /\ Others(p) /\ (run'[p].at # "idle" => Same(p))
    BY <1>1, Steady
  <2>. QED
    BY <2>1 DEF AloneMeans, Active, Others, Same
<1>2. ASSUME NEW p \in Proc, NEW b \in BOOLEAN, SessionStart(p, b) \/ Uninstall(p, b)
      PROVE  AloneMeans'
  <2>1. /\ ~Active(p)
        /\ \A q \in Proc : q # p => /\ run'[q].at = run[q].at
                                    /\ run'[q].alone => run[q].alone /\ ~Active(q)
        /\ run'[p].alone => \A q \in Proc : ~Active(q)
    BY <1>2, StartSteps
  <2>. QED
    BY <2>1 DEF AloneMeans, Active
<1>3. CASE UNCHANGED run
  BY <1>3 DEF AloneMeans, Active
<1>4. Publish \/ DaemonStarts \/ DaemonStops \/ (\E o \in SUBSET Foreign : UserEdits(o))
         \/ UNCHANGED vars => UNCHANGED run
  BY DEF Publish, DaemonStarts, DaemonStops, UserEdits, vars
<1>. QED
  BY <1>1, <1>2, <1>3, <1>4 DEF Next

\* What a refresh that is alone does; its step is the only one.
LEMMA CopiedStep ==
    TypeOK /\ JobsMatch /\ UpdateInv /\ [Next]_vars => Copied'
<1> SUFFICES ASSUME TypeOK, JobsMatch, AloneMeans, Copied, Restarts, [Next]_vars PROVE Copied'
  BY DEF UpdateInv
<1> DEFINE Done(p) ==
      /\ plugin # None
      /\ run[p].at # "guard.py" => stable["guard.py"] = run[p].ver
      /\ run[p].at \notin {"guard.py", "posttool"} => stable["posttool"] = run[p].ver
      /\ run[p].at \in {"kickstart", "all vendor"} /\ ~cut => daemon \in {None, run[p].ver}
<1>1. ASSUME NEW p \in Proc, Step(p) \/ Kill(p), NEW q \in Proc, Refreshes(q)' PROVE Done(q)'
  <2>1. Active(p) /\ Others(p) /\ (run'[p].at # "idle" => Same(p))
    BY <1>1, Steady
  <2>2. Refreshes(q)
    BY <1>1, <2>1 DEF Refreshes, Active, Others, Same
  <2>3. p = q
    BY <2>1, <2>2, NobodyElse DEF Refreshes
  <2>4. Done(q) /\ Same(q) /\ run[q].job = "refresh" /\ run'[q].at # "idle"
    BY <1>1, <2>1, <2>2, <2>3 DEF Copied, Refreshes, Active
  <2>5. CASE Copy(p) \/ CopyVendor(p)
    <3>1. /\ run[p].at \in {"guard.py", "posttool", "vendor", "all vendor"}
          /\ run'[p].at \in {run[p].at, After(p)}
          /\ UNCHANGED <<plugin, daemon, cut>>
          /\ run[p].at # "guard.py" => stable'["guard.py"] = stable["guard.py"]
          /\ run[p].at # "posttool" => stable'["posttool"] = stable["posttool"]
          /\ plugin # None /\ run'[p].at # run[p].at =>
                /\ run[p].at = "guard.py" => stable'["guard.py"] = run[p].ver
                /\ run[p].at = "posttool" => stable'["posttool"] = run[p].ver
      BY <2>5, CopyPlaces
    <3>2. After(p) = IF run[p].at = "guard.py" THEN "posttool"
                     ELSE IF run[p].at = "posttool" THEN "vendor"
                     ELSE IF run[p].at = "vendor" THEN "daemon" ELSE "idle"
      BY <2>3, <2>4 DEF After
    <3>3. CASE run'[p].at = run[p].at
      BY <2>3, <2>4, <3>1, <3>3 DEF Same
    <3>4. CASE run[p].at = "guard.py" /\ run'[p].at = "posttool"
      BY <2>3, <2>4, <3>1, <3>4 DEF Same
    <3>5. CASE run[p].at = "posttool" /\ run'[p].at = "vendor"
      BY <2>3, <2>4, <3>1, <3>5 DEF Same
    <3>6. CASE run[p].at = "vendor" /\ run'[p].at = "daemon"
      BY <2>3, <2>4, <3>1, <3>6 DEF Same
    <3>. QED
      BY <2>3, <2>4, <3>1, <3>2, <3>3, <3>4, <3>5, <3>6
  <2>6. CASE RefreshDaemon(p)
    <3>1. /\ run[p].at = "daemon" /\ UNCHANGED <<plugin, stable>> /\ (cut => cut')
          /\ run'[p].at \in {"daemon", "kickstart", "all vendor"}
          /\ \/ daemon' = daemon /\ (daemon \in {None, Torn, run[p].ver} /\ ~run[p].copying)
             \/ daemon' = run[p].ver
             \/ run'[p].at = "daemon"
      BY <2>3, <2>4, <2>6, RefreshSteps
    <3>2. daemon = Torn /\ ~cut => run[p].copying
      <4>1. ASSUME daemon = Torn, ~cut PROVE run[p].copying
        <5>1. PICK r \in Proc : Copying(r)
          BY <4>1 DEF Restarts
        <5>2. Active(r)
          BY <5>1 DEF Copying, Active
        <5>3. r = p
          BY <2>2, <2>3, <5>2, NobodyElse DEF Refreshes
        <5>. QED
          BY <5>1, <5>3 DEF Copying
      <4>. QED
        BY <4>1
    <3>3. run'[p].at \in {"kickstart", "all vendor"} /\ ~cut' => daemon' \in {None, run[p].ver}
      BY <3>1, <3>2
    <3>. QED
      BY <2>3, <2>4, <3>1, <3>3 DEF Same
  <2>7. CASE Kickstart(p)
    <3>1. /\ run[p].at = "kickstart" /\ UNCHANGED <<plugin, stable, daemon, cut>>
          /\ run'[p].at = "all vendor"
      BY <2>7, KickSteps
    <3>. QED
      BY <2>3, <2>4, <3>1 DEF Same
  <2>8. CASE Read(p) \/ Open(p) \/ Write(p)
    BY <2>3, <2>4, <2>8, SettingsSteps DEF JobsMatch
  <2>9. CASE RemoveStable(p) \/ RemoveLaunchAgent(p) \/ RemovePlugin(p) \/ PurgeData(p)
    BY <2>3, <2>4, <2>9, RemoveSteps DEF JobsMatch, Installs
  <2>10. CASE Kill(p)
    BY <2>3, <2>4, <2>10, KillMoves
  <2>. QED
    BY <1>1, <2>5, <2>6, <2>7, <2>8, <2>9, <2>10 DEF Step
<1>2. ASSUME NEW p \in Proc, NEW b \in BOOLEAN, SessionStart(p, b) \/ Uninstall(p, b),
             NEW q \in Proc, Refreshes(q)'
      PROVE  Done(q)'
  <2>1. /\ UNCHANGED <<plugin, stable, daemon, cut>>
        /\ \A r \in Proc : r # p =>
              /\ run'[r].at = run[r].at /\ (run'[r].alone => run[r].alone /\ ~Active(r))
        /\ \/ run'[p].at = "guard.py" /\ plugin # None
           \/ run'[p].at = "read" /\ run'[p].job = "remove"
    BY <1>2, StartSteps
  <2>2. q = p
    BY <1>2, <2>1 DEF Refreshes, Active
  <2>3. run'[p].at = "guard.py" /\ plugin # None
    BY <1>2, <2>1, <2>2 DEF Refreshes
  <2>. QED
    BY <2>1, <2>2, <2>3
<1>3. ASSUME UNCHANGED <<run, stable, daemon, cut>>, plugin # None => plugin' # None,
             NEW q \in Proc, Refreshes(q)'
      PROVE  Done(q)'
  <2>1. Done(q)
    BY <1>3 DEF Copied, Refreshes, Active
  <2>. QED
    BY <1>3, <2>1
<1>4. CASE Publish
  <2>1. UNCHANGED <<run, stable, daemon, cut>> /\ plugin' \in Version
    BY <1>4 DEF Publish, history
  <2>2. plugin' # None
    BY <2>1, InstallAssumption DEF Version
  <2>. QED
    BY <1>3, <2>1, <2>2 DEF Copied
<1>5. CASE DaemonStarts \/ DaemonStops \/ (\E o \in SUBSET Foreign : UserEdits(o)) \/ UNCHANGED vars
  <2>1. UNCHANGED <<run, stable, daemon, cut, plugin>>
    BY <1>5 DEF DaemonStarts, DaemonStops, UserEdits, vars, places, history
  <2>. QED
    BY <1>3, <2>1 DEF Copied
<1>. QED
  BY <1>1, <1>2, <1>4, <1>5 DEF Next, Copied

\* The daemon that runs is the daemon's copy, unless a refresh is under way.
LEMMA RestartsStep == TypeOK /\ JobsMatch /\ UpdateInv /\ [Next]_vars => Restarts'
<1> SUFFICES ASSUME TypeOK, JobsMatch, Restarts, [Next]_vars PROVE Restarts'
  BY DEF UpdateInv
\* A step that leaves the daemon and those that refresh it alone.
<1>1. ASSUME UNCHANGED <<daemon, running, agent, cut>>,
             \A q \in Proc : /\ run'[q].at \in {"rm cache", "rm data"} => run[q].at \in {"rm cache", "rm data"}
                             /\ run'[q].at = "daemon" => (run'[q].copying => run'[q].changed)
                             /\ Pending(q) => Pending(q)'
                             /\ Copying(q) => Copying(q)'
      PROVE  Restarts'
  BY <1>1 DEF Restarts
<1>2. ASSUME NEW p \in Proc, Copy(p) \/ CopyVendor(p) PROVE Restarts'
  <2>1. /\ run[p].at \in {"guard.py", "posttool", "vendor", "all vendor"} /\ Others(p)
        /\ run'[p].at \in {run[p].at, After(p)}
        /\ run'[p].at # run[p].at => ~run'[p].copying
        /\ UNCHANGED <<daemon, agent, running, cut>>
    BY <1>2, CopyPlaces
  <2>2. After(p) \in {"posttool", "vendor", "read", "daemon", "idle"}
    BY DEF After
  <2>. QED
    BY <1>1, <2>1, <2>2 DEF Others, Restarts, Pending, Copying
<1>3. ASSUME NEW p \in Proc, Read(p) \/ Open(p) \/ Write(p) PROVE Restarts'
  <2>1. /\ run[p].at \in {"read", "open", "write"} /\ Others(p)
        /\ run'[p].at \in {"idle", "rm stable", "open", "write"}
        /\ UNCHANGED <<daemon, agent, running, cut>>
    BY <1>3, SettingsSteps
  <2>. QED
    BY <1>1, <2>1 DEF Others, Restarts, Pending, Copying
<1>4. ASSUME NEW p \in Proc, NEW b \in BOOLEAN, SessionStart(p, b) \/ Uninstall(p, b)
      PROVE  Restarts'
  <2>1. /\ UNCHANGED <<daemon, agent, running, cut>> /\ ~Active(p)
        /\ \A q \in Proc : q # p =>
              /\ run'[q].at = run[q].at
              /\ run'[q].copying = run[q].copying /\ run'[q].changed = run[q].changed
        /\ run'[p].at \in {"guard.py", "read"}
    BY <1>4, StartSteps
  <2>. QED
    BY <1>1, <2>1 DEF Restarts, Pending, Copying, Active
\* Removing: the agent goes first, and with it what runs.
<1>5. ASSUME NEW p \in Proc,
             RemoveStable(p) \/ RemoveLaunchAgent(p) \/ RemovePlugin(p) \/ PurgeData(p)
      PROVE  Restarts'
  <2>1. /\ run[p].at \in {"rm stable", "rm agent", "rm cache", "rm data"} /\ Others(p)
        /\ run'[p].at \in {"idle", "rm agent", "rm cache", "rm data"} /\ cut' = cut
        /\ IF run[p].at = "rm agent" THEN agent' = FALSE /\ running' = None
           ELSE UNCHANGED <<agent, running>>
        /\ run'[p].at \in {"rm cache", "rm data"} => run[p].at \in {"rm agent", "rm cache"}
        /\ daemon' = daemon \/ (daemon' = None /\ run[p].at = "rm data")
    BY <1>5, RemoveSteps
  <2>2. \A q \in Proc : (Pending(q) => Pending(q)') /\ (Copying(q) => Copying(q)')
    BY <2>1 DEF Others, Pending, Copying
  <2>3. ~agent' => running' = None
    BY <2>1 DEF Restarts
  <2>4. \A q \in Proc : run'[q].at \in {"rm cache", "rm data"} => ~agent'
    BY <2>1 DEF Restarts, Others
  <2>5. \A q \in Proc : run'[q].copying /\ run'[q].at = "daemon" => run'[q].changed
    BY <2>1 DEF Restarts, Others
  <2>6. ~cut' /\ daemon' = Torn => \E q \in Proc : Copying(q)'
    BY <2>1, <2>2, InstallAssumption DEF Restarts
  <2>7. CASE daemon' = daemon
    BY <2>1, <2>2, <2>3, <2>4, <2>5, <2>6, <2>7 DEF Restarts
  <2>8. CASE run[p].at = "rm data"
    <3>1. running' = None
      BY <2>1, <2>8 DEF Restarts
    <3>. QED
      BY <2>3, <2>4, <2>5, <2>6, <3>1 DEF Restarts
  <2>. QED
    BY <2>1, <2>7, <2>8
\* The daemon's copy is torn only while somebody copies it; who has changed it
\* restarts what runs.
<1>6. ASSUME NEW p \in Proc, RefreshDaemon(p) PROVE Restarts'
  <2>1. /\ run[p].at = "daemon" /\ Others(p) /\ UNCHANGED <<agent, running>>
        /\ cut' = (cut \/ (plugin = None /\ run[p].copying))
        /\ run'[p].at \in {"daemon", "kickstart", "all vendor"}
        /\ run'[p].copying => run'[p].changed
    BY <1>6, RefreshSteps
  <2>2. /\ ~agent' => running' = None
        /\ \A q \in Proc : run'[q].at \in {"rm cache", "rm data"} => ~agent'
        /\ \A q \in Proc : run'[q].copying /\ run'[q].at = "daemon" => run'[q].changed
    BY <2>1 DEF Restarts, Others
  <2>3. \A q \in Proc \ {p} : (Pending(q) => Pending(q)') /\ (Copying(q) => Copying(q)')
    BY <2>1 DEF Others, Pending, Copying
  <2>4. CASE daemon' = daemon /\ ~cut' /\ (plugin = None \/ ~run[p].copying)
             /\ run'[p].at = (IF run[p].changed /\ ~run[p].copying THEN "kickstart"
                             ELSE "all vendor")
             /\ (run'[p].at = "kickstart" => run'[p].changed)
    <3>1. ~cut /\ ~run[p].copying
      BY <2>1, <2>4
    <3>2. ~Copying(p) /\ (Pending(p) => Pending(p)')
      BY <2>1, <2>4, <3>1 DEF Copying, Pending
    <3>3. daemon' = Torn => \E q \in Proc : Copying(q)'
      BY <2>3, <2>4, <3>1, <3>2 DEF Restarts
    <3>4. running' \in {None, daemon'} \/ \E q \in Proc : Pending(q)'
      BY <2>1, <2>3, <2>4, <3>1, <3>2 DEF Restarts
    <3>. QED
      BY <2>2, <3>3, <3>4 DEF Restarts
  <2>5. CASE daemon' = run[p].ver /\ run'[p].at = "kickstart" /\ run'[p].changed
    <3>1. daemon' # Torn
      BY <2>5, InstallAssumption DEF TypeOK, Runs, Version
    <3>2. Pending(p)'
      BY <2>5 DEF Pending
    <3>. QED
      BY <2>2, <3>1, <3>2 DEF Restarts
  <2>6. CASE daemon' = Torn /\ run'[p].at = "daemon" /\ run'[p].changed /\ run'[p].copying
    <3>1. Pending(p)' /\ Copying(p)'
      BY <2>6 DEF Pending, Copying
    <3>. QED
      BY <2>2, <3>1 DEF Restarts
  <2>7. CASE cut'
    BY <2>2, <2>7 DEF Restarts
  <2>8. cut' \/ (~cut' /\ (plugin = None => ~run[p].copying))
    BY <2>1
  <2>. QED
    BY <1>6, <2>4, <2>5, <2>6, <2>7, <2>8, RefreshSteps
<1>7. ASSUME NEW p \in Proc, Kickstart(p) PROVE Restarts'
  <2>1. /\ run[p].at = "kickstart" /\ Others(p) /\ run'[p].at = "all vendor"
        /\ UNCHANGED <<daemon, agent, cut>> /\ running' = IF agent THEN daemon ELSE running
    BY <1>7, KickSteps
  <2>2. /\ ~agent' => running' = None
        /\ \A q \in Proc : run'[q].at \in {"rm cache", "rm data"} => ~agent'
        /\ \A q \in Proc : run'[q].copying /\ run'[q].at = "daemon" => run'[q].changed
    BY <2>1 DEF Restarts, Others
  <2>3. running' \in {None, daemon'}
    BY <2>1 DEF Restarts
  <2>4. \A q \in Proc : Copying(q) => Copying(q)'
    BY <2>1 DEF Others, Copying, Pending
  <2>. QED
    BY <2>1, <2>2, <2>3, <2>4 DEF Restarts
<1>8. ASSUME NEW p \in Proc, Kill(p) PROVE Restarts'
  <2>1. /\ UNCHANGED <<daemon, agent, running>> /\ Others(p) /\ run'[p].at = "idle"
        /\ cut' = (cut \/ (run[p].changed /\ run[p].at \in {"daemon", "kickstart"}))
    BY <1>8, KillMoves DEF Kill, places, Others
  <2>2. /\ ~agent' => running' = None
        /\ \A q \in Proc : run'[q].at \in {"rm cache", "rm data"} => ~agent'
        /\ \A q \in Proc : run'[q].copying /\ run'[q].at = "daemon" => run'[q].changed
    BY <2>1 DEF Restarts, Others
  <2>3. ~cut' => ~cut /\ ~Pending(p) /\ ~Copying(p)
    BY <2>1 DEF Pending, Copying
  <2>4. \A q \in Proc \ {p} : (Pending(q) => Pending(q)') /\ (Copying(q) => Copying(q)')
    BY <2>1 DEF Others, Pending, Copying
  <2>. QED
    BY <2>1, <2>2, <2>3, <2>4 DEF Restarts
<1>9. CASE DaemonStarts \/ DaemonStops
  <2>1. /\ UNCHANGED <<run, daemon, agent, cut>>
        /\ running' = None \/ (agent /\ running' = daemon)
    BY <1>9 DEF DaemonStarts, DaemonStops, history
  <2>2. \A q \in Proc : Copying(q) => Copying(q)'
    BY <2>1 DEF Copying, Pending
  <2>. QED
    BY <2>1, <2>2 DEF Restarts
<1>10. CASE Publish \/ (\E o \in SUBSET Foreign : UserEdits(o)) \/ UNCHANGED vars
  <2>1. UNCHANGED <<run, daemon, running, agent, cut>>
    BY <1>10 DEF Publish, UserEdits, vars, places, history
  <2>2. \A q \in Proc : (Pending(q) => Pending(q)') /\ (Copying(q) => Copying(q)')
    BY <2>1 DEF Copying, Pending
  <2>. QED
    BY <1>1, <2>1, <2>2 DEF Restarts
<1>. QED
  BY <1>2, <1>3, <1>4, <1>5, <1>6, <1>7, <1>8, <1>9, <1>10 DEF Next, Step

LEMMA UpdateInductive == Spec => [](IInv /\ UpdateInv)
<1>1. Init => UpdateInv
  BY UpdateInit
<1>2. IInv /\ UpdateInv /\ [Next]_vars => UpdateInv'
  BY AloneStep, CopiedStep, RestartsStep DEF IInv, UpdateInv
<1>. QED
  BY <1>1, <1>2, Inductive, PTL DEF Spec

\* A session that refreshes an armed machine alone leaves every script, the
\* daemon's copy and the daemon that runs at its version or gone, unless an
\* earlier refresh was cut short (_refresh_stable_scripts_if_armed).
THEOREM RefreshReachesAll == Spec => UpdateTakesEffect
<1> DEFINE Effect(p) == LET v == run[p].ver IN
                        /\ stable' = [s \in Script |-> v]
                        /\ cut \/ {daemon', running'} \subseteq {None, v}
<1>1. ASSUME IInv, UpdateInv, [Next]_vars, NEW p \in Proc, Finishes(p, "refresh")
      PROVE  Effect(p) \/ UNCHANGED vars
  <2>1. /\ TypeOK /\ JobsMatch /\ AloneMeans /\ Copied /\ Restarts
        /\ run[p].job = "refresh" /\ Refreshes(p) /\ run[p].at # "idle" /\ run'[p].at = "idle"
        /\ kills' = kills
    BY <1>1 DEF IInv, UpdateInv, Finishes, Refreshes, Active
  <2>2. ASSUME NEW q \in Proc, Step(q) PROVE Effect(p)
    <3>1. q = p
      BY <2>1, <2>2, Steady DEF Others
    <3>2. Copy(p) \/ CopyVendor(p)
      <4>1. ~RefreshDaemon(p)
        BY <2>1, RefreshSteps
      <4>2. ~Kickstart(p)
        BY <2>1, KickSteps
      <4>3. ~(Read(p) \/ Open(p) \/ Write(p))
        BY <2>1, SettingsSteps DEF JobsMatch
      <4>4. ~(RemoveStable(p) \/ RemoveLaunchAgent(p) \/ RemovePlugin(p) \/ PurgeData(p))
        BY <2>1, RemoveSteps DEF JobsMatch, Installs
      <4>. QED
        BY <2>2, <3>1, <4>1, <4>2, <4>3, <4>4 DEF Step
    <3>3. /\ run'[p].at \in {run[p].at, After(p)} /\ UNCHANGED <<daemon, running>>
          /\ run[p].at # "guard.py" => stable'["guard.py"] = stable["guard.py"]
          /\ run[p].at # "posttool" => stable'["posttool"] = stable["posttool"]
          /\ plugin # None /\ run'[p].at # run[p].at /\ run[p].at = "all vendor"
                => stable'["vendor"] = run[p].ver
      BY <2>1, <3>2, CopyPlaces
    <3>4. run[p].at = "all vendor"
      BY <2>1, <3>2, <3>3, CopyPlaces DEF After
    <3>5. /\ plugin # None /\ stable["guard.py"] = run[p].ver /\ stable["posttool"] = run[p].ver
          /\ cut \/ daemon \in {None, run[p].ver}
      BY <2>1, <3>4 DEF Copied
    <3>6. \A s \in Script : stable'[s] = run[p].ver
      BY <2>1, <3>3, <3>4, <3>5 DEF Script
    <3>7. stable' \in [Script -> File]
      BY <1>1, TypeStep DEF IInv, TypeOK
    <3>8. stable' = [s \in Script |-> run[p].ver]
      BY <3>6, <3>7
    <3>9. \A r \in Proc : ~Pending(r)
      <4>1. ASSUME NEW r \in Proc, Pending(r) PROVE FALSE
        <5>1. Active(r)
          BY <4>1 DEF Pending, Active
        <5>2. r = p
          BY <2>1, <5>1, NobodyElse DEF Refreshes
        <5>. QED
          BY <3>4, <4>1, <5>2 DEF Pending
      <4>. QED
        BY <4>1
    <3>10. cut \/ running \in {None, daemon}
      BY <2>1, <3>9 DEF Restarts
    <3>11. cut \/ {daemon', running'} \subseteq {None, run[p].ver}
      BY <3>3, <3>5, <3>10
    <3>. QED
      BY <3>8, <3>11
  <2>3. ASSUME NEW q \in Proc, Kill(q) PROVE FALSE
    BY <2>1, <2>3 DEF Kill, TypeOK
  <2>4. ASSUME NEW q \in Proc, NEW b \in BOOLEAN, SessionStart(q, b) \/ Uninstall(q, b)
        PROVE  FALSE
    BY <2>1, <2>4, StartSteps DEF Active
  <2>5. CASE Publish \/ DaemonStarts \/ DaemonStops \/ (\E o \in SUBSET Foreign : UserEdits(o))
    BY <2>1, <2>5 DEF Publish, DaemonStarts, DaemonStops, UserEdits
  <2>. QED
    BY <1>1, <2>2, <2>3, <2>4, <2>5 DEF Next
<1>2. IInv /\ UpdateInv /\ [Next]_vars =>
         [\A p \in Proc : Finishes(p, "refresh") =>
             LET v == run[p].ver IN
             /\ stable' = [s \in Script |-> v]
             /\ cut \/ {daemon', running'} \subseteq {None, v}]_vars
  BY <1>1
<1>. QED
  BY <1>2, UpdateInductive, PTL DEF Spec, UpdateTakesEffect

-----------------------------------------------------------------------------
(***************************************************************************)
(* The guard: its inductive invariant                                      *)
(***************************************************************************)

GuardTypes ==
    /\ marker \in [Folder -> Markers \cup {None, Torn}]
    /\ config \in Configs \cup {None, Torn}
    /\ pc \in {"idle", "load", "scan", "done"} /\ (pc # "idle" => call \in Call)

\* What the guard is judged by is never more than what there is now.
Watched ==
    pc \in {"load", "scan"} =>
        kept \subseteq G!Shielded(marker, config, call) /\ G!Grounds(marker, config, call) \subseteq met

\* What was protected when the configuration was loaded, and ever since, the
\* loaded configuration exempts from nothing; what it protects was a ground.
Exempts(n) == G!Exempt(n, cfg.allow, cfg.exts) \/ (call.kind = "bash" /\ ~cfg.bash)

Loaded ==
    pc = "scan" =>
        /\ \A k \in kept :
              /\ ~Exempts(k[1])
              /\ k[2] = "config" => Over[k[1]] \cap cfg.protected # {}
        /\ \A n \in G!CandidatePaths(call) :
              Over[Leads[n]] \cap cfg.protected # {} => n \in met

Watch == GuardTypes /\ Watched /\ Loaded /\ GuardHolds /\ DenialsHaveReasons

-----------------------------------------------------------------------------
(***************************************************************************)
(* The guard: trees, markers and the decision on one path                  *)
(***************************************************************************)

LEMMA GreatestDepth ==
    ASSUME NEW S \in SUBSET Folder, S # {}
    PROVE  \E d \in S : \A e \in S : Depth[e] <= Depth[d]
<1>1. G!Cardinality(Folder) \in Nat
  <2>1. IsFiniteSet(Folder)
    BY GuardAssumption DEF G!TreeAssumption, G!IsFiniteSet, IsFiniteSet
  <2>2. Cardinality(Folder) \in Nat
    BY <2>1, FS_CardinalityType
  <2>. QED
    BY <2>2 DEF G!Cardinality, Cardinality
<1> DEFINE N == G!Cardinality(Folder)
           Height == {N - Depth[d] : d \in S}
<1>2. \A d \in S : Depth[d] \in Nat /\ Depth[d] <= N
  BY <1>1, GuardAssumption DEF G!TreeAssumption
<1>3. Height \in SUBSET Nat /\ Height # {}
  BY <1>1, <1>2
<1>4. PICK i \in Height : \A j \in Height : <<j, i>> \notin OpToRel(<, Nat)
  BY <1>3, NatLessThanWellFounded, WFMin
<1>5. \A j \in Height : ~(j < i)
  BY <1>3, <1>4 DEF OpToRel
<1>6. PICK d \in S : i = N - Depth[d]
  BY <1>4
<1>7. \A e \in S : Depth[e] <= Depth[d]
  BY <1>1, <1>2, <1>5, <1>6
<1>. QED
  BY <1>6, <1>7

\* The nearest marker is a marker of a folder that the node lies in.
LEMMA NearestLaws ==
    ASSUME NEW n \in G!Node, G!Marked(n) # {}
    PROVE  /\ G!Nearest(n).at \in G!Marked(n)
           /\ LET at == G!Nearest(n).at
              IN  G!Nearest(n).data \in {G!Blank} \cup ({marker[at]} \ {Torn})
<1>1. G!Marked(n) \in SUBSET Folder
  BY GuardAssumption DEF G!TreeAssumption, G!Marked, G!Node
<1>2. \E d \in G!Marked(n) : \A e \in G!Marked(n) : Depth[e] <= Depth[d]
  BY <1>1, GreatestDepth
<1>. QED
  BY <1>2 DEF G!Nearest

\* Unprotected n means: no marker and no configuration that counts exempts n.
Counts(n, l) == ~G!Exempt(n, l.allow, l.exts) /\ (call.kind = "bash" => l.bash)

\* What is shielded is no marker file, and no list exempts it.
LEMMA ShieldLaws ==
    ASSUME NEW n, NEW means, <<n, means>> \in G!Shielded(marker, config, call)
    PROVE  /\ n \in G!ReadBy(call) /\ n \notin MarkerFile
           /\ \A d \in Folder : marker[d] \notin {None, Torn} => Counts(n, marker[d])
           /\ config \notin {None, Torn} => Counts(n, config)
           /\ means = "marker" => \E d \in Over[n] : marker[d] # None
           /\ means = "config" => /\ marker[Project] = None /\ config \in Configs
                                  /\ Over[n] \cap config.protected # {}
           /\ means \in {"marker", "config"}
<1>1. PICK m \in G!ReadBy(call) : <<n, means>> \in G!Shields(marker, config, call, m)
  BY DEF G!Shielded
<1> DEFINE lists == ({marker[d] : d \in Folder} \cup {config}) \ {None, Torn}
           open  == \E l \in lists : G!Exempt(m, l.allow, l.exts) \/ (call.kind = "bash" /\ ~l.bash)
<1>2. m = n /\ m \notin MarkerFile /\ ~open
  BY <1>1 DEF G!Shields
<1>3. \A l \in lists : Counts(n, l)
  BY <1>2 DEF Counts
<1>4. /\ means = "marker" => \E d \in Over[n] : marker[d] # None
      /\ means = "config" => /\ marker[Project] = None /\ config \in Configs
                             /\ Over[n] \cap config.protected # {}
      /\ means \in {"marker", "config"}
  BY <1>1, <1>2 DEF G!Shields
<1>6. \A d \in Folder : marker[d] \notin {None, Torn} => Counts(n, marker[d])
  BY <1>3
<1>7. config \notin {None, Torn} => Counts(n, config)
  BY <1>3
<1>. QED
  BY <1>1, <1>2, <1>4, <1>6, <1>7

LEMMA BlankCounts == \A n : Counts(n, G!Blank) /\ Counts(n, G!AsConfig(G!Blank))
<1>1. G!Blank # Torn
  BY GuardAssumption DEF G!ConfigAssumption, G!AsConfig, G!Blank
<1>. QED
  BY <1>1 DEF Counts, G!Exempt, G!AsConfig, G!Blank

\* What does not exempt n does not exempt what x stands for: n itself, or a
\* folder that n lies in.
LEMMA ExemptLess ==
    ASSUME NEW n, NEW y, y = n \/ (y \in Folder /\ y \in Over[n]), Over[y] \subseteq Over[n],
           NEW a, NEW e, G!Exempt(y, a, e), y \in Folder => y \notin Files
    PROVE  G!Exempt(n, a, e)
BY DEF G!Exempt

\* The guard blocks a path that it takes for what is protected or for a folder
\* around it, if it sees a marker there or the configuration names one; no
\* marker opts it out.
LEMMA Blocked ==
    ASSUME GuardTypes, NEW n \in G!Node, NEW x \in G!Node,
           n \notin MarkerFile, ~Exempts(n),
           \A d \in Folder : marker[d] \notin {None, Torn} => Counts(n, marker[d]),
           NEW y \in G!Node, y = G!Target(x),
           y = n \/ (y \in Folder /\ y \in Over[n]),
           G!Marked(y) # {} \/ Over[y] \cap cfg.protected # {}
    PROVE  G!DecideBlock(x, cfg) /\ (call.kind = "bash" => ~G!BashOptOut(x))
<1>1. Over[y] \subseteq Over[n] /\ (y \in Folder => y \notin Files) /\ y \notin MarkerFile
  BY GuardAssumption DEF G!TreeAssumption, G!Node
<1>2. ~G!Exempt(y, cfg.allow, cfg.exts)
  BY <1>1, ExemptLess DEF Exempts
<1>3. CASE G!Marked(y) # {}
  <2> DEFINE at == G!Nearest(y).at
             m  == G!Nearest(y).data
  <2>1. at \in G!Marked(y) /\ m \in {G!Blank} \cup ({marker[at]} \ {Torn})
    BY <1>3, NearestLaws
  <2> HIDE DEF at
  <2>2. at \in Folder /\ marker[at] # None
    BY <2>1, GuardAssumption DEF G!TreeAssumption, G!Marked, G!Node
  <2>3. Counts(n, m)
    BY <2>1, <2>2, BlankCounts
  <2> HIDE DEF m
  <2>4. ~G!Exempt(n, G!Or(m.allow, cfg.allow), G!Or(m.exts, cfg.exts))
    BY <2>3 DEF Counts, Exempts, G!Exempt, G!Or
  <2>5. ~G!Exempt(y, G!Or(m.allow, cfg.allow), G!Or(m.exts, cfg.exts))
    BY <1>1, <2>4, ExemptLess
  <2>6. G!DecideBlock(x, cfg)
    BY <1>1, <1>3, <2>5 DEF G!DecideBlock, m
  <2>7. call.kind = "bash" => ~G!BashOptOut(x)
    BY <2>3 DEF Counts, G!BashOptOut, m
  <2>. QED
    BY <2>6, <2>7
<1>4. CASE G!Marked(y) = {} /\ Over[y] \cap cfg.protected # {}
  BY <1>1, <1>2, <1>4 DEF G!DecideBlock, G!BashOptOut
<1>. QED
  BY <1>3, <1>4

\* What loading a configuration that can be parsed gives.
LEMMA LoadLaws ==
    ASSUME GuardTypes, NEW c, c = G!LoadConfig
    PROVE  /\ c = Torn => Torn \in {config, marker[Project]}
           /\ c # Torn => \/ /\ marker[Project] \notin {None, Torn}
                             /\ c.protected = {} /\ c.allow = marker[Project].allow
                             /\ c.exts = marker[Project].exts /\ c.bash = marker[Project].bash
                          \/ config \in Configs /\ marker[Project] = None /\ c = config
                          \/ c = G!AsConfig(G!Blank) /\ marker[Project] = None /\ config = None
<1>1. Project \in Folder /\ marker[Project] \in Markers \cup {None, Torn}
  BY GuardAssumption DEF G!TreeAssumption, GuardTypes
<1>2. CASE marker[Project] # None
  <2>1. c = G!AsConfig(marker[Project])
    BY <1>2 DEF G!LoadConfig
  <2>2. marker[Project] # Torn => c # Torn
    BY <1>1, <1>2, <2>1, GuardAssumption DEF G!ConfigAssumption
  <2>3. marker[Project] # Torn =>
           /\ c.protected = {} /\ c.allow = marker[Project].allow
           /\ c.exts = marker[Project].exts /\ c.bash = marker[Project].bash
    BY <2>1 DEF G!AsConfig
  <2>4. marker[Project] = Torn => c = Torn
    BY <2>1 DEF G!AsConfig
  <2>. QED
    BY <1>2, <2>2, <2>3, <2>4
<1>3. CASE marker[Project] = None /\ config # None
  BY <1>3 DEF G!LoadConfig, GuardTypes
<1>4. CASE marker[Project] = None /\ config = None
  <2>1. c = G!AsConfig(G!Blank)
    BY <1>4 DEF G!LoadConfig
  <2>2. c # Torn
    BY <2>1, GuardAssumption DEF G!ConfigAssumption
  <2>. QED
    BY <1>4, <2>1, <2>2
<1>. QED
  BY <1>2, <1>3, <1>4

\* ... and it exempts nothing that is shielded.
LEMMA LoadShields ==
    ASSUME GuardTypes, NEW c, c = G!LoadConfig, c # Torn,
           NEW n, NEW means, <<n, means>> \in G!Shielded(marker, config, call)
    PROVE  Counts(n, c) /\ (means = "config" => Over[n] \cap c.protected # {})
<1>1. CASE /\ marker[Project] \notin {None, Torn}
           /\ c.protected = {} /\ c.allow = marker[Project].allow
           /\ c.exts = marker[Project].exts /\ c.bash = marker[Project].bash
  <2>1. Counts(n, marker[Project]) /\ means # "config"
    BY <1>1, ShieldLaws, GuardAssumption DEF G!TreeAssumption
  <2>. QED
    BY <1>1, <2>1 DEF Counts
<1>2. CASE config \in Configs /\ marker[Project] = None /\ c = config
  <2>1. config \notin {None, Torn}
    BY <1>2, GuardAssumption DEF G!TreeAssumption
  <2>. QED
    BY <1>2, <2>1, ShieldLaws
<1>3. CASE c = G!AsConfig(G!Blank) /\ marker[Project] = None /\ config = None
  <2>1. config \notin Configs
    BY <1>3, GuardAssumption DEF G!TreeAssumption
  <2>. QED
    BY <1>3, <2>1, ShieldLaws, BlankCounts
<1>. QED
  BY <1>1, <1>2, <1>3, LoadLaws

-----------------------------------------------------------------------------
(***************************************************************************)
(* The guard: shell commands                                               *)
(***************************************************************************)

LEMMA WordLaws ==
    ASSUME NEW c \in G!Command
    PROVE  LET r == G!ResolveAssignments(c) IN
           /\ r.cwd = c.cwd /\ r.cd = c.cd /\ r.to = c.to /\ r.named = c.named
           /\ r.after = c.after /\ r.reader = c.reader /\ r.eval = c.eval
           /\ r.word.ns = c.word.ns /\ r.word.base = c.word.base /\ r.word.node = c.word.node
           /\ r.word.form = IF c.word.form = "var" THEN "abs" ELSE c.word.form
BY DEF G!ResolveAssignments, G!Command, G!Place

LEMMA CommandTypes ==
    ASSUME NEW c \in Call, c.kind = "bash"
    PROVE  /\ c.cmd \in G!Command /\ c.cmd.word.node \in G!Node
           /\ c.cmd.cwd.ns \in {"host", "mnt"} /\ c.cmd.to.ns \in {"host", "mnt"}
           /\ c.cmd.word.ns \in {"host", "mnt"} /\ c.cmd.after \in BOOLEAN
           /\ c.cmd.cd \in {"none", "plain", "spaced", "unseen", "hidden", "unresolvable"}
           /\ c.cmd.word.form \in {"abs", "rel", "bare", "var", "glob", "wild", "opaque"}
<1>1. c.cmd \in G!Command
  BY GuardAssumption DEF G!CallAssumption
<1>. QED
  BY <1>1 DEF G!Command, G!Place, G!Namespace

\* What a call reads lies below the node that the shell takes its path for.
LEMMA ReadsBelow ==
    ASSUME NEW c \in Call, NEW n \in G!ReadBy(c)
    PROVE  /\ G!Named(c) \in G!Node /\ Leads[G!Named(c)] \in G!Node
           /\ n \in G!Node /\ Leads[n] = n /\ n \in G!Below[Leads[G!Named(c)]]
           /\ c.kind = "bash" /\ c.cmd.word.form \in {"rel", "bare"} =>
                 c.cmd.word.base = G!At(c.cmd).dir
<1>1. G!Named(c) \in G!Node
  BY CommandTypes, GuardAssumption DEF G!CallAssumption, G!Named, G!ReadBy
<1>2. Leads[G!Named(c)] \in G!Node
  BY <1>1, GuardAssumption DEF G!TreeAssumption, G!Node
<1>3. /\ n \in G!Below[Leads[G!Named(c)]]
      /\ c.kind = "bash" /\ c.cmd.word.form \in {"rel", "bare"} =>
            c.cmd.word.base = G!At(c.cmd).dir
  BY DEF G!ReadBy, G!Reads, G!Named
<1>4. \E m \in G!Node : n = Leads[m]
  BY <1>2, <1>3 DEF G!Below
<1>5. n \in G!Node /\ Leads[n] = n
  BY <1>4, GuardAssumption DEF G!TreeAssumption, G!Node
<1>. QED
  BY <1>1, <1>2, <1>3, <1>5

\* The guard sees what protects n over the node that the path leads to, unless
\* the search starts above it or a look-up fails.
LEMMA Seen ==
    ASSUME GuardTypes, call \in Call, NEW n \in G!ReadBy(call), NEW means \in {"marker", "config"},
           means = "marker" => \E d \in Over[n] : marker[d] # None,
           means = "config" => Over[n] \cap cfg.protected # {},
           ~G!SearchedFromAbove(call, n, means), ~G!LookupsFailed(call, means)
    PROVE  LET t == Leads[G!Named(call)] IN
           /\ t = n \/ (t \in Folder /\ t \in Over[n])
           /\ means = "config" => Over[t] \cap cfg.protected # {}
           /\ ~G!OnMount(call) => /\ G!Target(G!Named(call)) = t /\ G!Target(t) = t
                                  /\ G!Marked(t) # {} \/ Over[t] \cap cfg.protected # {}
                                  /\ call.kind = "bash" => ~G!Fails("stat", t)
<1> DEFINE t == Leads[G!Named(call)]
<1>1. t \in G!Node /\ n \in G!Node /\ Over[n] \subseteq Folder /\ Leads[t] = t
  BY ReadsBelow, GuardAssumption DEF G!TreeAssumption, G!Node
<1>2. t = n \/ (t \in Folder /\ t \in Over[n])
  BY <1>1 DEF G!SearchedFromAbove
<1>3. means = "config" => Over[t] \cap cfg.protected # {}
  BY <1>2 DEF G!SearchedFromAbove
<1>4. ASSUME ~G!OnMount(call)
      PROVE  /\ G!Target(G!Named(call)) = t /\ G!Target(t) = t
             /\ G!Marked(t) # {} \/ Over[t] \cap cfg.protected # {}
             /\ call.kind = "bash" => ~G!Fails("stat", t)
  <2>1. G!Target(G!Named(call)) = t /\ G!Target(t) = t
    BY <1>1, <1>4 DEF G!LookupsFailed, G!Target
  <2>2. call.kind = "bash" \/ means = "marker" => ~G!Fails("stat", t)
    BY <1>4 DEF G!LookupsFailed
  <2>3. means = "marker" => \E d \in Over[t] : marker[d] # None /\ ~G!Fails("marker", d)
    BY <1>4 DEF G!LookupsFailed
  <2>4. means = "marker" => G!Marked(t) # {}
    BY <2>2, <2>3 DEF G!Marked
  <2>. QED
    BY <1>3, <2>1, <2>2, <2>4
<1>. QED
  BY <1>2, <1>3, <1>4

\* What the guard does not give up, it denies.
LEMMA ShellDenied ==
    ASSUME GuardTypes, call \in Call, call.kind = "bash", NEW n, NEW means,
           <<n, means>> \in G!Shielded(marker, config, call), ~Exempts(n),
           means = "config" => Over[n] \cap cfg.protected # {},
           ~G!SearchedFromAbove(call, n, means), ~G!LookupsFailed(call, means),
           ~G!Residual(call, n, means)
    PROVE  G!Denies(call)
<1> DEFINE c == call.cmd
           w == c.word
           t == Leads[w.node]
           r == G!ResolveAssignments(c)
           path(p) == [ns |-> p, node |-> w.node]
<1>1. /\ c \in G!Command /\ w.node \in G!Node
      /\ c.cwd.ns \in {"host", "mnt"} /\ c.to.ns \in {"host", "mnt"} /\ w.ns \in {"host", "mnt"}
      /\ c.cd \in {"none", "plain", "spaced", "unseen", "hidden", "unresolvable"}
      /\ c.after \in BOOLEAN
      /\ w.form \in {"abs", "rel", "bare", "var", "glob", "wild", "opaque"}
  BY CommandTypes
<1>2. /\ r.cwd = c.cwd /\ r.cd = c.cd /\ r.to = c.to /\ r.named = c.named
      /\ r.after = c.after /\ r.reader = c.reader /\ r.eval = c.eval
      /\ r.word.ns = w.ns /\ r.word.base = w.base /\ r.word.node = w.node
      /\ r.word.form = IF w.form = "var" THEN "abs" ELSE w.form
  BY <1>1, WordLaws
<1>3. /\ n \in G!ReadBy(call) /\ n \notin MarkerFile /\ means \in {"marker", "config"}
      /\ \A d \in Folder : marker[d] \notin {None, Torn} => Counts(n, marker[d])
      /\ means = "marker" => \E d \in Over[n] : marker[d] # None
  BY ShieldLaws
<1>4. G!Named(call) = w.node
  BY DEF G!Named
<1>5. /\ n \in G!Node /\ t \in G!Node
      /\ w.form \in {"rel", "bare"} => w.base = G!At(c).dir
  BY <1>3, <1>4, ReadsBelow
<1>6. /\ t = n \/ (t \in Folder /\ t \in Over[n])
      /\ means = "config" => Over[t] \cap cfg.protected # {}
      /\ ~G!OnMount(call) => /\ G!Target(w.node) = t /\ G!Target(t) = t
                             /\ G!Marked(t) # {} \/ Over[t] \cap cfg.protected # {}
                             /\ ~G!Fails("stat", t)
  BY <1>3, <1>4, Seen
<1>7. ~G!OnMount(call) => \A x \in {t, w.node} : G!DecideBlock(x, cfg) /\ ~G!BashOptOut(x)
  BY <1>1, <1>3, <1>5, <1>6, Blocked
<1>8. cfg.bash
  BY DEF Exempts
<1> HIDE DEF r
<1> SUFFICES G!DenyBash(r)
  BY DEF G!Denies, r
\* A path on the host: the guard decides on it.
<1>9. ASSUME path("host") \in G!CommandPaths(r, G!EffectiveCwd(r)), ~G!OnMount(call)
      PROVE  G!DenyBash(r)
  <2>1. path("host").ns = "host" /\ path("host").node = w.node
    OBVIOUS
  <2>2. G!DeniedByPath(r)
    BY <1>7, <1>9, <2>1 DEF G!DeniedByPath
  <2>. QED
    BY <1>8, <2>2 DEF G!DenyBash
\* A path in the mounts: denied, unless it is in one of the assistant's own.
<1>10. ASSUME path("mnt") \in G!CommandPaths(r, r.cwd) \cup G!CommandPaths(r, G!EffectiveCwd(r)),
              G!OnMount(call)
       PROVE  G!DenyBash(r)
  <2>1. \E m \in Over[w.node] \cap Mounted : m \notin Infra \/ m \in cfg.protected
    <3>1. CASE Over[w.node] \cap Mounted \subseteq Infra
      <4>1. /\ means = "config" /\ t = w.node
            /\ Over[w.node] \cap Mounted # {} /\ Over[w.node] \subseteq Mounted
        BY <1>3, <1>10, <3>1 DEF G!Residual, G!InOwnMount
      <4>. QED
        BY <1>6, <4>1
    <3>. QED
      BY <3>1
  <2>2. path("mnt").ns = "mnt" /\ path("mnt").node = w.node
    OBVIOUS
  <2>3. G!DeniedByMount(r)
    BY <1>10, <2>1, <2>2 DEF G!DeniedByMount
  <2>. QED
    BY <1>8, <2>3 DEF G!DenyBash
<1>11. CASE w.form \in {"abs", "var", "glob"}
  <2>1. path(w.ns) \in G!CommandPaths(r, G!EffectiveCwd(r))
    <3>1. CASE w.form \in {"abs", "var"}
      BY <1>2, <3>1 DEF G!CommandPaths, G!Literal
    <3>2. CASE w.form = "glob"
      <4>1. w.ns = "mnt" \/ ~G!Fails("stat", t)
        BY <1>1, <1>6, <3>2 DEF G!OnMount
      <4>. QED
        BY <1>2, <3>2, <4>1 DEF G!CommandPaths, G!GlobPaths
    <3>. QED
      BY <1>11, <3>1, <3>2
  <2>2. G!OnMount(call) <=> w.ns = "mnt"
    BY <1>11 DEF G!OnMount
  <2>. QED
    BY <1>1, <1>9, <1>10, <2>1, <2>2
\* A pattern stands for the marked folders that it reaches.
<1>12. CASE w.form = "wild"
  <2>1. means = "marker" /\ w.ns = "host"
    BY <1>1, <1>3, <1>12 DEF G!Residual
  <2>2. PICK d \in Over[n] : /\ marker[d] # None /\ w.base \in Over[d]
                             /\ ~G!Fails("walk", d) /\ ~G!Fails("marker", d) /\ ~G!Fails("stat", d)
    BY <1>12, <2>1 DEF G!Residual
  <2>3. d \in Folder /\ d \in G!Node /\ Leads[d] = d /\ d \in Over[d]
    BY <1>5, <2>2, GuardAssumption DEF G!TreeAssumption, G!Node
  <2>4. G!Marked(d) # {} /\ G!Target(d) = d /\ G!Walked(d)
    BY <2>2, <2>3 DEF G!Marked, G!Target, G!Walked
  <2>5. G!DecideBlock(d, cfg) /\ ~G!BashOptOut(d)
    BY <1>3, <1>5, <2>2, <2>3, <2>4, Blocked
  <2> DEFINE u == [ns |-> "host", node |-> d]
  <2>6. u \in G!CommandPaths(r, G!EffectiveCwd(r))
    BY <1>2, <1>12, <2>1, <2>2, <2>3, <2>4 DEF G!CommandPaths, G!GlobPaths
  <2>7. u.ns = "host" /\ u.node = d
    OBVIOUS
  <2> HIDE DEF u
  <2>8. G!DeniedByPath(r)
    BY <2>5, <2>6, <2>7 DEF G!DeniedByPath
  <2>. QED
    BY <1>8, <2>8 DEF G!DenyBash
\* A relative path that the guard takes from the directory where it is read.
<1>13. CASE w.form = "rel" /\ G!EffectiveCwd(r) = G!At(c)
  <2>1. path(G!At(c).ns) \in G!CommandPaths(r, G!EffectiveCwd(r))
    BY <1>2, <1>5, <1>13 DEF G!CommandPaths
  <2>2. G!OnMount(call) <=> G!At(c).ns = "mnt"
    BY <1>13 DEF G!OnMount
  <2>3. G!At(c).ns \in {"host", "mnt"}
    BY <1>1 DEF G!At
  <2>. QED
    BY <1>9, <1>10, <2>1, <2>2, <2>3
\* ... from the event's directory, before the directory is changed.
<1>14. CASE w.form = "rel" /\ c.cd \in {"plain", "spaced"} /\ ~c.after
  <2>1. c.cwd.ns = "mnt" /\ G!At(c) = c.cwd
    BY <1>1, <1>14 DEF G!Residual, G!At
  <2>2. path("mnt") \in G!CommandPaths(r, r.cwd)
    BY <1>2, <1>5, <1>14, <2>1 DEF G!CommandPaths
  <2>3. G!OnMount(call)
    BY <1>14, <2>1 DEF G!OnMount
  <2>. QED
    BY <1>10, <2>2, <2>3
\* ... or that it denies, because it cannot tell from which.
<1>15. CASE w.form = "rel" /\ c.cd = "hidden" /\ c.after
  <2>1. c.to.ns = "mnt" /\ c.named
    BY <1>15 DEF G!Residual, G!Misled
  <2> DEFINE u == [ns |-> c.to.ns, node |-> c.to.dir]
  <2>2. u \in G!Literal(r)
    BY <1>2, <1>15, <2>1 DEF G!Literal, G!CdTarget
  <2>3. u.ns = "mnt"
    BY <2>1
  <2> HIDE DEF u
  <2>4. G!DeniedByClass(r)
    BY <1>2, <1>15, <2>2, <2>3 DEF G!DeniedByClass, G!HidingConstruct, G!MentionsSessionMnt
  <2>. QED
    BY <1>8, <2>4 DEF G!DenyBash
<1>16. CASE w.form = "rel" /\ c.cd = "unresolvable" /\ c.after
  <2>1. ~host
    BY <1>16 DEF G!Residual, G!Misled
  <2>2. G!DeniedByClass(r)
    BY <1>2, <1>16, <2>1 DEF G!DeniedByClass, G!RelativeRead
  <2>. QED
    BY <1>8, <2>2 DEF G!DenyBash
<1>17. CASE w.form = "rel"
  <2>1. \/ c.cd \in {"none", "plain"} /\ c.after
        \/ c.cd \notin {"plain", "spaced"} /\ ~c.after
        \/ c.cd \in {"plain", "spaced"} /\ ~c.after
        \/ c.cd \in {"hidden", "unresolvable"} /\ c.after
    BY <1>1, <1>17 DEF G!Residual, G!Misled
  <2>2. \/ c.cd \in {"none", "plain"} /\ c.after
        \/ c.cd \notin {"plain", "spaced"} /\ ~c.after
        => G!EffectiveCwd(r) = G!At(c)
    BY <1>1, <1>2 DEF G!EffectiveCwd, G!At
  <2>. QED
    BY <1>13, <1>14, <1>15, <1>16, <1>17, <2>1, <2>2
\* A bare word, read from outside the folder.
<1>18. CASE w.form = "bare"
  <2>1. /\ c.cd = "none" \/ ~c.after
        /\ c.cwd.ns = "host" /\ G!RootsOver(t) \cap Over[c.cwd.dir] = {}
    BY <1>1, <1>18 DEF G!Residual
  <2>2. G!At(c) = c.cwd
    BY <1>1, <2>1 DEF G!At
  <2>3. ~G!OnMount(call) /\ w.base = c.cwd.dir
    BY <1>5, <1>18, <2>1, <2>2 DEF G!OnMount
  <2>4. G!DeniedByBareWord(r)
    BY <1>2, <1>6, <1>7, <1>18, <2>1, <2>3 DEF G!DeniedByBareWord
  <2>. QED
    BY <1>8, <2>4 DEF G!DenyBash
<1>19. w.form # "opaque"
  BY DEF G!Residual
<1>. QED
  BY <1>1, <1>11, <1>12, <1>17, <1>18, <1>19

-----------------------------------------------------------------------------
(***************************************************************************)
(* The guard: its steps                                                    *)
(***************************************************************************)

LEMMA PairsShielded ==
    \A mk, cf, c : \A k \in G!Shielded(mk, cf, c) : k = <<k[1], k[2]>> /\ k[2] \in {"marker", "config"}
<1>1. ASSUME NEW mk, NEW cf, NEW c, NEW n, NEW k \in G!Shields(mk, cf, c, n)
      PROVE  k = <<k[1], k[2]>> /\ k[2] \in {"marker", "config"}
  <2>1. k \in {<<n, "marker">>, <<n, "config">>}
    BY <1>1 DEF G!Shields
  <2>. QED
    BY <2>1
<1>. QED
  BY <1>1 DEF G!Shielded

LEMMA CallKinds ==
    \A c \in Call : \/ c.kind = "bash"
                    \/ c.kind \in {"file", "search", "names", "mail", "nofile"} /\ c.node \in G!Node
BY GuardAssumption DEF G!CallAssumption

LEMMA WatchInit == G!Init => Watch
<1> SUFFICES ASSUME G!Init PROVE Watch
  OBVIOUS
<1>1. pc = "idle" /\ config = None /\ marker \in [Folder -> {None}]
  BY DEF G!Init
<1>2. GuardTypes
  BY <1>1 DEF GuardTypes
<1>. QED
  BY <1>1, <1>2 DEF Watch, Watched, Loaded, GuardHolds, DenialsHaveReasons,
                    G!GuardHolds, G!DenialsHaveReasons

LEMMA WatchEvent == ASSUME Watch, NEW c \in Call, G!Event(c) PROVE Watch'
<1>1. /\ pc' = "load" /\ call' = c /\ marker' = marker /\ config' = config
      /\ kept' = G!Shielded(marker, config, c) /\ met' = G!Grounds(marker, config, c)
  BY DEF G!Event
<1>2. GuardTypes'
  BY <1>1 DEF Watch, GuardTypes
<1>3. Watched'
  BY <1>1 DEF Watched
<1>. QED
  BY <1>1, <1>2, <1>3 DEF Watch, Loaded, GuardHolds, DenialsHaveReasons,
                          G!GuardHolds, G!DenialsHaveReasons

LEMMA WatchLoad == ASSUME Watch, G!Load PROVE Watch'
<1>1. /\ pc = "load" /\ UNCHANGED <<marker, config, host, call, kept>>
      /\ \/ G!LoadConfig = Torn /\ pc' = "done" /\ verdict' = "deny" /\ met' = met
         \/ G!LoadConfig # Torn /\ pc' = "scan" /\ cfg' = G!LoadConfig /\ met' = met
         \/ pc' = "done" /\ verdict' = "deny" /\ met' = met \cup {"unread"}
  BY DEF G!Load, G!Say
<1>2. /\ GuardTypes /\ call \in Call
      /\ kept \subseteq G!Shielded(marker, config, call) /\ G!Grounds(marker, config, call) \subseteq met
  BY <1>1 DEF Watch, Watched, GuardTypes
<1>3. GuardTypes' /\ Watched'
  BY <1>1, <1>2 DEF GuardTypes, Watched
<1>4. CASE G!LoadConfig = Torn /\ pc' = "done" /\ verdict' = "deny" /\ met' = met
  <2>1. "torn" \in met
    BY <1>2, <1>4, LoadLaws DEF G!Grounds
  <2>. QED
    BY <1>1, <1>3, <1>4, <2>1 DEF Watch, Loaded, GuardHolds, DenialsHaveReasons,
                                  G!GuardHolds, G!DenialsHaveReasons
<1>5. CASE G!LoadConfig # Torn /\ pc' = "scan" /\ cfg' = G!LoadConfig /\ met' = met
  <2>1. ASSUME NEW k \in kept
        PROVE  Counts(k[1], cfg') /\ (k[2] = "config" => Over[k[1]] \cap cfg'.protected # {})
    <3>1. k = <<k[1], k[2]>> /\ k \in G!Shielded(marker, config, call)
      BY <1>2, PairsShielded
    <3>2. <<k[1], k[2]>> \in G!Shielded(marker, config, call)
      BY <3>1
    <3>. QED
      BY <1>2, <1>5, <3>2, LoadShields
  <2>2. ASSUME NEW n \in G!CandidatePaths(call), Over[Leads[n]] \cap cfg'.protected # {}
        PROVE  n \in met
    <3>1. cfg'.protected = {} \/ (config \in Configs /\ cfg' = config)
      BY <1>2, <1>5, LoadLaws DEF G!AsConfig, G!Blank
    <3>2. config \in Configs /\ \E d \in Over[Leads[n]] : d \in config.protected
      BY <2>2, <3>1
    <3>3. n \in G!Grounds(marker, config, call)
      BY <3>2 DEF G!Grounds
    <3>. QED
      BY <1>2, <3>3
  <2>3. Loaded'
    BY <1>1, <2>1, <2>2 DEF Loaded, Exempts, Counts, G!CandidatePaths
  <2>. QED
    BY <1>1, <1>3, <1>5, <2>3 DEF Watch, GuardHolds, DenialsHaveReasons,
                                  G!GuardHolds, G!DenialsHaveReasons
<1>6. CASE pc' = "done" /\ verdict' = "deny" /\ met' = met \cup {"unread"}
  BY <1>1, <1>3, <1>6 DEF Watch, Loaded, GuardHolds, DenialsHaveReasons,
                          G!GuardHolds, G!DenialsHaveReasons
<1>. QED
  BY <1>1, <1>4, <1>5, <1>6

\* What excuses a call that passes stays as it is until the hook returns.
Excused(n, means) ==
    \/ call.kind = "search"
    \/ G!SearchedFromAbove(call, n, means) \/ G!LookupsFailed(call, means)
    \/ call.kind = "bash" /\ G!Residual(call, n, means)

LEMMA RootsSteady ==
    ASSUME marker' = marker, cfg' = cfg, lapse' = lapse, NEW n
    PROVE  G!RootsOver(n)' = G!RootsOver(n)
BY DEF G!RootsOver, G!Nearest, G!Marked, G!Fails

LEMMA ExcusesSteady ==
    ASSUME marker' = marker, host' = host, call' = call, cfg' = cfg, lapse' = lapse,
           NEW n, NEW means
    PROVE  Excused(n, means)' <=> Excused(n, means)
<1>1. G!Residual(call, n, means)' <=> G!Residual(call, n, means)
  BY RootsSteady DEF G!Residual, G!Misled, G!InOwnMount, G!OnMount, G!At, G!Fails
<1>2. G!SearchedFromAbove(call, n, means)' <=> G!SearchedFromAbove(call, n, means)
  BY DEF G!SearchedFromAbove, G!Named
<1>3. G!LookupsFailed(call, means)' <=> G!LookupsFailed(call, means)
  BY DEF G!LookupsFailed, G!Named, G!OnMount, G!At, G!Fails
<1>. QED
  BY <1>1, <1>2, <1>3 DEF Excused

LEMMA WatchScan == ASSUME Watch, G!Scan PROVE Watch'
<1>1. /\ pc = "scan" /\ UNCHANGED <<marker, config, host, call, cfg, lapse, kept, met>>
      /\ pc' = "done" /\ verdict' = IF G!Denies(call) THEN "deny" ELSE "allow"
  BY DEF G!Scan, G!Say
<1>2. /\ GuardTypes /\ Loaded /\ call \in Call
      /\ kept \subseteq G!Shielded(marker, config, call) /\ G!Grounds(marker, config, call) \subseteq met
  BY <1>1 DEF Watch, Watched, GuardTypes
<1>3. GuardTypes' /\ Watched' /\ Loaded'
  BY <1>1, <1>2 DEF GuardTypes, Watched, Loaded
\* What passes: a file tool's path would have been blocked.
<1>4. ASSUME NEW n \in G!ReadBy(call), NEW means \in {"marker", "config"},
             <<n, means>> \in kept, ~Excused(n, means)
      PROVE  G!Denies(call)
  <2>1. /\ <<n, means>> \in G!Shielded(marker, config, call) /\ ~Exempts(n)
        /\ means = "config" => Over[n] \cap cfg.protected # {}
    <3>1. ~Exempts(<<n, means>>[1]) /\ (means = "config" => Over[<<n, means>>[1]] \cap cfg.protected # {})
      BY <1>1, <1>2, <1>4 DEF Loaded
    <3>. QED
      BY <1>2, <1>4, <3>1
  <2>2. CASE call.kind = "bash"
    BY <1>2, <1>4, <2>1, <2>2, ShellDenied DEF Excused
  <2>3. CASE call.kind = "file"
    <3> DEFINE t == Leads[call.node]
    <3>1. G!Named(call) = call.node /\ ~G!OnMount(call)
      BY <2>3 DEF G!Named, G!OnMount
    <3>2. n \in G!Node /\ t \in G!Node /\ call.node \in G!Node
      BY <1>2, <1>4, <3>1, ReadsBelow
    <3>3. /\ n \notin MarkerFile
          /\ \A d \in Folder : marker[d] \notin {None, Torn} => Counts(n, marker[d])
          /\ means = "marker" => \E d \in Over[n] : marker[d] # None
      BY <2>1, ShieldLaws
    <3>4. ~G!SearchedFromAbove(call, n, means) /\ ~G!LookupsFailed(call, means)
      BY <1>4 DEF Excused
    <3>5. /\ t = n \/ (t \in Folder /\ t \in Over[n])
          /\ G!Target(call.node) = t /\ (G!Marked(t) # {} \/ Over[t] \cap cfg.protected # {})
      BY <1>2, <1>4, <2>1, <3>1, <3>3, <3>4, Seen
    <3>6. G!DecideBlock(call.node, cfg)
      BY <1>2, <2>1, <3>2, <3>3, <3>5, Blocked
    <3>. QED
      BY <2>3, <3>6 DEF G!Denies, G!CandidatePaths
  <2>4. CASE call.kind \in {"names", "mail", "nofile"}
    BY <1>4, <2>4 DEF G!ReadBy
  <2>. QED
    BY <1>2, <1>4, <2>2, <2>3, <2>4, CallKinds DEF Excused
\* What is denied: its path is marked now or was protected.
<1>5. ASSUME G!Denies(call), call.kind # "bash"
      PROVE  call.kind = "file" /\ (G!Fails("link", call.node) \/ call.node \in met)
  <2>1. call.kind = "file" /\ G!DecideBlock(call.node, cfg)
    BY <1>2, <1>5, CallKinds DEF G!Denies, G!CandidatePaths
  <2>2. call.node \in G!CandidatePaths(call)
    BY <2>1 DEF G!CandidatePaths
  <2> SUFFICES ASSUME ~G!Fails("link", call.node) PROVE call.node \in met
    BY <2>1
  <2>3. G!Target(call.node) = Leads[call.node]
    BY DEF G!Target
  <2>4. CASE G!Marked(Leads[call.node]) # {}
    <3>1. call.node \in G!Grounds(marker, config, call)
      BY <2>2, <2>4 DEF G!Grounds, G!Marked
    <3>. QED
      BY <1>2, <3>1
  <2>5. CASE G!Marked(Leads[call.node]) = {}
    <3>1. Over[Leads[call.node]] \cap cfg.protected # {}
      BY <2>1, <2>3, <2>5 DEF G!DecideBlock
    <3>. QED
      BY <1>1, <1>2, <2>2, <3>1 DEF Loaded
  <2>. QED
    BY <2>4, <2>5
<1>6. GuardHolds'
  <2>1. ASSUME verdict' = "allow", NEW n \in G!ReadBy(call), NEW means \in {"marker", "config"},
               <<n, means>> \in kept
        PROVE  Excused(n, means)'
    <3>1. Excused(n, means)
      BY <1>1, <1>4, <2>1
    <3>. QED
      BY <1>1, <3>1, ExcusesSteady
  <2>2. G!ReadBy(call)' = G!ReadBy(call)
    BY <1>1 DEF G!ReadBy, G!Reads, G!At
  <2>. QED
    BY <1>1, <2>1, <2>2 DEF GuardHolds, G!GuardHolds, Excused
<1>7. DenialsHaveReasons'
  <2>1. G!Fails("link", call.node)' <=> G!Fails("link", call.node)
    BY <1>1 DEF G!Fails
  <2>. QED
    BY <1>1, <1>5, <2>1 DEF DenialsHaveReasons, G!DenialsHaveReasons
<1>. QED
  BY <1>3, <1>6, <1>7 DEF Watch

LEMMA WatchError == ASSUME Watch, NEW passing \in BOOLEAN, G!Error(passing) PROVE Watch'
<1>1. /\ pc \in {"load", "scan"} /\ UNCHANGED <<marker, config, host, call, cfg, kept>>
      /\ \/ pc' = "load" /\ met' = met
         \/ /\ pc' = "done" /\ met' = met \cup {"error"}
            /\ verdict' = IF G!TouchesNoFile(call) THEN "allow" ELSE "deny"
  BY DEF G!Error, G!Retry, G!GiveUp, G!Say
<1>2. GuardTypes' /\ Watched' /\ Loaded'
  BY <1>1 DEF Watch, GuardTypes, Watched, Loaded
<1>3. pc' = "load" => GuardHolds' /\ DenialsHaveReasons'
  BY DEF GuardHolds, DenialsHaveReasons, G!GuardHolds, G!DenialsHaveReasons
<1>4. ASSUME pc' = "done", verdict' = IF G!TouchesNoFile(call) THEN "allow" ELSE "deny",
             met' = met \cup {"error"}
      PROVE  GuardHolds' /\ DenialsHaveReasons'
  <2>1. G!TouchesNoFile(call) => G!ReadBy(call) = {}
    BY DEF G!TouchesNoFile, G!ReadBy
  <2>2. GuardHolds'
    BY <1>1, <1>4, <2>1 DEF GuardHolds, G!GuardHolds, G!ReadBy
  <2>3. DenialsHaveReasons'
    BY <1>1, <1>4 DEF DenialsHaveReasons, G!DenialsHaveReasons, G!TouchesNoFile
  <2>. QED
    BY <2>2, <2>3
<1>. QED
  BY <1>1, <1>2, <1>3, <1>4 DEF Watch

LEMMA WatchReturn == ASSUME Watch, G!Return PROVE Watch'
<1>1. pc' = "idle" /\ UNCHANGED <<marker, config>>
  BY DEF G!Return
<1>. QED
  BY <1>1 DEF Watch, GuardTypes, Watched, Loaded, GuardHolds, DenialsHaveReasons,
              G!GuardHolds, G!DenialsHaveReasons

\* What the user edits takes from what is protected and adds to the grounds.
LEMMA WatchEdit ==
    ASSUME Watch, NEW mk \in [Folder -> Markers \cup {None, Torn}],
           NEW cf \in Configs \cup {None, Torn}, G!Edit(mk, cf)
    PROVE  Watch'
<1>1. /\ pc # "done" /\ marker' = mk /\ config' = cf /\ UNCHANGED <<host, pc, call, cfg, verdict>>
      /\ pc \in {"load", "scan"} => /\ kept' = kept \cap G!Shielded(mk, cf, call)
                                    /\ met' = met \cup G!Grounds(mk, cf, call)
  BY DEF G!Edit
<1>2. GuardTypes'
  BY <1>1 DEF Watch, GuardTypes
<1>3. Watched'
  BY <1>1 DEF Watched
<1>4. Loaded'
  BY <1>1 DEF Watch, Loaded, Exempts, G!CandidatePaths
<1>. QED
  BY <1>1, <1>2, <1>3, <1>4 DEF Watch, GuardHolds, DenialsHaveReasons,
                                G!GuardHolds, G!DenialsHaveReasons

LEMMA WatchStep == Watch /\ [G!Next]_(G!vars) => Watch'
<1> SUFFICES ASSUME Watch, [G!Next]_(G!vars) PROVE Watch'
  OBVIOUS
<1>1. GuardTypes
  BY DEF Watch
<1>2. ASSUME NEW e \in Markings, G!Mark(e[1], e[2]) PROVE Watch'
  <2>1. e[1] \in Folder /\ e[2] \in Markers \cup {None, Torn}
    BY GuardAssumption DEF G!ConfigAssumption
  <2> DEFINE mk == [marker EXCEPT ![e[1]] = e[2]]
  <2>2. mk \in [Folder -> Markers \cup {None, Torn}] /\ config \in Configs \cup {None, Torn}
    BY <1>1, <2>1 DEF GuardTypes
  <2>3. G!Edit(mk, config)
    BY <1>2 DEF G!Mark
  <2> HIDE DEF mk
  <2>. QED
    BY <2>2, <2>3, WatchEdit
<1>3. ASSUME NEW c \in Configs \cup {None, Torn}, G!Configure(c) PROVE Watch'
  <2>1. marker \in [Folder -> Markers \cup {None, Torn}]
    BY <1>1 DEF GuardTypes
  <2>2. G!Edit(marker, c)
    BY <1>3 DEF G!Configure
  <2>. QED
    BY <2>1, <2>2, WatchEdit
<1>4. CASE G!EnableGlobal
  <2>1. PICK c \in {Torn, IF config \in {None, Torn} THEN G!AsConfig(G!Blank) ELSE config} :
           G!Configure(c)
    BY <1>4 DEF G!EnableGlobal
  <2>2. c \in Configs \cup {None, Torn}
    BY <1>1, <2>1, GuardAssumption DEF GuardTypes, G!ConfigAssumption
  <2>. QED
    BY <1>3, <2>1, <2>2
<1>5. CASE UNCHANGED G!vars
  <2>1. UNCHANGED <<marker, config, host, pc, call, cfg, lapse, verdict, kept, met>>
    BY <1>5 DEF G!vars
  <2>2. GuardTypes' /\ Watched' /\ Loaded'
    BY <2>1 DEF Watch, GuardTypes, Watched, Loaded, Exempts
  <2>3. GuardHolds'
    <3>1. \A n, means : Excused(n, means)' <=> Excused(n, means)
      BY <2>1, ExcusesSteady
    <3>2. G!ReadBy(call)' = G!ReadBy(call)
      BY <2>1 DEF G!ReadBy, G!Reads, G!At
    <3>. QED
      BY <2>1, <3>1, <3>2 DEF Watch, GuardHolds, G!GuardHolds, Excused
  <2>4. DenialsHaveReasons'
    <3>1. \A n : G!Fails("link", n)' <=> G!Fails("link", n)
      BY <2>1 DEF G!Fails
    <3>. QED
      BY <2>1, <3>1 DEF Watch, DenialsHaveReasons, G!DenialsHaveReasons
  <2>. QED
    BY <2>2, <2>3, <2>4 DEF Watch
<1>. QED
  BY <1>2, <1>3, <1>4, <1>5, WatchEvent, WatchLoad, WatchScan, WatchError, WatchReturn DEF G!Next

LEMMA GuardInductive == G!Spec => []Watch
BY WatchInit, WatchStep, PTL DEF G!Spec

\* A call that the guard lets pass reads nothing protected from the hook's
\* start to its verdict, in every tree of folders and links, for every marker,
\* configuration, edit and failing look-up, through a file tool or a shell
\* command, but for what GuardHolds names: searches from above, look-ups that
\* failed on this very path, and what the scan of a command does not follow
\* (_main, _decide_block and the checks of the shell).
THEOREM NothingProtectedRead == G!Spec => []GuardHolds
<1>1. Watch => GuardHolds
  BY DEF Watch
<1>. QED
  BY <1>1, GuardInductive, PTL

\* A file tool is denied only for what there was a ground for since the hook
\* started, and a call that touches no file never for a failure (_main).
THEOREM NothingElseDenied == G!Spec => []DenialsHaveReasons
<1>1. Watch => DenialsHaveReasons
  BY DEF Watch
<1>. QED
  BY <1>1, GuardInductive, PTL
=============================================================================
