---------------------------- MODULE HookInstall ----------------------------
(***************************************************************************)
(* Installing, refreshing and removing the hooks on one home directory.    *)
(* Every session starts with install_user_hooks.py: in Cowork it copies    *)
(* the hook scripts to a stable directory and puts its entries into        *)
(* settings.json; elsewhere, where the guard was armed before, it only     *)
(* refreshes the copies and restarts the daemon that runs another copy.    *)
(* uninstall_user_hooks.py takes everything away.  All of them overwrite   *)
(* files in place, without a lock, and may be killed at any point.         *)
(***************************************************************************)
EXTENDS Naturals, FiniteSets

CONSTANTS
    Proc,        \* runs of the two scripts
    Foreign,     \* hook entries of the user's own
    MaxVersion,  \* bound: versions of the plugin that are published
    MaxStarts,   \* bound: times the scripts are run
    MaxKills,    \* bound: processes killed
    MaxEdits,    \* bound: the user's own edits of settings.json
    None,        \* no such file
    Torn         \* a file or tree that is not completely written

ASSUME InstallAssumption ==
    /\ MaxVersion \in Nat \ {0} /\ MaxStarts \in Nat /\ MaxKills \in Nat /\ MaxEdits \in Nat
    /\ None # Torn /\ {None, Torn} \cap (1..MaxVersion) = {}

Entry    == {"guard.py", "posttool"}   \* PreToolUse, and the three that fail open
Script   == {"guard.py", "posttool", "vendor"}
Version  == 1..MaxVersion
File     == Version \cup {None, Torn}
Contents == [ours : SUBSET Entry, others : SUBSET Foreign]

ASSUME ContentsAssumption == {None, Torn} \cap Contents = {}

VARIABLES
    plugin,    \* the version of the plugin, or None when it is removed
    settings,  \* ~/.claude/settings.json
    stable,    \* ~/.claude/bubble-shield, one file or tree per script
    daemon,    \* ~/.bubble_shield/daemon
    agent,     \* the daemon's LaunchAgent is loaded
    data,      \* the vaults are there
    shared,    \* ... in a folder of the cabinet (BUBBLE_SHIELD_HOME)
    running,   \* the code in the memory of the daemon that launchd runs
    run,       \* [process -> what it does and where it is]
    foreign,   \* observed: the user's own entries as he last left them
    raced,     \* observed: he edited between a process's read and its write
    overlap,   \* observed: an installation and a removal ran at the same time
    cut,       \* observed: a refresh was killed, or its plugin removed, between its
               \* copies and the restart
    starts, kills, edits   \* bounded

places == <<plugin, settings, stable, daemon, agent, running, data, shared>>
history == <<foreign, raced, overlap, cut, starts, kills, edits>>
vars == <<places, run, history>>

Idle == [job |-> "none", at |-> "idle", ver |-> 1, seen |-> None,
         copying |-> FALSE, changed |-> FALSE, purge |-> FALSE, alone |-> TRUE]
Jobs == {"none", "arm", "refresh", "remove"}
Places == {"idle", "guard.py", "posttool", "vendor", "daemon", "kickstart",
           "all vendor", "read", "open", "write", "rm stable", "rm agent",
           "rm cache", "rm data"}
Runs == [job : Jobs, at : Places, ver : Version, seen : Contents \cup {None},
         copying : BOOLEAN, changed : BOOLEAN, purge : BOOLEAN, alone : BOOLEAN]

Active(p) == run[p].at # "idle"

Readable == settings \notin {None, Torn}

Armed == Readable /\ "guard.py" \in settings.ours
-----------------------------------------------------------------------------
Init ==
    /\ plugin = 1 /\ settings \in {None, [ours |-> {}, others |-> Foreign]}
    /\ stable = [s \in Script |-> None]
    /\ daemon \in {None, 1} /\ agent = (daemon = 1)
    /\ running \in IF daemon = 1 THEN {None, 1} ELSE {None}
    /\ data = TRUE /\ shared \in BOOLEAN
    /\ run = [p \in Proc |-> Idle]
    /\ foreign = (IF settings = None THEN {} ELSE Foreign)
    /\ raced = FALSE /\ overlap = FALSE /\ cut = FALSE
    /\ starts = 0 /\ kills = 0 /\ edits = 0

\* On to the next place; what is no longer needed is forgotten.
Moved(r, place) ==
    IF place = "idle" THEN Idle
    ELSE IF place \in {"all vendor", "rm stable"}
    THEN [r EXCEPT !.at = place, !.seen = None, !.changed = FALSE, !.copying = FALSE]
    ELSE [r EXCEPT !.at = place, !.copying = FALSE]

Go(p, place) == run' = [run EXCEPT ![p] = Moved(run[p], place)]

\* p starts with job; nobody waits for anybody.
Start(p, job, place, purge) ==
    /\ ~Active(p) /\ starts < MaxStarts /\ starts' = starts + 1
    /\ run' = [q \in Proc |->
                 IF q = p THEN [Idle EXCEPT !.job = job, !.at = place, !.purge = purge,
                                            !.ver = IF job = "remove" THEN 1 ELSE plugin,
                                            !.alone = ~\E r \in Proc : Active(r)]
                 ELSE [run[q] EXCEPT !.alone = @ /\ ~Active(q)]]
    /\ overlap' = (overlap \/ \E q \in Proc \ {p} :
                       Active(q) /\ (run[q].job = "remove") # (job = "remove"))
    /\ UNCHANGED <<places, foreign, raced, cut, kills, edits>>

\* A session of the plugin starts.  In Cowork it arms; elsewhere it refreshes
\* what is armed already, and only that.
SessionStart(p, inCowork) ==
    /\ plugin # None
    /\ IF inCowork THEN Start(p, "arm", "guard.py", FALSE)
       ELSE Armed /\ Start(p, "refresh", "guard.py", FALSE)

\* Mutant: the files go first, and then nothing but the rest of the files.
UninstallFilesOnly(p, purge) == Start(p, "remove", "rm stable", purge)

Uninstall(p, purge) == Start(p, "remove", "read", purge)

\* A copy overwrites in place: a part of the file is there, then all of it.
After(p) ==
    IF run[p].at = "guard.py" THEN "posttool"
    ELSE IF run[p].at = "posttool" THEN "vendor"
    ELSE IF run[p].at = "vendor" THEN (IF run[p].job = "arm" THEN "read" ELSE "daemon")
    ELSE "idle"

\* What the plugin no longer has is not copied.
CopyTo(p, s) ==
    \/ /\ plugin = None /\ Go(p, After(p)) /\ UNCHANGED stable
    \/ /\ plugin # None
       /\ \E whole \in BOOLEAN :
             /\ stable' = [stable EXCEPT ![s] = IF whole THEN run[p].ver ELSE Torn]
             /\ IF whole THEN Go(p, After(p))
                ELSE run' = [run EXCEPT ![p].copying = TRUE]

Copy(p) ==
    /\ run[p].at \in {"guard.py", "posttool", "all vendor"}
    /\ CopyTo(p, IF run[p].at = "all vendor" THEN "vendor" ELSE run[p].at)
    /\ UNCHANGED <<plugin, settings, daemon, agent, running, data, shared, history>>

\* The engine is copied only where there is none, not even a part of one.
CopyVendor(p) ==
    /\ run[p].at = "vendor"
    /\ IF stable["vendor"] = None \/ run[p].copying THEN CopyTo(p, "vendor")
       ELSE (Go(p, After(p)) /\ UNCHANGED stable)
    /\ UNCHANGED <<plugin, settings, daemon, agent, running, data, shared, history>>

\* The daemon's copy is refreshed where there is one that differs.  Of the
\* engine one file is compared: a tree half copied may look like the new one.
RefreshDaemon(p) ==
    /\ run[p].at = "daemon"
    /\ \/ /\ plugin = None \/ (daemon \in {None, Torn, run[p].ver} /\ ~run[p].copying)
          /\ Go(p, IF run[p].changed /\ ~run[p].copying THEN "kickstart" ELSE "all vendor")
          /\ UNCHANGED daemon
       \/ /\ plugin # None
          /\ daemon \notin {None, run[p].ver} \/ run[p].copying
          /\ \E whole \in BOOLEAN :
                /\ daemon' = IF whole THEN run[p].ver ELSE Torn
                /\ run' = [run EXCEPT ![p] = [@ EXCEPT !.changed = TRUE, !.copying = ~whole,
                                      !.at = IF whole THEN "kickstart" ELSE "daemon"]]
    /\ cut' = (cut \/ (plugin = None /\ run[p].copying))
    /\ UNCHANGED <<plugin, settings, stable, agent, running, data, shared,
                   foreign, raced, overlap, starts, kills, edits>>

\* Mutant: copies that have been made are enough.
NoKickstart(p) ==
    /\ run[p].at = "kickstart" /\ Go(p, "all vendor")
    /\ UNCHANGED <<places, history>>

\* launchd restarts the daemon it runs, with the code that is there now.
Kickstart(p) ==
    /\ run[p].at = "kickstart" /\ Go(p, "all vendor")
    /\ running' = IF agent THEN daemon ELSE running
    /\ UNCHANGED <<plugin, settings, stable, daemon, agent, data, shared, history>>
-----------------------------------------------------------------------------
(* settings.json: read, truncated, written.                                *)

Ours(job) == IF job = "arm" THEN Entry ELSE {}

\* A file that cannot be parsed is left alone; so is one with nothing of ours
\* to remove.
Read(p) ==
    /\ run[p].at = "read"
    /\ LET seen == IF settings = None THEN [ours |-> {}, others |-> {}] ELSE settings
           skip == settings = Torn \/ (run[p].job = "remove" /\ seen.ours = {})
       IN  IF skip THEN Go(p, IF run[p].job = "arm" THEN "idle" ELSE "rm stable")
           ELSE run' = [run EXCEPT ![p] = [@ EXCEPT !.seen = seen, !.at = "open"]]
    /\ UNCHANGED <<places, history>>

Open(p) ==
    /\ run[p].at = "open" /\ Go(p, "write") /\ settings' = Torn
    /\ UNCHANGED <<plugin, stable, daemon, agent, running, data, shared, history>>

\* Mutant: the entries of others are not copied over.
WriteOursOnly(p) ==
    /\ run[p].at = "write" /\ Go(p, IF run[p].job = "arm" THEN "idle" ELSE "rm stable")
    /\ settings' = [ours |-> Ours(run[p].job), others |-> {}]
    /\ UNCHANGED <<plugin, stable, daemon, agent, running, data, shared, history>>

\* Our stale entries go, by their command; all others stay.
Write(p) ==
    /\ run[p].at = "write" /\ Go(p, IF run[p].job = "arm" THEN "idle" ELSE "rm stable")
    /\ settings' = [run[p].seen EXCEPT !.ours = Ours(run[p].job)]
    /\ UNCHANGED <<plugin, stable, daemon, agent, running, data, shared, history>>
-----------------------------------------------------------------------------
(* The rest of a removal, in its order.                                    *)

RemoveStable(p) ==
    /\ run[p].at = "rm stable" /\ Go(p, "rm agent")
    /\ stable' = [s \in Script |-> None]
    /\ UNCHANGED <<plugin, settings, daemon, agent, running, data, shared, history>>

\* Unloading ends the daemon that launchd runs.
RemoveLaunchAgent(p) ==
    /\ run[p].at = "rm agent" /\ Go(p, "rm cache")
    /\ agent' = FALSE /\ running' = None
    /\ UNCHANGED <<plugin, settings, stable, daemon, data, shared, history>>

RemovePlugin(p) ==
    /\ run[p].at = "rm cache" /\ Go(p, "rm data") /\ plugin' = None
    /\ UNCHANGED <<settings, stable, daemon, agent, running, data, shared, history>>

\* A folder of the cabinet is never removed (_is_shared_path).
PurgeData(p) ==
    /\ run[p].at = "rm data" /\ Go(p, "idle")
    /\ data' = (data /\ (shared \/ ~run[p].purge))
    /\ daemon' = (IF run[p].purge /\ ~shared THEN None ELSE daemon)
    /\ UNCHANGED <<plugin, settings, stable, agent, running, shared, history>>
-----------------------------------------------------------------------------
(* Everybody else.                                                         *)

Kill(p) ==
    /\ Active(p) /\ kills < MaxKills /\ kills' = kills + 1
    /\ Go(p, "idle")
    /\ cut' = (cut \/ (run[p].changed /\ run[p].at \in {"daemon", "kickstart"}))
    /\ UNCHANGED <<places, foreign, raced, overlap, starts, edits>>

\* A new version comes out, or the plugin is installed again.
Publish ==
    /\ \E v \in Version :
          /\ plugin' = v
          /\ IF plugin = None THEN v = MaxVersion ELSE v > plugin
    /\ UNCHANGED <<settings, stable, daemon, agent, running, data, shared, run, history>>

\* launchd starts its daemon; the daemon stops when it has nothing to do.
DaemonStarts ==
    /\ agent /\ running = None /\ daemon # None /\ running' = daemon
    /\ UNCHANGED <<plugin, settings, stable, daemon, agent, data, shared, run, history>>

DaemonStops ==
    /\ running # None /\ running' = None
    /\ UNCHANGED <<plugin, settings, stable, daemon, agent, data, shared, run, history>>

\* The user, or another plugin, edits its entries, or repairs the file.
UserEdits(others) ==
    /\ edits < MaxEdits /\ edits' = edits + 1
    /\ settings' = IF Readable THEN [settings EXCEPT !.others = others]
                   ELSE [ours |-> {}, others |-> others]
    /\ foreign' = others
    /\ raced' = (raced \/ \E p \in Proc : run[p].at \in {"open", "write"})
    /\ UNCHANGED <<plugin, stable, daemon, agent, running, data, shared, run,
                   overlap, cut, starts, kills>>

Step(p) ==
    \/ Copy(p) \/ CopyVendor(p) \/ RefreshDaemon(p) \/ Kickstart(p)
    \/ Read(p) \/ Open(p) \/ Write(p)
    \/ RemoveStable(p) \/ RemoveLaunchAgent(p) \/ RemovePlugin(p) \/ PurgeData(p)

Next ==
    \/ \E p \in Proc : Step(p) \/ Kill(p)
    \/ \E p \in Proc, b \in BOOLEAN : SessionStart(p, b) \/ Uninstall(p, b)
    \/ Publish \/ DaemonStarts \/ DaemonStops
    \/ \E o \in SUBSET Foreign : UserEdits(o)

Spec == Init /\ [][Next]_vars
-----------------------------------------------------------------------------
(* Properties.                                                             *)

TypeOK ==
    /\ plugin \in Version \cup {None} /\ settings \in Contents \cup {None, Torn}
    /\ stable \in [Script -> File] /\ daemon \in File /\ running \in File
    /\ {agent, data, shared, raced, overlap, cut} \subseteq BOOLEAN
    /\ run \in [Proc -> Runs] /\ foreign \subseteq Foreign
    /\ starts \in 0..MaxStarts /\ kills \in 0..MaxKills /\ edits \in 0..MaxEdits

\* ArmedHasScript: as long as no removal ran beside an installation, settings
\* that name the guard find its script, wherever an installation or a removal
\* was killed: the script comes first and goes last (a hook whose script is
\* missing lets every call pass, install_user_hooks.py:_wrapped_cmd).
ArmedHasScript == (Armed /\ ~overlap) => stable["guard.py"] # None

\* ForeignKept: the user's own entries are in settings.json as he left them
\* whenever it can be read, through installations, removals and kills, unless
\* he edited it while one of them held what it had read before.
ForeignKept == (Readable /\ ~raced) => settings.others = foreign

Finishes(p, job) ==
    run[p].job = job /\ run[p].alone /\ Active(p) /\ ~Active(p)' /\ kills' = kills

\* UpdateTakesEffect: a session that refreshes an armed machine alone leaves
\* every copy at its own version, and so the daemon's copy and the daemon
\* that runs, unless an earlier refresh was killed, or lost the plugin that it
\* copied, before the restart ("closing the gap where a shipped guard fix never
\* reached", install_user_hooks.py:230).
UpdateTakesEffect ==
    [][\A p \in Proc : Finishes(p, "refresh") =>
         LET v == run[p].ver IN
         /\ stable' = [s \in Script |-> v]
         /\ cut \/ {daemon', running'} \subseteq {None, v}]_vars
=============================================================================
