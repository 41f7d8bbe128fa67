------------------------------ MODULE MiniTier ------------------------------
(***************************************************************************)
(* The read server of the Mac mini (bubble_shield_minid.py): its set-up    *)
(* (bubble_shield_setup_mini.py), which replaces a running one, the        *)
(* LaunchAgent that keeps it alive, and one that is started by hand.  Runs *)
(* of the set-up are cut off, the Mac restarts, the tailnet goes away.     *)
(***************************************************************************)
EXTENDS Naturals

CONSTANTS
    None,
    MaxVersion, \* bound: versions of the plugin
    MaxFaults   \* bound: kills, crashes, restarts, steps that fail for a time, removals,
                \* processes started by hand

VARIABLES
    version,    \* of the plugin
    setup,      \* where the run of the set-up is
    script,     \* minid is in daemon/scripts
    engine,     \* [place -> version of the engine there]
    plist,      \* the LaunchAgent's file is there
    loaded,     \* launchd has the job
    minid,      \* [process -> its state]
    net,        \* the address of the tailnet is there
    token,      \* in mini_token: which process made it
    faults      \* bounded

vars == <<version, setup, script, engine, plist, loaded, minid, net, token, faults>>
daemon == <<script, engine>>

\* minid looks in the first place first; earlier set-ups used the second.
Place == {"vendor", "legacy"}
\* The one of launchd, and one started by hand from the plugin.
Proc == {"job", "hand"}

Off == [st |-> "off", engine |-> None, token |-> None]
Serves(p) == minid[p].st = "serving"
PortFree == \A p \in Proc : ~Serves(p)
Set(p, to) == minid' = [minid EXCEPT ![p] = to]
Limited == faults < MaxFaults /\ faults' = faults + 1
Goto(to) == setup' = to

\* The engine that a process finds; the one started by hand has the plugin's.
Finds(p) ==
    IF p = "hand" THEN version
    ELSE IF engine["vendor"] # None THEN engine["vendor"] ELSE engine["legacy"]

\* Nothing, or what an earlier set-up has left: in the old place, with a copy in
\* the new one from a still earlier time.
Init ==
    /\ version = 1 /\ setup = "off"
    /\ \/ script = FALSE /\ engine = [p \in Place |-> None] /\ plist = FALSE
       \/ script = TRUE /\ engine = [p \in Place |-> 0] /\ plist = TRUE
    /\ loaded = plist /\ minid = [p \in Proc |-> Off]
    /\ net = TRUE /\ token = None /\ faults = 0
-----------------------------------------------------------------------------
(* The set-up.                                                             *)

Start ==
    /\ setup \in {"off", "ready"} /\ Goto("stop")
    /\ UNCHANGED <<version, daemon, plist, loaded, minid, net, token, faults>>

\* The job is stopped, so that nothing runs from the tree that is replaced.
StopRunningMinid ==
    /\ setup = "stop" /\ Goto("script")
    /\ loaded' = FALSE /\ Set("job", Off)
    /\ UNCHANGED <<version, daemon, plist, net, token, faults>>

CopyScript ==
    /\ setup = "script" /\ Goto("remove") /\ script' = TRUE
    /\ UNCHANGED <<version, engine, plist, loaded, minid, net, token, faults>>

\* Mutant: an engine that is there is kept.
KeepEngine ==
    /\ setup = "remove" /\ Goto(IF engine["vendor"] = None THEN "copy" ELSE "legacy")
    /\ UNCHANGED <<version, daemon, plist, loaded, minid, net, token, faults>>

RemoveEngine ==
    /\ setup = "remove" /\ Goto("copy") /\ engine' = [engine EXCEPT !["vendor"] = None]
    /\ UNCHANGED <<version, script, plist, loaded, minid, net, token, faults>>

CopyEngine ==
    /\ setup = "copy" /\ Goto("legacy") /\ engine' = [engine EXCEPT !["vendor"] = version]
    /\ UNCHANGED <<version, script, plist, loaded, minid, net, token, faults>>

\* The old place is swept, and compiled files with it.
SweepLegacy ==
    /\ setup = "legacy" /\ Goto("plist") /\ engine' = [engine EXCEPT !["legacy"] = None]
    /\ UNCHANGED <<version, script, plist, loaded, minid, net, token, faults>>

WritePlist ==
    /\ setup = "plist" /\ Goto("load") /\ plist' = TRUE
    /\ UNCHANGED <<version, daemon, loaded, minid, net, token, faults>>

\* Unloaded, then loaded; a load that fails is reported, and the run goes on.
LoadPlist ==
    /\ setup = "load" /\ Goto("verify") /\ Set("job", Off)
    /\ \/ loaded' = TRUE /\ UNCHANGED faults
       \/ loaded' = FALSE /\ Limited
    /\ UNCHANGED <<version, daemon, plist, net, token>>

\* Whoever answers /health, which loads the engine if there is one, within half
\* a minute.
VerifyServing ==
    /\ setup = "verify" /\ net
    /\ \E p \in Proc : Serves(p) /\ (minid[p].engine # None \/ Finds(p) = None)
    /\ Goto("ready")
    /\ UNCHANGED <<version, daemon, plist, loaded, minid, net, token, faults>>

\* Nobody does in time.
TooSlow ==
    /\ setup = "verify" /\ Limited /\ Goto("off")
    /\ UNCHANGED <<version, daemon, plist, loaded, minid, net, token>>

NobodyServes ==
    /\ setup = "verify" /\ ~loaded /\ PortFree /\ Goto("off")
    /\ UNCHANGED <<version, daemon, plist, loaded, minid, net, token, faults>>

\* The plugin is updated; its set-up has to be run again.
Update ==
    /\ setup \in {"off", "ready"} /\ version < MaxVersion
    /\ version' = version + 1 /\ Goto("off")
    /\ UNCHANGED <<daemon, plist, loaded, minid, net, token, faults>>

Uninstall ==
    /\ setup \in {"off", "ready"} /\ Limited /\ Goto("off")
    /\ plist' = FALSE /\ loaded' = FALSE /\ Set("job", Off)
    /\ UNCHANGED <<version, daemon, net, token>>
-----------------------------------------------------------------------------
(* minid.                                                                  *)

\* Mutant: not one that exited with success, like the other daemons.
KeepAliveUnlessDone ==
    /\ loaded /\ script /\ minid["job"].st = "off"
    /\ Set("job", [Off EXCEPT !.st = "token"])
    /\ UNCHANGED <<version, setup, daemon, plist, loaded, net, token, faults>>

\* launchd starts a job that it has and that does not run, however it ended.
KeepAlive ==
    /\ loaded /\ script /\ minid["job"].st \in {"off", "exited"}
    /\ Set("job", [Off EXCEPT !.st = "token"])
    /\ UNCHANGED <<version, setup, daemon, plist, loaded, net, token, faults>>

StartByHand ==
    /\ minid["hand"].st \in {"off", "exited"} /\ Limited
    /\ Set("hand", [Off EXCEPT !.st = "token"])
    /\ UNCHANGED <<version, setup, daemon, plist, loaded, net, token>>

\* The token is read, ...
ReadToken(p) ==
    /\ minid[p].st = "token"
    /\ Set(p, IF token # None THEN [minid[p] EXCEPT !.st = "bind", !.token = token]
              ELSE [minid[p] EXCEPT !.st = "make token", !.token = p])
    /\ UNCHANGED <<version, setup, daemon, plist, loaded, net, token, faults>>

\* ... or made and written.
MakeToken(p) ==
    /\ minid[p].st = "make token" /\ token' = p
    /\ Set(p, [minid[p] EXCEPT !.st = "bind"])
    /\ UNCHANGED <<version, setup, daemon, plist, loaded, net, faults>>

\* Without the address, or with the port taken, it ends as if all were well.
Bind(p) ==
    /\ minid[p].st = "bind"
    /\ Set(p, IF net /\ PortFree THEN [minid[p] EXCEPT !.st = "serving"]
              ELSE [Off EXCEPT !.st = "exited"])
    /\ UNCHANGED <<version, setup, daemon, plist, loaded, net, token, faults>>

\* Any request, of the set-up or of a client, loads the engine once there is one.
LoadEngine(p) ==
    /\ Serves(p) /\ minid[p].engine = None /\ Finds(p) # None
    /\ Set(p, [minid[p] EXCEPT !.engine = Finds(p)])
    /\ UNCHANGED <<version, setup, daemon, plist, loaded, net, token, faults>>
-----------------------------------------------------------------------------
(* Faults.                                                                 *)

Kill ==
    /\ setup \notin {"off", "ready"} /\ Limited /\ Goto("off")
    /\ UNCHANGED <<version, daemon, plist, loaded, minid, net, token>>

Crash(p) ==
    /\ minid[p].st \notin {"off", "exited"} /\ Limited /\ Set(p, Off)
    /\ UNCHANGED <<version, setup, daemon, plist, loaded, net, token>>

\* launchd loads what it finds; the tailnet may come up later.
Restart ==
    /\ Limited /\ loaded' = plist /\ minid' = [p \in Proc |-> Off]
    /\ Goto(IF setup = "ready" THEN "ready" ELSE "off") /\ net' \in BOOLEAN
    /\ UNCHANGED <<version, daemon, plist, token>>

NetUp ==
    /\ ~net /\ net' = TRUE
    /\ UNCHANGED <<version, setup, daemon, plist, loaded, minid, token, faults>>
-----------------------------------------------------------------------------
Advance ==
    \/ StopRunningMinid \/ CopyScript \/ RemoveEngine \/ CopyEngine \/ SweepLegacy
    \/ WritePlist \/ LoadPlist \/ VerifyServing \/ NobodyServes

Minid(p) == ReadToken(p) \/ MakeToken(p) \/ Bind(p) \/ LoadEngine(p)

Next ==
    \/ Start \/ Advance \/ TooSlow \/ Update \/ Uninstall
    \/ KeepAlive \/ StartByHand
    \/ \E p \in Proc : Minid(p) \/ Crash(p)
    \/ Kill \/ Restart \/ NetUp

Spec == Init /\ [][Next]_vars

\* Fairness: the set-up is run until it is ready, and goes on; launchd and the
\* processes run; the tailnet comes back.
Fairness ==
    /\ WF_vars(Start /\ setup = "off") /\ WF_vars(Advance)
    /\ WF_vars(KeepAlive) /\ WF_vars(NetUp) /\ \A p \in Proc : WF_vars(Minid(p))
FairSpec == Spec /\ Fairness
-----------------------------------------------------------------------------
(* Properties.                                                             *)

TypeOK ==
    /\ version \in 1..MaxVersion
    /\ setup \in {"off", "stop", "script", "remove", "copy", "legacy", "plist", "load",
                  "verify", "ready"}
    /\ script \in BOOLEAN /\ engine \in [Place -> 0..version \cup {None}]
    /\ plist \in BOOLEAN /\ loaded \in BOOLEAN /\ net \in BOOLEAN
    /\ minid \in [Proc -> [st : {"off", "token", "make token", "bind", "serving", "exited"},
                           engine : 0..version \cup {None}, token : Proc \cup {None}]]
    /\ token \in Proc \cup {None} /\ faults \in 0..MaxFaults

\* FreshEngine: when the set-up says that the tier is ready, the job serves with
\* the engine it installed, whatever earlier runs left in either place; unless a
\* minid started by hand has the port.
FreshEngine ==
    [][setup = "verify" /\ setup' = "ready" /\ Serves("job")
       => minid["job"].engine = version]_vars

\* ReadTierUp: while launchd has the job the tier serves again after every crash
\* or restart, even if the tailnet came up later than minid, which then ended as
\* if all were well.
ReadTierUp == []<>(loaded => \E p \in Proc : Serves(p))
=============================================================================
