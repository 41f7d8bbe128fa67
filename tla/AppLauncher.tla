---------------------------- MODULE AppLauncher ----------------------------
(***************************************************************************)
(* The desktop application: a launcher starts the web server, opens a      *)
(* window on it and stops it when the window is closed (launcher/).  In    *)
(* the installed application the server is a process of its own, which     *)
(* outlives a launcher that is killed; in the frozen one it is a thread.   *)
(* Several launchers may run, and the application may be updated meanwhile. *)
(***************************************************************************)
EXTENDS Integers, FiniteSets

CONSTANTS
    Launcher,   \* places where a launcher may run
    Workers,    \* bound: servers, a process or a thread each
    Foreign,    \* ports that other programs have
    MaxPort,    \* bound: 0 is the preferred port, then the fallbacks
    MaxKills, MaxCode   \* bounds: launchers killed; versions of the application

VARIABLES
    launcher,   \* [launcher -> how far it is]
    worker,     \* [server -> its state]
    code,       \* the version that is installed
    killed      \* bounded

vars == <<launcher, worker, code, killed>>

Worker == 1..Workers
NoWorker == [st |-> "none"]
Off == [pc |-> "off"]
Failed == [pc |-> "error"]   \* the error is shown

\* frozen: which application it is of; since: the version installed when it was
\* started; strays: the processes to kill; reaped: it knew which there were.
Started(frozen) ==
    [pc |-> "pgrep", frozen |-> frozen, since |-> code, strays |-> {}, reaped |-> FALSE,
     port |-> 0, own |-> 0]

Running(l) == launcher[l] \notin {Off, Failed}
At(l, pc) == launcher[l].pc = pc
Set(l, to) == launcher' = [launcher EXCEPT ![l] = to]
Goto(l, pc) == launcher' = [launcher EXCEPT ![l].pc = pc]

Alive == {w \in Worker : worker[w].st \in {"starting", "serving"}}
Serving(port) == {w \in Worker : worker[w].st = "serving" /\ worker[w].port = port}
IsFree(port) == port \notin Foreign /\ Serving(port) = {}

Init ==
    /\ launcher = [l \in Launcher |-> Off]
    /\ worker = [w \in Worker |-> NoWorker]
    /\ code = 0 /\ killed = 0
-----------------------------------------------------------------------------
(* BubbleShieldServer.start.                                               *)

Launch(l) ==
    /\ launcher[l] = Off
    /\ \E frozen \in BOOLEAN : Set(l, Started(frozen))
    /\ UNCHANGED <<worker, code, killed>>

\* Mutant: only servers that serve are looked for.
PgrepServing(l) ==
    /\ At(l, "pgrep")
    /\ \/ Set(l, [launcher[l] EXCEPT !.pc = "reap", !.reaped = TRUE,
                     !.strays = {w \in Alive : worker[w].own /\ worker[w].st = "serving"}])
       \/ Goto(l, "port")
    /\ UNCHANGED <<worker, code, killed>>

\* Every process with the server's command line, whoever started it; a pgrep
\* that fails counts as none.
Pgrep(l) ==
    /\ At(l, "pgrep")
    /\ \/ Set(l, [launcher[l] EXCEPT !.pc = "reap", !.reaped = TRUE,
                     !.strays = {w \in Alive : worker[w].own}])
       \/ Goto(l, "port")
    /\ UNCHANGED <<worker, code, killed>>

\* SIGTERM, and SIGKILL for those that are still there after 0.6 s.
Reap(l) ==
    /\ At(l, "reap") /\ Set(l, [launcher[l] EXCEPT !.pc = "port", !.strays = {}])
    /\ worker' = [w \in Worker |-> IF w \in launcher[l].strays THEN NoWorker ELSE worker[w]]
    /\ UNCHANGED <<code, killed>>

\* The preferred port, or the first free one of the fallbacks; nothing is held.
FindFreePort(l) ==
    /\ At(l, "port")
    /\ \E port \in 0..MaxPort :
          /\ IsFree(port) /\ \A q \in 0..(port - 1) : ~IsFree(q)
          /\ Set(l, [launcher[l] EXCEPT !.pc = "start", !.port = port])
    /\ UNCHANGED <<worker, code, killed>>

Unused(w) == worker[w] = NoWorker /\ \A l \in Launcher : Running(l) => launcher[l].own # w

\* A process in a session of its own, or a thread.
Spawn(l) ==
    /\ At(l, "start")
    /\ \E w \in Worker :
          /\ Unused(w) /\ \A v \in 1..(w - 1) : ~Unused(v)
          /\ worker' = [worker EXCEPT ![w] =
                           [st |-> "starting", port |-> launcher[l].port,
                            code |-> IF launcher[l].frozen THEN launcher[l].since ELSE code,
                            own |-> ~launcher[l].frozen, of |-> l]]
          /\ Set(l, [launcher[l] EXCEPT !.pc = "await", !.own = w])
    /\ UNCHANGED <<code, killed>>

\* No interpreter any more.
SpawnFails(l) ==
    /\ At(l, "start") /\ Set(l, Failed)
    /\ UNCHANGED <<worker, code, killed>>

\* A server whose port somebody has taken since ends.
Bind(w) ==
    /\ worker[w].st = "starting"
    /\ worker' = [worker EXCEPT ![w] = IF IsFree(@.port) THEN [@ EXCEPT !.st = "serving"] ELSE NoWorker]
    /\ UNCHANGED <<launcher, code, killed>>

\* Whoever answers on the port, even if its own server has ended since it last
\* looked at it.
Ready(l) ==
    /\ At(l, "await") /\ Serving(launcher[l].port) # {}
    /\ Goto(l, "window")
    /\ UNCHANGED <<worker, code, killed>>

Stopped(l) == [worker EXCEPT ![launcher[l].own] = NoWorker]

EarlyExit(l) ==
    /\ At(l, "await") /\ launcher[l].own \notin Alive
    /\ Set(l, Failed)
    /\ UNCHANGED <<worker, code, killed>>

\* Mutant: a launch that timed out shows the error and ends.
TimeoutNoStop(l) ==
    /\ At(l, "await") /\ launcher[l].own \in Alive
    /\ Set(l, Failed)
    /\ UNCHANGED <<worker, code, killed>>

Timeout(l) ==
    /\ At(l, "await") /\ launcher[l].own \in Alive
    /\ Set(l, Failed) /\ worker' = Stopped(l)
    /\ UNCHANGED <<code, killed>>
-----------------------------------------------------------------------------
(* main.                                                                   *)

\* The window is closed, or a launcher without one is ended: SIGTERM to the
\* server, SIGKILL after five seconds.
Close(l) ==
    /\ At(l, "window") /\ Set(l, Off)
    /\ worker' = IF launcher[l].own \in Alive THEN Stopped(l) ELSE worker
    /\ UNCHANGED <<code, killed>>

CloseError(l) ==
    /\ At(l, "error") /\ Set(l, Off)
    /\ UNCHANGED <<worker, code, killed>>

\* Force quit: only a thread ends with it.
Kill(l) ==
    /\ launcher[l] # Off /\ killed < MaxKills /\ killed' = killed + 1
    /\ Set(l, Off)
    /\ worker' = [w \in Worker |->
                     IF w \notin Alive \/ worker[w].of # l THEN worker[w]
                     ELSE IF worker[w].own THEN [worker[w] EXCEPT !.of = "launchd"] ELSE NoWorker]
    /\ UNCHANGED code

Update ==
    /\ code < MaxCode /\ code' = code + 1
    /\ UNCHANGED <<launcher, worker, killed>>

Step(l) ==
    \/ Pgrep(l) \/ Reap(l) \/ FindFreePort(l) \/ Spawn(l) \/ SpawnFails(l)
    \/ Ready(l) \/ EarlyExit(l) \/ Timeout(l) \/ CloseError(l)

Next ==
    \/ \E l \in Launcher : Launch(l) \/ Step(l) \/ Close(l) \/ Kill(l)
    \/ \E w \in Worker : Bind(w)
    \/ Update

Spec == Init /\ [][Next]_vars
-----------------------------------------------------------------------------
(* Properties.                                                             *)

TypeOK ==
    /\ code \in 0..MaxCode /\ killed \in 0..MaxKills
    /\ \A l \in Launcher : Running(l) =>
          /\ launcher[l].since \in 0..code /\ launcher[l].port \in 0..MaxPort
          /\ launcher[l].strays \subseteq Worker
    /\ \A w \in Worker : worker[w] # NoWorker => worker[w].of \in Launcher \cup {"launchd"}

\* FreshWindow: a launch that could list the strays opens its window on a
\* server of a version no older than the one installed when it was launched,
\* whoever was starting or had been left behind by then: not on one that still
\* serves what it was before an update.  (The thread of a frozen application
\* that is starting on the same port is no process that pgrep finds.)
FreshWindow ==
    [][\A l \in Launcher :
          At(l, "await") /\ launcher'[l].pc = "window" /\ launcher[l].reaped
          => \A w \in Serving(launcher[l].port) :
                worker[w].own => worker[w].code >= launcher[l].since]_vars

\* NoOrphan: a server that is there without its launcher is one whose launcher
\* was killed; no other end of a launch leaves one.
NoOrphan ==
    \A w \in Alive : worker[w].of # "launchd" =>
        LET l == worker[w].of IN Running(l) /\ launcher[l].own = w
=============================================================================
