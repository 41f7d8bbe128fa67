----------------------------- MODULE NerDaemon -----------------------------
(***************************************************************************)
(* The NER daemon: one process at a time may hold the port, and only that  *)
(* one loads the model.  launchd starts it without loading the model; a    *)
(* client that finds no daemon starts one that loads it at once.  A model  *)
(* that cannot be loaded is cached as "none" and detects nothing: such a   *)
(* daemon is blind, and only its self-test shows it.  The clients are in   *)
(* Anonymise; here they are seen as the replies they wait for.             *)
(***************************************************************************)
EXTENDS Naturals, FiniteSets

CONSTANTS
    Daemon,      \* daemon processes
    Client,      \* clients that ask for detections
    None,        \* nobody
    MaxKills,    \* bound: daemons killed or kickstarted
    MaxStarts    \* bound: daemons that launchd starts by itself

ASSUME DaemonAssumption ==
    /\ None \notin Daemon /\ MaxKills \in Nat /\ MaxStarts \in Nat
    /\ "nobody" \notin Client

VARIABLES
    port,     \* the process that is bound to the port
    daemon,   \* [process -> what it does, its model, its self-test, the requests it
              \*             has to answer and the one of them that holds its lock]
    stamp,    \* nerd-spawn.stamp is younger than the cooldown
    weights,  \* the model can be loaded: its weights are cached or the hub answers
    openai,   \* the weights of the second model are on disk
    due,      \* launchd owes a start: login, or its process was killed
    reply,    \* [client -> what became of the request it sent last]
    kills, starts   \* bounded

ner == <<port, daemon, stamp, weights, openai, due, reply, kills, starts>>

Off == [at |-> "off", lazy |-> FALSE, model |-> "none", test |-> "none",
        todo |-> {}, held |-> {}]

Places == {"off", "start", "warm", "serve"}
Replies == {"none", "pending", "found", "nothing"}

\* Requests that are answered to nobody: their client has given up.
Nobody == "nobody"

NerInit ==
    /\ port = None /\ daemon = [p \in Daemon |-> Off]
    /\ stamp = FALSE /\ weights \in BOOLEAN
    /\ openai \in BOOLEAN /\ due \in BOOLEAN
    /\ reply = [k \in Client |-> "none"] /\ kills = 0 /\ starts = 0
-----------------------------------------------------------------------------
(* Starting.                                                               *)

Launch(p, lazy) ==
    /\ daemon[p] = Off
    /\ daemon' = [daemon EXCEPT ![p].at = "start", ![p].lazy = lazy]

LaunchdStart(p) ==
    /\ due /\ due' = FALSE /\ Launch(p, TRUE)
    /\ starts < MaxStarts /\ starts' = starts + 1
    /\ UNCHANGED <<port, stamp, weights, openai, reply, kills>>

\* Requests in flight end with their process.
Lost(ps) == [k \in Client |-> IF \E p \in ps : k \in daemon[p].todo THEN "nothing" ELSE reply[k]]

\* Before it takes the port a process fetches the weights of the second model,
\* when they are missing, by a run of the set-up; if that fails it goes on
\* without them.  A set-up that succeeds reloads the LaunchAgent, whose process
\* is ended, this one included, and started anew.
FetchOpenAI(p) ==
    /\ daemon[p].at = "start" /\ ~openai /\ weights /\ openai' = TRUE /\ due' = TRUE
    /\ LET ours == {q \in Daemon : daemon[q].at # "off" /\ daemon[q].lazy}
       IN  /\ daemon' = [q \in Daemon |-> IF q \in ours THEN Off ELSE daemon[q]]
           /\ port' = IF port \in ours THEN None ELSE port
           /\ reply' = Lost(ours)
    /\ UNCHANGED <<stamp, weights, kills, starts>>

\* Mutant: the port is taken when the model is there already.
BindWarm(p) ==
    /\ daemon[p].at = "start"
    /\ daemon' = [daemon EXCEPT ![p].at = "warm"]
    /\ port' = IF port = None THEN p ELSE port
    /\ UNCHANGED <<stamp, weights, openai, due, reply, kills, starts>>

\* The port is bound before the model is loaded; who finds it taken exits,
\* with 0, so that launchd does not start it again.
Bind(p) ==
    /\ daemon[p].at = "start"
    /\ IF port = None
       THEN /\ port' = p
            /\ daemon' = [daemon EXCEPT ![p].at = IF daemon[p].lazy THEN "serve" ELSE "warm"]
       ELSE daemon' = [daemon EXCEPT ![p] = Off] /\ UNCHANGED port
    /\ UNCHANGED <<stamp, weights, openai, due, reply, kills, starts>>

\* The model that a load ends with; a failure is kept.
Loaded == IF weights THEN "sighted" ELSE "blind"
Model(p) == IF daemon[p].model = "none" THEN Loaded ELSE daemon[p].model
SelfTest(model) == IF model = "sighted" THEN "pass" ELSE "fail"

WarmUp(p) ==
    /\ daemon[p].at = "warm"
    /\ daemon' = [daemon EXCEPT ![p].at = "serve", ![p].model = Model(p),
                                ![p].test = SelfTest(Model(p))]
    /\ UNCHANGED <<port, stamp, weights, openai, due, reply, kills, starts>>
-----------------------------------------------------------------------------
(* Serving.                                                                *)

Serving(p) == p = port /\ daemon[p].at = "serve"

\* POST /detect: a handler takes the lock, loads the model if need be, and uses
\* it.  All this time, and until it has tested the model, /health is answered.
Detect(p, k) ==
    /\ k \in daemon[p].todo /\ Serving(p) /\ daemon[p].held = {}
    /\ daemon' = [daemon EXCEPT ![p].held = {k}, ![p].model = Model(p)]
    /\ UNCHANGED <<port, stamp, weights, openai, due, reply, kills, starts>>

\* Mutant: only the warm-up tests the model.
AnswerUntested(p, k) ==
    /\ k \in daemon[p].held /\ Serving(p)
    /\ daemon' = [daemon EXCEPT ![p].held = {}, ![p].todo = @ \ {k}]
    /\ reply' = IF k = Nobody THEN reply
                ELSE [reply EXCEPT ![k] = IF daemon[p].model = "sighted" THEN "found" ELSE "nothing"]
    /\ UNCHANGED <<port, stamp, weights, openai, due, kills, starts>>

\* Then it tests the model, if nobody did, frees the lock, and sends its reply,
\* if someone still waits.
Answer(p, k) ==
    /\ k \in daemon[p].held /\ Serving(p)
    /\ daemon' = [daemon EXCEPT
          ![p].held = {}, ![p].todo = @ \ {k},
          ![p].test = IF @ = "none" THEN SelfTest(daemon[p].model) ELSE @]
    /\ reply' = IF k = Nobody THEN reply
                ELSE [reply EXCEPT ![k] = IF daemon[p].model = "sighted" THEN "found" ELSE "nothing"]
    /\ UNCHANGED <<port, stamp, weights, openai, due, kills, starts>>

\* Nobody has asked for a while (no client waits as long as that): exit 0.
IdleExit(p) ==
    /\ Serving(p) /\ daemon[p].todo \subseteq {Nobody}
    /\ daemon' = [daemon EXCEPT ![p] = Off] /\ port' = None
    /\ UNCHANGED <<stamp, weights, openai, due, reply, kills, starts>>

\* A crash, or launchctl kickstart -k; launchd starts its own again.
Kill(p) ==
    /\ daemon[p].at # "off" /\ kills < MaxKills /\ kills' = kills + 1
    /\ daemon' = [daemon EXCEPT ![p] = Off]
    /\ port' = IF port = p THEN None ELSE port
    /\ due' = (due \/ daemon[p].lazy) /\ reply' = Lost({p})
    /\ UNCHANGED <<stamp, weights, openai, starts>>
-----------------------------------------------------------------------------
(* What the clients do with it.                                            *)

\* /health is answered and does not report a failed self-test; one that was
\* not run yet will do.
Up == port # None /\ Serving(port) /\ daemon[port].test # "fail"

\* Mutant: the process is started and fails, and nobody sees it.
SpawnNothing ==
    /\ stamp' = TRUE
    /\ UNCHANGED <<port, daemon, weights, openai, due, reply, kills, starts>>

\* The stamp is set, then the process is started; one more would only find the
\* port taken.  Since the stamp is read some time before, clients that are not
\* modelled may do this whether it is set or not.
SpawnDaemon ==
    /\ stamp' = TRUE
    /\ IF \E p \in Daemon : daemon[p] = Off
       THEN \E p \in Daemon : Launch(p, FALSE)
       ELSE UNCHANGED daemon
    /\ UNCHANGED <<port, weights, openai, due, reply, kills, starts>>

\* A request goes to whoever has the port now.  While the model is being loaded
\* nobody accepts it.
Post(k) ==
    /\ IF port # None /\ Serving(port)
       THEN /\ daemon' = [daemon EXCEPT ![port].todo = @ \cup {k}]
            /\ reply' = [reply EXCEPT ![k] = "pending"]
       ELSE reply' = [reply EXCEPT ![k] = "nothing"] /\ UNCHANGED daemon
    /\ UNCHANGED <<port, stamp, weights, openai, due, kills, starts>>

\* Eight seconds have gone by; the daemon does not know.
TimeOut(k) ==
    /\ reply[k] = "pending" /\ reply' = [reply EXCEPT ![k] = "nothing"]
    /\ daemon' = [p \in Daemon |-> IF k \in daemon[p].todo
                    THEN [daemon[p] EXCEPT !.todo = (@ \ {k}) \cup {Nobody},
                                           !.held = IF k \in @ THEN {Nobody} ELSE @]
                    ELSE daemon[p]]
    /\ UNCHANGED <<port, stamp, weights, openai, due, kills, starts>>

\* The sweep warms a cold daemon with a request of its own.
SweepWarms ==
    /\ port # None /\ Serving(port) /\ daemon[port].model = "none"
    /\ daemon' = [daemon EXCEPT ![port].todo = @ \cup {Nobody}]
    /\ UNCHANGED <<port, stamp, weights, openai, due, reply, kills, starts>>

CooldownEnds ==
    /\ stamp /\ stamp' = FALSE
    /\ UNCHANGED <<port, daemon, weights, openai, due, reply, kills, starts>>

NetworkReturns ==
    /\ ~weights /\ weights' = TRUE
    /\ UNCHANGED <<port, daemon, stamp, openai, due, reply, kills, starts>>

DaemonStep(p) ==
    \/ FetchOpenAI(p) \/ Bind(p) \/ WarmUp(p)
    \/ \E k \in Client \cup {Nobody} : Detect(p, k) \/ Answer(p, k)

NerNext ==
    \/ \E p \in Daemon : LaunchdStart(p) \/ DaemonStep(p) \/ IdleExit(p) \/ Kill(p)
    \/ \E k \in Client : TimeOut(k)
    \/ SpawnDaemon \/ SweepWarms \/ CooldownEnds \/ NetworkReturns

NerTypeOK ==
    /\ port \in Daemon \cup {None}
    /\ daemon \in [Daemon -> [at : Places, lazy : BOOLEAN,
                              model : {"none", "sighted", "blind"},
                              test : {"none", "pass", "fail"},
                              todo : SUBSET (Client \cup {Nobody}),
                              held : {{}} \cup {{k} : k \in Client \cup {Nobody}}]]
    /\ {stamp, weights, openai, due} \subseteq BOOLEAN
    /\ reply \in [Client -> Replies] /\ kills \in 0..MaxKills /\ starts \in 0..MaxStarts

\* OneModel: however many daemons are started at once, at most one has a model
\* in memory or is loading one, and it is the one that clients reach (the
\* stampede of four daemons in bubble_shield_nerd.py:main).
OneModel ==
    \A p \in Daemon : (daemon[p].model # "none" \/ daemon[p].at = "warm") => port = p
=============================================================================
