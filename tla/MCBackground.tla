---------------------------- MODULE MCBackground ----------------------------
(***************************************************************************)
(* Small instances of what runs behind a session: the shadow sweeps, with  *)
(* a letter that holds the junk word and a scan nothing can certify, and   *)
(* the Gemma daemon, with extractions, whose clients are more patient than *)
(* the daemon, and a judgment, whose client is less.  They share no state, *)
(* so a behaviour is one of them; the other is off, in a state in which    *)
(* none of its steps is possible.                                          *)
(***************************************************************************)
EXTENDS ShadowSweep, Sequences

CONSTANTS Extraction, Judgment, QueueMax, IdleSecs

MCContent == {"letter", "scan"}
MCPolluted == {"letter"}
MCUncertifiable == {"scan"}

Requests    == Extraction \cup Judgment
HandlerWait == [r \in Requests |-> IF r \in Judgment THEN 2 ELSE 1]
ClientWait  == [r \in Requests |-> IF r \in Judgment THEN 1 ELSE 2]

VARIABLES server, queue, request, age, left, abandoned, outcome, worker, loaded, quiet

gemmaVars == <<server, queue, request, age, left, abandoned, outcome, worker, loaded, quiet>>

Gemma == INSTANCE GemmaWorker WITH ReqTimeout <- HandlerWait, ClientTimeout <- ClientWait

ASSUME GemmaAssumption == Gemma!WorkerConstants

\* Every file is quarantined, nothing runs and nothing happens any more.
SweepOff ==
    /\ content = [f \in Files |-> "scan"] /\ offline = {}
    /\ shadows = [c \in {} |-> c] /\ pending = [f \in Files |-> QuarantineAfter]
    /\ safe = TRUE /\ judge = "done" /\ lock = Free
    /\ sweep = [p \in Sweeps |-> [Idle EXCEPT !.pc = "halted"]]
    /\ reader = NoRead /\ spent = MaxEvents

\* Every request is answered and the process is gone for good.
GemmaOff ==
    /\ server = "halted" /\ queue = <<>>
    /\ request = [r \in Requests |-> "answered"] /\ age = [r \in Requests |-> 0]
    /\ left = {} /\ abandoned = {} /\ outcome = [r \in Requests |-> "result"]
    /\ worker = Gemma!Idling /\ loaded = FALSE /\ quiet = IdleSecs + 1

BackgroundInit ==
    \/ Init /\ GemmaOff
    \/ SweepOff /\ Gemma!Init

BackgroundNext ==
    \/ Next /\ UNCHANGED gemmaVars
    \/ Gemma!Next /\ UNCHANGED vars

BackgroundSpec ==
    /\ BackgroundInit /\ [][BackgroundNext]_<<vars, gemmaVars>>
    /\ Fairness /\ Gemma!Fairness
-----------------------------------------------------------------------------
(* The properties of the Gemma daemon; those of the sweeps are their own.  *)

\* IdleIsIdle: the watchdog stops no daemon while a handler waits.
IdleIsIdle == Gemma!IdleIsIdle

\* NoHang: no handler waits for ever.
NoHang == Gemma!NoHang

\* QueueDrains: every job comes to be taken, while the calls of the model return.
QueueDrains == Gemma!QueueDrains
=============================================================================
