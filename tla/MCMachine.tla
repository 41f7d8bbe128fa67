---------------------------- MODULE MCMachine ----------------------------
(***************************************************************************)
(* Small instances of what is installed on a Mac, and of the file of the   *)
(* shadow store.  One specification has the desktop application, its       *)
(* launcher, the mini's server and that file, the other the two set-ups    *)
(* that a server starts: of the models, by runs of which several may be    *)
(* under way, and of the OCR pack, together with reading a document.       *)
(* They share no state, so a behaviour is one of them; the others are off: *)
(* as installed, in a state in which none of their steps and faults is     *)
(* possible.                                                               *)
(***************************************************************************)
EXTENDS AppInstall, FiniteSets

CONSTANTS
    Launcher, Workers, Foreign, MaxPort, MaxCode, MaxKills,
    None, MaxVersion,
    Row, Sweeper, Asker, Zero, MaxAsks, MaxStoreFaults,
    Run

ASSUME MachineAssumption ==
    /\ Workers \in Nat /\ MaxPort \in Nat
    /\ None \notin Nat /\ None \notin {"list", "get", "put", "mark"}
    /\ IsFiniteSet(Asker) /\ \A rows \in SUBSET Row : Zero # rows

VARIABLES
    launcher, worker, code, killed,
    version, setup, script, engine, job, loaded, minid, net, token, miniFaults,
    at, disk, op, todo, put, left, trouble, asks, storeFaults,
    ocrPythons, ocrSetup, env, cached, sentinel, ocrManifest, vision, read, ocrFaults,
    run, mlVenv, local, hub, mlManifest, agent, gemmaEnv, gemma, gemmaAgent, ocr, marker, kills

deskVars == <<launcher, worker, code, killed>>
miniVars == <<version, setup, script, engine, job, loaded, minid, net, token, miniFaults>>
storeVars == <<at, disk, op, todo, put, left, trouble, asks, storeFaults>>
ocrVars == <<ocrPythons, ocrSetup, env, cached, sentinel, ocrManifest, vision, read, ocrFaults>>
mlVars == <<run, mlVenv, local, hub, mlManifest, agent, gemmaEnv, gemma, gemmaAgent, ocr,
            marker, kills>>
macVars == <<vars, deskVars, miniVars, storeVars>>
setupVars == <<ocrVars, mlVars>>

Desk == INSTANCE AppLauncher
Mini == INSTANCE MiniTier WITH plist <- job, faults <- miniFaults
File == INSTANCE SealedStore WITH faults <- storeFaults, MaxFaults <- MaxStoreFaults
Ocr == INSTANCE OcrPack WITH pythons <- ocrPythons, setup <- ocrSetup,
                             manifest <- ocrManifest, faults <- ocrFaults
Ml == INSTANCE MlSetup WITH venv <- mlVenv, manifest <- mlManifest

AppOff ==
    /\ pythons = {Abi} /\ published = 1 /\ pc = "halted" /\ repo = "usable" /\ checkout = 1
    /\ py312 = "none" /\ venv = [st |-> "full", for |-> Abi, deps |-> 1]
    /\ bundle = TRUE /\ plist = TRUE /\ faults = MaxFaults

DeskOff ==
    /\ launcher = [l \in Launcher |-> [pc |-> "halted"]]
    /\ worker = [w \in 1..Workers |-> Desk!NoWorker] /\ code = MaxCode /\ killed = MaxKills

MiniOff ==
    /\ version = MaxVersion /\ setup = "halted" /\ script = FALSE
    /\ engine = [p \in Mini!Place |-> None] /\ job = FALSE /\ loaded = FALSE
    /\ minid = [p \in Mini!Proc |-> Mini!Off] /\ net = TRUE /\ token = None
    /\ miniFaults = MaxFaults

StoreOff ==
    /\ at = [path \in File!Path |-> IF path = "enc" THEN 1 ELSE None]
    /\ disk = [i \in File!Inode |-> IF i = 1 THEN Row ELSE {}]
    /\ op = [p \in File!Proc |-> [File!Idle EXCEPT !.pc = "halted"]]
    /\ todo = {} /\ put = {} /\ left = FALSE /\ trouble = {}
    /\ asks = MaxAsks /\ storeFaults = MaxStoreFaults

OcrOff ==
    /\ ocrPythons = {"path"} /\ ocrSetup = "halted" /\ env = [Ocr!NoEnv EXCEPT !.st = "all"]
    /\ cached = Ocr!Model /\ sentinel = TRUE /\ ocrManifest = TRUE
    /\ vision = [file |-> "none", flag |-> FALSE] /\ read = [at |-> "halted"]
    /\ ocrFaults = MaxFaults

MlOff ==
    /\ run = [r \in Run |-> [Ml!Off EXCEPT !.at = "halted"]] /\ mlVenv = "full"
    /\ local = [m \in Ml!Model |-> Ml!Files] /\ hub = [m \in Ml!Model |-> FALSE]
    /\ mlManifest = Ml!Model /\ agent = TRUE
    /\ gemmaEnv = TRUE /\ gemma = "whole" /\ gemmaAgent = TRUE
    /\ ocr = TRUE /\ marker = [ml |-> "ready", ocr |-> "ready"] /\ kills = MaxKills

MacOff == AppOff /\ DeskOff /\ MiniOff /\ StoreOff
-----------------------------------------------------------------------------
(* The application, its launcher, the mini's server, the file of the store. *)

MacInit ==
    /\ \/ Init /\ DeskOff /\ MiniOff /\ StoreOff
       \/ AppOff /\ Desk!Init /\ MiniOff /\ StoreOff
       \/ AppOff /\ DeskOff /\ Mini!Init /\ StoreOff
       \/ AppOff /\ DeskOff /\ MiniOff /\ File!Init
    /\ OcrOff /\ MlOff

MacNext ==
    \/ Next /\ UNCHANGED <<deskVars, miniVars, storeVars, setupVars>>
    \/ Desk!Next /\ UNCHANGED <<vars, miniVars, storeVars, setupVars>>
    \/ Mini!Next /\ UNCHANGED <<vars, deskVars, storeVars, setupVars>>
    \/ File!Next /\ UNCHANGED <<vars, deskVars, miniVars, setupVars>>

MacSpec ==
    /\ MacInit /\ [][MacNext]_<<macVars, setupVars>>
    /\ Fairness /\ Mini!Fairness
-----------------------------------------------------------------------------
(* The two set-ups.                                                        *)

SetupInit ==
    /\ MacOff
    /\ \/ Ocr!Init /\ MlOff
       \/ OcrOff /\ Ml!Init

SetupNext ==
    \/ Ocr!Next /\ UNCHANGED <<macVars, mlVars>>
    \/ ocrSetup = "halted" /\ Ml!Next /\ UNCHANGED <<macVars, ocrVars>>

SetupSpec ==
    /\ SetupInit /\ [][SetupNext]_<<macVars, setupVars>>
    /\ Ocr!Fairness /\ Ml!Fairness
-----------------------------------------------------------------------------
(* The properties of the instances; those of AppInstall are its own.       *)

\* NoOrphan: a server without a launcher is one whose launcher was killed.
NoOrphan == Desk!NoOrphan

\* FreshWindow: no window on a server that an update has left behind.
FreshWindow == Desk!FreshWindow

\* FreshEngine: the mini's server is ready with the engine just installed.
FreshEngine == Mini!FreshEngine

\* ReadTierUp: the mini's server comes back.
ReadTierUp == Mini!ReadTierUp

\* NothingInClear: no working copy stays when nothing is under way.
NothingInClear == File!NothingInClear

\* PutsKept: what was put in the store stays in it.
PutsKept == File!PutsKept

\* OfflineReads: no read of a document starts the pack before its models are there.
OfflineReads == Ocr!OfflineReads

\* PackInstalls: running its set-up again installs the OCR pack.
PackInstalls == Ocr!PackInstalls

\* AgentHasModels: launchd runs no daemon whose models are not whole.
AgentHasModels == Ml!AgentHasModels

\* ReadyIsArmed: a set-up that is told as ready has its daemon installed.
ReadyIsArmed == Ml!ReadyIsArmed

\* InstalledUnlessHalf: trying again installs the daemon, unless a model stays
\* half-downloaded.
InstalledUnlessHalf == Ml!InstalledUnlessHalf
=============================================================================
