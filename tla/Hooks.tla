-------------------------------- MODULE Hooks --------------------------------
(***************************************************************************)
(* The hooks: their installation, and the guard that one of them is.  They *)
(* share no state, so a behaviour is one of the two; the other is off, in  *)
(* a state in which none of its steps is possible.                         *)
(***************************************************************************)
EXTENDS HookInstall

CONSTANTS
    Files, Folder, Over, Depth, Leads, MarkerFile, Exts, Project, Mounted, Infra,
    Call, Markings, Lapses, Markers, Configs

VARIABLES marker, config, host, pc, call, tries, cfg, lapse, verdict, kept, met, guardEdits

guardVars == <<marker, config, host, pc, call, tries, cfg, lapse, verdict,
               kept, met, guardEdits>>

G == INSTANCE Guard WITH File <- Files, edits <- guardEdits

ASSUME GuardAssumption == G!TreeAssumption /\ G!CallAssumption /\ G!ConfigAssumption

GuardOff ==
    /\ marker = [d \in Folder |-> None] /\ config = None /\ host = TRUE
    /\ pc = "halted" /\ call = None /\ tries = 0 /\ cfg = G!AsConfig(G!Blank)
    /\ lapse = {} /\ verdict = "allow" /\ kept = {} /\ met = {} /\ guardEdits = MaxEdits

InstallOff ==
    /\ plugin = MaxVersion /\ settings = [ours |-> Entry, others |-> Foreign]
    /\ stable = [s \in Script |-> MaxVersion] /\ daemon = None /\ agent = FALSE
    /\ running = None /\ data = TRUE /\ shared = FALSE /\ run = [p \in Proc |-> Idle]
    /\ foreign = Foreign /\ raced = FALSE /\ overlap = FALSE /\ cut = FALSE
    /\ starts = MaxStarts /\ kills = MaxKills /\ edits = MaxEdits

MCInit ==
    \/ Init /\ GuardOff
    \/ InstallOff /\ G!Init
MCNext ==
    \/ Next /\ UNCHANGED guardVars
    \/ pc # "halted" /\ G!Next /\ UNCHANGED vars
MCSpec == MCInit /\ [][MCNext]_<<vars, guardVars>>

\* GuardHolds: a call that the guard lets pass reads nothing protected.
GuardHolds == G!GuardHolds

\* DenialsHaveReasons: a file tool is not denied without a ground.
DenialsHaveReasons == G!DenialsHaveReasons
=============================================================================
