------------------------------ MODULE MlSetup ------------------------------
(***************************************************************************)
(* Installing the models: the set-up script, run by the mini server on     *)
(* request.  Nothing prevents two runs at once, any run may be killed, and *)
(* a run skips whatever an earlier one seems to have done.                 *)
(***************************************************************************)
EXTENDS Naturals

CONSTANTS
    Run,        \* runs of the script
    MaxKills    \* bound: runs that are killed

VARIABLES
    run,        \* [run -> how far it is, whether it named the second model, ...]
    venv,       \* the ML environment: none, bare (just created) or full
    local,      \* [model -> which of its files are in the local store]
    hub,        \* [model -> whether the hub's cache has a copy too]
    manifest,   \* the models that ml.json names; none at all: no ml.json
    agent,      \* the daemon's LaunchAgent is installed
    gemmaEnv, gemma, gemmaAgent,   \* Gemma's environment, snapshot and LaunchAgent
    ocr,        \* the OCR pack's sentinel
    marker,     \* what the server's wrapper wrote about either script
    kills       \* bounded

vars == <<run, venv, local, hub, manifest, agent, gemmaEnv, gemma, gemmaAgent,
          ocr, marker, kills>>
gem == <<gemmaEnv, gemma, gemmaAgent>>

Model == {"gliner", "openai"}
\* The onnx file, and what it needs besides (the data file, the tokenizer).
Files == {"onnx", "rest"}

Off == [at |-> "off", named |-> FALSE, ok |-> FALSE]
Places == {"off", "venv", "create", "deps", "gliner", "get gliner", "openai", "get openai",
           "manifest", "verify", "agent", "gemma", "get gemma", "gemma agent", "end", "ocr"}

Init ==
    /\ run = [r \in Run |-> Off] /\ venv = "none"
    /\ local = [m \in Model |-> {}] /\ hub \in [Model -> BOOLEAN]
    /\ manifest = {} /\ agent = FALSE
    /\ gemmaEnv = FALSE /\ gemma = "none" /\ gemmaAgent = FALSE
    /\ ocr = FALSE /\ marker = [ml |-> "absent", ocr |-> "absent"] /\ kills = 0

Present(m) == "onnx" \in local[m]
Whole(m) == local[m] = Files

\* Gemma counts as present as soon as its snapshot directory has an entry.
GemmaPresent == gemmaEnv /\ gemma # "none"
AllPresent == (\A m \in Model : Present(m)) /\ ocr /\ GemmaPresent
-----------------------------------------------------------------------------
(* Starting and ending a run.                                              *)

At(r, at) == run[r].at = at
Goto(r, at) == run' = [run EXCEPT ![r].at = at]
Fail(r) == run' = [run EXCEPT ![r].at = "end", ![r].ok = FALSE]

\* The server starts a run, unless everything is present; it does not look
\* whether one is running.
SetupStart(r) ==
    /\ run[r] = Off /\ ~AllPresent
    /\ Goto(r, "venv")
    /\ marker' = [ml |-> "installing", ocr |-> "installing"]
    /\ UNCHANGED <<venv, local, hub, manifest, agent, gem, ocr, kills>>

\* The wrapper records how the script ended and goes on with the OCR script.
End(r) ==
    /\ At(r, "end")
    /\ Goto(r, "ocr")
    /\ marker' = [marker EXCEPT !.ml = IF run[r].ok THEN "ready" ELSE "error"]
    /\ UNCHANGED <<venv, local, hub, manifest, agent, gem, ocr, kills>>

OcrSetup(r) ==
    /\ At(r, "ocr") /\ run' = [run EXCEPT ![r] = Off]
    /\ \/ ocr' = TRUE /\ marker' = [marker EXCEPT !.ocr = "ready"]
       \/ ocr' = ocr /\ marker' = [marker EXCEPT !.ocr = "error"]
    /\ UNCHANGED <<venv, local, hub, manifest, agent, gem, kills>>

\* A logout, a crash.
Kill(r) ==
    /\ run[r] # Off /\ run' = [run EXCEPT ![r] = Off]
    /\ kills < MaxKills /\ kills' = kills + 1
    /\ UNCHANGED <<venv, local, hub, manifest, agent, gem, ocr, marker>>
-----------------------------------------------------------------------------
(* The environment and the models.                                         *)

EnsureVenv(r) ==
    /\ At(r, "venv") /\ Goto(r, IF venv = "none" THEN "create" ELSE "deps")
    /\ UNCHANGED <<venv, local, hub, manifest, agent, gem, ocr, marker, kills>>

\* Whatever is there is cleared; without a Python 3.12 the run ends.
CreateVenv(r) ==
    /\ At(r, "create")
    /\ \/ venv' = "bare" /\ Goto(r, "deps")
       \/ Fail(r) /\ UNCHANGED venv
    /\ UNCHANGED <<local, hub, manifest, agent, gem, ocr, marker, kills>>

\* Mutant: an environment that exists is taken for a full one.
EnsureDepsOnce(r) ==
    /\ At(r, "deps") /\ Goto(r, "gliner") /\ UNCHANGED venv
    /\ UNCHANGED <<local, hub, manifest, agent, gem, ocr, marker, kills>>

EnsureDeps(r) ==
    /\ At(r, "deps")
    /\ \/ venv' = "full" /\ Goto(r, "gliner")
       \/ venv # "full" /\ Fail(r) /\ UNCHANGED venv
    /\ UNCHANGED <<local, hub, manifest, agent, gem, ocr, marker, kills>>

Get(m) == IF m = "gliner" THEN "get gliner" ELSE "get openai"

\* A model that the run has, or believes to have; the second is then named.
Got(r, m) ==
    IF m = "gliner" THEN Goto(r, "openai")
    ELSE run' = [run EXCEPT ![r].at = "manifest", ![r].named = TRUE]

\* A model with an onnx file is not downloaded.
SkipModel(r, m) ==
    /\ At(r, m)
    /\ IF Present(m) THEN Got(r, m) ELSE Goto(r, Get(m))
    /\ UNCHANGED <<venv, local, hub, manifest, agent, gem, ocr, marker, kills>>

\* The files arrive one by one; then the copy in the hub's cache is removed.
Download(r, m) ==
    /\ At(r, Get(m))
    /\ IF Whole(m)
       THEN Got(r, m) /\ hub' = [hub EXCEPT ![m] = FALSE] /\ UNCHANGED local
       ELSE /\ \E f \in Files \ local[m] : local' = [local EXCEPT ![m] = @ \cup {f}]
            /\ UNCHANGED <<run, hub>>
    /\ UNCHANGED <<venv, manifest, agent, gem, ocr, marker, kills>>

\* Without the first model the run ends, without the second it goes on.
DownloadFails(r, m) ==
    /\ At(r, Get(m))
    /\ IF m = "gliner" THEN Fail(r)
       ELSE run' = [run EXCEPT ![r].at = "manifest", ![r].named = FALSE]
    /\ UNCHANGED <<venv, local, hub, manifest, agent, gem, ocr, marker, kills>>

WriteManifest(r) ==
    /\ At(r, "manifest") /\ Goto(r, "verify")
    /\ manifest' = {"gliner"} \cup (IF run[r].named THEN {"openai"} ELSE {})
    /\ UNCHANGED <<venv, local, hub, agent, gem, ocr, marker, kills>>

\* Mutant: a model is not verified, only looked for.
VerifyPresent(r) ==
    /\ At(r, "verify")
    /\ IF \A m \in Model : Present(m)
       THEN run' = [run EXCEPT ![r].at = "agent", ![r].ok = TRUE] ELSE Fail(r)
    /\ UNCHANGED <<venv, local, hub, manifest, agent, gem, ocr, marker, kills>>

\* Mutant: a run whose verification failed goes on with Gemma.
VerifyOrGemma(r) ==
    /\ At(r, "verify")
    /\ IF venv = "full" /\ Whole("gliner") /\ run[r].named /\ Whole("openai")
       THEN run' = [run EXCEPT ![r].at = "agent", ![r].ok = TRUE] ELSE Goto(r, "gemma")
    /\ UNCHANGED <<venv, local, hub, manifest, agent, gem, ocr, marker, kills>>

\* Both models are loaded and used once.  The second is verified even if it
\* could not be downloaded and has no name any more, which raises.
Verify(r) ==
    /\ At(r, "verify")
    /\ IF venv = "full" /\ Whole("gliner") /\ run[r].named /\ Whole("openai")
       THEN run' = [run EXCEPT ![r].at = "agent", ![r].ok = TRUE] ELSE Fail(r)
    /\ UNCHANGED <<venv, local, hub, manifest, agent, gem, ocr, marker, kills>>

\* The daemon is copied to its stable place and launchd told to run it.
InstallLaunchAgent(r) ==
    /\ At(r, "agent") /\ agent' = TRUE /\ Goto(r, "gemma")
    /\ UNCHANGED <<venv, local, hub, manifest, gem, ocr, marker, kills>>
-----------------------------------------------------------------------------
(* Gemma: whatever fails here does not fail the run.                       *)

InstallGemmaEnv(r) ==
    /\ At(r, "gemma")
    /\ \/ gemmaEnv' = TRUE /\ Goto(r, "get gemma")
       \/ gemmaEnv' \in {gemmaEnv, TRUE} /\ Goto(r, "end")
    /\ UNCHANGED <<venv, local, hub, manifest, agent, gemma, gemmaAgent, ocr, marker, kills>>

DownloadGemma(r) ==
    /\ At(r, "get gemma")
    /\ \/ gemma = "whole" /\ Goto(r, "gemma agent") /\ UNCHANGED gemma
       \/ gemma' = (IF gemma = "none" THEN "begun" ELSE "whole") /\ UNCHANGED run
       \/ Goto(r, "end") /\ UNCHANGED gemma
    /\ UNCHANGED <<venv, local, hub, manifest, agent, gemmaEnv, gemmaAgent, ocr, marker, kills>>

InstallGemmaAgent(r) ==
    /\ At(r, "gemma agent") /\ gemmaAgent' = TRUE /\ Goto(r, "end")
    /\ UNCHANGED <<venv, local, hub, manifest, agent, gemmaEnv, gemma, ocr, marker, kills>>
-----------------------------------------------------------------------------
\* --gc: of a model that has an onnx file in the local store the copy in the
\* hub's cache is removed.
Gc ==
    /\ hub' = [m \in Model |-> hub[m] /\ ~Present(m)]
    /\ UNCHANGED <<run, venv, local, manifest, agent, gem, ocr, marker, kills>>

Step(r) ==
    \/ End(r) \/ OcrSetup(r) \/ EnsureVenv(r) \/ CreateVenv(r) \/ EnsureDeps(r)
    \/ \E m \in Model : SkipModel(r, m) \/ Download(r, m) \/ DownloadFails(r, m)
    \/ WriteManifest(r) \/ Verify(r) \/ InstallLaunchAgent(r)
    \/ InstallGemmaEnv(r) \/ DownloadGemma(r) \/ InstallGemmaAgent(r)

Next ==
    \/ \E r \in Run : SetupStart(r) \/ Step(r) \/ Kill(r)
    \/ Gc

Spec == Init /\ [][Next]_vars

\* What a run may fail to obtain.
Obtains(r) ==
    \/ CreateVenv(r) /\ venv' # venv
    \/ EnsureDeps(r) /\ venv' # venv
    \/ \E m \in Model : Download(r, m) /\ local' # local

\* Fairness: a run goes on; what can fail (Python, pip, a download) succeeds if
\* it is tried again and again; the user tries again.
Fairness ==
    \A r \in Run : WF_vars(Step(r)) /\ WF_vars(SetupStart(r)) /\ SF_vars(Obtains(r))

FairSpec == Spec /\ Fairness
-----------------------------------------------------------------------------
(* What the server tells.                                                  *)

SetupStatus ==
    IF AllPresent THEN "ready"
    ELSE IF "installing" \in {marker.ml, marker.ocr} THEN "installing"
    ELSE IF "error" \in {marker.ml, marker.ocr} THEN "error"
    ELSE IF (\E m \in Model : Present(m)) \/ ocr \/ GemmaPresent THEN "partial"
    ELSE "absent"
-----------------------------------------------------------------------------
(* Properties.                                                             *)

TypeOK ==
    /\ run \in [Run -> [at : Places, named : BOOLEAN, ok : BOOLEAN]]
    /\ venv \in {"none", "bare", "full"} /\ local \in [Model -> SUBSET Files]
    /\ hub \in [Model -> BOOLEAN] /\ manifest \subseteq Model
    /\ {agent, gemmaEnv, gemmaAgent, ocr} \subseteq BOOLEAN
    /\ gemma \in {"none", "begun", "whole"}
    /\ marker \in [ml : {"absent", "installing", "ready", "error"},
                   ocr : {"absent", "installing", "ready", "error"}]
    /\ kills \in 0..MaxKills
    /\ \A r \in Run : At(r, "verify") => manifest # {}

\* AgentHasModels: launchd is never told to run a daemon whose models are not
\* whole, or are not in the manifest it reads, whatever runs there were.
AgentHasModels == agent => "gliner" \in manifest /\ \A m \in Model : Whole(m)

\* ReadyIsArmed: who is told that everything is ready, and that therefore
\* nothing is to be started any more, has the daemon installed.
ReadyIsArmed == SetupStatus = "ready" => agent

Half == \E m \in Model : Present(m) /\ ~Whole(m)

\* InstalledUnlessHalf: by trying again one ends up with the daemon installed,
\* unless a model stays for ever with its onnx file and without the rest, as a
\* run that ended between the two leaves it and no later run completes it.
InstalledUnlessHalf == <>agent \/ <>[]Half
=============================================================================
