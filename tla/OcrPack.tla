------------------------------- MODULE OcrPack -------------------------------
(***************************************************************************)
(* The OCR pack: installing it (bubble_shield_setup_ocr.py), once or again, *)
(* with runs that are cut off; reading a document with it meanwhile        *)
(* (bubble_shield_extract.py), which may use no network; removing it.      *)
(***************************************************************************)
EXTENDS Naturals

CONSTANT MaxFaults   \* bound: kills, steps that fail for a time, removals, changes of the Pythons

VARIABLES
    pythons,    \* a Python 3.12 on the PATH, the installer's own, or both
    setup,      \* where the run of the set-up is
    env,        \* the environment: how far it was made, and from which Python
    cached,     \* models in the cache of the hub
    sentinel,   \* layout_model_cached.flag is there
    manifest,   \* ocr.json is there
    vision,     \* the helper for Apple's OCR: the file, and its flag
    read,       \* the extraction that is going on, or its result
    faults      \* bounded

vars == <<pythons, setup, env, cached, sentinel, manifest, vision, read, faults>>
pack == <<env, cached, sentinel, manifest, vision>>

\* The table model is fetched after the layout model, both before any read.
Model == {"layout", "tables"}

\* none, its bin/python, pip, a docling that can be imported but is not whole,
\* all the packages.
NoEnv == [st |-> "none", of |-> "path"]

Init ==
    /\ pythons \in SUBSET {"path", "own"}
    /\ setup = "off" /\ env = NoEnv /\ cached = {}
    /\ sentinel = FALSE /\ manifest = FALSE
    /\ vision = [file |-> "none", flag |-> FALSE]
    /\ read = [at |-> "idle"] /\ faults = 0

\* bin/python is a link to the Python it was made from.
HasPython == env.st # "none" /\ env.of \in pythons
Goto(to) == setup' = to
Fail == setup' = "off"
Limited == faults < MaxFaults /\ faults' = faults + 1
-----------------------------------------------------------------------------
(* The set-up.                                                             *)

Start ==
    /\ setup = "off" /\ Goto("venv")
    /\ UNCHANGED <<pythons, pack, read, faults>>

\* An environment whose python is there is kept; else there must be a 3.12.
EnsureVenv ==
    /\ setup = "venv"
    /\ IF HasPython THEN Goto("deps") /\ UNCHANGED env
       ELSE IF pythons = {} THEN Fail /\ UNCHANGED env
       ELSE Goto("make") /\ env' = [st |-> "none", of |-> IF "path" \in pythons THEN "path" ELSE "own"]
    /\ UNCHANGED <<pythons, cached, sentinel, manifest, vision, read, faults>>

\* python, then pip.
MakeVenv ==
    /\ setup = "make" /\ env.of \in pythons
    /\ env' = [env EXCEPT !.st = IF @ = "none" THEN "python" ELSE "pip"]
    /\ Goto(IF env'.st = "pip" THEN "deps" ELSE "make")
    /\ UNCHANGED <<pythons, cached, sentinel, manifest, vision, read, faults>>

\* Mutant: a docling that cannot be imported is taken for installed.
KeepDeps ==
    /\ setup = "deps" /\ HasPython /\ Goto("models") /\ UNCHANGED env
    /\ UNCHANGED <<pythons, cached, sentinel, manifest, vision, read, faults>>

\* Nothing is installed if docling can be imported, and nothing without pip.
EnsureDeps ==
    /\ setup = "deps" /\ HasPython
    /\ \/ env.st \in {"part", "all"} /\ Goto("models") /\ UNCHANGED env
       \/ env.st = "pip" /\ env' = [env EXCEPT !.st = "part"] /\ Goto("install")
    /\ UNCHANGED <<pythons, cached, sentinel, manifest, vision, read, faults>>

InstallDeps ==
    /\ setup = "install" /\ HasPython
    /\ env' = [env EXCEPT !.st = "all"] /\ Goto("models")
    /\ UNCHANGED <<pythons, cached, sentinel, manifest, vision, read, faults>>

\* Mutant: the models are fetched without the one for tables.
FetchLayout ==
    /\ setup = "models"
    /\ \/ sentinel /\ Goto("manifest") /\ UNCHANGED cached
       \/ ~sentinel /\ env.st = "all" /\ HasPython
          /\ cached' = cached \cup {"layout"} /\ Goto("sentinel")
    /\ UNCHANGED <<pythons, env, sentinel, manifest, vision, read, faults>>

\* A process of the environment fetches what the cache lacks, one model after
\* the other, unless the sentinel is there.
FetchModels ==
    /\ setup = "models"
    /\ \/ sentinel /\ Goto("manifest") /\ UNCHANGED cached
       \/ /\ ~sentinel /\ env.st = "all" /\ HasPython
          /\ cached' = cached \cup {IF "layout" \notin cached THEN "layout" ELSE "tables"}
          /\ Goto(IF Model \subseteq cached' THEN "sentinel" ELSE "models")
    /\ UNCHANGED <<pythons, env, sentinel, manifest, vision, read, faults>>

WriteSentinel ==
    /\ setup = "sentinel" /\ sentinel' = TRUE /\ Goto("manifest")
    /\ UNCHANGED <<pythons, env, cached, manifest, vision, read, faults>>

WriteManifest ==
    /\ setup = "manifest" /\ manifest' = TRUE /\ Goto("verify")
    /\ UNCHANGED <<pythons, env, cached, sentinel, vision, read, faults>>

\* A page is read offline, without tables; the result only tells the user.
VerifyPack ==
    /\ setup = "verify" /\ Goto("vision")
    /\ UNCHANGED <<pythons, pack, read, faults>>

\* The helper is copied over the one that is there, ...
CopyVision ==
    /\ setup = "vision" /\ Goto("smoke") /\ vision' = [vision EXCEPT !.file = "torn"]
    /\ UNCHANGED <<pythons, env, cached, sentinel, manifest, read, faults>>

\* ... and flagged if it runs on this Mac; a flag is not taken away.
SmokeVision ==
    /\ setup = "smoke" /\ Goto("off")
    /\ \E file \in {"runs", "fails"} :
          vision' = [file |-> file, flag |-> vision.flag \/ file = "runs"]
    /\ UNCHANGED <<pythons, env, cached, sentinel, manifest, read, faults>>

\* No network, no room, the time is over...
StepFails ==
    /\ setup \in {"make", "deps", "models", "verify"} /\ Limited /\ Fail
    /\ UNCHANGED <<pythons, pack, read>>

\* ... no Python any more; no pip; a docling that is not whole.
CannotWork ==
    /\ CASE setup = "make" -> env.of \notin pythons
         [] setup = "deps" -> ~HasPython \/ env.st = "python"
         [] setup = "install" -> ~HasPython
         [] setup = "models" -> ~sentinel /\ (~HasPython \/ env.st # "all")
         [] OTHER -> FALSE
    /\ Fail
    /\ UNCHANGED <<pythons, pack, read, faults>>

Kill ==
    /\ setup # "off" /\ Limited /\ Goto("off")
    /\ UNCHANGED <<pythons, pack, read>>
-----------------------------------------------------------------------------
(* Removing it, with all the data of the application; the cache of the hub  *)
(* is elsewhere.  An environment that is being made fails.  Pythons come and *)
(* go.                                                                      *)

Purge ==
    /\ Limited
    /\ pythons' = pythons \ {"own"} /\ env' = NoEnv
    /\ sentinel' = FALSE /\ manifest' = FALSE /\ vision' = [file |-> "none", flag |-> FALSE]
    /\ setup' = IF setup = "make" THEN "off" ELSE setup
    /\ UNCHANGED <<cached, read>>

ChangePythons ==
    /\ Limited /\ pythons' \in (SUBSET {"path", "own"}) \ {pythons}
    /\ UNCHANGED <<setup, pack, read>>
-----------------------------------------------------------------------------
(* Reading a document.                                                     *)

\* With a text layer; with a thin one, one with glued words, or one that is
\* both; with none, the pages are pictures; a picture.
Kind == {"text", "thin", "glued", "thin and glued", "scan", "image"}
Thin(kind) == kind \in {"thin", "thin and glued"}

End(with) == read' = [at |-> "idle", kind |-> read.kind, with |-> with]

\* Without OCR the text layer is what there is; a thin one is looked at for glued
\* words before that.
NoOcr ==
    \/ read.kind \in {"scan", "image"} /\ End("error")
    \/ read.kind = "thin and glued" /\ read' = [at |-> "vision", kind |-> "glued"]
    \/ read.kind \in {"text", "thin", "glued"} /\ End("native")

Extract ==
    /\ read.at = "idle"
    /\ \E kind \in Kind :
          read' = CASE kind = "text" -> [at |-> "idle", kind |-> kind, with |-> "native"]
                    [] kind = "image" -> [at |-> "pack", kind |-> kind]
                    [] OTHER -> [at |-> "vision", kind |-> kind]
    /\ UNCHANGED <<pythons, setup, pack, faults>>

\* What OCR read of a thin document counts if it is more than the text layer.
Result(with) == End(with) \/ (Thin(read.kind) /\ NoOcr)

\* Apple's OCR first, unless it is switched off; whatever is wrong with it, the
\* pack is next.
Vision ==
    /\ read.at = "vision"
    /\ \/ vision = [file |-> "runs", flag |-> TRUE] /\ Result("vision")
       \/ read' = [at |-> "pack", kind |-> read.kind]
    /\ UNCHANGED <<pythons, setup, pack, faults>>

\* The pack is used with a manifest, the sentinel and its python only.
Pack ==
    /\ read.at = "pack"
    /\ IF manifest /\ sentinel /\ HasPython THEN read' = [at |-> "docling", kind |-> read.kind]
       ELSE NoOcr
    /\ UNCHANGED <<pythons, setup, pack, faults>>

\* A process of the environment, offline; it may fail or find nothing.
Docling ==
    /\ read.at = "docling"
    /\ \/ HasPython /\ env.st = "all" /\ Model \subseteq cached /\ Result("docling")
       \/ NoOcr
    /\ UNCHANGED <<pythons, setup, pack, faults>>
-----------------------------------------------------------------------------
Advance ==
    \/ EnsureVenv \/ MakeVenv \/ EnsureDeps \/ InstallDeps \/ FetchModels \/ CannotWork
    \/ WriteSentinel \/ WriteManifest \/ VerifyPack \/ CopyVision \/ SmokeVision

Next ==
    \/ Start \/ Advance \/ StepFails \/ Kill
    \/ Purge \/ ChangePythons
    \/ Extract \/ Vision \/ Pack \/ Docling

Spec == Init /\ [][Next]_vars

\* Fairness: the user runs the set-up again and again, and a run goes on.
Fairness == WF_vars(Start) /\ WF_vars(Advance)
FairSpec == Spec /\ Fairness
-----------------------------------------------------------------------------
(* Properties.                                                             *)

TypeOK ==
    /\ pythons \subseteq {"path", "own"}
    /\ setup \in {"off", "venv", "make", "deps", "install", "models", "sentinel", "manifest",
                  "verify", "vision", "smoke"}
    /\ env \in [st : {"none", "python", "pip", "part", "all"}, of : {"path", "own"}]
    /\ cached \subseteq Model /\ sentinel \in BOOLEAN /\ manifest \in BOOLEAN
    /\ vision \in [file : {"none", "torn", "runs", "fails"}, flag : BOOLEAN]
    /\ read.at \in {"idle", "vision", "pack", "docling"} /\ faults \in 0..MaxFaults

\* OfflineReads: an extraction starts the pack's process, which may not use the
\* network, only when the cache has both of its models, whichever run of the
\* set-up was cut off where, and whatever was removed in between.
OfflineReads == read.at = "docling" => Model \subseteq cached

PackReady == manifest /\ sentinel /\ HasPython /\ env.st = "all" /\ Model \subseteq cached

\* PackInstalls: running the set-up again installs the pack, whatever was cut
\* off or failed for a time, if there is a Python 3.12 in the end, and except
\* for what no run repairs: an environment that was cut off before it had pip,
\* and one that was cut off while docling was being installed.
PackInstalls ==
    <>[]PackReady \/ <>[](pythons = {}) \/ <>[](HasPython /\ env.st \in {"python", "part"})
=============================================================================
