# A TLA+ model of Bubble Shield

Bubble Shield masks personal data in documents before an agent reads them and
restores it afterwards, all on one machine. This directory models the parts of
it that keep state and share it between processes, and the engine that decides
what is masked; it model-checks them with TLC and proves the central invariants
with TLAPS. Paths below are relative to `src/`; `V/` stands for
`plugin/bubble-shield/vendor/bubble_shield/` and `S/` for
`plugin/bubble-shield/scripts/`. The copies of these files under `bubble_shield/`
and `plugin/bubble-shield/mcpb/server/` are the same program shipped twice more.

## 1. The system

| Component | State | Operations | Hard because | Correct when |
|---|---|---|---|---|
| Vault (`V/vault.py`) | value -> token, token -> value, counters, person of a name word, variant letters | `token_for`, `forget`, `forget_subject`, `rectify`, `save`, `load` | tokens live on in documents the program no longer sees | a token never gets a second meaning; restoring gives back what was masked |
| Vault file | one JSON file per mission and one temporary file | load, mutate, save by MCP server, hook, sweep, web application | nothing locks it; a save is two steps; kills | every returned document restores |
| Detection and engine (`bubble_shield/recognizers.py`, `structured_ext.py`, `engine.py`, `V/profile_sweep.py`, lists) | the text on its way | detect, sweep, resolve overlaps, boost, lists, mask, residual scans, restore | a dozen detectors overlap; masking changes what later scans see | what may be sent is clean and comes back |
| Anonymisation pipeline (`S/bubble_shield_mcp.py`, `S/posttool_anonymize.py`) | one job per call | check the daemon, detect, gates, second passes | the daemon goes away between its check and its use | nothing unverified is returned |
| NER daemon (`S/bubble_shield_nerd.py`) | port, model, self-test, stamp file | start, warm up, detect, idle exit | started by launchd and by every client, at once | one model in memory; a blind one is not trusted |
| Gemma daemon (`S/bubble_shield_gemmad.py`) | job queue, worker thread, model, time of last activity | submit, run, time out, idle shutdown | one worker, several timeouts, lazy load | nobody hangs; the worker survives failures |
| Shadow store (`V/shadow_store.py`) | shadows by content hash, pending rows; on disk one envelope and a working copy | put, get, mark stale, pending, quarantine; decrypt, seal | sweeps, readers and judgments at once; one working copy for all | catches up with the folder; nothing lost or left in clear |
| Sweep (`V/shadow_index.py`, `S/bubble_shield_sweep.py`) | lock file, its walk | lock, walk, index, defer, fail, release | files change, go offline; the process is killed | every file is settled in the end |
| Gazetteer, safe list, review queue, judge memory | four JSON files | add, remove, queue, confirm, dismiss, expire, mark judged | one decision writes several of them, in steps | masking stops only after a verdict |
| De-pollution (`V/depollute.py`) | a pass's lists | triage, ask the judge, mark, un-mask | started by every read, every sweep and a button; the judge is down or late | every entry is decided, none silently |
| Folder guard (`S/guard.py`) | markers, one configuration | one decision per tool call | links, changes of directory, mounts, patterns; edits and I/O errors meanwhile | what is let pass reads nothing protected |
| Hook installation (`S/install_user_hooks.py`, `uninstall_user_hooks.py`) | `settings.json`, copies of the scripts, LaunchAgent | arm, refresh, remove | runs at each session start, in place, without a lock | an entry has its script; foreign entries are kept |
| Model set-up (`S/bubble_shield_setup_ml.py`) | environment, models, manifest, markers, LaunchAgents | install, skip what is there, `--gc` | two runs at once; a run skips what an earlier one left | ready means armed |
| OCR pack and extraction (`S/bubble_shield_setup_ocr.py`, `bubble_shield_extract.py`) | environment, cache, sentinel, manifest, vision helper | install, choose a reader | a sentinel speaks for a cache that is elsewhere | no read uses the network |
| Desktop application (`install-app.sh`, `uninstall-app.sh`, `launcher/`) | checkout, environment, bundle, LaunchAgent; server process, port | install, remove; start, reap, wait, stop | half-made environments, killed launchers, updates | trying again installs; no server outlives its launcher; no stale window |
| Mini tier (`S/bubble_shield_minid.py`, `bubble_shield_setup_mini.py`) | engine in two places, token, port | set-up, start, serve | replaced while it runs; the tailnet is late | serves the new engine, and comes back |
| Web application (`webapp/app.py`) | - | routes that edit the stores above | runs beside everything else | edits are not lost |
| Mail, doctor, coverage and audit reports, prompt tripwire | reports and logs | - | - | not modelled |

Calls between them: the MCP server, the hook and the sweep load the vault,
anonymise with the engine and the NER daemon, save the vault, seed its values
into the gazetteer and start a de-pollution pass on a thread; a pass asks the
Gemma daemon over HTTP, removes entries, puts words on the safe list (which
marks shadows stale) and queues an item for review; the sweep re-indexes what is
stale; the web application edits vault file, gazetteer, safe list and review
queue; the guard stands before every tool call of the agent; the set-ups and
installers put all of this in place, restart it and take it away.
`PROJECT.json` lists every component, modelled or not, and the hazards, each at
the line where it bites.

## 2. Modules

| Module | Models | State -> code | Actions -> code |
|---|---|---|---|
| `VaultOps` | class `Vault` as operators from vault to vault | one record field per dictionary | `Mint`/`TokenFor` = `token_for` with `_token_for_name`; `Forget`; `Rectify` |
| `TokenBook` | what a vault promises: fresh tokens, meanings changed by edits only | `book`, `used` | abstract |
| `Vault` | one vault object, any sequence of calls | `vault`; `issued` is history | `RequestToken`, `ForgetValue`, `ForgetSubject`, `RectifyValue` |
| `VaultSessions` | the vault file and the processes that share it | `file`, `tmp`; per process `pc`, `mem`, `page`, `edit` | `Open` = `_engine`; `StartSave` .. `Replace` = `Vault.save`; `GemmaMask` = the second passes; `RectifyToken`, `ForgetValues` = routes; `Abort` = a gate that raises, or a kill |
| `Recognizers` | what the detectors see in a line of words, and which of their matches win | - | `Raw` and its parts = `detect` and the form detectors; `Before`, `Resolve` = `resolve_overlaps` |
| `Engine` | one call of the engine on a document, then the way back | `text`, `vault`, `entities`, `residual`, `heard` | `Sweep`, `Mask`/`Apply`, the residual loop, `SafeToSend`, `Restore` |
| `NerDaemon` | daemon processes, port, stamp, weights, replies | `daemon`, `port`, `stamp`, `weights`, `openai` | `SpawnDaemon`, `Bind`, `Up` = `_daemon_up`; `Detect`, then `Answer` = `do_POST` under the lock; `IdleExit`, `CooldownEnds` |
| `Anonymise` | calls of `_anonymise_text` and of the hook, over `NerDaemon` | `job` | `Check`, `Stamp`, scans, `ReadGate`, Gemma's windows, `Conclude` |
| `GemmaWorker` | the Gemma daemon | `queue`, `abandoned`, `outcome`, `worker`, `loaded`, `quiet` | `Submit` .. `Reply` = `submit`; `DropAbandoned` .. `RunEnds` = `_run`; `Watchdog`, `Shutdown`, `Start` |
| `ShadowSweep` | shadow store, sweeps, readers, a judgment, the folder | tables `shadows`, `pending`; `lock`; per sweep its walk | `CheckLock`/`TakeLock`; `StartWalk`, `Visit`; `Hash` .. `Clear` = `index_one`; `Defer`, `Fail`; `ReadFile`, `CacheRemote`, `ServeRaw`; `SaveSafe`, `MarkStale` |
| `SealedStore` | the store's files when there is a passphrase | `at` (path -> inode), `disk`, `op` | `Connect` .. `OpenDb` = `connect`; `Read`, `Write`; `Seal` .. `Replace` = `_seal`; `Drop` |
| `Gazetteer` | the four stores, passes, the review page | `gaz`, `safe`, `judged`, `pending`, `log`; `cleared` and `verdict` are history | `Load`, `Ask`, `Mark`, `Remove`, `Free`, `Log` = `depollute_gazetteer`; `Confirm*`, `Dismiss*`, `Feed`, `Expire`; `Seed`, `AddKnown` |
| `Guard` | the hook's decision on a tool call | `marker`, `config`; `call`, `tries`, `cfg`, `verdict`; `lapse`, the look-ups that fail | `Event`, `Load`, `Scan`, `Error`, `Return`; the user's `Mark`, `Configure`, `EnableGlobal` |
| `HookInstall` | runs of the two hook scripts | `settings`, `stable`, `daemon`, `agent`, `run` | copies, `Kickstart`, `Read`, `Write`, `Uninstall`, `Kill` |
| `MlSetup` | runs of the model set-up, and the server's status | `run`, `venv`, `local`, `manifest`, `agent`, `marker` | `SetupStart`, one action per step, `Gc` |
| `OcrPack` | the OCR set-up beside a reading | `env`, `cached`, `sentinel`, `manifest`, `vision`, `read` | one action per step; `Extract`, `Vision`, `Pack`, `Docling` |
| `AppInstall` | runs of the installer and the uninstaller | `repo`, `checkout`, `py312`, `venv`, `bundle`, `plist` | one action per step that leaves something on the disk; `CloneCutOff`, `CheckVenvCutOff`, `RemoveInPart`, `PurgeInPart` = a command that ends in the middle or fails for a file |
| `AppLauncher` | launchers and their servers | `launcher`, `worker`, `code` | `Pgrep`, `Reap`, `FindFreePort`, `Spawn`, waiting, `Close`, kills, an update |
| `MiniTier` | the mini's set-up, LaunchAgent and server | `setup`, `engine`, `plist`, `loaded`, `minid`, `token` | one action per step; `KeepAlive`; `ReadToken`, `MakeToken`, `Bind`, `LoadEngine` |
| `Hooks` | installation and guard side by side | the two modules' variables | the two modules' actions |
| `VaultOpsProofs` | lemmas about a vault's operations, for the two modules below | | |
| `VaultProofs`, `SessionsProofs` | theorems of `Vault` and `VaultSessions` | | |
| `GazetteerProofs`, `DaemonProofs` | theorems of `Gazetteer`; of `NerDaemon`, `Anonymise` and `GemmaWorker` | | |
| `HooksProofs` | theorems of `HookInstall` and `Guard` | | |
| `MachineProofs` | theorems of `MlSetup`, `OcrPack`, `AppInstall`, `AppLauncher`, `MiniTier` and `SealedStore` | | |
| `EngineProofs` | theorems of `Engine`, lemmas about `Recognizers` | | |
| `MC*` | small instances; `MCHooks` (of `Hooks`), `MCBackground` (of `ShadowSweep` and `GemmaWorker`) and `MCMachine` (with one specification for `setup`, one for `machine`) hold several | | |

Data. Values, words, types, contents and requests are model values or members
of small sets. Vault tokens are equal when type, number and variant are; their
spelling is left out. `HasToken` compares with `startswith` in the code, so
`TypePrefix` is a relation between types. In `Recognizers` and `Engine` a
document is a sequence of words of which the instance says what they are (a
title, a name, the digits of a number...); check digits are computed. The
engine model was compared with the code on every document of its run.

Steps. Each model cuts what a process does where another process, or a kill,
can see a difference: opening a file, writing it and renaming it in
`VaultSessions` and `SealedStore`, where a process that holds an inode goes on
writing to it wherever its path leads by then; one SQLite transaction or one
read of the disk in `ShadowSweep`; one call of a JSON store in `Gazetteer`; one
copied tree, one file or one `launchctl` call in the installers, of which those of
the application also leave a checkout or an environment in part. In
`GemmaWorker` a tick passes only when nothing is due, so that a wait ends
exactly at its timeout; everywhere else a timer may fire when its guard allows.

## 3. Runs

For every property of a passing run a mutant of the code (an operator marked
"Mutant" before the original) is on file that violates it.

| Run | Instance and bounds | States, time | Shows |
|---|---|---|---|
| `vault` | two names that share a word and another, two types, 4 tokens | 63 k | `RoundTrip`, `MintsAreFresh`, refinement `VaultIsBook` |
| `sessions` | `Serial`: one process, 2 values, 2 types, 3 tokens, edits, kills; `Races`: two processes, the second pass, 2 tokens | 1.4 M, 60 s | `DocsRestore`, `PageRestores`, refinement `FileIsBook` |
| `sessions_concurrent` (violation) | two processes without the second pass | | `OneMeaning` fails |
| `detection` | every document of one line, or of two, out of 33; four names a neural detector may report in any scan, one of them safe-listed; with and without a file name | 23 k, 60 s | `SafeIsClean`, `DetectedIsMasked`, `RestoresText`, `HeardEverywhere` |
| `detection_known` (violation) | the same documents, nothing heard | | `KnownMasked` fails |
| `anonymise` | one client, two daemon processes, one kill, one extra start; a letter, two forms (one too large), a degraded scan | 433 k, 3 min | `OneModel`, `FormVerified`, `BlindNotTrusted`, `Rearmed` |
| `background` | two sweeps, one file, contents that are polluted, uncertifiable; quarantine after 2; 1 event; and the Gemma daemon: three requests, a queue of one place, an idle time of 2 ticks | 161 k, 65 s | `Converges`, `StaleRefreshed`; `IdleIsIdle`, `NoHang`, `QueueDrains` |
| `gazetteer` | two passes, a surname and a common word with two types, 2 events | 604 k, 90 s | `ResolvedOnce`, `NoSilentUnmask`, `Decided` |
| `gazetteer_judged` (violation) | the same values and passes, 1 event | | `JudgedWasUpheld` fails |
| `hooks` | two processes, 3 runs, 2 versions, 1 kill, 1 edit, one foreign entry; and the guard on a tree of five folders and five files | 2.3 M, 95 s | `ArmedHasScript`, `ForeignKept`, `UpdateTakesEffect`; `GuardHolds`, `DenialsHaveReasons` |
| `setup` | two runs of the model set-up, 1 kill; and the OCR pack with 2 faults | 244 k, 65 s | `AgentHasModels`, `ReadyIsArmed`, `InstalledUnlessHalf`; `OfflineReads`, `PackInstalls` |
| `machine` | application (Pythons 3.9, 3.12, 3.13, 2 faults); 2 launchers, 2 servers, 2 ports, 1 update, 1 kill; mini tier (2 versions, 2 faults); sealed store (the sweep, one other process, one row, 1 fault) | 211 k, 40 s | `JobHasApp`, `Installs`; `NoOrphan`, `FreshWindow`; `FreshEngine`, `ReadTierUp`; `NothingInClear`, `PutsKept` |

Several components in one run. The components of `MCHooks`, of `MCBackground` and of
`MCMachine` share no state (the `SetupSpec` of `MCMachine` starts the model set-up or
the OCR pack, its `MacSpec` one of the others). A behaviour there is one of a single component: the
initial states are the union of each one's own initial states, with the others
"off", that is in a constant state in which none of their actions is enabled.
Each component's state space is therefore the one it has alone, and an off
component satisfies its properties from the start.

Why the bounds are enough. Reuse of a token needs a token, its erasure and
another mint; a lost update needs two mints by two processes, a second
generation one more; the second-pass race needs two. One file is enough for a
sweep because files meet only in the lock and in the walk's two sets; one event
(edit, kill, read, going offline) combines with failures, judgments and two
sweeps, which are not bounded. In `gazetteer` two values let one be judged while
the other is un-masked; two events are one outage and one act of a person, or
one kill. Three requests fill the queue, the worker and the door. Two lines make
every pair of the 33 meet, which is what overlaps, the sweep over a document and
a match across a line end need. In `anonymise` one kill and one start besides
those of the clients let a daemon die while another starts. Two kills of the
installer tear an environment and then another part; two faults of `OcrPack`
are one cut-off run and one Python that goes. Two launchers, two servers and two
ports make one launcher meet a server that another left or is starting. In
`machine` `Foreign` is empty: that another program has a port only moves the
launcher to the next one, as another launcher's server does.
The bounds are the constants named `Max*`, `Workers` and `Passes`; each is in a
guard of the actions it bounds. Deadlock is not checked where the system may
really stop: after the last token or with a torn file in the vault runs, when
every bounded process has ended in `hooks` and `machine`, and after the one call
of `detection`.

Fairness.
- `ShadowSweep`: launchd starts a sweep every 20 minutes and a running one goes
  on; a file being fetched arrives. Reads, edits, kills, judgments are not fair.
- `GemmaWorker`: time passes and handlers wake up; calls of the model need not
  return: only `QueueDrains` assumes so, as its premise.
- `Gazetteer`: passes run again and again, started by each sweep; nobody has to
  open the review page.
- `Anonymise`: processes run, a client waits no longer than its timeout, idle
  exit and cooldown are timers, the network returns. Strong fairness only for
  the agent's next read, which kills and exits may disable and enable again.
- `MlSetup`: a run goes on, the user starts another; what may fail to be
  obtained (a Python, a download) is strongly fair, a failure is a choice.
- `OcrPack`, `AppInstall`, `MiniTier`: a run goes on, the user runs the set-up
  until it has worked, launchd restarts what its `KeepAlive` names, the tailnet
  comes up. Failures that pass are bounded by `MaxFaults`; a failure that
  follows from the state is an action of its own (`CannotWork`), not bounded.
- The vault modules, `Engine`, `Guard`, `HookInstall`, `AppLauncher` and
  `SealedStore` have safety properties only and assume none. `hooks` uses
  symmetry of the two processes, which is sound for those.

Each module states a `TypeOK`. Those of `Vault`, `HookInstall` and `Gazetteer`
are theorems and that of `GemmaWorker` is part of its invariant; the other proofs
carry the types they need. The rest was checked with TLC on the instances above;
none is among the runs' properties.

## 4. Findings

Three statements of the repository do not hold of the code, each with a run.

1. `sessions_concurrent`: a number "is unique per distinct value" (`V/vault.py:19`).
   Two processes that load the file at the same time hand one token to two persons.
2. `detection_known`: a gazetteer value "must STAY MASKED regardless of any
   negative list" (`S/bubble_shield_mcp.py:578`). Overlaps are resolved before the
   lists are applied, so that a longer match which the allowlist drops takes the
   known value with it.
3. `gazetteer_judged`: a down judge "must NOT mark these as judged, or they'd be
   skipped forever without ever being judged" (`V/depollute.py:158`). A pass knows of
   a failure only by an exception, and its client swallows them (`:225`): what was not
   answered is marked (`:168`), stays masked and is not asked about again. `Decided`
   does not count such an entry as decided; it names it.

Met while modelling and read directly off the code, without a run:

- Vault: `forget` says "erase one real value and its token entirely"
  (`V/vault.py:147`), but a value masked under two types keeps its older token.
  Tokens of the second passes (`S/bubble_shield_mcp.py:1034`, `:1083`) are minted
  after the vault was saved.
- Shadows: an edited file that is quarantined is skipped by its path
  (`bubble_shield/shadow_index.py:425`, against `README.md:245`); the text stored
  under a hash may have been made from later contents (`shadow_index.py:55`).
- De-pollution: a claimed value ("sticky", `webapp/app.py:1170`) may be removed by
  the next pass.
- Sealed store: the first operation after a passphrase is set decrypts nothing and
  drops the plaintext store; a keychain that does not answer between `connect` and
  `_seal` makes the working copy the store, and the next operation replaces it;
  `connect` is called outside the callers' `try`, so that its errors leave the
  working copy in clear; two writers share one temporary file.
- Guard: "anything goes wrong → DENY" (`S/guard.py:1418`), but a path or a marker
  that cannot be looked at counts as unmarked (`:220`, `:231`) and the call passes. A
  `Grep` "MUST stay blocked on a protected folder" (`:384`); one without a path, or
  with one above the folder, is let pass. One directory is used for a whole
  command, so that a read before the `cd` is looked for after it (`:1563`); a `cd` to a
  quoted path is cut at its first space (`:878`), one behind a line end, a pipe or
  a keyword is not seen (`:861`).
- Pipeline: a daemon may go cold between its check (`S/posttool_anonymize.py:284`)
  and its use, and the text is certified on the recognizers alone. One started
  without its model answers `/health` without the lock, with no self-test, while its
  first detection loads the model (`S/bubble_shield_nerd.py:376-385`); a client takes
  that for up (`S/posttool_anonymize.py:170-173`), so that a blind daemon is trusted for
  as long (`BlindNotTrusted` names it). `_ner_status`
  does not look at `self_test`. The comment above the idle default of the daemon
  (`S/bubble_shield_nerd.py:50`) says it outlasts the sweep's 20 minutes; it is 600 s.
  A configuration that cannot be parsed ends the MCP server, because
  `_load_config` denies with `sys.exit` (`S/bubble_shield_mcp.py:2044`).
- Set-up: "fail-open per model" (`S/bubble_shield_setup_ml.py:1000`), but verifying
  a model that is missing raises and no LaunchAgent is installed; a Gemma that is
  being downloaded counts as present (`S/bubble_shield_mcp.py:2131`).
- OCR: an environment without pip, or with a docling that can be imported and is
  not whole, is never repaired (`PackInstalls` names both).
- Application: neither is an environment without pip or with a Python that is
  gone (`install-app.sh:312-333`; `Installs`). The comment "idempotent self-update"
  (`install-app.sh:18`) does not hold after a cut-off: into files that a removal left
  (`S/uninstall_user_hooks.py:175`) git does not clone (`:41`), over a lock or half a
  repository it does not reset or fetch (`:32`, `:37`), and each run ends there
  (`Unclonable`); packages that lost files count as installed. Removing wants a Python 3.10 on the
  PATH and does not look at the private one (`uninstall-app.sh:31`). The mini's LaunchAgent
  is not among those the uninstaller removes (`S/uninstall_user_hooks.py:79`).
- Launcher: a second launch also kills the server of a launcher that runs, though
  the comments say "orphaned" (`launcher/_server.py:67`, `:213`).
- Mini: the token is made before the port is bound, so that a second process may
  replace it (`S/bubble_shield_minid.py:188-196`); the set-up takes whoever answers
  for its own server.
- The sweep for heard names is "ADD-ONLY: only new spans (not already covered) are
  appended" (`bubble_shield/engine.py:255`), and a safe word "only suppresses NOM
  masks" (`CHANGELOG.md:563`). Every place of the name is appended and the overlaps
  are resolved again (`engine.py:272`): a swept name (0.9) takes the place of a
  form's birthplace (0.88). With the word on the safe list, "lieu de naissance :
  LYON" is masked in one document and left in clear in another that has a second
  LYON which the neural detector hears. Seen on the code as well; met in the attempt
  to prove `DetectedIsMasked` and `SafeIsClean`, neither of which allowed for it:
  both name it now, and the instance of `detection` has it.
- Detection: the scan for residuals may nest a token in a value, which restoring
  replaces once; `is_known_pii` compares accents while the recognizer does not;
  `detect` says "highest-priority match" and takes the longest; the company name
  after a title and a name ("Me TESTONI SELARL DU DOCTEUR MARTIN") stays in clear
  although the text may be sent, as does a "Type : SELARL X" line followed by a
  company line.

## 5. Proofs

Every safety invariant and every action property of the passing runs is also a
theorem, for all values of the constants, but for a part of `SafeIsClean`. Most of them are not inductive as they stand. Each proof module names the invariant
that is, and TLC checked the less obvious of these on the run's instance before
they were proved.

**Vault** (`VaultProofs`, from `VaultAssumption` and `SubjectsAssumption`):
`TypeCorrect`, `Reversible` (`RoundTrip`), `NumberingAhead`, `FreshTokens`
(`MintsAreFresh`), `StableMeaning`, `Refinement` (`VaultIsBook`). The invariant is
`IInv == TypeOK /\ RoundTrip /\ Numbered`: every token handed out has a number no
greater than its type's counter and, for names, a variant before the next letter
of its person. Without `Numbered` neither property is inductive, since minting is
harmless only if the token is new. The refinement maps `book` to `toValue` and
`used` to `issued`.

**Vault file** (`SessionsProofs`, for any number of processes and any scenes):
- `PagesRestore` (`PageRestores`) by `VaultsInv`: every vault there is, in memory
  or in a file, is sound by itself, whoever else writes.
- `DocumentsRestore` (`DocsRestore`) and `SessionsRefine` (`FileIsBook`) by
  `AloneInv`, about one process at a time: what it will save extends what the file
  says or carries out exactly the edit in hand, and its numbering is ahead of every
  token the file ever held, however often it died. Both take `Distinct` as a
  hypothesis: the constants for "no file" and "torn file" are neither equal nor
  vaults. It cannot be an `ASSUME`, since TLC cannot enumerate the vaults.

**Gazetteer** (`GazetteerProofs`): `TypeCorrect`, `NeverAskedAgain`
(`ResolvedOnce`), `FailsTowardMasking` (`NoSilentUnmask`). The invariant adds that
the copy of the queue on which the review page works keeps waiting and resolved
items apart too (`Apart`), and that what a pass is about to un-mask, or has
removed and not yet put on the safe list, was found harmless (`Justified`).

**Daemons and pipeline** (`DaemonProofs`, from `DaemonAssumption` and
`AnonymiseAssumption`):
- `OneModelLoaded` (`OneModel`) is inductive with the types of the daemons.
- `BlindUntrusted` (`BlindNotTrusted`) by `Tested`: a blind model failed its
  self-test, in the warm-up or with an earlier request, or the first request that
  uses it still holds the lock; and nothing is tested or used before it is loaded.
- `FormsVerified` (`FormVerified`): `FormInv` says of every job that when the
  engine has reported something, less is in clear than there was, and that what
  Gemma adds was still in clear and is nothing before it reads; so a form that
  passes the last gate has something masked on either side of its disjunction.
- `NeverIdleWhileAwaited` (`IdleIsIdle`), of `GemmaWorker`: whoever waits has waited
  at least as long as the daemon has been quiet (`Awaited`), because a request is
  activity when it arrives and both clocks run from there. Its hypothesis is
  `WorkerConstants`, which the instance assumes: no timeout is longer than the idle
  time.

**Hooks** (`HooksProofs`, from `InstallAssumption`, `ContentsAssumption` and
`GuardAssumption`):
- `InstallTypes`, `ScriptBeforeEntry` (`ArmedHasScript`), `EntriesKept`
  (`ForeignKept`). `JobsMatch` says which places belong to which job; `ForeignInv`
  that what a process read and will write has the user's entries as they are now
  unless he raced it; `GuardInv` that who will write the entry has copied its
  script, and that no removal takes it away that does not overlap an installation.
- `RefreshReachesAll` (`UpdateTakesEffect`) by `UpdateInv`: what a refresh that is
  alone has copied stays, and a daemon running on another copy than that on the
  disk still has its restart before it. The attempt to prove this showed that the
  exception of the property was too narrow: it named only a refresh killed before
  the restart, but one whose plugin is removed while it copies
  (`S/install_user_hooks.py:265`) also leaves a torn copy that a later refresh may
  not see. `cut` now records both; it takes four starts to reach that state, and the run
  has three.
- `NothingProtectedRead` (`GuardHolds`) and `NothingElseDenied`
  (`DenialsHaveReasons`) by `Watch`: what was protected since the call came is
  protected now, and the configuration that was loaded does not exempt it,
  whatever was edited since. The scan sees what protects a path unless the
  search starts above it or a look-up fails (`Seen`); it then blocks the path
  (`Blocked`), and denies a command (`ShellDenied`) that reads one in any other way
  than those of `Residual`. The assumptions say
  what a file system is (`TreeAssumption`: folders nest, links are resolved to the
  end, depth tells the folders over a node apart), what a call is
  (`CallAssumption`) and that a torn file is no configuration.

**The engine** (`EngineProofs`, from `EngineAssumption`: documents are sequences of
words, words and type names have lengths, tokens are distinct). The code's loops are
folds over sets. `FoldExists` gives the function behind a fold, element by element
over the finite subsets, and what holds of all of it is shown by a smallest subset
for which it does not, without induction over data.
- `ResolveSettles`: the matches kept do not overlap, and one that was dropped overlaps
  one that is no worse. Every recognizer's matches have one shape (`Shaped`, with a
  lemma for each recognizer): a span, and a value that ends where the span ends.
  A match that lies within another has no more characters, and as many only if the
  rest is line ends (`CharsBelow`).
- `DetectionsMasked` (`DetectedIsMasked`) and `HeardNamesMasked` (`HeardEverywhere`)
  by `IInv`: after the first masking nothing of what was kept and passes the lists is in
  clear. It is about cells of the text, which later scans only remove (`Applied`);
  the two properties follow from it and from what the overlaps leave out.
- `DocumentRestored` (`RestoresText`) by `RInv`: the text, cell by cell, spells the
  document (`Spells`): a position in the document for each cell, whose piece is its
  word or, for a token, its value in the vault. One `Put` keeps that, because the
  matches are put from the end and apart (`Putting`, `Masking`). The proof showed two
  premises to be missing: that the document has no token of its own and that the
  tokens last.
- `WhatLeavesWasScanned` (`ScannedClean`, the first part of `SafeIsClean`) by `CInv`: a scan that finds nothing masks
  nothing, hence the text it leaves is the one it scanned.

**Set-ups** (`MachineProofs`): `ReadsStayOffline` (`OfflineReads`): the sentinel is
written only with both models in the cache, and nothing removes them from it.
`AgentNeverHalf` (`AgentHasModels`) and `ReadyMeansArmed` (`ReadyIsArmed`), for any
number of set-ups at once: what one run verified no other takes away, and only a
run that has installed the daemon leaves Gemma's environment behind.

**The machine** (`MachineProofs`, from `MachineAssumption`; each of its own
specification):
- `AgentHasApp` (`JobHasApp`): there is a checkout wherever the installer is, and
  no LaunchAgent wherever the uninstaller is.
- `NoOrphanLeft` (`NoOrphan`), `WindowNotOlder` (`FreshWindow`): once a launcher has
  listed the strays, a server older than what was installed at its launch is one
  it is about to end (`OldEnds`).
- `EngineInstalled` (`FreshEngine`): from the moment the set-up has stopped the job
  until it loads it launchd does not have it, and what it loads is what was just
  installed (`Replaced`).
- `NoneInClear` (`NothingInClear`), `PutsStay` (`PutsKept`): as long as one operation
  runs at a time, paths have inodes of their own, and a case for each place of an
  operation says which file holds the rows (`Working`). A free inode is chosen at
  each creation; that there is one is a counting argument, for which the set of
  processes is finite.

Not proved:
- The second part of `SafeIsClean`. The first is about the last scan as it was; this
  one is about a scan without the neural detector, so that it compares what the
  greedy choice makes of two different sets of matches. Ties between matches are
  broken by a `CHOOSE` that may differ between the two, and that no tie matters is a
  fact about every pair of recognizers and the words they are given, not one of the
  overlaps.
- What the checksums compute, and the share of words in `ZeroDetection`: no theorem
  needs it, and induction over data is out of the prover's reach.
- Liveness under fairness (`NoHang`, `QueueDrains`, `Converges`, `StaleRefreshed`,
  `Decided`, `Rearmed`, `InstalledUnlessHalf`, `PackInstalls`, `Installs`, `ReadTierUp`),
  and with them `ENABLED`, which TLAPS does not handle.

No module has a recursive operator.

## 6. Not modelled

- Mail (an IMAP client without state of its own), the doctor, coverage and audit
  reports, dossier and surrogate (derived from the other stores), the prompt
  tripwire (regular expressions on one prompt), encryption and purge of the vault
  file.
- Spelling of tokens: the 27th variant of a name is spelt with `{`, which the
  token pattern does not match.
- `Recognizers`/`Engine`: glued words, professions, URLs, street addresses,
  telephone numbers, case and accents, cuts inside a word, custom types, the type
  policy beyond amounts. A neural detector's report is a choice.
- `Guard`: one change of directory and one word of a command at a time; where that
  simplifies, the model lets pass more than the code does. `GuardHolds` names what
  passes and reads something protected all the same, and says nothing of it: a `Grep`
  without a path or a search from above a marked folder (`SearchedFromAbove`);
  look-ups of the path itself that failed (`LookupsFailed`); in commands (`Residual`)
  words the shell computes, a relative word before a `cd` or after one that is cut at
  a space, behind a line end, hidden outside the mounts or unresolvable on a host
  (`Misled`), a bare name inside the folder or after a `cd`, a pattern over a folder
  that only the configuration protects or that starts inside the marked one, and the
  assistant's own mounts (`InOwnMount`). In the instance of `hooks` the property
  fails when any one of these is left out of it.
- `Gazetteer`: a call of a JSON store is atomic, so that two calls at once lose
  nothing. `ShadowSweep`: the plain SQLite mode. `SealedStore`: a transaction is
  one step, the journal file is left out and a torn write leaves zero bytes.
- `MlSetup`: creating the environment is one step ("bare"). `NerDaemon` has the
  daemon's own fetch of the second model, which `MlSetup` leaves to the script; it
  does not have `GET /selftest`, which loads the model without the lock and which no
  part of the program calls.
- `AppInstall`: enabling the plugin in Claude Code (`install-app.sh:403-426`) and
  the `.command` file made where no bundle can be (`:347-364`).
- `MiniTier`: the authentication of requests and what `index_request` leaves on
  the mini's disk.

## 7. Plan

Done in the order of dependence: the vault and its file, the stores that decide
what is masked, the daemons, the engine, the guard and the hooks, the set-ups,
the application and the store at rest. Next:

1. Proofs: what is left needs an abstract specification first, for a read of the
   pipeline over its daemons and for the sealed store as one set of rows; then
   the rest of `SafeIsClean`, for words that no two recognizers rank alike, and `TypeOK` of
   `ShadowSweep`, `AppLauncher` and `MiniTier`.
2. The JSON stores: load, change and replace of one store by several processes,
   shown to implement an atomic store for one caller.
3. A sweep that read the safe list before a word was put on it and stores after
   (`bubble_shield/safe_words.py:64`).
4. The grammar of tokens.
