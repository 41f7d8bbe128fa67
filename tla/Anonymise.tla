----------------------------- MODULE Anonymise -----------------------------
(***************************************************************************)
(* Anonymising a text, as the mini server's read tools and the post-tool   *)
(* hook do it: find the daemon (or start one), let the engine mask what    *)
(* the recognizers and the daemon report, scan what it wrote again, and    *)
(* pass the gates; a structured form must then be verified by Gemma, and   *)
(* prose may be completed by it.  What Gemma answers is not constrained.   *)
(* The ML pack is installed and the hook is switched on.                   *)
(***************************************************************************)
EXTENDS NerDaemon

CONSTANTS
    Docs,        \* the texts that occur
    MaxWindows   \* Gemma verifies at most so many windows of a form

\* "plain" a recognizer finds, "name" only the daemon, "deep" only Gemma;
\* "late" can be recognised once the text before it was masked.
Value == {"plain", "name", "late", "deep"}

ASSUME AnonymiseAssumption ==
    /\ MaxWindows \in Nat /\ Docs # {}
    /\ Docs \subseteq [has : SUBSET Value, late : Nat, form : BOOLEAN,
                       garbled : BOOLEAN, substantial : BOOLEAN, windows : Nat \ {0}]

VARIABLES
    job     \* [client -> what it anonymises, how far it is and what it gave back]

vars == <<ner, job>>

Rescans == 3
Ready == {"idle", "done"}

\* Who anonymises: a read for the agent, which tries twice to start a daemon, or
\* the hook, which tries once.
Tries == [read |-> 2, hook |-> 1]

Job(d, by, at, known) ==
    [at |-> at, doc |-> d, by |-> by, tries |-> Tries[by], known |-> known, ner |-> FALSE,
     clear |-> d.has, late |-> d.late, scan |-> 0, heard |-> {}, residual |-> {},
     mode |-> "none", window |-> 0, spans |-> {}, out |-> "none"]

Idle == Job(CHOOSE d \in Docs : TRUE, "read", "idle", FALSE)

Init ==
    NerInit /\ job = [k \in Client |-> Idle]

Become(k, j) == job' = [job EXCEPT ![k] = j]
Goto(k, at) == Become(k, [job[k] EXCEPT !.at = at])
Finish(k, out) == Become(k, [Idle EXCEPT !.at = "done", !.by = job[k].by, !.out = out])
Give(k, applied) ==
    Become(k, [job[k] EXCEPT !.at = "done", !.out = "body",
                             !.clear = @ \ applied, !.known = FALSE, !.ner = FALSE])

At(k, at) == job[k].at = at
Reads(k) == job[k].by = "read"
-----------------------------------------------------------------------------
(* Finding the daemon.                                                     *)

\* The gazetteer may know the name from an earlier text.  For mail the hook asks
\* no daemon.
Start(k, by) ==
    /\ job[k].at \in Ready
    /\ \E d \in Docs : \E known \in {FALSE, "name" \in d.has} :
          \/ Become(k, Job(d, by, "check", known))
          \/ by = "hook" /\ Become(k, [Job(d, by, "scan", FALSE) EXCEPT !.tries = 0])
    /\ UNCHANGED ner

\* The check may also fail because the daemon took longer than 0.4 s.
Check(k) ==
    /\ At(k, "check")
    /\ \/ Up /\ Become(k, [job[k] EXCEPT !.at = "scan", !.tries = 0, !.ner = TRUE])
       \/ Goto(k, "stamp")
    /\ UNCHANGED ner

\* Without the daemon a read is refused; a hook goes on if the recognizers
\* alone see something, else it leaves the text as it is.
WithoutNer(k) ==
    IF job[k].tries > 1 THEN Become(k, [job[k] EXCEPT !.at = "stamp", !.tries = @ - 1])
    ELSE IF Reads(k) THEN Finish(k, "down")
    ELSE IF "plain" \in job[k].doc.has
    THEN Become(k, [job[k] EXCEPT !.at = "scan", !.tries = 0])
    ELSE Finish(k, "raw")

\* Within the cooldown nobody starts another one.
Stamp(k) ==
    /\ At(k, "stamp")
    /\ IF stamp THEN WithoutNer(k) ELSE Goto(k, "spawn")
    /\ UNCHANGED ner

Spawn(k) == At(k, "spawn") /\ SpawnDaemon /\ WithoutNer(k)
-----------------------------------------------------------------------------
(* The engine.                                                             *)

Ask(k) == At(k, "scan") /\ job[k].ner /\ Post(k) /\ Goto(k, "wait")

\* What one detection reports; a detection the daemon did not answer, or
\* answered blindly, reports what the recognizers find.
Detected(k) ==
    LET j == job[k]
    IN  j.clear \cap ( {"plain"}
                       \cup (IF reply[k] = "found" \/ j.known THEN {"name"} ELSE {})
                       \cup (IF j.heard # {} /\ j.late > 0 THEN {"late"} ELSE {}) )

\* What is masked leaves the text; of "late" there may be more.
Masked(j, found) ==
    LET late == IF "late" \in found THEN j.late - 1 ELSE j.late
    IN  [j EXCEPT !.clear = (@ \ found) \cup (IF late > 0 THEN @ \cap {"late"} ELSE {}),
                  !.late = late, !.heard = @ \cup found, !.scan = @ + 1, !.at = "scan"]

\* The daemon has answered or was lost, or there is none to ask.
Answered(k) ==
    \/ At(k, "wait") /\ reply[k] # "pending"
    \/ At(k, "scan") /\ ~job[k].ner

\* The text is masked; its output is detected again, and masked again while
\* that finds something, three times; what a last scan finds stays.
Hear(k) ==
    /\ Answered(k)
    /\ LET j == job[k]
           found == Detected(k)
       IN  IF j.scan = 0 \/ (j.scan <= Rescans /\ found # {})
           THEN Become(k, Masked(j, found))
           ELSE Become(k, [j EXCEPT !.residual = found, !.at = "masked"])
    /\ reply' = [reply EXCEPT ![k] = "none"]
    /\ UNCHANGED <<port, daemon, stamp, weights, openai, due, kills, starts>>
-----------------------------------------------------------------------------
(* The gates.                                                              *)

Found(k) == job[k].heard # {}
ZeroDetection(k) == ~Found(k) /\ job[k].residual = {} /\ job[k].doc.substantial

\* A hook gives its text back when something is masked.
HookGate(k) ==
    /\ At(k, "masked") /\ ~Reads(k)
    /\ IF Found(k) THEN Give(k, {}) ELSE Finish(k, "raw")
    /\ UNCHANGED ner

\* On to Gemma, with a form that is not too large.
Escalate(k, mode) ==
    LET d == job[k].doc
    IN  IF d.form /\ d.windows > MaxWindows THEN Finish(k, "large")
        ELSE Become(k, [job[k] EXCEPT !.at = IF d.form THEN "verify" ELSE "add", !.mode = mode])

Modes == {"all", "hard", "off"}

\* Nothing found in a degraded text is no verdict.  A form goes to Gemma, or is
\* refused where the configuration has switched it off; prose goes to Gemma in
\* mode "all".
ReadGate(k) ==
    /\ At(k, "masked") /\ Reads(k)
    /\ LET d == job[k].doc
       IN  IF ZeroDetection(k) /\ d.garbled THEN Finish(k, "garbled")
           ELSE \E mode \in Modes :
                  IF mode = "off" /\ d.form THEN Finish(k, "unverified")
                  ELSE IF mode = "all" \/ d.form THEN Escalate(k, mode)
                  ELSE Give(k, {})
    /\ UNCHANGED ner

\* Gemma reads the masked text window by window.  When one fails, a form is
\* refused, and prose is given back as the engine masked it.
Window(k) ==
    /\ job[k].at \in {"verify", "add"} /\ job[k].window < job[k].doc.windows
    /\ \/ \E found \in SUBSET job[k].clear :
            Become(k, [job[k] EXCEPT !.window = @ + 1, !.spans = @ \cup found])
       \/ At(k, "verify") /\ Finish(k, "unverified")
       \/ At(k, "add") /\ Give(k, {})
    /\ UNCHANGED ner

\* Mutant: what Gemma did not have to complete is verified.
ConcludeEmpty(k) ==
    /\ job[k].at \in {"verify", "add"} /\ job[k].window = job[k].doc.windows
    /\ Give(k, job[k].spans)
    /\ UNCHANGED ner

\* What Gemma found is masked too.  A form for which it found nothing is
\* given back only if the engine masked something and left nothing.
Conclude(k) ==
    /\ job[k].at \in {"verify", "add"} /\ job[k].window = job[k].doc.windows
    /\ IF At(k, "add") \/ job[k].spans # {} \/ (Found(k) /\ job[k].residual = {})
       THEN Give(k, job[k].spans)
       ELSE Finish(k, "unverified")
    /\ UNCHANGED ner

\* Any error on the way (the vault cannot be read or saved).
Breaks(k) ==
    /\ At(k, "masked")
    /\ Finish(k, IF Reads(k) THEN "error" ELSE "raw")
    /\ UNCHANGED ner

Step(k) ==
    \/ Check(k) \/ Stamp(k) \/ Spawn(k) \/ Ask(k) \/ Hear(k)
    \/ HookGate(k) \/ ReadGate(k) \/ Window(k) \/ Conclude(k)

Next ==
    \/ \E k \in Client : (\E by \in DOMAIN Tries : Start(k, by)) \/ Step(k) \/ Breaks(k)
    \/ NerNext /\ UNCHANGED job

Spec == Init /\ [][Next]_vars

\* Fairness: processes run; a client waits no longer than its timeout; a
\* daemon that nobody uses exits in the end, and the cooldown ends (both are
\* timers); the network returns; the agent reads again.
Fairness ==
    /\ \A k \in Client : /\ WF_vars(Step(k))
                         /\ WF_vars(TimeOut(k) /\ UNCHANGED job)
                         /\ SF_vars(Start(k, "read"))
    /\ \A p \in Daemon : /\ WF_vars(DaemonStep(p) /\ UNCHANGED job)
                         /\ WF_vars(IdleExit(p) /\ UNCHANGED job)
    /\ WF_vars(CooldownEnds /\ UNCHANGED job)
    /\ WF_vars(NetworkReturns /\ UNCHANGED job)

FairSpec == Spec /\ Fairness
-----------------------------------------------------------------------------
(* Properties.                                                             *)

Given(k) == At(k, "done") /\ job[k].out = "body"

TypeOK ==
    /\ NerTypeOK
    /\ DOMAIN job = Client
    /\ \A k \in Client :
         LET j == job[k]
         IN  /\ j.at \in Ready \cup {"check", "stamp", "spawn", "scan", "wait", "masked", "verify", "add"}
             /\ j.doc \in Docs /\ j.by \in DOMAIN Tries /\ j.tries \in 0..2 /\ {j.known, j.ner} \subseteq BOOLEAN
             /\ {j.clear, j.heard, j.residual, j.spans} \subseteq SUBSET j.doc.has
             /\ j.late \in 0..j.doc.late /\ j.scan \in 0..(Rescans + 1)
             /\ j.mode \in Modes \cup {"none"} /\ j.window \in 0..j.doc.windows
             /\ j.out \in {"none", "body", "raw", "down", "garbled", "unverified", "large", "error"}
             /\ At(k, "wait") <=> reply[k] # "none"

\* A daemon that was started without its model loads it with its first
\* detection, and tests it before the next one.
FirstDetection(p) == daemon[p].held # {} /\ daemon[p].test = "none"

\* BlindNotTrusted: a client never takes for its detector a daemon whose model
\* was loaded and detects nothing, unless that daemon is at its first detection
\* just then (posttool_anonymize.py:_daemon_up: a blind daemon "is treated as
\* DOWN"; do_POST and do_GET of bubble_shield_nerd.py).
BlindNotTrusted ==
    [][\A k \in Client : ~job[k].ner /\ job'[k].ner =>
          daemon[port].model # "blind" \/ FirstDetection(port)]_vars

\* FormVerified: the agent never gets the text of a form of which Gemma has not
\* read every window, or in which nothing at all was masked, or in which the
\* engine left something it saw while Gemma added nothing (#589-B).
FormVerified ==
    \A k \in Client : Given(k) /\ Reads(k) /\ job[k].doc.form =>
        /\ job[k].mode # "none" /\ job[k].window = job[k].doc.windows /\ job[k].window <= MaxWindows
        /\ job[k].clear # job[k].doc.has \/ job[k].late < job[k].doc.late
        /\ job[k].residual # {} => job[k].spans # {}

\* Rearmed: a read that is refused for want of the daemon is followed by one
\* that serves, with a model that sees ("the NEXT call can succeed").
Rearmed ==
    \A k \in Client : At(k, "done") /\ job[k].out = "down" ~>
        \E p \in Daemon : Serving(p) /\ daemon[p].model = "sighted"
=============================================================================
