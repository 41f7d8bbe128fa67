---------------------------- MODULE DaemonProofs ----------------------------
(***************************************************************************)
(* Proofs for any number of daemons, clients, texts, windows, kills and    *)
(* starts: only the daemon that has the port has a model, nobody trusts a  *)
(* blind one, and no form is given back that Gemma has not verified.  And  *)
(* of Gemma's own daemon, for any number of requests and every timeout: it *)
(* does not stop while somebody waits for it.                              *)
(***************************************************************************)
EXTENDS Anonymise, SequenceTheorems, TLAPS

-----------------------------------------------------------------------------
(***************************************************************************)
(* The daemons.                                                            *)
(***************************************************************************)

Process == [at : Places, lazy : BOOLEAN, model : {"none", "sighted", "blind"},
            test : {"none", "pass", "fail"}, todo : SUBSET (Client \cup {Nobody}),
            held : SUBSET (Client \cup {Nobody})]

\* OneModel is inductive with the types of the daemons.
OneInv == daemon \in [Daemon -> Process] /\ OneModel

LEMMA OneInit == NerInit => OneInv
BY DEF NerInit, OneInv, OneModel, Off, Process, Places

\* The model that a daemon ends a load with, and what its test says of it.
LEMMA ModelType ==
    ASSUME daemon \in [Daemon -> Process], NEW p \in Daemon
    PROVE  Model(p) \in {"sighted", "blind"} /\ SelfTest(Model(p)) \in {"pass", "fail"}
BY DEF Process, Model, Loaded, SelfTest

\* Off \in Process, and it has no model.
LEMMA OffType == Off \in Process /\ Off.model = "none" /\ Off.at = "off"
BY DEF Off, Process, Places

\* A daemon is started.
LEMMA LaunchOne ==
    ASSUME OneInv, NEW p \in Daemon, NEW lazy \in BOOLEAN, Launch(p, lazy), port' = port
    PROVE  OneInv'
<1>1. daemon' \in [Daemon -> Process]
  <2> DEFINE r == [daemon[p] EXCEPT !.at = "start", !.lazy = lazy]
  <2>1. daemon[p] \in Process
    BY DEF OneInv
  <2>2. r \in Process
    BY <2>1 DEF Process, Places
  <2>3. daemon' = [daemon EXCEPT ![p] = r]
    BY DEF Launch
  <2> QED
    BY <2>2, <2>3 DEF OneInv
<1>2. daemon'[p].at = "start" /\ daemon'[p].model = "none"
  BY OffType DEF OneInv, Launch, Process
<1>3. \A q \in Daemon : q # p => daemon'[q] = daemon[q]
  BY DEF OneInv, Launch
<1> QED
  BY <1>1, <1>2, <1>3 DEF OneInv, OneModel

\* Daemons end, the one with the port among them or not.
LEMMA EndOne ==
    ASSUME OneInv, NEW P \in SUBSET Daemon,
           daemon' = [q \in Daemon |-> IF q \in P THEN Off ELSE daemon[q]],
           port' = IF port \in P THEN None ELSE port
    PROVE  OneInv'
<1>1. daemon' \in [Daemon -> Process]
  BY OffType DEF OneInv
<1>2. \A q \in Daemon : q \notin P => daemon'[q] = daemon[q]
  OBVIOUS
<1>3. \A q \in P : daemon'[q] = Off
  OBVIOUS
<1> QED
  BY <1>1, <1>2, <1>3, OffType DEF OneInv, OneModel

\* What a request or its end does to the daemons.
LEMMA TodoOne ==
    ASSUME OneInv, port' = port, daemon' \in [Daemon -> Process],
           \A q \in Daemon : daemon'[q].at = daemon[q].at /\ daemon'[q].model = daemon[q].model
    PROVE  OneInv'
BY DEF OneInv, OneModel

LEMMA NerOne == OneInv /\ NerNext => OneInv'
<1> SUFFICES ASSUME OneInv, NerNext PROVE OneInv'
  OBVIOUS
<1>1. ASSUME NEW p \in Daemon, LaunchdStart(p) PROVE OneInv'
  BY <1>1, LaunchOne DEF LaunchdStart
<1>2. ASSUME NEW p \in Daemon, FetchOpenAI(p) PROVE OneInv'
  <2> DEFINE ours == {q \in Daemon : daemon[q].at # "off" /\ daemon[q].lazy}
  <2>1. /\ daemon' = [q \in Daemon |-> IF q \in ours THEN Off ELSE daemon[q]]
        /\ port' = IF port \in ours THEN None ELSE port
    BY <1>2 DEF FetchOpenAI
  <2> QED
    BY <2>1, EndOne
<1>3. ASSUME NEW p \in Daemon, Bind(p) PROVE OneInv'
  <2>1. CASE port = None
    <3>1. daemon' \in [Daemon -> Process]
      BY <1>3, <2>1 DEF Bind, OneInv, Process, Places
    <3>2. \A q \in Daemon : q # p => daemon[q].model = "none" /\ daemon[q].at # "warm"
      BY <2>1, DaemonAssumption DEF OneInv, OneModel
    <3>3. \A q \in Daemon : q # p => daemon'[q] = daemon[q]
      BY <1>3, <2>1 DEF Bind, OneInv
    <3> QED
      BY <1>3, <2>1, <3>1, <3>2, <3>3 DEF Bind, OneInv, OneModel
  <2>2. CASE port # None
    <3>1. daemon' = [q \in Daemon |-> IF q \in {p} THEN Off ELSE daemon[q]]
      BY <1>3, <2>2 DEF Bind, OneInv
    <3>2. port' = port
      BY <1>3, <2>2 DEF Bind
    <3>3. port # p => OneInv'
      BY <3>1, <3>2, EndOne
    <3>4. daemon' \in [Daemon -> Process]
      BY <3>1, OffType DEF OneInv
    <3>5. \A q \in Daemon : daemon'[q] = IF q = p THEN Off ELSE daemon[q]
      BY <3>1
    <3> QED
      BY <3>2, <3>4, <3>5, OffType DEF OneInv, OneModel
  <2> QED
    BY <2>1, <2>2
<1>4. ASSUME NEW p \in Daemon, NEW k \in Client \cup {Nobody},
             WarmUp(p) \/ Detect(p, k) \/ Answer(p, k)
      PROVE  OneInv'
  <2>0. daemon \in [Daemon -> Process] /\ daemon[p] \in Process
    BY DEF OneInv
  <2>1. daemon'[p] \in Process /\ daemon' = [daemon EXCEPT ![p] = daemon'[p]]
    <3>1. CASE WarmUp(p)
      BY <2>0, <3>1, ModelType DEF WarmUp, Process, Places
    <3>2. CASE Detect(p, k)
      BY <2>0, <3>2, ModelType DEF Detect, Process
    <3>3. CASE Answer(p, k)
      BY <2>0, <3>3 DEF Answer, SelfTest, Process
    <3> QED
      BY <1>4, <3>1, <3>2, <3>3
  <2>2. port' = port /\ port = p
    BY <1>4 DEF WarmUp, Detect, Answer, Serving, OneInv, OneModel
  <2> QED
    BY <2>0, <2>1, <2>2 DEF OneInv, OneModel
<1>5. ASSUME NEW p \in Daemon, IdleExit(p) \/ Kill(p) PROVE OneInv'
  <2>1. daemon' = [q \in Daemon |-> IF q \in {p} THEN Off ELSE daemon[q]]
    BY <1>5 DEF IdleExit, Kill, OneInv
  <2>2. port' = IF port \in {p} THEN None ELSE port
    BY <1>5 DEF IdleExit, Kill, Serving
  <2> QED
    BY <2>1, <2>2, EndOne
<1>6. ASSUME NEW k \in Client, TimeOut(k) PROVE OneInv'
  <2>1. daemon' \in [Daemon -> Process]
    <3> SUFFICES ASSUME NEW q \in Daemon, daemon[q] \in Process
                 PROVE  [daemon[q] EXCEPT !.todo = (@ \ {k}) \cup {Nobody},
                                          !.held = IF k \in @ THEN {Nobody} ELSE @] \in Process
      BY <1>6 DEF TimeOut, OneInv
    <3> QED
      BY DEF Process
  <2>2. \A q \in Daemon : daemon'[q].at = daemon[q].at /\ daemon'[q].model = daemon[q].model
    BY <1>6 DEF TimeOut, OneInv, Process
  <2> QED
    BY <1>6, <2>1, <2>2, TodoOne DEF TimeOut
<1>7. CASE SpawnDaemon
  BY <1>7, LaunchOne DEF SpawnDaemon, OneInv, OneModel
<1>8. CASE SweepWarms \/ CooldownEnds \/ NetworkReturns
  <2>1. daemon' \in [Daemon -> Process]
    BY <1>8 DEF SweepWarms, CooldownEnds, NetworkReturns, OneInv, Process
  <2>2. \A q \in Daemon : daemon'[q].at = daemon[q].at /\ daemon'[q].model = daemon[q].model
    BY <1>8 DEF SweepWarms, CooldownEnds, NetworkReturns, OneInv, Process
  <2> QED
    BY <1>8, <2>1, <2>2, TodoOne DEF SweepWarms, CooldownEnds, NetworkReturns
<1> QED
  BY <1>1, <1>2, <1>3, <1>4, <1>5, <1>6, <1>7, <1>8 DEF NerNext, DaemonStep

\* A client changes the daemons by a request and by starting one only.
LEMMA ClientOne == ASSUME OneInv, NEW k \in Client, Step(k) PROVE OneInv'
<1>1. CASE Ask(k)
  <2>1. daemon' \in [Daemon -> Process]
    BY <1>1 DEF Ask, Post, OneInv, Process
  <2>2. \A q \in Daemon : daemon'[q].at = daemon[q].at /\ daemon'[q].model = daemon[q].model
    BY <1>1 DEF Ask, Post, OneInv, Process
  <2> QED
    BY <1>1, <2>1, <2>2, TodoOne DEF Ask, Post
<1>2. CASE Spawn(k)
  BY <1>2, LaunchOne DEF Spawn, SpawnDaemon, OneInv, OneModel
<1>3. CASE ~Ask(k) /\ ~Spawn(k)
  <2>1. UNCHANGED <<port, daemon>>
    BY <1>3 DEF Step, Check, Stamp, Hear, HookGate, ReadGate, Window, Conclude, ner
  <2> QED
    BY <2>1 DEF OneInv, OneModel
<1> QED
  BY <1>1, <1>2, <1>3

\* However many daemons are started at once, only the one that clients reach
\* ever has a model in memory (main of bubble_shield_nerd.py).
THEOREM OneModelLoaded == Spec => []OneModel
<1>1. Init => OneInv
  BY OneInit DEF Init
<1>2. OneInv /\ [Next]_vars => OneInv'
  <2> SUFFICES ASSUME OneInv, [Next]_vars PROVE OneInv'
    OBVIOUS
  <2>1. ASSUME NEW k \in Client, NEW by \in DOMAIN Tries, Start(k, by) PROVE OneInv'
    BY <2>1 DEF Start, ner, OneInv, OneModel
  <2>2. ASSUME NEW k \in Client, Breaks(k) PROVE OneInv'
    BY <2>2 DEF Breaks, ner, OneInv, OneModel
  <2>3. CASE UNCHANGED vars
    BY <2>3 DEF vars, ner, OneInv, OneModel
  <2> QED
    BY <2>1, <2>2, <2>3, NerOne, ClientOne DEF Next
<1>3. OneInv => OneModel
  BY DEF OneInv
<1> QED
  BY <1>1, <1>2, <1>3, PTL DEF Spec
-----------------------------------------------------------------------------
(***************************************************************************)
(* The blind daemon.                                                       *)
(***************************************************************************)

\* The self-test tells a blind model, but for one that was loaded by the first
\* detection and is in use by it.  What is tested or in use was loaded.
Tested(d) ==
    /\ d.model = "blind" => d.test = "fail" \/ (d.held # {} /\ d.test = "none")
    /\ d.model = "none" => d.test = "none" /\ d.held = {}
TestInv == /\ OneInv /\ port \in Daemon \cup {None}
           /\ \A p \in Daemon : Tested(daemon[p])

\* Only one daemon changes, and it is tested.
LEMMA TestedOne ==
    ASSUME TestInv, OneInv', port' \in Daemon \cup {None}, NEW p \in Daemon,
           \A q \in Daemon : q # p => daemon'[q] = daemon[q], Tested(daemon'[p])
    PROVE  TestInv'
BY DEF TestInv, Tested

\* A daemon's model does not change, nor what was said of it, nor that it is in
\* use.
Judged(q) == /\ daemon'[q].model = daemon[q].model /\ daemon'[q].test = daemon[q].test
             /\ daemon'[q].held = {} <=> daemon[q].held = {}

\* So it is with every daemon, but some may end.
LEMMA TestedSame ==
    ASSUME TestInv, OneInv', port' \in Daemon \cup {None},
           \A q \in Daemon : \/ daemon'[q] = Off
                             \/ Judged(q)
    PROVE  TestInv'
BY OffType DEF TestInv, Tested, Judged, Off

\* Nor when one is started.
LEMMA SpawnSame ==
    ASSUME daemon \in [Daemon -> Process], SpawnDaemon, NEW q \in Daemon
    PROVE  Judged(q)
<1>1. CASE UNCHANGED daemon
  BY <1>1 DEF Judged
<1>2. ASSUME NEW p \in Daemon, Launch(p, FALSE) PROVE Judged(q)
  <2>1. daemon[q] \in Process
    OBVIOUS
  <2>2. q # p => daemon'[q] = daemon[q]
    BY <1>2 DEF Launch
  <2>3. q = p => daemon'[q] = [daemon[q] EXCEPT !.at = "start", !.lazy = FALSE]
    BY <1>2 DEF Launch
  <2> QED
    BY <2>1, <2>2, <2>3 DEF Process, Judged
<1> QED
  BY <1>1, <1>2 DEF SpawnDaemon

LEMMA NerTested == TestInv /\ NerNext => TestInv'
<1> SUFFICES ASSUME TestInv, NerNext PROVE TestInv'
  OBVIOUS
<1>0. OneInv' /\ daemon \in [Daemon -> Process]
  BY NerOne DEF TestInv, OneInv
<1>1. ASSUME NEW p \in Daemon, WarmUp(p) PROVE TestInv'
  <2>1. \A q \in Daemon : q # p => daemon'[q] = daemon[q]
    BY <1>0, <1>1 DEF WarmUp
  <2>2. Tested(daemon'[p])
    BY <1>0, <1>1, ModelType DEF WarmUp, Tested, SelfTest, Process
  <2>3. port' \in Daemon \cup {None}
    BY <1>1 DEF WarmUp, TestInv
  <2> QED
    BY <1>0, <2>1, <2>2, <2>3, TestedOne
<1>2. ASSUME NEW p \in Daemon, NEW k \in Client \cup {Nobody}, Detect(p, k) \/ Answer(p, k)
      PROVE  TestInv'
  <2>0. daemon[p] \in Process /\ Tested(daemon[p])
    BY <1>0 DEF TestInv
  <2>1. \A q \in Daemon : q # p => daemon'[q] = daemon[q]
    BY <1>0, <1>2 DEF Detect, Answer
  <2>2. CASE Detect(p, k)
    <3>1. daemon'[p] = [daemon[p] EXCEPT !.held = {k}, !.model = Model(p)]
      BY <1>0, <2>2 DEF Detect
    <3> QED
      BY <1>0, <1>2, <2>0, <2>1, <2>2, <3>1, ModelType, TestedOne
         DEF Detect, Tested, Process, Model, TestInv
  <2>3. CASE Answer(p, k)
    <3>1. /\ daemon'[p].held = {} /\ daemon'[p].model = daemon[p].model
          /\ daemon'[p].test = IF daemon[p].test = "none" THEN SelfTest(daemon[p].model)
                              ELSE daemon[p].test
      BY <1>0, <2>0, <2>3 DEF Answer, Process
    <3>2. daemon[p].model # "none"
      BY <2>0, <2>3 DEF Answer, Tested
    <3>3. Tested(daemon'[p])
      BY <2>0, <3>1, <3>2 DEF Tested, SelfTest
    <3> QED
      BY <1>0, <2>1, <2>3, <3>3, TestedOne DEF Answer, TestInv
  <2> QED
    BY <1>2, <2>2, <2>3
<1>3. ASSUME NEW p \in Daemon, LaunchdStart(p) \/ Bind(p) \/ FetchOpenAI(p) \/ IdleExit(p) \/ Kill(p)
      PROVE  TestInv'
  <2>1. port' \in Daemon \cup {None}
    BY <1>3 DEF LaunchdStart, Bind, FetchOpenAI, IdleExit, Kill, TestInv
  <2>2. ASSUME NEW q \in Daemon
        PROVE  daemon'[q] = Off \/ Judged(q)
    <3>0. daemon[q] \in Process
      BY <1>0
    <3>1. CASE LaunchdStart(p)
      BY <1>0, <3>0, <3>1 DEF LaunchdStart, Launch, Process, Judged
    <3>2. CASE Bind(p)
      BY <1>0, <3>0, <3>2 DEF Bind, Process, Judged
    <3>3. CASE FetchOpenAI(p)
      BY <3>3 DEF FetchOpenAI, Judged
    <3>4. CASE IdleExit(p) \/ Kill(p)
      BY <1>0, <3>4 DEF IdleExit, Kill, Judged
    <3> QED
      BY <1>3, <3>1, <3>2, <3>3, <3>4
  <2> QED
    BY <1>0, <2>1, <2>2, TestedSame
<1>4. CASE \/ SpawnDaemon \/ SweepWarms \/ CooldownEnds \/ NetworkReturns
           \/ \E k \in Client : TimeOut(k)
  <2>1. port' \in Daemon \cup {None}
    BY <1>4 DEF SpawnDaemon, SweepWarms, CooldownEnds, NetworkReturns, TimeOut, TestInv
  <2>2. ASSUME NEW q \in Daemon PROVE Judged(q)
    <3>0. daemon[q] \in Process
      BY <1>0
    <3>1. CASE SpawnDaemon
      BY <1>0, <3>1, SpawnSame
    <3>2. CASE SweepWarms \/ CooldownEnds \/ NetworkReturns
      BY <1>0, <3>0, <3>2 DEF SweepWarms, CooldownEnds, NetworkReturns, Process, Judged
    <3>3. ASSUME NEW k \in Client, TimeOut(k) PROVE Judged(q)
      BY <1>0, <3>0, <3>3 DEF TimeOut, Process, Judged
    <3> QED
      BY <1>4, <3>1, <3>2, <3>3
  <2> QED
    BY <1>0, <2>1, <2>2, TestedSame
<1> QED
  BY <1>1, <1>2, <1>3, <1>4 DEF NerNext, DaemonStep

LEMMA ClientTested == ASSUME TestInv, NEW k \in Client, Step(k) PROVE TestInv'
<1>0. OneInv' /\ daemon \in [Daemon -> Process]
  BY ClientOne DEF TestInv, OneInv
<1>1. port' = port
  BY DEF Step, Check, Stamp, Spawn, SpawnDaemon, Ask, Post, Hear, HookGate, ReadGate,
         Window, Conclude, ner
<1>2. ASSUME NEW q \in Daemon PROVE Judged(q)
  <2>0. daemon[q] \in Process
    BY <1>0
  <2>1. CASE Ask(k)
    BY <1>0, <2>0, <2>1 DEF Ask, Post, Process, Judged
  <2>2. CASE Spawn(k)
    BY <1>0, <2>2, SpawnSame DEF Spawn
  <2>3. CASE ~Ask(k) /\ ~Spawn(k)
    BY <2>3 DEF Step, Check, Stamp, Hear, HookGate, ReadGate, Window, Conclude, ner, Judged
  <2> QED
    BY <2>1, <2>2, <2>3
<1> QED
  BY <1>0, <1>1, <1>2, TestedSame DEF TestInv
-----------------------------------------------------------------------------
(***************************************************************************)
(* The forms.                                                              *)
(***************************************************************************)

Ats == {"idle", "check", "stamp", "spawn", "scan", "wait", "masked", "verify", "add", "done"}
Outs == {"none", "body", "raw", "down", "garbled", "unverified", "large", "error"}
Jobs == [at : Ats, doc : Docs, by : {"read", "hook"}, tries : Nat, known : BOOLEAN,
         ner : BOOLEAN, clear : SUBSET Value, late : Nat, scan : Nat,
         heard : SUBSET Value, residual : SUBSET Value, mode : Modes \cup {"none"},
         window : Nat, spans : SUBSET Value, out : Outs]

\* What is in clear of a text was in it; when the engine has masked something,
\* less is in clear than there was.
Masking(j) ==
    /\ j.clear \subseteq j.doc.has /\ j.late <= j.doc.late
    /\ j.heard # {} => j.clear # j.doc.has \/ j.late < j.doc.late

\* Gemma reads the windows of a form that is not too large, and adds to prose.
Reading(j) ==
    /\ j.at = "verify" => j.mode # "none" /\ j.doc.windows <= MaxWindows
    /\ j.at = "add" => ~j.doc.form
    /\ j.at \in {"verify", "add"} => j.spans \subseteq j.clear
    /\ j.at \notin {"verify", "add", "done"} => j.spans = {}

\* FormVerified, of one job.
Verified(j) ==
    j.at = "done" /\ j.out = "body" /\ j.by = "read" /\ j.doc.form =>
        /\ j.mode # "none" /\ j.window = j.doc.windows /\ j.window <= MaxWindows
        /\ j.clear # j.doc.has \/ j.late < j.doc.late
        /\ j.residual # {} => j.spans # {}

JobOK(j) == j \in Jobs /\ Masking(j) /\ Reading(j) /\ Verified(j)
FormInv == job \in [Client -> Jobs] /\ \A k \in Client : JobOK(job[k])

LEMMA TextType ==
    ASSUME NEW d \in Docs
    PROVE  /\ d.has \in SUBSET Value /\ d.late \in Nat /\ d.windows \in Nat
BY AnonymiseAssumption

\* A client that becomes a job which is in order.
LEMMA BecomeOK ==
    ASSUME FormInv, NEW k \in Client, NEW j, JobOK(j), Become(k, j)
    PROVE  FormInv'
<1>1. job' \in [Client -> Jobs]
  BY DEF FormInv, JobOK, Become
<1>2. ASSUME NEW c \in Client PROVE JobOK(job'[c])
  BY DEF FormInv, Become
<1> QED
  BY <1>1, <1>2 DEF FormInv, JobOK, Masking, Reading, Verified

\* A text that nothing has been done to.
LEMMA NewOK ==
    ASSUME NEW d \in Docs, NEW by \in {"read", "hook"}, NEW at \in {"idle", "check", "scan"},
           NEW known \in BOOLEAN
    PROVE  JobOK(Job(d, by, at, known))
BY TextType DEF Job, JobOK, Jobs, Ats, Outs, Masking, Reading, Verified, Tries, Modes

\* A job that gives nothing back: the agent is refused or keeps its text.
LEMMA FinishOK ==
    ASSUME FormInv, NEW k \in Client, NEW out \in Outs \ {"body"}, Finish(k, out)
    PROVE  FormInv'
<1> DEFINE d == CHOOSE d \in Docs : TRUE
           j == [Idle EXCEPT !.at = "done", !.by = job[k].by, !.out = out]
<1>1. d \in Docs
  BY AnonymiseAssumption
<1>2. JobOK(Idle)
  BY <1>1, NewOK DEF Idle
<1>3. job[k].by \in {"read", "hook"}
  BY DEF FormInv, Jobs
<1>4. JobOK(j)
  BY <1>2, <1>3 DEF JobOK, Jobs, Ats, Masking, Reading, Verified
<1> QED
  BY <1>4, BecomeOK DEF Finish

\* A job that goes on, or gets on with the daemon, and is otherwise the same.
LEMMA OnwardOK ==
    ASSUME FormInv, NEW k \in Client, NEW at \in {"stamp", "spawn", "scan", "wait"},
           NEW tries \in Nat, NEW heard \in BOOLEAN,
           job[k].at \in {"check", "stamp", "spawn", "scan"}
    PROVE  JobOK([job[k] EXCEPT !.at = at, !.tries = tries, !.ner = heard])
<1> DEFINE j == [job[k] EXCEPT !.at = at, !.tries = tries, !.ner = heard]
<1>1. JobOK(job[k]) /\ job[k] \in Jobs
  BY DEF FormInv
<1>2. j \in Jobs /\ j.at = at
  BY <1>1 DEF Jobs, Ats
<1>3. /\ j.doc = job[k].doc /\ j.clear = job[k].clear /\ j.late = job[k].late
      /\ j.heard = job[k].heard /\ j.spans = job[k].spans
  BY <1>1 DEF Jobs
<1>4. Masking(j)
  BY <1>1, <1>3 DEF JobOK, Masking
<1>5. Reading(j) /\ Verified(j)
  BY <1>1, <1>2, <1>3 DEF JobOK, Reading, Verified
<1> QED
  BY <1>2, <1>4, <1>5 DEF JobOK

LEMMA StartOK ==
    ASSUME FormInv, NEW k \in Client, NEW by \in DOMAIN Tries, Start(k, by)
    PROVE  FormInv'
<1>1. by \in {"read", "hook"}
  BY DEF Tries
<1>2. PICK d \in Docs, known \in BOOLEAN :
         \/ Become(k, Job(d, by, "check", known))
         \/ Become(k, [Job(d, by, "scan", FALSE) EXCEPT !.tries = 0])
  <2>1. PICK d \in Docs : \E known \in {FALSE, "name" \in d.has} :
           \/ Become(k, Job(d, by, "check", known))
           \/ Become(k, [Job(d, by, "scan", FALSE) EXCEPT !.tries = 0])
    BY DEF Start
  <2>2. {FALSE, "name" \in d.has} \subseteq BOOLEAN
    OBVIOUS
  <2> QED
    BY <2>1, <2>2
<1>3. JobOK(Job(d, by, "check", known)) /\ JobOK(Job(d, by, "scan", FALSE))
  BY <1>1, NewOK
<1>4. JobOK([Job(d, by, "scan", FALSE) EXCEPT !.tries = 0])
  BY <1>3 DEF JobOK, Jobs, Masking, Reading, Verified
<1> QED
  BY <1>2, <1>3, <1>4, BecomeOK

LEMMA WithoutOK ==
    ASSUME FormInv, NEW k \in Client, WithoutNer(k), job[k].at \in {"stamp", "spawn"}
    PROVE  FormInv'
<1>1. job[k] \in Jobs
  BY DEF FormInv
<1>2. CASE job[k].tries > 1
  <2> DEFINE j == [job[k] EXCEPT !.at = "stamp", !.tries = @ - 1]
  <2>1. job[k].tries - 1 \in Nat
    BY <1>1, <1>2 DEF Jobs
  <2>2. j = [job[k] EXCEPT !.at = "stamp", !.tries = job[k].tries - 1, !.ner = job[k].ner]
    BY <1>1 DEF Jobs
  <2>3. job[k].ner \in BOOLEAN
    BY <1>1 DEF Jobs
  <2>4. JobOK([job[k] EXCEPT !.at = "stamp", !.tries = job[k].tries - 1, !.ner = job[k].ner])
    BY <2>1, <2>3, OnwardOK
  <2> QED
    BY <1>2, <2>2, <2>4, BecomeOK DEF WithoutNer
<1>3. CASE ~(job[k].tries > 1)
  <2> DEFINE j == [job[k] EXCEPT !.at = "scan", !.tries = 0]
  <2>1. Finish(k, "down") \/ Finish(k, "raw") \/ Become(k, j)
    BY <1>3 DEF WithoutNer
  <2>2. JobOK(j)
    <3>1. j = [job[k] EXCEPT !.at = "scan", !.tries = 0, !.ner = job[k].ner]
      BY <1>1 DEF Jobs
    <3>2. job[k].ner \in BOOLEAN
      BY <1>1 DEF Jobs
    <3>3. JobOK([job[k] EXCEPT !.at = "scan", !.tries = 0, !.ner = job[k].ner])
      BY <3>2, OnwardOK
    <3> QED
      BY <3>1, <3>3
  <2> QED
    BY <2>1, <2>2, BecomeOK, FinishOK DEF Outs
<1> QED
  BY <1>2, <1>3

\* What a scan masks leaves less in clear, if it masks anything.
LEMMA MaskedOK ==
    ASSUME NEW j, JobOK(j), NEW found \in SUBSET j.clear, "late" \in found => j.late > 0,
           j.at \in {"scan", "wait"}
    PROVE  JobOK(Masked(j, found))
<1> DEFINE late == IF "late" \in found THEN j.late - 1 ELSE j.late
           clear == (j.clear \ found) \cup (IF late > 0 THEN j.clear \cap {"late"} ELSE {})
           m == [j EXCEPT !.clear = clear, !.late = late, !.heard = j.heard \cup found,
                          !.scan = j.scan + 1, !.at = "scan"]
<1>1. j \in Jobs /\ Masking(j) /\ j.spans = {}
  BY DEF JobOK, Reading
<1>2. late \in Nat /\ late <= j.late
  BY <1>1 DEF Jobs
<1>3. clear \subseteq j.clear /\ found \subseteq Value
  BY <1>1 DEF Jobs
<1>4. found # {} => clear # j.clear \/ late < j.late
  <2>1. "late" \in found => late < j.late
    BY <1>1 DEF Jobs
  <2>2. ASSUME NEW v \in found, v # "late" PROVE v \in j.clear /\ v \notin clear
    BY <2>2
  <2> QED
    BY <2>1, <2>2
<1>5. m \in Jobs
  <2>1. /\ clear \in SUBSET Value /\ j.heard \cup found \in SUBSET Value
        /\ j.scan + 1 \in Nat /\ late \in Nat /\ "scan" \in Ats
    BY <1>1, <1>2, <1>3 DEF Jobs, Ats
  <2> HIDE DEF clear, late
  <2> QED
    BY <1>1, <2>1 DEF Jobs
<1>6. Masking(m)
  <2>1. m.clear = clear /\ m.late = late /\ m.heard = j.heard \cup found /\ m.doc = j.doc
    BY <1>1 DEF Jobs
  <2>2. j.late \in Nat /\ j.doc.late \in Nat
    BY <1>1, TextType DEF Jobs
  <2>3. late <= j.doc.late
    BY <1>1, <1>2, <2>2 DEF Masking
  <2>4. ASSUME j.heard # {} \/ found # {} PROVE clear # j.doc.has \/ late < j.doc.late
    <3>1. CASE j.late < j.doc.late
      BY <1>2, <2>2, <3>1
    <3>2. CASE j.late = j.doc.late
      BY <1>1, <1>3, <1>4, <2>4, <3>2 DEF Masking
    <3> QED
      BY <1>1, <2>2, <3>1, <3>2 DEF Masking
  <2> QED
    BY <1>1, <1>3, <2>1, <2>3, <2>4 DEF Masking
<1>7. m.at = "scan" /\ m.spans = {}
  BY <1>1 DEF Jobs
<1>8. Reading(m) /\ Verified(m)
  BY <1>7 DEF Reading, Verified
<1>9. Masked(j, found) = m
  BY DEF Masked
<1> QED
  BY <1>5, <1>6, <1>8, <1>9 DEF JobOK

LEMMA HearOK == ASSUME FormInv, NEW k \in Client, Hear(k) PROVE FormInv'
<1> DEFINE j == job[k]
           found == Detected(k)
<1>1. JobOK(j) /\ j \in Jobs
  BY DEF FormInv
<1>2. found \subseteq j.clear /\ ("late" \in found => j.late > 0)
  BY DEF Detected
<1>3. j.at \in {"scan", "wait"}
  BY DEF Hear, Answered, At
<1>4. JobOK(Masked(j, found))
  BY <1>1, <1>2, <1>3, MaskedOK
<1>5. JobOK([j EXCEPT !.residual = found, !.at = "masked"])
  BY <1>1, <1>2, <1>3 DEF JobOK, Jobs, Ats, Masking, Reading, Verified
<1> QED
  BY <1>4, <1>5, BecomeOK DEF Hear

\* A text that is no form, or one that is given to the model of a hook.
LEMMA GiveOK ==
    ASSUME FormInv, NEW k \in Client, NEW applied \in SUBSET job[k].clear, Give(k, applied),
           Verified([job[k] EXCEPT !.at = "done", !.out = "body", !.clear = @ \ applied])
    PROVE  FormInv'
<1> DEFINE j == [job[k] EXCEPT !.at = "done", !.out = "body", !.clear = @ \ applied,
                               !.known = FALSE, !.ner = FALSE]
<1>1. JobOK(job[k]) /\ job[k] \in Jobs
  BY DEF FormInv
<1>2. j \in Jobs
  BY <1>1 DEF Jobs, Ats, Outs
<1>3. Masking(j)
  BY <1>1 DEF JobOK, Jobs, Masking
<1>4. Reading(j)
  BY <1>1 DEF Jobs, Reading
<1>5. Verified(j)
  BY <1>1 DEF Jobs, Verified
<1> QED
  BY <1>2, <1>3, <1>4, <1>5, BecomeOK DEF Give, JobOK

LEMMA EscalateOK ==
    ASSUME FormInv, NEW k \in Client, NEW mode \in Modes, Escalate(k, mode),
           job[k].at = "masked"
    PROVE  FormInv'
<1> DEFINE d == job[k].doc
           j == [job[k] EXCEPT !.at = IF d.form THEN "verify" ELSE "add", !.mode = mode]
<1>1. JobOK(job[k]) /\ job[k] \in Jobs
  BY DEF FormInv
<1>2. CASE d.form /\ d.windows > MaxWindows
  BY <1>2, FinishOK DEF Escalate, Outs
<1>3. CASE ~(d.form /\ d.windows > MaxWindows)
  <2>1. d \in Docs /\ d.windows \in Nat /\ MaxWindows \in Nat
    BY <1>1, TextType, AnonymiseAssumption DEF Jobs
  <2>2. j \in Jobs /\ j.spans = {} /\ j.doc = d /\ j.mode = mode
    BY <1>1 DEF Jobs, Ats, JobOK, Reading
  <2>3. Masking(j)
    BY <1>1 DEF JobOK, Jobs, Masking
  <2>4. j.at = IF d.form THEN "verify" ELSE "add"
    BY <1>1 DEF Jobs
  <2>5. Reading(j) /\ Verified(j)
    BY <1>3, <2>1, <2>2, <2>4 DEF Reading, Verified, Modes
  <2> QED
    BY <1>3, <2>2, <2>3, <2>5, BecomeOK DEF Escalate, JobOK
<1> QED
  BY <1>2, <1>3

LEMMA GateOK ==
    ASSUME FormInv, NEW k \in Client, HookGate(k) \/ ReadGate(k)
    PROVE  FormInv'
<1>1. JobOK(job[k]) /\ job[k] \in Jobs
  BY DEF FormInv
<1>2. CASE HookGate(k)
  <2>1. Verified([job[k] EXCEPT !.at = "done", !.out = "body", !.clear = @ \ {}])
    BY <1>1, <1>2 DEF HookGate, Reads, Verified, Jobs
  <2> QED
    BY <1>2, <2>1, FinishOK, GiveOK DEF HookGate, Outs
<1>3. CASE ReadGate(k)
  <2>1. CASE ~job[k].doc.form /\ Give(k, {})
    <3>1. Verified([job[k] EXCEPT !.at = "done", !.out = "body", !.clear = @ \ {}])
      BY <1>1, <2>1 DEF Verified, Jobs
    <3> QED
      BY <2>1, <3>1, GiveOK
  <2>2. ASSUME NEW mode \in Modes, Escalate(k, mode) PROVE FormInv'
    BY <1>3, <2>2, EscalateOK DEF ReadGate, At
  <2>3. CASE Finish(k, "garbled") \/ Finish(k, "unverified")
    BY <2>3, FinishOK DEF Outs
  <2> QED
    BY <1>3, <2>1, <2>2, <2>3 DEF ReadGate
<1> QED
  BY <1>2, <1>3

LEMMA WindowOK == ASSUME FormInv, NEW k \in Client, Window(k) PROVE FormInv'
<1>1. JobOK(job[k]) /\ job[k] \in Jobs
  BY DEF FormInv
<1>2. ASSUME NEW found \in SUBSET job[k].clear,
             Become(k, [job[k] EXCEPT !.window = @ + 1, !.spans = @ \cup found])
      PROVE  FormInv'
  <2> DEFINE j == [job[k] EXCEPT !.window = @ + 1, !.spans = @ \cup found]
  <2>1. j \in Jobs
    <3>1. job[k].window + 1 \in Nat /\ job[k].spans \cup found \in SUBSET Value
      BY <1>1 DEF Jobs
    <3> QED
      BY <1>1, <3>1 DEF Jobs
  <2>2. Masking(j)
    BY <1>1 DEF JobOK, Jobs, Masking
  <2>3. Reading(j) /\ Verified(j)
    BY <1>1 DEF JobOK, Jobs, Reading, Verified, Window
  <2> QED
    BY <1>2, <2>1, <2>2, <2>3, BecomeOK DEF JobOK
<1>3. CASE Finish(k, "unverified")
  BY <1>3, FinishOK DEF Outs
<1>4. CASE At(k, "add") /\ Give(k, {})
  <2>1. Verified([job[k] EXCEPT !.at = "done", !.out = "body", !.clear = @ \ {}])
    BY <1>1, <1>4 DEF At, JobOK, Reading, Verified, Jobs
  <2> QED
    BY <1>4, <2>1, GiveOK
<1> QED
  BY <1>2, <1>3, <1>4 DEF Window

\* Of a form with something more to mask less stays in clear; else the engine
\* has masked something, and left nothing.
LEMMA ConcludeOK == ASSUME FormInv, NEW k \in Client, Conclude(k) PROVE FormInv'
<1> DEFINE j == job[k]
           done == [job[k] EXCEPT !.at = "done", !.out = "body", !.clear = @ \ job[k].spans]
<1>1. JobOK(j) /\ j \in Jobs
  BY DEF FormInv
<1>2. CASE Finish(k, "unverified")
  BY <1>2, FinishOK DEF Outs
<1>3. CASE /\ Give(k, j.spans)
           /\ At(k, "add") \/ j.spans # {} \/ (Found(k) /\ j.residual = {})
  <2>0. done.clear = j.clear \ j.spans /\ done.doc = j.doc /\ done.late = j.late
        /\ done.mode = j.mode /\ done.window = j.window /\ done.residual = j.residual
        /\ done.spans = j.spans
    BY <1>1 DEF Jobs
  <2>1. CASE j.at = "add"
    <3>1. ~j.doc.form
      BY <1>1, <2>1 DEF JobOK, Reading
    <3>2. Verified(done) /\ j.spans \subseteq j.clear
      BY <1>1, <2>0, <2>1, <3>1 DEF JobOK, Reading, Verified
    <3> QED
      BY <1>3, <3>2, GiveOK
  <2>2. CASE j.at = "verify"
    <3>1. /\ j.mode # "none" /\ j.doc.windows <= MaxWindows /\ j.spans \subseteq j.clear
          /\ j.window = j.doc.windows
      BY <1>1, <2>2 DEF JobOK, Reading, Conclude
    <3>2. done.clear # j.doc.has \/ j.late < j.doc.late
      <4>1. CASE j.spans # {}
        BY <1>1, <2>0, <3>1, <4>1 DEF JobOK, Masking
      <4>2. CASE j.spans = {}
        <5>1. Found(k) /\ done.clear = j.clear
          BY <1>3, <2>0, <2>2, <4>2 DEF At
        <5> QED
          BY <1>1, <5>1 DEF JobOK, Masking, Found
      <4> QED
        BY <4>1, <4>2
    <3>3. j.residual # {} => j.spans # {}
      BY <1>3, <2>2 DEF At
    <3>4. Verified(done)
      BY <2>0, <3>1, <3>2, <3>3 DEF Verified
    <3> QED
      BY <1>3, <3>1, <3>4, GiveOK
  <2> QED
    BY <2>1, <2>2 DEF Conclude
<1> QED
  BY <1>2, <1>3 DEF Conclude

LEMMA FormInit == Init => FormInv
<1> SUFFICES ASSUME Init PROVE FormInv
  OBVIOUS
<1>1. (CHOOSE d \in Docs : TRUE) \in Docs
  BY AnonymiseAssumption
<1>2. JobOK(Idle)
  BY <1>1, NewOK DEF Idle
<1> QED
  BY <1>2 DEF Init, FormInv, JobOK

LEMMA FormNext == FormInv /\ [Next]_vars => FormInv'
<1> SUFFICES ASSUME FormInv, [Next]_vars PROVE FormInv'
  OBVIOUS
<1>1. ASSUME NEW k \in Client, Check(k) \/ Ask(k) PROVE FormInv'
  <2>1. job[k] \in Jobs
    BY DEF FormInv
  <2>2. CASE Check(k)
    <3>1. JobOK([job[k] EXCEPT !.at = "scan", !.tries = 0, !.ner = TRUE])
      BY <2>2, OnwardOK DEF Check, At
    <3>2. JobOK([job[k] EXCEPT !.at = "stamp"])
      BY <2>1, <2>2 DEF Check, At, FormInv, JobOK, Jobs, Ats, Masking, Reading, Verified
    <3> QED
      BY <2>2, <3>1, <3>2, BecomeOK DEF Check, Goto
  <2>3. CASE Ask(k)
    <3>1. JobOK([job[k] EXCEPT !.at = "wait"])
      BY <2>1, <2>3 DEF Ask, At, FormInv, JobOK, Jobs, Ats, Masking, Reading, Verified
    <3> QED
      BY <2>3, <3>1, BecomeOK DEF Ask, Goto
  <2> QED
    BY <1>1, <2>2, <2>3
<1>2. ASSUME NEW k \in Client, Stamp(k) \/ Spawn(k) PROVE FormInv'
  <2>1. job[k].at \in {"stamp", "spawn"}
    BY <1>2 DEF Stamp, Spawn, At
  <2>2. CASE Goto(k, "spawn")
    <3>1. JobOK([job[k] EXCEPT !.at = "spawn"])
      BY <2>1 DEF FormInv, JobOK, Jobs, Ats, Masking, Reading, Verified
    <3> QED
      BY <2>2, <3>1, BecomeOK DEF Goto
  <2> QED
    BY <1>2, <2>1, <2>2, WithoutOK DEF Stamp, Spawn
<1>3. ASSUME NEW k \in Client, Breaks(k) PROVE FormInv'
  BY <1>3, FinishOK DEF Breaks, Outs
<1>4. ASSUME UNCHANGED job PROVE FormInv'
  BY <1>4 DEF FormInv, JobOK, Masking, Reading, Verified
<1>5. ASSUME NEW k \in Client, Step(k) PROVE FormInv'
  BY <1>1, <1>2, <1>5, HearOK, GateOK, WindowOK, ConcludeOK DEF Step
<1>6. ASSUME NEW k \in Client, NEW by \in DOMAIN Tries, Start(k, by) PROVE FormInv'
  BY <1>6, StartOK
<1> QED
  BY <1>3, <1>4, <1>5, <1>6 DEF Next, vars

\* The agent gets no form that Gemma has not read to its end, in which nothing
\* was masked, or in which the engine left something that Gemma did not see
\* (the gates of _anonymize_text in bubble_shield_mcp.py).
THEOREM FormsVerified == Spec => []FormVerified
<1>1. FormInv => FormVerified
  BY DEF FormInv, JobOK, Verified, FormVerified, Given, At, Reads
<1> QED
  BY <1>1, FormInit, FormNext, PTL DEF Spec
-----------------------------------------------------------------------------
(***************************************************************************)
(* The blind daemon, as the clients see it.                                *)
(***************************************************************************)

\* A client takes the daemon for its detector in no step but Check.
LEMMA OnlyCheck ==
    ASSUME FormInv, NEW k \in Client, NEW c \in Client, ~job[c].ner, job'[c].ner,
           Step(k) \/ Breaks(k) \/ \E by \in DOMAIN Tries : Start(k, by)
    PROVE  Check(k) /\ Up
<1>0. job \in [Client -> Jobs] /\ job[k] \in Jobs
  BY DEF FormInv
<1>1. ASSUME NEW j, Become(k, j), j.ner => job[k].ner PROVE FALSE
  BY <1>0, <1>1 DEF Become
<1>2. ASSUME NEW out, Finish(k, out) PROVE FALSE
  <2>1. Idle \in Jobs /\ ~Idle.ner
    <3>1. (CHOOSE d \in Docs : TRUE) \in Docs
      BY AnonymiseAssumption
    <3> QED
      BY <3>1, NewOK DEF Idle, JobOK, Job
  <2>2. ~[Idle EXCEPT !.at = "done", !.by = job[k].by, !.out = out].ner
    BY <2>1 DEF Jobs
  <2> QED
    BY <1>1, <1>2, <2>2 DEF Finish
<1>3. ASSUME NEW at, Goto(k, at) PROVE FALSE
  BY <1>0, <1>1, <1>3 DEF Goto, Jobs
<1>4. ASSUME NEW applied, Give(k, applied) PROVE FALSE
  BY <1>0, <1>1, <1>4 DEF Give, Jobs
<1>5. ASSUME NEW by \in DOMAIN Tries, Start(k, by) PROVE FALSE
  <2>1. PICK d \in Docs : \E known \in {FALSE, "name" \in d.has} :
           \/ Become(k, Job(d, by, "check", known))
           \/ Become(k, [Job(d, by, "scan", FALSE) EXCEPT !.tries = 0])
    BY <1>5 DEF Start
  <2> QED
    BY <1>1, <2>1 DEF Job
<1>6. ASSUME WithoutNer(k) PROVE FALSE
  BY <1>0, <1>1, <1>2, <1>6 DEF WithoutNer, Jobs
<1>7. CASE Check(k)
  BY <1>3, <1>7 DEF Check
<1>8. CASE Stamp(k) \/ Spawn(k) \/ Ask(k) \/ HookGate(k) \/ Breaks(k)
  BY <1>2, <1>3, <1>4, <1>6, <1>8 DEF Stamp, Spawn, Ask, HookGate, Breaks
<1>9. CASE Hear(k)
  BY <1>0, <1>1, <1>9 DEF Hear, Masked, Jobs
<1>10. CASE ReadGate(k)
  <2>1. ASSUME NEW mode \in Modes, Escalate(k, mode) PROVE FALSE
    BY <1>0, <1>1, <1>2, <2>1 DEF Escalate, Jobs
  <2> QED
    BY <1>2, <1>4, <1>10, <2>1 DEF ReadGate
<1>11. CASE Window(k)
  BY <1>0, <1>1, <1>2, <1>4, <1>11 DEF Window, Jobs
<1>12. CASE Conclude(k)
  BY <1>2, <1>4, <1>12 DEF Conclude
<1> QED
  BY <1>5, <1>7, <1>8, <1>9, <1>10, <1>11, <1>12 DEF Step

\* A client takes for its detector only a daemon whose model sees, or is not
\* loaded yet, or is in use for the first time, not yet tested (_daemon_up of
\* posttool_anonymize.py, do_POST of bubble_shield_nerd.py).
THEOREM BlindUntrusted == Spec => BlindNotTrusted
<1>1. Init => TestInv /\ FormInv
  BY OneInit, FormInit, OffType DEF Init, NerInit, TestInv, Tested, Off
<1>2. TestInv /\ [Next]_vars => TestInv'
  <2> SUFFICES ASSUME TestInv, [Next]_vars PROVE TestInv'
    OBVIOUS
  <2>1. ASSUME UNCHANGED <<port, daemon>> PROVE TestInv'
    BY <2>1 DEF TestInv, OneInv, OneModel, Tested
  <2>2. ASSUME NEW k \in Client, NEW by \in DOMAIN Tries, Start(k, by) PROVE TestInv'
    BY <2>1, <2>2 DEF Start, ner
  <2>3. ASSUME NEW k \in Client, Breaks(k) PROVE TestInv'
    BY <2>1, <2>3 DEF Breaks, ner
  <2>4. CASE UNCHANGED vars
    BY <2>1, <2>4 DEF vars, ner
  <2> QED
    BY <2>2, <2>3, <2>4, NerTested, ClientTested DEF Next
<1>3. TestInv /\ FormInv /\ [Next]_vars =>
        [\A k \in Client : ~job[k].ner /\ job'[k].ner =>
            daemon[port].model # "blind" \/ FirstDetection(port)]_vars
  <2> SUFFICES ASSUME TestInv, FormInv, Next, NEW c \in Client, ~job[c].ner, job'[c].ner
               PROVE  daemon[port].model # "blind" \/ FirstDetection(port)
    OBVIOUS
  <2>1. job' # job
    OBVIOUS
  <2>2. PICK k \in Client : Step(k) \/ Breaks(k) \/ \E by \in DOMAIN Tries : Start(k, by)
    BY <2>1 DEF Next
  <2>3. Up
    BY <2>2, OnlyCheck
  <2> QED
    BY <2>3 DEF Up, Serving, TestInv, Tested, FirstDetection
<1> QED
  BY <1>1, <1>2, <1>3, FormNext, PTL DEF Spec, BlindNotTrusted

-----------------------------------------------------------------------------
(***************************************************************************)
(* The Gemma daemon                                                        *)
(***************************************************************************)

CONSTANTS Requests, QueueMax, ReqTimeout, ClientTimeout, IdleSecs
VARIABLES server, queue, request, age, left, abandoned, outcome, worker, loaded, quiet

D == INSTANCE GemmaWorker

\* The daemon has been quiet no longer than anybody waits, and nobody waits
\* longer than his timeout.
Awaited == \A r \in D!Waiting : quiet <= age[r]
GemmaInv == D!TypeOK /\ age \in [Requests -> Nat] /\ Awaited

LEMMA GemmaInit == ASSUME D!WorkerConstants PROVE D!Init => GemmaInv
BY DEF D!WorkerConstants, D!Init, D!Idling, D!Waiting, D!TypeOK, GemmaInv, Awaited

\* A request that ends, or begins when the clock is set back.
LEMMA Becoming ==
    ASSUME D!WorkerConstants, GemmaInv, NEW r \in Requests,
           NEW what \in {"waiting", "answered", "failed", "timedout", "rejected", "refused"},
           D!Becomes(r, what), what = "waiting" => quiet' = 0,
           quiet' \in {0, quiet}
    PROVE  /\ request' \in [Requests -> {"new", "waiting", "answered", "failed", "timedout",
                                         "rejected", "refused", "dropped"}]
           /\ \A q \in Requests : age'[q] \in 0 .. ReqTimeout[q]
           /\ quiet' \in 0 .. IdleSecs + 1
           /\ age' \in [Requests -> Nat]
           /\ Awaited'
BY DEF D!WorkerConstants, GemmaInv, Awaited, D!TypeOK, D!Becomes, D!Waiting

LEMMA GemmaRequest ==
    ASSUME D!WorkerConstants, GemmaInv, NEW r \in Requests,
           \/ D!Submit(r) \/ D!Reject(r) \/ D!Refused(r)
           \/ D!Reply(r) \/ D!GiveUp(r) \/ D!ClientLeaves(r)
    PROVE  GemmaInv'
<1>1. CASE D!Submit(r)
  <2>1. Append(queue, r) \in Seq(Requests)
    BY DEF GemmaInv, D!TypeOK
  <2>. QED
    BY <1>1, <2>1, Becoming DEF GemmaInv, D!TypeOK, D!Submit, D!Touch, D!job
<1>2. CASE D!Reject(r)
  BY <1>2, Becoming DEF GemmaInv, D!TypeOK, D!Reject, D!Touch, D!job
<1>3. CASE D!Refused(r)
  BY <1>3, Becoming DEF GemmaInv, D!TypeOK, D!Refused, D!job, D!node
<1>4. CASE D!Reply(r)
  <2>1. PICK what \in {"answered", "failed"} : D!Becomes(r, what)
    BY <1>4 DEF D!Reply
  <2>2. quiet' = quiet
    BY <1>4 DEF D!Reply, D!node
  <2>. QED
    BY <1>4, <2>1, <2>2, Becoming DEF GemmaInv, D!TypeOK, D!Reply, D!job, D!node
<1>5. CASE D!GiveUp(r)
  BY <1>5, Becoming DEF GemmaInv, D!TypeOK, D!GiveUp, D!node
<1>6. CASE D!ClientLeaves(r)
  BY <1>6 DEF GemmaInv, Awaited, D!TypeOK, D!Waiting, D!ClientLeaves, D!job, D!node
<1>. QED
  BY <1>1, <1>2, <1>3, <1>4, <1>5, <1>6

\* The worker looks at no clock and ends no wait.
LEMMA GemmaWork == ASSUME D!WorkerConstants, GemmaInv, D!WorkerStep PROVE GemmaInv'
<1>1. UNCHANGED <<server, request, age, left, abandoned, quiet>>
  BY DEF D!WorkerStep, D!DropAbandoned, D!TakeJob, D!WarmUp, D!WarmUpFails, D!RunEnds, D!job
<1>2. queue' \in Seq(Requests)
  <2>1. CASE queue # <<>> /\ queue' = Tail(queue)
    BY <2>1, HeadTailProperties DEF GemmaInv, D!TypeOK
  <2>2. CASE queue' = queue
    BY <2>2 DEF GemmaInv, D!TypeOK
  <2>. QED
    BY <2>1, <2>2
       DEF D!WorkerStep, D!DropAbandoned, D!TakeJob, D!WarmUp, D!WarmUpFails, D!RunEnds
<1>3. queue # <<>> => Head(queue) \in Requests
  BY HeadTailProperties DEF GemmaInv, D!TypeOK
<1>4. /\ outcome' \in [Requests -> {"none", "result", "error", "nothing"}]
      /\ worker' \in [pc : {"idle", "warming", "running"}, job : Requests \cup {None}]
      /\ loaded' \in BOOLEAN
  <2>1. worker \in [pc : {"idle", "warming", "running"}, job : Requests \cup {None}]
        /\ outcome \in [Requests -> {"none", "result", "error", "nothing"}]
        /\ loaded \in BOOLEAN
    BY DEF GemmaInv, D!TypeOK
  <2>2. CASE D!DropAbandoned
    BY <1>3, <2>1, <2>2 DEF D!DropAbandoned, D!Done, D!Idling
  <2>3. CASE D!TakeJob
    BY <1>3, <2>1, <2>3 DEF D!TakeJob, D!Works, D!job
  <2>4. CASE D!WarmUp
    BY <2>1, <2>4 DEF D!WarmUp, D!Works, D!job
  <2>5. CASE D!WarmUpFails
    BY <2>1, <2>5 DEF D!WarmUpFails, D!Done, D!Idling
  <2>6. CASE D!RunEnds
    <3>1. PICK what \in {"result", "error"} : D!Done(worker.job, what)
      BY <2>6 DEF D!RunEnds
    <3>. QED
      BY <2>1, <2>6, <3>1 DEF D!RunEnds, D!Done, D!Idling
  <2>. QED
    BY <2>2, <2>3, <2>4, <2>5, <2>6 DEF D!WorkerStep
<1>. QED
  BY <1>1, <1>2, <1>4 DEF GemmaInv, Awaited, D!TypeOK, D!Waiting

\* While somebody waits, both clocks run: his and the daemon's.
LEMMA GemmaTick == ASSUME D!WorkerConstants, GemmaInv, D!Tick PROVE GemmaInv'
<1>1. \A r \in D!Waiting : age[r] < ReqTimeout[r]
  BY DEF D!WorkerConstants, GemmaInv, D!TypeOK, D!Tick, D!Due, D!Waiting
<1>2. /\ age' \in [Requests -> Nat]
      /\ \A r \in Requests : age'[r] \in 0 .. ReqTimeout[r]
  BY <1>1 DEF D!WorkerConstants, GemmaInv, D!TypeOK, D!Tick
<1>3. quiet' \in 0 .. IdleSecs + 1 /\ quiet' <= quiet + 1
  BY DEF D!WorkerConstants, GemmaInv, D!TypeOK, D!Tick
<1>4. Awaited'
  BY <1>3 DEF D!WorkerConstants, GemmaInv, Awaited, D!TypeOK, D!Tick, D!Waiting
<1>. QED
  BY <1>2, <1>3, <1>4 DEF GemmaInv, D!TypeOK, D!Tick, D!job

\* With the process its handlers go, so that nobody waits.
LEMMA GemmaProcess ==
    ASSUME D!WorkerConstants, GemmaInv, D!Watchdog \/ D!Shutdown \/ D!Killed \/ D!Start
    PROVE  GemmaInv'
<1>1. CASE D!Watchdog
  BY <1>1 DEF GemmaInv, Awaited, D!TypeOK, D!Waiting, D!Watchdog, D!job
<1>2. CASE D!Exit
  <2>1. queue' \in Seq(Requests) /\ worker' = D!Idling
    BY <1>2 DEF D!Exit
  <2>2. D!Waiting' = {}
    BY <1>2 DEF GemmaInv, D!TypeOK, D!Exit, D!Waiting
  <2>3. \A r \in Requests : age'[r] \in 0 .. ReqTimeout[r]
    BY <1>2 DEF D!WorkerConstants, D!Exit
  <2>4. /\ request' \in [Requests -> {"new", "waiting", "answered", "failed", "timedout",
                                      "rejected", "refused", "dropped"}]
        /\ age' \in [Requests -> Nat]
    BY <1>2 DEF GemmaInv, D!TypeOK, D!Exit
  <2>5. /\ server' \in {"up", "stopping", "down"} /\ loaded' \in BOOLEAN
        /\ worker' \in [pc : {"idle", "warming", "running"}, job : Requests \cup {None}]
    <3>1. D!Idling \in [pc : {"idle", "warming", "running"}, job : Requests \cup {None}]
      BY DEF D!Idling
    <3>. QED
      BY <1>2, <2>1, <3>1 DEF D!Exit
  <2>6. UNCHANGED <<left, abandoned, outcome, quiet>>
    BY <1>2 DEF D!Exit, D!job
  <2>7. D!TypeOK /\ D!TypeOK'
    BY <2>1, <2>3, <2>4, <2>5, <2>6 DEF GemmaInv, D!TypeOK
  <2>8. Awaited'
    BY <2>2 DEF Awaited
  <2>. QED
    BY <2>4, <2>7, <2>8 DEF GemmaInv
<1>3. CASE D!Start
  BY <1>3 DEF D!WorkerConstants, GemmaInv, Awaited, D!TypeOK, D!Waiting, D!Start, D!job
<1>. QED
  BY <1>1, <1>2, <1>3 DEF D!Shutdown, D!Killed

LEMMA GemmaStep ==
    ASSUME D!WorkerConstants PROVE GemmaInv /\ [D!Next]_(D!vars) => GemmaInv'
<1>. SUFFICES ASSUME GemmaInv, [D!Next]_(D!vars) PROVE GemmaInv'
  OBVIOUS
<1>1. CASE UNCHANGED D!vars
  BY <1>1 DEF GemmaInv, Awaited, D!TypeOK, D!Waiting, D!vars
<1>. QED
  BY <1>1, GemmaRequest, GemmaWork, GemmaTick, GemmaProcess DEF D!Next

LEMMA GemmaInductive == ASSUME D!WorkerConstants PROVE D!Spec => []GemmaInv
<1>1. D!Init => GemmaInv
  BY GemmaInit
<1>2. GemmaInv /\ [D!Next]_(D!vars) => GemmaInv'
  BY GemmaStep
<1>. QED
  BY <1>1, <1>2, PTL DEF D!Spec

\* Only the watchdog stops the server, after longer than anybody may wait.
LEMMA StopsIdle ==
    ASSUME D!WorkerConstants
    PROVE  GemmaInv /\ [D!Next]_(D!vars) =>
              [server' = "stopping" => server = "stopping" \/ D!Waiting = {}]_(D!vars)
<1>. SUFFICES ASSUME GemmaInv, D!Next, server' = "stopping", server # "stopping",
                     NEW r \in D!Waiting
              PROVE  FALSE
  OBVIOUS
<1>1. D!Watchdog
  BY DEF D!Next, D!Submit, D!Reject, D!Refused, D!Reply, D!GiveUp, D!ClientLeaves, D!node,
         D!WorkerStep, D!DropAbandoned, D!TakeJob, D!WarmUp, D!WarmUpFails, D!RunEnds,
         D!Tick, D!Shutdown, D!Killed, D!Exit, D!Start
<1>2. r \in Requests /\ quiet <= age[r] /\ age[r] \in 0 .. ReqTimeout[r]
  BY DEF GemmaInv, Awaited, D!TypeOK, D!Waiting
<1>. QED
  BY <1>1, <1>2 DEF D!Watchdog, D!WorkerConstants, GemmaInv, D!TypeOK

\* The idle watchdog never stops the Gemma daemon while a handler waits for the
\* model, for any number of requests and whatever the timeouts, if none is
\* longer than the idle time (idle_watchdog and submit).
THEOREM NeverIdleWhileAwaited == ASSUME D!WorkerConstants PROVE D!Spec => D!IdleIsIdle
<1>1. GemmaInv /\ [D!Next]_(D!vars) =>
         [server' = "stopping" => server = "stopping" \/ D!Waiting = {}]_(D!vars)
  BY StopsIdle
<1>. QED
  BY <1>1, GemmaInductive, PTL DEF D!Spec, D!IdleIsIdle
=============================================================================
