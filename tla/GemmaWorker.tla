---------------------------- MODULE GemmaWorker ----------------------------
(***************************************************************************)
(* The Gemma daemon (bubble_shield_gemmad.py): HTTP handlers that enqueue  *)
(* jobs and wait, the single worker thread that owns the model, the idle   *)
(* watchdog, and the process itself, which stops and is started again.     *)
(*                                                                         *)
(* Time is a count of ticks: a wait ends at its timeout and not later, so  *)
(* Tick waits for every timeout that is due.  Which method a job runs and  *)
(* what the model answers are left out.                                    *)
(***************************************************************************)
EXTENDS Naturals, Sequences

CONSTANTS
    Requests,       \* POST requests, each sent once
    QueueMax,       \* QUEUE_MAXSIZE, 0 for an unbounded queue
    ReqTimeout,     \* request -> how long its handler waits for the job
    ClientTimeout,  \* request -> how long its client waits for the handler
    IdleSecs,       \* IDLE_SECS, 0 for a daemon that never stops
    None            \* no job

\* A handler gives up (after 90 or 45 s) long before the daemon calls itself
\* idle (600 s).  Clients wait 120 s for an extraction, 30 s for a judgment.
WorkerConstants ==
    /\ None \notin Requests
    /\ QueueMax \in Nat /\ IdleSecs \in Nat
    /\ ReqTimeout \in [Requests -> Nat \ {0}]
    /\ ClientTimeout \in [Requests -> Nat \ {0}]
    /\ IdleSecs > 0 => \A r \in Requests : IdleSecs >= ReqTimeout[r]

VARIABLES
    server,     \* "up", "stopping" once the watchdog has decided, or "down"
    queue,      \* the jobs put and not yet taken, by request
    request,    \* what became of each request
    age,        \* ticks since the request was sent, while somebody waits
    left,       \* requests whose client gave up
    abandoned,  \* jobs whose handler gave up
    outcome,    \* what the worker made of a job
    worker,     \* the worker thread
    loaded,     \* _model_loaded
    quiet       \* ticks since _last_activity

vars == <<server, queue, request, age, left, abandoned, outcome, worker, loaded, quiet>>

job  == <<abandoned, outcome>>
node == <<server, worker, loaded, quiet>>

Waiting  == {r \in Requests : request[r] = "waiting"}
Idling   == [pc |-> "idle", job |-> None]
Present  == Waiting \ left

Init ==
    /\ server = "up" /\ queue = <<>>
    /\ request = [r \in Requests |-> "new"]
    /\ age = [r \in Requests |-> 0]
    /\ left = {} /\ abandoned = {}
    /\ outcome = [r \in Requests |-> "none"]
    /\ worker = Idling /\ loaded \in BOOLEAN   \* eager start, or --no-warm
    /\ quiet = 0

-----------------------------------------------------------------------------
(***************************************************************************)
(* Handlers: do_POST and submit                                            *)
(***************************************************************************)

\* What becomes of a request; the clock of its wait is (re)set.
Becomes(r, what) ==
    /\ request' = [request EXCEPT ![r] = what]
    /\ age' = [age EXCEPT ![r] = 0]

QueueFull == QueueMax > 0 /\ Len(queue) = QueueMax

\* Mutant: only GET is activity.
TouchNothing == UNCHANGED quiet

\* A request arrives and is activity, whatever becomes of it.
Touch == quiet' = 0

\* The queue is full: backpressure, an error at once.
Reject(r) ==
    /\ request[r] = "new" /\ server # "down" /\ QueueFull
    /\ Touch /\ Becomes(r, "rejected")
    /\ UNCHANGED <<server, queue, left, job, worker, loaded>>

Submit(r) ==
    /\ request[r] = "new" /\ server # "down" /\ ~QueueFull
    /\ Touch /\ Becomes(r, "waiting")
    /\ queue' = Append(queue, r)
    /\ UNCHANGED <<server, left, job, worker, loaded>>

\* Nobody listens on the port.
Refused(r) ==
    /\ request[r] = "new" /\ server = "down"
    /\ Becomes(r, "refused")
    /\ UNCHANGED <<node, queue, left, job>>

\* done is set: the handler returns the result, or an error 500.
Reply(r) ==
    /\ r \in Waiting /\ outcome[r] # "none"
    /\ Becomes(r, IF outcome[r] = "result" THEN "answered" ELSE "failed")
    /\ UNCHANGED <<node, queue, left, job>>

\* Mutant: submit waits without a timeout.
NeverGiveUp(r) == r \in Waiting /\ FALSE /\ UNCHANGED vars

\* It is not set in time: the handler marks the job abandoned and returns an
\* error 500.
GiveUp(r) ==
    /\ r \in Waiting /\ outcome[r] = "none" /\ age[r] >= ReqTimeout[r]
    /\ abandoned' = abandoned \cup {r}
    /\ Becomes(r, "timedout")
    /\ UNCHANGED <<node, queue, left, outcome>>

\* The client closes the connection; the handler does not notice.
ClientLeaves(r) ==
    /\ r \in Present /\ age[r] >= ClientTimeout[r]
    /\ left' = left \cup {r}
    /\ UNCHANGED <<node, queue, request, age, job>>

-----------------------------------------------------------------------------
(***************************************************************************)
(* The worker thread: _run                                                 *)
(***************************************************************************)

Works(pc, r) == worker' = [pc |-> pc, job |-> r]

\* done.set(), with what job.result and job.error hold by then.
Done(r, what) ==
    /\ outcome' = [outcome EXCEPT ![r] = what]
    /\ worker' = Idling

\* A job whose handler gave up while it was queued is dropped unseen.
DropAbandoned ==
    /\ server # "down" /\ worker = Idling /\ queue # <<>>
    /\ Head(queue) \in abandoned
    /\ queue' = Tail(queue)
    /\ Done(Head(queue), "nothing")
    /\ UNCHANGED <<server, request, age, left, abandoned, loaded, quiet>>

\* Any other job is run; the first one loads the model.
TakeJob ==
    /\ server # "down" /\ worker = Idling /\ queue # <<>>
    /\ Head(queue) \notin abandoned
    /\ queue' = Tail(queue)
    /\ Works(IF loaded THEN "running" ELSE "warming", Head(queue))
    /\ UNCHANGED <<server, request, age, left, job, loaded, quiet>>

WarmUp ==
    /\ worker.pc = "warming"
    /\ loaded' = TRUE
    /\ Works("running", worker.job)
    /\ UNCHANGED <<server, queue, request, age, left, job, quiet>>

\* Mutant: the exception ends the worker thread.
WarmUpKills ==
    /\ worker.pc = "warming"
    /\ outcome' = [outcome EXCEPT ![worker.job] = "error"]
    /\ Works("dead", None)
    /\ UNCHANGED <<server, queue, request, age, left, abandoned, loaded, quiet>>

\* The load raises: the job has failed and the next one tries again.
WarmUpFails ==
    /\ worker.pc = "warming"
    /\ Done(worker.job, "error")
    /\ UNCHANGED <<server, queue, request, age, left, abandoned, loaded, quiet>>

\* The classifier method returns or raises, a batch early if it is abandoned.
RunEnds ==
    /\ worker.pc = "running"
    /\ \E what \in {"result", "error"} : Done(worker.job, what)
    /\ UNCHANGED <<server, queue, request, age, left, abandoned, loaded, quiet>>

WorkerStep == DropAbandoned \/ TakeJob \/ WarmUp \/ WarmUpFails \/ RunEnds

-----------------------------------------------------------------------------
(***************************************************************************)
(* The clock, the idle watchdog and the process                            *)
(***************************************************************************)

\* A handler with an outcome, or a wait that is over, comes before the clock.
Due == \E r \in Waiting :
    \/ outcome[r] # "none" \/ age[r] >= ReqTimeout[r]
    \/ age[r] >= ClientTimeout[r] /\ r \notin left

\* Time is counted as far as somebody compares it.
Tick ==
    /\ ~Due
    /\ age' = [r \in Requests |-> IF r \in Waiting THEN age[r] + 1 ELSE age[r]]
    /\ quiet' = IF quiet <= IdleSecs THEN quiet + 1 ELSE quiet
    /\ <<age, quiet>>' # <<age, quiet>>
    /\ UNCHANGED <<server, queue, request, left, job, worker, loaded>>

\* The watchdog finds the daemon idle and asks the server to shut down...
Watchdog ==
    /\ server = "up" /\ IdleSecs > 0 /\ quiet > IdleSecs
    /\ server' = "stopping"
    /\ UNCHANGED <<queue, request, age, left, job, worker, loaded, quiet>>

\* The process is gone and with it its threads, handlers included.
Exit ==
    /\ server' = "down"
    /\ request' = [r \in Requests |-> IF r \in Waiting THEN "dropped" ELSE request[r]]
    /\ age' = [r \in Requests |-> 0]
    /\ queue' = <<>> /\ worker' = Idling /\ loaded' = FALSE
    /\ UNCHANGED <<left, job, quiet>>

\* ... which it does at its next poll; main returns.
Shutdown == server = "stopping" /\ Exit

Killed == server \in {"up", "stopping"} /\ Exit

\* launchd or a spawn starts it; a second instance finds the port taken and
\* leaves before it has a worker.
Start ==
    /\ server = "down"
    /\ server' = "up" /\ quiet' = 0
    /\ UNCHANGED <<queue, request, age, left, job, worker, loaded>>

Next ==
    \/ \E r \in Requests :
          Submit(r) \/ Reject(r) \/ Refused(r) \/ Reply(r) \/ GiveUp(r) \/ ClientLeaves(r)
    \/ WorkerStep
    \/ Tick \/ Watchdog \/ Shutdown \/ Killed \/ Start

Spec == Init /\ [][Next]_vars

\* Time passes and handlers wake up.  Nobody has to send a request, nothing has
\* to be started or killed, and a call of the model may never return.
Fairness ==
    /\ WF_vars(Tick)
    /\ \A r \in Requests : WF_vars(Reply(r) \/ GiveUp(r) \/ ClientLeaves(r))

FairSpec == Spec /\ Fairness

\* The worker thread runs on and the calls of the model return or raise.
CallsReturn == WF_vars(WorkerStep)

-----------------------------------------------------------------------------
(***************************************************************************)
(* Properties                                                              *)
(***************************************************************************)

\* Every variable has the shape the code gives it.
TypeOK ==
    /\ server \in {"up", "stopping", "down"}
    /\ queue \in Seq(Requests)
    /\ request \in [Requests -> {"new", "waiting", "answered", "failed", "timedout",
                                 "rejected", "refused", "dropped"}]
    /\ \A r \in Requests : age[r] \in 0 .. ReqTimeout[r]
    /\ left \subseteq Requests /\ abandoned \subseteq Requests
    /\ outcome \in [Requests -> {"none", "result", "error", "nothing"}]
    /\ worker \in [pc : {"idle", "warming", "running"}, job : Requests \cup {None}]
    /\ loaded \in BOOLEAN /\ quiet \in 0 .. IdleSecs + 1

\* The watchdog never takes a daemon for idle while a handler waits, although
\* activity is noted only when a request arrives.
IdleIsIdle == [][server' = "stopping" => server = "stopping" \/ Waiting = {}]_vars

\* No handler hangs, even when a call of the model never returns, and however
\* long the queue is: whatever waits comes to wait no more.
NoHang == \A r \in Requests : []<>(r \notin Waiting)

\* The worker outlives failures of the model: while calls return or raise,
\* every job that was put comes to be taken.
Queued(r) == \E i \in 1 .. Len(queue) : queue[i] = r
QueueDrains == CallsReturn => \A r \in Requests : []<>~Queued(r)
=============================================================================
