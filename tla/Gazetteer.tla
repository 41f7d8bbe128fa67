----------------------------- MODULE Gazetteer -----------------------------
(***************************************************************************)
(* What is masked in every document and what is masked no more: the        *)
(* gazetteer (known_pii_store.py), the safe list (safe_words.py), the      *)
(* review queue (review_queue.py) and the memory of the judge              *)
(* (depollute_state.py), under de-pollution passes (depollute.py) that run *)
(* at the same time, a person at the review page, and documents read.      *)
(*                                                                         *)
(* One call of a store (load, change, replace the file) is one step; calls *)
(* that write several stores are several steps.  The chunks in which the   *)
(* judge is asked are of one value.                                        *)
(***************************************************************************)
EXTENDS Naturals

CONSTANTS
    Values,       \* strings that were masked once, or nearly
    Junk,         \* lowercase common words (triage)
    TypesOf,      \* value -> entity types the recognizers give it
    Allowlist,    \* DEPOLLUTE_ALLOWLIST, the types a pass may un-mask
    Passes,       \* processes and threads that may run a pass
    None,         \* no value, no type
    MaxEvents      \* bound: kills, outages, acts of a person, findings

ASSUME GazetteerAssumption ==
    /\ Junk \subseteq Values
    /\ None \notin Values /\ \A v \in Values : None \notin TypesOf[v]
    /\ MaxEvents \in Nat

VARIABLES
    gaz,      \* the gazetteer: value -> type of its entry, None without one
    safe,     \* the safe list
    judged,   \* values not to be judged again
    pending,  \* items of the review queue
    log,      \* dismissed_log: items confirmed, dismissed or expired
    pass,     \* pass -> its local state
    review,   \* the request the review page works on
    spent,    \* how many bounded events there were
    cleared,  \* history: values found harmless by who may say so
    verdict   \* history: value -> "upheld" or "missed" by the judge when asked

queue == <<pending, log>>
vars  == <<gaz, safe, judged, pending, log, pass, review, spent, cleared, verdict>>
history == <<cleared, verdict>>

Rest    == [pc |-> "idle", ask |-> {}, found |-> {}, value |-> None]
NoClick == [pc |-> "idle", value |-> None, pending |-> {}, log |-> {}]

Known == {v \in Values : gaz[v] # None}

Init ==
    /\ gaz = [v \in Values |-> None]
    /\ safe = {} /\ judged = {} /\ pending = {} /\ log = {}
    /\ pass = [p \in Passes |-> Rest]
    /\ review = NoClick
    /\ spent = 0
    /\ cleared = {} /\ verdict = [v \in Values |-> None]

-----------------------------------------------------------------------------
(***************************************************************************)
(* Store calls                                                             *)
(***************************************************************************)

\* A value that has an entry keeps the type it was added with.
AddEntry(v, t) == gaz' = [gaz EXCEPT ![v] = IF @ = None THEN t ELSE @]
RemoveEntry(v) == gaz' = [gaz EXCEPT ![v] = None]
AddSafe(v)     == safe' = safe \cup {v}
RemoveSafe(v)  == safe' = safe \ {v}

\* Mutant: the dismissed log is not looked at.
AddCandidateAgain(v) ==
    /\ pending' = IF v \in Known THEN pending ELSE pending \cup {v}
    /\ UNCHANGED log

\* Known to the gazetteer, pending already or resolved before: not queued.
AddCandidate(v) ==
    /\ pending' = IF v \in Known \cup log THEN pending ELSE pending \cup {v}
    /\ UNCHANGED log

Resolve(S) ==
    /\ pending' = pending \ S
    /\ log' = log \cup S

-----------------------------------------------------------------------------
(***************************************************************************)
(* A de-pollution pass: depollute_gazetteer with daemon_classify           *)
(***************************************************************************)

Spend == spent < MaxEvents /\ spent' = spent + 1

On(p, pc) == pass[p].pc = pc
Goes(p, s) == pass' = [pass EXCEPT ![p] = s]

ToTriage == {v \in Known \ judged : gaz[v] \in Allowlist}

\* The junk lane or a person finds values harmless.
Clears(S) == cleared' = cleared \cup S /\ UNCHANGED verdict

\* The judge finds harmless some of what it answers about (mot) and upholds the
\* rest; it misses what it was asked and does not answer about.
Judges(ask, answered, mot) ==
    /\ cleared' = cleared \cup mot
    /\ verdict' = [v \in Values |-> IF v \in answered \ mot THEN "upheld"
                                   ELSE IF v \in ask \ answered /\ verdict[v] = None
                                        THEN "missed" ELSE verdict[v]]

Load(p) ==
    /\ On(p, "idle")
    /\ Goes(p, [pc    |-> IF ToTriage \subseteq Junk THEN "unmasking" ELSE "asking",
                ask   |-> ToTriage \ Junk,
                found |-> ToTriage \cap Junk,
                value |-> None])
    /\ Clears({v \in Junk : gaz[v] \in Allowlist})
    /\ UNCHANGED <<gaz, safe, judged, queue, review, spent>>

\* Mutant: whatever was not kept is un-masked, answered or not.
UnmaskUnanswered(ask, answered, mot) == ask \ (answered \ mot)

\* What a pass un-masks of what it asked: a verdict MOT, nothing less.
Unmaskable(ask, answered, mot) == ask \cap mot

\* The daemon answers every chunk, or one that is down or late only some.
Ask(p, answered, mot) ==
    /\ On(p, "asking")
    /\ \/ answered = pass[p].ask /\ UNCHANGED spent
       \/ answered # pass[p].ask /\ Spend
    /\ LET found == Unmaskable(pass[p].ask, answered, mot) IN
       Goes(p, [pass[p] EXCEPT !.pc = "marking", !.ask = @ \ found,
                               !.found = @ \cup found])
    /\ Judges(pass[p].ask, answered, mot)
    /\ UNCHANGED <<gaz, safe, judged, queue, review>>

\* Mutant: the values un-masked are marked, those kept are not.
MarkFound(p) ==
    /\ On(p, "marking")
    /\ judged' = judged \cup pass[p].found
    /\ Goes(p, [pass[p] EXCEPT !.pc = "unmasking", !.ask = {}])
    /\ UNCHANGED <<gaz, safe, queue, review, spent, history>>

\* daemon_classify never raises, so every value asked and kept is marked.
Mark(p) ==
    /\ On(p, "marking")
    /\ judged' = judged \cup pass[p].ask
    /\ Goes(p, [pass[p] EXCEPT !.pc = "unmasking", !.ask = {}])
    /\ UNCHANGED <<gaz, safe, queue, review, spent, history>>

Remove(p, v) ==
    /\ On(p, "unmasking") /\ v \in pass[p].found
    /\ RemoveEntry(v)
    /\ Goes(p, [pass[p] EXCEPT !.pc = "freeing", !.found = @ \ {v}, !.value = v])
    /\ UNCHANGED <<safe, judged, queue, review, spent, history>>

Free(p) ==
    /\ On(p, "freeing")
    /\ AddSafe(pass[p].value)
    /\ Goes(p, [pass[p] EXCEPT !.pc = "logging"])
    /\ UNCHANGED <<gaz, judged, queue, review, spent, history>>

Log(p) ==
    /\ On(p, "logging")
    /\ AddCandidate(pass[p].value)
    /\ Goes(p, [pass[p] EXCEPT !.pc = "unmasking", !.value = None])
    /\ UNCHANGED <<gaz, safe, judged, review, spent, history>>

Finish(p) ==
    /\ On(p, "unmasking") /\ pass[p].found = {}
    /\ Goes(p, Rest)
    /\ UNCHANGED <<gaz, safe, judged, queue, review, spent, history>>

\* The process ends under a pass (its thread is a daemon thread).
Kill(p) ==
    /\ ~On(p, "idle") /\ Spend
    /\ Goes(p, Rest)
    /\ UNCHANGED <<gaz, safe, judged, queue, review, history>>

PassStep(p) ==
    \/ Load(p) \/ Mark(p) \/ Free(p) \/ Log(p) \/ Finish(p)
    \/ \E answered \in SUBSET pass[p].ask : \E mot \in SUBSET answered : Ask(p, answered, mot)
    \/ \E v \in Values : Remove(p, v)

-----------------------------------------------------------------------------
(***************************************************************************)
(* A person at the review page, and the agent's tools                      *)
(***************************************************************************)

\* confirm loads the queue and writes the gazetteer first...
Confirm(v, t) ==
    /\ Spend
    /\ review = NoClick /\ v \in pending
    /\ AddEntry(v, t)
    /\ review' = [pc |-> "confirming", value |-> v, pending |-> pending, log |-> log]
    /\ UNCHANGED <<safe, judged, queue, pass, history>>

\* ... then takes the value off the safe list...
ConfirmUnsafe ==
    /\ review.pc = "confirming"
    /\ RemoveSafe(review.value)
    /\ review' = [review EXCEPT !.pc = "saving"]
    /\ UNCHANGED <<gaz, judged, queue, pass, spent, history>>

\* ... and saves the queue it had loaded.
ConfirmSave ==
    /\ review.pc = "saving"
    /\ pending' = review.pending \ {review.value}
    /\ log' = review.log \cup {review.value}
    /\ review' = NoClick
    /\ UNCHANGED <<gaz, safe, judged, pass, spent, history>>

\* dismiss saves the queue, then puts the value on the safe list.
Dismiss(v) ==
    /\ Spend
    /\ review = NoClick /\ v \in pending
    /\ Resolve({v}) /\ Clears({v})
    /\ review' = [NoClick EXCEPT !.pc = "dismissing", !.value = v]
    /\ UNCHANGED <<gaz, safe, judged, pass>>

DismissSafe ==
    /\ review.pc = "dismissing"
    /\ AddSafe(review.value)
    /\ review' = NoClick
    /\ UNCHANGED <<gaz, judged, queue, pass, spent, history>>

\* Opening the page drains the sidecars (Feed) and expires what is old.
Feed(v) ==
    /\ Spend
    /\ AddCandidate(v)
    /\ UNCHANGED <<gaz, safe, judged, pass, review, history>>

Expire(v) ==
    /\ Spend
    /\ v \in pending
    /\ Resolve({v})
    /\ UNCHANGED <<gaz, safe, judged, pass, review, history>>

\* /gazetteer/remove and /safe/add.
RemoveKnown(v) ==
    /\ Spend
    /\ v \in Known
    /\ RemoveEntry(v) /\ Clears({v})
    /\ UNCHANGED <<safe, judged, queue, pass, review>>

MarkSafe(v) ==
    /\ Spend
    /\ AddSafe(v) /\ Clears({v})
    /\ UNCHANGED <<gaz, judged, queue, pass, review>>

\* bubble_shield_add_known_pii.
AddKnown(v, t) ==
    /\ Spend
    /\ AddEntry(v, t)
    /\ UNCHANGED <<safe, judged, queue, pass, review, history>>

\* A document is read and the values of the vault are seeded again.  For an
\* item that is pending this also counts one more occurrence of it.
Seed(v, t) ==
    /\ AddEntry(v, t)
    /\ UNCHANGED <<safe, judged, queue, pass, review, spent, history>>

Next ==
    \/ \E p \in Passes : PassStep(p) \/ Kill(p)
    \/ \E v \in Values :
          \/ Dismiss(v) \/ Feed(v) \/ Expire(v) \/ RemoveKnown(v) \/ MarkSafe(v)
          \/ \E t \in TypesOf[v] : Confirm(v, t) \/ AddKnown(v, t) \/ Seed(v, t)
    \/ ConfirmUnsafe \/ ConfirmSave \/ DismissSafe

Spec == Init /\ [][Next]_vars

\* Passes run again and again.  Nobody has to look at the review page.
Fairness == \A p \in Passes : WF_vars(PassStep(p))

FairSpec == Spec /\ Fairness

-----------------------------------------------------------------------------
(***************************************************************************)
(* Properties                                                              *)
(***************************************************************************)

\* Every variable has the shape the code gives it.
TypeOK ==
    /\ \A v \in Values : gaz[v] \in TypesOf[v] \cup {None}
    /\ safe \subseteq Values /\ judged \subseteq Values
    /\ pending \subseteq Values /\ log \subseteq Values
    /\ \A p \in Passes :
          pass[p] \in [pc : {"idle", "asking", "marking", "unmasking", "freeing", "logging"},
                       ask : SUBSET Values,
                       found : SUBSET Values, value : Values \cup {None}]
    /\ review \in [pc : {"idle", "confirming", "saving", "dismissing"},
                    value : Values \cup {None},
                    pending : SUBSET Values, log : SUBSET Values]
    /\ spent \in 0 .. MaxEvents
    /\ cleared \subseteq Values /\ verdict \in [Values -> {None, "missed", "upheld"}]

\* An item is waiting for a person or was resolved, never both: nobody is
\* asked again about what is in the log, whoever queues it and whenever.
ResolvedOnce == pending \cap log = {}

\* Fail toward masking: a value leaves the gazetteer or enters the safe list
\* only after the judge, the junk lane (under an allowlisted type) or a person
\* found it harmless; no outage, kill or overlap of passes does it.
NoSilentUnmask ==
    [][\A v \in {w \in Known : gaz'[w] = None} \cup (safe' \ safe) :
          v \in cleared']_vars

\* Passes un-mask whatever comes in, or remember it as upheld by the judge,
\* again and again, though one is killed and entries are added and removed.
\* The exception is an entry that the judge missed when it was asked: it may be
\* remembered all the same, and then no pass asks again.
Remembered(v, said) == v \in judged /\ verdict[v] = said
Decided == \A v \in Values :
    \/ []<>(gaz[v] \notin Allowlist \/ Remembered(v, "upheld"))
    \/ <>[]Remembered(v, "missed")

\* What the comment in depollute_gazetteer says of a judge that is down: only
\* what it answered about is remembered as judged (depollute.py:158).
JudgedWasUpheld == \A v \in judged : verdict[v] = "upheld"
=============================================================================
