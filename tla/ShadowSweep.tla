---------------------------- MODULE ShadowSweep ----------------------------
(***************************************************************************)
(* The shadow store (shadow_store.py) and everything that works on it at   *)
(* the same time: sweeps that index a folder (shadow_index.run_sweep under *)
(* the lock of bubble_shield_sweep.main), agents that read files           *)
(* (_read_with_shadow), the judge that puts a word on the safe list        *)
(* (safe_words.add_safe), and a user whose files change, go offline and    *)
(* come back.                                                              *)
(*                                                                         *)
(* A shadow is kept under the hash of a file's bytes; Content stands for   *)
(* bytes and hash alike.  One junk word is followed: Polluted holds the    *)
(* contents in which it is masked as long as nobody judged it safe.        *)
(***************************************************************************)
EXTENDS Naturals, FiniteSets

CONSTANTS
    Sweeps,           \* processes that may run a sweep
    Files,            \* source paths under the protected folder
    Content,          \* what a file may contain
    Polluted,         \* contents that hold the junk word
    Uncertifiable,    \* contents the pipeline can never certify
    None,             \* no value
    QuarantineAfter,  \* QUARANTINE_AFTER_FAILS
    MaxEvents         \* bound: file changes, kills and reads in a behaviour

ASSUME SweepAssumption ==
    /\ Polluted \subseteq Content /\ Uncertifiable \subseteq Content
    /\ QuarantineAfter \in Nat \ {0}
    /\ MaxEvents \in Nat

VARIABLES
    content,   \* file -> what it contains
    offline,   \* files whose bytes are not on this disk
    shadows,   \* table shadows, with what shadow_values knows: hash -> shadow
    pending,   \* table pending: path -> fail_count
    safe,      \* the junk word is on the safe list
    judge,     \* where add_safe is
    lock,      \* sweep.lock
    sweep,     \* sweep -> its local state
    reader,    \* the read in progress
    spent      \* how many bounded events there were

store == <<shadows, pending>>
world == <<content, offline>>
vars  == <<content, offline, shadows, pending, safe, judge, lock, sweep, reader, spent>>

\* The text anonymised: which content it came from, and whether the store
\* knows that the junk word is masked in it (shadow_values).
Text == [of : Content, known : BOOLEAN]

Free == "free"   \* no lock file
Dead == "dead"   \* a lock file with the pid of a process that is gone

Phases == {"idle", "locking", "starting", "walking", "picked", "masking",
           "storing", "clearing"}

\* A sweep between two runs, and a reader between two reads; None fills what
\* is not set yet.
Idle   == [pc |-> "idle", todo |-> {}, already |-> {}, quarantined |-> {},
           file |-> None, hash |-> None, text |-> None]
NoRead == [pc |-> "idle", file |-> None, hash |-> None]

Indexed       == {c \in DOMAIN shadows : ~shadows[c].stale}    \* list_indexed
Quarantined   == {f \in DOMAIN pending : pending[f] >= QuarantineAfter}
Settled(f)    == content[f] \in Indexed \/ f \in Quarantined

Init ==
    /\ content \in [Files -> Content] /\ offline = {}
    /\ shadows = [c \in {} |-> c] /\ pending = [f \in {} |-> 0]
    /\ safe = FALSE /\ judge = "idle"
    /\ lock = Free /\ sweep = [p \in Sweeps |-> Idle]
    /\ reader = NoRead
    /\ spent = 0

-----------------------------------------------------------------------------
(***************************************************************************)
(* Writes to the store, one committed transaction each                     *)
(***************************************************************************)

PutShadow(c, text) ==
    shadows' = [d \in DOMAIN shadows \cup {c} |->
                  IF d = c THEN [of |-> text.of, known |-> text.known, stale |-> FALSE]
                  ELSE shadows[d]]

FailCount(f) == IF f \in DOMAIN pending THEN pending[f] ELSE 0

MarkPending(f, failed) ==
    pending' = [g \in DOMAIN pending \cup {f} |->
                  IF g = f THEN FailCount(f) + (IF failed THEN 1 ELSE 0)
                  ELSE pending[g]]

ClearPending(f) == pending' = [g \in DOMAIN pending \ {f} |-> pending[g]]

-----------------------------------------------------------------------------
(***************************************************************************)
(* A sweep: main, acquire_lock, run_sweep, _index_one_resilient, index_one *)
(***************************************************************************)

At(p, phase) == sweep[p].pc = phase
File(p)      == sweep[p].file
Go(p, s)     == sweep' = [sweep EXCEPT ![p] = s]

\* Done with file f, whatever came of it.
NextFile(p, f) ==
    Go(p, [sweep[p] EXCEPT !.pc = "walking", !.todo = @ \ {f},
                           !.file = None, !.hash = None, !.text = None])

\* Mutant: a lock left by a dead process is respected.
CheckLockStrict(p) ==
    /\ At(p, "idle") /\ lock = Free
    /\ Go(p, [Idle EXCEPT !.pc = "locking"])
    /\ UNCHANGED <<world, store, safe, judge, lock, reader, spent>>

\* acquire_lock looks for a lock held by a live process; when it sees one,
\* main returns and nothing has changed.
CheckLock(p) ==
    /\ At(p, "idle") /\ lock \in {Free, Dead}
    /\ Go(p, [Idle EXCEPT !.pc = "locking"])
    /\ UNCHANGED <<world, store, safe, judge, lock, reader, spent>>

\* It writes its pid, whatever the lock file has become since.
TakeLock(p) ==
    /\ At(p, "locking")
    /\ lock' = p
    /\ Go(p, [Idle EXCEPT !.pc = "starting"])
    /\ UNCHANGED <<world, store, safe, judge, reader, spent>>

\* Mutant: stale shadows count as indexed.
StartWalkAll(p) ==
    /\ At(p, "starting")
    /\ Go(p, [sweep[p] EXCEPT !.pc = "walking", !.todo = Files,
                              !.already = DOMAIN shadows, !.quarantined = Quarantined])
    /\ UNCHANGED <<world, store, safe, judge, lock, reader, spent>>

\* run_sweep reads what is indexed and what is quarantined, once.
StartWalk(p) ==
    /\ At(p, "starting")
    /\ Go(p, [sweep[p] EXCEPT !.pc = "walking", !.todo = Files,
                              !.already = Indexed, !.quarantined = Quarantined])
    /\ UNCHANGED <<world, store, safe, judge, lock, reader, spent>>

Skips(p, f) == content[f] \in sweep[p].already \/ f \in sweep[p].quarantined

\* The next file of the walk is offline, skipped, or picked for indexing.
Visit(p, f) ==
    /\ At(p, "walking") /\ f \in sweep[p].todo
    /\ \/ f \in offline /\ MarkPending(f, FALSE) /\ NextFile(p, f)
       \/ f \notin offline /\ Skips(p, f) /\ NextFile(p, f) /\ UNCHANGED pending
       \/ /\ f \notin offline /\ ~Skips(p, f)
          /\ Go(p, [sweep[p] EXCEPT !.pc = "picked", !.file = f])
          /\ UNCHANGED pending
    /\ UNCHANGED <<world, shadows, safe, judge, lock, reader, spent>>

\* index_one hashes the file...
Hash(p) ==
    /\ At(p, "picked") /\ File(p) \notin offline
    /\ Go(p, [sweep[p] EXCEPT !.pc = "masking", !.hash = content[File(p)]])
    /\ UNCHANGED <<world, store, safe, judge, lock, reader, spent>>

\* ... and reads it again to anonymise it.  Whether the vault file can tell
\* afterwards that the junk word was masked is not certain (a word masked
\* by the second pass is not in it).
Anonymise(p) ==
    /\ At(p, "masking") /\ File(p) \notin offline
    /\ content[File(p)] \notin Uncertifiable
    /\ \E known \in {content[File(p)] \in Polluted /\ ~safe, FALSE} :
          Go(p, [sweep[p] EXCEPT !.pc = "storing",
                   !.text = [of |-> content[File(p)], known |-> known]])
    /\ UNCHANGED <<world, store, safe, judge, lock, reader, spent>>

\* The bytes went away under index_one: the file waits for the next sweep.
Defer(p) ==
    /\ At(p, "picked") \/ At(p, "masking")
    /\ File(p) \in offline
    /\ MarkPending(File(p), FALSE)
    /\ NextFile(p, File(p))
    /\ UNCHANGED <<world, shadows, safe, judge, lock, reader, spent>>

\* Anonymisation raised: the models are down, or nothing can certify this
\* document.  It gets no shadow, and its failure is counted.
Fail(p) ==
    /\ At(p, "masking") /\ File(p) \notin offline
    /\ MarkPending(File(p), TRUE)
    /\ NextFile(p, File(p))
    /\ UNCHANGED <<world, shadows, safe, judge, lock, reader, spent>>

Store(p) ==
    /\ At(p, "storing")
    /\ PutShadow(sweep[p].hash, sweep[p].text)
    /\ Go(p, [sweep[p] EXCEPT !.pc = "clearing"])
    /\ UNCHANGED <<world, pending, safe, judge, lock, reader, spent>>

Clear(p) ==
    /\ At(p, "clearing")
    /\ ClearPending(File(p))
    /\ NextFile(p, File(p))
    /\ UNCHANGED <<world, shadows, safe, judge, lock, reader, spent>>

\* The walk is over; release_lock removes the lock file, whoever holds it.
Finish(p) ==
    /\ At(p, "walking") /\ sweep[p].todo = {}
    /\ lock' = Free
    /\ Go(p, Idle)
    /\ UNCHANGED <<world, store, safe, judge, reader, spent>>

\* The process is killed; its lock stays behind with the pid of nobody.
Crash(p) ==
    /\ ~At(p, "idle") /\ spent < MaxEvents
    /\ lock' = IF lock = p THEN Dead ELSE lock
    /\ Go(p, Idle)
    /\ spent' = spent + 1
    /\ UNCHANGED <<world, store, safe, judge, reader>>

SweepStep(p) ==
    \/ CheckLock(p) \/ TakeLock(p) \/ StartWalk(p)
    \/ \E f \in Files : Visit(p, f)
    \/ Hash(p) \/ Anonymise(p) \/ Defer(p) \/ Fail(p)
    \/ Store(p) \/ Clear(p) \/ Finish(p)

-----------------------------------------------------------------------------
(***************************************************************************)
(* Everybody else                                                          *)
(***************************************************************************)

\* A read of a file: hash it and look its shadow up.  A hit is served.
ReadFile(f) ==
    /\ reader = NoRead /\ f \notin offline /\ spent < MaxEvents
    /\ reader' = IF content[f] \in DOMAIN shadows THEN NoRead
                 ELSE [pc |-> "miss", file |-> f, hash |-> content[f]]
    /\ spent' = spent + 1
    /\ UNCHANGED <<world, store, safe, judge, lock, sweep>>

\* On a miss the shared server may have the shadow: it is cached as it came,
\* with no value hashes.
CacheRemote ==
    /\ reader.pc = "miss" /\ reader.hash \notin Uncertifiable
    /\ PutShadow(reader.hash, [of |-> reader.hash, known |-> FALSE])
    /\ reader' = NoRead
    /\ UNCHANGED <<world, pending, safe, judge, lock, sweep, spent>>

\* Otherwise the file is queued, and its text served unmasked.
ServeRaw ==
    /\ reader.pc = "miss"
    /\ MarkPending(reader.file, FALSE)
    /\ reader' = NoRead
    /\ UNCHANGED <<world, shadows, safe, judge, lock, sweep, spent>>

\* add_safe saves the safe list...
SaveSafe ==
    /\ judge = "idle"
    /\ safe' = TRUE /\ judge' = "saved"
    /\ UNCHANGED <<world, store, lock, sweep, reader, spent>>

\* ... and marks stale every shadow known to mask the word.
MarkStale ==
    /\ judge = "saved"
    /\ shadows' = [c \in DOMAIN shadows |->
                     [shadows[c] EXCEPT !.stale = @ \/ shadows[c].known]]
    /\ judge' = "done"
    /\ UNCHANGED <<world, pending, safe, lock, sweep, reader, spent>>

\* The user or the cloud folder changes a file: its content, whether its bytes
\* are on this disk, or both (an edit made on another machine).
Change(f, c, away) ==
    /\ spent < MaxEvents
    /\ content' = [content EXCEPT ![f] = c]
    /\ offline' = IF away THEN offline \cup {f} ELSE offline \ {f}
    /\ world' # world
    /\ spent' = spent + 1
    /\ UNCHANGED <<store, safe, judge, lock, sweep, reader>>

\* The bytes of a file that was away arrive.
Hydrate(f) ==
    /\ f \in offline
    /\ offline' = offline \ {f}
    /\ UNCHANGED <<content, store, safe, judge, lock, sweep, reader, spent>>

Next ==
    \/ \E p \in Sweeps : SweepStep(p) \/ Crash(p)
    \/ \E f \in Files : ReadFile(f) \/ Hydrate(f)
    \/ \E f \in Files, c \in Content, away \in BOOLEAN : Change(f, c, away)
    \/ CacheRemote \/ ServeRaw \/ SaveSafe \/ MarkStale

Spec == Init /\ [][Next]_vars

\* launchd starts a sweep every StartInterval seconds and a running one goes
\* on; a file being fetched arrives.  Nobody is obliged to read or to judge.
Fairness ==
    /\ \A p \in Sweeps : WF_vars(SweepStep(p))
    /\ \A f \in Files : WF_vars(Hydrate(f))

FairSpec == Spec /\ Fairness

-----------------------------------------------------------------------------
(***************************************************************************)
(* Properties                                                              *)
(***************************************************************************)

\* Every variable has the shape the code gives it.
TypeOK ==
    /\ content \in [Files -> Content] /\ offline \subseteq Files
    /\ DOMAIN shadows \subseteq Content
    /\ \A c \in DOMAIN shadows :
          shadows[c] \in [of : Content, known : BOOLEAN, stale : BOOLEAN]
    /\ DOMAIN pending \subseteq Files /\ pending \in [DOMAIN pending -> Nat]
    /\ safe \in BOOLEAN /\ judge \in {"idle", "saved", "done"}
    /\ lock \in {Free, Dead} \cup Sweeps
    /\ \A p \in Sweeps :
          sweep[p] \in [pc : Phases, todo : SUBSET Files, already : SUBSET Content,
                        quarantined : SUBSET Files, file : Files \cup {None},
                        hash : Content \cup {None}, text : Text \cup {None}]
    /\ reader \in [pc : {"idle", "miss"}, file : Files \cup {None},
                    hash : Content \cup {None}]

\* Sweeps converge: whatever is edited, goes offline or is killed, every file comes
\* to be indexed as it is now, or quarantined, again and again.  In
\* particular a lock left by a killed sweep does not stop later ones.
Converges == \A f \in Files : []<>Settled(f)

\* Re-indexing catches up with judgments: a stale shadow does not stay stale
\* while a file still has that content, unless the file is quarantined.
StaleRefreshed ==
    \A c \in Content :
        [](c \in DOMAIN shadows \ Indexed =>
             <>(c \in Indexed \/ \A f \in Files : content[f] = c => f \in Quarantined))
=============================================================================
