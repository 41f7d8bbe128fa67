-------------------------- MODULE GazetteerProofs --------------------------
(***************************************************************************)
(* Proofs for any values, passes, types, allowlists and number of events:  *)
(* an item of the review queue is never both waiting and resolved, and     *)
(* nothing is un-masked that was not found harmless.                       *)
(***************************************************************************)
EXTENDS Gazetteer, TLAPS

-----------------------------------------------------------------------------
(***************************************************************************)
(* The inductive invariant                                                 *)
(***************************************************************************)

Passing == [pc : {"idle", "asking", "marking", "unmasking", "freeing", "logging"},
            ask : SUBSET Values, found : SUBSET Values, value : Values \cup {None}]
Reviewing == [pc : {"idle", "confirming", "saving", "dismissing"},
              value : Values \cup {None}, pending : SUBSET Values, log : SUBSET Values]

Stores ==
    /\ gaz = [v \in Values |-> gaz[v]] /\ \A v \in Values : gaz[v] \in TypesOf[v] \cup {None}
    /\ safe \subseteq Values /\ judged \subseteq Values
    /\ pending \subseteq Values /\ log \subseteq Values /\ cleared \subseteq Values
    /\ spent \in 0 .. MaxEvents
    /\ verdict \in [Values -> {None, "missed", "upheld"}]

\* Most steps leave the two histories alone, or one of them.
USE DEF history, Clears

\* Neither the queue nor the copy of it that the review page works on has an
\* item twice.
Apart == pending \cap log = {} /\ review.pending \cap review.log = {}

\* What a pass is about to un-mask, or has taken out of the gazetteer and not
\* yet put on the safe list, was found harmless; so was what a person dismisses.
PassJustified(s) ==
    /\ s.found \subseteq cleared
    /\ s.pc \in {"freeing", "logging"} => s.value \in cleared
Justified ==
    /\ \A p \in Passes : PassJustified(pass[p])
    /\ review.pc = "dismissing" => review.value \in cleared

IInv ==
    /\ Stores /\ Apart /\ Justified
    /\ pass \in [Passes -> Passing] /\ review \in Reviewing
    /\ review.pc # "idle" => review.value \in Values

LEMMA InitIInv == Init => IInv
BY GazetteerAssumption
   DEF Init, IInv, Stores, Apart, Justified, PassJustified, Rest, NoClick, Passing, Reviewing

-----------------------------------------------------------------------------
(***************************************************************************)
(* What the store calls do                                                 *)
(***************************************************************************)

\* An entry that is there is not touched, the others stay as they are.
LEMMA AddEntryKeeps ==
    ASSUME Stores, NEW v \in Values, NEW t \in TypesOf[v], AddEntry(v, t)
    PROVE  /\ gaz' = [w \in Values |-> gaz'[w]]
           /\ \A w \in Values : gaz'[w] \in TypesOf[w] \cup {None}
           /\ \A w \in Known : gaz'[w] # None
BY GazetteerAssumption DEF Stores, AddEntry, Known

LEMMA RemoveEntryKeeps ==
    ASSUME Stores, NEW v \in Values, RemoveEntry(v)
    PROVE  /\ gaz' = [w \in Values |-> gaz'[w]]
           /\ \A w \in Values : gaz'[w] \in TypesOf[w] \cup {None}
           /\ \A w \in Known : w # v => gaz'[w] # None
BY DEF Stores, RemoveEntry, Known

\* Queueing and resolving keep what waits apart from what was resolved.
LEMMA QueueApart ==
    ASSUME Stores, pending \cap log = {}, NEW v \in Values,
           AddCandidate(v) \/ Resolve({v})
    PROVE  pending' \cap log' = {} /\ pending' \subseteq Values /\ log' \subseteq Values
BY DEF Stores, AddCandidate, Resolve, Known

\* A pass goes on to a state that is justified.
LEMMA GoesOn ==
    ASSUME IInv, NEW p \in Passes, NEW s \in Passing, Goes(p, s), cleared \subseteq cleared',
           review' = review \/ review'.pc # "dismissing" \/ review'.value \in cleared',
           s.found \subseteq cleared', s.pc \in {"freeing", "logging"} => s.value \in cleared'
    PROVE  Justified' /\ pass' \in [Passes -> Passing]
<1>1. pass' \in [Passes -> Passing]
  BY DEF IInv, Goes
<1>2. ASSUME NEW q \in Passes PROVE PassJustified(pass[q])'
  <2>1. CASE q = p
    BY <2>1 DEF Goes, IInv, PassJustified
  <2>2. CASE q # p
    BY <2>2 DEF Goes, IInv, Justified, PassJustified
  <2> QED
    BY <2>1, <2>2
<1>3. (review.pc = "dismissing" => review.value \in cleared)'
  BY DEF IInv, Justified
<1> QED
  BY <1>1, <1>2, <1>3 DEF Justified

\* No pass takes a step, and what the review page works on is justified.
LEMMA PassesStay ==
    ASSUME IInv, UNCHANGED pass, cleared \subseteq cleared',
           review'.pc = "dismissing" => review'.value \in cleared'
    PROVE  Justified' /\ pass' \in [Passes -> Passing]
BY DEF IInv, Justified, PassJustified

\* What a step may un-mask.
Harmless ==
    \A v \in {w \in Known : gaz'[w] = None} \cup (safe' \ safe) : v \in cleared'

LEMMA HarmlessSame == UNCHANGED <<gaz, safe>> => Harmless
BY DEF Harmless, Known

-----------------------------------------------------------------------------
(***************************************************************************)
(* The steps of a pass                                                     *)
(***************************************************************************)

LEMMA LoadStep == ASSUME IInv, NEW p \in Passes, Load(p) PROVE IInv' /\ Harmless
<1> DEFINE s == [pc |-> IF ToTriage \subseteq Junk THEN "unmasking" ELSE "asking",
                 ask |-> ToTriage \ Junk, found |-> ToTriage \cap Junk, value |-> None]
<1>1. ToTriage \subseteq Values /\ s \in Passing
  BY DEF ToTriage, Known, Passing
<1>2. s.found \subseteq cleared' /\ cleared \subseteq cleared'
  BY DEF Load, Clears, ToTriage
<1>3. cleared' \subseteq Values
  BY GazetteerAssumption DEF Load, Clears, IInv, Stores
<1>4. Justified' /\ pass' \in [Passes -> Passing]
  BY <1>1, <1>2, GoesOn DEF Load
<1> QED
  BY <1>3, <1>4, HarmlessSame DEF Load, IInv, Stores, Apart, queue

LEMMA AskStep ==
    ASSUME IInv, NEW p \in Passes, NEW answered \in SUBSET pass[p].ask,
           NEW mot \in SUBSET answered, Ask(p, answered, mot)
    PROVE  IInv' /\ Harmless
<1> DEFINE found == Unmaskable(pass[p].ask, answered, mot)
           s == [pass[p] EXCEPT !.pc = "marking", !.ask = @ \ found, !.found = @ \cup found]
<1>1. pass[p] \in Passing /\ found \subseteq mot
  BY DEF IInv, Unmaskable
<1>2. s \in Passing /\ s.pc = "marking" /\ s.found = pass[p].found \cup found
  <2>1. pass[p].ask \ found \in SUBSET Values /\ pass[p].found \cup found \in SUBSET Values
    BY <1>1 DEF Passing
  <2> HIDE DEF found
  <2> QED
    BY <1>1, <2>1 DEF Passing
<1>3. cleared' = cleared \cup mot /\ mot \subseteq Values
  BY <1>1 DEF Ask, Judges, Passing
<1>7. verdict' \in [Values -> {None, "missed", "upheld"}]
  BY DEF Ask, Judges, IInv, Stores
<1>4. s.found \subseteq cleared'
  BY <1>1, <1>2, <1>3 DEF IInv, Justified, PassJustified
<1>5. Justified' /\ pass' \in [Passes -> Passing]
  BY <1>2, <1>3, <1>4, GoesOn DEF Ask
<1>6. spent' \in 0 .. MaxEvents
  BY GazetteerAssumption DEF Ask, Spend, IInv, Stores
<1> QED
  BY <1>3, <1>5, <1>6, <1>7, HarmlessSame DEF Ask, IInv, Stores, Apart, queue

LEMMA MarkStep == ASSUME IInv, NEW p \in Passes, Mark(p) PROVE IInv' /\ Harmless
<1> DEFINE s == [pass[p] EXCEPT !.pc = "unmasking", !.ask = {}]
<1>1. pass[p] \in Passing
  BY DEF IInv
<1>2. s \in Passing /\ s.pc = "unmasking" /\ s.found = pass[p].found
  BY <1>1 DEF Passing
<1>3. Justified' /\ pass' \in [Passes -> Passing]
  BY <1>2, GoesOn DEF Mark, IInv, Justified, PassJustified
<1>4. judged' \subseteq Values
  BY <1>1 DEF Mark, IInv, Stores, Passing
<1> QED
  BY <1>3, <1>4, HarmlessSame DEF Mark, IInv, Stores, Apart, queue

LEMMA RemoveStep ==
    ASSUME IInv, NEW p \in Passes, NEW v \in Values, Remove(p, v)
    PROVE  IInv' /\ Harmless
<1> DEFINE s == [pass[p] EXCEPT !.pc = "freeing", !.found = @ \ {v}, !.value = v]
<1>1. pass[p] \in Passing /\ v \in cleared
  BY DEF Remove, IInv, Justified, PassJustified
<1>2. s \in Passing /\ s.value = v /\ s.found \subseteq pass[p].found
  <2>1. pass[p].found \ {v} \in SUBSET Values
    BY <1>1 DEF Passing
  <2> QED
    BY <1>1, <2>1 DEF Passing
<1>3. Justified' /\ pass' \in [Passes -> Passing]
  BY <1>1, <1>2, GoesOn DEF Remove, IInv, Justified, PassJustified
<1>4. Stores'
  BY RemoveEntryKeeps DEF Remove, IInv, Stores, queue
<1>5. Harmless
  BY <1>1, RemoveEntryKeeps DEF Remove, IInv, Harmless
<1> QED
  BY <1>3, <1>4, <1>5 DEF Remove, IInv, Apart, queue

LEMMA FreeStep == ASSUME IInv, NEW p \in Passes, Free(p) PROVE IInv' /\ Harmless
<1> DEFINE s == [pass[p] EXCEPT !.pc = "logging"]
<1>1. pass[p] \in Passing /\ pass[p].value \in cleared /\ pass[p].found \subseteq cleared
  BY DEF Free, On, IInv, Justified, PassJustified
<1>2. s \in Passing /\ s.value = pass[p].value /\ s.found = pass[p].found
  BY <1>1 DEF Passing
<1>3. Justified' /\ pass' \in [Passes -> Passing]
  <2>1. Goes(p, s) /\ UNCHANGED <<cleared, review>>
    BY DEF Free
  <2>2. s.found \subseteq cleared' /\ s.value \in cleared'
    BY <1>1, <1>2, <2>1
  <2> HIDE DEF s
  <2> QED
    BY <1>2, <2>1, <2>2, GoesOn
<1>4. Stores'
  <2>1. safe \cup {pass[p].value} \in SUBSET Values
    BY <1>1 DEF IInv, Stores
  <2> QED
    BY <2>1 DEF Free, AddSafe, IInv, Stores, queue
<1>5. Harmless
  BY <1>1 DEF Free, AddSafe, Harmless, Known
<1> QED
  BY <1>3, <1>4, <1>5 DEF Free, IInv, Apart, queue

LEMMA LogStep == ASSUME IInv, NEW p \in Passes, Log(p) PROVE IInv' /\ Harmless
<1> DEFINE s == [pass[p] EXCEPT !.pc = "unmasking", !.value = None]
<1>1. pass[p] \in Passing /\ pass[p].value \in cleared /\ pass[p].found \subseteq cleared
  BY DEF Log, On, IInv, Justified, PassJustified
<1>2. s \in Passing /\ s.pc = "unmasking" /\ s.found = pass[p].found
  BY <1>1 DEF Passing
<1>3. Justified' /\ pass' \in [Passes -> Passing]
  BY <1>1, <1>2, GoesOn DEF Log
<1>4. pending' \cap log' = {} /\ pending' \subseteq Values /\ log' \subseteq Values
  BY <1>1, QueueApart DEF Log, IInv, Apart, Stores
<1> QED
  BY <1>3, <1>4, HarmlessSame DEF Log, IInv, Stores, Apart

LEMMA RestStep == ASSUME IInv, NEW p \in Passes, Finish(p) \/ Kill(p) PROVE IInv' /\ Harmless
<1>1. Rest \in Passing /\ Rest.found = {} /\ Rest.pc = "idle"
  BY DEF Rest, Passing
<1>2. Justified' /\ pass' \in [Passes -> Passing]
  BY <1>1, GoesOn DEF Finish, Kill
<1>3. spent' \in 0 .. MaxEvents
  BY GazetteerAssumption DEF Finish, Kill, Spend, IInv, Stores
<1> QED
  BY <1>2, <1>3, HarmlessSame DEF Finish, Kill, IInv, Stores, Apart, queue

-----------------------------------------------------------------------------
(***************************************************************************)
(* The person and the tools                                                *)
(***************************************************************************)

LEMMA SpendOne == ASSUME IInv, Spend PROVE spent' \in 0 .. MaxEvents
BY GazetteerAssumption DEF Spend, IInv, Stores

\* The gazetteer and the queue are confirmed from what was loaded.
LEMMA ConfirmStep ==
    ASSUME IInv, NEW v \in Values, NEW t \in TypesOf[v], Confirm(v, t)
    PROVE  IInv' /\ Harmless
<1>1. review' \in Reviewing /\ review'.pc = "confirming" /\ review'.value = v
  BY DEF Confirm, Reviewing, IInv, Stores
<1>2. Justified' /\ pass' \in [Passes -> Passing]
  BY <1>1, PassesStay DEF Confirm
<1>3. Stores'
  BY AddEntryKeeps, SpendOne DEF Confirm, IInv, Stores, queue
<1>4. Harmless
  BY AddEntryKeeps DEF Confirm, IInv, Harmless
<1>5. Apart'
  BY DEF Confirm, IInv, Apart, queue
<1> QED
  BY <1>1, <1>2, <1>3, <1>4, <1>5 DEF IInv

LEMMA ConfirmEnds == IInv /\ (ConfirmUnsafe \/ ConfirmSave) => IInv' /\ Harmless
<1> SUFFICES ASSUME IInv, ConfirmUnsafe \/ ConfirmSave PROVE IInv' /\ Harmless
  OBVIOUS
<1>0. review \in Reviewing
  BY DEF IInv
<1>1. CASE ConfirmUnsafe
  <2>1. /\ review' \in Reviewing /\ review'.pc = "saving"
        /\ review'.pending = review.pending /\ review'.log = review.log
        /\ review'.value = review.value /\ review.value \in Values
    BY <1>0, <1>1 DEF ConfirmUnsafe, Reviewing, IInv
  <2>2. Justified' /\ pass' \in [Passes -> Passing]
    BY <1>1, <2>1, PassesStay DEF ConfirmUnsafe
  <2>3. Stores' /\ Apart'
    BY <1>1, <2>1 DEF ConfirmUnsafe, RemoveSafe, IInv, Stores, Apart, queue
  <2>4. Harmless
    BY <1>1 DEF ConfirmUnsafe, RemoveSafe, Harmless, Known
  <2> QED
    BY <2>1, <2>2, <2>3, <2>4 DEF IInv
<1>2. CASE ConfirmSave
  <2>1. review' \in Reviewing /\ review'.pc = "idle" /\ review'.pending = {} /\ review'.log = {}
    BY <1>2 DEF ConfirmSave, NoClick, Reviewing
  <2>2. Justified' /\ pass' \in [Passes -> Passing]
    BY <1>2, <2>1, PassesStay DEF ConfirmSave
  <2>3. pending' \subseteq Values /\ log' \subseteq Values /\ pending' \cap log' = {}
    <3>1. review.value \in Values
      BY <1>2 DEF ConfirmSave, IInv
    <3> QED
      BY <1>0, <1>2, <3>1 DEF ConfirmSave, IInv, Apart, Reviewing
  <2>4. Stores' /\ Apart'
    BY <1>2, <2>1, <2>3 DEF ConfirmSave, IInv, Stores, Apart
  <2> QED
    BY <1>2, <2>1, <2>2, <2>4, HarmlessSame DEF ConfirmSave, IInv
<1> QED
  BY <1>1, <1>2

LEMMA DismissStep ==
    ASSUME IInv, NEW v \in Values, Dismiss(v)
    PROVE  IInv' /\ Harmless
<1>1. review' = [NoClick EXCEPT !.pc = "dismissing", !.value = v]
  BY DEF Dismiss
<1>2. /\ review' \in Reviewing /\ review'.value = v
      /\ review'.pending = {} /\ review'.log = {}
  BY <1>1 DEF NoClick, Reviewing
<1>3. cleared' = cleared \cup {v}
  BY DEF Dismiss, Clears
<1>4. Justified' /\ pass' \in [Passes -> Passing]
  BY <1>2, <1>3, PassesStay DEF Dismiss
<1>5. pending' \cap log' = {} /\ pending' \subseteq Values /\ log' \subseteq Values
  BY QueueApart DEF Dismiss, IInv, Apart
<1>6. Stores' /\ Apart'
  BY <1>2, <1>3, <1>5, SpendOne DEF Dismiss, IInv, Stores, Apart
<1> QED
  BY <1>2, <1>4, <1>6, HarmlessSame DEF Dismiss, IInv

LEMMA DismissEnds == IInv /\ DismissSafe => IInv' /\ Harmless
<1> SUFFICES ASSUME IInv, DismissSafe PROVE IInv' /\ Harmless
  OBVIOUS
<1>1. review.value \in Values /\ review.value \in cleared
  BY DEF DismissSafe, IInv, Justified
<1>2. review' \in Reviewing /\ review'.pc = "idle" /\ review'.pending = {} /\ review'.log = {}
  BY DEF DismissSafe, NoClick, Reviewing
<1>3. Justified' /\ pass' \in [Passes -> Passing]
  BY <1>2, PassesStay DEF DismissSafe
<1>4. Stores' /\ Apart'
  BY <1>1, <1>2 DEF DismissSafe, AddSafe, IInv, Stores, Apart, queue
<1>5. Harmless
  BY <1>1 DEF DismissSafe, AddSafe, Harmless, Known
<1> QED
  BY <1>2, <1>3, <1>4, <1>5 DEF IInv

\* The acts of one step that leave the page as it is.
LEMMA ActStep ==
    ASSUME IInv, NEW v \in Values,
           \/ Feed(v) \/ Expire(v) \/ RemoveKnown(v) \/ MarkSafe(v)
           \/ \E t \in TypesOf[v] : AddKnown(v, t) \/ Seed(v, t)
    PROVE  IInv' /\ Harmless
<1>1. UNCHANGED <<pass, review, judged>>
  BY DEF Feed, Expire, RemoveKnown, MarkSafe, AddKnown, Seed
<1>2. cleared' = cleared \/ cleared' = cleared \cup {v}
  BY DEF Feed, Expire, RemoveKnown, MarkSafe, AddKnown, Seed, Clears
<1>3. Justified' /\ pass' \in [Passes -> Passing]
  BY <1>1, <1>2, PassesStay DEF IInv, Justified
<1>4. spent' \in 0 .. MaxEvents
  BY SpendOne DEF Feed, Expire, RemoveKnown, MarkSafe, AddKnown, Seed, IInv, Stores
<1>5. CASE Feed(v) \/ Expire(v)
  <2>1. pending' \cap log' = {} /\ pending' \subseteq Values /\ log' \subseteq Values
    BY <1>5, QueueApart DEF Feed, Expire, IInv, Apart
  <2> QED
    BY <1>1, <1>3, <1>4, <1>5, <2>1, HarmlessSame DEF Feed, Expire, IInv, Stores, Apart
<1>6. CASE RemoveKnown(v)
  <2>1. Stores'
    BY <1>2, <1>4, <1>6, RemoveEntryKeeps DEF RemoveKnown, IInv, Stores, queue
  <2>2. v \in cleared'
    BY <1>6 DEF RemoveKnown, Clears
  <2>3. Harmless
    BY <1>6, <2>2, RemoveEntryKeeps DEF RemoveKnown, IInv, Harmless
  <2> QED
    BY <1>1, <1>3, <1>6, <2>1, <2>3 DEF RemoveKnown, IInv, Apart, queue
<1>7. CASE MarkSafe(v)
  <2>1. Stores'
    BY <1>2, <1>4, <1>7 DEF MarkSafe, AddSafe, IInv, Stores, queue
  <2>2. Harmless
    BY <1>7 DEF MarkSafe, AddSafe, Clears, Harmless, Known
  <2> QED
    BY <1>1, <1>3, <1>7, <2>1, <2>2 DEF MarkSafe, IInv, Apart, queue
<1>8. ASSUME NEW t \in TypesOf[v], AddKnown(v, t) \/ Seed(v, t) PROVE IInv' /\ Harmless
  <2>0. AddEntry(v, t) /\ UNCHANGED <<safe, judged, queue, history>>
    BY <1>8 DEF AddKnown, Seed
  <2>1. Stores'
    BY <1>4, <2>0, AddEntryKeeps DEF IInv, Stores, queue
  <2>2. Harmless
    BY <2>0, AddEntryKeeps DEF IInv, Harmless
  <2> QED
    BY <1>1, <1>3, <2>0, <2>1, <2>2 DEF IInv, Apart, queue
<1> QED
  BY <1>5, <1>6, <1>7, <1>8

-----------------------------------------------------------------------------
(***************************************************************************)
(* The theorems                                                            *)
(***************************************************************************)

LEMMA NextIInv == IInv /\ Next => IInv' /\ Harmless
<1> SUFFICES ASSUME IInv, Next PROVE IInv' /\ Harmless
  OBVIOUS
<1>1. ASSUME NEW p \in Passes, PassStep(p) \/ Kill(p) PROVE IInv' /\ Harmless
  BY <1>1, LoadStep, AskStep, MarkStep, RemoveStep, FreeStep, LogStep, RestStep DEF PassStep
<1>2. ASSUME NEW v \in Values,
             \/ Dismiss(v) \/ Feed(v) \/ Expire(v) \/ RemoveKnown(v) \/ MarkSafe(v)
             \/ \E t \in TypesOf[v] : Confirm(v, t) \/ AddKnown(v, t) \/ Seed(v, t)
      PROVE  IInv' /\ Harmless
  BY <1>2, DismissStep, ActStep, ConfirmStep
<1>3. CASE ConfirmUnsafe \/ ConfirmSave \/ DismissSafe
  BY <1>3, ConfirmEnds, DismissEnds
<1> QED
  BY <1>1, <1>2, <1>3 DEF Next

LEMMA StutterIInv == IInv /\ UNCHANGED vars => IInv'
BY DEF IInv, Stores, Apart, Justified, PassJustified, vars, queue

THEOREM Invariance == Spec => []IInv
<1>1. IInv /\ [Next]_vars => IInv'
  BY NextIInv, StutterIInv
<1> QED
  BY <1>1, InitIInv, PTL DEF Spec

\* The stores and the processes have the shape the code gives them.
THEOREM TypeCorrect == Spec => []TypeOK
<1>1. IInv => TypeOK
  BY DEF IInv, Stores, TypeOK, Passing, Reviewing
<1> QED
  BY <1>1, Invariance, PTL

\* No item of the review queue is both waiting and resolved, although confirm
\* saves a queue that it loaded two steps before (review_queue.py).
THEOREM NeverAskedAgain == Spec => []ResolvedOnce
<1>1. IInv => ResolvedOnce
  BY DEF IInv, Apart, ResolvedOnce
<1> QED
  BY <1>1, Invariance, PTL

\* Whatever passes, persons and tools do at the same time, and wherever they
\* are cut off, a value leaves the gazetteer or enters the safe list only after
\* it was found harmless (depollute.py).
THEOREM FailsTowardMasking == Spec => NoSilentUnmask
<1>1. IInv /\ [Next]_vars =>
        [\A v \in {w \in Known : gaz'[w] = None} \cup (safe' \ safe) : v \in cleared']_vars
  BY NextIInv DEF Harmless
<1> QED
  BY <1>1, Invariance, PTL DEF Spec, NoSilentUnmask
=============================================================================
