------------------------------- MODULE Engine -------------------------------
(***************************************************************************)
(* One call of anonymize: the text is masked by what the detectors find,   *)
(* its output is scanned again and masked, up to three times, and a        *)
(* verdict says whether it may be sent.  The neural detector may hear a    *)
(* name in one scan and miss it in another.                                *)
(***************************************************************************)
EXTENDS Recognizers

CONSTANTS
    Documents,      \* the documents: sequences of words
    Files,          \* their files' names, sequences of words
    Heard, Score,   \* the names that the neural detector may hear, and how sure it is
    Known,          \* the words of the known-PII gazetteer
    Phrase, Org,    \* the allowlist: phrases, and short names of organisations
    SafeWord,       \* common words and words a reviewer marked safe
    Cue, Threshold, \* words near which a detection is surer; how sure one has to be
    Several         \* [cells that are several words -> how many]

\* Documents are sequences of words; words and types have lengths; no two tokens are the same.
ASSUME EngineAssumption ==
    /\ \A d \in Documents : d \in Seq(STRING) /\ \A i \in 1..Len(d) : Len(d[i]) \in Nat
    /\ \A type \in {"NOM", "SIREN", "IBAN", "NUM_FISCAL", "MONTANT", "DATE_NAISSANCE",
                     "LIEU_NAISSANCE", "PIECE_IDENTITE", "ADRESSE", "RAISON_SOCIALE"} : Len(type) \in Nat
    /\ Score \in Nat
    /\ Token \in Seq(STRING) /\ \A i, j \in 1..Len(Token) : Token[i] = Token[j] => i = j

VARIABLES
    doc, file,      \* the document; the words of its file's name that may be a person's
    text, vault,    \* what has become of it; the tokens: a sequence of [type, value]
    entities,       \* what has been masked
    heard,          \* what the neural detector heard in the document
    residual,       \* what the last scan found
    scans,          \* scans of the output so far
    at              \* "mask", "scan" or "done"

vars == <<doc, file, text, vault, entities, heard, residual, scans, at>>

Cells(d) == [i \in 1..Len(d) |-> Cell(d[i], Len(d[i]), i)]

Init ==
    /\ doc \in Documents /\ file \in {FileWords(n) : n \in Files}
    /\ text = Cells(doc) /\ vault = <<>> /\ entities = {}
    /\ heard = {} /\ residual = {} /\ scans = 0 /\ at = "mask"
-----------------------------------------------------------------------------
(* Detection.                                                              *)

\* The neural detector reports a name once, wherever it stands.
Hearings(T) ==
    {N \in SUBSET {Here(T, i, i + 1, "NOM", Score, 5) : i \in {j \in 1..Len(T) : T[j].w \in Heard}} :
        \A a, b \in N : a.value = b.value => a = b}

KnownNames(T) ==
    {Here(T, i, i + 1, "NOM", 100, 3) : i \in {j \in 1..Len(T) : T[j].w \in Known}}

Raw(T, N) == Core(T) \cup Structured(T, file) \cup KnownNames(T) \cup N

\* Mutant: what the neural detector found is not sought elsewhere.
KnownSweep(T, kept) ==
    LET names == UNION {ToSet(m.value) : m \in {x \in kept : x.type = "NOM" /\ x.pri < 5}}
    IN {Here(T, i, i + 1, "NOM", 90, 40) : i \in {j \in 1..Len(T) : T[j].w \in names}}

\* A name that a soft detector found is sought in the whole text.
Sweep(T, kept) ==
    LET names == UNION {ToSet(m.value) : m \in {x \in kept : x.type = "NOM" /\ x.pri <= 5}}
    IN {Here(T, i, i + 1, "NOM", 90, 40) : i \in {j \in 1..Len(T) : T[j].w \in names}}

Detect(T, N) == LET kept == Resolve(T, Raw(T, N)) IN Resolve(T, kept \cup Sweep(T, kept))

\* A detection is surer with a cue at most 40 characters away from it.
Boost(T, ms) ==
    LET Near(m, k) == /\ T[k].w \in Cue
                      /\ Chars(T, 1, k) >= Chars(T, 1, m.s) - 40
                      /\ Chars(T, 1, k + 1) <= Chars(T, 1, m.e) + 40
    IN {IF m.type \notin {"SIREN", "IBAN"} /\ \E k \in 1..Len(T) : Near(m, k)
        THEN [m EXCEPT !.score = Min({100, @ + 25})] ELSE m : m \in ms}
-----------------------------------------------------------------------------
(* What is detected and yet left in clear.                                 *)

Within(u, v) == \E i \in 1..(Len(v) + 1 - Len(u)) : SubSeq(v, i, i + Len(u) - 1) = u

Allowlisted(v) ==
    LET u == SelectSeq(v, NotEol) IN
    \/ \E p \in Phrase : Within(p, u) \/ Within(u, p)
    \/ \E o \in Org : o \in ToSet(u) /\ ToSet(u) \cap NameWord = {o}

\* What the gazetteer knows is exempt from all the lists.
Masked(m) ==
    /\ m.type # "MONTANT"
    /\ \/ \E k \in Known : m.value = <<k>>
       \/ /\ ~Allowlisted(m.value)
          /\ m.type = "NOM" => \A w \in SafeWord : m.value # <<w>>

\* A match that is one of the tokens is nothing to be masked.
IsToken(T, m) == m.e = m.s + 1 /\ T[m.s].w \in ToSet(Token)

Residual(T, N) == {m \in Detect(T, N) : ~IsToken(T, m) /\ Masked(m)}
-----------------------------------------------------------------------------
(* Masking.                                                                *)

\* The number of the token of a value, the next one for a new value.
TokenFor(vt, m) ==
    LET e == [type |-> m.type, value |-> m.value]
    IN Min({i \in 1..Len(vt) : vt[i] = e} \cup {Len(vt) + 1})

Put(m, s) ==
    LET i == TokenFor(s.vault, m) IN
    [text |-> SubSeq(s.text, 1, m.s - 1) \o <<Cell(Token[i], Len(m.type) + 7, 0)>>
              \o SubSeq(s.text, m.e, Len(s.text)),
     vault |-> IF i > Len(s.vault) THEN Append(s.vault, [type |-> m.type, value |-> m.value])
               ELSE s.vault]

\* Mutant: from the start of the text.
ApplyForward(ms) ==
    LET Rightmost(x) == CHOOSE m \in x : \A y \in x : m.s >= y.s
        s == MapThenFoldSet(Put, [text |-> text, vault |-> vault], LAMBDA m : m, Rightmost, ms)
    IN text' = s.text /\ vault' = s.vault /\ entities' = entities \cup ms

\* From the end of the text, so that what stands before keeps its place.
Apply(ms) ==
    LET Leftmost(x) == CHOOSE m \in x : \A y \in x : m.s <= y.s
        s == MapThenFoldSet(Put, [text |-> text, vault |-> vault], LAMBDA m : m, Leftmost, ms)
    IN text' = s.text /\ vault' = s.vault /\ entities' = entities \cup ms

\* Mutant: the output is not scanned.
MaskOnly ==
    /\ at = "mask" /\ at' = "done"
    /\ \E N \in Hearings(text) :
          /\ heard' = N
          /\ Apply({m \in Boost(text, Detect(text, N)) : Masked(m)})
    /\ UNCHANGED <<doc, file, residual, scans>>

Mask ==
    /\ at = "mask" /\ at' = "scan"
    /\ \E N \in Hearings(text) :
          /\ heard' = N
          /\ Apply({m \in Boost(text, Detect(text, N)) : Masked(m)})
    /\ UNCHANGED <<doc, file, residual, scans>>

\* The output is scanned, and masked again if something is found.
Rescan ==
    /\ at = "scan" /\ scans < 3 /\ scans' = scans + 1
    /\ \E N \in Hearings(text) :
          LET r == Residual(text, N) IN
          /\ residual' = r
          /\ at' = IF r = {} THEN "done" ELSE "scan"
          /\ Apply(r)
    /\ UNCHANGED <<doc, file, heard>>

\* After three scans that found something the fourth only looks.
LastScan ==
    /\ at = "scan" /\ scans = 3 /\ at' = "done"
    /\ \E N \in Hearings(text) : residual' = Residual(text, N)
    /\ UNCHANGED <<doc, file, text, vault, entities, heard, scans>>

Next == Mask \/ Rescan \/ LastScan

Spec == Init /\ [][Next]_vars
-----------------------------------------------------------------------------
(* The verdict, and the way back.                                          *)

ZeroDetection ==
    /\ entities = {} /\ residual = {}
    /\ FoldSeq(LAMBDA w, n : n + (CASE w \in {"nl", ":"} -> 0
                                    [] w \in DOMAIN Several -> Several[w]
                                    [] OTHER -> 1), 0, doc) >= 8
    /\ Chars(Cells(doc), 1, Len(doc) + 1) > 40

SafeToSend ==
    /\ at = "done" /\ residual = {} /\ ~ZeroDetection
    /\ \A m \in entities : m.score >= Threshold

\* Every token is replaced by its value, once.
Restore(T) ==
    FlattenSeq([i \in 1..Len(T) |->
                   IF T[i].w \in ToSet(Token)
                   THEN vault[CHOOSE k \in DOMAIN Token : Token[k] = T[i].w].value
                   ELSE <<T[i].w>>])
-----------------------------------------------------------------------------
(* Properties.                                                             *)

TypeOK ==
    /\ doc \in Documents /\ Len(vault) <= Len(Token)
    /\ \A m \in entities \cup heard \cup residual : m.s < m.e /\ m.e <= Len(doc) + 1
    /\ \A k \in 1..Len(text) : text[k].w \in ToSet(Token) \/ text[k].w = doc[text[k].at]
    /\ scans \in 0..3 /\ at \in {"mask", "scan", "done"}

InClear(p) == \E k \in 1..Len(text) : text[k].at = p

\* What is found in the document; whether a and b overlap, neither inside the other.
Found == Raw(Cells(doc), heard)
Cross(a, b) == Overlap(a, b) /\ ~Inside(a.s, a.e, {b}) /\ ~Inside(b.s, b.e, {a})
Covers(m, p) == p \in m.s..(m.e - 1)

\* What may be sent is what was scanned: nothing is masked any more after the
\* scan that found nothing, not even by that scan.
ScannedClean == SafeToSend => \E N \in Hearings(text) : Residual(text, N) = {}

\* The text that leaves with a good verdict is what the last scan found clean
\* (AnonymizationEngine.anonymize, its loop of residual scans), and has nothing
\* that the detectors would still find without the neural one, but where a name
\* that this one heard and the safe list lets pass took the place of a detection of
\* another type.
SafeIsClean ==
    /\ ScannedClean
    /\ SafeToSend => \A m \in Residual(text, {}) :
           m.type # "NOM" /\ \E w \in Heard \cap SafeWord : m.value = <<w>>

\* No part of what any detector found stays in clear, whichever detections won
\* the overlaps, but where two of them cross or where the lists drop the one
\* that covers it: a detection, or a heard name that is sought in the whole text
\* (resolve_overlaps: "a longer match of two wins").
DetectedIsMasked ==
    LET swept == Sweep(Cells(doc), Resolve(Cells(doc), Found)) IN
    at = "done" => \A m \in Found : \A p \in m.s..(m.e - 1) :
        InClear(p) /\ NotEol(doc[p]) =>
            \/ \E k \in Found \cup swept : Covers(k, p) /\ ~Masked(k)
            \/ \E k \in Found : Cross(k, m)

\* A text without tokens, whose masked values are what stood there, none with a
\* token inside, is given back by deanonymize word for word (the masks are put
\* from the end, so that none moves the place of another), while the tokens last.
RestoresText ==
    (/\ Len(vault) <= Len(Token) /\ ToSet(doc) \cap ToSet(Token) = {}
     /\ \A m \in entities : Len(m.value) = m.e - m.s /\ ToSet(m.value) \cap ToSet(Token) = {})
    => Restore(text) = doc

\* A name that the neural detector reports once is masked wherever the document
\* has it, but where the lists drop a detection that covers it (profile_sweep).
HeardEverywhere ==
    at = "done" => \A m \in Resolve(Cells(doc), Found) \cap heard : \A p \in 1..Len(doc) :
        InClear(p) /\ <<doc[p]>> = m.value => ~Masked(m) \/ \E k \in Found : Covers(k, p) /\ ~Masked(k)

\* Every value of the known-PII gazetteer is masked in a text that may be sent.
KnownMasked == SafeToSend => \A p \in 1..Len(doc) : doc[p] \in Known => ~InClear(p)
=============================================================================
