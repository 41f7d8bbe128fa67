---------------------------- MODULE Recognizers ----------------------------
(***************************************************************************)
(* What the deterministic detectors find in a text: the recognizers of     *)
(* recognizers.py, the form detectors of structured_ext.py with their      *)
(* passes over the whole document, and the choice among overlapping        *)
(* matches.  A text is a sequence of cells, each one whole word, number,   *)
(* label or token, or the end of a line; one blank stands between words.   *)
(***************************************************************************)
EXTENDS Integers, FiniteSets, SequencesExt

CONSTANTS
    Token,          \* the names of the vault's tokens, in the order they are minted
    Title, NameWord, Caps,      \* civilities; capitalised words; words in capitals
    Forename, Homograph,        \* the gazetteer, and its forenames that are words too
    Forme, Prefix, Role,        \* SELARL..., what may stand before a person in a company, roles
    CommonSurname, Placeholder,
    Date, Postcode, Amount, IdNumber,
    Siren, Iban, Fiscal,    \* numbers with a checksum: [word -> its digits, a letter of an IBAN one number]
    FileStop        \* words of file names that name no person

\* A cell: its word, the characters of it, where it stood in the document.
Cell(w, n, at) == [w |-> w, n |-> n, at |-> at]
Words(T, s, e) == [k \in 1..(e - s) |-> T[s + k - 1].w]
NotEol(w) == w # "nl"

Eol(T, i) == Min({j \in i..Len(T) : T[j].w = "nl"} \cup {Len(T) + 1})
LineStart(T, i) == i = 1 \/ T[i - 1].w = "nl"
SameLine(T, i, j) == \A k \in i..j : NotEol(T[k].w)

\* Characters before cell i, and of the cells s to e - 1.
Chars(T, s, e) == FoldFunction(+, 0, [k \in s..(e - 1) |-> IF NotEol(T[k].w) THEN T[k].n + 1 ELSE 0])

\* A match of cells s to e - 1.  The value need not be what the cells say.
Match(T, s, e, type, value, score, pri) ==
    [s |-> s, e |-> e, type |-> type, value |-> value, score |-> score, pri |-> pri]
Here(T, s, e, type, score, pri) == Match(T, s, e, type, Words(T, s, e), score, pri)
Inside(s, e, ms) == \E m \in ms : m.s <= s /\ e <= m.e

\* The end of the run of at most n words of W that begins at i.
RunEnd(T, i, W, n) ==
    Max({e \in i..(i + n) : e <= Len(T) + 1 /\ \A k \in i..(e - 1) : T[k].w \in W} \cup {i})

\* Where a pattern is found from left to right: end[i] is the end of the match
\* that begins at i, at most i when there is none.
FindIter(end) ==
    FoldLeft(LAMBDA f, i : IF f.next <= i /\ end[i] > i
                           THEN [next |-> end[i], at |-> f.at \cup {i}] ELSE f,
             [next |-> 1, at |-> {}], [i \in 1..Len(end) |-> i]).at

\* The first cell of the next word, line ends skipped.
NextWord(T, i) == Min({j \in (i + 1)..Len(T) : NotEol(T[j].w)} \cup {Len(T) + 1})
-----------------------------------------------------------------------------
(* The recognizers.                                                        *)

\* The checksums.
LuhnOk(d) ==
    LET Part(i) == IF (Len(d) - i) % 2 = 0 THEN d[i] ELSE IF d[i] < 5 THEN 2 * d[i] ELSE 2 * d[i] - 9
    IN FoldFunction(+, 0, [i \in 1..Len(d) |-> Part(i)]) % 10 = 0
Mod97(d) == FoldLeft(LAMBDA r, x : ((IF x < 10 THEN 10 ELSE 100) * r + x) % 97, 0, d)
IbanOk(d) == Mod97(SubSeq(d, 5, Len(d)) \o SubSeq(d, 1, 4)) = 1
FiscalOk(d) == 97 - Mod97(SubSeq(d, 1, 11)) = 10 * d[12] + d[13]

\* Numbers: one whose checksum fails is unsure, or no match at all.
Numbers(T) ==
    LET At(W, type, Score(_), pri) ==
            {Here(T, i, i + 1, type, Score(T[i].w), pri) : i \in {j \in 1..Len(T) : T[j].w \in W}}
    IN At(DOMAIN Siren, "SIREN", LAMBDA w : IF LuhnOk(Siren[w]) THEN 100 ELSE 40, 80)
       \cup At(DOMAIN Iban, "IBAN", LAMBDA w : IF IbanOk(Iban[w]) THEN 100 ELSE 50, 95)
       \cup At({w \in DOMAIN Fiscal : FiscalOk(Fiscal[w])}, "NUM_FISCAL", LAMBDA w : 100, 87)
       \cup At(Amount, "MONTANT", LAMBDA w : 100, 60)

\* A first word of W with one to n name words after it.
NamedEnd(T, i, W, n) ==
    IF T[i].w \in W /\ RunEnd(T, i + 1, NameWord, n) > i + 1 THEN RunEnd(T, i + 1, NameWord, n) ELSE 0

Named(T, W, n, pri) ==
    LET End(i) == NamedEnd(T, i, W, n)
    IN {Here(T, i, End(i), "NOM", 100, pri) : i \in FindIter([j \in 1..Len(T) |-> End(j)])}

\* A forename that is also a word needs a civility before it on its line.
TitleNearby(T, i) == \E k \in 1..(i - 1) : T[k].w \in Title /\ SameLine(T, k, i)

Core(T) ==
    Named(T, Title, 4, 50) \cup Named(T, Forename, 3, 45)
    \cup {m \in Named(T, Homograph, 3, 45) : TitleNearby(T, m.s)}
    \cup Numbers(T)
    \cup {Here(T, i, i + 1, "DATE_NAISSANCE", 100, 72) :
             i \in {j \in 2..Len(T) : T[j].w \in Date /\ T[j - 1].w = "ne le"}}
-----------------------------------------------------------------------------
(* The detectors of forms.                                                 *)

Birthplaces(T) ==
    LET Place(i) == NextWord(T, i)
        \* up to four words in capitals, line ends between them or not
        End(i) == Max({e \in (Place(i) + 1)..(Len(T) + 1) :
                          /\ \A k \in Place(i)..(e - 1) : T[k].w \in Caps \cup {"nl"}
                          /\ T[e - 1].w \in Caps
                          /\ Cardinality({k \in Place(i)..(e - 1) : T[k].w \in Caps}) <= 4} \cup {0})
    IN {Here(T, Place(i), End(i), "LIEU_NAISSANCE", 85, 58) :
           i \in {j \in 1..Len(T) : T[j].w \in Date /\ End(j) > 0}}

\* The name after a civility, on the line or, for a civility alone on its line,
\* on the next one.
CivilityNames(T) ==
    LET End(i) == NamedEnd(T, i, Title, 3)
        Alone(i) == T[i].w \in Title /\ LineStart(T, i) /\ i < Len(T) /\ T[i + 1].w = "nl"
        Next(i) == RunEnd(T, i + 2, NameWord, 3)
    IN {Here(T, i + 1, End(i), "NOM", 90, 56) : i \in FindIter([j \in 1..Len(T) |-> End(j)])}
       \cup {Here(T, i + 2, Next(i), "NOM", 90, 56) :
                i \in {j \in 1..Len(T) : Alone(j) /\ Next(j) > j + 2}}

\* The value after a label and a colon, up to the end of the line.
Labelled(T, label) ==
    {i \in 3..Len(T) :
        /\ T[i - 2].w = label /\ T[i - 1].w = ":" /\ NotEol(T[i].w)
        /\ Words(T, i, Eol(T, i)) \notin {<<p>> : p \in Placeholder}}
LabelLines(T, label) == {i \in Labelled(T, label) : LineStart(T, i - 2)}

FormNames(T) == {Here(T, i, Eol(T, i), "NOM", 88, 57) : i \in LabelLines(T, "Nom")}
FormPlaces(T) ==
    {Here(T, i, Eol(T, i), "LIEU_NAISSANCE", 88, 57) : i \in Labelled(T, "lieu de naissance")}

\* The number behind "Passeport", "Passeport no".
Pieces(T) ==
    LET first(i) == IF i < Len(T) /\ T[i + 1].w = "no" THEN i + 2 ELSE i + 1
        End(i) == RunEnd(T, first(i), IdNumber, 1)
    IN {Here(T, first(i), End(i), "PIECE_IDENTITE", 90, 59) :
           i \in {j \in 1..Len(T) : T[j].w = "Passeport" /\ End(j) > first(j)}}

CommunePostcodes(T) ==
    LET End(i) == LET e == RunEnd(T, i, NameWord, 6)
                  IN IF e > i /\ e <= Len(T) /\ T[e].w \in Postcode THEN e + 1 ELSE 0
    IN {Here(T, i, End(i), "ADRESSE", 85, 56) : i \in FindIter([j \in 1..Len(T) |-> End(j)])}

\* SELARL SELARL X is taken for SELARL X.
Canonical(v) ==
    LET k == Min({j \in 2..Len(v) : NotEol(v[j])} \cup {Len(v)})
    IN IF k < Len(v) /\ v[1] \in Forme /\ v[k] = v[1] THEN SubSeq(v, k, Len(v)) ELSE v

FormCompanies(T) ==
    {Match(T, i, Eol(T, i), "RAISON_SOCIALE", Canonical(Words(T, i, Eol(T, i))), 90, 59) :
        i \in LabelLines(T, "Denomination")}

\* A legal form and words in capitals after it, on the same line or the next ones.
CompanyHeads(T) ==
    LET End(i) == IF T[i].w \in Forme
                  THEN Max({e \in (i + 2)..(Len(T) + 1) :
                               /\ \A k \in (i + 1)..(e - 1) : T[k].w \in Caps \cup {"nl"}
                               /\ T[e - 1].w \in Caps} \cup {0})
                  ELSE 0
        TypeLine(i) == \E k \in 1..(i - 2) :
                           T[k].w = "Type" /\ T[k + 1].w = ":" /\ SameLine(T, k, i)
    IN {Match(T, i, End(i), "RAISON_SOCIALE", Canonical(Words(T, i, End(i))), 82, 57) :
           i \in {j \in FindIter([j \in 1..Len(T) |-> End(j)]) : ~TypeLine(j)}}

\* The other places where the words v stand.
Repeats(T, v, ms) ==
    {i \in 1..(Len(T) + 1 - Len(v)) : Words(T, i, i + Len(v)) = v /\ ~Inside(i, i + Len(v), ms)}

CompanyRepetitions(T, ms) ==
    LET names == {m.value : m \in {x \in ms : x.type = "RAISON_SOCIALE"}} \ {<<f>> : f \in Forme}
    IN UNION {{Match(T, i, i + Len(v), "RAISON_SOCIALE", v, 88, 59) : i \in Repeats(T, v, ms)} :
                 v \in names}

\* The span is the whole value, the value that is kept has no role.
Signatories(T) ==
    LET Value(i) == Words(T, i, Eol(T, i))
        Bare(v) == IF Len(v) > 1 /\ v[1] \in Role THEN Tail(v) ELSE v
    IN {Match(T, i, Eol(T, i), "NOM", Bare(Value(i)), 90, 58) : i \in LabelLines(T, "Signataire")}
-----------------------------------------------------------------------------
(* Persons that the document names somewhere are sought everywhere.        *)

\* The words of a file's name that may be a person's.
FileWords(name) == ToSet(name) \ (FileStop \cup Forme \cup Prefix)

\* A footer quotes the name of the file: the words of it are masked there.
Footers(T, file) ==
    LET Fragment(i) == NextWord(T, i)
    IN UNION {{Here(T, k, k + 1, "NOM", 87, 58) :
                  k \in {j \in Fragment(i)..(Eol(T, Fragment(i)) - 1) : T[j].w \in file}} :
                 i \in {j \in 1..Len(T) : T[j].w = "au document" /\ Fragment(j) <= Len(T)}}

\* A value in capitals: a word that has other letters is then no word of the text.
Upper(v) ==
    [k \in 1..Len(v) |-> IF v[k] \in Caps \cup ToSet(Token) \cup Prefix THEN v[k] ELSE "?"]
Lettered(v) == SelectSeq(v, LAMBDA w : NotEol(w) /\ w # ":" /\ 
    w \notin Date \cup Amount \cup DOMAIN Siren \cup DOMAIN Fiscal)

\* The words of a company's name behind the legal form, particles and honorifics.
Person(v) ==
    LET u == Lettered(v)
        k == Min({j \in 1..Len(u) : u[j] \notin Prefix} \cup {Len(u) + 1})
    IN SubSeq(u, k, Len(u))

\* What is sought for a name: its first two words in either order, and every
\* word that is no ordinary one (which a sure source need not care about).
Seeds(v, sure) ==
    LET u == Upper(v) IN
    (IF Len(u) > 1 THEN {<<u[1], u[2]>>, <<u[2], u[1]>>} ELSE {})
    \cup {<<w>> : w \in {x \in ToSet(u) : x \notin Prefix /\ (sure \/ x \notin CommonSurname)}}

\* A word of the file's name counts if a detector other than the footer found it.
Corroborated(ms, footers, file) ==
    {w \in file : \E m \in ms : /\ m.type = "NOM" /\ w \in ToSet(m.value)
                                /\ \A f \in footers : <<f.s, f.e>> # <<m.s, m.e>>}

PersonRepetitions(T, ms, footers, file) ==
    LET seeds == {<<w>> : w \in Corroborated(ms, footers, file)}
                 \cup UNION {Seeds(Person(m.value), TRUE) : m \in {x \in ms : x.type = "RAISON_SOCIALE"}}
                 \cup UNION {Seeds(Lettered(m.value), FALSE) :
                                m \in {x \in ms : x.type = "NOM" /\ Len(Lettered(x.value)) > 1}}
        Sought(n, known) ==
            UNION {{Here(T, i, i + n, "NOM", 88, 58) : i \in Repeats(T, v, known)} :
                      v \in {x \in seeds : Len(x) = n}}
        pairs == Sought(2, ms)
    IN pairs \cup Sought(1, ms \cup pairs)

Forms(T) ==
    LET forms == Birthplaces(T) \cup CivilityNames(T) \cup FormNames(T) \cup FormPlaces(T)
                 \cup Pieces(T) \cup CommunePostcodes(T) \cup FormCompanies(T) \cup CompanyHeads(T)
    IN forms \cup CompanyRepetitions(T, forms) \cup Signatories(T)

Structured(T, file) ==
    LET footers == Footers(T, file)
        found == Forms(T) \cup footers
    IN found \cup PersonRepetitions(T, found, footers, file)
-----------------------------------------------------------------------------
(* Overlaps: the longest match is taken first, then the surest, then the   *)
(* one of the highest priority; what overlaps one that was taken is        *)
(* dropped as a whole.                                                     *)

Overlap(a, b) == a.s < b.e /\ b.s < a.e

\* Mutant: the surest match is taken first.
SurerBefore(T, a, b) ==
    LET la == Chars(T, a.s, a.e) lb == Chars(T, b.s, b.e) IN
    \/ a.score > b.score
    \/ a.score = b.score /\ la > lb
    \/ a.score = b.score /\ la = lb /\ a.pri > b.pri
    \/ a.score = b.score /\ la = lb /\ a.pri = b.pri /\ a.s < b.s

Before(T, a, b) ==
    LET la == Chars(T, a.s, a.e) lb == Chars(T, b.s, b.e) IN
    \/ la > lb
    \/ la = lb /\ a.score > b.score
    \/ la = lb /\ a.score = b.score /\ a.pri > b.pri
    \/ la = lb /\ a.score = b.score /\ a.pri = b.pri /\ a.s < b.s

Resolve(T, raw) ==
    LET Worst(ms) == CHOOSE m \in ms : \A x \in ms : ~Before(T, m, x)
        Add(m, kept) == IF \E k \in kept : Overlap(k, m) THEN kept ELSE kept \cup {m}
    IN MapThenFoldSet(Add, {}, LAMBDA m : m, Worst, raw)
=============================================================================
