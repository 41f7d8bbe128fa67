--------------------------- MODULE VaultSessions ---------------------------
(***************************************************************************)
(* The vault file of one mission and the processes that share it: the MCP  *)
(* servers, the hooks and the sweep, which anonymise documents, and the    *)
(* local web application, which corrects and erases.  Each loads the file, *)
(* works on its own Vault object and saves it; nothing locks the file.     *)
(***************************************************************************)
EXTENDS VaultOps, FiniteSets

CONSTANTS
    Procs,       \* the processes of the installation
    Scenes,      \* what may be going on: one of these is, throughout a behaviour
    Absent,      \* no such file
    Torn,        \* a file opened for writing and not completely written
    Erased,      \* what an erased token stands for
    MaxPerDoc    \* bound: tokens in one document

\* A scene: the processes that work at the same time, the values and types
\* their documents hold, whether gemma_mode is not "off" (the second pass runs
\* on documents), whether the web application corrects and erases, and the
\* bound on the tokens minted, those of the document in hand included.
Scene == [procs : SUBSET Procs, values : SUBSET Value, types : SUBSET Type,
          gemma : BOOLEAN, edits : BOOLEAN, tokens : Nat]

ASSUME SessionsAssumption ==
    /\ \A s \in Scenes : s \in Scene
    /\ IsFiniteSet(Procs)
    /\ Erased \notin Value
    /\ MaxPerDoc \in Nat

VARIABLES
    file,    \* <mission>.vault.json
    tmp,     \* <mission>.vault.tmp, one name for every process
    pc,      \* where each process is
    mem,     \* its Vault object
    page,    \* the document it masks: the pairs <<token, value>> it holds
    edit,    \* what its edit does: token -> the value it will stand for
    scene,   \* which of the scenes this is; never changes
    docs,    \* observed: pairs <<token, value>> of the documents returned
    issued   \* observed: every token the file ever held

vars == <<file, tmp, pc, mem, page, edit, scene, docs, issued>>

\* A writer holds an open file.  When another process renames it, the writer
\* goes on writing to the same file, under its new name or under none.
Phases == {"idle", "masking", "opening", "writing tmp", "writing file",
           "writing unlinked", "replacing", "saved"}

NoEdit == EmptyDict

Init ==
    /\ file = Absent /\ tmp = Absent
    /\ pc = [p \in Procs |-> "idle"]
    /\ mem = [p \in Procs |-> EmptyVault]
    /\ page = [p \in Procs |-> {}]
    /\ edit = [p \in Procs |-> NoEdit]
    /\ scene \in Scenes
    /\ docs = {} /\ issued = {}

Goto(p, phase) == pc' = [pc EXCEPT ![p] = phase]

\* The process ends, or its call raises: what it had in memory is gone.
Reset(p) ==
    /\ Goto(p, "idle")
    /\ mem'  = [mem EXCEPT ![p] = EmptyVault]
    /\ page' = [page EXCEPT ![p] = {}]
    /\ edit' = [edit EXCEPT ![p] = NoEdit]

\* Mutant: the file is not loaded.
OpenedNew == EmptyVault

\* Vault.load, or a new Vault when there is no file.  Loading a torn file
\* raises, so the call does nothing.
Opened == IF file = Absent THEN EmptyVault ELSE file

-----------------------------------------------------------------------------
(***************************************************************************)
(* Masking a document: _anonymise_text and the post-tool hook              *)
(***************************************************************************)

Open(p) ==
    /\ pc[p] = "idle" /\ file # Torn
    /\ mem' = [mem EXCEPT ![p] = Opened]
    /\ Goto(p, "masking")
    /\ UNCHANGED <<file, tmp, page, edit, docs, issued>>

\* Mask one more value of the document with the process's own vault.
MaskWith(p, v, t) ==
    LET tok == TokenFor(mem[p], v, t) IN
    /\ Cardinality(page[p]) < MaxPerDoc
    /\ HasToken(mem[p], v, t) \/ Cardinality(issued \cup DOMAIN mem[p].toValue) < scene.tokens
    /\ page' = [page EXCEPT ![p] = @ \cup {<<tok, v>>}]
    /\ mem'  = [mem EXCEPT ![p] = AfterTokenFor(@, v, t)]
    /\ UNCHANGED <<file, tmp, pc, edit, docs, issued>>

MaskValue(p, v, t) == pc[p] = "masking" /\ MaskWith(p, v, t)

\* The fast pass is over: engine.vault.save starts.
StartSave(p) ==
    /\ pc[p] = "masking"
    /\ Goto(p, "opening")
    /\ UNCHANGED <<file, tmp, mem, page, edit, docs, issued>>

\* The second pass masks a value the fast pass missed.  It works on the
\* vault that was saved before, and does not save it again.
GemmaMask(p, v, t) ==
    /\ scene.gemma /\ pc[p] = "saved"
    /\ v \notin {d[2] : d \in page[p]}
    /\ MaskWith(p, v, t)

\* The masked text goes to the agent, or into a shadow.
Return(p) ==
    /\ pc[p] = "saved"
    /\ docs' = docs \cup page[p]
    /\ Reset(p)
    /\ UNCHANGED <<file, tmp, issued>>

\* Killed at any point, or refused by a gate (MaskingIncompleteError before
\* the save; ZeroDetectionError, StructuredFormUnverifiedError after it).
Abort(p) ==
    /\ pc[p] # "idle"
    /\ Reset(p)
    /\ UNCHANGED <<file, tmp, docs, issued>>

-----------------------------------------------------------------------------
(***************************************************************************)
(* Vault.save: write the temporary file, then replace the vault file       *)
(***************************************************************************)

\* What the pairs of a document should be once edit e is in the file.
Amend(pairs, e) ==
    {d \in pairs : d[1] \notin DOMAIN e} \cup
    {<<d[1], e[d[1]]>> : d \in {x \in pairs : x[1] \in DOMAIN e /\ e[x[1]] # Erased}}

\* write_text truncates the file it opens...
OpenTmp(p) ==
    /\ pc[p] = "opening"
    /\ tmp' = Torn
    /\ Goto(p, "writing tmp")
    /\ UNCHANGED <<file, mem, page, edit, docs, issued>>

\* ... and then writes the whole vault.  When another process wrote to it in
\* between, what is left of the longer text may follow the shorter one.
Written(old, new) == IF old = Torn THEN {new} ELSE {new, Torn}

WriteTmp(p) ==
    /\ \/ /\ pc[p] = "writing tmp"
          /\ tmp' \in Written(tmp, mem[p])
          /\ UNCHANGED <<file, issued>>
       \/ /\ pc[p] = "writing file"
          /\ file' \in Written(file, mem[p])
          /\ issued' = issued \cup (IF file' = Torn THEN {} ELSE DOMAIN mem[p].toValue)
          /\ UNCHANGED tmp
       \/ pc[p] = "writing unlinked" /\ UNCHANGED <<file, tmp, issued>>
    /\ Goto(p, "replacing")
    /\ UNCHANGED <<mem, page, edit, docs>>

\* What a rename of the temporary file does to a process writing to it.
Renamed(phase) ==
    IF phase = "writing tmp" THEN "writing file"
    ELSE IF phase = "writing file" THEN "writing unlinked" ELSE phase

\* os.replace moves whatever the temporary file now is into place.
Replace(p) ==
    /\ pc[p] = "replacing" /\ tmp # Absent
    /\ file' = tmp /\ tmp' = Absent
    /\ issued' = issued \cup (IF tmp = Torn THEN {} ELSE DOMAIN tmp.toValue)
    /\ docs' = Amend(docs, edit[p])
    /\ edit' = [edit EXCEPT ![p] = NoEdit]
    /\ pc' = [q \in Procs |-> IF q # p THEN Renamed(pc[q])
                              ELSE IF edit[p] = NoEdit THEN "saved" ELSE "idle"]
    /\ mem' = IF edit[p] = NoEdit THEN mem ELSE [mem EXCEPT ![p] = EmptyVault]
    /\ UNCHANGED page

\* Another process has moved the temporary file away: os.replace raises.
ReplaceFails(p) ==
    /\ pc[p] = "replacing" /\ tmp = Absent
    /\ Reset(p)
    /\ UNCHANGED <<file, tmp, docs, issued>>

-----------------------------------------------------------------------------
(***************************************************************************)
(* The routes of the web application                                       *)
(***************************************************************************)

\* Load the file, change the vault in memory to vt and go and save it.
EditWith(p, vt, e) ==
    /\ mem'  = [mem EXCEPT ![p] = vt]
    /\ edit' = [edit EXCEPT ![p] = e]
    /\ Goto(p, "opening")
    /\ UNCHANGED <<file, tmp, page, docs, issued>>

CanEdit(p) == scene.edits /\ pc[p] = "idle" /\ file \notin {Absent, Torn}

\* POST /vault/{mission}/rectify: the token picks the value it stands for,
\* and it is that value's current token which is corrected.
RectifyToken(p, tok, new) ==
    /\ CanEdit(p) /\ tok \in DOMAIN file.toValue
    /\ LET old == file.toValue[tok] IN
       /\ old \in DOMAIN file.toToken
       /\ EditWith(p, Rectify(file, old, new),
                   [k \in {file.toToken[old]} |-> new])

\* POST /vault/{mission}/forget, and forget-subject for more values at once:
\* S is the set of values that match.
ForgetValues(p, S) ==
    /\ CanEdit(p)
    /\ LET gone == S \cap DOMAIN file.toToken IN
       /\ gone # {}
       /\ EditWith(p, Forget(file, S),
                   [k \in {file.toToken[v] : v \in gone} |-> Erased])

-----------------------------------------------------------------------------
Step(p) ==
    \/ Open(p)
    \/ \E v \in scene.values, t \in scene.types : MaskValue(p, v, t) \/ GemmaMask(p, v, t)
    \/ StartSave(p) \/ OpenTmp(p) \/ WriteTmp(p) \/ Replace(p)
    \/ ReplaceFails(p) \/ Return(p) \/ Abort(p)
    \/ CanEdit(p) /\ \E tok \in DOMAIN file.toValue, v \in scene.values :
                        RectifyToken(p, tok, v)
    \/ \E S \in SUBSET scene.values : ForgetValues(p, S)

Next == UNCHANGED scene /\ \E p \in scene.procs : Step(p)

Spec == Init /\ [][Next]_vars

-----------------------------------------------------------------------------
(***************************************************************************)
(* Properties                                                              *)
(***************************************************************************)

\* Every variable has the shape the code gives it.
TypeOK ==
    /\ file \in {Absent, Torn} \/ IsVault(file)
    /\ tmp \in {Absent, Torn} \/ IsVault(tmp)
    /\ pc \in [Procs -> Phases]
    /\ \A p \in Procs : /\ IsVault(mem[p])
                        /\ page[p] \subseteq Token \X Value
                        /\ IsDict(edit[p], Token, Value \cup {Erased})
    /\ scene \in Scenes
    /\ docs \subseteq Token \X Value
    /\ issued \subseteq Token

\* One process at a time, as the code takes for granted.
Alone == Cardinality(scene.procs) = 1

\* A process can restore the document it has in hand from its own vault:
\* masking further values, by the second pass too, while others load and save
\* theirs, never changes what a token already written into it stands for.
PageRestores ==
    \A p \in Procs : \A d \in page[p] :
        d[1] \in DOMAIN mem[p].toValue /\ mem[p].toValue[d[1]] = d[2]

\* One process at a time and without the second pass, every token of every
\* document that was returned restores, from the vault file alone, to the value
\* it was masked for (or was corrected to since).
DocsRestore ==
    Alone /\ ~scene.gemma => \A d \in docs :
        /\ file \notin {Absent, Torn}
        /\ d[1] \in DOMAIN file.toValue
        /\ file.toValue[d[1]] = d[2]

\* No token stands for two values in the documents that were returned.
OneMeaning ==
    \A d, e \in docs : d[1] = e[1] => d[2] = e[2]

\* What the vault file says each token stands for is a TokenBook, one process
\* at a time: however often it dies, a token never comes back with a second
\* meaning.
Book == INSTANCE TokenBook
            WITH book <- IF Alone /\ file \notin {Absent, Torn} THEN file.toValue
                                                               ELSE EmptyDict,
                 used <- IF Alone THEN issued ELSE {}
FileIsBook == Book!BookSpec
=============================================================================
