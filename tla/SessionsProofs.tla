--------------------------- MODULE SessionsProofs ---------------------------
(***************************************************************************)
(* Proofs about the processes that share a vault file, for any number of   *)
(* them, any values, types and scenes.                                     *)
(*                                                                         *)
(* Two invariants.  The first needs no luck: every vault there is, in      *)
(* memory or in a file, is sound by itself, whoever else writes, so what a *)
(* process has masked it can restore (PageRestores).  The second is about  *)
(* one process at a time: what it will save extends what the file says, or *)
(* erases or corrects what it was told to, and its numbering is ahead of   *)
(* every token the file ever held, however often it died (DocsRestore,     *)
(* FileIsBook).                                                            *)
(***************************************************************************)
EXTENDS VaultSessions, VaultOpsProofs, FiniteSetTheorems

-----------------------------------------------------------------------------
(***************************************************************************)
(* The invariants                                                          *)
(***************************************************************************)

\* A vault whose dictionaries agree and whose numbering covers its tokens.
Sound(vt) == IsVault(vt) /\ Agree(vt) /\ Covers(vt, DOMAIN vt.toValue)
Held(f)   == f \in {Absent, Torn} \/ Sound(f)

Restores(g, m) == \A d \in g : d[1] \in DOMAIN m.toValue /\ m.toValue[d[1]] = d[2]

\* One process: where it is, its vault, its document, its edit.
ProcOK(c, m, g, e) ==
    /\ c \in Phases
    /\ Sound(m)
    /\ Restores(g, m)
    /\ c \in {"idle", "masking", "saved"} => e = NoEdit
    /\ c = "idle" => g = {}
    /\ e # NoEdit => g = {}

Domains ==
    /\ DOMAIN pc = Procs /\ DOMAIN mem = Procs
    /\ DOMAIN page = Procs /\ DOMAIN edit = Procs

VaultsInv ==
    /\ Domains
    /\ scene \in Scenes
    /\ Held(file) /\ Held(tmp)
    /\ issued \subseteq Token
    /\ \A p \in Procs : ProcOK(pc[p], mem[p], page[p], edit[p])

\* What the file says, nothing at all when it says nothing.
Meant == IF file \in {Absent, Torn} THEN EmptyDict ELSE file.toValue

Extends(f, m) == \A tok \in DOMAIN f : tok \in DOMAIN m /\ m[tok] = f[tok]

\* What a vault that will be saved has changed: it has fresh tokens, or the
\* edit in hand has been carried out on it.
Masks(f, m, e) ==
    e = NoEdit /\ Extends(f, m) /\ (DOMAIN m \ DOMAIN f) \cap issued = {}
Erases(f, m, e) ==
    /\ e # NoEdit /\ DOMAIN m = DOMAIN f \ DOMAIN e /\ Extends(m, f)
    /\ \A tok \in DOMAIN e : e[tok] = Erased
Corrects(f, m, e) ==
    /\ e # NoEdit
    /\ \E tok \in DOMAIN f, v \in Value : e = [k \in {tok} |-> v] /\ m = Put(f, tok, v)
Pending(f, m, e) == Masks(f, m, e) \/ Erases(f, m, e) \/ Corrects(f, m, e)

Working == {"masking", "opening", "writing tmp", "replacing"}

\* The one process p, and the file.
WorkOK(p) ==
    /\ pc[p] \in Working \cup {"idle", "saved"}
    /\ pc[p] = "writing tmp" => tmp = Torn
    /\ pc[p] = "replacing" => tmp = mem[p]
    /\ pc[p] \in Working => /\ Covers(mem[p], issued \cup DOMAIN mem[p].toValue)
                            /\ Pending(Meant, mem[p].toValue, edit[p])
    /\ pc[p] = "saved" /\ ~scene.gemma => file = mem[p]

FileOK ==
    /\ file # Torn
    /\ file = Absent => issued = {}
    /\ file # Absent => Covers(file, issued)

AloneInv ==
    /\ Alone => FileOK /\ \A p \in scene.procs : WorkOK(p)
    /\ DocsRestore

SessionsInv == VaultsInv /\ AloneInv

-----------------------------------------------------------------------------
(***************************************************************************)
(* Sound vaults                                                            *)
(***************************************************************************)

LEMMA SoundEmpty == Sound(EmptyVault) /\ EmptyVault.toValue = EmptyDict
<1>1. DOMAIN EmptyDict = {}
  BY DEF EmptyDict
<1>2. /\ EmptyVault.toValue = EmptyDict /\ EmptyVault.toToken = EmptyDict
      /\ EmptyVault.personOf = EmptyDict
  BY DEF EmptyVault
<1> QED
  BY <1>1, <1>2, EmptyVaultType DEF Sound, Agree, Covers

\* The tokens that restore are tokens.
LEMMA SoundTokens ==
    ASSUME NEW vt, IsVault(vt)
    PROVE  DOMAIN vt.toValue \in SUBSET Token
BY DEF IsVault, IsDict

\* What is numbered ahead of more is numbered ahead of less.
LEMMA CoversLess ==
    ASSUME NEW vt, NEW S, Covers(vt, S), NEW T, T \subseteq S, DOMAIN vt.toValue \subseteq T
    PROVE  Covers(vt, T)
BY DEF Covers

\* Masking a value: every token keeps what it stands for, and the value's token
\* stands for it.
LEMMA MaskKeeps ==
    ASSUME NEW vt, Sound(vt), NEW v \in Value, NEW t \in Type
    PROVE  LET after == AfterTokenFor(vt, v, t)
               tok   == TokenFor(vt, v, t)
           IN  /\ Sound(after)
               /\ Extends(vt.toValue, after.toValue)
               /\ DOMAIN after.toValue = DOMAIN vt.toValue \cup {tok}
               /\ after.toValue[tok] = v
<1>1. CASE HasToken(vt, v, t)
  <2>1. AfterTokenFor(vt, v, t) = vt /\ TokenFor(vt, v, t) = vt.toToken[v]
    BY <1>1 DEF AfterTokenFor, TokenFor
  <2>2. vt.toToken[v] \in DOMAIN vt.toValue /\ vt.toValue[vt.toToken[v]] = v
    BY <1>1 DEF Sound, Agree, HasToken
  <2> QED
    BY <2>1, <2>2 DEF Extends
<1>2. CASE ~HasToken(vt, v, t)
  <2> DEFINE tok == NewToken(vt, v, t)
             D   == DOMAIN vt.toValue
  <2>1. AfterTokenFor(vt, v, t) = Mint(vt, v, t) /\ TokenFor(vt, v, t) = tok
    BY <1>2 DEF AfterTokenFor, TokenFor
  <2>2. tok \notin D
    BY CoversFresh DEF Sound
  <2>3. Mint(vt, v, t).toValue = Put(vt.toValue, tok, v)
    BY DEF Mint
  <2>4. /\ DOMAIN Put(vt.toValue, tok, v) = D \cup {tok}
        /\ Put(vt.toValue, tok, v)[tok] = v
        /\ \A k \in D : k # tok => Put(vt.toValue, tok, v)[k] = vt.toValue[k]
    BY DEF Put
  <2>5. IsVault(Mint(vt, v, t)) /\ Agree(Mint(vt, v, t))
    BY <2>2, MintType, AgreeMint DEF Sound
  <2>6. Covers(Mint(vt, v, t), D \cup {tok})
    BY SoundTokens, CoversMint DEF Sound
  <2> HIDE DEF tok
  <2> QED
    BY <2>1, <2>2, <2>3, <2>4, <2>5, <2>6 DEF Sound, Extends
<1> QED
  BY <1>1, <1>2

\* Erasing some values: their tokens restore to nothing, the others as before.
LEMMA ForgetKeeps ==
    ASSUME NEW vt, Sound(vt), NEW S
    PROVE  LET after == Forget(vt, S)
               gone  == {vt.toToken[v] : v \in S \cap DOMAIN vt.toToken}
           IN  /\ Sound(after)
               /\ DOMAIN after.toValue = DOMAIN vt.toValue \ gone
               /\ Extends(after.toValue, vt.toValue)
<1> DEFINE gone   == {vt.toToken[v] : v \in S \cap DOMAIN vt.toToken}
           tokens == Drop(vt.toToken, S \cap DOMAIN vt.toToken)
           values == Drop(vt.toValue, gone)
<1>1. Forget(vt, S) = WithMaps(vt, tokens, values)
  BY DEF Forget
<1>2. /\ DOMAIN values = DOMAIN vt.toValue \ gone
      /\ \A k \in DOMAIN values : values[k] = vt.toValue[k]
  BY DEF Drop
<1>3. Forget(vt, S).toValue = values
  BY <1>1 DEF WithMaps
<1>4. IsVault(Forget(vt, S)) /\ Agree(Forget(vt, S))
  BY ForgetType, AgreeForget DEF Sound
<1> HIDE DEF gone, tokens, values
<1>5. Covers(Forget(vt, S), DOMAIN vt.toValue)
  BY <1>1, <1>2, CoversWithMaps DEF Sound
<1>6. Covers(Forget(vt, S), DOMAIN values)
  BY <1>2, <1>3, <1>5, CoversLess
<1> QED
  BY <1>2, <1>3, <1>4, <1>6 DEF Sound, Extends, gone

\* Correcting a value: its token stands for the new one.
LEMMA RectifyKeeps ==
    ASSUME NEW vt, Sound(vt), NEW old \in DOMAIN vt.toToken, NEW new \in Value
    PROVE  LET after == Rectify(vt, old, new) IN
           /\ Sound(after)
           /\ vt.toToken[old] \in DOMAIN vt.toValue
           /\ after.toValue = Put(vt.toValue, vt.toToken[old], new)
<1> DEFINE tok    == vt.toToken[old]
           tokens == Put(Drop(vt.toToken, {old}), new, tok)
           values == Put(vt.toValue, tok, new)
<1>1. Rectify(vt, old, new) = WithMaps(vt, tokens, values)
  BY DEF Rectify
<1>2. tok \in DOMAIN vt.toValue
  BY DEF Sound, Agree
<1>3. DOMAIN values = DOMAIN vt.toValue
  BY <1>2 DEF Put
<1>4. Rectify(vt, old, new).toValue = values
  BY <1>1 DEF WithMaps
<1>5. IsVault(Rectify(vt, old, new)) /\ Agree(Rectify(vt, old, new))
  BY RectifyType, AgreeRectify DEF Sound
<1> HIDE DEF tok, tokens, values
<1>6. Covers(Rectify(vt, old, new), DOMAIN values)
  BY <1>1, <1>3, CoversWithMaps DEF Sound
<1> QED
  BY <1>2, <1>4, <1>5, <1>6 DEF Sound, tok, values

-----------------------------------------------------------------------------
(***************************************************************************)
(* Every vault is sound, and every document in hand restores               *)
(***************************************************************************)

LEMMA InitVaultsInv == Init => VaultsInv
<1> SUFFICES ASSUME Init PROVE VaultsInv
  OBVIOUS
<1>1. \A p \in Procs : pc[p] = "idle" /\ mem[p] = EmptyVault /\ page[p] = {} /\ edit[p] = NoEdit
  BY DEF Init
<1>2. \A p \in Procs : ProcOK(pc[p], mem[p], page[p], edit[p])
  BY <1>1, SoundEmpty DEF ProcOK, Restores, Phases
<1> QED
  BY <1>2 DEF Init, VaultsInv, Domains, Held

\* One process goes on; the files hold what they may hold.
LEMMA ProcGoes ==
    ASSUME VaultsInv, Domains', UNCHANGED scene, NEW p \in Procs,
           Held(file)', Held(tmp)', issued' \subseteq Token,
           ProcOK(pc[p], mem[p], page[p], edit[p])',
           \A q \in Procs \ {p} : /\ mem'[q] = mem[q] /\ page'[q] = page[q]
                                  /\ edit'[q] = edit[q]
                                  /\ pc'[q] = pc[q] \/ (/\ pc[q] \notin {"idle", "masking", "saved"}
                                                        /\ pc'[q] \in Phases
                                                        /\ pc'[q] \notin {"idle", "masking", "saved"})
    PROVE  VaultsInv'
<1>1. ASSUME NEW q \in Procs PROVE ProcOK(pc[q], mem[q], page[q], edit[q])'
  BY DEF VaultsInv, ProcOK
<1> QED
  BY <1>1 DEF VaultsInv

\* The shape of a process, spelt out.
LEMMA ProcShape ==
    ASSUME VaultsInv, NEW p \in Procs
    PROVE  /\ Domains /\ Sound(mem[p]) /\ Restores(page[p], mem[p]) /\ pc[p] \in Phases
           /\ pc[p] \in {"idle", "masking", "saved"} => edit[p] = NoEdit
           /\ pc[p] = "idle" => page[p] = {}
           /\ edit[p] # NoEdit => page[p] = {}
BY DEF VaultsInv, ProcOK

\* Its end, whatever for.
LEMMA ResetVaults ==
    ASSUME VaultsInv, NEW p \in Procs, Reset(p),
           UNCHANGED <<scene, file, tmp, issued>>
    PROVE  VaultsInv'
<1>1. Domains' /\ pc'[p] = "idle" /\ mem'[p] = EmptyVault /\ page'[p] = {} /\ edit'[p] = NoEdit
  BY ProcShape DEF Domains, Reset, Goto
<1>2. \A q \in Procs \ {p} : /\ mem'[q] = mem[q] /\ page'[q] = page[q]
                             /\ edit'[q] = edit[q] /\ pc'[q] = pc[q]
  BY ProcShape DEF Domains, Reset, Goto
<1>3. ProcOK(pc[p], mem[p], page[p], edit[p])'
  BY <1>1, SoundEmpty DEF ProcOK, Restores, Phases
<1> QED
  BY <1>1, <1>2, <1>3, ProcGoes DEF VaultsInv, Held

LEMMA OpenVaults ==
    ASSUME VaultsInv, NEW p \in Procs, Open(p), UNCHANGED scene
    PROVE  VaultsInv'
<1>1. /\ Domains' /\ pc'[p] = "masking" /\ mem'[p] = Opened
      /\ page'[p] = page[p] /\ edit'[p] = edit[p]
  BY ProcShape DEF Domains, Open, Goto
<1>2. \A q \in Procs \ {p} : /\ mem'[q] = mem[q] /\ page'[q] = page[q]
                             /\ edit'[q] = edit[q] /\ pc'[q] = pc[q]
  BY ProcShape DEF Domains, Open, Goto
<1>3. Sound(Opened)
  BY SoundEmpty DEF Opened, Open, VaultsInv, Held
<1>4. page[p] = {} /\ edit[p] = NoEdit
  BY ProcShape DEF Open
<1>5. ProcOK(pc[p], mem[p], page[p], edit[p])'
  BY <1>1, <1>3, <1>4 DEF ProcOK, Restores, Phases
<1>6. UNCHANGED <<file, tmp, issued>>
  BY DEF Open
<1> QED
  BY <1>1, <1>2, <1>5, <1>6, ProcGoes DEF VaultsInv, Held

\* What a token written into the document stands for, no later one changes.
LEMMA MaskVaults ==
    ASSUME VaultsInv, NEW p \in Procs, NEW v \in Value, NEW t \in Type,
           pc[p] \in {"masking", "saved"}, MaskWith(p, v, t), UNCHANGED scene
    PROVE  VaultsInv'
<1> DEFINE after == AfterTokenFor(mem[p], v, t)
           tok   == TokenFor(mem[p], v, t)
<1>1. /\ Sound(after) /\ Extends(mem[p].toValue, after.toValue)
      /\ DOMAIN after.toValue = DOMAIN mem[p].toValue \cup {tok}
      /\ after.toValue[tok] = v
  BY ProcShape, MaskKeeps
<1>2. /\ Domains' /\ pc' = pc /\ mem'[p] = after
      /\ page'[p] = page[p] \cup {<<tok, v>>} /\ edit' = edit
  BY ProcShape DEF Domains, MaskWith
<1>3. \A q \in Procs \ {p} : mem'[q] = mem[q] /\ page'[q] = page[q]
  BY ProcShape DEF Domains, MaskWith
<1>4. Restores(page[p], mem[p]) /\ edit[p] = NoEdit
  BY ProcShape
<1>5. UNCHANGED <<file, tmp, issued>>
  BY DEF MaskWith
<1> HIDE DEF after, tok
<1>6. Restores(page'[p], mem'[p])
  BY <1>1, <1>2, <1>4 DEF Restores, Extends
<1>7. ProcOK(pc[p], mem[p], page[p], edit[p])'
  BY <1>1, <1>2, <1>4, <1>6 DEF ProcOK, Phases
<1> QED
  BY <1>2, <1>3, <1>5, <1>7, ProcGoes DEF VaultsInv, Held

\* A process that only moves on while it saves.
LEMMA MoveVaults ==
    ASSUME VaultsInv, NEW p \in Procs, NEW c \in Phases, Goto(p, c),
           c \notin {"idle", "masking", "saved"},
           UNCHANGED <<scene, mem, page, edit>>,
           Held(file)', Held(tmp)', issued' \subseteq Token
    PROVE  VaultsInv'
<1>1. Domains' /\ pc'[p] = c /\ \A q \in Procs \ {p} : pc'[q] = pc[q]
  BY ProcShape DEF Domains, Goto
<1>2. ProcOK(pc[p], mem[p], page[p], edit[p])'
  BY <1>1, ProcShape DEF ProcOK
<1> QED
  BY <1>1, <1>2, ProcGoes

LEMMA SaveVaults ==
    ASSUME VaultsInv, NEW p \in Procs, StartSave(p) \/ OpenTmp(p) \/ WriteTmp(p), UNCHANGED scene
    PROVE  VaultsInv'
<1>1. Sound(mem[p]) /\ Held(file) /\ Held(tmp) /\ issued \subseteq Token
  BY ProcShape DEF VaultsInv
<1>2. CASE StartSave(p)
  <2>1. Goto(p, "opening") /\ UNCHANGED <<file, tmp, mem, page, edit, issued>>
    BY <1>2 DEF StartSave
  <2> QED
    BY <1>1, <2>1, MoveVaults DEF Held, Phases
<1>3. CASE OpenTmp(p)
  <2>1. Goto(p, "writing tmp") /\ tmp' = Torn /\ UNCHANGED <<file, mem, page, edit, issued>>
    BY <1>3 DEF OpenTmp
  <2> QED
    BY <1>1, <2>1, MoveVaults DEF Held, Phases
<1>4. CASE WriteTmp(p)
  <2>1. Goto(p, "replacing") /\ UNCHANGED <<mem, page, edit>>
    BY <1>4 DEF WriteTmp
  <2>2. tmp' \in {tmp, mem[p], Torn} /\ file' \in {file, mem[p], Torn}
    BY <1>4 DEF WriteTmp, Written
  <2>3. issued' \subseteq issued \cup DOMAIN mem[p].toValue
    BY <1>4 DEF WriteTmp
  <2>4. DOMAIN mem[p].toValue \in SUBSET Token
    BY <1>1, SoundTokens DEF Sound
  <2> QED
    BY <1>1, <2>1, <2>2, <2>3, <2>4, MoveVaults DEF Held, Phases
<1> QED
  BY <1>2, <1>3, <1>4

LEMMA ReplaceVaults ==
    ASSUME VaultsInv, NEW p \in Procs, Replace(p), UNCHANGED scene
    PROVE  VaultsInv'
<1>1. /\ file' = tmp /\ tmp' = Absent /\ UNCHANGED page
      /\ edit' = [edit EXCEPT ![p] = NoEdit]
      /\ pc' = [q \in Procs |-> IF q # p THEN Renamed(pc[q])
                                ELSE IF edit[p] = NoEdit THEN "saved" ELSE "idle"]
      /\ mem' = IF edit[p] = NoEdit THEN mem ELSE [mem EXCEPT ![p] = EmptyVault]
      /\ issued' = issued \cup (IF tmp = Torn THEN {} ELSE DOMAIN tmp.toValue)
      /\ tmp # Absent
  BY DEF Replace
<1>2. Domains /\ Domains'
  BY <1>1, ProcShape DEF Domains
<1>3. Held(file)' /\ Held(tmp)'
  BY <1>1 DEF VaultsInv, Held
<1>4. issued' \subseteq Token
  <2>1. CASE tmp = Torn
    BY <1>1, <2>1 DEF VaultsInv
  <2>2. CASE tmp # Torn
    <3>1. DOMAIN tmp.toValue \in SUBSET Token
      BY <1>1, <2>2, SoundTokens DEF VaultsInv, Held, Sound
    <3> QED
      BY <1>1, <2>2, <3>1 DEF VaultsInv
  <2> QED
    BY <2>1, <2>2
<1>5. ProcOK(pc[p], mem[p], page[p], edit[p])'
  <2>1. edit'[p] = NoEdit /\ page'[p] = page[p]
    BY <1>1, <1>2 DEF Domains
  <2>2. CASE edit[p] = NoEdit
    <3>1. pc'[p] = "saved" /\ mem'[p] = mem[p]
      BY <1>1, <2>2
    <3> QED
      BY <2>1, <3>1, ProcShape DEF ProcOK, Phases
  <2>3. CASE edit[p] # NoEdit
    <3>1. pc'[p] = "idle" /\ mem'[p] = EmptyVault /\ page[p] = {}
      BY <1>1, <1>2, <2>3, ProcShape DEF Domains
    <3> QED
      BY <2>1, <3>1, SoundEmpty DEF ProcOK, Restores, Phases
  <2> QED
    BY <2>2, <2>3
<1>6. ASSUME NEW q \in Procs \ {p}
      PROVE  /\ mem'[q] = mem[q] /\ page'[q] = page[q] /\ edit'[q] = edit[q]
             /\ pc'[q] = pc[q] \/ (/\ pc[q] \notin {"idle", "masking", "saved"}
                                   /\ pc'[q] \in Phases
                                   /\ pc'[q] \notin {"idle", "masking", "saved"})
  <2>1. pc'[q] = Renamed(pc[q])
    BY <1>1
  <2>2. mem'[q] = mem[q] /\ edit'[q] = edit[q]
    BY <1>1, <1>2 DEF Domains
  <2> QED
    BY <1>1, <2>1, <2>2 DEF Renamed, Phases
<1> QED
  BY <1>2, <1>3, <1>4, <1>5, <1>6, ProcGoes

\* A route edits a sound copy of the file and has no document in hand.
LEMMA EditVaults ==
    ASSUME VaultsInv, NEW p \in Procs, NEW vt, NEW e, CanEdit(p), EditWith(p, vt, e), Sound(vt),
           UNCHANGED scene
    PROVE  VaultsInv'
<1>1. /\ Domains' /\ pc'[p] = "opening" /\ mem'[p] = vt /\ edit'[p] = e
      /\ page' = page /\ UNCHANGED <<file, tmp, issued>>
  BY ProcShape DEF Domains, EditWith, Goto
<1>2. \A q \in Procs \ {p} : mem'[q] = mem[q] /\ edit'[q] = edit[q] /\ pc'[q] = pc[q]
  BY ProcShape DEF Domains, EditWith, Goto
<1>3. page[p] = {}
  BY ProcShape DEF CanEdit
<1>4. ProcOK(pc[p], mem[p], page[p], edit[p])'
  BY <1>1, <1>3 DEF ProcOK, Restores, Phases
<1> QED
  BY <1>1, <1>2, <1>4, ProcGoes DEF VaultsInv, Held

LEMMA SceneShape ==
    ASSUME VaultsInv
    PROVE  scene.procs \subseteq Procs /\ scene.values \subseteq Value /\ scene.types \subseteq Type
BY SessionsAssumption DEF VaultsInv, Scene

LEMMA FileSound == ASSUME VaultsInv, file \notin {Absent, Torn} PROVE Sound(file)
BY DEF VaultsInv, Held

LEMMA RouteVaults ==
    ASSUME VaultsInv, NEW p \in Procs, UNCHANGED scene,
           \/ \E tok \in DOMAIN file.toValue, v \in scene.values : RectifyToken(p, tok, v)
           \/ \E S \in SUBSET scene.values : ForgetValues(p, S)
    PROVE  VaultsInv'
<1>1. ASSUME NEW tok \in DOMAIN file.toValue, NEW v \in scene.values, RectifyToken(p, tok, v)
      PROVE  VaultsInv'
  <2> DEFINE old == file.toValue[tok]
  <2>1. /\ CanEdit(p) /\ old \in DOMAIN file.toToken
        /\ EditWith(p, Rectify(file, old, v), [k \in {file.toToken[old]} |-> v])
    BY <1>1 DEF RectifyToken
  <2>2. Sound(Rectify(file, old, v))
    BY <2>1, FileSound, SceneShape, RectifyKeeps DEF CanEdit
  <2> QED
    BY <2>1, <2>2, EditVaults
<1>2. ASSUME NEW S \in SUBSET scene.values, ForgetValues(p, S)
      PROVE  VaultsInv'
  <2> DEFINE e == [k \in {file.toToken[v] : v \in S \cap DOMAIN file.toToken} |-> Erased]
  <2>1. CanEdit(p) /\ EditWith(p, Forget(file, S), e)
    BY <1>2 DEF ForgetValues
  <2>2. Sound(Forget(file, S))
    BY <2>1, FileSound, ForgetKeeps DEF CanEdit
  <2> HIDE DEF e
  <2> QED
    BY <2>1, <2>2, EditVaults
<1> QED
  BY <1>1, <1>2

LEMMA NextVaultsInv == VaultsInv /\ [Next]_vars => VaultsInv'
<1> SUFFICES ASSUME VaultsInv, [Next]_vars PROVE VaultsInv'
  OBVIOUS
<1>1. ASSUME NEW p \in scene.procs, Step(p), UNCHANGED scene PROVE VaultsInv'
  <2>0. p \in Procs
    BY SceneShape
  <2>1. CASE Open(p)
    BY <1>1, <2>0, <2>1, OpenVaults
  <2>2. ASSUME NEW v \in scene.values, NEW t \in scene.types, MaskValue(p, v, t) \/ GemmaMask(p, v, t)
        PROVE  VaultsInv'
    <3>1. v \in Value /\ t \in Type
      BY SceneShape
    <3>2. pc[p] \in {"masking", "saved"} /\ MaskWith(p, v, t)
      BY <2>2 DEF MaskValue, GemmaMask
    <3> QED
      BY <1>1, <2>0, <3>1, <3>2, MaskVaults
  <2>3. CASE StartSave(p) \/ OpenTmp(p) \/ WriteTmp(p)
    BY <1>1, <2>0, <2>3, SaveVaults
  <2>4. CASE Replace(p)
    BY <1>1, <2>0, <2>4, ReplaceVaults
  <2>5. CASE ReplaceFails(p) \/ Return(p) \/ Abort(p)
    BY <1>1, <2>0, <2>5, ResetVaults DEF ReplaceFails, Return, Abort
  <2>6. CASE \/ \E tok \in DOMAIN file.toValue, v \in scene.values : RectifyToken(p, tok, v)
             \/ \E S \in SUBSET scene.values : ForgetValues(p, S)
    BY <1>1, <2>0, <2>6, RouteVaults
  <2> QED
    BY <1>1, <2>1, <2>2, <2>3, <2>4, <2>5, <2>6 DEF Step
<1>2. CASE UNCHANGED vars
  BY <1>2 DEF vars, VaultsInv, Domains, Held
<1> QED
  BY <1>1, <1>2 DEF Next

\* PagesRestore: however many processes load, save, erase and correct at once
\* and tear each other's files, a process can restore the document it has in
\* hand, the words the second pass added to it included.
THEOREM PagesRestore == Spec => []PageRestores
<1>1. VaultsInv => PageRestores
  BY DEF VaultsInv, ProcOK, Restores, PageRestores
<1> QED
  BY <1>1, InitVaultsInv, NextVaultsInv, PTL DEF Spec

-----------------------------------------------------------------------------
(***************************************************************************)
(* One process at a time                                                   *)
(***************************************************************************)

LEMMA OneProc ==
    ASSUME VaultsInv, Alone, NEW p \in scene.procs
    PROVE  scene.procs = {p}
<1>1. IsFiniteSet(scene.procs)
  BY SceneShape, SessionsAssumption, FS_Subset
<1>2. PICK q : scene.procs = {q}
  BY <1>1, FS_Singleton DEF Alone
<1> QED
  BY <1>2

\* What the two constants are for: a file that is not there, or that cannot be
\* read, is told from one that holds a vault, as TLC's model values are.
Distinct == Absent # Torn /\ \A vt : IsVault(vt) => vt \notin {Absent, Torn}

LEMMA InitAloneInv == Distinct /\ Init => AloneInv
<1> SUFFICES ASSUME Distinct, Init PROVE AloneInv
  OBVIOUS
<1>1. file = Absent /\ issued = {} /\ docs = {}
  BY DEF Init
<1>2. ASSUME NEW p \in scene.procs PROVE WorkOK(p)
  <2>1. pc[p] = "idle"
    BY SessionsAssumption DEF Init, Scene
  <2> QED
    BY <2>1 DEF WorkOK, Working
<1> QED
  BY <1>1, <1>2 DEF AloneInv, FileOK, DocsRestore, Distinct

\* Where nothing is saved yet, nothing of the two files changes.
LEMMA AloneGoes ==
    ASSUME VaultsInv, AloneInv, UNCHANGED <<scene, file, docs, issued>>,
           NEW p \in scene.procs, Alone => WorkOK(p)'
    PROVE  AloneInv'
<1>1. CASE Alone
  <2>1. scene'.procs = {p} /\ FileOK'
    BY <1>1, OneProc DEF AloneInv, FileOK
  <2> QED
    BY <1>1, <2>1 DEF AloneInv, DocsRestore, Alone
<1>2. CASE ~Alone
  BY <1>2 DEF AloneInv, DocsRestore, Alone
<1> QED
  BY <1>1, <1>2

\* The facts about the one process at work, spelt out.
LEMMA AloneShape ==
    ASSUME VaultsInv, AloneInv, Alone, NEW p \in scene.procs
    PROVE  /\ p \in Procs /\ WorkOK(p) /\ FileOK
           /\ DOMAIN pc = Procs /\ DOMAIN mem = Procs /\ DOMAIN edit = Procs
           /\ Meant = IF file = Absent THEN EmptyDict ELSE file.toValue
           /\ DOMAIN Meant \subseteq issued
<1>1. p \in Procs /\ Domains
  BY SceneShape, ProcShape
<1>2. WorkOK(p) /\ FileOK
  BY DEF AloneInv
<1>3. Meant = IF file = Absent THEN EmptyDict ELSE file.toValue
  BY <1>2 DEF Meant, FileOK
<1>4. DOMAIN Meant \subseteq issued
  BY <1>2, <1>3 DEF FileOK, Covers, EmptyDict
<1> QED
  BY <1>1, <1>2, <1>3, <1>4 DEF Domains

\* A process that is over holds nothing that will be saved.
LEMMA ResetAlone ==
    ASSUME VaultsInv, AloneInv, NEW p \in scene.procs, Reset(p), UNCHANGED <<scene, file, docs, issued>>
    PROVE  AloneInv'
<1>1. pc'[p] = "idle"
  BY SceneShape, ProcShape DEF Reset, Goto, Domains
<1> QED
  BY <1>1, AloneGoes DEF WorkOK, Working

\* The second invariant's part about a process that works on a vault, at c.
AtWork(p, c) ==
    /\ c = "writing tmp" => tmp = Torn
    /\ c = "replacing" => tmp = mem[p]
    /\ Covers(mem[p], issued \cup DOMAIN mem[p].toValue)
    /\ Pending(Meant, mem[p].toValue, edit[p])

LEMMA WorkGoes ==
    ASSUME VaultsInv, AloneInv, NEW p \in scene.procs, NEW c \in Working,
           UNCHANGED <<scene, file, docs, issued>>, pc' = [pc EXCEPT ![p] = c],
           Alone => AtWork(p, c)'
    PROVE  AloneInv'
<1>1. CASE Alone
  <2>1. pc'[p] = c
    BY <1>1, AloneShape
  <2> QED
    BY <1>1, <2>1, AloneGoes DEF WorkOK, AtWork, Working
<1>2. CASE ~Alone
  BY <1>2, AloneGoes
<1> QED
  BY <1>1, <1>2

LEMMA OpenAlone ==
    ASSUME VaultsInv, AloneInv, NEW p \in scene.procs, Open(p), UNCHANGED scene
    PROVE  AloneInv'
<1>1. /\ UNCHANGED <<scene, file, docs, issued, edit>> /\ file # Torn
      /\ pc' = [pc EXCEPT ![p] = "masking"] /\ mem' = [mem EXCEPT ![p] = Opened]
  BY DEF Open, Goto
<1>2. ASSUME Alone PROVE AtWork(p, "masking")'
  <2>1. mem'[p] = Opened /\ edit'[p] = NoEdit
    BY <1>1, <1>2, AloneShape, ProcShape DEF Open
  <2>2. Opened.toValue = Meant
    BY <1>2, AloneShape, SoundEmpty DEF Opened
  <2>3. Covers(Opened, issued)
    BY <1>1, <1>2, AloneShape, SoundEmpty DEF Opened, FileOK, Sound, EmptyDict
  <2>4. issued \cup DOMAIN Opened.toValue = issued
    BY <1>2, <2>2, AloneShape
  <2>5. Pending(Meant, Opened.toValue, NoEdit)
    BY <2>2 DEF Pending, Masks, Extends
  <2>6. UNCHANGED Meant
    BY <1>1 DEF Meant
  <2>7. Pending(Meant, mem[p].toValue, edit[p])'
    BY <1>1, <2>1, <2>5, <2>6 DEF Pending, Masks, Erases, Corrects
  <2> QED
    BY <1>1, <2>1, <2>3, <2>4, <2>7 DEF AtWork
<1> QED
  BY <1>1, <1>2, WorkGoes DEF Working

\* A minted token is ahead of every token the file ever held.
LEMMA MaskAlone ==
    ASSUME VaultsInv, AloneInv, NEW p \in scene.procs, NEW v \in Value, NEW t \in Type,
           pc[p] = "masking", MaskWith(p, v, t), UNCHANGED scene
    PROVE  AloneInv'
<1> DEFINE after == AfterTokenFor(mem[p], v, t)
           tok   == TokenFor(mem[p], v, t)
<1>1. /\ UNCHANGED <<scene, file, docs, issued, edit, pc>>
      /\ mem' = [mem EXCEPT ![p] = after]
  BY DEF MaskWith
<1>2. ASSUME Alone PROVE WorkOK(p)'
  <2>1. mem'[p] = after /\ pc'[p] = "masking" /\ edit'[p] = NoEdit
    BY <1>1, <1>2, AloneShape, ProcShape
  <2>2. /\ Sound(mem[p]) /\ Extends(mem[p].toValue, after.toValue)
        /\ DOMAIN after.toValue = DOMAIN mem[p].toValue \cup {tok}
    BY <1>2, AloneShape, ProcShape, MaskKeeps
  <2>3. /\ Covers(mem[p], issued \cup DOMAIN mem[p].toValue)
        /\ Masks(Meant, mem[p].toValue, NoEdit)
    BY <1>2, <2>1, <1>1, AloneShape DEF WorkOK, Working, Pending, Erases, Corrects
  <2>4. Covers(after, issued \cup DOMAIN after.toValue) /\ (tok \in DOMAIN mem[p].toValue \/ tok \notin issued)
    <3>1. CASE HasToken(mem[p], v, t)
      <4>1. after = mem[p] /\ tok = mem[p].toToken[v]
        BY <3>1 DEF AfterTokenFor, TokenFor
      <4>2. tok \in DOMAIN mem[p].toValue
        BY <2>2, <3>1, <4>1 DEF Sound, Agree, HasToken
      <4> QED
        BY <2>3, <4>1, <4>2
    <3>2. CASE ~HasToken(mem[p], v, t)
      <4>1. after = Mint(mem[p], v, t) /\ tok = NewToken(mem[p], v, t)
        BY <3>2 DEF AfterTokenFor, TokenFor
      <4>2. IsVault(mem[p]) /\ issued \cup DOMAIN mem[p].toValue \in SUBSET Token
        BY <2>2, SoundTokens DEF Sound, VaultsInv
      <4>3. tok \notin issued
        BY <2>3, <4>1, <4>2, CoversFresh
      <4>4. Covers(after, (issued \cup DOMAIN mem[p].toValue) \cup {tok})
        BY <2>3, <4>1, <4>2, CoversMint
      <4>5. (issued \cup DOMAIN mem[p].toValue) \cup {tok} = issued \cup DOMAIN after.toValue
        BY <2>2
      <4> HIDE DEF after, tok
      <4> QED
        BY <4>3, <4>4, <4>5
    <3> QED
      BY <3>1, <3>2
  <2> HIDE DEF after, tok
  <2>5. Masks(Meant, after.toValue, NoEdit)
    BY <2>2, <2>3, <2>4 DEF Masks, Extends
  <2>6. UNCHANGED Meant
    BY <1>1 DEF Meant
  <2>7. Pending(Meant, mem[p].toValue, edit[p])'
    BY <1>1, <2>1, <2>5, <2>6 DEF Pending, Masks
  <2> QED
    BY <1>1, <2>1, <2>4, <2>7 DEF WorkOK, Working
<1> QED
  BY <1>1, <1>2, AloneGoes

\* The second pass is no part of what is promised of the documents.
LEMMA GemmaAlone ==
    ASSUME VaultsInv, AloneInv, NEW p \in scene.procs, NEW v \in Value, NEW t \in Type,
           GemmaMask(p, v, t), UNCHANGED scene
    PROVE  AloneInv'
<1>1. /\ UNCHANGED <<scene, file, docs, issued, pc>> /\ pc[p] = "saved" /\ scene.gemma
  BY DEF GemmaMask, MaskWith
<1> QED
  BY <1>1, AloneGoes DEF WorkOK, Working

LEMMA SaveAlone ==
    ASSUME VaultsInv, AloneInv, NEW p \in scene.procs, UNCHANGED scene,
           StartSave(p) \/ OpenTmp(p) \/ WriteTmp(p)
    PROVE  AloneInv'
<1>1. UNCHANGED <<scene, docs, mem, edit>>
  BY DEF StartSave, OpenTmp, WriteTmp
<1>2. CASE ~Alone
  BY <1>1, <1>2 DEF AloneInv, DocsRestore, Alone
<1>3. CASE Alone
  <2>1. CASE StartSave(p)
    <3>1. /\ UNCHANGED <<file, tmp, issued>> /\ pc' = [pc EXCEPT ![p] = "opening"]
          /\ pc[p] = "masking"
      BY <2>1 DEF StartSave, Goto
    <3>2. UNCHANGED Meant
      BY <3>1 DEF Meant
    <3>3. AtWork(p, "opening")'
      BY <1>1, <1>3, <3>1, <3>2, AloneShape
         DEF WorkOK, Working, AtWork, Pending, Masks, Erases, Corrects
    <3> QED
      BY <1>1, <3>1, <3>3, WorkGoes DEF Working
  <2>2. CASE OpenTmp(p)
    <3>1. /\ UNCHANGED <<file, issued>> /\ pc' = [pc EXCEPT ![p] = "writing tmp"]
          /\ tmp' = Torn /\ pc[p] = "opening"
      BY <2>2 DEF OpenTmp, Goto
    <3>2. UNCHANGED Meant
      BY <3>1 DEF Meant
    <3>3. AtWork(p, "writing tmp")'
      BY <1>1, <1>3, <3>1, <3>2, AloneShape
         DEF WorkOK, Working, AtWork, Pending, Masks, Erases, Corrects
    <3> QED
      BY <1>1, <3>1, <3>3, WorkGoes DEF Working
  <2>3. CASE WriteTmp(p)
    <3>1. pc[p] = "writing tmp" /\ tmp = Torn
      BY <1>3, <2>3, AloneShape DEF WriteTmp, WorkOK, Working
    <3>2. /\ UNCHANGED <<file, issued>> /\ pc' = [pc EXCEPT ![p] = "replacing"]
          /\ tmp' = mem[p]
      BY <2>3, <3>1 DEF WriteTmp, Written, Goto
    <3>3. UNCHANGED Meant
      BY <3>2 DEF Meant
    <3>4. AtWork(p, "replacing")'
      BY <1>1, <1>3, <3>1, <3>2, <3>3, AloneShape
         DEF WorkOK, Working, AtWork, Pending, Masks, Erases, Corrects
    <3> QED
      BY <1>1, <3>2, <3>4, WorkGoes DEF Working
  <2> QED
    BY <2>1, <2>2, <2>3
<1> QED
  BY <1>2, <1>3

\* An edit works on what the file says.
LEMMA EditAlone ==
    ASSUME VaultsInv, AloneInv, NEW p \in scene.procs, NEW vt, NEW e,
           CanEdit(p), EditWith(p, vt, e), UNCHANGED scene,
           Alone => Covers(vt, issued) /\ DOMAIN vt.toValue \subseteq issued,
           Erases(file.toValue, vt.toValue, e) \/ Corrects(file.toValue, vt.toValue, e)
    PROVE  AloneInv'
<1>1. /\ UNCHANGED <<scene, file, docs, issued>> /\ file \notin {Absent, Torn}
      /\ pc' = [pc EXCEPT ![p] = "opening"] /\ mem' = [mem EXCEPT ![p] = vt]
      /\ edit' = [edit EXCEPT ![p] = e]
  BY DEF CanEdit, EditWith, Goto
<1>2. ASSUME Alone PROVE AtWork(p, "opening")'
  <2>1. mem'[p] = vt /\ edit'[p] = e
    BY <1>1, <1>2, AloneShape
  <2>2. Meant = file.toValue /\ UNCHANGED Meant
    BY <1>1 DEF Meant
  <2>3. issued \cup DOMAIN vt.toValue = issued
    BY <1>2
  <2>4. Pending(Meant, mem[p].toValue, edit[p])'
    BY <1>1, <2>1, <2>2 DEF Pending, Masks, Erases, Corrects
  <2> QED
    BY <1>1, <1>2, <2>1, <2>3, <2>4 DEF AtWork
<1> QED
  BY <1>1, <1>2, WorkGoes DEF Working

LEMMA RectifyAlone ==
    ASSUME VaultsInv, AloneInv, NEW p \in scene.procs, NEW tok \in DOMAIN file.toValue,
           NEW v \in Value, RectifyToken(p, tok, v), UNCHANGED scene
    PROVE  AloneInv'
<1> DEFINE old == file.toValue[tok]
           now == file.toToken[old]
           vt  == Rectify(file, old, v)
           e   == [k \in {now} |-> v]
<1>1. CanEdit(p) /\ old \in DOMAIN file.toToken /\ EditWith(p, vt, e)
  BY DEF RectifyToken
<1>2. file \notin {Absent, Torn} /\ Sound(file)
  BY <1>1, FileSound DEF CanEdit
<1>3. Sound(vt) /\ now \in DOMAIN file.toValue /\ vt.toValue = Put(file.toValue, now, v)
  BY <1>1, <1>2, RectifyKeeps
<1>4. DOMAIN vt.toValue = DOMAIN file.toValue
  BY <1>3 DEF Put
<1>5. ASSUME Alone PROVE Covers(vt, issued) /\ DOMAIN vt.toValue \subseteq issued
  <2>1. Covers(file, issued)
    BY <1>2, <1>5, AloneShape DEF FileOK
  <2>2. DOMAIN vt.toValue \subseteq issued
    BY <1>4, <2>1 DEF Covers
  <2>3. \E tokens : vt = WithMaps(file, tokens, Put(file.toValue, now, v))
    BY DEF Rectify
  <2>4. DOMAIN Put(file.toValue, now, v) \subseteq issued
    BY <1>3, <2>2
  <2> HIDE DEF now, old, vt
  <2> QED
    BY <2>1, <2>2, <2>3, <2>4, CoversWithMaps
<1>6. Corrects(file.toValue, vt.toValue, e)
  <2>1. now \in DOMAIN e
    OBVIOUS
  <2>2. e # NoEdit
    BY <2>1 DEF NoEdit, EmptyDict
  <2> QED
    BY <1>3, <2>2 DEF Corrects
<1> HIDE DEF vt, e
<1> QED
  BY <1>1, <1>5, <1>6, EditAlone

LEMMA ForgetAlone ==
    ASSUME VaultsInv, AloneInv, NEW p \in scene.procs, NEW S, ForgetValues(p, S), UNCHANGED scene
    PROVE  AloneInv'
<1> DEFINE gone == {file.toToken[v] : v \in S \cap DOMAIN file.toToken}
           vt   == Forget(file, S)
           e    == [k \in gone |-> Erased]
<1>1. CanEdit(p) /\ S \cap DOMAIN file.toToken # {} /\ EditWith(p, vt, e)
  BY DEF ForgetValues
<1>2. file \notin {Absent, Torn} /\ Sound(file)
  BY <1>1, FileSound DEF CanEdit
<1>3. /\ Sound(vt) /\ DOMAIN vt.toValue = DOMAIN file.toValue \ gone
      /\ Extends(vt.toValue, file.toValue)
  BY <1>2, ForgetKeeps
<1>4. ASSUME Alone PROVE Covers(vt, issued) /\ DOMAIN vt.toValue \subseteq issued
  <2>1. Covers(file, issued)
    BY <1>2, <1>4, AloneShape DEF FileOK
  <2>2. DOMAIN vt.toValue \subseteq issued
    BY <1>3, <2>1 DEF Covers
  <2>3. vt = WithMaps(file, Drop(file.toToken, S \cap DOMAIN file.toToken),
                            Drop(file.toValue, gone))
    BY DEF Forget
  <2>4. DOMAIN Drop(file.toValue, gone) \subseteq issued
    BY <2>1 DEF Drop, Covers
  <2> HIDE DEF vt, gone
  <2> QED
    BY <2>1, <2>2, <2>3, <2>4, CoversWithMaps
<1>5. Erases(file.toValue, vt.toValue, e)
  <2>1. gone # {}
    BY <1>1
  <2> HIDE DEF gone, vt
  <2>2. e # NoEdit
    BY <2>1 DEF NoEdit, EmptyDict
  <2> QED
    BY <1>3, <2>2 DEF Erases
<1> HIDE DEF vt, e
<1> QED
  BY <1>1, <1>4, <1>5, EditAlone

\* The document that is returned has been saved.
LEMMA ReturnAlone ==
    ASSUME Distinct, VaultsInv, AloneInv, NEW p \in scene.procs, Return(p), UNCHANGED scene
    PROVE  AloneInv'
<1>1. /\ UNCHANGED <<scene, file, issued>> /\ docs' = docs \cup page[p] /\ pc[p] = "saved"
      /\ pc' = [pc EXCEPT ![p] = "idle"]
  BY DEF Return, Reset, Goto
<1>2. CASE ~Alone
  BY <1>1, <1>2 DEF AloneInv, DocsRestore, Alone
<1>3. CASE Alone
  <2>1. scene'.procs = {p} /\ pc'[p] = "idle"
    BY <1>1, <1>3, OneProc, AloneShape
  <2>2. FileOK' /\ WorkOK(p)'
    BY <1>1, <1>3, <2>1, AloneShape DEF FileOK, WorkOK, Working
  <2>3. ASSUME ~scene.gemma PROVE file \notin {Absent, Torn} /\ Restores(docs \cup page[p], file)
    <3>1. file = mem[p] /\ Sound(mem[p]) /\ Restores(page[p], mem[p])
      BY <1>1, <1>3, <2>3, AloneShape, ProcShape DEF WorkOK
    <3>2. Restores(docs, file)
      BY <1>3, <2>3 DEF AloneInv, DocsRestore, Restores
    <3> QED
      BY <3>1, <3>2 DEF Restores, Distinct, Sound
  <2> QED
    BY <1>1, <1>3, <2>1, <2>2, <2>3 DEF AloneInv, DocsRestore, Restores, Alone
<1> QED
  BY <1>2, <1>3

\* What the file becomes when the one process replaces it.
LEMMA Replaced ==
    ASSUME Distinct, VaultsInv, AloneInv, Alone, NEW p \in scene.procs, Replace(p)
    PROVE  /\ file' = mem[p] /\ Sound(mem[p]) /\ mem[p] \notin {Absent, Torn}
           /\ issued' = issued \cup DOMAIN mem[p].toValue
           /\ Covers(mem[p], issued')
           /\ Pending(Meant, mem[p].toValue, edit[p])
<1>1. pc[p] = "replacing" /\ tmp = mem[p]
  BY AloneShape DEF Replace, WorkOK
<1>2. Sound(mem[p]) /\ mem[p] \notin {Absent, Torn}
  BY AloneShape, ProcShape DEF Sound, Distinct
<1>3. file' = mem[p] /\ issued' = issued \cup DOMAIN mem[p].toValue
  BY <1>1, <1>2 DEF Replace
<1> QED
  BY <1>1, <1>2, <1>3, AloneShape DEF WorkOK, Working

\* The documents, amended by what the edit in hand says of them, are those that
\* the new file restores.
LEMMA AmendRestores ==
    ASSUME NEW f, NEW m, NEW e, NEW ds, Pending(f, m, e),
           \A d \in ds : d[1] \in DOMAIN f /\ f[d[1]] = d[2]
    PROVE  \A d \in Amend(ds, e) : d[1] \in DOMAIN m /\ m[d[1]] = d[2]
<1>1. CASE Masks(f, m, e)
  <2>1. DOMAIN e = {}
    BY <1>1 DEF Masks, NoEdit, EmptyDict
  <2>2. Amend(ds, e) \subseteq ds
    BY <2>1 DEF Amend
  <2> QED
    BY <1>1, <2>2 DEF Masks, Extends
<1>2. CASE Erases(f, m, e)
  <2>1. Amend(ds, e) \subseteq {d \in ds : d[1] \notin DOMAIN e}
    BY <1>2 DEF Amend, Erases
  <2> QED
    BY <1>2, <2>1 DEF Erases, Extends
<1>3. CASE Corrects(f, m, e)
  <2>1. PICK tok \in DOMAIN f, v \in Value : e = [k \in {tok} |-> v] /\ m = Put(f, tok, v)
    BY <1>3 DEF Corrects
  <2>2. /\ DOMAIN m = DOMAIN f /\ m[tok] = v
        /\ \A k \in DOMAIN f : k # tok => m[k] = f[k]
    BY <2>1 DEF Put
  <2>3. DOMAIN e = {tok} /\ e[tok] = v
    BY <2>1
  <2>4. ASSUME NEW d \in Amend(ds, e) PROVE d[1] \in DOMAIN m /\ m[d[1]] = d[2]
    <3>1. CASE d \in ds /\ d[1] # tok
      BY <2>2, <3>1
    <3>2. CASE d = <<tok, v>>
      BY <2>2, <3>2
    <3> QED
      BY <2>3, <2>4, <3>1, <3>2 DEF Amend
  <2> QED
    BY <2>4
<1> QED
  BY <1>1, <1>2, <1>3 DEF Pending

LEMMA ReplaceAlone ==
    ASSUME Distinct, VaultsInv, AloneInv, NEW p \in scene.procs, Replace(p), UNCHANGED scene
    PROVE  AloneInv'
<1>1. CASE ~Alone
  BY <1>1 DEF AloneInv, DocsRestore, Alone
<1>2. CASE Alone
  <2>1. scene'.procs = {p}
    BY <1>2, OneProc
  <2>2. FileOK'
    BY <1>2, Replaced DEF FileOK
  <2>3. WorkOK(p)'
    <3>1. CASE edit[p] = NoEdit
      <4>1. pc'[p] = "saved" /\ mem' = mem
        BY <1>2, <3>1, AloneShape DEF Replace
      <4> QED
        BY <1>2, <4>1, Replaced DEF WorkOK, Working
    <3>2. CASE edit[p] # NoEdit
      <4>1. pc'[p] = "idle"
        BY <1>2, <3>2, AloneShape DEF Replace
      <4> QED
        BY <4>1 DEF WorkOK, Working
    <3> QED
      BY <3>1, <3>2
  <2>4. ASSUME ~scene.gemma PROVE Restores(docs', mem[p])
    <3>1. \A d \in docs : d[1] \in DOMAIN Meant /\ Meant[d[1]] = d[2]
      BY <1>2, <2>4 DEF AloneInv, DocsRestore, Meant
    <3>2. docs' = Amend(docs, edit[p])
      BY DEF Replace
    <3> QED
      BY <1>2, <3>1, <3>2, Replaced, AmendRestores DEF Restores
  <2> QED
    BY <1>2, <2>1, <2>2, <2>3, <2>4, Replaced DEF AloneInv, DocsRestore, Restores, Alone
<1> QED
  BY <1>1, <1>2

LEMMA NextAloneInv == Distinct /\ SessionsInv /\ [Next]_vars => AloneInv'
<1> SUFFICES ASSUME Distinct, VaultsInv, AloneInv, [Next]_vars PROVE AloneInv'
  BY DEF SessionsInv
<1>1. ASSUME NEW p \in scene.procs, Step(p), UNCHANGED scene PROVE AloneInv'
  <2>1. CASE Open(p)
    BY <1>1, <2>1, OpenAlone
  <2>2. ASSUME NEW v \in scene.values, NEW t \in scene.types, MaskValue(p, v, t) \/ GemmaMask(p, v, t)
        PROVE  AloneInv'
    <3>1. v \in Value /\ t \in Type
      BY SceneShape
    <3> QED
      BY <1>1, <2>2, <3>1, MaskAlone, GemmaAlone DEF MaskValue
  <2>3. CASE StartSave(p) \/ OpenTmp(p) \/ WriteTmp(p)
    BY <1>1, <2>3, SaveAlone
  <2>4. CASE Replace(p)
    BY <1>1, <2>4, ReplaceAlone
  <2>5. CASE ReplaceFails(p) \/ Abort(p)
    BY <1>1, <2>5, ResetAlone DEF ReplaceFails, Abort
  <2>6. CASE Return(p)
    BY <1>1, <2>6, ReturnAlone
  <2>7. ASSUME NEW tok \in DOMAIN file.toValue, NEW v \in scene.values, RectifyToken(p, tok, v)
        PROVE  AloneInv'
    BY <1>1, <2>7, SceneShape, RectifyAlone
  <2>8. ASSUME NEW S \in SUBSET scene.values, ForgetValues(p, S)
        PROVE  AloneInv'
    BY <1>1, <2>8, ForgetAlone
  <2> QED
    BY <1>1, <2>1, <2>2, <2>3, <2>4, <2>5, <2>6, <2>7, <2>8 DEF Step
<1>2. CASE UNCHANGED vars
  <2>1. UNCHANGED <<file, tmp, pc, mem, edit, scene, docs, issued, Meant>>
    BY <1>2 DEF vars, Meant
  <2>2. ASSUME NEW p \in scene.procs PROVE WorkOK(p)' = WorkOK(p)
    <3>1. Pending(Meant, mem[p].toValue, edit[p])' = Pending(Meant, mem[p].toValue, edit[p])
      BY <2>1 DEF Pending, Masks, Erases, Corrects
    <3> QED
      BY <2>1, <3>1 DEF WorkOK
  <2>3. FileOK' = FileOK /\ DocsRestore' = DocsRestore /\ Alone' = Alone
    BY <2>1 DEF FileOK, DocsRestore, Alone
  <2> QED
    BY <2>1, <2>2, <2>3 DEF AloneInv
<1> QED
  BY <1>1, <1>2 DEF Next

LEMMA SessionsInvariant == ASSUME Distinct PROVE Spec => []SessionsInv
<1>1. Init => SessionsInv
  BY InitVaultsInv, InitAloneInv DEF SessionsInv
<1>2. SessionsInv /\ [Next]_vars => SessionsInv'
  BY NextVaultsInv, NextAloneInv DEF SessionsInv
<1> QED
  BY <1>1, <1>2, PTL DEF Spec

\* DocumentsRestore: one process at a time and without the second pass, however
\* often the process dies, whatever the web application erases or corrects in
\* between, the vault file restores every document that was returned.
THEOREM DocumentsRestore == ASSUME Distinct PROVE Spec => []DocsRestore
<1>1. SessionsInv => DocsRestore
  BY DEF SessionsInv, AloneInv
<1> QED
  BY <1>1, SessionsInvariant, PTL

-----------------------------------------------------------------------------
(***************************************************************************)
(* The file is a token book                                                *)
(***************************************************************************)

\* The book that the file is, one process at a time.
BookNow == IF Alone /\ file \notin {Absent, Torn} THEN file.toValue ELSE EmptyDict
UsedNow == IF Alone THEN issued ELSE {}

\* Whatever changes neither the file nor what it ever held leaves the book.
LEMMA BookStays ==
    ASSUME UNCHANGED scene, Alone => UNCHANGED <<file, issued>>
    PROVE  UNCHANGED <<BookNow, UsedNow>>
BY DEF BookNow, UsedNow, Alone

\* To replace the file is to hand out, to erase or to correct.
LEMMA ReplaceIsBook ==
    ASSUME Distinct, VaultsInv, AloneInv, Alone, NEW p \in scene.procs, Replace(p), UNCHANGED scene
    PROVE  Book!BookNext
<1>1. /\ BookNow = Meant /\ UsedNow = issued
      /\ BookNow' = mem[p].toValue /\ UsedNow' = issued \cup DOMAIN mem[p].toValue
      /\ DOMAIN Meant \subseteq issued
  <2>1. Alone'
    BY DEF Alone
  <2>2. BookNow = Meant /\ UsedNow = issued
    BY DEF BookNow, UsedNow, Meant
  <2> QED
    BY <2>1, <2>2, Replaced, AloneShape DEF BookNow, UsedNow
<1>2. CASE Masks(Meant, mem[p].toValue, edit[p])
  <2>1. /\ \A tok \in DOMAIN BookNow : tok \in DOMAIN BookNow' /\ BookNow'[tok] = BookNow[tok]
        /\ (DOMAIN BookNow' \ DOMAIN BookNow) \cap UsedNow = {}
        /\ UsedNow' = UsedNow \cup (DOMAIN BookNow' \ DOMAIN BookNow)
    BY <1>1, <1>2 DEF Masks, Extends
  <2> QED
    BY <2>1 DEF BookNow, UsedNow, Book!HandOut, Book!Kept, Book!BookNext
<1>3. CASE Erases(Meant, mem[p].toValue, edit[p])
  <2>1. /\ DOMAIN BookNow' \subseteq DOMAIN BookNow
        /\ \A tok \in DOMAIN BookNow' : BookNow'[tok] = BookNow[tok]
        /\ UsedNow' = UsedNow
    BY <1>1, <1>3 DEF Erases, Extends
  <2> QED
    BY <2>1 DEF BookNow, UsedNow, Book!Erase, Book!Kept, Book!BookNext
<1>4. CASE Corrects(Meant, mem[p].toValue, edit[p])
  <2>1. PICK tok \in DOMAIN Meant, v \in Value : mem[p].toValue = Put(Meant, tok, v)
    BY <1>4 DEF Corrects
  <2>2. /\ DOMAIN Put(Meant, tok, v) = DOMAIN Meant
        /\ \A k \in DOMAIN Meant \ {tok} : Put(Meant, tok, v)[k] = Meant[k]
    BY <2>1 DEF Put
  <2>3. /\ tok \in DOMAIN BookNow /\ DOMAIN BookNow' = DOMAIN BookNow
        /\ \A k \in DOMAIN BookNow \ {tok} : k \in DOMAIN BookNow' /\ BookNow'[k] = BookNow[k]
        /\ UsedNow' = UsedNow
    BY <1>1, <2>1, <2>2
  <2> QED
    BY <2>3 DEF BookNow, UsedNow, Book!Correct, Book!Kept, Book!BookNext
<1> QED
  BY <1>2, <1>3, <1>4, Replaced DEF Pending

LEMMA StepIsBook ==
    ASSUME Distinct, SessionsInv, [Next]_vars
    PROVE  [Book!BookNext]_(Book!bookVars)
<1> SUFFICES ASSUME VaultsInv, AloneInv, ~UNCHANGED <<BookNow, UsedNow>>
             PROVE  Book!BookNext
  BY DEF SessionsInv, BookNow, UsedNow, Book!bookVars
<1>1. UNCHANGED scene
  BY DEF Next, vars
<1>2. Alone
  BY <1>1, BookStays
<1>3. ~UNCHANGED <<file, issued>>
  BY <1>1, BookStays
<1>4. PICK p \in scene.procs : Step(p)
  BY <1>3 DEF Next, vars
<1>5. WriteTmp(p) => UNCHANGED <<file, issued>>
  <2>1. pc[p] # "writing file"
    BY <1>2, AloneShape DEF WorkOK, Working
  <2> QED
    BY <2>1 DEF WriteTmp
<1>6. Replace(p)
  BY <1>3, <1>4, <1>5 DEF Step, Open, MaskValue, GemmaMask, MaskWith, StartSave, OpenTmp,
       ReplaceFails, Return, Abort, RectifyToken, ForgetValues, EditWith
<1> QED
  BY <1>1, <1>2, <1>6, ReplaceIsBook

\* SessionsRefine: one process at a time, the vault file is a token book: what
\* is saved has fresh tokens and no other new meaning, or is the erasure or the
\* correction that was asked for, whatever processes died before.
THEOREM SessionsRefine == ASSUME Distinct PROVE Spec => FileIsBook
<1>1. Init => Book!BookInit
  <2> SUFFICES ASSUME Init PROVE BookNow = EmptyDict /\ UsedNow = {}
    BY DEF BookNow, UsedNow, Book!BookInit, EmptyDict
  <2> QED
    BY DEF Init, BookNow, UsedNow
<1>2. SessionsInv /\ [Next]_vars => [Book!BookNext]_(Book!bookVars)
  BY StepIsBook
<1> QED
  BY <1>1, <1>2, SessionsInvariant, PTL DEF Spec, FileIsBook, Book!BookSpec
=============================================================================
