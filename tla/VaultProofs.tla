---------------------------- MODULE VaultProofs ----------------------------
(***************************************************************************)
(* Proofs about Vault for every set of values, types, words and subjects.  *)
(*                                                                         *)
(* The argument: IInv is inductive.  Its part Numbered says that counters  *)
(* and letters run ahead of every token ever handed out, so a minted token *)
(* is new (MintsAreFresh); a new token cannot overwrite the meaning of one *)
(* in use, which is what RoundTrip and MaskingKeepsMeaning need.           *)
(***************************************************************************)
EXTENDS Vault, VaultOpsProofs

-----------------------------------------------------------------------------
(***************************************************************************)
(* Type correctness                                                        *)
(***************************************************************************)

LEMMA TypeStep ==
    ASSUME TypeOK, [Next]_vars
    PROVE  TypeOK'
<1>1. ASSUME NEW v \in Value, NEW t \in Type, RequestToken(v, t)
      PROVE  TypeOK'
  <2>1. IsVault(AfterTokenFor(vault, v, t))
    BY MintType DEF AfterTokenFor, TypeOK
  <2>2. TokenFor(vault, v, t) \in Token
    BY TokenForType DEF TypeOK
  <2>. QED
    BY <1>1, <2>1, <2>2 DEF RequestToken, TypeOK
<1>2. ASSUME NEW v \in Value, ForgetValue(v)
      PROVE  TypeOK'
  BY <1>2, ForgetType DEF ForgetValue, TypeOK
<1>3. ASSUME NEW S \in Subjects, ForgetSubject(S)
      PROVE  TypeOK'
  BY <1>3, ForgetType, SubjectsAssumption DEF ForgetSubject, TypeOK
<1>4. ASSUME NEW old \in Value, NEW new \in Value, RectifyValue(old, new)
      PROVE  TypeOK'
  BY <1>4, RectifyType DEF RectifyValue, TypeOK
<1>5. CASE UNCHANGED vars
  BY <1>5 DEF vars, TypeOK
<1>. QED
  BY <1>1, <1>2, <1>3, <1>4, <1>5 DEF Next

\* Every reachable vault has the shape the code gives it.
THEOREM TypeCorrect == Spec => []TypeOK
<1>1. Init => TypeOK
  BY EmptyVaultType DEF Init, TypeOK
<1>2. TypeOK /\ [Next]_vars => TypeOK'
  BY TypeStep
<1>. QED
  BY <1>1, <1>2, PTL DEF Spec

-----------------------------------------------------------------------------
(***************************************************************************)
(* Minted tokens are new                                                   *)
(***************************************************************************)

\* Counters and letters ahead of every issued token make a minted one new.
LEMMA FreshFromNumbered ==
    ASSUME TypeOK, Numbered
    PROVE  MintsAreFresh
<1>1. Covers(vault, issued) /\ IsVault(vault)
  BY DEF Numbered, Covers, TypeOK
<1>. QED
  BY <1>1, CoversFresh DEF MintsAreFresh

\* Minting keeps every issued token, and the new one, numbered.
LEMMA NumberedMint ==
    ASSUME TypeOK, Numbered, NEW v \in Value, NEW t \in Type,
           vault' = Mint(vault, v, t),
           issued' = issued \cup {NewToken(vault, v, t)}
    PROVE  Numbered'
<1>1. Covers(vault, issued) /\ IsVault(vault) /\ issued \in SUBSET Token
  BY DEF Numbered, Covers, TypeOK
<1>2. Covers(vault', issued')
  BY <1>1, CoversMint
<1>. QED
  BY <1>2 DEF Numbered, Covers

\* Erasure and rectification leave the numbering state alone.
LEMMA NumberedWithMaps ==
    ASSUME Numbered, NEW tokens, NEW values,
           vault' = WithMaps(vault, tokens, values), UNCHANGED issued,
           DOMAIN values \subseteq issued
    PROVE  Numbered'
<1>1. Covers(vault, issued)
  BY DEF Numbered, Covers
<1>2. Covers(vault', issued')
  BY <1>1, CoversWithMaps
<1>. QED
  BY <1>2 DEF Numbered, Covers

-----------------------------------------------------------------------------
(***************************************************************************)
(* The inductive invariant                                                 *)
(***************************************************************************)

LEMMA IInvStep ==
    ASSUME IInv, [Next]_vars
    PROVE  IInv'
<1> USE DEF IInv
<1>1. TypeOK'
  BY TypeStep
<1>2. Agree(vault)
  BY DEF RoundTrip, Agree
<1>3. IsVault(vault)
  BY DEF TypeOK
<1>4. SUFFICES Agree(vault') /\ Numbered'
  BY <1>1 DEF RoundTrip, Agree
<1>5. ASSUME NEW v \in Value, NEW t \in Type, RequestToken(v, t)
      PROVE  Agree(vault') /\ Numbered'
  <2>1. CASE HasToken(vault, v, t)
    <3>1. vault' = vault /\ TokenFor(vault, v, t) = vault.toToken[v]
      BY <1>5, <2>1 DEF RequestToken, AfterTokenFor, TokenFor
    <3>2. vault.toToken[v] \in issued
      BY <1>2, <2>1 DEF HasToken, Agree, Numbered
    <3>3. issued' = issued
      BY <1>5, <3>1, <3>2 DEF RequestToken
    <3>. QED
      BY <1>2, <3>1, <3>3 DEF Numbered, NextVariant
  <2>2. CASE ~HasToken(vault, v, t)
    <3>1. /\ vault' = Mint(vault, v, t)
          /\ issued' = issued \cup {NewToken(vault, v, t)}
      BY <1>5, <2>2 DEF RequestToken, AfterTokenFor, TokenFor
    <3>2. NewToken(vault, v, t) \notin DOMAIN vault.toValue
      BY <2>2, FreshFromNumbered DEF MintsAreFresh, Numbered
    <3>. QED
      BY <1>2, <1>3, <3>1, <3>2, AgreeMint, NumberedMint
  <2>. QED
    BY <2>1, <2>2
<1>6. \A S : vault' = Forget(vault, S) /\ UNCHANGED issued
               => Agree(vault') /\ Numbered'
  <2>1. SUFFICES ASSUME NEW S, vault' = Forget(vault, S), UNCHANGED issued
                 PROVE  Agree(vault') /\ Numbered'
    OBVIOUS
  <2>2. Agree(vault')
    BY <1>2, <1>3, <2>1, AgreeForget
  <2> DEFINE gone   == S \cap DOMAIN vault.toToken
             values == Drop(vault.toValue, {vault.toToken[v] : v \in gone})
  <2>3. vault' = WithMaps(vault, Drop(vault.toToken, gone), values)
    BY <2>1 DEF Forget
  <2>4. DOMAIN values \subseteq issued
    BY DEF Drop, Numbered
  <2> HIDE DEF gone, values
  <2>5. Numbered'
    BY <2>1, <2>3, <2>4, NumberedWithMaps
  <2>. QED
    BY <2>2, <2>5
<1>7. ASSUME NEW v \in Value, ForgetValue(v)
      PROVE  Agree(vault') /\ Numbered'
  BY <1>6, <1>7 DEF ForgetValue
<1>8. ASSUME NEW S \in Subjects, ForgetSubject(S)
      PROVE  Agree(vault') /\ Numbered'
  BY <1>6, <1>8 DEF ForgetSubject
<1>9. ASSUME NEW old \in Value, NEW new \in Value, RectifyValue(old, new)
      PROVE  Agree(vault') /\ Numbered'
  <2>1. Agree(vault')
    BY <1>2, <1>3, <1>9, AgreeRectify DEF RectifyValue
  <2> DEFINE tok    == vault.toToken[old]
             tokens == Put(Drop(vault.toToken, {old}), new, tok)
             values == Put(vault.toValue, tok, new)
  <2>2. vault' = WithMaps(vault, tokens, values)
    BY <1>9 DEF RectifyValue, Rectify
  <2>3. tok \in DOMAIN vault.toValue
    BY <1>2, <1>9 DEF Agree, RectifyValue
  <2>4. DOMAIN values \subseteq issued
    BY <2>3 DEF Put, Numbered
  <2> HIDE DEF tok, tokens, values
  <2>5. Numbered'
    BY <1>9, <2>2, <2>4, NumberedWithMaps DEF RectifyValue
  <2>. QED
    BY <2>1, <2>5
<1>10. CASE UNCHANGED vars
  BY <1>2, <1>10 DEF vars, Numbered, NextVariant
<1>. QED
  BY <1>5, <1>7, <1>8, <1>9, <1>10 DEF Next

LEMMA IInvInit ==
    ASSUME Init
    PROVE  IInv
BY EmptyVaultType
   DEF Init, IInv, TypeOK, RoundTrip, Numbered, EmptyVault, EmptyDict

\* IInv holds in every reachable state.
THEOREM Invariance == Spec => []IInv
<1>1. Init => IInv
  BY IInvInit
<1>2. IInv /\ [Next]_vars => IInv'
  BY IInvStep
<1>. QED
  BY <1>1, <1>2, PTL DEF Spec

\* Counters and letters run ahead of every token handed out.
THEOREM NumberingAhead == Spec => []Numbered
<1>1. IInv => Numbered
  BY DEF IInv
<1>. QED
  BY <1>1, Invariance, PTL

\* Restoring the token of a value gives the value back, always.
THEOREM Reversible == Spec => []RoundTrip
<1>1. IInv => RoundTrip
  BY DEF IInv
<1>. QED
  BY <1>1, Invariance, PTL

\* No token is ever handed out for a second meaning by minting.
THEOREM FreshTokens == Spec => []MintsAreFresh
<1>1. IInv => MintsAreFresh
  BY FreshFromNumbered DEF IInv
<1>. QED
  BY <1>1, Invariance, PTL

-----------------------------------------------------------------------------
(***************************************************************************)
(* Masking never changes what a token restores to                          *)
(***************************************************************************)

LEMMA MaskingStep ==
    ASSUME IInv, NEW v \in Value, NEW t \in Type, RequestToken(v, t),
           NEW tok \in DOMAIN vault.toValue
    PROVE  /\ tok \in DOMAIN vault'.toValue
           /\ vault'.toValue[tok] = vault.toValue[tok]
<1>1. CASE HasToken(vault, v, t)
  BY <1>1 DEF RequestToken, AfterTokenFor
<1>2. CASE ~HasToken(vault, v, t)
  <2>1. vault'.toValue = Put(vault.toValue, NewToken(vault, v, t), v)
    BY <1>2 DEF RequestToken, AfterTokenFor, Mint
  <2>2. NewToken(vault, v, t) # tok
    BY <1>2, FreshFromNumbered DEF IInv, MintsAreFresh, Numbered
  <2>. QED
    BY <2>1, <2>2 DEF Put
<1>. QED
  BY <1>1, <1>2

\* Anonymising further documents never changes what a token restores to.
THEOREM StableMeaning == Spec => MaskingKeepsMeaning
<1>1. IInv /\ [Next]_vars =>
        [(\E v \in Value, t \in Type : RequestToken(v, t)) =>
            \A tok \in DOMAIN vault.toValue :
                /\ tok \in DOMAIN vault'.toValue
                /\ vault'.toValue[tok] = vault.toValue[tok]]_vars
  BY MaskingStep
<1>. QED
  BY <1>1, Invariance, PTL DEF Spec, MaskingKeepsMeaning

-----------------------------------------------------------------------------
(***************************************************************************)
(* The vault implements the token book                                     *)
(***************************************************************************)

LEMMA MintHandsOut ==
    ASSUME IInv, NEW v \in Value, NEW t \in Type, RequestToken(v, t)
    PROVE  Book!HandOut
<1>1. Book!Kept(DOMAIN vault.toValue)
  BY MaskingStep DEF Book!Kept
<1>2. CASE HasToken(vault, v, t)
  <2>1. vault' = vault /\ TokenFor(vault, v, t) = vault.toToken[v]
    BY <1>2 DEF RequestToken, AfterTokenFor, TokenFor
  <2>2. vault.toToken[v] \in issued
    BY <1>2 DEF HasToken, IInv, RoundTrip, Numbered
  <2>3. issued' = issued
    BY <2>1, <2>2 DEF RequestToken
  <2>. QED
    BY <1>1, <2>1, <2>3 DEF Book!HandOut
<1>3. CASE ~HasToken(vault, v, t)
  <2> DEFINE tok == NewToken(vault, v, t)
  <2>1. /\ vault'.toValue = Put(vault.toValue, tok, v)
        /\ issued' = issued \cup {tok}
    BY <1>3 DEF RequestToken, AfterTokenFor, TokenFor, Mint
  <2>2. tok \notin issued
    BY <1>3, FreshFromNumbered DEF IInv, MintsAreFresh
  <2>3. DOMAIN vault.toValue \subseteq issued
    BY DEF IInv, Numbered
  <2> HIDE DEF tok
  <2>4. DOMAIN vault'.toValue = DOMAIN vault.toValue \cup {tok}
    BY <2>1 DEF Put
  <2>. QED
    BY <1>1, <2>1, <2>2, <2>3, <2>4 DEF Book!HandOut
<1>. QED
  BY <1>2, <1>3

LEMMA ForgetIsErase ==
    ASSUME NEW S, vault' = Forget(vault, S), UNCHANGED issued
    PROVE  Book!Erase
BY DEF Forget, WithMaps, Drop, Book!Erase, Book!Kept

LEMMA RectifyCorrects ==
    ASSUME IInv, NEW old \in Value, NEW new \in Value, RectifyValue(old, new)
    PROVE  Book!Correct
<1> DEFINE tok == vault.toToken[old]
<1>1. vault'.toValue = Put(vault.toValue, tok, new)
  BY DEF RectifyValue, Rectify, WithMaps
<1>2. tok \in DOMAIN vault.toValue /\ UNCHANGED issued
  BY DEF IInv, RoundTrip, RectifyValue
<1> HIDE DEF tok
<1>3. /\ DOMAIN vault'.toValue = DOMAIN vault.toValue
      /\ \A k \in DOMAIN vault.toValue \ {tok} : vault'.toValue[k] = vault.toValue[k]
  BY <1>1, <1>2 DEF Put
<1>. QED
  BY <1>2, <1>3 DEF Book!Correct, Book!Kept

\* Every behaviour of the vault is one of the token book: a token is given a
\* meaning once, when it is handed out, and only a correction or an erasure
\* touches that meaning.
THEOREM Refinement == Spec => VaultIsBook
<1>1. Init => Book!BookInit
  BY DEF Init, Book!BookInit, EmptyVault, EmptyDict
<1>2. IInv /\ [Next]_vars => [Book!BookNext]_(Book!bookVars)
  <2> SUFFICES ASSUME IInv, [Next]_vars
               PROVE  [Book!BookNext]_(Book!bookVars)
    OBVIOUS
  <2>1. ASSUME NEW v \in Value, NEW t \in Type, RequestToken(v, t)
        PROVE  Book!BookNext
    BY <2>1, MintHandsOut DEF Book!BookNext
  <2>2. ASSUME NEW v \in Value, ForgetValue(v)
        PROVE  Book!BookNext
    BY <2>2, ForgetIsErase DEF ForgetValue, Book!BookNext
  <2>3. ASSUME NEW S \in Subjects, ForgetSubject(S)
        PROVE  Book!BookNext
    BY <2>3, ForgetIsErase DEF ForgetSubject, Book!BookNext
  <2>4. ASSUME NEW old \in Value, NEW new \in Value, RectifyValue(old, new)
        PROVE  Book!BookNext
    BY <2>4, RectifyCorrects DEF Book!BookNext
  <2>5. CASE UNCHANGED vars
    BY <2>5 DEF vars, Book!bookVars
  <2>. QED
    BY <2>1, <2>2, <2>3, <2>4, <2>5 DEF Next
<1>. QED
  BY <1>1, <1>2, Invariance, PTL DEF Spec, VaultIsBook, Book!BookSpec
=============================================================================
