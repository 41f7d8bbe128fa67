--------------------------- MODULE VaultOpsProofs ---------------------------
(***************************************************************************)
(* Lemmas about the methods of the Vault class, for every vault: what each *)
(* keeps of its shape, of the agreement of its two dictionaries and of the *)
(* numbering that runs ahead of the tokens handed out.                     *)
(***************************************************************************)
EXTENDS VaultOps, WellFoundedInduction, TLAPS

-----------------------------------------------------------------------------
(***************************************************************************)
(* Dictionaries                                                            *)
(***************************************************************************)

\* Setting a key keeps a dictionary well formed and changes that key only.
LEMMA PutLaws ==
    ASSUME NEW K, NEW V, NEW d, IsDict(d, K, V), NEW k \in K, NEW x \in V
    PROVE  /\ IsDict(Put(d, k, x), K, V)
           /\ DOMAIN Put(d, k, x) = DOMAIN d \cup {k}
           /\ Put(d, k, x)[k] = x
           /\ \A j \in DOMAIN d : j # k => Put(d, k, x)[j] = d[j]
BY DEF IsDict, Put

\* Removing keys keeps a dictionary well formed and the other keys' values.
LEMMA DropLaws ==
    ASSUME NEW K, NEW V, NEW d, IsDict(d, K, V), NEW S
    PROVE  /\ IsDict(Drop(d, S), K, V)
           /\ DOMAIN Drop(d, S) = DOMAIN d \ S
           /\ \A j \in DOMAIN d \ S : Drop(d, S)[j] = d[j]
BY DEF IsDict, Drop

-----------------------------------------------------------------------------
(***************************************************************************)
(* Minting                                                                 *)
(***************************************************************************)

\* A nonempty set of naturals has a least element.
LEMMA LeastNatural ==
    ASSUME NEW S \in SUBSET Nat, S # {}
    PROVE  \E i \in S : \A j \in S : i <= j
<1>1. PICK i \in S : \A j \in S : <<j, i>> \notin OpToRel(<, Nat)
  BY NatLessThanWellFounded, WFMin
<1>2. \A j \in S : ~(j < i)
  BY <1>1 DEF OpToRel
<1>. QED
  BY <1>2

\* A name with a known word gets the number of a person the vault knows.
LEMMA PersonForNat ==
    ASSUME NEW vt, IsVault(vt), NEW v \in Value, KnownAt(vt, v) # {}
    PROVE  PersonFor(vt, v) \in Nat
<1>1. KnownAt(vt, v) \in SUBSET Nat
  BY VaultAssumption DEF KnownAt
<1>2. \E i \in KnownAt(vt, v) : \A j \in KnownAt(vt, v) : i <= j
  BY <1>1, LeastNatural
<1> DEFINE first == CHOOSE i \in KnownAt(vt, v) :
                        \A j \in KnownAt(vt, v) : i <= j
<1>3. first \in KnownAt(vt, v)
  BY <1>2
<1>4. NameWords[v][first] \in DOMAIN vt.personOf
  BY <1>3 DEF KnownAt
<1>5. vt.personOf \in [DOMAIN vt.personOf -> Nat]
  BY DEF IsVault, IsDict
<1>. QED
  BY <1>4, <1>5 DEF PersonFor

LEMMA NextVariantNat ==
    ASSUME NEW vt, IsVault(vt), NEW n \in Nat
    PROVE  NextVariant(vt, n) \in Nat
BY DEF NextVariant, Get, IsVault, IsDict

\* What is minted is a token.
LEMMA NewTokenType ==
    ASSUME NEW vt, IsVault(vt), NEW v \in Value, NEW t \in Type
    PROVE  NewToken(vt, v, t) \in Token
<1>1. CASE IsVariant(vt, v, t)
  <2>1. PersonFor(vt, v) \in Nat
    BY <1>1, PersonForNat DEF IsVariant
  <2>2. NextVariant(vt, PersonFor(vt, v)) \in Nat
    BY <2>1, NextVariantNat
  <2>. QED
    BY <1>1, <2>1, <2>2 DEF NewToken, Token
<1>2. CASE ~IsVariant(vt, v, t)
  BY <1>2 DEF NewToken, Token, IsVault
<1>. QED
  BY <1>1, <1>2

\* Minting keeps the vault well formed.
LEMMA MintType ==
    ASSUME NEW vt, IsVault(vt), NEW v \in Value, NEW t \in Type
    PROVE  IsVault(Mint(vt, v, t))
<1> DEFINE tok == NewToken(vt, v, t)
<1>1. tok \in Token /\ tok.num \in Nat /\ tok.variant \in Nat
  BY NewTokenType DEF Token
<1>2. IsDict(Mint(vt, v, t).toToken, Value, Token)
  BY <1>1, PutLaws DEF Mint, IsVault
<1>3. IsDict(Mint(vt, v, t).toValue, Token, Value)
  BY <1>1, PutLaws DEF Mint, IsVault
<1>4. Mint(vt, v, t).counters \in [Type -> Nat]
  BY <1>1 DEF Mint, IsVault
<1>5. IsDict(Register(vt.personOf, v, tok.num), Word, Nat)
  <2>1. \A i \in 1..Len(NameWords[v]) : NameWords[v][i] \in Word
    BY VaultAssumption
  <2>. QED
    BY <1>1, <2>1 DEF Register, Get, IsDict, IsVault
<1>6. IsDict(Mint(vt, v, t).personOf, Word, Nat)
  BY <1>5 DEF Mint, IsVault
<1>7. IsDict(Mint(vt, v, t).variantSeq, Nat, Nat)
  BY <1>1, PutLaws DEF Mint, IsVault
<1>. QED
  BY <1>2, <1>3, <1>4, <1>6, <1>7 DEF IsVault, Mint

\* Replacing the dictionaries by dictionaries gives a vault.
LEMMA WithMapsType ==
    ASSUME NEW vt, IsVault(vt), NEW tokens, NEW values,
           IsDict(tokens, Value, Token), IsDict(values, Token, Value)
    PROVE  IsVault(WithMaps(vt, tokens, values))
BY DEF IsVault, WithMaps

LEMMA ForgetType ==
    ASSUME NEW vt, IsVault(vt), NEW S
    PROVE  IsVault(Forget(vt, S))
<1>1. \A G : IsDict(Drop(vt.toToken, G), Value, Token)
  BY DropLaws DEF IsVault
<1>2. \A G : IsDict(Drop(vt.toValue, G), Token, Value)
  BY DropLaws DEF IsVault
<1>. QED
  BY <1>1, <1>2, WithMapsType DEF Forget

LEMMA RectifyType ==
    ASSUME NEW vt, IsVault(vt),
           NEW old \in DOMAIN vt.toToken, NEW new \in Value
    PROVE  IsVault(Rectify(vt, old, new))
<1>1. vt.toToken[old] \in Token
  BY DEF IsVault, IsDict
<1>2. IsDict(Drop(vt.toToken, {old}), Value, Token)
  BY DropLaws DEF IsVault
<1>3. IsDict(Put(Drop(vt.toToken, {old}), new, vt.toToken[old]), Value, Token)
  BY <1>1, <1>2, PutLaws
<1>4. IsDict(Put(vt.toValue, vt.toToken[old], new), Token, Value)
  BY <1>1, PutLaws DEF IsVault
<1>. QED
  BY <1>3, <1>4, WithMapsType DEF Rectify

\* The tokens the vault holds, and the one it would mint, are tokens.
LEMMA TokenForType ==
    ASSUME NEW vt, IsVault(vt), NEW v \in Value, NEW t \in Type
    PROVE  TokenFor(vt, v, t) \in Token
BY NewTokenType DEF TokenFor, HasToken, IsVault, IsDict

\* A new vault is one.
LEMMA EmptyVaultType == IsVault(EmptyVault)
BY DEF IsVault, EmptyVault, EmptyDict, IsDict

-----------------------------------------------------------------------------
(***************************************************************************)
(* The numbering runs ahead of the tokens handed out                       *)
(***************************************************************************)

\* The tokens that restore are among those of S, and what numbered the tokens
\* of S still covers them all.
Covers(vt, S) ==
    /\ DOMAIN vt.toValue \subseteq S
    /\ \A tok \in S :
          /\ tok.num <= vt.counters[tok.type]
          /\ IF tok.type = Nom THEN tok.variant < NextVariant(vt, tok.num)
                               ELSE tok.variant = 0
    /\ \A w \in DOMAIN vt.personOf : vt.personOf[w] <= vt.counters[Nom]

\* A minted token is none of those covered.
LEMMA CoversFresh ==
    ASSUME NEW vt, IsVault(vt), NEW S, Covers(vt, S), NEW v \in Value, NEW t \in Type
    PROVE  NewToken(vt, v, t) \notin S
<1> SUFFICES ASSUME NewToken(vt, v, t) \in S
             PROVE  FALSE
  OBVIOUS
<1> DEFINE tok == NewToken(vt, v, t)
<1>1. tok \in Token /\ tok.num \in Nat /\ tok.variant \in Nat
  BY NewTokenType DEF Token
<1>2. CASE IsVariant(vt, v, t)
  <2>1. tok.type = Nom /\ tok.variant = NextVariant(vt, tok.num)
    BY <1>2 DEF NewToken, IsVariant
  <2>2. tok.variant < NextVariant(vt, tok.num)
    BY <2>1 DEF Covers
  <2>. QED
    BY <1>1, <2>1, <2>2
<1>3. CASE ~IsVariant(vt, v, t)
  <2>1. tok.type = t /\ tok.num = vt.counters[t] + 1
    BY <1>3 DEF NewToken
  <2>2. tok.num <= vt.counters[tok.type]
    BY DEF Covers
  <2>3. vt.counters[t] \in Nat
    BY DEF IsVault
  <2>. QED
    BY <2>1, <2>2, <2>3
<1>. QED
  BY <1>2, <1>3

\* Erasure and rectification leave the numbering state alone.
LEMMA CoversWithMaps ==
    ASSUME NEW vt, NEW S, Covers(vt, S), NEW tokens, NEW values, DOMAIN values \subseteq S
    PROVE  Covers(WithMaps(vt, tokens, values), S)
BY DEF Covers, WithMaps, NextVariant

\* The number of a known name is a person's, hence within the counter.
LEMMA PersonForBound ==
    ASSUME NEW vt, IsVault(vt), NEW v \in Value, KnownAt(vt, v) # {},
           \A w \in DOMAIN vt.personOf : vt.personOf[w] <= vt.counters[Nom]
    PROVE  PersonFor(vt, v) <= vt.counters[Nom]
<1>1. KnownAt(vt, v) \in SUBSET Nat
  BY VaultAssumption DEF KnownAt
<1>2. \E i \in KnownAt(vt, v) : \A j \in KnownAt(vt, v) : i <= j
  BY <1>1, LeastNatural
<1> DEFINE first == CHOOSE i \in KnownAt(vt, v) :
                        \A j \in KnownAt(vt, v) : i <= j
<1>3. first \in KnownAt(vt, v)
  BY <1>2
<1>4. NameWords[v][first] \in DOMAIN vt.personOf
  BY <1>3 DEF KnownAt
<1>. QED
  BY <1>4 DEF PersonFor

\* Minting covers the minted token too.
LEMMA CoversMint ==
    ASSUME NEW vt, IsVault(vt), NEW S \in SUBSET Token, Covers(vt, S),
           NEW v \in Value, NEW t \in Type
    PROVE  Covers(Mint(vt, v, t), S \cup {NewToken(vt, v, t)})
<1> DEFINE tok == NewToken(vt, v, t)
           new == Mint(vt, v, t)
           T   == S \cup {tok}
<1>1. tok \in Token /\ tok.num \in Nat /\ tok.variant \in Nat
  BY NewTokenType DEF Token
<1>2. tok.type = t
  BY DEF NewToken
<1>3. tok.num <= new.counters[t]
  <2>1. CASE IsVariant(vt, v, t)
    <3>1. t = Nom /\ tok.num = PersonFor(vt, v)
      BY <2>1 DEF NewToken, IsVariant
    <3>2. PersonFor(vt, v) <= vt.counters[Nom]
      BY <2>1, PersonForBound DEF IsVariant, Covers
    <3>. QED
      BY <2>1, <3>1, <3>2 DEF Mint
  <2>2. CASE ~IsVariant(vt, v, t)
    BY <2>2, <1>1 DEF Mint, IsVault
  <2>. QED
    BY <2>1, <2>2
<1>4. \A u \in Type : vt.counters[u] <= new.counters[u]
  BY <1>1 DEF Mint, IsVault, NewToken
<1>5. \A n \in Nat : NextVariant(vt, n) <= NextVariant(new, n)
  <2>1. CASE IsVariant(vt, v, t)
    <3>1. tok.variant = NextVariant(vt, tok.num)
      BY <2>1 DEF NewToken
    <3>2. new.variantSeq = Put(vt.variantSeq, tok.num, tok.variant)
      BY <2>1 DEF Mint
    <3>3. NextVariant(vt, tok.num) <= NextVariant(new, tok.num)
      BY <1>1, <3>1, <3>2 DEF NextVariant, Get, Put
    <3>4. \A n \in Nat : n # tok.num => NextVariant(vt, n) = NextVariant(new, n)
      BY <1>1, <3>2 DEF NextVariant, Get, Put
    <3>. QED
      BY <3>3, <3>4, NextVariantNat
  <2>2. CASE ~IsVariant(vt, v, t)
    BY <2>2, NextVariantNat DEF Mint, NextVariant
  <2>. QED
    BY <2>1, <2>2
<1>6. IF t = Nom THEN tok.variant < NextVariant(new, tok.num)
                 ELSE tok.variant = 0
  <2>1. CASE IsVariant(vt, v, t)
    <3>1. new.variantSeq = Put(vt.variantSeq, tok.num, tok.variant)
      BY <2>1 DEF Mint
    <3>2. NextVariant(new, tok.num) = tok.variant + 1
      BY <3>1 DEF NextVariant, Get, Put
    <3>3. t = Nom
      BY <2>1 DEF IsVariant
    <3>4. tok.variant < tok.variant + 1
      BY <1>1
    <3> HIDE DEF tok
    <3>. QED
      BY <3>2, <3>3, <3>4
  <2>2. CASE ~IsVariant(vt, v, t)
    <3>1. tok.variant = 0
      BY <2>2 DEF NewToken
    <3>2. new.variantSeq = vt.variantSeq
      BY <2>2 DEF Mint
    <3>3. 0 < NextVariant(new, tok.num)
      BY <1>1, <3>2 DEF NextVariant, Get, IsVault, IsDict
    <3> HIDE DEF tok
    <3>. QED
      BY <3>1, <3>3
  <2>. QED
    BY <2>1, <2>2
<1>7. DOMAIN new.toValue \subseteq T
  BY DEF Mint, Put, Covers
<1>8. IsVault(new)
  BY MintType
<1>9. \A k \in T : k.num <= new.counters[k.type]
  <2>1. \A k \in S : /\ k \in Token /\ k.num <= vt.counters[k.type]
    BY DEF Covers
  <2>2. \A u \in Type : vt.counters[u] \in Nat /\ new.counters[u] \in Nat
    BY <1>8 DEF IsVault
  <2>. QED
    BY <1>2, <1>3, <1>4, <2>1, <2>2 DEF Token
<1>10. \A k \in T : IF k.type = Nom THEN k.variant < NextVariant(new, k.num)
                                     ELSE k.variant = 0
  <2>1. \A k \in S : /\ k \in Token
                     /\ IF k.type = Nom THEN k.variant < NextVariant(vt, k.num)
                                        ELSE k.variant = 0
    BY DEF Covers
  <2>2. \A n \in Nat : NextVariant(vt, n) \in Nat /\ NextVariant(new, n) \in Nat
    BY <1>8, NextVariantNat
  <2>. QED
    BY <1>2, <1>5, <1>6, <2>1, <2>2 DEF Token
<1>11. \A w \in DOMAIN new.personOf : new.personOf[w] <= new.counters[Nom]
  <2>1. \A w \in DOMAIN vt.personOf : /\ vt.personOf[w] \in Nat
                                         /\ vt.personOf[w] <= vt.counters[Nom]
    BY DEF Covers, IsVault, IsDict
  <2>2. vt.counters[Nom] \in Nat /\ new.counters[Nom] \in Nat
    BY <1>8, VaultAssumption DEF IsVault
  <2>3. vt.counters[Nom] <= new.counters[Nom]
    BY <1>4, VaultAssumption
  <2>4. CASE t = Nom
    <3>1. new.personOf = Register(vt.personOf, v, tok.num)
      BY <2>4 DEF Mint
    <3>. QED
      BY <1>1, <1>3, <2>1, <2>2, <2>3, <2>4, <3>1 DEF Register, Get
  <2>5. CASE t # Nom
    BY <2>1, <2>2, <2>3, <2>5 DEF Mint
  <2>. QED
    BY <2>4, <2>5
<1>. QED
  BY <1>7, <1>9, <1>10, <1>11 DEF Covers

-----------------------------------------------------------------------------
(***************************************************************************)
(* The two dictionaries agree                                              *)
(***************************************************************************)

\* What a vault's two dictionaries agreeing means, for any vault.
Agree(vt) ==
    \A v \in DOMAIN vt.toToken :
        /\ vt.toToken[v] \in DOMAIN vt.toValue
        /\ vt.toValue[vt.toToken[v]] = v

\* Minting a token that restores to nothing keeps the dictionaries agreeing.
LEMMA AgreeMint ==
    ASSUME NEW vt, IsVault(vt), Agree(vt), NEW v \in Value, NEW t \in Type,
           NewToken(vt, v, t) \notin DOMAIN vt.toValue
    PROVE  Agree(Mint(vt, v, t))
<1> DEFINE tok == NewToken(vt, v, t)
<1>1. tok \in Token
  BY NewTokenType
<1>2. /\ DOMAIN Put(vt.toToken, v, tok) = DOMAIN vt.toToken \cup {v}
      /\ Put(vt.toToken, v, tok)[v] = tok
      /\ \A j \in DOMAIN vt.toToken :
            j # v => Put(vt.toToken, v, tok)[j] = vt.toToken[j]
  BY <1>1, PutLaws DEF IsVault
<1>3. /\ DOMAIN Put(vt.toValue, tok, v) = DOMAIN vt.toValue \cup {tok}
      /\ Put(vt.toValue, tok, v)[tok] = v
      /\ \A k \in DOMAIN vt.toValue :
            k # tok => Put(vt.toValue, tok, v)[k] = vt.toValue[k]
  BY DEF Put
<1>4. /\ Mint(vt, v, t).toToken = Put(vt.toToken, v, tok)
      /\ Mint(vt, v, t).toValue = Put(vt.toValue, tok, v)
  BY DEF Mint
<1>5. tok \notin DOMAIN vt.toValue
  OBVIOUS
<1> HIDE DEF tok
<1>. QED
  BY <1>2, <1>3, <1>4, <1>5 DEF Agree

\* Distinct values have distinct tokens, so erasing some values' tokens
\* leaves the others' restoring.
LEMMA AgreeForget ==
    ASSUME NEW vt, IsVault(vt), Agree(vt), NEW S
    PROVE  Agree(Forget(vt, S))
<1> DEFINE gone   == S \cap DOMAIN vt.toToken
           tokens == Drop(vt.toToken, gone)
           values == Drop(vt.toValue, {vt.toToken[v] : v \in gone})
<1>1. Forget(vt, S).toToken = tokens /\ Forget(vt, S).toValue = values
  BY DEF Forget, WithMaps
<1>2. ASSUME NEW v \in DOMAIN tokens
      PROVE  tokens[v] \in DOMAIN values /\ values[tokens[v]] = v
  <2>1. v \in DOMAIN vt.toToken /\ v \notin gone /\ tokens[v] = vt.toToken[v]
    BY <1>2 DEF Drop
  <2>2. vt.toToken[v] \in DOMAIN vt.toValue /\ vt.toValue[vt.toToken[v]] = v
    BY <2>1 DEF Agree
  <2>3. vt.toToken[v] \notin {vt.toToken[u] : u \in gone}
    BY <2>1, <2>2 DEF Agree
  <2>. QED
    BY <2>1, <2>2, <2>3 DEF Drop
<1>. QED
  BY <1>1, <1>2 DEF Agree

\* Moving a token from one value to another keeps the dictionaries agreeing.
LEMMA AgreeRectify ==
    ASSUME NEW vt, IsVault(vt), Agree(vt),
           NEW old \in DOMAIN vt.toToken, NEW new \in Value
    PROVE  Agree(Rectify(vt, old, new))
<1> DEFINE tok    == vt.toToken[old]
           tokens == Put(Drop(vt.toToken, {old}), new, tok)
           values == Put(vt.toValue, tok, new)
<1>1. Rectify(vt, old, new).toToken = tokens /\ Rectify(vt, old, new).toValue = values
  BY DEF Rectify, WithMaps
<1>2. ASSUME NEW v \in DOMAIN tokens
      PROVE  tokens[v] \in DOMAIN values /\ values[tokens[v]] = v
  <2>1. CASE v = new
    BY <2>1 DEF Put
  <2>2. CASE v # new
    <3>1. v \in DOMAIN vt.toToken /\ v # old /\ tokens[v] = vt.toToken[v]
      BY <1>2, <2>2 DEF Put, Drop
    <3>2. vt.toToken[v] \in DOMAIN vt.toValue /\ vt.toValue[vt.toToken[v]] = v
      BY <3>1 DEF Agree
    <3>3. vt.toToken[v] # tok
      BY <3>1, <3>2 DEF Agree
    <3>. QED
      BY <3>1, <3>2, <3>3 DEF Put
  <2>. QED
    BY <2>1, <2>2
<1>. QED
  BY <1>1, <1>2 DEF Agree
=============================================================================
