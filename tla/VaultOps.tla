------------------------------ MODULE VaultOps ------------------------------
(***************************************************************************)
(* The Vault class of vault.py: a reversible map between the real values   *)
(* of one mission and the opaque tokens that replace them in documents.    *)
(*                                                                         *)
(* Every method of the class is an operator from a vault to a vault, so    *)
(* that Vault (one vault in memory) and VaultSessions (several processes   *)
(* sharing one vault file) use the same definitions.                       *)
(***************************************************************************)
EXTENDS Integers, Sequences

CONSTANTS
    Value,       \* real values (names, addresses, ...)
    Type,        \* entity types
    Nom,         \* the entity type of person names, "NOM"
    Word,        \* distinctive name words
    NameWords,   \* value -> the sequence of its distinctive words
    TypePrefix   \* pairs <<p, t>> such that the name of t starts with p

ASSUME VaultAssumption ==
    /\ Nom \in Type
    /\ NameWords \in [Value -> Seq(Word)]
    /\ \A t \in Type : <<t, t>> \in TypePrefix

\* variant = 0 is the bare number; variant = i is the i-th letter suffix.
Token == [type : Type, num : Nat, variant : Nat]

\* A Python dict: a function whose domain is its set of keys.
IsDict(d, K, V) == d \in [DOMAIN d -> V] /\ DOMAIN d \subseteq K
EmptyDict       == [k \in {} |-> k]
Put(d, k, x)    == [j \in DOMAIN d \cup {k} |-> IF j = k THEN x ELSE d[j]]
Drop(d, K)      == [j \in DOMAIN d \ K |-> d[j]]
Get(d, k, x)    == IF k \in DOMAIN d THEN d[k] ELSE x

IsVault(vt) ==
    /\ vt = [toToken    |-> vt.toToken,    toValue    |-> vt.toValue,
             counters   |-> vt.counters,   personOf   |-> vt.personOf,
             variantSeq |-> vt.variantSeq]
    /\ IsDict(vt.toToken, Value, Token)
    /\ IsDict(vt.toValue, Token, Value)
    /\ vt.counters \in [Type -> Nat]
    /\ IsDict(vt.personOf, Word, Nat)
    /\ IsDict(vt.variantSeq, Nat, Nat)

EmptyVault ==
    [toToken  |-> EmptyDict, toValue    |-> EmptyDict,
     counters |-> [t \in Type |-> 0],
     personOf |-> EmptyDict, variantSeq |-> EmptyDict]

-----------------------------------------------------------------------------
(***************************************************************************)
(* Minting: token_for and _token_for_name                                  *)
(***************************************************************************)

\* The value already has a token, and that token's text starts with the type.
HasToken(vt, v, t) ==
    /\ v \in DOMAIN vt.toToken
    /\ <<t, vt.toToken[v].type>> \in TypePrefix

\* Positions of the words of v that already belong to a person.
KnownAt(vt, v) == {i \in 1..Len(NameWords[v]) :
                        NameWords[v][i] \in DOMAIN vt.personOf}

\* The person of the first such word.
PersonFor(vt, v) ==
    vt.personOf[NameWords[v][CHOOSE i \in KnownAt(vt, v) :
                                 \A j \in KnownAt(vt, v) : i <= j]]

NextVariant(vt, n) == Get(vt.variantSeq, n, 0) + 1

IsVariant(vt, v, t) == t = Nom /\ KnownAt(vt, v) # {}

\* Mutant: the lowest number that no token in the vault has.
NewTokenReused(vt, v, t) ==
    IF IsVariant(vt, v, t)
    THEN [type |-> t, num |-> PersonFor(vt, v),
          variant |-> NextVariant(vt, PersonFor(vt, v))]
    ELSE [type |-> t, variant |-> 0,
          num |-> CHOOSE n \in 1 .. vt.counters[t] + 1 :
                     /\ \A tok \in DOMAIN vt.toValue : tok.type = t => tok.num # n
                     /\ \A m \in 1 .. n - 1 :
                           \E tok \in DOMAIN vt.toValue : tok.type = t /\ tok.num = m]

\* The token minted for v when it has none of type t yet.
NewToken(vt, v, t) ==
    IF IsVariant(vt, v, t)
    THEN [type |-> t, num |-> PersonFor(vt, v),
          variant |-> NextVariant(vt, PersonFor(vt, v))]
    ELSE [type |-> t, num |-> vt.counters[t] + 1, variant |-> 0]

\* setdefault: a word that already belongs to a person keeps it.
Register(d, v, n) ==
    [w \in DOMAIN d \cup {NameWords[v][i] : i \in 1..Len(NameWords[v])} |->
        Get(d, w, n)]

\* Mutant: the counter is not kept.
MintUncounted(vt, v, t) ==
    LET tok == NewToken(vt, v, t) IN
    [vt EXCEPT !.toToken = Put(@, v, tok), !.toValue = Put(@, tok, v)]

Mint(vt, v, t) ==
    LET tok == NewToken(vt, v, t) IN
    [toToken    |-> Put(vt.toToken, v, tok),
     toValue    |-> Put(vt.toValue, tok, v),
     counters   |-> IF IsVariant(vt, v, t) THEN vt.counters
                    ELSE [vt.counters EXCEPT ![t] = tok.num],
     personOf   |-> IF t = Nom THEN Register(vt.personOf, v, tok.num)
                    ELSE vt.personOf,
     variantSeq |-> IF IsVariant(vt, v, t)
                    THEN Put(vt.variantSeq, tok.num, tok.variant)
                    ELSE vt.variantSeq]

TokenFor(vt, v, t) ==
    IF HasToken(vt, v, t) THEN vt.toToken[v] ELSE NewToken(vt, v, t)

AfterTokenFor(vt, v, t) ==
    IF HasToken(vt, v, t) THEN vt ELSE Mint(vt, v, t)

-----------------------------------------------------------------------------
(***************************************************************************)
(* Erasure and rectification: forget, forget_subject, rectify              *)
(***************************************************************************)

\* The vault with other dictionaries and the same numbering state.
WithMaps(vt, tokens, values) ==
    [toToken  |-> tokens,      toValue    |-> values,
     counters |-> vt.counters, personOf   |-> vt.personOf,
                               variantSeq |-> vt.variantSeq]

\* Mutant: only the token's side is erased.
ForgetTokens(vt, S) ==
    LET gone == S \cap DOMAIN vt.toToken IN
    WithMaps(vt, vt.toToken, Drop(vt.toValue, {vt.toToken[v] : v \in gone}))

\* forget(v) for every v of S; S = {v} is one call of forget.
Forget(vt, S) ==
    LET gone == S \cap DOMAIN vt.toToken IN
    WithMaps(vt, Drop(vt.toToken, gone),
                 Drop(vt.toValue, {vt.toToken[v] : v \in gone}))

\* The token of old now stands for new.
Rectify(vt, old, new) ==
    LET tok == vt.toToken[old] IN
    WithMaps(vt, Put(Drop(vt.toToken, {old}), new, tok),
                 Put(vt.toValue, tok, new))
=============================================================================
