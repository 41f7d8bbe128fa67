------------------------------- MODULE Vault -------------------------------
(***************************************************************************)
(* One Vault object of vault.py under any sequence of the calls the        *)
(* program makes on it: token_for while documents are anonymised, and      *)
(* forget, forget_subject and rectify from the local web application.      *)
(*                                                                         *)
(* A history variable observes it: issued holds every token ever handed    *)
(* out (they live on in anonymised documents).                             *)
(***************************************************************************)
EXTENDS VaultOps, FiniteSets

CONSTANTS
    Subjects,   \* the sets of values a forget_subject substring can match
    MaxTokens   \* bound: no more than this many tokens are minted

ASSUME SubjectsAssumption == Subjects \subseteq SUBSET Value /\ MaxTokens \in Nat

VARIABLES vault, issued
vars == <<vault, issued>>

Init ==
    /\ vault = EmptyVault
    /\ issued = {}

\* A detector found v with entity type t: Vault.token_for(v, t).
RequestToken(v, t) ==
    /\ HasToken(vault, v, t) \/ Cardinality(issued) < MaxTokens
    /\ vault'  = AfterTokenFor(vault, v, t)
    /\ issued' = issued \cup {TokenFor(vault, v, t)}

\* Vault.forget(v), behind POST /vault/{mission}/forget.
ForgetValue(v) ==
    /\ v \in DOMAIN vault.toToken
    /\ vault'  = Forget(vault, {v})
    /\ UNCHANGED issued

\* Vault.forget_subject, whose substring matches the values of S.
ForgetSubject(S) ==
    /\ S \cap DOMAIN vault.toToken # {}
    /\ vault'  = Forget(vault, S)
    /\ UNCHANGED issued

\* Vault.rectify(old, new), behind POST /vault/{mission}/rectify.
RectifyValue(old, new) ==
    /\ old \in DOMAIN vault.toToken
    /\ vault'  = Rectify(vault, old, new)
    /\ UNCHANGED issued

Next ==
    \/ \E v \in Value, t \in Type : RequestToken(v, t)
    \/ \E v \in Value : ForgetValue(v)
    \/ \E S \in Subjects : ForgetSubject(S)
    \/ \E old, new \in Value : RectifyValue(old, new)

Spec == Init /\ [][Next]_vars

-----------------------------------------------------------------------------
(***************************************************************************)
(* Properties                                                              *)
(***************************************************************************)

\* Every variable has the shape the code gives it.
TypeOK ==
    /\ IsVault(vault)
    /\ issued \subseteq Token

\* The two dictionaries agree: restoring the token a value now has gives
\* the value back, after any mix of minting, erasure and rectification
\* (vault.py: "We always mutate BOTH directions of the mapping").
RoundTrip ==
    \A v \in DOMAIN vault.toToken :
        /\ vault.toToken[v] \in DOMAIN vault.toValue
        /\ vault.toValue[vault.toToken[v]] = v

\* A token about to be minted was never handed out before, not even for a
\* value that has been forgotten since: an old document that still holds
\* the token can never come to name another person (Vault.forget: "The
\* token's number is NOT reused").
MintsAreFresh ==
    \A v \in Value, t \in Type :
        ~HasToken(vault, v, t) => NewToken(vault, v, t) \notin issued

\* Every token that restores was handed out by this vault; every token
\* handed out is still covered by what numbered it (its type's counter and,
\* for a name, the letter its person gets next); and every word that names
\* a person names one that exists.
Numbered ==
    /\ DOMAIN vault.toValue \subseteq issued
    /\ \A tok \in issued :
          /\ tok.num <= vault.counters[tok.type]
          /\ IF tok.type = Nom THEN tok.variant < NextVariant(vault, tok.num)
                               ELSE tok.variant = 0
    /\ \A w \in DOMAIN vault.personOf : vault.personOf[w] <= vault.counters[Nom]

\* The inductive invariant behind RoundTrip and MintsAreFresh.
IInv == TypeOK /\ RoundTrip /\ Numbered

\* What stands for a value changes only when a person rectifies it or it is
\* forgotten: whatever documents are anonymised in between, a token that
\* restores goes on restoring to the same value.
MaskingKeepsMeaning ==
    [][(\E v \in Value, t \in Type : RequestToken(v, t)) =>
          \A tok \in DOMAIN vault.toValue :
              /\ tok \in DOMAIN vault'.toValue
              /\ vault'.toValue[tok] = vault.toValue[tok]]_vars

\* What the tokens stand for is a TokenBook: minting hands out fresh tokens
\* only, and nothing but a correction or an erasure changes a meaning.
Book == INSTANCE TokenBook WITH book <- vault.toValue, used <- issued
VaultIsBook == Book!BookSpec
=============================================================================
