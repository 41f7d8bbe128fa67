----------------------------- MODULE TokenBook -----------------------------
(***************************************************************************)
(* What a vault promises, whatever it is built from: a book that says what *)
(* each token in circulation stands for.  A token gets a meaning once, the *)
(* first time it is handed out; after that only the user's correction or   *)
(* erasure touches it.                                                     *)
(*                                                                         *)
(* Vault implements it with its dictionaries, VaultSessions with the vault *)
(* file that short-lived processes load and save.                          *)
(***************************************************************************)

VARIABLES
    book,   \* what each token stands for now: a function from tokens to values
    used    \* every token ever handed out

bookVars == <<book, used>>

BookInit ==
    /\ book = [tok \in {} |-> tok]
    /\ used = {}

\* Every token of T goes on standing for what it stood for.
Kept(T) ==
    \A tok \in T : tok \in DOMAIN book' /\ book'[tok] = book[tok]

\* A document was masked: fresh tokens get a meaning, the others keep theirs.
HandOut ==
    /\ Kept(DOMAIN book)
    /\ (DOMAIN book' \ DOMAIN book) \cap used = {}
    /\ used' = used \cup (DOMAIN book' \ DOMAIN book)

\* The user erased some values (GDPR art. 17).
Erase ==
    /\ DOMAIN book' \subseteq DOMAIN book
    /\ Kept(DOMAIN book')
    /\ UNCHANGED used

\* The user corrected what one token stands for (GDPR art. 16).
Correct ==
    \E tok \in DOMAIN book :
        /\ DOMAIN book' = DOMAIN book
        /\ Kept(DOMAIN book \ {tok})
        /\ UNCHANGED used

BookNext == HandOut \/ Erase \/ Correct

BookSpec == BookInit /\ [][BookNext]_bookVars
=============================================================================
