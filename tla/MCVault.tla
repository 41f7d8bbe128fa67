------------------------------ MODULE MCVault ------------------------------
(***************************************************************************)
(* A small instance of Vault.  marie, dubois and paul are names; dubois    *)
(* shares a word with marie ("Marie Dubois", "Dubois"), and paul shares    *)
(* words with both sides of a second person.                               *)
(***************************************************************************)
EXTENDS Vault, TLC

CONSTANTS marie, dubois, paul

MCValue    == {marie, dubois, paul}
MCType     == {"NOM", "ADRESSE"}
MCWord     == {"marie", "dubois", "paul"}
MCWords    == (marie :> <<"marie", "dubois">>) @@ (dubois :> <<"dubois">>)
                 @@ (paul :> <<"paul">>)
MCPrefix   == {<<t, t>> : t \in MCType}
MCSubjects == {{marie, dubois}}
=============================================================================
