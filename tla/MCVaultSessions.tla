-------------------------- MODULE MCVaultSessions --------------------------
(***************************************************************************)
(* A small instance of VaultSessions: marie and dubois are names that      *)
(* share a word, paul is another person.                                   *)
(***************************************************************************)
EXTENDS VaultSessions, TLC

CONSTANTS marie, dubois, paul

MCWord   == {"marie", "dubois", "paul"}
MCValue  == {marie, dubois, paul}
MCType   == {"NOM", "ADRESSE"}
MCWords  == (marie :> <<"marie", "dubois">>) @@ (dubois :> <<"dubois">>)
            @@ (paul :> <<"paul">>)
MCPrefix == {<<t, t>> : t \in MCType}

\* One process: two names that share a word, under two entity types.
Serial == [procs |-> {"mcp"}, values |-> {marie, dubois}, types |-> MCType,
           gemma |-> FALSE, edits |-> TRUE, tokens |-> 3]

\* Two processes, with the second pass: two persons.
Races == [procs |-> {"mcp", "sweep"}, values |-> {marie, paul}, types |-> {"NOM"},
          gemma |-> TRUE, edits |-> FALSE, tokens |-> 2]

MCScenes   == {Serial, Races}
Concurrent == {[Races EXCEPT !.gemma = FALSE, !.tokens = 3]}
=============================================================================
