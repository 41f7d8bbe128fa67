---------------------------- MODULE MCAnonymise ----------------------------
(***************************************************************************)
(* A small instance of Anonymise: a letter, two forms of which one is too  *)
(* large, a degraded scan, and a text of which masking uncovers more than  *)
(* the engine looks for.                                                   *)
(***************************************************************************)
EXTENDS Anonymise, TLC

CONSTANTS agent, d1, d2

Text(has, late, form, garbled, windows) ==
    [has |-> has, late |-> late, form |-> form, garbled |-> garbled,
     substantial |-> TRUE, windows |-> windows]

MCDocs ==
    { Text({"plain", "deep"}, 0, FALSE, FALSE, 1),
      Text({"plain", "late"}, 4, TRUE, FALSE, 2),
      Text({"name"}, 0, TRUE, FALSE, 1),
      Text({"name"}, 0, TRUE, TRUE, 3) }
=============================================================================
