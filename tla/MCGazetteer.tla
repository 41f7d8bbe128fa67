---------------------------- MODULE MCGazetteer ----------------------------
(***************************************************************************)
(* A small instance of Gazetteer: a surname, and a common word that is a   *)
(* company's name too.                                                     *)
(***************************************************************************)
EXTENDS Gazetteer, TLC

MCValues == {"Petit", "orange"}
MCJunk == {"orange"}
MCTypesOf == "Petit" :> {"NOM"} @@ "orange" :> {"NOM", "RAISON_SOCIALE"}
MCAllowlist == {"NOM", "POSTE", "ADRESSE"}
=============================================================================
