------------------------------ MODULE MCEngine ------------------------------
(***************************************************************************)
(* Small documents for Engine: two lines, or one, out of lines that try    *)
(* every detector and the ways their matches meet.                         *)
(***************************************************************************)
EXTENDS Engine, TLC

MCCaps == {"SELARL", "DU", "DOCTEUR", "TESTONI", "MARTIN", "KEMPF", "ZEPHYRA", "LYON"}
MCNameWord == MCCaps \cup {"Me", "Paul", "Robert", "Swiss", "Life", "Eres", "Gestion",
                           "Nom", "Denomination", "Signataire", "Type", "Passeport"}
MCSiren == "732829320" :> <<7, 3, 2, 8, 2, 9, 3, 2, 0>> @@ "732829321" :> <<7, 3, 2, 8, 2, 9, 3, 2, 1>>
MCIban == [w \in {"FR7630006000011234567890189", "FR7630006000011234567890188"} |->
              <<15, 27, 7, 6, 3, 0, 0, 0, 6, 0, 0, 0, 0, 1, 1, 2, 3, 4, 5, 6, 7, 8, 9, 0, 1, 8,
                IF w = "FR7630006000011234567890189" THEN 9 ELSE 8>>]
MCFiscal == [w \in {"25 92 0364665 70", "25 92 0364665 71"} |->
                <<2, 5, 9, 2, 0, 3, 6, 4, 6, 6, 5, 7, IF w = "25 92 0364665 70" THEN 0 ELSE 1>>]

MCSeveral ==
    [w \in {"au document", "ne le", "1200 EUR", "lieu de naissance", "03/05/1980"} \cup DOMAIN MCFiscal |->
        CASE w \in {"lieu de naissance", "03/05/1980"} -> 3 [] w \in DOMAIN MCFiscal -> 4 [] OTHER -> 2]

MCToken == <<"T1", "T2", "T3", "T4", "T5", "T6", "T7", "T8", "T9", "T10">>

Lines ==
    {<<"vu", "TESTONI", "absent">>,
     <<"MARTIN", "est", "absent">>,
     <<"Me", "TESTONI">>,
     <<"Me">>,
     <<"Me", "TESTONI", "SELARL", "DU", "DOCTEUR", "MARTIN">>,
     <<"Me", "TESTONI", "Swiss", "Life">>,
     <<"Me", "vu", "Robert", "KEMPF">>,
     <<"Robert", "ZEPHYRA", "Eres">>,
     <<"Paul", "KEMPF">>,
     <<"Eres", "et", "KEMPF">>,
     <<"Denomination", ":", "SELARL", "DU", "DOCTEUR", "MARTIN", "KEMPF">>,
     <<"Denomination", ":", "MARTIN">>,
     <<"SELARL", "SELARL", "MARTIN", "TESTONI">>,
     <<"Type", ":", "SELARL", "KEMPF">>,
     <<"SELARL">>,
     <<"Nom", ":", "TESTONI", "MARTIN">>,
     <<"Nom", ":", "neant">>,
     <<"lieu de naissance", ":", "LYON">>,
     <<"Signataire", ":", "DOCTEUR", "TESTONI", "MARTIN">>,
     <<"vu", "au document", "ZEPHYRA", "MARTIN">>,
     <<"contrat", "ZEPHYRA", "et", "MARTIN">>,
     <<"ne le", "03/05/1980", "LYON">>,
     <<"no", "732829320">>,
     <<"le", "732829321">>,
     <<"iban", "FR7630006000011234567890189">>,
     <<"compte", "FR7630006000011234567890188">>,
     <<"avis", "25 92 0364665 70">>,
     <<"avis", "25 92 0364665 71">>,
     <<"Passeport", "no", "12AB34567">>,
     <<"a", "TESTONI", "LYON", "69001">>,
     <<"prix", "1200 EUR">>,
     <<"Gestion">>,
     <<"vers", "LYON">>}

MCDocuments == Lines \cup {a \o <<"nl">> \o b : a, b \in Lines}
MCPhrase == {<<"Swiss", "Life">>}
MCFiles == {<<>>, <<"ZEPHYRA", "SELARL", "MARTIN", "DER">>}
=============================================================================
