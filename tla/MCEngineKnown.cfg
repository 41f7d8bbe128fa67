SPECIFICATION Spec
CONSTANTS
    Token <- MCToken
    Title = {"Me"}
    Forename = {"Paul"}
    Homograph = {"Robert"}
    Forme = {"SELARL"}
    Prefix = {"SELARL", "DU", "DOCTEUR", "Me"}
    Role = {"DOCTEUR"}
    CommonSurname = {"MARTIN"}
    Placeholder = {"neant"}
    Date = {"03/05/1980"}
    Postcode = {"69001"}
    Caps <- MCCaps
    NameWord <- MCNameWord
    Amount = {"1200 EUR"}
    IdNumber = {"12AB34567"}
    Siren <- MCSiren
    Iban <- MCIban
    Fiscal <- MCFiscal
    FileStop = {"DER"}
    Documents <- MCDocuments
    Files <- MCFiles
    Heard = {}
    Score = 50
    Known = {"TESTONI"}
    Phrase <- MCPhrase
    Org = {"Eres"}
    SafeWord = {"Gestion"}
    Cue = {"Nom", "lieu de naissance", "ne le", "Passeport", "iban", "compte"}
    Threshold = 60
    Several <- MCSeveral
CHECK_DEADLOCK FALSE
INVARIANT KnownMasked
