SPECIFICATION Spec
CONSTANTS
    marie = marie
    dubois = dubois
    paul = paul
    Nom = "NOM"
    Value <- MCValue
    Type <- MCType
    Word <- MCWord
    NameWords <- MCWords
    TypePrefix <- MCPrefix
    Subjects <- MCSubjects
    MaxTokens = 4
INVARIANTS
    RoundTrip
    MintsAreFresh
PROPERTIES
    VaultIsBook
\* After MaxTokens mints a run may end: nobody is obliged to call the vault.
CHECK_DEADLOCK FALSE
