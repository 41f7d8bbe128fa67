SPECIFICATION Spec
CONSTANTS
    marie = marie
    dubois = dubois
    paul = paul
    Nom = "NOM"
    Value <- MCValue
    Type <- MCType
    Word <- MCWord
    NameWords <- MCWords
    TypePrefix <- MCPrefix
    Procs = {"mcp", "sweep"}
    Scenes <- MCScenes
    Absent = Absent
    Torn = Torn
    Erased = Erased
    MaxPerDoc = 2
INVARIANTS
    DocsRestore
    PageRestores
PROPERTY
    FileIsBook
\* A torn vault file stops every process that shares it.
CHECK_DEADLOCK FALSE
