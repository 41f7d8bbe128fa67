SPECIFICATION FairSpec
CONSTANTS
    None = None
    agent = agent
    d1 = d1
    d2 = d2
    Daemon = {d1, d2}
    Client = {agent}
    Docs <- MCDocs
    MaxWindows = 2
    MaxKills = 1
    MaxStarts = 1
INVARIANTS
    OneModel
    FormVerified
PROPERTIES
    BlindNotTrusted
    Rearmed
