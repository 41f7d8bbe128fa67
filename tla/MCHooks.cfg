SPECIFICATION MCSpec
CONSTANTS
    s1 = s1
    s2 = s2
    Proc <- MCProc
    Foreign = {"linter"}
    MaxVersion = 2
    MaxStarts = 3
    MaxKills = 1
    MaxEdits = 1
    None = None
    Torn = Torn
    Files <- MCFile
    Folder <- MCFolder
    Over <- MCOver
    Depth <- MCDepth
    Leads <- MCLeads
    MarkerFile = {"client.marker"}
    Exts <- MCExts
    Project = "outputs"
    Mounted = {"client", "outputs"}
    Infra = {"outputs"}
    Call <- MCCall
    Markings <- MCMarkings
    Lapses <- MCLapses
    Markers <- MCMarkers
    Configs <- MCConfigs
CHECK_DEADLOCK FALSE
SYMMETRY Perms
INVARIANTS
    ArmedHasScript
    ForeignKept
    
    
PROPERTIES
    UpdateTakesEffect
