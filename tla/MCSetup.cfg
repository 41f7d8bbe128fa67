SPECIFICATION SetupSpec
CONSTANTS
    MaxKills = 1
    MaxFaults = 2
    Python = {9, 12, 13}
    Abi = 9
    Launcher = {"a"}
    Workers = 2
    Foreign = {}
    MaxPort = 1
    MaxCode = 1
    None = None
    MaxVersion = 2
    Row = {"r1"}
    Sweeper = "sweep"
    Asker = {"minid"}
    Zero = Zero
    MaxAsks = 1
    MaxStoreFaults = 1
    Run = {r1, r2}
INVARIANTS
    AgentHasModels
    ReadyIsArmed
    OfflineReads
PROPERTIES
    InstalledUnlessHalf
    PackInstalls
