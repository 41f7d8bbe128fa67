SPECIFICATION MacSpec
CONSTANTS
    MaxKills = 1
    MaxFaults = 2
    Python = {9, 12, 13}
    Abi = 9
    Launcher = {"a", "b"}
    Workers = 2
    Foreign = {}
    MaxPort = 1
    MaxCode = 1
    None = None
    MaxVersion = 2
    Row = {"r1"}
    Sweeper = "sweep"
    Asker = {"minid"}
    Zero = Zero
    MaxAsks = 1
    MaxStoreFaults = 1
    Run = {r1}
INVARIANTS
    JobHasApp
    NoOrphan
    NothingInClear
    PutsKept
PROPERTIES
    Installs
    FreshWindow
    FreshEngine
    ReadTierUp
CHECK_DEADLOCK FALSE
