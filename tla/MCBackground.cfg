SPECIFICATION BackgroundSpec
CONSTANTS
    None = None
    Content <- MCContent
    Polluted <- MCPolluted
    Uncertifiable <- MCUncertifiable
    Sweeps = {"launchd", "manual"}
    Files = {"f1"}
    QuarantineAfter = 2
    MaxEvents = 1
    Extraction = {extract1, extract2}
    Judgment = {judge1}
    QueueMax = 1
    IdleSecs = 2
PROPERTIES
    Converges
    StaleRefreshed
    IdleIsIdle
    NoHang
    QueueDrains
