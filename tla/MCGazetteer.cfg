SPECIFICATION FairSpec
CONSTANTS
    None = None
    Values <- MCValues
    Junk <- MCJunk
    TypesOf <- MCTypesOf
    Allowlist <- MCAllowlist
    Passes = {"sweep", "click"}
    MaxEvents = 2
INVARIANTS
    ResolvedOnce
PROPERTIES
    NoSilentUnmask
    Decided
