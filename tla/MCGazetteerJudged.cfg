SPECIFICATION Spec
CONSTANTS
    None = None
    Values <- MCValues
    Junk <- MCJunk
    TypesOf <- MCTypesOf
    Allowlist <- MCAllowlist
    Passes = {"sweep", "click"}
    MaxEvents = 1
INVARIANTS
    JudgedWasUpheld
