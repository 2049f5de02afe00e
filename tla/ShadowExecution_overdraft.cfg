SPECIFICATION Spec
CONSTANTS
    Codes <- MCCodes
    Capped <- MCCapped
    CapShare = 2
    Fee = 0
    Snapshots <- MCSnapshots
    Orders <- MCOrders
    Kinds = {"fair", "down"}
    MaxTime = 5
    Start = 2
    LastDecision = 3
    MaxLag = 0
    MaxIntents = 2
    MaxQuotes = 2
    MaxRebases = 0
    MaxFailures = 0
INVARIANTS
    NoOverdraft
CHECK_DEADLOCK FALSE
