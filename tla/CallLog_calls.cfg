SPECIFICATION Spec
CONSTANTS
    MaxCalls = 3
    MaxEvents = 3
    MaxFaults = 2
    MaxStops = 2
    Declared = FALSE
 
INVARIANT NothingIsOnlyInMemory
INVARIANT OnlyTheLiveLooksLive
CHECK_DEADLOCK FALSE
