SPECIFICATION Spec
CONSTANTS
    MaxRecords = 3
    MaxRevision = 4
    Capacity = 2
    Limit = 1
    Wanted = {1, 2}
    MaxCrashes = 2
    MaxFaults = 1
INVARIANTS CursorCoversChanges RemovalIsTold ResetIsAnotherStore
