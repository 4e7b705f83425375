SPECIFICATION FairSpec
CONSTANTS
    NumSinks = 2
    NumCodes = 1
    Endings = {"answered", "unversioned"}
    NeverAlarm = {FALSE}
    RetryAttempts = 1
    MaxChanges = 3
INVARIANTS FaultsAreTold
PROPERTIES NoOldNewsAfterNew DeliveriesEnd
