SPECIFICATION FairSpec
CONSTANTS
    MaxCalls = 4
    MaxQueue = 2
    MaxTrouble = 2
    Reprompts = 1
    Doors <- MCDoors
    GoneReplies = {"refused"}
INVARIANTS LegsBelongToTheCase OutcomeIsThisCalls
PROPERTIES KeepsCallPhases NoCaseOutlivesItsDriver NobodyLeftRinging CaseEnds
CHECK_DEADLOCK FALSE
