SPECIFICATION FairSpec
CONSTANTS
    Door = {front, back}
    ScreenDoor = front
    NoDoor = no_door
    HasAct = TRUE
    MaxTickets = 1
    MaxDecisions = 2
    MaxLaneStarts = 1
    MaxCrashes = 1
    MaxFaults = 1
INVARIANTS
    RecordsAreHonest
PROPERTIES
    KeepsTicketLife
    PollMintsForNewDecisions
    EveryTicketSettles
