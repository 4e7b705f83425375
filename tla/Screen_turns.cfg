SPECIFICATION FairSpec
CONSTANTS
    Fees = {five}
    Boards <- MCBoards
    Turn = 2
    MaxTickets = 1
    MaxNews = 2
    MaxTroubles = 1
INVARIANTS
    WrongIsSaid
PROPERTIES
    TurnsAreWhole
    EveryItemHasItsTurn
CHECK_DEADLOCK FALSE
