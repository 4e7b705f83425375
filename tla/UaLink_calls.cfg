SPECIFICATION LinkFairSpec
CONSTANTS
    Accounts = {front}
    MaxCalls = 2
    MaxNews = 1
    MaxBreaks = 1
    MaxGap = 2
INVARIANTS
    NoCallIsMissed
    LostWasSaid
PROPERTIES
    EveryCallIsHeardOf
