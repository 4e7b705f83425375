SPECIFICATION ReadingSpec
CONSTANTS
    MaxAge = 1
    MaxTime = 2
    MaxNews = 2
    Skews <- MCSkews
    Currency <- MCCurrency
    Listed <- MCListed
    MinorUnits <- MCMinorUnits
    Moneys <- MCMoneys
INVARIANT NothingToDoIsRecent
INVARIANT OfferIsOfARecentFallback
INVARIANT FigureIsTheFee
