SPECIFICATION Spec
CONSTANTS
    MaxShots = 2
    Cap = 2
    Sizes = {2,3}
    Retention = 0
    MaxTime = 1
    MaxTroubles = 2
    NumCameras = 1
    Views = {"one"}
    MaxEvents = 3
    Window = 2
INVARIANTS CapHolds NoEventTwice EventsAreAnsweredFor LossIsCounted
VIEW ButTheCodes
