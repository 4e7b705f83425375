SPECIFICATION Spec
CONSTANTS
    Door = {front}
    ScreenDoor = front
    NoDoor = no_door
    HasAct = TRUE
    MaxTickets = 2
    MaxDecisions = 2
    MaxLaneStarts = 0
    MaxCrashes = 0
    MaxFaults = 1
INVARIANTS
    NothingForgotten
    PressKnowsTheCode
    HelpIsAboutTheLatest
    ScreenIsLive
