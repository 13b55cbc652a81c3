SPECIFICATION ServicesSpec
CHECK_DEADLOCK FALSE
CONSTANTS
    Host = {"h1", "h2"}
    FirstHost = "h1"
    MaxMessages = 3
    MaxDials = 2
    MaxSwitches = 1
    MaxGap = 1
    BreakTime = 2
    MaxTime = 3
    MaxPurchases = 1
    MaxRejoins = 3
    MaxStalls = 2
    MaxTrips = 1
    Name = {"x"}
    MaxQueued = 1
    MaxAnswers = 2
    MaxForces = 1
    Id = {"i", "j"}
    Grace = 1
    MaxMinutes = 3
    Switch = {"ah"}
    Password = {"p", "q"}
    MaxRequests = 2
    MaxRestarts = 1
    MaxTag = 3
INVARIANTS
    ServicesTypeOK ThisVeryFlip PanelIsObeyed BreakKeepsSession
    OfflineIsLeftAlone InstructsOnce PaidTimeEnds NeverHalfUpdated KeepsTheConfig
PROPERTIES RestartsOnlyWhenSilent
