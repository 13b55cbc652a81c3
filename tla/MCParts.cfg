CONSTANTS
    MaxConnections = 1
    MaxToggles = 1
    Timeouts = TRUE
    AutoCookie = TRUE
    EnabledAtStart = {TRUE, FALSE}
    OpenAtStart = {TRUE, FALSE}
    NoCmd = NoCmd
    Lots = {"a"}
    Goods = {"x", "y"}
    Deals <- Listings
    Within <- LongerNames
    Skip = TRUE
    MaxStuckRetries = 1
    MaxConfirmRetries = 1
    MaxUuids = 1
    MaxWindow = 4
    MaxClaimWindow = 3
    MaxCookieWindow = 10
    MaxCommands = 2
    MaxByHand = 1
    MaxSent = 2
    MaxLost = 1
    MaxStray = 1
SPECIFICATION PartsSpec
CHECK_DEADLOCK FALSE
INVARIANTS PartsTypeOK OneWorkflow AsAsked
PROPERTIES ClicksWhatItSees ReportedIsRecorded
