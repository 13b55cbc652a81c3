SPECIFICATION Spec
CONSTANTS
    MaxConnections = 2
    MaxToggles = 0
    Timeouts = TRUE
    AutoCookie = FALSE
    EnabledAtStart = {TRUE, FALSE}
    OpenAtStart = {TRUE, FALSE}
    NoCmd = NoCmd
CHECK_DEADLOCK FALSE
INVARIANT RunsAgain
