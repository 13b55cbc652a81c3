SPECIFICATION OnTimeSpec
CONSTANTS
    MaxConnections = 2
    MaxToggles = 0
    Timeouts = FALSE
    AutoCookie = FALSE
    EnabledAtStart = {FALSE}
    OpenAtStart = {FALSE}
    NoCmd = NoCmd
CHECK_DEADLOCK FALSE
INVARIANT FlagHeld
PROPERTIES FlagReleased SessionServed
