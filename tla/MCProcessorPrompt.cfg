SPECIFICATION Spec
CONSTANTS
    Requests <- MCUrgent
    Backlog = 1
    MaxQueueSize = 2
    Slow = {}
    Varying = {"room", "startup", "limits", "countdown", "operator"}
    NoCmd = NoCmd
PROPERTIES
    BusyAcceptsNothing
