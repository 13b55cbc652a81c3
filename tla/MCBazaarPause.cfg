SPECIFICATION BothSpec
CONSTANTS
    Window = 2
    MaxTime = 3
    MaxWatchers = 2
    Backlog = 1
    Switching = TRUE
    NoCmd = NoCmd
    Ages = TRUE
    MaxUpsets = 3
    Slots = 2
    MaxQueued = 2
    MaxFailures = 2
INVARIANTS SingleWatcher PausedHasWatcher SwitchedOffIsLeft
PROPERTIES PauseEnds OwedIsCollected
