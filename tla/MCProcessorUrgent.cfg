SPECIFICATION FairSpec
CONSTANTS
    Requests <- MCRequests
    Backlog = 1
    MaxQueueSize = 3
    Slow = {"ClickSlot", "GoToIsland"}
    Varying = {"room", "countdown", "hand"}
    NoCmd = NoCmd
PROPERTIES
    FullEscapes
    UrgentPreempts
    NeverWedged
