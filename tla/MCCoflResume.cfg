CONSTANTS
    Host = {"h1", "h2"}
    MaxMessages = 3
    MaxDials = 0
    MaxSwitches = 1
SPECIFICATION Spec
CHECK_DEADLOCK FALSE
INVARIANT ResumesSilently
