CONSTANTS
    sell = sell
    buy = buy
    None = None
    Order = {sell, buy}
    Buys = {buy}
    Stale = {buy}
    Window = {1, 2, 3}
    MaxCancelRetries = 1
    MaxRuns = 1
    MaxSent = 2
    MaxUpsets = 0
SPECIFICATION MCSpec
CHECK_DEADLOCK FALSE
INVARIANTS RestIsRequeued
