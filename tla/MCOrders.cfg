CONSTANTS
    sell = sell
    buy = buy
    None = None
    Order = {sell, buy}
    Buys = {buy}
    Stale = {buy}
    Window = {1, 2, 3}
    MaxCancelRetries = 1
    MaxRuns = 2
    MaxSent = 2
    MaxUpsets = 1
SPECIFICATION MCSpec
VIEW Matter
CHECK_DEADLOCK FALSE
INVARIANTS TakesItsOrder GivesUp EndsItself
