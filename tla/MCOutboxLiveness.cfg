SPECIFICATION FairSpec
CONSTANTS
    e1 = e1
    e2 = e2
    r1 = r1
    Event = {e1, e2}
    Undecodable = {e2}
    Relay = {r1}
    RedeliverAfter = 1
    MaxRetry = 2
    BatchSize = 1
    Skew = 0
    PromptDispatch = TRUE
    MaxClock = 20
    MaxFaults = 1
PROPERTIES
    EventuallySettled
