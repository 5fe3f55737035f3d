SPECIFICATION Spec
CONSTANTS
    e1 = e1
    r1 = r1
    r2 = r2
    Event = {e1}
    Undecodable = {}
    Relay = {r1, r2}
    RedeliverAfter = 1
    MaxRetry = 2
    BatchSize = 1
    Skew = 1
    PromptDispatch = FALSE
    MaxClock = 7
    MaxFaults = 1
SYMMETRY Symmetry
INVARIANTS
    NoEventLost
    LeaseSeparation
    RedeliverySpacing
PROPERTIES
    LiveClaimUndisturbed
    IsAtLeastOnce
