SPECIFICATION Spec
CONSTANTS
    None = None
    Null = Null
    Keep = Keep
    u1 = u1
    u2 = u2
    f1 = f1
    f2 = f2
    f3 = f3
    f4 = f4
    f5 = f5
    f6 = f6
    Calls <- MCCalls
    MaxFaults = 1
    MaxUploads = 2
    Requests <- MCRequests
    today <- MCToday
CHECK_DEADLOCK FALSE
INVARIANTS
    RowsAndObjectsAgree
    PagesShowEachOnce
    AttachmentsHaveReceipts
PROPERTIES
    LoneUpdateIsPatch
    ImageInUseKept
    EveryRequestAnswered
