SPECIFICATION Spec
CONSTANTS
    a = a
    b = b
    a1 = a1
    a1frag = a1frag
    a2 = a2
    b1 = b1
    mailto = mailto
    None = None
    Url <- MCUrl
    Host <- MCHost
    Depth <- MCDepth
    Delay <- MCDelay
    Canon <- MCCanon
    HostOf <- MCHostOf
    BaseDelay = 1
    MaxDepth = 1
    MaxPages = 2
    Horizon = 4
INVARIANTS Accounting WellPlaced BudgetRespected DoneIsDrained WaitIsHonest
PROPERTY LeaseSpacing
CHECK_DEADLOCK FALSE
