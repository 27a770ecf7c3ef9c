CONSTANTS
    Neighbor = {n1, n2}
    LLAddr = {l1}
    NoLLAddr = NoLLAddr
    Prefs = {0, 1}
    MaxQueueLen = 1
    MMaxTries = 1
    UMaxTries = 1
    MaxNudHint = 1
    PerformNud = TRUE
    Admin = FALSE
    Late = FALSE
    Mortal = {n1}
SPECIFICATION BusySpec
INVARIANT RouterListOK
PROPERTIES SelectsBest NoFlap ActiveRouterKept DeadRouterReplaced FailsOver
