CONSTANTS
    Neighbor = {n1}
    LLAddr = {l1, l2}
    NoLLAddr = NoLLAddr
    Prefs = {0}
    MaxQueueLen = 2
    MMaxTries = 3
    UMaxTries = 3
    MaxNudHint = 1
    PerformNud = TRUE
    Admin = TRUE
    Late = FALSE
    Mortal = {n1}
SPECIFICATION FairSpec
INVARIANTS TypeOK NeverStuck HeldPackets Resolved
PROPERTY HeldSettles
