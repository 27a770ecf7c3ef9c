CONSTANTS
    Sa = {s1, s2}
    Head = {h1, h2}
    Isr = {i1, i2}
    Soft = 1
    Hard = 2
    LarvalLife = 1
    BlockCount = 1
    BlockLife = 1
    PreferOld = TRUE
    LateUpdate = FALSE
    NoSa = NoSa
    NoAcq = NoAcq
SPECIFICATION FairSpec
INVARIANTS TypeOK RefsBalanced AliveOnLiveHead
PROPERTIES StateForward SaEnds AskedAgain
