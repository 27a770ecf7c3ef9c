CONSTANTS
    ifn = ifn
    Ifa = {ll, ga, hm}
    Ifn = {ifn}
    IfOf <- MCIfOf
    LinkLocal = {ll}
    Anycast = {}
    Home = {hm}
    DadCount = 2
    MaxTry = 2
    Reconfigurable = {}
SPECIFICATION FairSpec
INVARIANTS TypeOK DadInProgress
PROPERTIES LifeSpec DadSettles
