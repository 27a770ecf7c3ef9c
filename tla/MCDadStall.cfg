CONSTANTS
    ifn = ifn
    Ifa = {ga, xa}
    Ifn = {ifn}
    IfOf <- MCIfOf
    LinkLocal = {}
    Anycast = {}
    Home = {}
    DadCount = 1
    MaxTry = 2
    Reconfigurable = {ga}
SPECIFICATION Spec
INVARIANT DadInProgress
