CONSTANTS
    ifn = ifn
    Ifa = {ga, xa, hm}
    Ifn = {ifn}
    IfOf <- MCIfOf
    LinkLocal = {}
    Anycast = {xa}
    Home = {hm}
    DadCount = 2
    MaxTry = 2
    Reconfigurable = {ga}
SPECIFICATION Spec
INVARIANTS RefsBalanced NoDanglingTimer
