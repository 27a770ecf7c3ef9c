CONSTANTS
    Ifa = {n1, n2}
    Ifn = {n1, n2}
    IfOf <- MCIfOf
    LinkLocal = {}
    Anycast = {}
    Home = {}
    DadCount = 2
    MaxTry = 2
    Reconfigurable = {}
    MaxLoss = 1
    Churn = TRUE
SPECIFICATION LinkSpec
INVARIANTS UniqueHolder
SYMMETRY MCSymmetry
