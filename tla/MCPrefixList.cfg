CONSTANTS
    p1 = p1
    p2 = p2
    r1 = r1
    r2 = r2
    Entry <- MCEntry
    Router = {r1, r2}
    PrefixOf <- MCPrefixOf
    Advertises <- MCAdvertises
    ByHand = {p1}
    Flags <- MCFlags
    Shortage <- MCShortage
SPECIFICATION Spec
INVARIANTS
    TypeOK
    RouteExact
    PointersLive
    AttachedOnlink
    SomeAddressUsable
PROPERTY DetachedForReason
