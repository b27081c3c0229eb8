SPECIFICATION AddressesSpec
CONSTANTS
    NULL = NULL
    MaxFaults = 0
    MaxNh = 4
    Prefix = {p1, p2}
    NextHop = {x1, x2, x3}
    Host = {h1}
    Group = {x1, x2, x3}
    b1 = b1
    b2 = b2
    b3 = b3
    a1 = a1
    a2 = a2
    a3 = a3
    c1 = c1
    c2 = c2
    d1 = d1
    d2 = d2
    d3 = d3
    e1 = e1
    e2 = e2
    Bundle <- MCBundle
    Address4 <- MCAddress4
    Address6 <- MCAddress6
    Type <- MCType
    Settings <- MCSettings
    MaxIds = 3
    Neighbour = {}
    Index = {x1, x2, x3}
    L3If = {p1, p2}
SYMMETRY Symmetry
CHECK_DEADLOCK FALSE
INVARIANT HostsHaveOwners
