SPECIFICATION InterfacesSpec
CONSTANTS
    NULL = NULL
    MaxFaults = 1
    MaxRefs = 4
    Netdev <- MCNetdev
    PortNum <- MCPortNum
    Kind <- MCKind
    port_num <- MCport_num
    Parent <- MCParent
    Lanes <- MCLanes
    pa = pa
    s1 = s1
    s2 = s2
    si = si
    in = in
    v1 = v1
    v2 = v2
    u = u
    Version <- MCVersion
    Unsupported <- MCUnsupported
    NumRules <- MCNumRules
    Bundle = {p1, p2}
    Member = {q1, q2}
    List = {q1, q2}
    AclId = {q1, q2}
    Tcam = {x1, x2, x3}
    Port = {t1, t2}
    Fd = {q1, q2}
    Other = Other
SYMMETRY Symmetry
CHECK_DEADLOCK FALSE
INVARIANTS PortsTypeOK AclTypeOK TapTypeOK CountsExact AclIdsExact   NoLostWakeup
            DeviceKept TunedSinceEnabled PortsAsAsked
