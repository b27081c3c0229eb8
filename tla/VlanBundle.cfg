SPECIFICATION Spec
CONSTANTS
    MaxVlan = 2
    Port = {p1, p2}
    Single = {p1}
    Lag = {l1}
    LagId = {g1}
    VlanSettings <- MCVlanSettings
    L3Vlans = {2}
    MaxFaults = 1
    NULL = NULL
INVARIANTS
    TypeOK
    
    PvidAsConfigured
    SlaveInNoVlan
