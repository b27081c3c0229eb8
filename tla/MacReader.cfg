SPECIFICATION Spec
CONSTANTS
    Vlan = {v1}
    Mac = {m1, m2}
    Intf = {p1}
    Index = {i1, i2}
    MaxEntries = 2
    BufferSize = 2
    NoEntry = NoEntry
    NoVlan = NoVlan
    NoTable = NoTable
    NoData = NoData
    NoIntf = NoIntf
SYMMETRY Symmetry
INVARIANT
    ReaderUndisturbed
