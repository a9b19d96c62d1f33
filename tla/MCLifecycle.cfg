\* Two operators compete for two service keys over the epochs 0..4.
SPECIFICATION MCSpec
CONSTANTS
    Identity = {i1, i2}
    ServiceKey = {k1, k2}
    Binding = {b1}
    epoch_length = 3
    anchor_depth = 1
    U64Max = 4
    MaxRecords = 4
SYMMETRY Symmetry
INVARIANTS
    TypeOK
    UniqueServiceKey
    DescriptorChain
    DeregisteredStaysOut
PROPERTIES
    NoRetroactiveChange
CHECK_DEADLOCK FALSE
