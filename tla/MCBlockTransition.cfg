\* Reversibility: two operators change their descriptors and replace their leases
\* in the blocks around a fork.
SPECIFICATION MCSpec
CONSTANTS
    BlockHash <- MCBlockHash
    Score <- MCScore
    U64Max = 40
    Identity = {i1, i2}
    ServiceKey = {k1, k2}
    Binding = {b1}
    Nonce = {1}
    epoch_length = 4
    anchor_depth = 1
    committee_size = 1
    rounds_required = 1
    round_offsets <- OneRound
    max_active_population = 2
    max_recent_undo_blocks = 2
    MaxHeight = 7
    MaxRecords = 4
    RegistryHeights = {0, 6, 7}
    LeaseHeights = {5, 6}
    ReceiptHeights = {}
    ForkHeights = {4}
    EffectiveEpochs = {1, 2}
    Lifetimes = {0, 2}
    KeysOfIdentity <- AnyKey
    RegisteredBefore <- AnyOrder
    Subjects = {}
    LeaseNonces = {1}
SYMMETRY Symmetry
INVARIANTS
    TypeOK
    JournalCoversTip
    FrozenMembersAuthorized
    EvidenceIsCanonical
    LeaseSlotsDistinct
PROPERTIES
    BlocksAreReversible
CHECK_DEADLOCK FALSE
