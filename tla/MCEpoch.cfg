\* One epoch from enrolment to payout: up to six operators compete for five
\* places, committees of three verify one member in two rounds, and the blocks
\* that anchor the rounds fork.
SPECIFICATION MCSpec
CONSTANTS
    BlockHash <- MCBlockHash
    Score <- MCScore
    U64Max = 40
    Identity = {1, 2, 3, 4, 5, 6}
    ServiceKey = {1, 2, 3, 4, 5, 6}
    Binding = {b1}
    Nonce = {1}
    epoch_length = 4
    anchor_depth = 1
    committee_size = 3
    rounds_required = 2
    round_offsets <- TwoRounds
    max_active_population = 5
    max_recent_undo_blocks = 2
    MaxHeight = 8
    MaxRecords = 17
    RegistryHeights = {0}
    LeaseHeights = {2, 3}
    ReceiptHeights = {4, 5, 6}
    ForkHeights = {3, 5}
    EffectiveEpochs = {1}
    Lifetimes = {2}
    KeysOfIdentity <- OwnKey
    RegisteredBefore <- NumberOrder
    Subjects = {1}
    LeaseNonces = {1}
INVARIANTS
    BoundariesSucceed
    EvidenceIsCanonical
    QualificationSettled
    PayoutSetClosed
    ReceiptSlotsDistinct
CHECK_DEADLOCK FALSE
