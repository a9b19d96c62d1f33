\* The payout epoch: two operators may qualify in the epoch before, one seed forks,
\* and descriptors with other addresses take effect around it.
SPECIFICATION MCCoordinatorSpec
CONSTANTS
    BlockHash <- MCBlockHash
    Score <- MCScore
    PayoutScore <- MCPayoutScore
    U64Max = 40
    AmountMax = 100000000
    service_reward_bps = 1000
    empty_policy = "miner_fallback"
    Subsidies = {9, 19999}
    Fees = {0, 99999999}
    Identity = {1, 2}
    ServiceKey = {1, 2}
    Binding = {b1, b2}
    Nonce = {1}
    epoch_length = 4
    anchor_depth = 1
    committee_size = 1
    rounds_required = 1
    round_offsets <- OneRound
    max_active_population = 2
    max_recent_undo_blocks = 2
    MaxHeight = 9
    MaxRecords = 7
    RegistryHeights = {0, 5, 8}
    LeaseHeights = {2}
    ReceiptHeights = {4}
    ForkHeights = {7}
    EffectiveEpochs = {1, 3}
    Lifetimes = {2}
    KeysOfIdentity <- OwnKey
    RegisteredBefore <- NumberOrder
    Subjects = {1, 2}
    LeaseNonces = {1}
SYMMETRY Addresses
INVARIANTS
    RewardPlannable
PROPERTIES
    PayoutScheduleFixed
CHECK_DEADLOCK FALSE
