\* Everything goes wrong: ways to miss an epoch.
SPECIFICATION MCSpec
CONSTANTS
    BlockHash <- MCBlockHash
    Score <- MCScore
    U64Max = 30
    Identity = {1}
    ServiceKey = {1}
    Binding = {1}
    Nonce = {1}
    epoch_length = 4
    anchor_depth = 1
    committee_size = 1
    rounds_required = 1
    round_offsets <- OneRound
    max_active_population = 2
    own_identity = 1
    own_service_key = 1
    Barren <- BarrenFork
    Faults = {"offline", "slow", "stop", "reorg", "split", "crowded"}
    MaxHeight = 9
    MaxForks = 1
    MaxStops = 1
PROPERTIES
    OnlyKnownDeadEnds
CHECK_DEADLOCK FALSE
