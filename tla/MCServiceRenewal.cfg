\* The chain waits for the node, which is stopped and configured anew.
SPECIFICATION MCSpec
CONSTANTS
    BlockHash <- MCBlockHash
    Score <- MCScore
    U64Max = 30
    Identity = {1}
    ServiceKey = {1}
    Binding = {1, 2}
    Nonce = {1}
    epoch_length = 4
    anchor_depth = 1
    committee_size = 1
    rounds_required = 1
    round_offsets <- OneRound
    max_active_population = 2
    own_identity = 1
    own_service_key = 1
    Barren = {}
    Faults = {"stop", "reconfigure"}
    MaxHeight = 14
    MaxForks = 0
    MaxStops = 2
INVARIANTS
    BatchStaysValid
PROPERTIES
    RenewsWhenRequired
CHECK_DEADLOCK FALSE
