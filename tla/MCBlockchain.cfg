\* Batches, switches and pops with failing blocks, exceptions of add_block and crashes.
SPECIFICATION MCSpec
CONSTANTS
    Genesis = "g"
    Block <- MCBlock
    prev_id <- MCprev_id
    difficulty <- MCdifficulty
    Connects <- MCConnects
    m_points <- MCpoints
    Tree <- ThreeBranches
    Heavy = {"b3", "c3"}
    Bad = {"b3"}
    MaxFailures = 1
    max_recent_undo_blocks = 2
    Faults = {"add_block", "crash"}
INVARIANTS
    TypeOK
    IdleCoordinatorCanonical
    CoordinatorFollowsBatch
    DatabaseReplays
    RestoreNeverRefused
PROPERTIES
    CommitNeverWorse
    ServesCanonicalState
    Recovers
