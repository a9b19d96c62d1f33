\* The commit of a batch that switched to another branch fails.
SPECIFICATION MCSpec
CONSTANTS
    Genesis = "g"
    Block <- MCBlock
    prev_id <- MCprev_id
    difficulty <- MCdifficulty
    Connects <- MCConnects
    m_points <- MCpoints
    Tree <- ShortBranches
    Heavy = {"b3", "c3"}
    Bad = {"b3"}
    MaxFailures = 1
    max_recent_undo_blocks = 2
    Faults = {"batch_stop"}
INVARIANTS
    DatabaseReplays
