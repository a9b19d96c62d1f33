\* Two operations of the database fail.
SPECIFICATION MCSpec
CONSTANTS
    Genesis = "g"
    Block <- MCBlock
    prev_id <- MCprev_id
    difficulty <- MCdifficulty
    Connects <- MCConnects
    m_points <- MCpoints
    Tree <- ShortBranches
    Heavy = {"b3", "c3"}
    Bad = {"b3"}
    MaxFailures = 2
    max_recent_undo_blocks = 2
    Faults = {"add_block", "pop_block", "batch_stop", "crash"}
PROPERTIES
    RestartHeals
\* A database that init refuses stops the node.
CHECK_DEADLOCK FALSE
