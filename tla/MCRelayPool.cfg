\* The pool after the height from which a slot has one pending receipt.
SPECIFICATION MCSpec
CONSTANTS
    Record <- MCRecord
    Batch <- MCBatch
    queue_limits <- MCQueueLimits
    template_limits <- MCTemplateLimits
    round_offsets <- TwoRounds
    SizeMax = 15
    U64Max = 40
    epoch_length = 6
    anchor_depth = 2
    receipt_slot_dedup_height = 6
    MaxHeight = 9
    FirstHeight = 4
    ForkHeights = {4, 8}
    MaxConfirmed = 1
    Ids = {1, 2, 3, 4, 5, 6, 7, 8, 9}
INVARIANTS
    QueueMatchesRecords
    RoomAccounted
    ReservedRoom
    TemplateReserves
    EvidenceBudgetUsed
    ReplacementEnters
    RetriesAccepted
