----------------------- MODULE BlockTransitionHistory -----------------------
(***************************************************************************)
(* The block transition with a history variable: the states that the       *)
(* journals must be able to restore.  It implements ReversibleState.       *)
(***************************************************************************)
EXTENDS BlockTransition

VARIABLE past

historyVars == <<state, undo, tip, chain, pc, hash, tx_undo, past>>

\* The state that a failure of the running block would return to.
Committed ==
    LET inner == IF pc = "transaction" THEN rollback(state, tx_undo) ELSE state
    IN  [state |-> IF pc = "idle" THEN state ELSE rollback(inner, undo[last].changes),
         tip |-> tip]

HistoryInit == Init /\ past = <<>>

Remember ==
    past' = IF Len(past) = max_recent_undo_blocks THEN Append(Tail(past), Committed)
            ELSE Append(past, Committed)

HistoryStep(ids, records, leases, receipts) ==
    \/ StepInBlock(ids, records, leases, receipts) /\ UNCHANGED past
    \/ EndBlock /\ Remember
    \/ DisconnectTip /\ past' = Front(past)

HistorySpec ==
    HistoryInit /\ [][HistoryStep(BlockHash, Records, Leases, Receipts)]_historyVars

Abstract ==
    INSTANCE ReversibleState
    WITH State <- [state : States, tip : U64 \cup {None}],
         Start <- [state |-> EmptyState, tip |-> None],
         Window <- max_recent_undo_blocks,
         current <- Committed

\* A block that fails, at any record of any transaction, leaves no trace, and
\* disconnecting a block restores the state and the tip that it was connected to,
\* list for list and not only hash for hash (block_transition_v2.cpp:121 and :234).
BlocksAreReversible == Abstract!Spec

=============================================================================
