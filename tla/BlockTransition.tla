-------------------------- MODULE BlockTransition --------------------------
(***************************************************************************)
(* The fail-atomic block transition of EPoSE v2 (block_transition_v2).     *)
(* apply_block is split into its steps: the journal and the freeze, the    *)
(* transactions record by record, the close and the commit.  A record that *)
(* is refused, or an exception at any point, runs the scope guards, which  *)
(* roll back the transaction and then the block.                           *)
(*                                                                         *)
(* The chain of block hashes belongs to the database; it is what the       *)
(* canonical context source reads.  A payment proof changes no state: one  *)
(* that is accepted is a stuttering step, one that is refused is Refuse.   *)
(* The structural pass over the envelopes comes before any change, so a    *)
(* block that fails it does nothing.                                       *)
(***************************************************************************)
EXTENDS SemanticState

CONSTANT max_recent_undo_blocks

ASSUME UndoAssumption == max_recent_undo_blocks \in Nat \ {0}

VARIABLES
    state,      \* state_
    undo,       \* undo_, the journals of the most recent blocks
    tip,        \* tip_height_, or None when have_tip_ is false
    chain,      \* the hashes of the blocks in the database, from height 0
    pc,         \* "idle", or the loop of apply_block that is running
    hash,       \* the hash of the block that is being applied
    tx_undo     \* the journal of the transaction that is being applied

vars == <<state, undo, tip, chain, pc, hash, tx_undo>>

NoUndo == checkpoint(EmptyState)

Init ==
    /\ state = EmptyState
    /\ undo = <<>>
    /\ tip = None
    /\ chain = <<>>
    /\ pc = "idle"
    /\ hash = NullHash
    /\ tx_undo = NoUndo

\* The height that apply_block insists on.
Height == IF tip = None THEN activation_height ELSE tip + 1

last == Len(undo)

Front(seq) == SubSeq(seq, 1, Len(seq) - 1)

\* The epoch whose membership the block at a height freezes, if there is one.
FreezeDue(height) ==
    /\ height <= U64Max - anchor_depth
    /\ (height + anchor_depth) % epoch_length = 0
    /\ (height + anchor_depth) \div epoch_length >= first_service_epoch

FreezeEpoch(height) == (height + anchor_depth) \div epoch_length

\* Mutant: the first service epoch is never closed.
CloseDueLate(height) ==
    /\ height <= U64Max - anchor_depth - 1
    /\ (height + anchor_depth + 1) % epoch_length = 0
    /\ (height + anchor_depth + 1) \div epoch_length - 1 > first_service_epoch

\* The epoch whose qualification the block at a height closes, if there is one.
CloseDue(height) ==
    /\ height <= U64Max - anchor_depth - 1
    /\ (height + anchor_depth + 1) % epoch_length = 0
    /\ (height + anchor_depth + 1) \div epoch_length - 1 >= first_service_epoch

CloseEpoch(height) == (height + anchor_depth + 1) \div epoch_length - 1

\* The journal is allocated, and the membership frozen, before any transaction.
BeginBlock(block_id) ==
    LET freezing == FreezeDue(Height)
        entry == [height |-> Height, prior_tip |-> tip,
                  changes |-> [checkpoint(state) EXCEPT !.inserted_snapshots =
                                  IF freezing THEN {FreezeEpoch(Height)} ELSE {}]]
    IN  /\ pc = "idle"
        /\ Height <= U64Max
        /\ freezing => FreezePossible(state, FreezeEpoch(Height), Height)
        /\ undo' = Append(undo, entry)
        /\ state' = IF freezing THEN freeze_membership(state, FreezeEpoch(Height), block_id)
                    ELSE state
        /\ hash' = block_id
        /\ pc' = "block"
        /\ UNCHANGED <<tip, chain, tx_undo>>

BeginTransaction ==
    /\ pc = "block"
    /\ pc' = "transaction"
    /\ tx_undo' = checkpoint(state)
    /\ UNCHANGED <<state, undo, tip, chain, hash>>

LifecycleRecord(r) ==
    /\ pc = "transaction"
    /\ LifecycleAccepted(state, r, Height)
    /\ tx_undo' = LogLifecycle(state, r, tx_undo)
    /\ state' = ApplyLifecycle(state, r)
    /\ UNCHANGED <<undo, tip, chain, pc, hash>>

AdmissionRecord(lease) ==
    /\ pc = "transaction"
    /\ \/ /\ LeaseAppended(state, lease, Height, chain)
          /\ state' = AppendLease(state, lease, Height)
          /\ UNCHANGED tx_undo
       \/ /\ LeaseReplaced(state, lease, Height, chain)
          /\ tx_undo' = LogReplacement(state, lease, tx_undo)
          /\ state' = ReplaceLease(state, lease, Height)
    /\ UNCHANGED <<undo, tip, chain, pc, hash>>

ReceiptRecord(r) ==
    /\ pc = "transaction"
    /\ ReceiptAccepted(state, r, Height, chain)
    /\ state' = AppendReceipt(state, r, Height)
    /\ UNCHANGED <<undo, tip, chain, pc, hash, tx_undo>>

EndTransaction ==
    /\ pc = "transaction"
    /\ undo' = [undo EXCEPT ![last].changes = append_undo(@, tx_undo)]
    /\ tx_undo' = NoUndo
    /\ pc' = "block"
    /\ UNCHANGED <<state, tip, chain, hash>>

\* Mutant: the journal of the failed block stays.
UnwindKeepingJournal(transaction_undo) ==
    LET inner == IF pc = "transaction" THEN rollback(state, transaction_undo) ELSE state
    IN  /\ state' = rollback(inner, undo[last].changes)
        /\ tx_undo' = NoUndo
        /\ pc' = "idle"
        /\ hash' = NullHash
        /\ UNCHANGED <<tip, chain, undo>>

\* The scope guards: the transaction is rolled back first, then its block.
Unwind(transaction_undo) ==
    LET inner == IF pc = "transaction" THEN rollback(state, transaction_undo) ELSE state
    IN  /\ state' = rollback(inner, undo[last].changes)
        /\ undo' = Front(undo)
        /\ tx_undo' = NoUndo
        /\ pc' = "idle"
        /\ hash' = NullHash
        /\ UNCHANGED <<tip, chain>>

\* A record is refused, or an exception leaves one of the loops.
Refuse ==
    /\ pc # "idle"
    /\ Unwind(tx_undo)

\* Memory runs out after the log of a record is written and before its change.
ThrowAfterLog(r) ==
    /\ pc = "transaction"
    /\ LifecycleAccepted(state, r, Height)
    /\ r.action # "register_identity"
    /\ Unwind(LogLifecycle(state, r, tx_undo))

\* The close, the commit and the trimming of the oldest journals; the database
\* then has the block.
EndBlock ==
    LET closing == CloseDue(Height)
        closed == [undo EXCEPT ![last].changes.inserted_qualifications =
                      IF closing THEN @ \cup {CloseEpoch(Height)} ELSE @]
    IN  /\ pc = "block"
        /\ closing => ClosePossible(state, CloseEpoch(Height), Height)
        /\ state' = IF closing THEN close_qualification(state, CloseEpoch(Height)) ELSE state
        /\ undo' = IF Len(closed) > max_recent_undo_blocks THEN Tail(closed) ELSE closed
        /\ tip' = Height
        /\ chain' = Append(chain, hash)
        /\ pc' = "idle"
        /\ hash' = NullHash
        /\ UNCHANGED tx_undo

\* disconnect_tip, after the database has popped the block.
DisconnectTip ==
    /\ pc = "idle"
    /\ tip # None
    /\ undo # <<>>
    /\ undo[last].height = tip
    /\ state' = rollback(state, undo[last].changes)
    /\ tip' = undo[last].prior_tip
    /\ undo' = Front(undo)
    /\ chain' = Front(chain)
    /\ UNCHANGED <<pc, hash, tx_undo>>

\* The steps inside a block, with the hash and the records from the given sets.
StepInBlock(ids, records, leases, receipts) ==
    \/ \E block_id \in ids : BeginBlock(block_id)
    \/ BeginTransaction
    \/ \E r \in records : LifecycleRecord(r)
    \/ \E r \in records : ThrowAfterLog(r)
    \/ \E lease \in leases : AdmissionRecord(lease)
    \/ \E r \in receipts : ReceiptRecord(r)
    \/ EndTransaction
    \/ Refuse

Next ==
    \/ StepInBlock(BlockHash, Records, Leases, Receipts)
    \/ EndBlock
    \/ DisconnectTip

Spec == Init /\ [][Next]_vars

-----------------------------------------------------------------------------
(* Properties *)

\* Every variable has the type of the field or local it models.
TypeOK ==
    /\ state \in States
    /\ undo \in Seq([height : U64, prior_tip : U64 \cup {None}, changes : Undos])
    /\ tip \in U64 \cup {None}
    /\ chain \in Seq(BlockHash)
    /\ pc \in {"idle", "block", "transaction"}
    /\ hash \in BlockHash \cup {NullHash}
    /\ tx_undo \in Undos

\* The journals kept are those of the newest blocks without a gap, so that
\* disconnect_tip asks for a deep replay only when the window is used up
\* (block_transition_v2.cpp:230).
JournalCoversTip ==
    LET n == IF pc = "idle" THEN Len(undo) ELSE Len(undo) - 1
    IN  /\ Len(chain) = Height
        /\ n <= max_recent_undo_blocks
        /\ \A i \in 1..n : /\ undo[i].height = tip - (n - i)
                           /\ undo[i].prior_tip = IF undo[i].height = 0 THEN None
                                                 ELSE undo[i].height - 1

\* The boundary operations of the next block cannot fail, whatever the blocks
\* before it contained: a failure would make every block at that height invalid
\* (block_transition_v2.cpp:143 and :189).
BoundariesSucceed ==
    /\ pc = "idle" /\ FreezeDue(Height) => FreezePossible(state, FreezeEpoch(Height), Height)
    /\ pc = "block" /\ CloseDue(Height) => ClosePossible(state, CloseEpoch(Height), Height)

\* A frozen member keeps the descriptor it was frozen with in its epoch, although
\* the registry goes on changing: the payout looks the descriptor up again and
\* fails the block when it differs (coordinator_v2.cpp:179).
FrozenMembersAuthorized ==
    \A s \in state.snapshots : s.members \subseteq AuthorizedMembers(state.histories, s.epoch)

\* Leases and receipts always rest on blocks of the current chain, also after
\* blocks were disconnected and others connected.
EvidenceIsCanonical ==
    /\ \A s \in EntriesOf(state.leases) :
          LET context == epoch_start(s.lease.target_epoch - 1)
          IN  /\ HasBlock(chain, context)
              /\ s.lease.admission_context_hash = block_hash(chain, context)
    /\ \A s \in EntriesOf(state.receipts) :
          LET r == s.receipt_hash
              anchor == round_anchor_height(r.epoch, r.round)
          IN  /\ HasBlock(chain, anchor)
              /\ r.anchor_hash = block_hash(chain, anchor)
              /\ r.snapshot_hash \in state.snapshots

\* A closed qualification set is what the receipts of its epoch still say: no
\* receipt joins or leaves an epoch after its close (membership_v2.cpp:746).
QualificationSettled ==
    \A q \in state.qualifications :
        q = Closed(state.receipts, OfEpoch(state.snapshots, q.epoch))

\* Every block at a payout height finds the closed set of the epoch before it
\* (coordinator_v2.cpp:146).
PayoutSetClosed ==
    pc = "idle" /\ first_payout_height # None /\ Height \in first_payout_height..U64Max =>
        Height \div epoch_length - 1 \in EpochsOf(state.qualifications)

\* No two leases for one epoch share an identity or a service key, so the order in
\* which state_hash sorts them is determined (membership_v2.cpp:900).
LeaseSlotsDistinct ==
    \A i, j \in DOMAIN state.leases :
        LET a == state.leases[i].lease
            b == state.leases[j].lease
        IN  /\ a.target_epoch = b.target_epoch
            /\ \/ a.member.identity_id = b.member.identity_id
               \/ a.member.service_public_key = b.member.service_public_key
            => i = j

\* A receipt slot is filled once (membership_v2.cpp:726).
ReceiptSlotsDistinct ==
    \A i, j \in DOMAIN state.receipts :
        SameReceiptSlot(state.receipts[i].receipt_hash, state.receipts[j].receipt_hash) => i = j

=============================================================================
