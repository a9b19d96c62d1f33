--------------------------- MODULE SemanticState ---------------------------
(***************************************************************************)
(* The consensus state of EPoSE v2 (semantic_state_v2): the registry and   *)
(* the pipeline together, what one record of a transaction does to them,   *)
(* and the journal that undoes it.                                         *)
(*                                                                         *)
(* A journal remembers the lengths of the append-only lists when it was    *)
(* begun and, in the order of the changes, the old length of every history *)
(* that grew, every lease that was replaced, and the epochs of inserted    *)
(* snapshots and qualification sets.                                       *)
(***************************************************************************)
EXTENDS MembershipPipeline

States ==
    [histories : Histories,
     leases : Seq(StoredLeases),
     receipts : Seq(StoredReceipts),
     snapshots : SUBSET Snapshots,
     qualifications : SUBSET Qualifications]

EmptyState ==
    [histories |-> <<>>, leases |-> <<>>, receipts |-> <<>>,
     snapshots |-> {}, qualifications |-> {}]

\* The registry hashes its histories in the order of their ids and the pipeline
\* its leases and receipts in the order of their slots: positions do not count.
state_hash(st) ==
    <<lifecycle_state_hash(st.histories), EntriesOf(st.leases), EntriesOf(st.receipts),
      st.snapshots, st.qualifications>>

-----------------------------------------------------------------------------
(* Journals *)

Undos ==
    [histories_size : Nat, record_sizes : Seq([index : Nat, records_size : Nat]),
     leases_size : Nat, receipts_size : Nat,
     replaced_leases : Seq([index : Nat, stored : StoredLeases]),
     inserted_snapshots : SUBSET U64, inserted_qualifications : SUBSET U64]

checkpoint(st) ==
    [histories_size |-> Len(st.histories),
     record_sizes |-> <<>>,
     leases_size |-> Len(st.leases),
     receipts_size |-> Len(st.receipts),
     replaced_leases |-> <<>>,
     inserted_snapshots |-> {},
     inserted_qualifications |-> {}]

\* Entries are undone newest first, so of the entries for one position the oldest
\* one decides.
Oldest(log, index) ==
    log[CHOOSE i \in DOMAIN log :
            /\ log[i].index = index
            /\ \A j \in 1..(i - 1) : log[j].index # index]

Logged(log, index) == \E i \in DOMAIN log : log[i].index = index

resize(seq, n) == [i \in 1..n |-> seq[i]]

\* Mutant: a history is cut one record too short.
RollbackHistoriesTooFar(h, undo) ==
    [i \in 1..undo.histories_size |->
        IF Logged(undo.record_sizes, i)
        THEN [h[i] EXCEPT !.records = resize(@, Oldest(undo.record_sizes, i).records_size - 1)]
        ELSE h[i]]

RollbackHistories(h, undo) ==
    [i \in 1..undo.histories_size |->
        IF Logged(undo.record_sizes, i)
        THEN [h[i] EXCEPT !.records = resize(@, Oldest(undo.record_sizes, i).records_size)]
        ELSE h[i]]

RollbackLeases(leases, undo) ==
    [i \in 1..undo.leases_size |->
        IF Logged(undo.replaced_leases, i)
        THEN Oldest(undo.replaced_leases, i).stored
        ELSE leases[i]]

\* Mutant: the receipts stay.
RollbackWithoutReceipts(st, undo) ==
    [histories |-> RollbackHistories(st.histories, undo),
     leases |-> RollbackLeases(st.leases, undo),
     receipts |-> st.receipts,
     snapshots |-> {s \in st.snapshots : s.epoch \notin undo.inserted_snapshots},
     qualifications |-> {q \in st.qualifications : q.epoch \notin undo.inserted_qualifications}]

\* Mutant: the qualification sets stay.
RollbackWithoutQualifications(st, undo) ==
    [histories |-> RollbackHistories(st.histories, undo),
     leases |-> RollbackLeases(st.leases, undo),
     receipts |-> resize(st.receipts, undo.receipts_size),
     snapshots |-> {s \in st.snapshots : s.epoch \notin undo.inserted_snapshots},
     qualifications |-> st.qualifications]

rollback(st, undo) ==
    [histories |-> RollbackHistories(st.histories, undo),
     leases |-> RollbackLeases(st.leases, undo),
     receipts |-> resize(st.receipts, undo.receipts_size),
     snapshots |-> {s \in st.snapshots : s.epoch \notin undo.inserted_snapshots},
     qualifications |-> {q \in st.qualifications : q.epoch \notin undo.inserted_qualifications}]

\* Mutant: the replaced leases of a transaction are forgotten with its journal.
AppendUndoWithoutLeases(target, source) ==
    [target EXCEPT !.record_sizes = @ \o source.record_sizes,
                   !.inserted_snapshots = @ \cup source.inserted_snapshots,
                   !.inserted_qualifications = @ \cup source.inserted_qualifications]

\* The journal of a transaction joins that of its block, whose sizes are older.
append_undo(target, source) ==
    [target EXCEPT !.record_sizes = @ \o source.record_sizes,
                   !.replaced_leases = @ \o source.replaced_leases,
                   !.inserted_snapshots = @ \cup source.inserted_snapshots,
                   !.inserted_qualifications = @ \cup source.inserted_qualifications]

-----------------------------------------------------------------------------
(* apply_transaction, record by record, in the block at a height *)

inclusion_epoch(height) == height \div epoch_length

\* Mutant: the block that freezes an epoch may still change it.
MinimumEffectiveEpochAtAnchor(height) ==
    LET next == inclusion_epoch(height) + 1
        cutoff == enrollment_cutoff(next)
    IN  IF cutoff = None \/ height > cutoff + 1 THEN next + 1 ELSE next

minimum_effective_epoch(height) ==
    LET next == inclusion_epoch(height) + 1
        cutoff == enrollment_cutoff(next)
    IN  IF cutoff = None \/ height > cutoff THEN next + 1 ELSE next

LifecycleAccepted(st, r, height) ==
    Accepts(st.histories, r, TRUE, inclusion_epoch(height), minimum_effective_epoch(height))

LifecycleDuplicate(st, r, height) ==
    AcceptsDuplicate(st.histories, r, TRUE, inclusion_epoch(height),
                     minimum_effective_epoch(height))

\* The log is written before the registry grows.
LogLifecycle(st, r, undo) ==
    LET i == HistoryIndex(st.histories, r.next_descriptor.identity_id)
    IN  IF r.action = "register_identity" THEN undo
        ELSE [undo EXCEPT !.record_sizes =
                Append(@, [index |-> i, records_size |-> Len(st.histories[i].records)])]

ApplyLifecycle(st, r) == [st EXCEPT !.histories = PushRecord(@, r)]

\* Mutant: the work may have been done on another chain.
LeaseBoundAnywhere(st, lease, height, chain) ==
    LET d == descriptor_for_epoch(st.histories, lease.member.identity_id, lease.target_epoch)
    IN  /\ AdmissionTimely(lease, height)
        /\ d # NullDescriptor
        /\ lease.member = MemberOf(d)
        /\ HasBlock(chain, epoch_start(lease.target_epoch - 1))
        /\ AdmissionChecked(st.leases, st.snapshots, lease, height)

\* A lease must belong to the descriptor that its identity has in the epoch it
\* asks for, and must have been worked out on the canonical chain.
LeaseBound(st, lease, height, chain) ==
    LET d == descriptor_for_epoch(st.histories, lease.member.identity_id, lease.target_epoch)
        context == epoch_start(lease.target_epoch - 1)
    IN  /\ AdmissionTimely(lease, height)
        /\ d # NullDescriptor
        /\ lease.member = MemberOf(d)
        /\ HasBlock(chain, context)
        /\ lease.admission_context_hash = block_hash(chain, context)
        /\ AdmissionChecked(st.leases, st.snapshots, lease, height)

LeaseAppended(st, lease, height, chain) ==
    LeaseBound(st, lease, height, chain) /\ AdmissionAppends(st.leases, lease)

LeaseReplaced(st, lease, height, chain) ==
    LeaseBound(st, lease, height, chain) /\ AdmissionReplaces(st.leases, lease)

LeaseDuplicate(st, lease, height, chain) ==
    LeaseBound(st, lease, height, chain) /\ AdmissionDuplicate(st.leases, lease)

AppendLease(st, lease, height) ==
    [st EXCEPT !.leases = Append(@, [lease |-> lease, inclusion_height |-> height])]

LogReplacement(st, lease, undo) ==
    LET i == SlotIndex(st.leases, lease)
    IN  [undo EXCEPT !.replaced_leases = Append(@, [index |-> i, stored |-> st.leases[i]])]

ReplaceLease(st, lease, height) ==
    [st EXCEPT !.leases[SlotIndex(st.leases, lease)] =
        [lease |-> lease, inclusion_height |-> height]]

ReceiptAccepted(st, r, height, chain) ==
    /\ ReceiptChecked(st.snapshots, r, height, chain)
    /\ ReceiptAppends(st.receipts, st.qualifications, r)

ReceiptRepeated(st, r, height, chain) ==
    /\ ReceiptChecked(st.snapshots, r, height, chain)
    /\ ReceiptDuplicate(st.receipts, r)

AppendReceipt(st, r, height) ==
    [st EXCEPT !.receipts = Append(@, [receipt_hash |-> r, inclusion_height |-> height])]

-----------------------------------------------------------------------------
(* The epoch boundaries *)

\* descriptors_for_epoch, as the members that they authorize.
AuthorizedMembers(h, epoch) ==
    {MemberOf(d) : d \in {descriptor_for_epoch(h, id, epoch) : id \in Identity} \ {NullDescriptor}}

FreezePossible(st, epoch, height) ==
    FreezeAllowed(st.leases, st.snapshots, AuthorizedMembers(st.histories, epoch), epoch, height)

freeze_membership(st, epoch, anchor_hash) ==
    [st EXCEPT !.snapshots = @ \cup
        {Frozen(st.leases, AuthorizedMembers(st.histories, epoch), epoch, anchor_hash)}]

ClosePossible(st, epoch, height) ==
    CloseAllowed(st.snapshots, st.qualifications, epoch, height)

close_qualification(st, epoch) ==
    [st EXCEPT !.qualifications = @ \cup {Closed(st.receipts, OfEpoch(st.snapshots, epoch))}]

=============================================================================
