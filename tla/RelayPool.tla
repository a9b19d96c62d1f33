----------------------------- MODULE RelayPool -----------------------------
(***************************************************************************)
(* The records that a node holds for the next block (relay_record_pool_v2) *)
(* while its chain grows, loses blocks and changes branch.  Batches arrive *)
(* from peers and from the node's own producers; miners ask for templates. *)
(*                                                                         *)
(* The pool sees the consensus state only through has_receipt_slot and     *)
(* apply_transaction, so a chain is the labels of its blocks, which stand  *)
(* for their hashes, and the records that they carry.  A record names its  *)
(* context, the labels of the blocks that it commits to, and the records   *)
(* that must come before it.  Its id is the hash of the whole signed       *)
(* record; its message is what was signed, so two signatures of one        *)
(* message are two records.                                                *)
(***************************************************************************)
EXTENDS RelayQueue, ReceiptWindow

CONSTANTS
    Record,                     \* the records that anyone may relay or mine
    Batch,                      \* the batches of them that anyone submits
    receipt_slot_dedup_height   \* from here on a slot has one pending receipt

\* relay_policy_v2::valid, that no two records have one hash, and what a record that
\* can be decoded is: not empty, of an epoch and a round that there can be.
ASSUME RelayAssumption ==
    /\ template_limits.max_items <= queue_limits.max_items
    /\ template_limits.max_bytes <= queue_limits.max_bytes
    /\ round_offsets \in Seq(Nat)
    /\ receipt_slot_dedup_height \in U64
    /\ Batch \subseteq Seq(Record)
    /\ \A r, s \in Record : r.id = s.id => r = s
    /\ \A r \in Record : r.bytes \in 1..SizeMax /\ r.epoch \in U64 /\ r.round \in Rounds

VARIABLES
    chain,  \* the blocks in the database, from height 0
    pool    \* queue_ and records_

vars == <<chain, pool>>

IsReceipt(r) == r.type = "service_receipt"

SameSlot(r, s) ==
    /\ IsReceipt(r) /\ IsReceipt(s)
    /\ <<r.epoch, r.round, r.pair>> = <<s.epoch, s.round, s.pair>>

-----------------------------------------------------------------------------
(* What apply_transaction makes of a record at a height.  The state is the *)
(* set of records applied so far.                                          *)

Confirmed(blocks) == UNION {ToSet(blocks[i].records) : i \in DOMAIN blocks}

\* The blocks that a record commits to: of a receipt the anchors of its epoch and
\* of its round, of a lease the start of the epoch before.
ContextHeights(r) ==
    CASE r.type = "service_receipt" ->
            <<committee_anchor(r.epoch), round_anchor_height(r.epoch, r.round)>>
      [] r.type = "admission_lease" -> <<epoch_start(r.epoch - 1)>>
      [] OTHER -> <<>>

ContextAvailable(r, blocks) == \A h \in ToSet(ContextHeights(r)) : h < Len(blocks)

ContextMatches(r, blocks) ==
    \A i \in DOMAIN ContextHeights(r) : r.context[i] = blocks[ContextHeights(r)[i] + 1].label

has_receipt_slot(applied, r) == \E s \in applied : SameSlot(r, s)

\* apply_authenticated_receipt refuses a second message for a slot, and accepts
\* the first one again.
SlotOpen(applied, r) == \A s \in applied : SameSlot(r, s) => s.message = r.message

Applies(applied, blocks, r, height) ==
    /\ ContextAvailable(r, blocks)
    /\ ContextMatches(r, blocks)
    /\ IF IsReceipt(r)
       THEN InWindow(r.epoch, r.round, height) /\ SlotOpen(applied, r)
       ELSE /\ height <= enrollment_cutoff(r.epoch)
            /\ r.needs \subseteq {s.id : s \in applied}

\* The records of a list that apply, each after the ones before it.
Applying(applied, blocks, list, height) ==
    FoldLeft(LAMBDA taken, r :
                IF Applies(applied \cup ToSet(taken), blocks, r, height)
                THEN Append(taken, r) ELSE taken,
             <<>>, list)

-----------------------------------------------------------------------------
(* relay_record_pool_v2 *)

EmptyPool == [queue |-> EmptyQueue, records |-> {}]

record_class(r) == IF IsReceipt(r) THEN "evidence" ELSE "enrollment"

\* describe: the last height at which the record can be in a block.
describe(r, height) ==
    CASE ~ IsReceipt(r) -> enrollment_cutoff(r.epoch)
      [] IsReceipt(r) /\ height < receipt_slot_dedup_height -> evidence_deadline(r.epoch)
      [] OTHER -> last_inclusion(r.epoch, r.round)

\* The item of the queue that stands for a record of the pool.
ItemOf(entry) ==
    [id |-> entry.record.id, record_class |-> record_class(entry.record),
     bytes |-> entry.record.bytes, deadline_height |-> entry.deadline_height]

\* Mutant: the queue keeps what the pool forgets.
EraseConfirmedRecordsOnly(p, ids) ==
    [queue |-> p.queue, records |-> {s \in p.records : s.record.id \notin ids}]

erase_confirmed(p, ids) ==
    [queue |-> Without(p.queue, {i \in p.queue.items : i.id \in ids}),
     records |-> {s \in p.records : s.record.id \notin ids}]

\* Of the receipts for one slot the one with the lowest id stays.
compact_receipt_slots(p, height) ==
    IF height < receipt_slot_dedup_height THEN p
    ELSE erase_confirmed(p, {s.record.id : s \in {s \in p.records :
            \E t \in p.records : SameSlot(s.record, t.record) /\ t.record.id < s.record.id}})

prune_expired(p, height) ==
    compact_receipt_slots(
        [queue |-> PruneExpired(p.queue, height),
         records |-> {s \in p.records : s.deadline_height >= height}], height)

\* Mutant: receipts for a branch that was left stay.
PruneUnusableNot(p, blocks, height) == prune_expired(p, height)

\* Receipts whose slot is filled, and those that no longer apply, make room.  One
\* whose anchor is not mined yet stays.
prune_unusable_receipts(p, blocks, height) ==
    LET pruned == prune_expired(p, height)
        confirmed == Confirmed(blocks)
    IN  IF height < receipt_slot_dedup_height THEN pruned
        ELSE erase_confirmed(pruned, {s.record.id : s \in {s \in pruned.records :
                /\ IsReceipt(s.record)
                /\ \/ has_receipt_slot(confirmed, s.record)
                   \/ /\ ContextAvailable(s.record, blocks)
                      /\ ~ Applies(confirmed, blocks, s.record, height)}})

\* The receipt that holds the slot of another one.  In the same context it stays;
\* another context means that it is of a branch that was left.
SlotHolder(p, r, height) ==
    {s \in p.records : height >= receipt_slot_dedup_height /\ SameSlot(s.record, r)}

enqueue(p, r, height) ==
    LET pruned == prune_expired(p, height)
        holder == SlotHolder(pruned, r, height)
        held == {s \in holder : s.record.context = r.context}
        freed == erase_confirmed(pruned, {s.record.id : s \in holder})
        known == {s \in freed.records : s.record = r}
        entry == [record |-> r, deadline_height |-> describe(r, height)]
        item == ItemOf(entry)
        queue == PruneExpired(freed.queue, height)
        status == EnqueueStatus(queue, item, height)
    IN  CASE held # {} ->
                [status |-> IF \E s \in held : s.record = r THEN "idempotent_duplicate"
                            ELSE "receipt_slot_variant",
                 pool |-> pruned]
          [] held = {} /\ known # {} ->
                [status |-> IF entry \in known THEN "idempotent_duplicate" ELSE "conflict",
                 pool |-> freed]
          [] OTHER ->
                [status |-> IF status = "idempotent_duplicate" THEN "invalid_configuration"
                            ELSE status,
                 pool |-> IF status = "accepted"
                          THEN [queue |-> Enqueued(queue, item),
                                records |-> freed.records \cup {entry}]
                          ELSE freed]

\* erase_confirmed_records: with a receipt go all the variants of its slot.
erase_confirmed_records(p, list, height) ==
    erase_confirmed(p, {r.id : r \in ToSet(list)} \cup
        {s.record.id : s \in {s \in p.records :
            /\ height >= receipt_slot_dedup_height
            /\ \E r \in ToSet(list) : SameSlot(s.record, r)}})

-----------------------------------------------------------------------------
(* admit_relay_envelopes_v2: all of a batch or nothing *)

TooLarge(envelopes) ==
    \/ Len(envelopes) > queue_limits.max_items
    \/ FoldLeft(LAMBDA sum, r : sum + r.bytes, 0, envelopes) > queue_limits.max_bytes

\* Mutant: the preview forgets what was queued before.
PreviewForgetsDuplicates(applied, r, status) ==
    IF status = "accepted" THEN applied \cup {r} ELSE applied

\* A record that is queued already still counts for those after it in the batch; a
\* variant of a queued receipt does not.
Preview(applied, r, status) ==
    IF status \in {"accepted", "idempotent_duplicate"} THEN applied \cup {r} ELSE applied

\* Mutant: a second signature of a pending receipt condemns its batch.
VerdictOnVariant(queue_status) ==
    CASE queue_status = "expired" -> "expired"
      [] queue_status = "full" -> "capacity_exhausted"
      [] queue_status \in {"accepted", "idempotent_duplicate"} -> "accepted"
      [] OTHER -> "invalid_batch"

\* What the answer of the pool to a record means for its batch.
Verdict(queue_status) ==
    CASE queue_status = "expired" -> "expired"
      [] queue_status = "full" -> "capacity_exhausted"
      [] queue_status \in {"accepted", "idempotent_duplicate", "receipt_slot_variant"} ->
            "accepted"
      [] OTHER -> "invalid_batch"

\* What the answer of the pool to a record that applies makes of the batch.
Queued(run, r, queued) ==
    [run EXCEPT !.status = Verdict(queued.status),
                !.pool = queued.pool,
                !.applied = Preview(run.applied, r, queued.status)]

\* One envelope of the batch, from the state that the ones before it left.
AdmitOne(run, r, blocks) ==
    LET height == Len(blocks)
        strict == height >= receipt_slot_dedup_height /\ IsReceipt(r)
        genuine == ContextAvailable(r, blocks) /\ ContextMatches(r, blocks)
    IN  CASE run.status # "accepted" -> run
          [] run.status = "accepted" /\ strict /\ ~ genuine ->
                [run EXCEPT !.status = "invalid_batch"]
          [] run.status = "accepted" /\ strict /\ genuine
                /\ height > last_inclusion(r.epoch, r.round) ->
                [run EXCEPT !.status = "expired"]
          [] run.status = "accepted" /\ strict /\ genuine
                /\ height <= last_inclusion(r.epoch, r.round)
                /\ has_receipt_slot(run.applied, r) -> run
          [] OTHER ->
                IF ~ Applies(run.applied, blocks, r, height)
                THEN [run EXCEPT !.status = "invalid_batch"]
                ELSE Queued(run, r, enqueue(run.pool, r, height))

\* The pool takes over what the run over a batch left, if all of it was accepted.
Committed(p, end) ==
    [status |-> end.status, pool |-> IF end.status = "accepted" THEN end.pool ELSE p]

admit(p, blocks, envelopes) ==
    LET start == [status |-> IF TooLarge(envelopes) THEN "invalid_batch" ELSE "accepted",
                  pool |-> prune_unusable_receipts(p, blocks, Len(blocks)),
                  applied |-> Confirmed(blocks)]
        step(run, r) == AdmitOne(run, r, blocks)
    IN  Committed(p, FoldLeft(step, start, envelopes))

\* select_epose_template_records_v2: what a miner is given, and what the pool is
\* afterwards.
TemplatePool(p, blocks) == prune_unusable_receipts(p, blocks, Len(blocks))

Selected(p, blocks) ==
    LET records == TemplatePool(p, blocks).records
        items == select_for_template(TemplatePool(p, blocks).queue, Len(blocks))
        record(i) == CHOOSE r \in {s.record : s \in records} : r.id = i.id
    IN  IF \E i \in ToSet(items) : \A s \in records : s.record.id # i.id THEN <<>>
        ELSE [k \in DOMAIN items |-> record(items[k])]

Template(p, blocks) ==
    Applying(Confirmed(blocks), blocks, Selected(p, blocks), Len(blocks))

-----------------------------------------------------------------------------

\* A node starts with an empty pool, on whatever chain its database holds.
Init(blocks) ==
    /\ chain = blocks
    /\ pool = EmptyPool

Submit(envelopes) ==
    /\ pool' = admit(pool, chain, envelopes).pool
    /\ UNCHANGED chain

GetTemplate ==
    /\ pool' = TemplatePool(pool, chain)
    /\ UNCHANGED chain

\* A block that the node connects, mined from its own template or by others.
AddBlock(label, list) ==
    /\ Applying(Confirmed(chain), chain, list, Len(chain)) = list
    /\ chain' = Append(chain, [label |-> label, records |-> list])
    /\ pool' = erase_confirmed_records(pool, list, Len(chain))

\* The records of a popped block do not come back.
PopBlock ==
    /\ Len(chain) > 1
    /\ chain' = Front(chain)
    /\ UNCHANGED pool

\* The pool is not saved.
Restart ==
    /\ pool' = EmptyPool
    /\ UNCHANGED chain

\* Labels are those of the next block, lists the records that it may carry.
Next(labels, lists) ==
    \/ \E envelopes \in Batch : Submit(envelopes)
    \/ GetTemplate
    \/ \E label \in labels, list \in lists : AddBlock(label, list)
    \/ PopBlock
    \/ Restart

Spec(blocks, labels, lists) == Init(blocks) /\ [][Next(labels, lists)]_vars

-----------------------------------------------------------------------------
(* Properties *)

\* The queue and the list beside it have the same entries with the same deadlines,
\* whatever was pruned, replaced and confirmed in between: a template with an item
\* that has no record is refused as a whole, and no block is mined from it
\* (relay_pool_v2.cpp:400).
QueueMatchesRecords ==
    /\ pool.queue.items = {ItemOf(s) : s \in pool.records}
    /\ \A s, t \in pool.records : s.record = t.record => s = t

\* The running sum of bytes is that of the items and within the limits of the
\* queue, and no class has taken what is reserved for the other, so no difference
\* in enqueue goes below zero (resource_policy_v2.cpp:568).
RoomAccounted ==
    /\ pool.records \subseteq [record : Record, deadline_height : 0..U64Max]
    /\ pool.queue.bytes = BytesOf(pool.queue.items)
    /\ pool.queue.bytes \in 0..queue_limits.max_bytes
    /\ Cardinality(pool.queue.items) <= queue_limits.max_items
    /\ \A c \in Classes :
          LET held == ClassItems(pool.queue.items, c)
          IN  /\ Cardinality(held) <= queue_limits.max_items - queue_limits.reserved_items[Other(c)]
              /\ BytesOf(held) <= queue_limits.max_bytes - queue_limits.reserved_bytes[Other(c)]

\* A record of a class that uses less than its reservation is never refused for
\* want of room, however full the other class has made the queue
\* (resource_policy_v2.cpp:563).
ReservedRoom ==
    \A r \in Record :
        LET held == ClassItems(pool.queue.items, record_class(r))
        IN  /\ Cardinality(held) < queue_limits.reserved_items[record_class(r)]
            /\ BytesOf(held) + r.bytes <= queue_limits.reserved_bytes[record_class(r)]
            => enqueue(pool, r, Len(chain)).status # "full"

\* A class whose records were left out of a template has used up its reservation
\* there, in records or in bytes (resource_policy_v2.cpp:636).
TemplateReserves ==
    LET queue == TemplatePool(pool, chain).queue
        items == ToSet(select_for_template(queue, Len(chain)))
    IN  /\ Cardinality(items) <= template_limits.max_items
        /\ BytesOf(items) <= template_limits.max_bytes
        /\ \A i \in queue.items \ items :
              LET held == ClassItems(items, i.record_class)
              IN  \/ Cardinality(held) >= template_limits.reserved_items[i.record_class]
                  \/ BytesOf(held) + i.bytes > template_limits.reserved_bytes[i.record_class]

\* No part of a template is spent on a receipt that adds nothing to the block: those
\* that are selected fill different slots, and apply one after the other unless
\* their anchor is missing (ADR-0010, decisions 4 and 10; relay_pool_v2.cpp:302).
EvidenceBudgetUsed ==
    Len(chain) >= receipt_slot_dedup_height =>
        \A r, s \in ToSet(Selected(pool, chain)) :
            /\ SameSlot(r, s) => r = s
            /\ IsReceipt(r) /\ ContextAvailable(r, chain) => r \in ToSet(Template(pool, chain))

\* A receipt that the next block can carry, and the pool can hold, is not kept out by
\* one of a branch that was left: its slot is then pending in the present context
\* (ADR-0010, decision 11; relay_pool_v2.cpp:242).
ReplacementEnters ==
    \A r \in Record :
        /\ IsReceipt(r)
        /\ r.bytes <= queue_limits.max_bytes
        /\ Len(chain) >= receipt_slot_dedup_height
        /\ Applies(Confirmed(chain), chain, r, Len(chain))
        /\ ~ has_receipt_slot(Confirmed(chain), r)
        => \E result \in {admit(pool, chain, <<r>>)} :
              \/ result.status = "capacity_exhausted"
              \/ /\ result.status = "accepted"
                 /\ \E s \in result.pool.records :
                       SameSlot(s.record, r) /\ s.record.context = r.context

\* A peer that sends again what is pending, after blocks came and went, is never
\* told that its batch is invalid (relay_pool_v2.cpp:261); and a batch that was
\* accepted is accepted when it comes again, because what it finds queued still
\* counts for the records after it (relay_pool_v2.cpp:612).
RetriesAccepted ==
    /\ \A s \in pool.records :
          Applies(Confirmed(chain), chain, s.record, Len(chain)) =>
              admit(pool, chain, <<s.record>>).status = "accepted"
    /\ \A envelopes \in Batch :
          \E first \in {admit(pool, chain, envelopes)} :
              first.status = "accepted" =>
                  admit(first.pool, chain, envelopes).status = "accepted"

=============================================================================
