----------------------------- MODULE RelayQueue -----------------------------
(***************************************************************************)
(* The bounded queue of records that wait for a block                      *)
(* (deadline_relay_queue_v2).  Each of the two classes of records has a    *)
(* part of the room that the other class cannot take.                      *)
(*                                                                         *)
(* A queue is the set of its items and the running sum of their bytes.     *)
(* Differences are unsigned ones: the code subtracts without a check       *)
(* because the limits hold, which is for the properties to show.           *)
(***************************************************************************)
EXTENDS Integers, SequencesExt

CONSTANTS
    SizeMax,            \* the largest value of size_t
    queue_limits,       \* relay_queue_limits_v2 of the queue
    template_limits     \* relay_template_limits_v2 of a block template

Classes == {"enrollment", "evidence"}

Other(class) == IF class = "enrollment" THEN "evidence" ELSE "enrollment"

\* relay_queue_limits_v2::valid, and the same for the limits of a template.
LimitsValid(limits) ==
    /\ limits.max_items \in 1..SizeMax
    /\ limits.max_bytes \in 1..SizeMax
    /\ \A c \in Classes : /\ limits.reserved_items[c] \in 1..limits.max_items
                          /\ limits.reserved_bytes[c] \in 1..limits.max_bytes
    /\ limits.reserved_items["enrollment"] + limits.reserved_items["evidence"]
         <= limits.max_items
    /\ limits.reserved_bytes["enrollment"] + limits.reserved_bytes["evidence"]
         <= limits.max_bytes

ASSUME LimitsAssumption ==
    /\ SizeMax \in Nat
    /\ LimitsValid(queue_limits)
    /\ LimitsValid(template_limits)

Minus(a, b) == (a - b) % (SizeMax + 1)

EmptyQueue == [items |-> {}, bytes |-> 0]

ClassItems(items, class) == {i \in items : i.record_class = class}

BytesOf(items) == FoldSet(LAMBDA i, sum : i.bytes + sum, 0, items)

\* Mutant: the bytes of what is removed still count.
WithoutKeepingBytes(queue, gone) ==
    [items |-> queue.items \ gone, bytes |-> queue.bytes]

Without(queue, gone) ==
    [items |-> queue.items \ gone, bytes |-> Minus(queue.bytes, BytesOf(gone))]

\* prune_expired.
PruneExpired(queue, height) ==
    Without(queue, {i \in queue.items : i.deadline_height < height})

\* Mutant: the room of the other class is not kept free.
NoRoomUnreserved(queue, item) ==
    \/ Cardinality(queue.items) >= queue_limits.max_items
    \/ item.bytes > Minus(queue_limits.max_bytes, queue.bytes)

\* The room that enqueue looks for: in the queue, and in the part of it that is
\* not reserved for the other class.
NoRoom(queue, item) ==
    LET class == item.record_class
        held == ClassItems(queue.items, class)
    IN  \/ Cardinality(queue.items) >= queue_limits.max_items
        \/ Cardinality(held)
             >= Minus(queue_limits.max_items, queue_limits.reserved_items[Other(class)])
        \/ item.bytes > Minus(queue_limits.max_bytes, queue.bytes)
        \/ item.bytes > Minus(Minus(queue_limits.max_bytes,
                                    queue_limits.reserved_bytes[Other(class)]),
                              BytesOf(held))

\* enqueue, after it has pruned the queue: what it answers ...
EnqueueStatus(queue, item, height) ==
    LET same == {i \in queue.items : i.id = item.id}
    IN  CASE item.deadline_height < height -> "expired"
          [] item.deadline_height >= height /\ same # {} ->
                IF item \in same THEN "idempotent_duplicate" ELSE "conflict"
          [] OTHER -> IF NoRoom(queue, item) THEN "full" ELSE "accepted"

\* ... and the queue with the item that it accepts.
Enqueued(queue, item) ==
    [items |-> queue.items \cup {item}, bytes |-> queue.bytes + item.bytes]

-----------------------------------------------------------------------------
(* select_for_template *)

\* The order in which a template takes items.
Before(i, j) ==
    \/ i.deadline_height < j.deadline_height
    \/ i.deadline_height = j.deadline_height /\ i.id < j.id

NothingSelected == [items |-> <<>>, bytes |-> 0]

Fits(selected, item) ==
    /\ Len(selected.items) < template_limits.max_items
    /\ item.bytes <= Minus(template_limits.max_bytes, selected.bytes)

Add(selected, item) ==
    [items |-> Append(selected.items, item), bytes |-> selected.bytes + item.bytes]

\* The items of one class, within the part of the template that is reserved for it.
reserve_class(candidates, selected, class) ==
    LET held(s) == SelectSeq(s.items, LAMBDA i : i.record_class = class)
        step(s, item) ==
            IF /\ item.record_class = class
               /\ Len(held(s)) < template_limits.reserved_items[class]
               /\ item.bytes <= Minus(template_limits.reserved_bytes[class],
                                      BytesOf(ToSet(held(s))))
               /\ Fits(s, item)
            THEN Add(s, item)
            ELSE s
    IN  FoldLeft(step, selected, candidates)

\* Mutant: the nearest deadlines first, whatever their class.
SelectByDeadline(queue, height) ==
    LET candidates == SetToSortSeq({i \in queue.items : i.deadline_height >= height}, Before)
        step(s, item) == IF Fits(s, item) THEN Add(s, item) ELSE s
    IN  FoldLeft(step, NothingSelected, candidates).items

\* The reserved parts first, then whatever still fits.
select_for_template(queue, height) ==
    LET candidates == SetToSortSeq({i \in queue.items : i.deadline_height >= height}, Before)
        enrollment == reserve_class(candidates, NothingSelected, "enrollment")
        evidence == reserve_class(candidates, enrollment, "evidence")
        step(s, item) ==
            IF item \notin ToSet(s.items) /\ Fits(s, item) THEN Add(s, item) ELSE s
    IN  FoldLeft(step, evidence, candidates).items

=============================================================================
