--------------------------- MODULE ReceiptWindow ---------------------------
(***************************************************************************)
(* The rounds of an epoch: the block that anchors each one, and the blocks *)
(* that can carry its receipts (receipt_inclusion_window_v2).              *)
(***************************************************************************)
EXTENDS EposeTiming, Sequences

CONSTANT round_offsets  \* offset of each round from the epoch start

round_count == Len(round_offsets)

Rounds == 0..(round_count - 1)

round_anchor_height(epoch, round) ==
    IF round = 0 THEN committee_anchor(epoch)
    ELSE checked_add(epoch_start(epoch), round_offsets[round + 1])

\* receipt_inclusion_window_v2: the block that anchors a later round is in no
\* window, because its hash selects the committee of that round.
first_inclusion(epoch, round) ==
    LET start == checked_add(epoch_start(epoch), round_offsets[round + 1])
    IN  IF round = 0 THEN start ELSE checked_add(start, 1)

last_inclusion(epoch, round) ==
    IF round + 1 < round_count
    THEN checked_add(epoch_start(epoch), round_offsets[round + 2]) - 1
    ELSE evidence_deadline(epoch)

InWindow(epoch, round, height) ==
    /\ None \notin {first_inclusion(epoch, round), evidence_deadline(epoch)}
    /\ first_inclusion(epoch, round) <= height
    /\ height <= last_inclusion(epoch, round)

=============================================================================
