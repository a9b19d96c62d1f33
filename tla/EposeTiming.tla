---------------------------- MODULE EposeTiming ----------------------------
(***************************************************************************)
(* Epoch arithmetic of EPoSE v2 (epoch_timing_v2 in membership_v2.cpp).    *)
(* Every height and epoch is an unsigned integer of a fixed width, and     *)
(* every operation of the code is a checked one: it either returns a value *)
(* of that width or fails.  A failure is the result None here.             *)
(***************************************************************************)
EXTENDS Integers

CONSTANTS
    epoch_length,   \* blocks in an epoch
    anchor_depth,   \* distance of the committee anchor from the epoch start
    U64Max          \* the largest value of the integer type (2^64 - 1)

\* epoch_timing_v2::valid, with the activation height that
\* consensus_parameters_v2::valid insists on.
ASSUME TimingAssumption ==
    /\ epoch_length \in Nat
    /\ anchor_depth \in Nat \ {0}
    /\ anchor_depth < epoch_length
    /\ U64Max \in Nat \ {0}

U64 == 0..U64Max

None == -1

activation_height == 0

checked_add(a, b) == IF a # None /\ a + b <= U64Max THEN a + b ELSE None

checked_mul(a, b) == IF a # None /\ a * b <= U64Max THEN a * b ELSE None

activation_epoch == activation_height \div epoch_length

first_service_epoch == checked_add(activation_epoch, 1)

epoch_start(epoch) == checked_mul(epoch, epoch_length)

epoch_end(epoch) == checked_add(epoch_start(epoch), epoch_length - 1)

first_payout_height == epoch_start(checked_add(first_service_epoch, 1))

\* The last height whose admissions can still enter the snapshot of an epoch.
enrollment_cutoff(epoch) ==
    IF epoch_start(epoch) <= anchor_depth THEN None
    ELSE epoch_start(epoch) - anchor_depth - 1

\* The height whose block freezes the membership of an epoch.
committee_anchor(epoch) ==
    IF epoch_start(epoch) < anchor_depth THEN None
    ELSE epoch_start(epoch) - anchor_depth

\* The last height whose receipts count; its block closes the epoch.
evidence_deadline(epoch) ==
    IF epoch_end(epoch) < anchor_depth THEN None
    ELSE epoch_end(epoch) - anchor_depth

=============================================================================
