---------------------------- MODULE MCRelayPool ----------------------------
(***************************************************************************)
(* The relay pool for TLC: one epoch of two rounds on a chain with two     *)
(* versions of the anchor blocks, receipts for three slots with their      *)
(* variants, and an operator that enrolls for the next epoch.              *)
(***************************************************************************)
EXTENDS RelayPool

CONSTANTS
    MaxHeight,      \* of the chain
    ForkHeights,    \* at which there are two versions of a block
    FirstHeight,    \* the blocks below it stay
    MaxConfirmed,   \* records in the blocks of the chain
    Ids             \* of the records that are in use

TwoRounds == <<0, 2>>

Limits(items, reserved, bytes, reserved_bytes) ==
    [max_items |-> items, max_bytes |-> bytes,
     reserved_items |-> [c \in Classes |-> reserved],
     reserved_bytes |-> [c \in Classes |-> reserved_bytes]]

MCQueueLimits == Limits(3, 1, 6, 2)

MCTemplateLimits == Limits(2, 1, 4, 2)

Receipt(id, round, pair, message, context, bytes) ==
    [id |-> id, type |-> "service_receipt", epoch |-> 1, round |-> round, pair |-> pair,
     message |-> message, context |-> context, needs |-> {}, bytes |-> bytes]

Enrollment(id, type, context, needs, bytes) ==
    [id |-> id, type |-> type, epoch |-> 2, round |-> 0, pair |-> "none",
     message |-> id, context |-> context, needs |-> needs, bytes |-> bytes]

AllRecords ==
    {Receipt(1, 0, "p", 1, <<1, 1>>, 2),    \* two signatures of one message
     Receipt(2, 0, "p", 1, <<1, 1>>, 2),
     Receipt(3, 0, "p", 2, <<2, 2>>, 2),    \* on the other branch
     Receipt(4, 0, "q", 1, <<1, 1>>, 1),
     Receipt(5, 1, "p", 3, <<1, 1>>, 1),
     Receipt(6, 1, "p", 4, <<1, 2>>, 1),
     Enrollment(7, "identity_descriptor", <<>>, {}, 1),
     Enrollment(8, "admission_lease", <<1>>, {7}, 2),
     Enrollment(9, "identity_descriptor", <<>>, {}, 2)}

MCRecord == {r \in AllRecords : r.id \in Ids}

\* Single records, and two in the order in which their ids are listed here.
Pairs == {<<7, 8>>, <<8, 7>>, <<2, 1>>, <<3, 1>>, <<4, 7>>, <<5, 6>>}

MCBatch ==
    {<<r>> : r \in MCRecord} \cup
    {s \in SeqOf(MCRecord, 2) : Len(s) = 2 /\ <<s[1].id, s[2].id>> \in Pairs}

Lists ==
    {<<>>} \cup IF Cardinality(Confirmed(chain)) = MaxConfirmed THEN {}
                ELSE {<<r>> : r \in MCRecord}

Base == [i \in 1..FirstHeight |-> [label |-> 1, records |-> <<>>]]

Labels == IF Len(chain) > MaxHeight THEN {}
          ELSE IF Len(chain) \in ForkHeights THEN {1, 2} ELSE {1}

MCNext ==
    /\ Next(Labels, Lists)
    /\ Len(chain') >= FirstHeight

MCSpec == Init(Base) /\ [][MCNext]_vars

=============================================================================
