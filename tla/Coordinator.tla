---------------------------- MODULE Coordinator ----------------------------
(***************************************************************************)
(* The consensus coordinator (consensus_coordinator_v2): the block         *)
(* transition with the reward that each block must pay.  A block in an     *)
(* epoch pays a node that qualified in the epoch before, to the address    *)
(* that its descriptor had then.                                           *)
(*                                                                         *)
(* connect_block compares the coinbase with the plan before it changes     *)
(* anything, so a block that pays something else is one that does nothing. *)
(* The checks after apply_block compare counters of signatures that the    *)
(* code has just counted, and do not fail.                                 *)
(***************************************************************************)
EXTENDS BlockTransitionHistory, Reward

CONSTANTS
    Subsidies,              \* what get_block_reward may schedule
    Fees,                   \* what the transactions of a block may pay
    PayoutScore(_, _, _)    \* the rank of a node, from the qualification and the seed;
                            \* equal hashes are told apart by the keys

ASSUME CoordinatorAssumption == Subsidies \subseteq Amounts /\ Fees \subseteq Amounts

NoPayee == [service_public_key |-> NullHash]

payout_epoch(height) == height \div epoch_length

source_epoch(height) == payout_epoch(height) - 1

\* Whose turn it is among n nodes.
Position(height, n) == (height - epoch_start(payout_epoch(height))) % n

\* select_service_payee_v2: the nodes take turns in the order of their scores.
select_service_payee(q, seed, height) ==
    LET nodes == q.qualified_nodes
        before(key) == {k \in nodes : PayoutScore(q, seed, k) < PayoutScore(q, seed, key)}
    IN  CHOOSE key \in nodes :
            Cardinality(before(key)) = Position(height, Cardinality(nodes))

\* Mutant: the address is the one that the node has now.
PayeeDescriptorNow(st, id, epoch) == latest(st.histories, id)

\* The descriptor that the payout looks up again.
PayeeDescriptor(st, id, epoch) == descriptor_for_epoch(st.histories, id, epoch)

\* The payee that the frozen membership and the registry agree on, or NoPayee.
Payee(st, blocks, height) ==
    LET epoch == source_epoch(height)
        q == OfEpoch(st.qualifications, epoch)
        key == select_service_payee(q, block_hash(blocks, committee_anchor(payout_epoch(height))),
                                    height)
        members == {m \in OfEpoch(st.snapshots, epoch).members : m.service_public_key = key}
        paid == {m \in members :
                    LET d == PayeeDescriptor(st, m.identity_id, epoch)
                    IN  d # NullDescriptor /\ MemberOf(d) = m}
    IN  IF /\ HasBlock(blocks, committee_anchor(payout_epoch(height)))
           /\ epoch_end(payout_epoch(height)) # None
           /\ epoch \in EpochsOf(st.snapshots)
           /\ paid # {}
        THEN CHOOSE m \in paid : TRUE
        ELSE NoPayee

Qualified(st, height) == OfEpoch(st.qualifications, source_epoch(height)).qualified_nodes

\* plan_reward for a block at a height, before the epochs that pay and in them.
PaysService(st, height) == height >= first_payout_height /\ Qualified(st, height) # {}

plan_reward(st, blocks, height, subsidy, fees) ==
    LET a == IF height < first_payout_height
             THEN [miner_subsidy |-> subsidy, service_reward |-> 0,
                   permanently_unissued |-> 0, miner_fees |-> fees]
             ELSE Allocation(subsidy, fees, Qualified(st, height) # {})
        missing == /\ height >= first_payout_height
                   /\ source_epoch(height) \notin EpochsOf(st.qualifications)
    IN  CASE first_payout_height = None -> [status |-> "arithmetic_overflow"]
          [] first_payout_height # None /\ missing -> [status |-> "missing_qualification"]
          [] OTHER ->
                IF PaysService(st, height) /\ Payee(st, blocks, height) = NoPayee
                THEN [status |-> "invalid_payout_state"]
                ELSE [status |-> IF AllocationAccepted(a) THEN "accepted"
                                 ELSE "arithmetic_overflow",
                      payee |-> IF PaysService(st, height) THEN Payee(st, blocks, height)
                                ELSE NoPayee,
                      allocation |-> a]

\* The coinbase pays what the plan says; a share of nothing cannot be paid.
ConnectBlock(block_id, subsidy, fees) ==
    LET plan == plan_reward(state, chain, Height, subsidy, fees)
    IN  /\ plan.status = "accepted"
        /\ plan.payee # NoPayee => plan.allocation.service_reward > 0
        /\ BeginBlock(block_id)
        /\ UNCHANGED past

\* The steps of the transition, each block through the coordinator.
CoordinatorStep(ids, records, leases, receipts) ==
    \/ \E block_id \in ids, subsidy \in Subsidies, fees \in Fees :
            ConnectBlock(block_id, subsidy, fees)
    \/ BeginTransaction /\ UNCHANGED past
    \/ \E r \in records : LifecycleRecord(r) /\ UNCHANGED past
    \/ \E lease \in leases : AdmissionRecord(lease) /\ UNCHANGED past
    \/ \E r \in receipts : ReceiptRecord(r) /\ UNCHANGED past
    \/ EndTransaction /\ UNCHANGED past
    \/ Refuse /\ UNCHANGED past
    \/ EndBlock /\ Remember
    \/ DisconnectTip /\ past' = Front(past)

CoordinatorSpec ==
    HistoryInit /\ [][CoordinatorStep(BlockHash, Records, Leases, Receipts)]_historyVars

-----------------------------------------------------------------------------
(* Properties *)

\* Whatever the blocks before it contained, and whatever descriptors changed since
\* the payee was frozen, the next block has a reward plan: without one no block at
\* that height is valid (coordinator_v2.cpp:146, :168, :174 and :190).  Only amounts
\* that do not fit stop it, or an epoch that does not end within the integer type.
RewardPlannable ==
    pc = "idle" /\ first_payout_height # None /\ epoch_end(payout_epoch(Height)) # None =>
        \A subsidy \in Subsidies, fees \in Fees :
            LET plan == plan_reward(state, chain, Height, subsidy, fees)
            IN  /\ plan.status \in {"accepted", "arithmetic_overflow"}
                /\ subsidy + fees <= AmountMax => plan.status = "accepted"
                /\ plan.status = "accepted" =>
                      AllocationExact(subsidy, fees, PaysService(state, Height))

\* Once an epoch that pays has begun, every later block of it has a payee that no
\* block can change: not a new descriptor, not a new lease, not a late receipt
\* (coordinator_v2.cpp:143 and :176).
PayoutScheduleFixed ==
    [][ EndBlock /\ Height >= first_payout_height =>
            \A h \in Height..(epoch_start(payout_epoch(Height)) + epoch_length - 1) :
                plan_reward(Committed.state, chain, h, 0, 0) = plan_reward(state', chain', h, 0, 0)
      ]_historyVars

=============================================================================
