------------------------- MODULE Coordinator_proofs -------------------------
(***************************************************************************)
(* The reward of a block: the arithmetic of the split for every width of   *)
(* the amounts, that every height that pays finds a payee who is a member  *)
(* of the epoch that pays, and that a block never changes the payees that  *)
(* are decided.                                                            *)
(***************************************************************************)
EXTENDS Coordinator, Epoch_proofs

-----------------------------------------------------------------------------
(* The split *)

\* Amounts are numbers.
LEMMA AmountsType == AmountMax \in Nat /\ Amounts \subseteq Nat
<1>1. AmountMax \in Nat
  BY RewardAssumption
<1> QED
  BY <1>1 DEF Amounts

\* A number in the range of the type is not changed by wrapping.
LEMMA WrapInRange ==
    ASSUME NEW n \in Amounts
    PROVE  Wrap(n) = n
  BY RewardAssumption DEF Wrap, Amounts

\* The product of a quotient by 10000 with basis points is at most 10000 quotients.
LEMMA ProductBound ==
    ASSUME NEW q \in Nat, NEW bps \in BasisPoints
    PROVE  /\ q * bps \in Nat
           /\ q * bps <= 10000 * q
<1>bps. bps \in Nat /\ bps <= 10000
  BY DEF BasisPoints
<1>1. PICK d \in Nat : bps + d = 10000
  <2>1. 10000 - bps \in Nat /\ bps + (10000 - bps) = 10000
    BY <1>bps
  <2> QED
    BY <2>1
<1>2. q * (bps + d) = q * bps + q * d
  BY <1>bps
<1>3. q * d \in Nat /\ q * bps \in Nat
  BY <1>bps
<1>4. q * 10000 = q * bps + q * d
  BY <1>1, <1>2
<1> QED
  BY <1>3, <1>4

\* The share, computed without rounding before the last division.
ExactShare(amount, bps) ==
    /\ basis_points(amount, bps) = (amount * bps) \div 10000
    /\ basis_points(amount, bps) \in 0..amount

\* basis_points is the exact share rounded down, no intermediate value wraps, and
\* the share is never more than the amount (reward_v2.cpp:28).
THEOREM BasisPointsExact ==
    ASSUME NEW amount \in Amounts, NEW bps \in BasisPoints
    PROVE  ExactShare(amount, bps)
<1> DEFINE q == amount \div 10000
           r == amount % 10000
<1>bps. bps \in Nat /\ bps <= 10000
  BY DEF BasisPoints
<1>1. q \in Nat /\ r \in Nat /\ r < 10000 /\ amount = 10000 * q + r
  BY DEF Amounts
<1> HIDE DEF q, r
<1>2. q * bps \in Nat /\ q * bps <= 10000 * q
  BY <1>1, <1>bps, ProductBound
<1>3. r * bps \in Nat /\ r * bps <= 10000 * r
  BY <1>1, <1>bps, ProductBound
<1>4. amount * bps = 10000 * (q * bps) + r * bps
  BY <1>1, <1>bps
<1> DEFINE P == q * bps
           R == r * bps
<1>5. P \in Nat /\ R \in Nat /\ P <= 10000 * q /\ R <= 10000 * r
  BY <1>2, <1>3
<1>6. amount * bps = 10000 * P + R
  BY <1>4
<1> HIDE DEF P, R
<1>7. R \div 10000 \in Nat /\ R \div 10000 <= r
  BY <1>1, <1>5
<1>8. (10000 * P + R) \div 10000 = P + R \div 10000
  BY <1>5
<1>9. P \in Amounts /\ R \in Amounts /\ P + R \div 10000 \in Amounts
  BY <1>1, <1>5, <1>7, RewardAssumption DEF Amounts
<1>10. Wrap(P) = P /\ Wrap(R) = R /\ Wrap(P + R \div 10000) = P + R \div 10000
  BY <1>9, WrapInRange
<1>11. basis_points(amount, bps) = Wrap(Wrap(P) + Wrap(R) \div 10000)
  BY DEF basis_points, P, R, q, r
<1>12. basis_points(amount, bps) = P + R \div 10000
  BY <1>10, <1>11
<1> QED
  BY <1>1, <1>5, <1>6, <1>7, <1>8, <1>12 DEF ExactShare

\* The parts of a split are amounts that add up to the subsidy.
LEMMA AllocationParts ==
    ASSUME NEW subsidy \in Amounts, NEW fees \in Amounts, NEW has_payee \in BOOLEAN
    PROVE  LET a == Allocation(subsidy, fees, has_payee)
               share == (subsidy * service_reward_bps) \div 10000
           IN  /\ a.miner_subsidy \in Nat /\ a.service_reward \in Nat
               /\ a.permanently_unissued \in Nat /\ a.miner_fees = fees
               /\ a.miner_subsidy + a.service_reward + a.permanently_unissued = subsidy
               /\ has_payee => a.service_reward = share
               /\ a.miner_subsidy \in {subsidy - share, subsidy}
<1>bps. service_reward_bps \in BasisPoints
  BY RewardAssumption
<1>share. ExactShare(subsidy, service_reward_bps)
  BY <1>bps, BasisPointsExact
<1> DEFINE share == basis_points(subsidy, service_reward_bps)
           a == Allocation(subsidy, fees, has_payee)
           kept == ~ has_payee /\ empty_policy = "miner_fallback"
<1>1. share = (subsidy * service_reward_bps) \div 10000 /\ share \in 0..subsidy
  BY <1>share DEF ExactShare
<1>2. /\ a.miner_subsidy = IF kept THEN subsidy ELSE Wrap(subsidy - share)
      /\ a.service_reward = IF has_payee THEN share ELSE 0
      /\ a.permanently_unissued = IF has_payee \/ kept THEN 0 ELSE share
      /\ a.miner_fees = fees
  BY DEF Allocation
<1> HIDE DEF share, a
<1>3. Wrap(subsidy - share) = subsidy - share
  <2>1. subsidy - share \in Amounts
    BY <1>1, RewardAssumption DEF Amounts
  <2> QED
    BY <2>1, WrapInRange
<1>4. /\ a.miner_subsidy \in Nat /\ a.service_reward \in Nat /\ a.permanently_unissued \in Nat
      /\ a.miner_subsidy + a.service_reward + a.permanently_unissued = subsidy
      /\ has_payee => a.service_reward = share
      /\ a.miner_subsidy \in {subsidy - share, subsidy}
  BY <1>1, <1>2, <1>3 DEF Amounts
<1> QED
  BY <1>1, <1>2, <1>4 DEF a

\* No coin appears or is lost in the split, whatever the subsidy, the fees and the
\* policy for an empty qualification set (reward_v2.cpp:166).
THEOREM AllocationIsExact ==
    ASSUME NEW subsidy \in Amounts, NEW fees \in Amounts, NEW has_payee \in BOOLEAN
    PROVE  AllocationExact(subsidy, fees, has_payee)
<1> DEFINE a == Allocation(subsidy, fees, has_payee)
           share == (subsidy * service_reward_bps) \div 10000
<1>1. /\ a.miner_subsidy \in Nat /\ a.service_reward \in Nat
      /\ a.permanently_unissued \in Nat /\ a.miner_fees = fees
      /\ a.miner_subsidy + a.service_reward + a.permanently_unissued = subsidy
      /\ has_payee => a.service_reward = share
      /\ a.miner_subsidy \in {subsidy - share, subsidy}
  BY AllocationParts
<1> HIDE DEF a, share
<1>2. AllocationAccepted(a) <=> issued_subsidy(a) + fees <= AmountMax
  BY <1>1, RewardAssumption DEF AllocationAccepted, issued_subsidy, coinbase_total, Amounts
<1> QED
  BY <1>1, <1>2 DEF AllocationExact, a, share

-----------------------------------------------------------------------------
(* The ranks *)

\* The rank of a node is a number, and two nodes have two ranks: the sort in
\* select_service_payee_v2 compares the keys when the hashes are equal
\* (reward_v2.cpp:266).
DistinctScores ==
    \A q, seed : \A k, l \in ServiceKey :
        /\ PayoutScore(q, seed, k) \in Int
        /\ PayoutScore(q, seed, k) = PayoutScore(q, seed, l) => k = l

\* The nodes that come before a node.
Before(q, seed, nodes, key) ==
    {k \in nodes : PayoutScore(q, seed, k) < PayoutScore(q, seed, key)}

\* Two nodes have two places.
LEMMA PlacesDiffer ==
    ASSUME DistinctScores, NEW q, NEW seed, NEW nodes \in SUBSET ServiceKey,
           IsFiniteSet(nodes), NEW k \in nodes, NEW l \in nodes,
           PayoutScore(q, seed, k) < PayoutScore(q, seed, l)
    PROVE  Cardinality(Before(q, seed, nodes, k)) # Cardinality(Before(q, seed, nodes, l))
<1> DEFINE A == Before(q, seed, nodes, k)
           B == Before(q, seed, nodes, l)
<1>0. \A i \in nodes : PayoutScore(q, seed, i) \in Int
  BY DEF DistinctScores
<1>1. B \subseteq nodes /\ A \subseteq B
  BY <1>0 DEF Before
<1>2. k \in B /\ k \notin A
  BY <1>0 DEF Before
<1>3. IsFiniteSet(B)
  BY <1>1, FS_Subset
<1> HIDE DEF A, B
<1>4. Cardinality(B) = Cardinality(A) => B = A
  BY <1>1, <1>3, FS_Subset
<1> QED
  BY <1>2, <1>4 DEF A, B

\* Every turn is somebody's: there is a node with each number of nodes before it.
LEMMA EveryTurnTaken ==
    ASSUME DistinctScores, NEW q, NEW seed, NEW nodes \in SUBSET ServiceKey,
           IsFiniteSet(nodes), NEW p \in 0..(Cardinality(nodes) - 1)
    PROVE  \E key \in nodes : Cardinality(Before(q, seed, nodes, key)) = p
<1> DEFINE n == Cardinality(nodes)
           rank == [key \in nodes |-> Cardinality(Before(q, seed, nodes, key))]
           places == 0..(n - 1)
<1>1. n \in Nat /\ n # 0
  <2>1. n \in Nat
    BY FS_CardinalityType
  <2> QED
    BY <2>1
<1>2. ASSUME NEW key \in nodes
      PROVE  Cardinality(Before(q, seed, nodes, key)) \in places
  <2> DEFINE B == Before(q, seed, nodes, key)
             rest == nodes \ {key}
  <2>1. PayoutScore(q, seed, key) \in Int
    BY DEF DistinctScores
  <2>2. B \in SUBSET rest
    BY <2>1 DEF Before
  <2>3. IsFiniteSet(rest) /\ Cardinality(rest) = n - 1
    BY FS_RemoveElement
  <2> HIDE DEF B, rest, n
  <2>4. IsFiniteSet(B) /\ Cardinality(B) <= n - 1
    BY <2>2, <2>3, FS_Subset
  <2>5. Cardinality(B) \in Nat
    BY <2>4, FS_CardinalityType
  <2> QED
    BY <1>1, <2>4, <2>5 DEF B
<1>3. ASSUME NEW k \in nodes, NEW l \in nodes, rank[k] = rank[l]
      PROVE  k = l
  <2>1. /\ PayoutScore(q, seed, k) \in Int /\ PayoutScore(q, seed, l) \in Int
        /\ PayoutScore(q, seed, k) = PayoutScore(q, seed, l) => k = l
    BY DEF DistinctScores
  <2>2. Cardinality(Before(q, seed, nodes, k)) = Cardinality(Before(q, seed, nodes, l))
    BY <1>3
  <2>3. ~ (PayoutScore(q, seed, k) < PayoutScore(q, seed, l))
    BY <2>2, PlacesDiffer
  <2>4. ~ (PayoutScore(q, seed, l) < PayoutScore(q, seed, k))
    BY <2>2, PlacesDiffer
  <2> QED
    BY <2>1, <2>3, <2>4
<1>4. IsFiniteSet(places) /\ Cardinality(places) = n
  BY <1>1, FS_Interval
<1>5. rank \in [nodes -> places]
  BY <1>2
<1> HIDE DEF rank, n, places
<1>6. rank \in Injection(nodes, places)
  BY <1>3, <1>5 DEF Injection, IsInjective
<1>7. rank \in Surjection(nodes, places)
  BY <1>4, <1>6, FS_Injection DEF n
<1>8. PICK key \in nodes : rank[key] = p
  BY <1>7 DEF Surjection, places, n
<1> QED
  BY <1>8 DEF rank

\* A list gives a finite set of members.
LEMMA FrozenFinite ==
    ASSUME NEW leases \in Seq(StoredLeases), NEW authorized, NEW e, NEW a
    PROVE  IsFiniteSet(Frozen(leases, authorized, e, a).members)
<1> DEFINE S == Eligible(leases, authorized, e)
           T == {leases[i].lease.member : i \in S}
           f == [i \in S |-> leases[i].lease.member]
<1>1. S \subseteq 1..Len(leases) /\ Len(leases) \in Nat
  BY DEF Eligible
<1>2. IsFiniteSet(S)
  <2>1. IsFiniteSet(1..Len(leases))
    BY <1>1, FS_Interval
  <2> QED
    BY <1>1, <2>1, FS_Subset
<1>3. f \in Surjection(S, T)
  BY DEF Surjection
<1>4. IsFiniteSet(T)
  BY <1>2, <1>3, FS_Surjection
<1> QED
  BY <1>4 DEF Frozen

\* The keys of a finite snapshot.
LEMMA KeysFinite ==
    ASSUME NEW s, IsFiniteSet(s.members)
    PROVE  IsFiniteSet(KeysOf(s))
<1> DEFINE f == [m \in s.members |-> m.service_public_key]
<1>1. f \in Surjection(s.members, KeysOf(s))
  BY DEF Surjection, KeysOf
<1> QED
  BY <1>1, FS_Surjection

-----------------------------------------------------------------------------
(* Histories and snapshots *)

\* Every record of a history is about the identity of the history.
RecordsOwn(h) ==
    \A i \in DOMAIN h : \A k \in DOMAIN h[i].records :
        h[i].records[k].next_descriptor.identity_id = h[i].identity_id

Regular(st) ==
    /\ RecordsOwn(st.histories)
    /\ \A s \in st.snapshots : IsFiniteSet(s.members)

\* A journal leaves beginnings of the histories and some of the snapshots.
LEMMA RollbackRegular ==
    ASSUME NEW st \in States, NEW u, Fits(st, u), Regular(st)
    PROVE  Regular(rollback(st, u))
<1> DEFINE h == st.histories
           g == RollbackHistories(h, u)
<1>1. h \in Histories /\ FitsHistories(h, u)
  BY StateType DEF Fits
<1>2. /\ DOMAIN g = 1..u.histories_size
      /\ \A i \in 1..u.histories_size :
            /\ i \in DOMAIN h
            /\ g[i].identity_id = h[i].identity_id
            /\ g[i].records = RestoredRecords(h, u, i)
  BY <1>1, RollbackHistoriesResult
<1>3. RecordsOwn(h)
  BY DEF Regular
<1> HIDE DEF g, h
<1>4. ASSUME NEW i \in DOMAIN g, NEW k \in DOMAIN g[i].records
      PROVE  k \in DOMAIN h[i].records /\ g[i].records[k] = h[i].records[k]
  <2>1. i \in DOMAIN h /\ g[i].records = RestoredRecords(h, u, i)
    BY <1>2
  <2>2. h[i].records \in Seq(Records)
    BY <1>1, <2>1, HistoryType
  <2>3. CASE Logged(u.record_sizes, i)
    <3> DEFINE n == Oldest(u.record_sizes, i).records_size
    <3>1. n \in 1..Len(h[i].records)
      BY <1>1, <2>3, RestoredSize
    <3>2. g[i].records = resize(h[i].records, n)
      BY <2>1, <2>3 DEF RestoredRecords
    <3> HIDE DEF n
    <3>3. g[i].records = [j \in 1..n |-> h[i].records[j]]
      BY <3>2 DEF resize
    <3>4. k \in 1..n /\ g[i].records[k] = h[i].records[k]
      BY <3>3
    <3> QED
      BY <2>2, <3>1, <3>4
  <2>4. CASE ~ Logged(u.record_sizes, i)
    BY <2>1, <2>4 DEF RestoredRecords
  <2> QED
    BY <2>3, <2>4
<1>5. RecordsOwn(g)
  <2> SUFFICES ASSUME NEW i \in DOMAIN g, NEW k \in DOMAIN g[i].records
               PROVE  g[i].records[k].next_descriptor.identity_id = g[i].identity_id
    BY DEF RecordsOwn
  <2>1. /\ k \in DOMAIN h[i].records /\ g[i].records[k] = h[i].records[k]
        /\ i \in DOMAIN h /\ g[i].identity_id = h[i].identity_id
    BY <1>2, <1>4
  <2> QED
    BY <1>3, <2>1 DEF RecordsOwn
<1>6. /\ rollback(st, u).histories = g
      /\ rollback(st, u).snapshots \subseteq st.snapshots
  BY DEF rollback, g, h
<1> QED
  BY <1>5, <1>6 DEF Regular

\* A record joins the history of its identity.
LEMMA PushOwn ==
    ASSUME NEW h \in Histories, DistinctIds(h), NEW r \in Records, RecordsOwn(h),
           Registered(h, r.next_descriptor.identity_id) <=> r.action # "register_identity"
    PROVE  RecordsOwn(PushRecord(h, r))
<1> DEFINE g == PushRecord(h, r)
           id == r.next_descriptor.identity_id
<1>1. CASE r.action = "register_identity"
  <2>1. /\ g \in Histories /\ Len(g) = Len(h) + 1
        /\ \A j \in DOMAIN h : g[j] = h[j]
        /\ g[Len(h) + 1] = [identity_id |-> id, records |-> <<r>>]
    BY <1>1, PushRegistration
  <2> HIDE DEF g
  <2>2. DOMAIN g = DOMAIN h \cup {Len(h) + 1}
    BY <2>1 DEF Histories
  <2>3. \A k \in DOMAIN g[Len(h) + 1].records :
            g[Len(h) + 1].records[k].next_descriptor.identity_id = g[Len(h) + 1].identity_id
    BY <2>1
  <2>4. RecordsOwn(g)
    BY <2>1, <2>2, <2>3 DEF RecordsOwn
  <2> QED
    BY <2>4 DEF g
<1>2. CASE r.action # "register_identity"
  <2> DEFINE i == HistoryIndex(h, id)
  <2>1. Registered(h, id)
    BY <1>2
  <2>2. /\ g \in Histories /\ i \in DOMAIN h /\ h[i].identity_id = id
        /\ DOMAIN g = DOMAIN h
        /\ \A j \in DOMAIN h : j # i => g[j] = h[j]
        /\ g[i].identity_id = h[i].identity_id
        /\ g[i].records = Append(h[i].records, r)
    BY ZenonT(40), <1>2, <2>1, PushTransition
  <2>3. h[i].records \in Seq(Records)
    BY <2>2, HistoryType
  <2> HIDE DEF g, i
  <2> DEFINE rs == h[i].records
  <2>4. /\ DOMAIN Append(rs, r) = DOMAIN rs \cup {Len(rs) + 1}
        /\ Append(rs, r)[Len(rs) + 1] = r
        /\ \A k \in DOMAIN rs : Append(rs, r)[k] = rs[k]
    <3>1. rs \in Seq(Records)
      BY <2>3
    <3> HIDE DEF rs
    <3> QED
      BY <3>1
  <2>5. \A k \in DOMAIN rs : rs[k].next_descriptor.identity_id = id
    BY <2>2 DEF RecordsOwn
  <2> HIDE DEF rs
  <2>6. \A k \in DOMAIN Append(rs, r) : Append(rs, r)[k].next_descriptor.identity_id = id
    BY <2>4, <2>5
  <2>7. RecordsOwn(g)
    <3> SUFFICES ASSUME NEW j \in DOMAIN g, NEW k \in DOMAIN g[j].records
                 PROVE  g[j].records[k].next_descriptor.identity_id = g[j].identity_id
      BY DEF RecordsOwn
    <3>1. CASE j = i
      BY <2>2, <2>6, <3>1 DEF rs
    <3>2. CASE j # i
      BY <2>2, <3>2 DEF RecordsOwn
    <3> QED
      BY <3>1, <3>2
  <2> QED
    BY <2>7 DEF g
<1> QED
  BY <1>1, <1>2

\* The state at the start of the block is no exception.
LEMMA OuterRegular ==
    ASSUME IInv, Regular(state)
    PROVE  Regular(Outer)
<1>1. /\ state \in States /\ Inner \in States
      /\ pc = "transaction" => Fits(state, tx_undo)
      /\ pc # "idle" => Fits(Inner, undo[last].changes)
  BY DEF IInv, RunningOK, Sound
<1>2. Regular(Inner)
  <2>1. CASE pc = "transaction"
    BY <1>1, <2>1, RollbackRegular DEF Inner
  <2>2. CASE pc # "transaction"
    BY <2>2 DEF Inner
  <2> QED
    BY <2>1, <2>2
<1>3. CASE pc = "idle"
  BY <1>3 DEF Outer
<1>4. CASE pc # "idle"
  BY <1>1, <1>2, <1>4, RollbackRegular DEF Outer
<1> QED
  BY <1>3, <1>4

\* Records and boundaries keep histories and snapshots as they should be.
LEMMA RegularStep ==
    ASSUME IInv, Regular(state), HistoryStep(BlockHash, Records, Leases, Receipts)
    PROVE  Regular(state')
<1>1. /\ state \in States /\ DistinctIds(state.histories) /\ state.histories \in Histories
      /\ state.leases \in Seq(StoredLeases)
  BY StateType DEF IInv, RunningOK, Sound
<1>2. ASSUME NEW block_id \in BlockHash, BeginBlock(block_id)
      PROVE  Regular(state')
  <2> DEFINE e == FreezeEpoch(Height)
             f == Frozen(state.leases, AuthorizedMembers(state.histories, e), e, block_id)
  <2>1. CASE FreezeDue(Height)
    <3>1. state' = freeze_membership(state, e, block_id)
      BY <1>2, <2>1 DEF BeginBlock
    <3>2. state'.histories = state.histories /\ state'.snapshots = state.snapshots \cup {f}
      BY <1>1, <3>1 DEF freeze_membership, States
    <3>3. IsFiniteSet(f.members)
      BY <1>1, FrozenFinite
    <3> HIDE DEF f
    <3> QED
      BY <3>2, <3>3 DEF Regular
  <2>2. CASE ~ FreezeDue(Height)
    BY <1>2, <2>2 DEF BeginBlock
  <2> QED
    BY <2>1, <2>2
<1>3. ASSUME NEW r \in Records, LifecycleRecord(r)
      PROVE  Regular(state')
  <2>1. LifecycleAccepted(state, r, Height) /\ state' = ApplyLifecycle(state, r)
    BY <1>3 DEF LifecycleRecord
  <2>2. Registered(state.histories, r.next_descriptor.identity_id)
           <=> r.action # "register_identity"
    <3>1. Accepts(state.histories, r, TRUE, inclusion_epoch(Height), minimum_effective_epoch(Height))
      BY ZenonT(60), <2>1 DEF LifecycleAccepted
    <3> QED
      BY ZenonT(60), <3>1, AcceptedKinds
  <2>3. state'.histories = PushRecord(state.histories, r) /\ state'.snapshots = state.snapshots
    BY <1>1, <2>1 DEF ApplyLifecycle, States
  <2> QED
    BY <1>1, <2>2, <2>3, PushOwn DEF Regular
<1>4. ASSUME NEW lease \in Leases, AdmissionRecord(lease)
      PROVE  Regular(state')
  <2>1. state' = AppendLease(state, lease, Height) \/ state' = ReplaceLease(state, lease, Height)
    BY <1>4 DEF AdmissionRecord
  <2>2. state'.histories = state.histories /\ state'.snapshots = state.snapshots
    BY <1>1, <2>1 DEF AppendLease, ReplaceLease, States
  <2> QED
    BY <2>2 DEF Regular
<1>5. ASSUME NEW r \in Receipts, ReceiptRecord(r)
      PROVE  Regular(state')
  <2>1. state' = AppendReceipt(state, r, Height)
    BY <1>5 DEF ReceiptRecord
  <2>2. state'.histories = state.histories /\ state'.snapshots = state.snapshots
    BY <1>1, <2>1 DEF AppendReceipt, States
  <2> QED
    BY <2>2 DEF Regular
<1>6. ASSUME BeginTransaction \/ EndTransaction
      PROVE  Regular(state')
  BY <1>6 DEF BeginTransaction, EndTransaction
<1>7. ASSUME Refuse \/ \E r \in Records : ThrowAfterLog(r), past' = past
      PROVE  Regular(state')
  <2>1. pc' = "idle"
    BY <1>7 DEF Refuse, ThrowAfterLog, Unwind
  <2>2. Outer' = Outer
    BY <1>7, RefuseStep, ThrowAfterLogStep
  <2>3. state' = Outer
    BY <2>1, <2>2 DEF Outer
  <2> QED
    BY <2>3, OuterRegular
<1>8. ASSUME EndBlock
      PROVE  Regular(state')
  <2>1. state' = state \/ state' = close_qualification(state, CloseEpoch(Height))
    BY <1>8 DEF EndBlock
  <2>2. state'.histories = state.histories /\ state'.snapshots = state.snapshots
    BY <1>1, <2>1 DEF close_qualification, States
  <2> QED
    BY <2>2 DEF Regular
<1>9. ASSUME DisconnectTip
      PROVE  Regular(state')
  <2>1. pc = "idle" /\ state' = rollback(state, undo[last].changes) /\ undo # <<>>
    BY <1>9 DEF DisconnectTip
  <2>2. Kept = last /\ last \in 1..Kept
    <3>1. undo \in Seq(Entries)
      BY DEF IInv, TypeOK, Entries
    <3> QED
      BY <2>1, <3>1 DEF Kept, last
  <2>3. Fits(After(last), undo[last].changes)
    BY <2>2 DEF IInv, PastOK
  <2>4. After(last) = state
    BY <2>1, <2>2 DEF After, Outer
  <2> QED
    BY <1>1, <2>1, <2>3, <2>4, RollbackRegular
<1> QED
  BY <1>2, <1>3, <1>4, <1>5, <1>6, <1>7, <1>8, <1>9 DEF HistoryStep, StepInBlock

RegularNow == Regular(state)

\* At every step.
LEMMA RegularInvariant == HistorySpec => []RegularNow
<1>1. HistoryInit => RegularNow
  BY DEF HistoryInit, Init, EmptyState, Regular, RecordsOwn, RegularNow
<1>2. IInv /\ RegularNow /\ [HistoryStep(BlockHash, Records, Leases, Receipts)]_historyVars
        => RegularNow'
  <2>1. UNCHANGED historyVars => state' = state
    BY DEF historyVars
  <2> QED
    BY <2>1, RegularStep DEF RegularNow
<1> QED
  BY <1>1, <1>2, BlockTransitionInvariant, PTL DEF HistorySpec

-----------------------------------------------------------------------------
(* The payee *)

\* The descriptor that a history gives an epoch is one of its own identity.
LEMMA DescriptorOwn ==
    ASSUME NEW h \in Histories, DistinctIds(h), RecordsOwn(h), NEW id \in Identity,
           NEW e, descriptor_for_epoch(h, id, e) # NullDescriptor
    PROVE  descriptor_for_epoch(h, id, e).identity_id = id
<1> DEFINE rs == RecordsOf(h, id)
           S == {k \in DOMAIN rs : Governs(rs, k, e)}
           c == CHOOSE k \in S : TRUE
<1>1. /\ Registered(h, id) /\ S # {}
      /\ descriptor_for_epoch(h, id, e) = rs[c].next_descriptor
  BY DEF descriptor_for_epoch, GovernedBy
<1>2. c \in DOMAIN rs
  BY <1>1
<1>3. PICK i \in DOMAIN h : h[i].identity_id = id /\ rs = h[i].records
  BY <1>1, HistoryIndexLemma DEF RecordsOf
<1> HIDE DEF c, rs, S
<1> QED
  BY <1>1, <1>2, <1>3 DEF RecordsOwn

\* The registry still says of a frozen member what it was frozen with.
LEMMA MemberFound ==
    ASSUME NEW st \in States, DistinctIds(st.histories), Regular(st),
           Authorized(st.histories, st.snapshots), NEW s \in st.snapshots, NEW m \in s.members
    PROVE  LET d == PayeeDescriptor(st, m.identity_id, s.epoch)
           IN  d # NullDescriptor /\ MemberOf(d) = m
<1> DEFINE h == st.histories
<1>1. m \in AuthorizedMembers(h, s.epoch)
  BY DEF Authorized
<1>2. PICK id \in Identity : /\ descriptor_for_epoch(h, id, s.epoch) # NullDescriptor
                             /\ m = MemberOf(descriptor_for_epoch(h, id, s.epoch))
  BY <1>1 DEF AuthorizedMembers
<1>3. h \in Histories /\ RecordsOwn(h) /\ DistinctIds(h)
  BY StateType DEF Regular
<1>4. descriptor_for_epoch(h, id, s.epoch).identity_id = id
  BY <1>2, <1>3, DescriptorOwn
<1>5. m.identity_id = id
  BY <1>2, <1>4 DEF MemberOf
<1> QED
  BY <1>2, <1>5 DEF PayeeDescriptor

\* The turn is one of the nodes.
LEMMA PayeeSelected ==
    ASSUME DistinctScores, NEW q, NEW seed, NEW h \in Nat,
           q.qualified_nodes \subseteq ServiceKey, IsFiniteSet(q.qualified_nodes),
           q.qualified_nodes # {}, epoch_start(payout_epoch(h)) \in Nat
    PROVE  select_service_payee(q, seed, h) \in q.qualified_nodes
<1> DEFINE nodes == q.qualified_nodes
           n == Cardinality(nodes)
           p == Position(h, n)
<1>1. n \in Nat /\ n # 0
  BY FS_CardinalityType, FS_EmptySet
<1>2. p \in 0..(n - 1)
  <2> HIDE DEF n
  <2>1. h - epoch_start(payout_epoch(h)) \in Int
    OBVIOUS
  <2> QED
    BY <1>1, <2>1 DEF Position
<1>3. \E key \in nodes : Cardinality(Before(q, seed, nodes, key)) = p
  <2>1. nodes \in SUBSET ServiceKey /\ IsFiniteSet(nodes) /\ p \in 0..(Cardinality(nodes) - 1)
    BY <1>2
  <2> HIDE DEF nodes, p
  <2> QED
    BY <2>1, EveryTurnTaken
<1> QED
  BY ZenonT(40), <1>3 DEF select_service_payee, Before

\* The epoch of a height that pays, and the block that seeds its payouts.
LEMMA PayoutEpoch ==
    ASSUME NEW h \in U64, first_payout_height # None, h >= first_payout_height
    PROVE  LET p == payout_epoch(h)
           IN  /\ source_epoch(h) \in Ended(h) /\ source_epoch(h) \in Begun(h)
               /\ epoch_start(p) \in Nat /\ epoch_start(p) = epoch_length * p
               /\ epoch_start(p) <= h
               /\ h <= epoch_start(p) + epoch_length - 1
               /\ committee_anchor(p) \in 0..(h - 1)
<1> DEFINE p == payout_epoch(h)
<1>1. h \in Nat /\ h <= U64Max /\ epoch_length \in Nat \ {0} /\ anchor_depth \in Nat \ {0}
  BY TimingAssumption DEF U64
<1>2. source_epoch(h) \in Ended(h)
  BY PayoutTiming DEF source_epoch, payout_epoch
<1>3. source_epoch(h) \in Begun(h)
  BY <1>1, <1>2, EndedBegun
<1>4. p \in Nat /\ h % epoch_length \in 0..(epoch_length - 1)
      /\ h = epoch_length * p + (h % epoch_length)
  BY ZenonT(60), <1>1, DivMod DEF payout_epoch
<1>5. p # 0
  <2>1. source_epoch(h) \in U64
    BY <1>2 DEF Ended
  <2> QED
    BY <2>1 DEF source_epoch, U64
<1> HIDE DEF p
<1>6. epoch_length * p \in Nat
  BY <1>1, <1>4
<1>7. epoch_length * p <= h /\ h <= epoch_length * p + epoch_length - 1
  BY <1>1, <1>4, <1>6
<1>8. /\ epoch_start(p) = epoch_length * p
      /\ epoch_start(p) > anchor_depth
  <2>1. epoch_length * p <= U64Max /\ U64Max \in Nat
    BY <1>1, <1>6, <1>7, TimingAssumption
  <2>2. epoch_start(p) = epoch_length * p
    BY <1>4, <2>1, EpochStart
  <2>3. epoch_start(p) # None
    BY <1>6, <2>2 DEF None
  <2> QED
    BY <1>4, <1>5, <2>2, <2>3, EpochStart
<1>9. committee_anchor(p) = epoch_start(p) - anchor_depth
  BY <1>1, <1>6, <1>8 DEF committee_anchor
<1>10. committee_anchor(p) \in 0..(h - 1)
  BY <1>1, <1>6, <1>7, <1>8, <1>9
<1> QED
  BY <1>2, <1>3, <1>6, <1>7, <1>8, <1>10 DEF p

\* The members of a snapshot that have a key.
WithKey(s, key) == {m \in s.members : m.service_public_key = key}

\* The payee is the member with the key whose turn it is: the lookups that
\* plan_reward repeats agree with the snapshot.
LEMMA PayeeIsMember ==
    ASSUME NEW st \in States, DistinctIds(st.histories), Regular(st),
           Authorized(st.histories, st.snapshots), NEW c, NEW h,
           source_epoch(h) \in EpochsOf(st.snapshots),
           HasBlock(c, committee_anchor(payout_epoch(h))), epoch_end(payout_epoch(h)) # None
    PROVE  LET e == source_epoch(h)
               key == select_service_payee(OfEpoch(st.qualifications, e),
                          block_hash(c, committee_anchor(payout_epoch(h))), h)
               members == WithKey(OfEpoch(st.snapshots, e), key)
           IN  Payee(st, c, h) = IF members # {} THEN CHOOSE m \in members : TRUE ELSE NoPayee
<1> DEFINE e == source_epoch(h)
           key == select_service_payee(OfEpoch(st.qualifications, e),
                      block_hash(c, committee_anchor(payout_epoch(h))), h)
           s == OfEpoch(st.snapshots, e)
           members == {m \in s.members : m.service_public_key = key}
           paid == {m \in members : LET d == PayeeDescriptor(st, m.identity_id, e)
                                    IN  d # NullDescriptor /\ MemberOf(d) = m}
<1>1. s \in st.snapshots /\ s.epoch = e
  BY OfEpochFound
<1>2. Payee(st, c, h) = IF paid # {} THEN CHOOSE m \in paid : TRUE ELSE NoPayee
  BY ZenonT(40) DEF Payee
<1> HIDE DEF s, key, e
<1>3. ASSUME NEW m \in members
      PROVE  PayeeDescriptor(st, m.identity_id, e) # NullDescriptor
             /\ MemberOf(PayeeDescriptor(st, m.identity_id, e)) = m
  <2>1. m \in s.members
    OBVIOUS
  <2> QED
    BY ZenonT(40), <1>1, <2>1, MemberFound
<1>4. paid = members
  BY <1>3
<1> QED
  BY ZenonT(40), <1>2, <1>4 DEF WithKey, s, key, e

\* A block that pays finds its payee.
LEMMA PayeeFound ==
    ASSUME DistinctScores, NEW st \in States, DistinctIds(st.histories), Regular(st),
           NEW h \in U64, NEW c, Len(c) = h, Good(st, c, h, h), first_payout_height # None,
           h >= first_payout_height, epoch_end(payout_epoch(h)) # None, Qualified(st, h) # {}
    PROVE  Payee(st, c, h) # NoPayee
<1> DEFINE e == source_epoch(h)
           q == OfEpoch(st.qualifications, e)
           s == OfEpoch(st.snapshots, e)
           seed == block_hash(c, committee_anchor(payout_epoch(h)))
           key == select_service_payee(q, seed, h)
           members == WithKey(s, key)
<1>1. /\ e \in Ended(h) /\ e \in Begun(h) /\ epoch_start(payout_epoch(h)) \in Nat
      /\ committee_anchor(payout_epoch(h)) \in 0..(h - 1)
      /\ h \in Nat
  BY PayoutEpoch DEF U64
<1>2. e \in EpochsOf(st.snapshots) /\ e \in EpochsOf(st.qualifications)
      /\ Authorized(st.histories, st.snapshots)
      /\ Settled(st.receipts, st.snapshots, st.qualifications)
  BY <1>1 DEF Good
<1>3. HasBlock(c, committee_anchor(payout_epoch(h)))
  BY <1>1 DEF HasBlock, None
<1>4. s \in st.snapshots /\ q \in st.qualifications /\ q.epoch = e
  BY <1>2, OfEpochFound
<1>5. q.qualified_nodes \subseteq KeysOf(s)
  <2>1. q = Closed(st.receipts, s)
    BY <1>2, <1>4 DEF Settled
  <2> HIDE DEF q, s
  <2> QED
    BY <2>1 DEF Closed
<1>6. s \in Snapshots /\ IsFiniteSet(s.members)
  BY <1>4, StateType DEF Regular
<1>7. KeysOf(s) \subseteq ServiceKey
  BY <1>6 DEF KeysOf, Snapshots, Members
<1>8. IsFiniteSet(KeysOf(s))
  BY <1>6, KeysFinite
<1> HIDE DEF s, q, seed
<1>9. IsFiniteSet(q.qualified_nodes) /\ q.qualified_nodes \subseteq ServiceKey
  BY <1>5, <1>7, <1>8, FS_Subset
<1>10. q.qualified_nodes # {}
  BY DEF Qualified, q
<1>11. key \in KeysOf(s)
  BY <1>1, <1>5, <1>9, <1>10, PayeeSelected
<1> HIDE DEF key
<1>12. members # {} /\ members \subseteq Members
  BY <1>6, <1>11 DEF KeysOf, WithKey, Snapshots
<1>13. Payee(st, c, h) = IF members # {} THEN CHOOSE m \in members : TRUE ELSE NoPayee
  BY ZenonT(40), <1>2, <1>3, PayeeIsMember DEF s, q, key, seed
<1> HIDE DEF members
<1>14. Payee(st, c, h) \in Members
  BY <1>12, <1>13
<1>15. NoPayee \notin Members
  BY DEF NoPayee, Members
<1> QED
  BY <1>14, <1>15

-----------------------------------------------------------------------------
(* The theorems *)

\* The steps of the coordinator are steps of the block transition.
LEMMA CoordinatorSteps ==
    ASSUME CoordinatorStep(BlockHash, Records, Leases, Receipts)
    PROVE  HistoryStep(BlockHash, Records, Leases, Receipts)
<1>1. ASSUME NEW block_id \in BlockHash, NEW subsidy, NEW fees,
             ConnectBlock(block_id, subsidy, fees)
      PROVE  BeginBlock(block_id) /\ UNCHANGED past
  BY <1>1 DEF ConnectBlock
<1> QED
  BY <1>1 DEF CoordinatorStep, HistoryStep, StepInBlock

\* What holds along the block transition holds along the coordinator.
LEMMA CoordinatorHistory == CoordinatorSpec => HistorySpec
<1>1. [CoordinatorStep(BlockHash, Records, Leases, Receipts)]_historyVars
        => [HistoryStep(BlockHash, Records, Leases, Receipts)]_historyVars
  BY CoordinatorSteps
<1> QED
  BY <1>1, PTL DEF CoordinatorSpec, HistorySpec

\* The first height that pays is a height.
LEMMA FirstPayoutType ==
    ASSUME first_payout_height # None
    PROVE  first_payout_height \in Nat
<1> DEFINE x == checked_add(first_service_epoch, 1)
<1>1. x \in Nat \cup {None}
  BY FirstServiceEpoch, TimingAssumption DEF checked_add
<1>2. first_payout_height = epoch_start(x)
  BY DEF first_payout_height
<1>3. epoch_start(None) = None
  BY DEF epoch_start, checked_mul
<1> HIDE DEF x
<1> QED
  BY <1>1, <1>2, <1>3, EpochStart

\* Of amounts that fit together the split is accepted.
LEMMA SplitFits ==
    ASSUME NEW subsidy \in Amounts, NEW fees \in Amounts, NEW has_payee \in BOOLEAN,
           subsidy + fees <= AmountMax
    PROVE  AllocationAccepted(Allocation(subsidy, fees, has_payee))
<1> DEFINE a == Allocation(subsidy, fees, has_payee)
<1>1. AllocationExact(subsidy, fees, has_payee)
  BY AllocationIsExact
<1>2. /\ a.miner_subsidy + a.service_reward + a.permanently_unissued = subsidy
      /\ AllocationAccepted(a) <=> issued_subsidy(a) + fees <= AmountMax
  BY <1>1 DEF AllocationExact
<1>3. a.miner_subsidy \in Nat /\ a.service_reward \in Nat /\ a.permanently_unissued \in Nat
  BY AllocationParts
<1> HIDE DEF a
<1>4. issued_subsidy(a) \in Nat /\ issued_subsidy(a) <= subsidy
  BY <1>2, <1>3 DEF issued_subsidy, Amounts
<1>5. issued_subsidy(a) + fees <= AmountMax
  <2> DEFINE i == issued_subsidy(a)
  <2>1. i \in Nat /\ i <= subsidy
    BY <1>4
  <2>2. subsidy \in Nat /\ fees \in Nat /\ AmountMax \in Nat
    BY AmountsType
  <2> HIDE DEF i
  <2>3. i + fees <= AmountMax
    BY <2>1, <2>2
  <2> QED
    BY <2>3 DEF i
<1> QED
  BY <1>2, <1>5 DEF a

\* The next block has a plan.
LEMMA PlanAccepted ==
    ASSUME DistinctScores, EInv, RegularNow, pc = "idle", first_payout_height # None,
           epoch_end(payout_epoch(Height)) # None,
           NEW subsidy \in Subsidies, NEW fees \in Fees
    PROVE  LET plan == plan_reward(state, chain, Height, subsidy, fees)
           IN  /\ plan.status \in {"accepted", "arithmetic_overflow"}
               /\ subsidy + fees <= AmountMax => plan.status = "accepted"
               /\ AllocationExact(subsidy, fees, PaysService(state, Height))
<1> DEFINE h == Height
           plan == plan_reward(state, chain, h, subsidy, fees)
           early == [miner_subsidy |-> subsidy, service_reward |-> 0,
                     permanently_unissued |-> 0, miner_fees |-> fees]
           has_payee == Qualified(state, h) # {}
           a == IF h < first_payout_height THEN early
                ELSE Allocation(subsidy, fees, has_payee)
<1>1. /\ Len(chain) = h /\ h \in Nat /\ state \in States /\ DistinctIds(state.histories)
  BY HeightFacts DEF EInv, IInv, RunningOK, Sound
<1>2. subsidy \in Amounts /\ fees \in Amounts
  BY CoordinatorAssumption
<1>3. h \in U64
  <2>0. epoch_length \in Nat \ {0}
    BY TimingAssumption
  <2> HIDE DEF h
  <2>1. /\ payout_epoch(h) \in Nat /\ h % epoch_length \in 0..(epoch_length - 1)
        /\ h = epoch_length * payout_epoch(h) + (h % epoch_length)
    BY ZenonT(60), <1>1, <2>0, DivMod DEF payout_epoch
  <2>2. /\ epoch_end(payout_epoch(h)) = epoch_length * payout_epoch(h) + epoch_length - 1
        /\ epoch_end(payout_epoch(h)) <= U64Max
        /\ epoch_length * payout_epoch(h) \in Nat
    BY <2>1, EpochEnd, EpochStart DEF h
  <2> QED
    BY <1>1, <2>0, <2>1, <2>2, TimingAssumption DEF U64
<1>4. Good(state, chain, h, h)
  BY <1>1 DEF EInv, RunningGood
<1> HIDE DEF h
<1>5. first_payout_height \in Nat
  BY FirstPayoutType
<1>6. h >= first_payout_height => source_epoch(h) \in EpochsOf(state.qualifications)
  BY <1>3, <1>4, PayoutEpoch DEF Good
<1>7. ~ (PaysService(state, h) /\ Payee(state, chain, h) = NoPayee)
  BY <1>1, <1>3, <1>4, PayeeFound DEF PaysService, RegularNow, h
<1>8. plan.status = IF AllocationAccepted(a) THEN "accepted" ELSE "arithmetic_overflow"
  <2> HIDE DEF a
  <2>1. plan = [status |-> IF AllocationAccepted(a) THEN "accepted" ELSE "arithmetic_overflow",
                payee |-> IF PaysService(state, h) THEN Payee(state, chain, h) ELSE NoPayee,
                allocation |-> a]
    BY <1>6, <1>7 DEF plan_reward, a
  <2> HIDE DEF plan
  <2> QED
    BY <2>1
<1>9. subsidy + fees <= AmountMax => AllocationAccepted(a)
  <2>1. CASE h < first_payout_height
    <3>1. a = early
      BY <2>1
    <3>2. issued_subsidy(early) = subsidy /\ coinbase_total(early) = subsidy + fees
      BY <1>2 DEF issued_subsidy, coinbase_total, Amounts
    <3> HIDE DEF a, early
    <3> QED
      BY <1>2, <3>1, <3>2 DEF AllocationAccepted, Amounts
  <2>2. CASE ~ (h < first_payout_height)
    <3>1. a = Allocation(subsidy, fees, has_payee)
      BY <2>2
    <3>2. has_payee \in BOOLEAN
      OBVIOUS
    <3> HIDE DEF a, has_payee
    <3> QED
      BY <1>2, <3>1, <3>2, SplitFits
  <2> QED
    BY <2>1, <2>2
<1>10. PaysService(state, h) \in BOOLEAN
  BY DEF PaysService
<1>11. AllocationExact(subsidy, fees, PaysService(state, h))
  BY <1>2, <1>10, AllocationIsExact
<1> HIDE DEF a, plan
<1>12. /\ plan.status \in {"accepted", "arithmetic_overflow"}
       /\ subsidy + fees <= AmountMax => plan.status = "accepted"
  BY <1>8, <1>9
<1> QED
  BY <1>11, <1>12 DEF plan, h

\* Every height has a reward plan, whatever the blocks before contained
\* (coordinator_v2.cpp:146, :168, :174 and :190).
THEOREM CoordinatorRewardPlannable ==
    ASSUME DistinctScores
    PROVE  CoordinatorSpec => []RewardPlannable
<1>1. EInv /\ RegularNow => RewardPlannable
  BY PlanAccepted DEF RewardPlannable
<1> QED
  BY <1>1, CoordinatorHistory, EpochInvariant, RegularInvariant, PTL

\* What the payout needs of a state.
Payable(st) ==
    /\ st \in States
    /\ DistinctIds(st.histories)
    /\ Regular(st)
    /\ Authorized(st.histories, st.snapshots)

\* The member whose key the rotation over a qualification set names.
NamedMember(s, q, seed, h) ==
    LET members == WithKey(s, select_service_payee(q, seed, h))
    IN  IF members # {} THEN CHOOSE m \in members : TRUE ELSE NoPayee

\* The registry does not change who is paid.
LEMMA PayeeNamed ==
    ASSUME NEW st, Payable(st), NEW c, NEW h,
           source_epoch(h) \in EpochsOf(st.snapshots),
           HasBlock(c, committee_anchor(payout_epoch(h))), epoch_end(payout_epoch(h)) # None
    PROVE  Payee(st, c, h)
             = NamedMember(OfEpoch(st.snapshots, source_epoch(h)),
                           OfEpoch(st.qualifications, source_epoch(h)),
                           block_hash(c, committee_anchor(payout_epoch(h))), h)
<1>1. /\ st \in States /\ DistinctIds(st.histories) /\ Regular(st)
      /\ Authorized(st.histories, st.snapshots)
  BY DEF Payable
<1> QED
  BY ZenonT(40), <1>1, PayeeIsMember DEF NamedMember

\* Two states have what a plan reads, and it is the same.
SameSources(st, tt, c, d, h) ==
    LET e == source_epoch(h)
        anchor == committee_anchor(payout_epoch(h))
    IN  /\ e \in EpochsOf(st.snapshots) /\ e \in EpochsOf(tt.snapshots)
        /\ OfEpoch(tt.snapshots, e) = OfEpoch(st.snapshots, e)
        /\ e \in EpochsOf(st.qualifications) /\ e \in EpochsOf(tt.qualifications)
        /\ OfEpoch(tt.qualifications, e) = OfEpoch(st.qualifications, e)
        /\ HasBlock(c, anchor) /\ HasBlock(d, anchor)
        /\ block_hash(d, anchor) = block_hash(c, anchor)

\* Two states that agree on the epoch before have the same plan.
LEMMA SamePlan ==
    ASSUME NEW st, Payable(st), NEW tt, Payable(tt), NEW c, NEW d, NEW h,
           SameSources(st, tt, c, d, h)
    PROVE  plan_reward(st, c, h, 0, 0) = plan_reward(tt, d, h, 0, 0)
<1> DEFINE e == source_epoch(h)
           anchor == committee_anchor(payout_epoch(h))
<1>1. /\ e \in EpochsOf(st.snapshots) /\ e \in EpochsOf(tt.snapshots)
      /\ OfEpoch(tt.snapshots, e) = OfEpoch(st.snapshots, e)
      /\ e \in EpochsOf(st.qualifications) /\ e \in EpochsOf(tt.qualifications)
      /\ OfEpoch(tt.qualifications, e) = OfEpoch(st.qualifications, e)
      /\ HasBlock(c, anchor) /\ HasBlock(d, anchor)
      /\ block_hash(d, anchor) = block_hash(c, anchor)
  BY ZenonT(40) DEF SameSources
<1>2. Payee(st, c, h) = Payee(tt, d, h)
  <2>1. CASE epoch_end(payout_epoch(h)) # None
    <3> DEFINE named == NamedMember(OfEpoch(st.snapshots, e), OfEpoch(st.qualifications, e),
                                    block_hash(c, anchor), h)
               named2 == NamedMember(OfEpoch(tt.snapshots, e), OfEpoch(tt.qualifications, e),
                                     block_hash(d, anchor), h)
    <3>1. Payee(st, c, h) = named
      BY ZenonT(40), <1>1, <2>1, PayeeNamed
    <3>2. Payee(tt, d, h) = named2
      BY ZenonT(40), <1>1, <2>1, PayeeNamed
    <3>3. named2 = named
      BY ZenonT(40), <1>1
    <3> QED
      BY ZenonT(40), <3>1, <3>2, <3>3
  <2>2. CASE epoch_end(payout_epoch(h)) = None
    <3>1. Payee(st, c, h) = NoPayee
      BY ZenonT(40), <2>2 DEF Payee
    <3>2. Payee(tt, d, h) = NoPayee
      BY ZenonT(40), <2>2 DEF Payee
    <3> QED
      BY <3>1, <3>2
  <2> QED
    BY <2>1, <2>2
<1>3. Qualified(st, h) = Qualified(tt, h)
  BY ZenonT(40), <1>1 DEF Qualified
<1>4. PaysService(st, h) <=> PaysService(tt, h)
  BY <1>3 DEF PaysService
<1> QED
  BY <1>1, <1>2, <1>3, <1>4 DEF plan_reward

\* The heights of an epoch have the same epoch.
LEMMA SameEpoch ==
    ASSUME NEW h \in U64, NEW g, epoch_start(payout_epoch(h)) = epoch_length * payout_epoch(h),
           g \in h..(epoch_start(payout_epoch(h)) + epoch_length - 1)
    PROVE  payout_epoch(g) = payout_epoch(h)
<1> DEFINE p == payout_epoch(h)
           r == payout_epoch(g)
<1>0. h \in Nat /\ epoch_length \in Nat \ {0}
  BY TimingAssumption DEF U64
<1>1. p \in Nat /\ h % epoch_length \in 0..(epoch_length - 1)
      /\ h = epoch_length * p + (h % epoch_length)
  BY ZenonT(60), <1>0, DivMod DEF payout_epoch
<1>2. epoch_length * p \in Nat
  BY <1>0, <1>1
<1>3. g \in Nat /\ h <= g /\ g <= epoch_length * p + epoch_length - 1
  BY <1>0, <1>2
<1>4. r \in Nat /\ g % epoch_length \in 0..(epoch_length - 1)
      /\ g = epoch_length * r + (g % epoch_length)
  BY ZenonT(60), <1>0, <1>3, DivMod DEF payout_epoch
<1> HIDE DEF p, r
<1>5. epoch_length * r \in Nat
  BY <1>0, <1>4
<1>6. epoch_length * p < epoch_length * r + epoch_length
  BY <1>0, <1>1, <1>2, <1>3, <1>4, <1>5
<1>7. epoch_length * r < epoch_length * p + epoch_length
  BY <1>0, <1>2, <1>3, <1>4, <1>5
<1>8. p <= r /\ r <= p
  BY <1>0, <1>1, <1>4, <1>6, <1>7, MulOrder
<1> QED
  BY <1>1, <1>4, <1>8 DEF p, r

\* A connected block changes no plan of the epoch it is in.
LEMMA PlansKept ==
    ASSUME EInv, RegularNow, EInv', RegularNow', EndBlock, Height >= first_payout_height,
           NEW h \in Height..(epoch_start(payout_epoch(Height)) + epoch_length - 1)
    PROVE  plan_reward(Committed.state, chain, h, 0, 0) = plan_reward(state', chain', h, 0, 0)
<1>1. CASE first_payout_height = None
  BY <1>1 DEF plan_reward
<1>2. CASE first_payout_height # None
  <2> DEFINE st == Outer
             tt == state'
             H == Height
             e == source_epoch(h)
             anchor == committee_anchor(payout_epoch(h))
  <2>1. /\ pc = "block" /\ pc' = "idle" /\ chain' = Append(chain, hash)
        /\ tt = IF CloseDue(H) THEN close_qualification(state, CloseEpoch(H)) ELSE state
    BY DEF EndBlock
  <2>2. Len(chain) = H /\ H \in U64 /\ chain \in Seq(BlockHash) /\ hash \in BlockHash
    BY <2>1, HeightFacts DEF EInv, IInv, RunningOK
  <2>3. /\ st \in States /\ DistinctIds(st.histories) /\ Regular(st)
        /\ Authorized(st.histories, st.snapshots)
        /\ EpochsOf(st.snapshots) = Begun(H) /\ EpochsOf(st.qualifications) = Ended(H)
    <3>1. Regular(st)
      BY OuterRegular DEF EInv, RegularNow
    <3> QED
      BY ZenonT(40), <2>2, <3>1 DEF EInv, IInv, RunningOK, Sound, CommittedGood, Good
  <2>4. /\ tt \in States /\ DistinctIds(tt.histories) /\ Regular(tt)
        /\ Authorized(tt.histories, tt.snapshots) /\ OnePerEpoch(tt.snapshots)
        /\ Settled(tt.receipts, tt.snapshots, tt.qualifications)
    BY ZenonT(40) DEF EInv, IInv, RunningOK, Sound, RunningGood, Good, RegularNow
  <2>5. st.snapshots \subseteq tt.snapshots /\ st.qualifications \subseteq tt.qualifications
    <3>1. st.snapshots \subseteq state.snapshots /\ st.qualifications \subseteq state.qualifications
      BY ZenonT(40), <2>1 DEF Outer, Inner, rollback
    <3>2. state \in States
      BY DEF EInv, IInv, TypeOK
    <3>3. state.snapshots \subseteq tt.snapshots /\ state.qualifications \subseteq tt.qualifications
      BY <2>1, <3>2 DEF close_qualification, States
    <3> QED
      BY <3>1, <3>3
  <2>6. Committed.state = st
    BY CommittedState
  <2> HIDE DEF st, tt, H
  <2>7. /\ source_epoch(H) \in Ended(H) /\ source_epoch(H) \in Begun(H)
        /\ epoch_start(payout_epoch(H)) = epoch_length * payout_epoch(H)
        /\ committee_anchor(payout_epoch(H)) \in 0..(H - 1)
    BY <1>2, <2>2, PayoutEpoch DEF H
  <2>8. payout_epoch(h) = payout_epoch(H) /\ source_epoch(h) = source_epoch(H)
    BY <2>2, <2>7, SameEpoch DEF source_epoch, H
  <2>9. e \in EpochsOf(st.snapshots) /\ e \in EpochsOf(st.qualifications)
    BY <2>3, <2>7, <2>8
  <2>10. e \in EpochsOf(tt.snapshots) /\ e \in EpochsOf(tt.qualifications)
    BY <2>5, <2>9 DEF EpochsOf
  <2>11. OfEpoch(tt.snapshots, e) = OfEpoch(st.snapshots, e)
    BY <2>4, <2>5, <2>9, OfEpochKept
  <2>12. OfEpoch(tt.qualifications, e) = OfEpoch(st.qualifications, e)
    <3>1. OnePerEpoch(tt.qualifications)
      BY <2>4 DEF Settled, OnePerEpoch
    <3> QED
      BY <2>5, <2>9, <3>1, OfEpochKept
  <2>13. /\ HasBlock(chain, anchor) /\ HasBlock(chain', anchor)
         /\ block_hash(chain', anchor) = block_hash(chain, anchor)
    <3>1. anchor \in 0..(Len(chain) - 1)
      BY <2>2, <2>7, <2>8
    <3> HIDE DEF anchor
    <3>2. Len(chain') = Len(chain) + 1 /\ chain'[anchor + 1] = chain[anchor + 1]
      BY <2>1, <2>2, <3>1
    <3> QED
      BY <2>2, <3>1, <3>2 DEF HasBlock, block_hash, None
  <2>14. SameSources(st, tt, chain, chain', h)
    BY ZenonT(40), <2>9, <2>10, <2>11, <2>12, <2>13 DEF SameSources
  <2> HIDE DEF e, anchor
  <2>15. Payable(st) /\ Payable(tt)
    BY ZenonT(40), <2>3, <2>4 DEF Payable
  <2>16. plan_reward(st, chain, h, 0, 0) = plan_reward(tt, chain', h, 0, 0)
    BY <2>14, <2>15, SamePlan
  <2> QED
    BY <2>6, <2>16 DEF tt
<1> QED
  BY <1>1, <1>2

\* The payees of an epoch are fixed when it begins (coordinator_v2.cpp:143 and :176).
THEOREM CoordinatorPayoutScheduleFixed == CoordinatorSpec => PayoutScheduleFixed
<1>1. EInv /\ RegularNow /\ EInv' /\ RegularNow'
        => [EndBlock /\ Height >= first_payout_height =>
              \A h \in Height..(epoch_start(payout_epoch(Height)) + epoch_length - 1) :
                  plan_reward(Committed.state, chain, h, 0, 0)
                    = plan_reward(state', chain', h, 0, 0)]_historyVars
  BY PlansKept
<1> QED
  BY <1>1, CoordinatorHistory, EpochInvariant, RegularInvariant, PTL DEF PayoutScheduleFixed

=============================================================================
