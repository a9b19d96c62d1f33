------------------------------- MODULE Reward -------------------------------
(***************************************************************************)
(* The split of a block reward between the miner and the service node      *)
(* (calculate_reward_allocation_v2).  Amounts are unsigned integers: the   *)
(* products and the sum in basis_points wrap, the two sums of an           *)
(* allocation are checked.                                                 *)
(***************************************************************************)
EXTENDS Integers

CONSTANTS
    AmountMax,          \* the largest amount (2^64 - 1)
    service_reward_bps, \* the share of the service node, in hundredths of a percent
    empty_policy        \* what becomes of the share when nobody is qualified

BasisPoints == {bps \in Nat : bps <= 10000}

\* The type holds the product of two basis point values; consensus_parameters_v2::valid.
ASSUME RewardAssumption ==
    /\ AmountMax \in Nat
    /\ AmountMax >= 10000 * 10000
    /\ service_reward_bps \in BasisPoints
    /\ empty_policy \in {"miner_fallback", "permanent_nonissuance"}

Amounts == 0..AmountMax

Wrap(n) == n % (AmountMax + 1)

\* Mutant: the share of the remainder is forgotten.
BasisPointsTruncated(amount, bps) == Wrap((amount \div 10000) * bps)

\* The division comes first so that the product stays in range.
basis_points(amount, bps) ==
    Wrap(Wrap((amount \div 10000) * bps) + Wrap((amount % 10000) * bps) \div 10000)

Allocation(subsidy, fees, has_payee) ==
    LET share == basis_points(subsidy, service_reward_bps)
        kept == ~ has_payee /\ empty_policy = "miner_fallback"
    IN  [miner_subsidy |-> IF kept THEN subsidy ELSE Wrap(subsidy - share),
         service_reward |-> IF has_payee THEN share ELSE 0,
         permanently_unissued |-> IF has_payee \/ kept THEN 0 ELSE share,
         miner_fees |-> fees]

issued_subsidy(a) == a.miner_subsidy + a.service_reward

coinbase_total(a) == issued_subsidy(a) + a.miner_fees

\* calculate_reward_allocation_v2 accepts when neither sum leaves the type.
AllocationAccepted(a) == issued_subsidy(a) <= AmountMax /\ coinbase_total(a) <= AmountMax

\* What the miner, the service node and nobody get is exactly the subsidy, and the
\* share of the service node is the exact one rounded down: the division in
\* basis_points loses nothing, the subtraction does not wrap (reward_v2.cpp:30).
AllocationExact(subsidy, fees, has_payee) ==
    LET a == Allocation(subsidy, fees, has_payee)
        share == (subsidy * service_reward_bps) \div 10000
    IN  /\ a.miner_subsidy + a.service_reward + a.permanently_unissued = subsidy
        /\ has_payee => a.service_reward = share
        /\ a.miner_subsidy \in {subsidy - share, subsidy}
        /\ AllocationAccepted(a) <=> issued_subsidy(a) + fees <= AmountMax

=============================================================================
