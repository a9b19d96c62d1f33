# A TLA+ model of Qwertycoin's EPoSE v2

Qwertycoin is a Monero fork.  What it adds is EPoSE v2, a consensus layer that
pays a share of every block subsidy to *service nodes* whose service was verified
by committees of other nodes.  Its state lives beside the blockchain: every block
may carry EPoSE records in its transactions, every node derives the same state
from them, and a commitment to that state is stored with the block.  This
directory models that layer: its state, how the node keeps it in step with the
database, how records wait for a block, and the two producers of a service node.
The inherited Monero code is left alone.

## The system

| Part | Source | State | Operations | Modules |
|---|---|---|---|---|
| Epoch timing | `membership_v2.cpp` | none | heights of the cutoff, the anchor, the deadline and the first payout of an epoch; windows of receipts | `EposeTiming`, `ReceiptWindow` |
| Lifecycle registry | `lifecycle_v2.cpp` | a history of signed records per identity | `apply`, lookups by epoch, `checkpoint`/`rollback` | `LifecycleRegistry`, `Lifecycle` |
| Membership pipeline | `membership_v2.cpp` | leases, snapshots, receipts, qualification sets | `apply_admission`, `freeze_membership`, `apply_authenticated_receipt`, `close_qualification`, `checkpoint`/`rollback` | `MembershipPipeline` |
| Semantic state | `semantic_batch_v2.cpp` | the two above | `apply_transaction` with its own journal | `SemanticState` |
| Block transition | `block_transition_v2.cpp` | the state, the tip, the journals of recent blocks | `apply_block`, `disconnect_tip` | `BlockTransition`, `BlockTransitionHistory`, `ReversibleState` |
| Coordinator, reward | `coordinator_v2.cpp`, `reward_v2.cpp` | none of its own | `plan_reward`, `connect_block`, payee rotation, the split of the subsidy | `Coordinator`, `Reward` |
| Chain integration | `blockchain.cpp` | blocks and commitments in LMDB, a write batch, the coordinator in memory | incoming batches, switch to another chain, `pop_blocks`, rebuild, restart | `Blockchain`, `CanonicalState` |
| Relay pool | `relay_pool_v2.cpp`, `resource_policy_v2.cpp` | queued records with deadlines | admit a batch, expire, compact, select for a template, erase when confirmed | `RelayQueue`, `RelayPool` |
| Enrolment producer | `service_producer_v2.cpp`, `cryptonote_core.cpp` | the pending batch, a worker thread | enrol, renew, submit again | `ServiceProducer` |
| Receipt producer | `service_producer_v2.cpp`, `cryptonote_core.cpp` | the retry tracker, a probe thread | probe, back off, send again | `RetryTracker`, `ReceiptProducer` |

An operator registers an identity; its records name the epoch from which they
count.  For an epoch it wants to serve, the identity obtains an *admission lease*
(proof of work on a canonical block).  The block `anchor_depth` below the epoch
start *freezes* the members.  During the epoch, in each round, a committee drawn
from the members by a block hash verifies every member and puts *receipts* on the
chain.  The block at the evidence deadline *closes* the set of qualified members,
and the next epoch pays them, in turns.

What makes this hard: a block can fail in the middle and must leave no trace;
blocks are disconnected and others connected in their place; the coordinator lives
in memory and the blocks in a database that commits later, or fails to; the same
heights mean cutoff, anchor, window and deadline to different parts, each off by at
most one; a failing freeze or close, or a payee that cannot be found, would make
every block at its height invalid; the registry goes on changing while snapshots
taken from it stay; producers keep work in memory for a chain that moves on.

## Modules

Operator modules take the state as a parameter, so that the same definitions serve
the machine of one component and the composition.

* `EposeTiming` is `epoch_timing_v2`.  Integers have the width `U64Max`; a checked
  operation that fails returns `None`.  `ReceiptWindow` has the anchors of the rounds
  and the blocks in which a receipt may be included; the pipeline and the relay pool
  share it.
* `LifecycleRegistry` has the registry's data, lookups and the guards of `apply`.
  A hash is the tuple of the fields that it commits to, an identity stands for its
  operator key, and the validity of keys and signatures is one Boolean input.
* `Lifecycle` is one registry under the epoch clock: `Apply` appends a record,
  `PassCutoff` and `EnterEpoch` move the clock the way `apply_transaction` computes
  it from the block height.
* `MembershipPipeline` has the guards and results of admission, freeze, committee
  selection, receipts and close.  The committee is the members of lowest `Score`;
  `Score` is a constant operator in the place of the selection hash, for which TLC
  gets an injective function that depends on the round and on the anchor block.
* `SemanticState` puts the two together and adds journals.  `rollback` is written in
  closed form: entries are undone newest first, so for each position the oldest
  entry decides.
* `BlockTransition` is the machine.  `BeginBlock` allocates the journal and freezes;
  `BeginTransaction`, one action per kind of record and `EndTransaction` are the
  loop over the transactions; `EndBlock` closes, commits and trims the journals;
  `Refuse` is a rejected record or an exception at any point, and runs both scope
  guards; `ThrowAfterLog` is an exception between the log of a record and its
  change; `DisconnectTip` is `disconnect_tip`.  A duplicate record and a valid
  payment proof change nothing and are stuttering steps.
* `ReversibleState` is the abstract specification: a block takes the state to a new
  one as a whole or does nothing, and the most recent blocks can be taken back
  exactly.  `BlockTransitionHistory` adds the history variable `past` to the block
  transition and states that it implements `ReversibleState`.
* `Reward` is the split of a subsidy, with products and sums of the width `AmountMax`.
  `Coordinator` composes it with the block transition: `ConnectBlock` is
  `connect_block`, which makes a reward plan, compares the coinbase with it and only
  then begins the block.  A coinbase that pays something else changes nothing.
* `Blockchain` has the coordinator in memory next to the committed blocks (`db`) and
  the open write transaction (`batch`).  Because `ReversibleState` holds, the state of
  a coordinator is named by the blocks that it has connected, and a commitment is that
  name.  One action is one block added or popped inside a procedure (`AddToTip`,
  `SwitchPop`, `SwitchConnect`, `UnwindPop`, `Restore`, `PopStep`), or the beginning or
  the end of a batch.  The whole runs under one lock, so nothing interleaves but
  exceptions of the database and crashes, which come between any two of them.
  `rollback_epose_block` replays the whole chain when the journals are used up.
* `CanonicalState` is the abstract specification of it: the node serves nothing or
  exactly the state of a chain that is valid from the genesis block on.
* `RelayQueue` is the bounded queue with a reserved part for each class of records,
  `RelayPool` the pool on top of it, with the consensus state reduced to what the pool
  asks it: whether a record applies after those on the chain.  Batches are admitted as
  a whole against a copy, as in `admit_relay_envelopes_v2`.
* `ServiceProducer` is one node that enrols beside the chain.  Each branch of
  `update_epose_v2_service_producer` is an action (`SeeAdmission`, `CancelSearch`,
  `AwaitContext`, `StartSearch`, `CollectBatch`, `CollectFailure`, `Resubmit`), the
  worker thread is `SearchEnds`.  It extends `SemanticState`: the chain judges the
  records of the node by the same operators as above.
* `RetryTracker` is `receipt_retry_tracker_v2`, `ReceiptProducer` the loop that probes
  the subjects of one verifier in the order of the snapshot.  Times are in ticks of 30
  seconds.
* The modules `MC*` choose inputs and bounds for TLC, the modules `*_proofs` have the
  theorems.

The operators whose comment begins with *Mutant* are wrong versions of the definition
below them.  Put in its place, each breaks the property that `PROJECT.json` names, which
shows that the property depends on that code.  No specification uses them.

## Runs

Each run takes between five seconds and two and a half minutes.

`lifecycle` (`MCLifecycle.cfg`): two identities, two keys, epochs 0 to 4, at most four
records in all, every record that `apply` could accept before the last epoch and many that
it refuses.  Two identities are enough because every check compares two; four records
allow a key to be given up, taken over and claimed back.  The clock stops with the last
record, because nothing that follows depends on it.  Checked: `TypeOK`, `UniqueServiceKey`,
`DescriptorChain`, `DeregisteredStaysOut`, `NoRetroactiveChange`.

`reversibility` (`MCBlockTransition.cfg`): epochs of four blocks, heights 0 to 7, a
journal window of two blocks, two versions of block 4, lifecycle records in the blocks
0, 6 and 7, leases in 5 and 6.  An operator can lease in block 5, update its descriptor
and replace the lease in block 6, and block 7 freezes epoch 2.  Blocks fail at every
point and are disconnected up to the window.  Checked: `TypeOK`, `BlocksAreReversible` (the
refinement of `ReversibleState`), `JournalCoversTip`, `FrozenMembersAuthorized`,
`EvidenceIsCanonical`, `LeaseSlotsDistinct`.

`epoch` (`MCEpoch.cfg`): epochs of four blocks, two rounds, six operators for five
places, committees of three with a quorum of two, receipts about one member, and two
versions of the blocks that anchor the rounds.  The chain runs from enrolment to the
first payout height.  Operators register and lease in a fixed order, which loses no
population.  Checked: `BoundariesSucceed`, `EvidenceIsCanonical`, `QualificationSettled`,
`PayoutSetClosed`, `ReceiptSlotsDistinct`.

`payout` (`MCCoordinator.cfg`): two operators verify each other in epoch 1 and are paid
in epoch 2, while their addresses of later epochs change and one version of the block that
seeds the rotation replaces the other.  Subsidies are one whose share
is zero and one that does not divide evenly; fees make the sum overflow or not.  The two
addresses are interchangeable (`SYMMETRY`; no liveness is checked).  `RewardPlannable`:
the next block always has a plan, otherwise the chain would stop.
`PayoutScheduleFixed`: once the epoch has begun no block changes the payee of a later one.
The exception between log and change (`ThrowAfterLog`) is left to `reversibility`.

`chain` (`MCBlockchain.cfg`): twelve blocks above the genesis block.  Branch A has five, of
which the last is a checkpoint; B leaves the genesis block and ends in a heavy block that
EPoSE refuses; C leaves the first block of A and has a heavy block at the third height.  So
there are switches to more work at the same length, switches that fail in the middle and are
undone below the journal window of two blocks, switches that give up work for the checkpoint,
and a branch that the checkpoint cuts off; with exceptions of `add_block` before and after
the block was written, and crashes at every step.  `IdleCoordinatorCanonical`,
`CoordinatorFollowsBatch` and `DatabaseReplays` relate memory, transaction and database;
`RestoreNeverRefused` says that a failed switch can be undone.  `CommitNeverWorse`: a commit
gives up no checkpoint that the chain has passed and loses work only to pass another one.
It needs both tests of `handle_alternative_block`: without `is_alternative_block_allowed` a
second switch of the same batch could go back below the checkpoint for the sake of work.
`ServesCanonicalState` is the refinement of `CanonicalState`; `Recovers` is liveness.

`chain_faults` (`MCBlockchainFaults.cfg`): in addition two pops or commits fail without
being repaired, on the blocks up to the third height, below the checkpoint.  The node then
runs on with a coordinator that is not the one of its chain.  `RestartHeals` says that this never
reaches the database, and that a crash is followed by a start with the right coordinator, in
every behaviour in which the coordinator of an idle node is ahead of the chain or behind it
on the same branch (`OnBranch`): there the comparison of heights in `connect_block` refuses
what follows.  After a failed commit of a switch the coordinator is on another branch, and
then the property is false: see `failed_commit`.  The run reaches this state, in which `init`
refuses the database and the node stops, and so does not check deadlock.

`failed_commit` (`MCBlockchainFailedCommit.cfg`, expected violation of `DatabaseReplays`):
the commit of a batch that switched throws.  `cleanup_handle_incoming_blocks` rebuilds the
coordinator after an abort and not after this.  The coordinator keeps the lost blocks;
`connect_block` compares heights, so when blocks of another branch reach the height that it
expects, a block is connected to the wrong state and its commitment stored, and the next start
refuses the database.

`relay` (`MCRelayPool.cfg`): nine records (signature variants of a receipt, receipts of two
branches, two rounds, two enrolments of which one depends on the other) as single records
and in six pairs, a queue of three and a template of two records with one place reserved
for each class, an epoch of six blocks with two versions of the blocks that anchor it.
`QueueMatchesRecords` and `RoomAccounted` are about the two containers and their sums;
`ReservedRoom` and `TemplateReserves` about the reserved parts; `EvidenceBudgetUsed` and
`ReplacementEnters` about receipts of a branch that was left; `RetriesAccepted` about what
peers send again.  The height from which a slot has one pending receipt is the first of an
epoch, as 21,600 is (ADR-0010).  That matters: were it inside a round, a receipt queued
before it would have another deadline when it comes again and be refused as a conflict.
With it no slot has variants when the rule begins, so `compact_receipt_slots` finds nothing.

`enrolment` (`MCServiceProducer.cfg`): three epochs of four blocks, one reorganisation of
one block, one stop, slow searches, absences, a context block for which the nonces run out,
blocks that take half of a batch, and a cache of endpoints that is full when the descriptor of
a new epoch, or the one of a node that has just started, is to enter it.
`OnlyKnownDeadEnds`: if the chain then stands still the node has made its offer, or is in one of
six named states: its configuration is not that of its descriptor, the cache refuses its
endpoint (`cryptonote_core.cpp:958`), its descriptor has lapsed, half of its enrolment is on the
chain, its batch is refused, or no nonce was found.  No order of blocks, cancelled searches and
restarts leaves it waiting for anything else.

`renewal` (`MCServiceRenewal.cfg`): the chain only grows and waits for the node at each
cutoff (`KeepsPace`); two stops, after each of which the configuration may differ, over
four epochs; the cache of endpoints has room.  `RenewsWhenRequired` and `BatchStaysValid` hold.

`lapse` (`MCServiceLapse.cfg`, expected violation of `RenewsWhenRequired`): a node that was
away until its descriptor expired builds a first registration, because it looks for a
descriptor in the target epoch, and the registry refuses it because the identity has a
history; so at every later attempt.

`receipts` (`MCReceiptProducer.cfg`): two subjects that do not answer before one that does,
probes that take up to one tick of 30 seconds, two rounds, lost receipts at any time, two
changes of the round and two of: restart, failed launch, disconnected receipt, receipt that the
relay pool or a daemon without synchronisation refuses.  The times are those of the daemon (30 s
between probes, back-off from 30 s to 120 s, 60 s between transports); one window has two
transports instead of eight.  `OneAttempt`: an entry is in flight exactly while its probe is.
`RetriesAreFair`: a subject that answers is served again and again until its receipt is on the
chain, if the silent subjects before it leave it a turn (`InTurn`, see the known limits).

The runs whose bounds on height and records end every behaviour do not check deadlock; `chain`,
`relay` and `receipts` do.

### Fairness

* `Blockchain`: the steps of a procedure, the end of a batch and the start after a crash.  A
  procedure holds the lock and waits for nobody; every caller of
  `prepare_handle_incoming_blocks` calls the cleanup; that somebody restarts a crashed
  daemon is an assumption.  Nothing is promised about blocks arriving.
* `ServiceProducer`: calls (the daemon's idle loop runs once a second), the worker thread,
  the passing of 30 seconds, the start.  Blocks are not fair.  In `renewal` and `lapse` the
  chain waits at a cutoff for a running node, which is the assumption that the search is
  short compared with an epoch (`KeepsPace`).
* `ReceiptProducer`: calls, the end of a probe (each of its requests has a timeout), the
  passing of time.  A tick does not overtake a call that is due, because calls come every second;
  a running probe is overtaken for up to `max_probe` ticks.  That calls are fair assumes that the
  daemon stays synchronised; a receipt that is refused without end, because the relay pool stays
  full, is left out by the bound on faults.

### Known limits of the code

Two more disagreements came up that are not runs of their own; the constants reproduce them.

* `pop_blocks` aborts its batch when the database throws and does not rebuild the coordinator
  (`blockchain.cpp:701`), although `docs/epose/review/VALIDATION.md:762` says that an aborted
  batch does.  The node refuses the next blocks by their height until it is restarted, which
  `RestartHeals` covers.  `IdleCoordinatorCanonical` under `Faults = {"pop_block"}` shows it.
* The producer keeps its envelopes by target epoch (`cryptonote_core.cpp:1036`), so a
  reorganisation of the context block leaves it with a batch that is refused for the rest of
  the epoch, although `docs/epose/BENCHMARKS.md:71` says that changes of the context cancel
  stale work.  It is the state `StaleBatch` of `OnlyKnownDeadEnds`.

And one limit of the retry policy: the first subject in snapshot order that may be tried is
probed, with 30 seconds between probes, and the back-off ends at 120 seconds.  One silent subject
always leaves room for the others.  Two do as long as a probe takes less than 60 seconds; a probe
asks every discovery endpoint in turn, with a timeout of 5 seconds for each request, so its length
depends on their number.  Three do if it takes less than 15 seconds.  With more, or with longer probes, a silent one is always due first, and those behind it are not
probed.  `InTurn` is this condition, counted in ticks; without it `RetriesAreFair` is violated for
`max_probe = 2`.

## Proofs

The theorems about the registry and the blocks hold for every set of identities, keys,
hashes and bindings, every epoch length and anchor depth that `epoch_timing_v2::valid`
accepts (`TimingAssumption`), every committee that the membership parameters allow
(`CommitteeAssumption`), every integer width and every journal window of at least one
block (`UndoAssumption`).  Those about the reward hold for every amount, share and policy
(`RewardAssumption`: the integer holds the product of two basis point values).  Those about
the chain hold for every tree of blocks, every set of checkpoints, every verdict of
`connect_block` and every journal window, with crashes and exceptions of `add_block` at any point, and assume
`FailuresHandled`: no exception from a pop or a commit, for which the runs show that they fail.
Those about the relay pool hold for every set of records with distinct identifiers, every
limit that `LimitsValid` accepts, every batch, every genesis chain and every content of the
blocks (`RelayAssumption`, `LimitsAssumption`); those about the tracker for every list of
subjects, every set of rounds and all limits that `begin_context` accepts
(`TrackerAssumption`, `ReceiptAssumption`).

| Module | Theorem | Property |
|---|---|---|
| `Lifecycle_proofs` | `LifecycleTypeOK` | `TypeOK` |
| | `LifecycleDescriptorChain` | `DescriptorChain` |
| | `LifecycleUniqueServiceKey` | `UniqueServiceKey` |
| | `LifecycleDeregisteredStaysOut` | `DeregisteredStaysOut` |
| | `LifecycleNoRetroactiveChange` | `NoRetroactiveChange` |
| `BlockTransition_proofs` | `BlockTransitionTypeOK` | `TypeOK` |
| | `BlockTransitionJournalCoversTip` | `JournalCoversTip` |
| | `BlockTransitionLeaseSlotsDistinct` | `LeaseSlotsDistinct` |
| | `BlockTransitionReceiptSlotsDistinct` | `ReceiptSlotsDistinct` |
| | `BlockTransitionReversible` | `BlocksAreReversible` |
| `Epoch_proofs` | `EpochEvidenceIsCanonical` | `EvidenceIsCanonical` |
| | `EpochFrozenMembersAuthorized` | `FrozenMembersAuthorized` |
| | `EpochBoundariesSucceed` | `BoundariesSucceed` |
| | `EpochQualificationSettled` | `QualificationSettled` |
| | `EpochPayoutSetClosed` | `PayoutSetClosed` |
| `Coordinator_proofs` | `BasisPointsExact` | the share in two parts is the exact floor, nothing wraps |
| | `AllocationIsExact` | the parts add up to the subsidy and the coinbase |
| | `CoordinatorRewardPlannable` | `RewardPlannable`, if `DistinctScores` |
| | `CoordinatorPayoutScheduleFixed` | `PayoutScheduleFixed` |
| `Blockchain_proofs` | `ChainTypeCorrect` | `TypeOK` |
| | `CoordinatorIsCanonical` | `IdleCoordinatorCanonical` |
| | `CoordinatorFollows` | `CoordinatorFollowsBatch` |
| | `DatabaseAlwaysReplays` | `DatabaseReplays` |
| | `RestoreSucceeds` | `RestoreNeverRefused` |
| | `ChainServesCanonicalState` | `ServesCanonicalState` |
| | `ChainCommitNeverWorse` | `CommitNeverWorse` |
| `RelayPool_proofs` | `RelayQueueMatches` | `QueueMatchesRecords` |
| | `RelayRoomAccounted` | `RoomAccounted` |
| | `RelayReservedRoom` | `ReservedRoom` |
| | `RelayReplacementEnters` | `ReplacementEnters` |
| `ReceiptProducer_proofs` | `ReceiptTypeOK` | `TypeOK` |
| | `ReceiptOneAttempt` | `OneAttempt` |

`SemanticState_proofs` has the lemmas about the operators of the registry, the pipeline and
the journals.  `Lifecycle_proofs` and `BlockTransition_proofs` extend it, `Epoch_proofs`
extends the latter and `Coordinator_proofs` extends `Epoch_proofs`.  The variables of
`Lifecycle` have names of their own (`this_epoch`, `earliest_epoch`) so that it can be
combined with those lemmas.  `tlapm` needs between three and twenty minutes for a module.

**Folds and recursive functions.** The proof system has no induction over data here, but
some of it can be had from a least counterexample, which the well-foundedness of the
naturals gives (`LeastElement`).  That a recursive function is what its equation says needs
a function that satisfies the equation: if there were none for some length, or for some
number of elements, take the least one and extend the function below it (`SumsExist`,
`DelaysExist`, `BytesTableExists`, `RunTableExists`).  From there on the equation is enough.
So `WorkAppend` and `WorkConcat` are about the cumulative difficulty, `BytesOf` of a set
changes by the size of the element that joins or leaves it, and a batch of the relay pool is
a run of single admissions (`RunOver`).

**The registry.**  `UniqueServiceKey` is not inductive: a record is compared with
intervals, while the property speaks of the descriptor that the forward scan finds.  The
inductive invariant `IInv` says that each identity has one history, that histories are
descriptor chains whose effective epochs go forward (`GoesForward`), and that the
half-open intervals of two identities with the same key do not overlap (`KeysDisjoint`).
An appended record can only shorten the interval before it (`EndOfAppend`), so
`KeysDisjoint` survives, and `DescriptorInterval` shows that the scan returns a descriptor
only inside its interval.  `NoRetroactiveChange` follows because an appended record changes
where the scan stops only from its effective epoch on (`GovernsAppend`).

**The journals.**  `Fits(st, u)` says that the journal `u` may be rolled back from the
state `st`: the sizes it recorded are no larger than the lists, and its entries point into
them.  For each operation a lemma (`UndoLifecycle`, `UndoAppendLease`, `UndoReplaceLease`,
`UndoReceipt`, `UndoFreeze`, `UndoClose`) shows that the new state still fits the new
journal, and that rolling back from there gives what rolling back gave before.
`JoinedUndo` shows that `append_undo` composes: undoing the joined journal is undoing the
transaction and then the rest of the block.  All of them rest on one fact about logs: the
oldest entry of an index decides, so an entry added at the end matters only when it is the
first of its index (`FirstDecides`, `LongerLog`).  That a log with some entry for an index
has a first one needs a least element, which `LeastElement` takes from the
well-foundedness of the naturals.

**The blocks.**  The inductive invariant `IInv` of `BlockTransition_proofs` has two parts.
`PastOK`: the journal of each connected block fits the state after it and leads back to
the state that the history variable `past` has for it.  `RunningOK`: the journals of the
running transaction and of the running block fit, in this order, and lead to states
(`Inner`, `Outer`) with one history per identity and distinct slots.  Steps inside a block
leave `Outer` alone (`StepInBlockStep`) and are stuttering steps of `ReversibleState`;
`EndBlock` is `Connect`, where the trimming of the oldest journal moves `undo` and `past`
along together (`ConnectPast`); `DisconnectTip` is `Disconnect`.  The distinct slots are
part of the invariant for past states too, because a rollback returns to them.

**The epochs.**  That a boundary succeeds depends on what all earlier boundaries did, and a
disconnected block returns to a state that has to be right at its own height.
`Good(st, c, n, m)` says what a state owes to its height: its leases and receipts rest on the
first `n` blocks of the chain `c`, the epochs with a snapshot are exactly those due below
height `m` (`Begun`), those with a qualification set exactly those that ended below `n`
(`Ended`), each set is what the receipts say, members are authorized and no epoch is
overfull.  The invariant `EInv` asks this of the running state, of the state a failing block
returns to (`Outer`) and of every state in `past`, each at its height.  The arithmetic is in
`BegunStep` and `EndedStep` (the block at a height freezes and closes exactly the epochs that
join the two sets there), `CloseAfterFreeze`, and `FrozenBeforeEffect`: a record takes effect
in no epoch that is frozen already, which is why later records leave the members authorized
(`GoodLifecycle`).  A receipt joins no closed epoch because its window has ended
(`GoodReceipt`).  `SameBlocks` carries a state over to another chain with the same blocks below
it, which is the step for a disconnected block.  The proof found two corners that the runs do
not reach: without a first payout height nothing is promised, and an epoch that ends
with the last height of the integer type is never closed.  `PayoutSetClosed` is stated for
heights in between.

**The reward.**  `basis_points` divides first and multiplies the quotient and the remainder
separately.  `ProductBound` bounds both products, so that no product or sum leaves the type and
the modulus in the model is the identity (`WrapInRange`); the two truncations together are that
of the exact product, and the subtraction in the allocation cannot go below zero.

**The chain.**  The invariants of the chain are not inductive: that a restored block is
accepted depends on what the switch popped long before.  The inductive invariant `IInv` of
`Blockchain_proofs` says that the database is `Good` (a valid chain from the genesis block,
each block stored with the state that it leads to), that a batch which may still be committed
(`Follows`) is `Good` as well and is what the coordinator has connected, and that during a
switch the blocks below the split with the disconnected blocks on top are still a valid chain
(`Restorable`).  A pop moves one block from the first part to the second, a restore moves it
back, so the next block to restore is always accepted (`ValidNext`).  A doomed batch is free
to be anything: it is aborted, and the replay of a `Good` database succeeds (`GoodReplays`),
which also makes the state `halted` unreachable.  `DisconnectTip` by a journal and by a replay
lead to the same coordinator, so the number of journals left does not matter.  Each step of
the chain is a `Leave`, a `Settle` or a stuttering step of `CanonicalState`.

`CommitNeverWorse` compares the chain at the commit of a batch with the one at its beginning, so
its invariant `ChainKept` has to know at every point of a switch how the chains that may come out
of it compare with the database: the blocks below the split with the disconnected blocks on top
are no worse; while blocks are popped, the alternative chain on its split is no worse either; while
they are connected, the batch with what is left of the alternative chain.  A pop or a connect moves
one block from one part to the other.  `SwitchIsNoWorse` is the decision itself: the chains agree
below the split, and every checkpoint up to the height of the old chain lies below the new block, so
the old chain has passed none above the split that the new one does not pass; if the new block
is not at a checkpoint it brings more work.  `NoWorse` is transitive (`NoWorseTransitive`), which
carries it over the switches and blocks of one batch.

**The payout.**  `plan_reward` refuses a height in four ways, and `PlanAccepted` rules out
each.  The set of the epoch before is closed and its snapshot there: `EInv` gives both at
every height.  The block that seeds the rotation is on the chain, by the arithmetic of the
epochs.  The rotation names a node: the rank of a node is the number of nodes before it, ranks
are injective, an injection of a finite set into one of the same size is onto, so the rank that
the height asks for is taken by exactly one node.  This is the one place that needs
`DistinctScores`: the score of a node is a number that no other node has.  The code sorts by
hash and then by key, so its order has no ties, and the model's `PayoutScore` stands for that
pair.  The descriptor of the node in the registry still is the one of the snapshot
(`FrozenMembersAuthorized`) and belongs to the member: for this `Regular`, that records are in
the history of their own identity and that snapshots are finite, is carried along as a second
invariant, also for the states to which a block can return.  The arithmetic of the split then
cannot fail unless subsidy and fees together leave the type.  `PayoutScheduleFixed` follows
from `SamePlan`: what a plan reads (snapshot and set of the source epoch, the seeding block) is
the same before and after a block, because snapshots and sets are only added and one epoch has
only one of each.

**The relay pool.**  The inductive invariant is `PoolOK`: queue and records have the same
items, one entry for each record, the counter of bytes is the sum over the items, and each class
leaves the other its reserve.  `Minus` wraps, so `RoomAccounted` is needed to see that it does
not: the room that is left is computed as a difference of unsigned numbers, and the invariant
says exactly that they are in order.  Every operation of the pool is one of four: it takes
items away (`PartOK`), adds one that `EnqueueStatus` admits (`EnqueueOK`), leaves the pool
alone, or is a batch of these that is kept or thrown away as a whole (`RunOK`).
`ReservedRoom` follows because compaction and expiry before the check only free room
(`Shrinks`, `ReserveKept`).  For `ReplacementEnters` the holder of a slot with another
context is either pruned or replaced on the way in, and what remains in the slot has the
context of the new receipt.

**The tracker.**  `OneAttempt` is inductive with the finiteness of the entries.  It relates the
tracker to the probe, and the hard steps are those in which the round changes while a probe is
running: `begin_context` waits until the probe has been collected, because a call that finds a
probe collects it and does nothing else.

Only model-checked, and why:

* `TemplateReserves` and `EvidenceBudgetUsed` are about a selection from a sorted sequence that
  is folded twice; the sorted sequence is a `CHOOSE` over permutations and each of its facts
  would need an induction over it.
* `RetriesAccepted` compares the admission of a batch with an admission after other batches and
  blocks, and depends on the height from which slots are unique being the first of an epoch.
* `BatchStaysValid` holds only on a chain that grows and waits for the search, which the bounds
  of the instance arrange.
* `RestartHeals`, `Recovers`, `OnlyKnownDeadEnds`, `RetriesAreFair` and `RenewsWhenRequired` are
  liveness, which the proof system does not cover, as it does not cover `ENABLED`.

## Plan

1. Proofs of `TemplateReserves` and `EvidenceBudgetUsed`, with lemmas about the selection loop.
2. Two enrolling nodes that exchange a service key: a lease for a key that its identity has
   given up blocks the new holder until the epoch has passed (`membership_v2.cpp:490`).
3. Probe budget, rejection caches and the delivery limiter.

## Not modelled

* Byte formats, hashing, signatures, RandomX and key storage have no protocol state of their
  own: their outcome is an input.
* The state index and the helper in `replay_v2.cpp` are used by their unit tests only; the
  replay that the node performs is `rebuild_epose_state`.
* Probe budget and rejection caches drop calls to the pool, which the pool's model allows at
  any time.  The gossip of records and endpoints is the environment of the pool and of the
  producers: calls come in any order, again, or not at all.
* Checkpoints that arrive while the node runs: `update_checkpoints` and the rollback that
  `check_against_checkpoints` makes when the chain contradicts a new one.  The checkpoints of
  `Blockchain` are those that the node was started with.
* Of the cache of endpoints, only that it may refuse the endpoint of the node itself; of a full
  relay pool, the receipt producer sees only refusals.  What other nodes put there is in no state.
* The alternative blocks that a node keeps are not state of `Blockchain`: a switch may be
  offered any chain of the tree, which is more than the node could know.
* The inherited Monero node, the v1 protocol, diagnostics and QMS are outside the layer.
* The catalogues in `translations/` are the texts of the wallet's user interface in XML; there
  is no program in them.
