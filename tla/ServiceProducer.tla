-------------------------- MODULE ServiceProducer --------------------------
(***************************************************************************)
(* The enrolment of one service node (update_epose_v2_service_producer and *)
(* the builders of service_producer_v2.cpp) beside the chain that it wants *)
(* to enter.                                                               *)
(*                                                                         *)
(* The daemon calls the producer about once a second.  A call looks at the *)
(* chain, decides for which epoch to enrol, starts a worker thread that    *)
(* signs a lifecycle record and searches a proof of work for an admission  *)
(* lease, collects what the worker built, and submits the two records as   *)
(* one batch until the lease is on the chain.  Meanwhile blocks come and   *)
(* go, and the daemon may stop and start again without its memory.         *)
(*                                                                         *)
(* The node has one keystore; its binding (reward address and endpoint) is *)
(* read from the command line at every start.  pool is what the relay      *)
(* pools of the network hold of this node; RelayPool has their limits.     *)
(***************************************************************************)
EXTENDS SemanticState, SequencesExt

CONSTANTS
    own_identity,       \* m_epose_v2_identity_id
    own_service_key,    \* of the keystore
    Barren,             \* hashes of context blocks for which the nonces run out
    Faults              \* what goes wrong: see the actions that name them

ASSUME ProducerAssumption ==
    /\ own_identity \in Identity
    /\ own_service_key \in ServiceKey
    /\ Barren \subseteq BlockHash
    /\ Faults \subseteq {"offline", "slow", "stop", "reconfigure", "reorg", "split",
                   "crowded"}

VARIABLES
    chain,      \* hashes of the blocks
    states,     \* states[i] is the EPoSE state after i blocks
    pool,       \* records of this node that miners may include
    ready,      \* the service is configured and the daemon online and synchronized
    binding,    \* of the present configuration
    crowded,    \* the cache of endpoints has neither that of the current descriptor nor room
    producer,   \* pending_epoch, pending_envelopes, future and cancel flag
    recent      \* the last successful submission is less than 30 seconds old

vars == <<chain, states, pool, ready, binding, crowded, producer, recent>>

-----------------------------------------------------------------------------
(* What the producer reads from the chain *)

Height == Len(chain)

state == states[Height]

CurrentEpoch == (Height - 1) \div epoch_length

target_epoch ==
    LET next == CurrentEpoch + 1
    IN  IF Height > enrollment_cutoff(next) THEN next + 1 ELSE next

context_height == epoch_start(target_epoch - 1)

DescriptorAt(epoch) == descriptor_for_epoch(state.histories, own_identity, epoch)

CurrentDescriptor == DescriptorAt(CurrentEpoch)

existing == DescriptorAt(target_epoch)

has_admission(epoch) ==
    \E s \in EntriesOf(state.leases) :
        s.lease.target_epoch = epoch /\ s.lease.member.identity_id = own_identity

Admitted == existing # NullDescriptor /\ has_admission(target_epoch)

\* A descriptor that the present configuration does not reproduce stops the call.
Configured ==
    \A d \in {CurrentDescriptor, existing} \ {NullDescriptor} :
        d.service_public_key = own_service_key /\ d.binding = binding

\* So does the cache of endpoints when it refuses the one of the current descriptor.
Listed == ~ crowded

-----------------------------------------------------------------------------
(* The worker: build_initial_service_enrollment_v2 and                     *)
(* build_service_renewal_enrollment_v2                                     *)

Job(current) ==
    [target_epoch |-> target_epoch, context_hash |-> block_hash(chain, context_height),
     binding |-> binding, current |-> current]

\* Mutant: a renewal starts where the descriptor that it renews did.
NextDescriptorUnmoved(job) ==
    IF job.current = NullDescriptor
    THEN [identity_id |-> own_identity, service_public_key |-> own_service_key,
          binding |-> job.binding, sequence |-> 0,
          effective_epoch |-> job.target_epoch, expiry_epoch |-> job.target_epoch + 2]
    ELSE [job.current EXCEPT !.sequence = @ + 1, !.expiry_epoch = job.target_epoch + 2]

NextDescriptor(job) ==
    IF job.current = NullDescriptor
    THEN [identity_id |-> own_identity, service_public_key |-> own_service_key,
          binding |-> job.binding, sequence |-> 0,
          effective_epoch |-> job.target_epoch, expiry_epoch |-> job.target_epoch + 2]
    ELSE [job.current EXCEPT !.sequence = @ + 1,
                             !.effective_epoch = job.target_epoch,
                             !.expiry_epoch = job.target_epoch + 2]

Lifecycle(job) ==
    IF job.current = NullDescriptor
    THEN [action |-> "register_identity", previous_descriptor_hash |-> NullHash,
          next_descriptor |-> NextDescriptor(job)]
    ELSE [action |-> "update_descriptor",
          previous_descriptor_hash |-> hash_identity_descriptor(job.current),
          next_descriptor |-> NextDescriptor(job)]

\* The nonces are tried in order, so a search repeated finds the same proof.
Lease(job) ==
    [member |-> MemberOf(NextDescriptor(job)), target_epoch |-> job.target_epoch,
     admission_context_hash |-> job.context_hash, nonce |-> CHOOSE n \in Nonce : TRUE]

\* Only a later epoch than that of the current descriptor can be asked for.
Buildable(job) ==
    job.current # NullDescriptor =>
        /\ job.current.sequence < U64Max
        /\ job.target_epoch > job.current.effective_epoch
        /\ job.target_epoch + 2 > job.current.expiry_epoch

Outcome(job) ==
    CASE ~ Buildable(job) -> [status |-> "invalid_configuration", records |-> <<>>]
      [] Buildable(job) /\ job.context_hash \in Barren ->
            [status |-> "admission_search_exhausted", records |-> <<>>]
      [] OTHER -> [status |-> "accepted", records |-> <<Lifecycle(job), Lease(job)>>]

Cancelled == [status |-> "cancelled", records |-> <<>>]

-----------------------------------------------------------------------------
(* apply_transaction for the records of this node *)

IsLease(r) == "nonce" \in DOMAIN r

Applies(st, r, height) ==
    IF IsLease(r)
    THEN \/ LeaseAppended(st, r, height, chain)
         \/ LeaseReplaced(st, r, height, chain)
         \/ LeaseDuplicate(st, r, height, chain)
    ELSE LifecycleAccepted(st, r, height) \/ LifecycleDuplicate(st, r, height)

After(st, r, height) ==
    CASE IsLease(r) /\ AdmissionAppends(st.leases, r) -> AppendLease(st, r, height)
      [] IsLease(r) /\ AdmissionReplaces(st.leases, r) -> ReplaceLease(st, r, height)
      [] ~ IsLease(r) /\ ~ Duplicate(st.histories, r) -> ApplyLifecycle(st, r)
      [] OTHER -> st

\* The states that a record, or a list of up to two, leads to: one, or none when it
\* is refused.
apply_record(st, r, height) ==
    IF Applies(st, r, height) THEN {After(st, r, height)} ELSE {}

apply_transaction(st, records, height) ==
    CASE Len(records) = 0 -> {st}
      [] Len(records) = 1 -> apply_record(st, records[1], height)
      [] OTHER -> UNION {apply_record(s, records[2], height) :
                            s \in apply_record(st, records[1], height)}

-----------------------------------------------------------------------------
(* The calls of the producer.  A call that returns without an effect is no *)
(* step.                                                                   *)

NoEpoch == U64Max

NoFuture == <<>>

Idle == [pending_epoch |-> NoEpoch, pending_envelopes |-> <<>>, future |-> NoFuture,
         cancel |-> FALSE]

Running(future) == future # NoFuture /\ future.status = "running"

\* The call has passed the checks of the configuration and of the cache.
Called == ready /\ Configured /\ Listed

\* Mutant: the admission for the new epoch is built while the old batch is kept.
RetargetedKeepingEnvelopes(p) ==
    IF p.pending_epoch = target_epoch THEN p
    ELSE [p EXCEPT !.future = NoFuture, !.pending_epoch = target_epoch, !.cancel = FALSE]

\* What belongs to another epoch is dropped.
Retargeted(p) ==
    IF p.pending_epoch = target_epoch THEN p
    ELSE [Idle EXCEPT !.pending_epoch = target_epoch]

\* The lease is on the chain.
SeeAdmission ==
    /\ Called
    /\ Admitted
    /\ producer' = [producer EXCEPT !.pending_epoch = NoEpoch, !.pending_envelopes = <<>>,
                                    !.cancel = TRUE]
    /\ UNCHANGED <<chain, states, pool, ready, binding, crowded, recent>>

\* A search for another epoch is told to end, and is waited for.
CancelSearch ==
    /\ Called
    /\ ~ Admitted
    /\ producer.pending_epoch # target_epoch
    /\ Running(producer.future)
    /\ producer' = [producer EXCEPT !.cancel = TRUE]
    /\ UNCHANGED <<chain, states, pool, ready, binding, crowded, recent>>

\* The call goes on with the epoch that the chain asks for.
OnTarget ==
    /\ Called
    /\ ~ Admitted
    /\ producer.pending_epoch = target_epoch \/ ~ Running(producer.future)

\* Too early: the block to which the work must commit is not there.
AwaitContext ==
    /\ OnTarget
    /\ Retargeted(producer).pending_envelopes = <<>>
    /\ Retargeted(producer).future = NoFuture
    /\ Height <= context_height
    /\ producer' = Retargeted(producer)
    /\ UNCHANGED <<chain, states, pool, ready, binding, crowded, recent>>

StartSearch ==
    /\ OnTarget
    /\ Retargeted(producer).pending_envelopes = <<>>
    /\ Retargeted(producer).future = NoFuture
    /\ Height > context_height
    /\ producer' = [Retargeted(producer) EXCEPT
                        !.future = [status |-> "running", job |-> Job(existing)],
                        !.cancel = FALSE]
    /\ UNCHANGED <<chain, states, pool, ready, binding, crowded, recent>>

\* The batch is taken by the pool as a whole or not at all; a refusal is an error of
\* the call and leaves the time of the last submission alone.
submit_local(envelopes) ==
    IF apply_transaction(state, envelopes, Height) # {}
    THEN pool' = pool \cup ToSet(envelopes) /\ recent' = TRUE
    ELSE pool' = pool /\ recent' = FALSE

CollectBatch ==
    /\ OnTarget
    /\ Retargeted(producer).pending_envelopes = <<>>
    /\ Retargeted(producer).future # NoFuture
    /\ producer.future.status = "accepted"
    /\ producer' = [producer EXCEPT !.pending_envelopes = producer.future.records,
                                    !.future = NoFuture]
    /\ submit_local(producer.future.records)
    /\ UNCHANGED <<chain, states, ready, binding, crowded>>

\* Mutant: the result of a cancelled search is left where it is.
CollectFailureLeft ==
    /\ OnTarget
    /\ Retargeted(producer).pending_envelopes = <<>>
    /\ Retargeted(producer).future # NoFuture
    /\ producer.future.status \notin {"running", "accepted", "cancelled"}
    /\ producer' = [producer EXCEPT !.future = NoFuture, !.pending_epoch = NoEpoch]
    /\ UNCHANGED <<chain, states, pool, ready, binding, crowded, recent>>

\* A cancelled search is begun again, after any other failure the epoch is too.
CollectFailure ==
    /\ OnTarget
    /\ Retargeted(producer).pending_envelopes = <<>>
    /\ Retargeted(producer).future # NoFuture
    /\ producer.future.status \notin {"running", "accepted"}
    /\ producer' = [producer EXCEPT
                        !.future = NoFuture,
                        !.pending_epoch = IF producer.future.status = "cancelled"
                                          THEN @ ELSE NoEpoch]
    /\ UNCHANGED <<chain, states, pool, ready, binding, crowded, recent>>

Resubmit ==
    /\ OnTarget
    /\ Retargeted(producer).pending_envelopes # <<>>
    /\ ~ recent
    /\ producer' = Retargeted(producer)
    /\ submit_local(Retargeted(producer).pending_envelopes)
    /\ UNCHANGED <<chain, states, ready, binding, crowded>>

Call ==
    \/ SeeAdmission
    \/ CancelSearch
    \/ AwaitContext
    \/ StartSearch
    \/ CollectBatch
    \/ CollectFailure
    \/ Resubmit

-----------------------------------------------------------------------------
(* The worker thread and the clock *)

\* The flag is looked at before every nonce, so a search that is cancelled may still
\* come to its own end.
SearchEnds ==
    /\ Running(producer.future)
    /\ \/ producer' = [producer EXCEPT !.future = Outcome(producer.future.job)]
       \/ /\ producer.cancel
          /\ Buildable(producer.future.job)
          /\ producer' = [producer EXCEPT !.future = Cancelled]
    /\ UNCHANGED <<chain, states, pool, ready, binding, crowded, recent>>

IntervalElapses ==
    /\ recent
    /\ recent' = FALSE
    /\ UNCHANGED <<chain, states, pool, ready, binding, crowded, producer>>

-----------------------------------------------------------------------------
(* The cache of endpoints.  What it has stays until it expires, so that of *)
(* this node is refused only when it is new to the cache and the endpoints *)
(* of other nodes fill it.                                                 *)

MayCrowd(descriptor) ==
    crowded' \in IF "crowded" \in Faults /\ descriptor # NullDescriptor
                 THEN BOOLEAN ELSE {FALSE}

NewToCache ==
    IF ready /\ CurrentDescriptor' # CurrentDescriptor THEN MayCrowd(CurrentDescriptor')
    ELSE UNCHANGED crowded

\* An entry of another node expires.
RoomInCache ==
    /\ crowded
    /\ crowded' = FALSE
    /\ UNCHANGED <<chain, states, pool, ready, binding, producer, recent>>

-----------------------------------------------------------------------------
(* The chain.  The lists of records that a miner may put in a block:       *)
(* nothing, or a batch of the pool, or with the fault "split" a part of it.*)

Includable ==
    LET lifecycles == {r \in pool : ~ IsLease(r)}
        leases == {r \in pool : IsLease(r)}
    IN  {<<>>} \cup {<<r, l>> : r \in lifecycles, l \in leases}
               \cup {<<r>> : r \in IF "split" \in Faults THEN lifecycles ELSE {}}
               \cup {<<l>> : l \in leases}

\* The pools drop what can no longer enter an epoch.
Unexpired(records, height) ==
    {r \in records : height <= enrollment_cutoff(
        IF IsLease(r) THEN r.target_epoch ELSE r.next_descriptor.effective_epoch)}

\* The chain leaves an epoch's enrolment behind only when the node is enrolled, unless
\* the node is away or its search takes longer than the epoch.
KeepsPace ==
    \/ Height < enrollment_cutoff(target_epoch)
    \/ Admitted
    \/ "offline" \in Faults /\ ~ ready
    \/ "slow" \in Faults

MineBlock(id, records) ==
    /\ KeepsPace
    /\ \E next \in apply_transaction(state, records, Height) : states' = Append(states, next)
    /\ chain' = Append(chain, id)
    /\ pool' = Unexpired(pool \ ToSet(records), Height + 1)
    /\ NewToCache
    /\ UNCHANGED <<ready, binding, producer, recent>>

\* The first block of a reorganization or of pop_blocks.  The daemon does not tell the
\* producer.
DisconnectBlock ==
    /\ "reorg" \in Faults
    /\ Height > 1
    /\ chain' = Front(chain)
    /\ states' = Front(states)
    /\ NewToCache
    /\ UNCHANGED <<pool, ready, binding, producer, recent>>

\* The pools of the peers may or may not have the records of a daemon that stops.
Stop ==
    /\ "stop" \in Faults
    /\ ready
    /\ ready' = FALSE
    /\ producer' = Idle
    /\ recent' = FALSE
    /\ pool' \in {pool, {}}
    /\ crowded' = FALSE
    /\ UNCHANGED <<chain, states, binding>>

\* The daemon has loaded its keystore and is synchronized.
Start ==
    /\ ~ ready
    /\ ready' = TRUE
    /\ binding' \in IF "reconfigure" \in Faults THEN Binding ELSE {binding}
    /\ MayCrowd(CurrentDescriptor)
    /\ UNCHANGED <<chain, states, pool, producer, recent>>

Init(genesis) ==
    /\ chain = <<genesis>>
    /\ states = <<EmptyState>>
    /\ pool = {}
    /\ ready = FALSE
    /\ binding \in Binding
    /\ crowded = FALSE
    /\ producer = Idle
    /\ recent = FALSE

Next(ids) ==
    \/ Call
    \/ SearchEnds
    \/ IntervalElapses
    \/ RoomInCache
    \/ \E id \in ids, records \in Includable : MineBlock(id, records)
    \/ DisconnectBlock
    \/ Stop
    \/ Start

\* The daemon calls the producer on every idle turn, threads run, time passes, and a
\* daemon that is started synchronizes.  Nothing is promised about blocks.
Fairness ==
    /\ WF_vars(Call)
    /\ WF_vars(SearchEnds)
    /\ WF_vars(IntervalElapses)
    /\ WF_vars(Start)

-----------------------------------------------------------------------------
(* Properties *)

HasBatch == producer.pending_epoch = target_epoch /\ producer.pending_envelopes # <<>>

\* The network has the records that make the node a member of the target epoch, or the
\* chain has.
Offered ==
    \/ Height <= context_height
    \/ Admitted
    \/ \E records \in Includable :
            apply_transaction(state, records, Height) # {}
              /\ \E l \in ToSet(records) : IsLease(l) /\ l.target_epoch = target_epoch

\* The six ways in which the producer comes to rest without an offer.
Misconfigured == ~ Configured

Unlisted == ~ Listed

Lapsed == Registered(state.histories, own_identity) /\ existing = NullDescriptor

HalfEnrolled == existing # NullDescriptor /\ existing.effective_epoch = target_epoch

StaleBatch == HasBatch /\ apply_transaction(state, producer.pending_envelopes, Height) = {}

Fruitless == Height > context_height /\ block_hash(chain, context_height) \in Barren

\* When the chain stands still long enough, a running node has made its offer for the
\* epoch that is open or is in one of six known states; no order of blocks, searches,
\* reorganizations and restarts leaves the producer waiting for anything else.
OnlyKnownDeadEnds ==
    <>[](ready => \/ Offered
                  \/ Misconfigured
                  \/ Unlisted
                  \/ Lapsed
                  \/ HalfEnrolled
                  \/ StaleBatch
                  \/ Fruitless)

\* A running node with the configuration of its descriptor, of which the cache takes the
\* endpoint, always comes to offer itself
\* for the epoch that is open ("renews the descriptor and admission lease when
\* required").
RenewsWhenRequired == <>[](ready /\ Configured /\ Listed => Offered)

\* On a chain that only grows, the batch in hand stays one that the next block may
\* include while its epoch is open, whatever blocks took of this node's records since
\* the search began.
BatchStaysValid == ready /\ Configured /\ HasBatch => ~ StaleBatch

=============================================================================
