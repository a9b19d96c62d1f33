----------------------------- MODULE Lifecycle -----------------------------
(***************************************************************************)
(* One identity registry under the clock that the block height gives it.   *)
(* Blocks hand apply the epoch they are in and the first epoch in which a  *)
(* change may still take effect: the next one up to its enrolment cutoff,  *)
(* the one after it from then on.  A record that is refused, or stored     *)
(* already, leaves the registry as it is.                                  *)
(***************************************************************************)
EXTENDS LifecycleRegistry

VARIABLES
    histories,
    this_epoch,     \* the inclusion_epoch that the next record is given
    earliest_epoch  \* its minimum_effective_epoch

vars == <<histories, this_epoch, earliest_epoch>>

\* enrollment_cutoff(1) is not below 0, so height 0 comes before it.
Init ==
    /\ histories = <<>>
    /\ this_epoch = 0
    /\ earliest_epoch = 1

Apply(r, authentic) ==
    /\ Accepts(histories, r, authentic, this_epoch, earliest_epoch)
    /\ histories' = PushRecord(histories, r)
    /\ UNCHANGED <<this_epoch, earliest_epoch>>

\* The first block after the cutoff of the next epoch.
PassCutoff ==
    /\ earliest_epoch = this_epoch + 1
    /\ earliest_epoch < U64Max
    /\ earliest_epoch' = earliest_epoch + 1
    /\ UNCHANGED <<histories, this_epoch>>

\* Mutant: the epoch is entered before the cutoff of the next one has passed.
EnterEpochEarly ==
    /\ earliest_epoch <= this_epoch + 2
    /\ this_epoch' = this_epoch + 1
    /\ UNCHANGED <<histories, earliest_epoch>>

\* The first block of the next epoch.
EnterEpoch ==
    /\ earliest_epoch = this_epoch + 2
    /\ this_epoch' = this_epoch + 1
    /\ UNCHANGED <<histories, earliest_epoch>>

Next ==
    \/ \E r \in Records, authentic \in BOOLEAN : Apply(r, authentic)
    \/ PassCutoff
    \/ EnterEpoch

Spec == Init /\ [][Next]_vars

-----------------------------------------------------------------------------
(* Properties *)

\* The registry is a list of non-empty histories and its clock counts epochs.
TypeOK ==
    /\ histories \in Histories
    /\ {this_epoch, earliest_epoch} \subseteq U64
    /\ earliest_epoch \in {this_epoch + 1, this_epoch + 2}

\* No epoch, past or future, gives one service key to two identities, although
\* apply only compares the new record with the stored intervals and a stored
\* interval ends early when a successor is appended (lifecycle_v2.cpp:358).
UniqueServiceKey ==
    \A i, j \in Identity, epoch \in U64 :
        LET d == descriptor_for_epoch(histories, i, epoch)
            e == descriptor_for_epoch(histories, j, epoch)
        IN  /\ i # j
            /\ d # NullDescriptor
            /\ e # NullDescriptor
            => d.service_public_key # e.service_public_key

\* A history is the unbroken chain of its descriptors: each record commits to the
\* descriptor before it, sequences count from 0 without a gap, and effective
\* epochs only go forward, so that the scan for an epoch can stop at the first
\* later one (lifecycle_v2.cpp:430).
DescriptorChain ==
    \A i \in DOMAIN histories :
        LET rs == histories[i].records
        IN  \A k \in DOMAIN rs :
                /\ rs[k].next_descriptor.identity_id = histories[i].identity_id
                /\ rs[k].next_descriptor.sequence = k - 1
                /\ k > 1 =>
                      /\ rs[k].previous_descriptor_hash
                            = hash_identity_descriptor(rs[k - 1].next_descriptor)
                      /\ rs[k].next_descriptor.effective_epoch
                            > rs[k - 1].next_descriptor.effective_epoch

\* What an epoch that can no longer be changed says about an identity, its
\* descriptor or that it has none, stays what it is (lifecycle_v2.cpp:294).
NoRetroactiveChange ==
    [][\A id \in Identity, epoch \in U64 :
           epoch < earliest_epoch =>
               descriptor_for_epoch(histories', id, epoch)
                   = descriptor_for_epoch(histories, id, epoch)]_vars

\* Deregistration is final: from its effective epoch on the identity has no
\* descriptor in any epoch, whatever is appended or renewed later
\* (lifecycle_v2.cpp:332).
DeregisteredStaysOut ==
    \A i \in DOMAIN histories :
        LET rs == histories[i].records
        IN  \A k \in DOMAIN rs, epoch \in U64 :
                /\ rs[k].action = "deregister_identity"
                /\ rs[k].next_descriptor.effective_epoch <= epoch
                => descriptor_for_epoch(histories, histories[i].identity_id, epoch)
                       = NullDescriptor

=============================================================================
