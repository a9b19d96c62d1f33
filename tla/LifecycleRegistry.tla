------------------------- MODULE LifecycleRegistry -------------------------
(***************************************************************************)
(* The identity registry of EPoSE v2 (lifecycle_registry_v2).  An operator *)
(* registers an identity and then appends signed records to its history:   *)
(* renew, update, recover the service key, deregister.  A record names the *)
(* epoch from which its descriptor counts.                                 *)
(*                                                                         *)
(* The operators take the registry h, a sequence of histories, as their    *)
(* first parameter; the modules that hold a registry apply them to it.     *)
(*                                                                         *)
(* An identity id is the hash of the operator key, so an identity stands   *)
(* for its operator key too: the checks that tie the two together always   *)
(* hold here.  Binding stands for the reward address and the endpoint hash.*)
(* Rejection codes are not told apart: no caller looks at them.            *)
(***************************************************************************)
EXTENDS EposeTiming, Sequences

CONSTANTS Identity, ServiceKey, Binding

Actions == {"register_identity", "renew_lease", "update_descriptor",
            "deregister_identity", "recover_service_key"}

Descriptors ==
    [identity_id : Identity, service_public_key : ServiceKey, binding : Binding,
     sequence : U64, effective_epoch : U64, expiry_epoch : U64]

NullDescriptor == <<>>

NullHash == <<>>

\* A collision-free hash is the list of the fields that it commits to.
hash_identity_descriptor(d) ==
    <<d.identity_id, d.service_public_key, d.binding,
      d.sequence, d.effective_epoch, d.expiry_epoch>>

DescriptorHashes ==
    {NullHash} \cup (Identity \X ServiceKey \X Binding \X U64 \X U64 \X U64)

Records ==
    [action : Actions, previous_descriptor_hash : DescriptorHashes,
     next_descriptor : Descriptors]

History == [identity_id : Identity, records : Seq(Records) \ {<<>>}]

Histories == Seq(History)

-----------------------------------------------------------------------------
(* Lookups *)

Registered(h, id) == \E i \in DOMAIN h : h[i].identity_id = id

\* The first history of the identity.
HistoryIndex(h, id) ==
    CHOOSE i \in DOMAIN h :
        /\ h[i].identity_id = id
        /\ \A j \in 1..(i - 1) : h[j].identity_id # id

RecordsOf(h, id) == h[HistoryIndex(h, id)].records

LastRecord(h, id) == RecordsOf(h, id)[Len(RecordsOf(h, id))]

latest(h, id) ==
    IF Registered(h, id) THEN LastRecord(h, id).next_descriptor ELSE NullDescriptor

\* Record k is where the forward scan for an epoch stops.
ScanStopsAt(rs, k, epoch) ==
    /\ k \in DOMAIN rs
    /\ \A j \in 1..k : rs[j].next_descriptor.effective_epoch <= epoch
    /\ k < Len(rs) => rs[k + 1].next_descriptor.effective_epoch > epoch

\* Record k gives an identity its descriptor in an epoch: it is the one that the
\* scan selects, it has not expired and it is not a deregistration.
Governs(rs, k, epoch) ==
    /\ ScanStopsAt(rs, k, epoch)
    /\ epoch < rs[k].next_descriptor.expiry_epoch
    /\ rs[k].action # "deregister_identity"

GovernedBy(rs, epoch) ==
    LET governing == {k \in DOMAIN rs : Governs(rs, k, epoch)}
    IN  IF governing = {} THEN NullDescriptor
        ELSE rs[CHOOSE k \in governing : TRUE].next_descriptor

descriptor_for_epoch(h, id, epoch) ==
    IF Registered(h, id) THEN GovernedBy(RecordsOf(h, id), epoch) ELSE NullDescriptor

\* The registry's commitment hashes the histories in the order of their ids.
lifecycle_state_hash(h) == {<<h[i].identity_id, h[i].records>> : i \in DOMAIN h}

-----------------------------------------------------------------------------
(* lifecycle_registry_v2::apply *)

descriptor_static_equal(d, e) ==
    /\ d.identity_id = e.identity_id
    /\ d.service_public_key = e.service_public_key
    /\ d.binding = e.binding

\* A record is authentic when its keys and versions are well formed, its service
\* key differs from the operator key and both signatures verify.
StructureValid(r) ==
    r.next_descriptor.expiry_epoch >= r.next_descriptor.effective_epoch

\* Mutant: only the epoch of the block itself is protected.
NotRetroactiveToInclusion(r, inclusion_epoch, minimum_effective_epoch) ==
    r.next_descriptor.effective_epoch >= inclusion_epoch

NotRetroactive(r, inclusion_epoch, minimum_effective_epoch) ==
    /\ r.next_descriptor.effective_epoch >= minimum_effective_epoch
    /\ r.next_descriptor.effective_epoch >= inclusion_epoch

\* The message of a record leaves its signatures out.
Duplicate(h, r) ==
    LET id == r.next_descriptor.identity_id
    IN  Registered(h, id) /\ \E k \in DOMAIN RecordsOf(h, id) : RecordsOf(h, id)[k] = r

RegistrationAllowed(h, r) ==
    /\ r.action = "register_identity"
    /\ ~ Registered(h, r.next_descriptor.identity_id)
    /\ r.previous_descriptor_hash = NullHash
    /\ r.next_descriptor.sequence = 0

ActionAllowed(action, next, current) ==
    \/ /\ action = "renew_lease"
       /\ descriptor_static_equal(next, current)
       /\ next.expiry_epoch > current.expiry_epoch
    \/ /\ action = "update_descriptor"
       /\ next.service_public_key = current.service_public_key
    \/ /\ action = "recover_service_key"
       /\ next.service_public_key # current.service_public_key
    \/ /\ action = "deregister_identity"
       /\ descriptor_static_equal(next, current)
       /\ next.expiry_epoch = next.effective_epoch

\* Mutant: a deregistered identity may go on.
TransitionAfterDeregistration(h, r) ==
    LET next == r.next_descriptor
        current == latest(h, next.identity_id)
    IN  /\ Registered(h, next.identity_id)
        /\ r.previous_descriptor_hash = hash_identity_descriptor(current)
        /\ current.sequence # U64Max
        /\ next.sequence = current.sequence + 1
        /\ next.effective_epoch > current.effective_epoch
        /\ ActionAllowed(r.action, next, current)

\* Mutant: two descriptors may start in one epoch.
TransitionInSameEpoch(h, r) ==
    LET next == r.next_descriptor
        current == latest(h, next.identity_id)
    IN  /\ Registered(h, next.identity_id)
        /\ r.previous_descriptor_hash = hash_identity_descriptor(current)
        /\ current.sequence # U64Max
        /\ next.sequence = current.sequence + 1
        /\ next.effective_epoch >= current.effective_epoch
        /\ LastRecord(h, next.identity_id).action # "deregister_identity"
        /\ ActionAllowed(r.action, next, current)

TransitionAllowed(h, r) ==
    LET next == r.next_descriptor
        current == latest(h, next.identity_id)
    IN  /\ Registered(h, next.identity_id)
        /\ r.previous_descriptor_hash = hash_identity_descriptor(current)
        /\ current.sequence # U64Max
        /\ next.sequence = current.sequence + 1
        /\ next.effective_epoch > current.effective_epoch
        /\ LastRecord(h, next.identity_id).action # "deregister_identity"
        /\ ActionAllowed(r.action, next, current)

\* The end of the half-open interval in which record k of a history counts.
EndOf(rs, k) ==
    LET expiry == rs[k].next_descriptor.expiry_epoch
        successor == rs[k + 1].next_descriptor.effective_epoch
    IN  IF k < Len(rs) /\ successor < expiry THEN successor ELSE expiry

\* Mutant: only the last record of the other identities is looked at.
ServiceKeyFreeOfLatest(h, next) ==
    \A i \in DOMAIN h : h[i].identity_id # next.identity_id =>
        LET k == Len(h[i].records)
            existing == h[i].records[k]
        IN  \/ existing.action = "deregister_identity"
            \/ existing.next_descriptor.service_public_key # next.service_public_key
            \/ next.effective_epoch >= EndOf(h[i].records, k)
            \/ existing.next_descriptor.effective_epoch >= next.expiry_epoch

ServiceKeyFree(h, next) ==
    \A i \in DOMAIN h : h[i].identity_id # next.identity_id =>
        \A k \in DOMAIN h[i].records :
            LET existing == h[i].records[k]
            IN  \/ existing.action = "deregister_identity"
                \/ existing.next_descriptor.service_public_key # next.service_public_key
                \/ next.effective_epoch >= EndOf(h[i].records, k)
                \/ existing.next_descriptor.effective_epoch >= next.expiry_epoch

\* The record is appended to the registry.
Accepts(h, r, authentic, inclusion_epoch, minimum_effective_epoch) ==
    /\ authentic
    /\ StructureValid(r)
    /\ NotRetroactive(r, inclusion_epoch, minimum_effective_epoch)
    /\ RegistrationAllowed(h, r) \/ TransitionAllowed(h, r)
    /\ r.action = "deregister_identity" \/ ServiceKeyFree(h, r.next_descriptor)
    /\ ~ Duplicate(h, r)

\* The record is stored already and is accepted without effect.
AcceptsDuplicate(h, r, authentic, inclusion_epoch, minimum_effective_epoch) ==
    /\ authentic
    /\ StructureValid(r)
    /\ NotRetroactive(r, inclusion_epoch, minimum_effective_epoch)
    /\ Duplicate(h, r)

PushRecord(h, r) ==
    LET id == r.next_descriptor.identity_id
    IN  IF r.action = "register_identity"
        THEN Append(h, [identity_id |-> id, records |-> <<r>>])
        ELSE [h EXCEPT ![HistoryIndex(h, id)].records = Append(@, r)]

=============================================================================
