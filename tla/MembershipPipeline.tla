------------------------- MODULE MembershipPipeline -------------------------
(***************************************************************************)
(* The membership pipeline of EPoSE v2 (membership_pipeline_v2): admission *)
(* leases for an epoch, the snapshot of its members frozen at the anchor   *)
(* block, receipts of the verifier committees, and the qualification set   *)
(* closed at the evidence deadline.                                        *)
(*                                                                         *)
(* Leases and receipts are sequences, as in the code, because the undo     *)
(* journal names them by position.  Snapshots and qualification sets are   *)
(* maps keyed by epoch in the code; here they are sets of records, each    *)
(* with its epoch.  A hash stands for the fields it commits to.            *)
(***************************************************************************)
EXTENDS LifecycleRegistry, ReceiptWindow, FiniteSets

CONSTANTS
    committee_size,         \* verifiers of one subject in one round
    rounds_required,        \* rounds a member must pass to qualify
    max_active_population,  \* leases that one epoch can take
    BlockHash,              \* hashes of blocks
    Nonce,                  \* what tells two valid proofs for one slot apart
    Score(_, _, _, _)       \* the rank that the selection hash gives a verifier

\* committee_policy_v2::valid and the constructor of the pipeline.
ASSUME CommitteeAssumption ==
    /\ committee_size \in Nat \ {0}
    /\ max_active_population \in Nat
    /\ max_active_population >= committee_size
    /\ round_offsets \in Seq(Nat)
    /\ rounds_required \in 1..round_count
    /\ round_offsets[1] = 0
    /\ \A i \in 1..(round_count - 1) : round_offsets[i] < round_offsets[i + 1]
    /\ round_offsets[round_count] < epoch_length - anchor_depth

required_receipts(n) == n - n \div 3

-----------------------------------------------------------------------------
(* Canonical context: the hashes of the blocks below the one being applied. *)

block_hash(chain, height) == chain[height + 1]

HasBlock(chain, height) == height # None /\ height < Len(chain)

-----------------------------------------------------------------------------
(* Data *)

\* frozen_member_v2 of the descriptor that authorizes it.
MemberOf(d) ==
    [identity_id |-> d.identity_id,
     service_public_key |-> d.service_public_key,
     descriptor_hash |-> hash_identity_descriptor(d),
     binding |-> d.binding,
     sequence |-> d.sequence]

Members ==
    [identity_id : Identity, service_public_key : ServiceKey,
     descriptor_hash : DescriptorHashes, binding : Binding, sequence : U64]

Leases ==
    [member : Members, target_epoch : U64,
     admission_context_hash : BlockHash, nonce : Nonce]

Snapshots == [epoch : U64, anchor_hash : BlockHash, members : SUBSET Members]

Receipts ==
    [epoch : U64, round : Rounds, subject : ServiceKey, verifier : ServiceKey,
     snapshot_hash : Snapshots, anchor_hash : BlockHash,
     binding : Binding, nonce : Nonce]

\* What the pipeline keeps of a receipt.
StoredReceipts == [receipt_hash : Receipts, inclusion_height : U64]

StoredLeases == [lease : Leases, inclusion_height : U64]

Qualifications ==
    [epoch : U64, snapshot_hash : Snapshots, qualified_nodes : SUBSET ServiceKey]

EpochsOf(S) == {s.epoch : s \in S}

OfEpoch(S, epoch) == CHOOSE s \in S : s.epoch = epoch

EntriesOf(seq) == {seq[i] : i \in DOMAIN seq}

-----------------------------------------------------------------------------
(* apply_admission *)

AdmissionTimely(lease, height) ==
    LET context == epoch_start(lease.target_epoch - 1)
    IN  /\ first_service_epoch # None
        /\ lease.target_epoch >= first_service_epoch
        /\ context # None
        /\ context < height
        /\ enrollment_cutoff(lease.target_epoch) # None
        /\ height <= enrollment_cutoff(lease.target_epoch)

KeyLeasedByOther(leases, lease) ==
    \E s \in EntriesOf(leases) :
        /\ s.lease.target_epoch = lease.target_epoch
        /\ s.lease.member.identity_id # lease.member.identity_id
        /\ s.lease.member.service_public_key = lease.member.service_public_key

\* The positions of the leases of this identity for this epoch.
SameSlot(leases, lease) ==
    {i \in DOMAIN leases :
        /\ leases[i].lease.target_epoch = lease.target_epoch
        /\ leases[i].lease.member.identity_id = lease.member.identity_id}

SlotIndex(leases, lease) ==
    CHOOSE i \in SameSlot(leases, lease) : \A j \in SameSlot(leases, lease) : i <= j

EpochPopulation(leases, epoch) ==
    Cardinality({i \in DOMAIN leases : leases[i].lease.target_epoch = epoch})

AdmissionChecked(leases, snapshots, lease, height) ==
    /\ AdmissionTimely(lease, height)
    /\ lease.target_epoch \notin EpochsOf(snapshots)
    /\ ~ KeyLeasedByOther(leases, lease)

\* Mutant: one lease more than the ceiling.
AdmissionAppendsAtCeiling(leases, lease) ==
    /\ SameSlot(leases, lease) = {}
    /\ EpochPopulation(leases, lease.target_epoch) <= max_active_population

\* Mutant: a second lease of the identity is appended.
AdmissionAppendsAgain(leases, lease) ==
    EpochPopulation(leases, lease.target_epoch) < max_active_population

AdmissionAppends(leases, lease) ==
    /\ SameSlot(leases, lease) = {}
    /\ EpochPopulation(leases, lease.target_epoch) < max_active_population

\* A lease for a newer descriptor of the identity takes the place of the old one.
AdmissionReplaces(leases, lease) ==
    /\ SameSlot(leases, lease) # {}
    /\ lease.member.sequence > leases[SlotIndex(leases, lease)].lease.member.sequence

AdmissionDuplicate(leases, lease) ==
    /\ SameSlot(leases, lease) # {}
    /\ leases[SlotIndex(leases, lease)].lease = lease

-----------------------------------------------------------------------------
(* freeze_membership *)

\* The positions of the leases that enter the snapshot of an epoch.
Eligible(leases, authorized, epoch) ==
    {i \in DOMAIN leases :
        /\ leases[i].lease.target_epoch = epoch
        /\ leases[i].inclusion_height <= enrollment_cutoff(epoch)
        /\ leases[i].lease.member \in authorized}

FreezeAllowed(leases, snapshots, authorized, epoch, height) ==
    LET eligible == Eligible(leases, authorized, epoch)
    IN  /\ epoch \notin EpochsOf(snapshots)
        /\ first_service_epoch # None
        /\ epoch >= first_service_epoch
        /\ enrollment_cutoff(epoch) # None
        /\ height = committee_anchor(epoch)
        /\ \A i, j \in eligible :
              \/ leases[i].lease.member.identity_id = leases[j].lease.member.identity_id
              \/ leases[i].lease.member.service_public_key
                   = leases[j].lease.member.service_public_key
              => i = j
        /\ Cardinality(eligible) <= max_active_population

Frozen(leases, authorized, epoch, anchor_hash) ==
    [epoch |-> epoch, anchor_hash |-> anchor_hash,
     members |-> {leases[i].lease.member : i \in Eligible(leases, authorized, epoch)}]

KeysOf(snapshot) == {m.service_public_key : m \in snapshot.members}

-----------------------------------------------------------------------------
(* committee and apply_authenticated_receipt *)

\* The verifiers of lowest rank, never the subject itself.
committee(snapshot, round, subject, anchor_hash) ==
    LET candidates == KeysOf(snapshot) \ {subject}
        rank(key) == Score(subject, round, anchor_hash, key)
    IN  IF \/ round \notin Rounds
           \/ round = 0 /\ anchor_hash # snapshot.anchor_hash
           \/ subject \notin KeysOf(snapshot)
        THEN {}
        ELSE {c \in candidates :
                Cardinality({d \in candidates : rank(d) < rank(c)}) < committee_size}

ReceiptChecked(snapshots, r, height, chain) ==
    LET snapshot == OfEpoch(snapshots, r.epoch)
        anchor == round_anchor_height(r.epoch, r.round)
    IN  /\ HasBlock(chain, anchor)
        /\ r.epoch \in EpochsOf(snapshots)
        /\ r.snapshot_hash = snapshot
        /\ r.anchor_hash = block_hash(chain, anchor)
        /\ r.round = 0 => r.anchor_hash = snapshot.anchor_hash
        /\ InWindow(r.epoch, r.round, height)
        /\ \E m \in snapshot.members :
              m.service_public_key = r.subject /\ m.binding = r.binding
        /\ r.verifier \in committee(snapshot, r.round, r.subject, r.anchor_hash)

SameReceiptSlot(r, q) ==
    /\ r.epoch = q.epoch
    /\ r.round = q.round
    /\ r.subject = q.subject
    /\ r.verifier = q.verifier

\* Mutant: a slot can be filled again.
ReceiptAppendsAgain(receipts, qualifications, r) ==
    r.epoch \notin EpochsOf(qualifications)

ReceiptAppends(receipts, qualifications, r) ==
    /\ \A s \in EntriesOf(receipts) : ~ SameReceiptSlot(s.receipt_hash, r)
    /\ r.epoch \notin EpochsOf(qualifications)

ReceiptDuplicate(receipts, r) ==
    \E s \in EntriesOf(receipts) : s.receipt_hash = r

-----------------------------------------------------------------------------
(* close_qualification *)

CloseAllowed(snapshots, qualifications, epoch, height) ==
    /\ epoch \notin EpochsOf(qualifications)
    /\ epoch \in EpochsOf(snapshots)
    /\ evidence_deadline(epoch) # None
    /\ height = evidence_deadline(epoch)

Voters(receipts, epoch, round, subject) ==
    {s.receipt_hash.verifier : s \in {t \in EntriesOf(receipts) :
        /\ t.receipt_hash.epoch = epoch
        /\ t.receipt_hash.round = round
        /\ t.receipt_hash.subject = subject}}

ActualCommitteeSize(snapshot) ==
    LET others == Cardinality(snapshot.members) - 1
    IN  IF others < committee_size THEN others ELSE committee_size

PassingRounds(receipts, snapshot, subject) ==
    {round \in Rounds :
        Cardinality(Voters(receipts, snapshot.epoch, round, subject))
            >= required_receipts(ActualCommitteeSize(snapshot))}

\* An epoch with at most one member qualifies nobody.
Closed(receipts, snapshot) ==
    [epoch |-> snapshot.epoch,
     snapshot_hash |-> snapshot,
     qualified_nodes |->
        IF Cardinality(snapshot.members) <= 1 THEN {}
        ELSE {key \in KeysOf(snapshot) :
                Cardinality(PassingRounds(receipts, snapshot, key)) >= rounds_required}]

=============================================================================
