------------------------- MODULE MCBlockTransition -------------------------
(***************************************************************************)
(* The block transition for TLC.  The records of a block are drawn from    *)
(* what the registry, the snapshots and the chain make plausible; the      *)
(* blocks that hold records, the records in all and the height of the      *)
(* chain are bounded.                                                      *)
(***************************************************************************)
EXTENDS BlockTransitionHistory, FiniteSetsExt, TLC

CONSTANTS
    MaxHeight,          \* of the chain
    MaxRecords,         \* in the state at one time
    RegistryHeights,    \* of the blocks with lifecycle records
    LeaseHeights,       \* of the blocks with leases
    ReceiptHeights,     \* of the blocks with receipts
    ForkHeights,        \* at which there are two versions of a block
    EffectiveEpochs,    \* of the descriptors
    Lifetimes,          \* of the descriptors, in epochs
    KeysOfIdentity,     \* the service keys that an identity ever uses
    RegisteredBefore,   \* pairs of identities that register and lease in this order
    Subjects,           \* the members that receipts are about
    LeaseNonces         \* the proofs of work that leases carry

OneRound == <<0>>

TwoRounds == <<0, 1>>

AnyKey == [id \in Identity |-> ServiceKey]

OwnKey == [id \in Identity |-> {id}]

AnyOrder == {}

NumberOrder == {p \in Identity \X Identity : p[1] < p[2]}

MCBlockHash == (0..MaxHeight) \X {1, 2}

MCScore(subject, round, anchor_hash, key) ==
    (key + round + anchor_hash[2]) % Cardinality(ServiceKey)

Symmetry == Permutations(Identity)

-----------------------------------------------------------------------------

CandidateIds ==
    IF Height > MaxHeight THEN {}
    ELSE {Height} \X (IF Height \in ForkHeights THEN {1, 2} ELSE {1})

RecordCount ==
    Len(state.leases) + Len(state.receipts)
      + MapThenSumSet(LAMBDA i : Len(state.histories[i].records), DOMAIN state.histories)

Admits(heights) == pc = "transaction" /\ Height \in heights /\ RecordCount < MaxRecords

NextHash(id) ==
    LET d == latest(state.histories, id)
    IN  IF d = NullDescriptor THEN NullHash ELSE hash_identity_descriptor(d)

NextSequence(id) ==
    LET d == latest(state.histories, id)
    IN  IF d = NullDescriptor THEN 0 ELSE d.sequence + 1

DescriptorsOf(id, effective) ==
    [identity_id : {id}, service_public_key : KeysOfIdentity[id], binding : Binding,
     sequence : {NextSequence(id)},
     effective_epoch : {effective}, expiry_epoch : {effective + l : l \in Lifetimes}]

InOrder(id, known) == \A p \in RegisteredBefore : p[2] = id => p[1] \in known

CandidateRecords ==
    IF ~ Admits(RegistryHeights) THEN {}
    ELSE UNION {[action : Actions, previous_descriptor_hash : {NextHash(id)},
                 next_descriptor : DescriptorsOf(id, effective)] :
                id \in {i \in Identity :
                            InOrder(i, {h.identity_id : h \in EntriesOf(state.histories)})},
                effective \in EffectiveEpochs}

CandidateLeases ==
    IF ~ Admits(LeaseHeights) THEN {}
    ELSE UNION {[member : {m \in AuthorizedMembers(state.histories, epoch) :
                            InOrder(m.identity_id, {s.lease.member.identity_id :
                                                    s \in EntriesOf(state.leases)})},
                 target_epoch : {epoch},
                 admission_context_hash : {epoch_start(epoch - 1)} \X {1, 2},
                 nonce : LeaseNonces] : epoch \in EffectiveEpochs}

CandidateReceipts ==
    IF ~ Admits(ReceiptHeights) THEN {}
    ELSE UNION {[epoch : {s.epoch}, round : Rounds, subject : Subjects, verifier : KeysOf(s),
                 snapshot_hash : {s}, anchor_hash : EntriesOf(chain), binding : Binding,
                 nonce : Nonce] : s \in state.snapshots}

MCNext == HistoryStep(CandidateIds, CandidateRecords, CandidateLeases, CandidateReceipts)

MCSpec == HistoryInit /\ [][MCNext]_historyVars

=============================================================================
