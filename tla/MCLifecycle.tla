---------------------------- MODULE MCLifecycle ----------------------------
(***************************************************************************)
(* Lifecycle for TLC.  Of the many records that apply refuses, those are   *)
(* tried whose sequence and previous hash come from the registry (right,   *)
(* stale, or those of a registration), that take effect in the current     *)
(* epoch or later, and that expire after the last cutoff.  The records it  *)
(* accepts are all here, but for those of the last epoch: an expiry is     *)
(* exclusive, so a descriptor from there on covers no epoch.               *)
(***************************************************************************)
EXTENDS Lifecycle, FiniteSetsExt, TLC

CONSTANT MaxRecords     \* records in all histories together

Symmetry == Permutations(Identity) \cup Permutations(ServiceKey)

StoredDescriptors(id) ==
    IF Registered(histories, id)
    THEN {RecordsOf(histories, id)[k].next_descriptor : k \in DOMAIN RecordsOf(histories, id)}
    ELSE {}

Candidates ==
    UNION {[action : Actions,
            previous_descriptor_hash :
                {NullHash} \cup {hash_identity_descriptor(d) : d \in StoredDescriptors(id)},
            next_descriptor :
                [identity_id : {id}, service_public_key : ServiceKey, binding : Binding,
                 sequence : {0, Cardinality(StoredDescriptors(id))},
                 effective_epoch : this_epoch..(U64Max - 1),
                 expiry_epoch : earliest_epoch..U64Max]] : id \in Identity}

RecordCount == MapThenSumSet(LAMBDA i : Len(histories[i].records), DOMAIN histories)

\* With the last record the clock stops too: nothing is left that depends on it.
MCNext ==
    /\ RecordCount < MaxRecords
    /\ \/ \E r \in Candidates, authentic \in BOOLEAN : Apply(r, authentic)
       \/ PassCutoff
       \/ EnterEpoch

MCSpec == Init /\ [][MCNext]_vars

=============================================================================
