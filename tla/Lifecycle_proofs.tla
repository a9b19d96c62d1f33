-------------------------- MODULE Lifecycle_proofs --------------------------
(***************************************************************************)
(* Proofs about the identity registry, for any number of identities, keys  *)
(* and epochs.                                                             *)
(***************************************************************************)
EXTENDS Lifecycle, SemanticState_proofs

\* Record k of rs and record m of qs do not hold the same key in the same epoch.
Apart(rs, k, qs, m) ==
    \/ rs[k].action = "deregister_identity"
    \/ qs[m].action = "deregister_identity"
    \/ rs[k].next_descriptor.service_public_key # qs[m].next_descriptor.service_public_key
    \/ EndOf(rs, k) <= qs[m].next_descriptor.effective_epoch
    \/ EndOf(qs, m) <= rs[k].next_descriptor.effective_epoch

\* The intervals in which two identities hold one key are disjoint.
KeysDisjoint(h) ==
    \A i, j \in DOMAIN h : i # j =>
        \A k \in DOMAIN h[i].records, m \in DOMAIN h[j].records :
            Apart(h[i].records, k, h[j].records, m)

\* A history goes forward in time and ends with a deregistration if it has one.
GoesForward(rs) ==
    \A j, k \in DOMAIN rs : j < k =>
        /\ rs[j].action # "deregister_identity"
        /\ rs[j].next_descriptor.effective_epoch < rs[k].next_descriptor.effective_epoch

AllGoForward(h) == \A i \in DOMAIN h : GoesForward(h[i].records)

IInv ==
    /\ TypeOK
    /\ DistinctIds(histories)
    /\ DescriptorChain
    /\ AllGoForward(histories)
    /\ KeysDisjoint(histories)

-----------------------------------------------------------------------------
(* A step preserves the invariant *)

\* A registration keeps the keys of two identities apart.
LEMMA RegistrationKeepsInv ==
    ASSUME IInv, NEW r \in Records, NEW authentic \in BOOLEAN,
           Apply(r, authentic), r.action = "register_identity"
    PROVE  IInv'
<1> DEFINE h == histories
           g == PushRecord(histories, r)
           n == Len(histories) + 1
           id == r.next_descriptor.identity_id
<1>1. /\ histories' = g
      /\ RegistrationAllowed(h, r)
      /\ ServiceKeyFree(h, r.next_descriptor)
      /\ h \in Histories
      /\ id \in Identity
      /\ UNCHANGED <<this_epoch, earliest_epoch>>
  BY DEF Apply, Accepts, IInv, TypeOK, TransitionAllowed, ActionAllowed, Records, Descriptors
<1>2. /\ g \in Histories
      /\ DOMAIN g = DOMAIN h \cup {n}
      /\ n \notin DOMAIN h
      /\ \A j \in DOMAIN h : g[j] = h[j]
      /\ g[n] = [identity_id |-> id, records |-> <<r>>]
  <2>1. /\ g \in Histories
        /\ Len(g) = Len(h) + 1
        /\ \A j \in DOMAIN h : g[j] = h[j]
        /\ g[n] = [identity_id |-> id, records |-> <<r>>]
    BY <1>1, PushRegistration
  <2>2. DOMAIN g = 1..Len(g) /\ DOMAIN h = 1..Len(h) /\ Len(h) \in Nat
    BY <1>1, <2>1 DEF Histories
  <2> QED
    BY <2>1, <2>2
<1>3. ~ Registered(h, id)
  BY <1>1 DEF RegistrationAllowed
<1> HIDE DEF g, h, n
<1>4. TypeOK'
  BY <1>1, <1>2 DEF IInv, TypeOK, h
<1>5. DistinctIds(g)
  BY <1>2, <1>3 DEF IInv, DistinctIds, Registered, h
<1>6. DescriptorChain'
  <2> SUFFICES ASSUME NEW i \in DOMAIN g, NEW k \in DOMAIN g[i].records
               PROVE  /\ g[i].records[k].next_descriptor.identity_id = g[i].identity_id
                      /\ g[i].records[k].next_descriptor.sequence = k - 1
                      /\ k > 1 =>
                            /\ g[i].records[k].previous_descriptor_hash
                                 = hash_identity_descriptor(g[i].records[k - 1].next_descriptor)
                            /\ g[i].records[k].next_descriptor.effective_epoch
                                 > g[i].records[k - 1].next_descriptor.effective_epoch
    BY <1>1 DEF DescriptorChain
  <2>1. CASE i \in DOMAIN h
    BY <1>2, <2>1 DEF IInv, DescriptorChain, h
  <2>2. CASE i = n
    <3>1. g[i].records = <<r>> /\ g[i].identity_id = id
      BY <1>2, <2>2
    <3>2. k = 1
      BY <3>1
    <3> QED
      BY <1>1, <3>1, <3>2 DEF RegistrationAllowed
  <2> QED
    BY <1>2, <2>1, <2>2
<1>7. \A j \in DOMAIN h : \A m \in DOMAIN h[j].records :
          Apart(<<r>>, 1, h[j].records, m) /\ Apart(h[j].records, m, <<r>>, 1)
  <2> SUFFICES ASSUME NEW j \in DOMAIN h, NEW m \in DOMAIN h[j].records
               PROVE  Apart(<<r>>, 1, h[j].records, m) /\ Apart(h[j].records, m, <<r>>, 1)
    OBVIOUS
  <2>1. h[j].identity_id # id
    BY <1>3 DEF Registered
  <2>2. EndOf(<<r>>, 1) = r.next_descriptor.expiry_epoch
    <3>1. Len(<<r>>) = 1 /\ <<r>>[1] = r
      OBVIOUS
    <3> QED
      BY <3>1 DEF EndOf
  <2>3. \/ h[j].records[m].action = "deregister_identity"
        \/ h[j].records[m].next_descriptor.service_public_key
              # r.next_descriptor.service_public_key
        \/ r.next_descriptor.effective_epoch >= EndOf(h[j].records, m)
        \/ h[j].records[m].next_descriptor.effective_epoch >= r.next_descriptor.expiry_epoch
    BY <1>1, <2>1 DEF ServiceKeyFree
  <2>4. /\ EndOf(h[j].records, m) \in Int
        /\ h[j].records[m].next_descriptor.effective_epoch \in Int
        /\ r.next_descriptor.effective_epoch \in Int
        /\ r.next_descriptor.expiry_epoch \in Int
    <3>1. h[j].records \in Seq(Records)
      BY <1>1, HistoryType
    <3>2. <<r>> \in Seq(Records) /\ 1 \in DOMAIN <<r>> /\ <<r>>[1] = r
      OBVIOUS
    <3> QED
      BY <3>1, <3>2, EndOfAppend, RecordType
  <2> QED
    BY <2>2, <2>3, <2>4 DEF Apart
<1>8. KeysDisjoint(g)
  <2> SUFFICES ASSUME NEW i \in DOMAIN g, NEW j \in DOMAIN g, i # j,
                      NEW k \in DOMAIN g[i].records, NEW m \in DOMAIN g[j].records
               PROVE  Apart(g[i].records, k, g[j].records, m)
    BY DEF KeysDisjoint
  <2>1. CASE i \in DOMAIN h /\ j \in DOMAIN h
    BY <1>2, <2>1 DEF IInv, KeysDisjoint, h
  <2>2. CASE i = n
    <3>1. j \in DOMAIN h /\ g[i].records = <<r>> /\ k = 1
      BY <1>2, <2>2
    <3> QED
      BY <1>2, <1>7, <3>1
  <2>3. CASE j = n
    <3>1. i \in DOMAIN h /\ g[j].records = <<r>> /\ m = 1
      BY <1>2, <2>3
    <3> QED
      BY <1>2, <1>7, <3>1
  <2> QED
    BY <1>2, <2>1, <2>2, <2>3
<1>9. AllGoForward(g)
  <2> SUFFICES ASSUME NEW i \in DOMAIN g PROVE GoesForward(g[i].records)
    BY DEF AllGoForward
  <2>1. CASE i \in DOMAIN h
    BY <1>2, <2>1 DEF IInv, AllGoForward, h
  <2>2. CASE i = n
    <3>1. DOMAIN g[i].records = {1}
      BY <1>2, <2>2
    <3> QED
      BY <3>1 DEF GoesForward
  <2> QED
    BY <1>2, <2>1, <2>2
<1> QED
  BY <1>1, <1>4, <1>5, <1>6, <1>8, <1>9 DEF IInv

\* A record on an existing identity keeps the keys of two identities apart.
LEMMA TransitionKeepsInv ==
    ASSUME IInv, NEW r \in Records, NEW authentic \in BOOLEAN,
           Apply(r, authentic), r.action # "register_identity"
    PROVE  IInv'
<1> DEFINE h == histories
           g == PushRecord(histories, r)
           id == r.next_descriptor.identity_id
           a == HistoryIndex(histories, r.next_descriptor.identity_id)
           rs == h[a].records
           qs == Append(rs, r)
           n == Len(rs)
<1>1. /\ histories' = g
      /\ TransitionAllowed(h, r)
      /\ Registered(h, id)
      /\ r.action = "deregister_identity" \/ ServiceKeyFree(h, r.next_descriptor)
      /\ h \in Histories
      /\ DistinctIds(h)
      /\ UNCHANGED <<this_epoch, earliest_epoch>>
  BY DEF Apply, Accepts, IInv, TypeOK, TransitionAllowed, RegistrationAllowed
<1>2. /\ g \in Histories
      /\ a \in DOMAIN h
      /\ h[a].identity_id = id
      /\ DOMAIN g = DOMAIN h
      /\ \A j \in DOMAIN h : j # a => g[j] = h[j]
      /\ g[a].identity_id = id
      /\ g[a].records = qs
  BY <1>1, PushTransition
<1>3. /\ rs \in Seq(Records)
      /\ n \in Nat \ {0}
      /\ n \in DOMAIN rs
      /\ qs \in Seq(Records)
      /\ DOMAIN qs = 1..(n + 1)
      /\ DOMAIN rs = 1..n
      /\ \A k \in 1..n : qs[k] = rs[k]
      /\ qs[n + 1] = r
      /\ Len(qs) = n + 1
  <2>1. rs \in Seq(Records) /\ rs # <<>>
    BY <1>1, <1>2, HistoryType
  <2> HIDE DEF rs
  <2> QED
    BY <2>1
<1>4. /\ r.previous_descriptor_hash = hash_identity_descriptor(rs[n].next_descriptor)
      /\ r.next_descriptor.sequence = rs[n].next_descriptor.sequence + 1
      /\ r.next_descriptor.effective_epoch > rs[n].next_descriptor.effective_epoch
      /\ rs[n].action # "deregister_identity"
  BY <1>1 DEF TransitionAllowed, latest, LastRecord, RecordsOf
<1> HIDE DEF g, h, a, rs, qs, n
<1>5. TypeOK'
  BY <1>1, <1>2 DEF IInv, TypeOK
<1>6. DistinctIds(g)
  BY <1>1, <1>2 DEF DistinctIds
<1>7. DescriptorChain'
  <2> SUFFICES ASSUME NEW i \in DOMAIN g, NEW k \in DOMAIN g[i].records
               PROVE  /\ g[i].records[k].next_descriptor.identity_id = g[i].identity_id
                      /\ g[i].records[k].next_descriptor.sequence = k - 1
                      /\ k > 1 =>
                            /\ g[i].records[k].previous_descriptor_hash
                                 = hash_identity_descriptor(g[i].records[k - 1].next_descriptor)
                            /\ g[i].records[k].next_descriptor.effective_epoch
                                 > g[i].records[k - 1].next_descriptor.effective_epoch
    BY <1>1 DEF DescriptorChain
  <2>1. \A l \in 1..n :
            /\ rs[l].next_descriptor.identity_id = id
            /\ rs[l].next_descriptor.sequence = l - 1
            /\ l > 1 =>
                  /\ rs[l].previous_descriptor_hash
                       = hash_identity_descriptor(rs[l - 1].next_descriptor)
                  /\ rs[l].next_descriptor.effective_epoch
                       > rs[l - 1].next_descriptor.effective_epoch
    BY <1>2, <1>3 DEF IInv, DescriptorChain, h, rs
  <2>2. CASE i # a
    BY <1>2, <2>2 DEF IInv, DescriptorChain, h
  <2>3. CASE i = a /\ k \in 1..n
    <3>1. g[i].records = qs /\ g[i].identity_id = id /\ qs[k] = rs[k]
      BY <1>2, <1>3, <2>3
    <3>2. k > 1 => k - 1 \in 1..n /\ qs[k - 1] = rs[k - 1]
      BY <1>3, <2>3
    <3> QED
      BY <2>1, <2>3, <3>1, <3>2
  <2>4. CASE i = a /\ k = n + 1
    <3>1. g[i].records = qs /\ g[i].identity_id = id /\ qs[k] = r
      BY <1>2, <1>3, <2>4
    <3>2. k > 1 => n \in 1..n /\ k - 1 = n /\ qs[n] = rs[n]
      BY <1>3, <2>4
    <3>3. k > 1 => rs[n].next_descriptor.sequence = n - 1
      BY <2>1, <3>2
    <3> QED
      BY <1>3, <1>4, <2>4, <3>1, <3>2, <3>3
  <2>5. i = a => k \in 1..n \/ k = n + 1
    BY <1>2, <1>3
  <2> QED
    BY <2>2, <2>3, <2>4, <2>5
<1>8. \A j \in DOMAIN h, k \in DOMAIN qs : j # a =>
          \A m \in DOMAIN h[j].records :
              Apart(qs, k, h[j].records, m) /\ Apart(h[j].records, m, qs, k)
  <2> SUFFICES ASSUME NEW j \in DOMAIN h, NEW k \in DOMAIN qs, j # a,
                      NEW m \in DOMAIN h[j].records
               PROVE  Apart(qs, k, h[j].records, m) /\ Apart(h[j].records, m, qs, k)
    OBVIOUS
  <2> DEFINE os == h[j].records
  <2>1. /\ os \in Seq(Records)
        /\ EndOf(os, m) \in Int
        /\ os[m].next_descriptor.effective_epoch \in Int
        /\ qs[k].next_descriptor.effective_epoch \in Int
        /\ qs[k].next_descriptor.expiry_epoch \in Int
    <3>1. os \in Seq(Records)
      BY <1>1, HistoryType
    <3> QED
      BY <1>3, <3>1, EndOfAppend, RecordType
  <2>2. CASE k \in 1..n
    <3>1. Apart(rs, k, os, m)
      BY <1>2, <1>3, <2>2 DEF IInv, KeysDisjoint, h, rs
    <3>2. /\ EndOf(qs, k) \in Int
          /\ EndOf(rs, k) \in Int
          /\ EndOf(qs, k) <= EndOf(rs, k)
          /\ qs[k] = rs[k]
      BY <1>3, <2>2, EndOfAppend DEF qs, rs
    <3> QED
      BY <2>1, <3>1, <3>2 DEF Apart
  <2>3. CASE k = n + 1
    <3>1. qs[k] = r /\ EndOf(qs, k) = r.next_descriptor.expiry_epoch
      BY <1>3, <2>3 DEF EndOf
    <3>2. h[j].identity_id # id
      BY <1>1, <1>2 DEF DistinctIds
    <3>3. \/ r.action = "deregister_identity"
          \/ os[m].action = "deregister_identity"
          \/ os[m].next_descriptor.service_public_key # r.next_descriptor.service_public_key
          \/ r.next_descriptor.effective_epoch >= EndOf(os, m)
          \/ os[m].next_descriptor.effective_epoch >= r.next_descriptor.expiry_epoch
      BY <1>1, <3>2 DEF ServiceKeyFree
    <3> QED
      BY <2>1, <3>1, <3>3 DEF Apart
  <2> QED
    BY <1>3, <2>2, <2>3
<1>9. KeysDisjoint(g)
  <2> SUFFICES ASSUME NEW i \in DOMAIN g, NEW j \in DOMAIN g, i # j,
                      NEW k \in DOMAIN g[i].records, NEW m \in DOMAIN g[j].records
               PROVE  Apart(g[i].records, k, g[j].records, m)
    BY DEF KeysDisjoint
  <2>1. CASE i # a /\ j # a
    BY <1>2, <2>1 DEF IInv, KeysDisjoint, h
  <2>2. CASE i = a
    BY <1>2, <1>8, <2>2
  <2>3. CASE j = a
    BY <1>2, <1>8, <2>3
  <2> QED
    BY <2>1, <2>2, <2>3
<1>10. AllGoForward(g)
  <2> SUFFICES ASSUME NEW i \in DOMAIN g PROVE GoesForward(g[i].records)
    BY DEF AllGoForward
  <2>1. CASE i # a
    BY <1>2, <2>1 DEF IInv, AllGoForward, h
  <2>2. CASE i = a
    <3> SUFFICES ASSUME NEW j \in DOMAIN qs, NEW k \in DOMAIN qs, j < k
                 PROVE  /\ qs[j].action # "deregister_identity"
                        /\ qs[j].next_descriptor.effective_epoch
                             < qs[k].next_descriptor.effective_epoch
      BY <1>2, <2>2 DEF GoesForward
    <3>1. GoesForward(rs)
      BY <1>2 DEF IInv, AllGoForward, h, rs
    <3>2. /\ j \in 1..n
          /\ k \in 1..n \/ k = n + 1
          /\ qs[j].next_descriptor.effective_epoch \in Int
          /\ rs[n].next_descriptor.effective_epoch \in Int
          /\ r.next_descriptor.effective_epoch \in Int
      BY <1>3, RecordType
    <3>3. CASE k \in 1..n
      BY <1>3, <3>1, <3>2, <3>3 DEF GoesForward
    <3>4. CASE k = n + 1
      <4>1. CASE j = n
        BY <1>3, <1>4, <3>2, <3>4, <4>1
      <4>2. CASE j < n
        <5>1. /\ rs[j].action # "deregister_identity"
              /\ rs[j].next_descriptor.effective_epoch
                   < rs[n].next_descriptor.effective_epoch
          BY <1>3, <3>1, <3>2, <4>2 DEF GoesForward
        <5> QED
          BY <1>3, <1>4, <3>2, <3>4, <5>1
      <4> QED
        BY <1>3, <3>2, <4>1, <4>2
    <3> QED
      BY <3>2, <3>3, <3>4
  <2> QED
    BY <2>1, <2>2
<1> QED
  BY <1>1, <1>5, <1>6, <1>7, <1>9, <1>10 DEF IInv

-----------------------------------------------------------------------------
(* The theorems *)

\* The inductive invariant holds of the empty registry.
LEMMA InitInv == Init => IInv
<1> SUFFICES ASSUME Init PROVE IInv
  OBVIOUS
<1>1. histories \in Histories /\ DOMAIN histories = {}
  BY DEF Init, Histories
<1>2. 0 \in U64 /\ 1 \in U64
  BY TimingAssumption DEF U64
<1> QED
  BY <1>1, <1>2 DEF Init, IInv, TypeOK, DistinctIds, DescriptorChain, AllGoForward, KeysDisjoint

\* Every step of the registry and of its clock preserves it.
LEMMA NextInv == IInv /\ [Next]_vars => IInv'
<1> SUFFICES ASSUME IInv, [Next]_vars PROVE IInv'
  OBVIOUS
<1>1. CASE \E r \in Records, authentic \in BOOLEAN : Apply(r, authentic)
  BY <1>1, RegistrationKeepsInv, TransitionKeepsInv
<1>2. CASE PassCutoff
  BY <1>2, TimingAssumption
  DEF PassCutoff, IInv, TypeOK, DistinctIds, DescriptorChain, AllGoForward, KeysDisjoint, U64
<1>3. CASE EnterEpoch
  BY <1>3, TimingAssumption
  DEF EnterEpoch, IInv, TypeOK, DistinctIds, DescriptorChain, AllGoForward, KeysDisjoint, U64
<1>4. CASE UNCHANGED vars
  BY <1>4 DEF vars, IInv, TypeOK, DistinctIds, DescriptorChain, AllGoForward, KeysDisjoint
<1> QED
  BY <1>1, <1>2, <1>3, <1>4 DEF Next

\* Every reachable registry satisfies the inductive invariant.
THEOREM LifecycleInvariant == Spec => []IInv
BY InitInv, NextInv, PTL DEF Spec

\* The registry and its clock keep their types under every record, whether apply takes
\* it or not.
THEOREM LifecycleTypeOK == Spec => []TypeOK
<1>1. IInv => TypeOK
  BY DEF IInv
<1> QED
  BY <1>1, LifecycleInvariant, PTL

\* Every history is the unbroken chain that lifecycle_registry_v2::apply checks record by
\* record, so the scan for an epoch may stop at the first later one.
THEOREM LifecycleDescriptorChain == Spec => []DescriptorChain
<1>1. IInv => DescriptorChain
  BY DEF IInv
<1> QED
  BY <1>1, LifecycleInvariant, PTL

\* Record k of history i is the descriptor of an identity in an epoch.
HoldsIn(h, i, k, id, epoch) ==
    /\ k \in DOMAIN h[i].records
    /\ h[i].identity_id = id
    /\ descriptor_for_epoch(h, id, epoch) = h[i].records[k].next_descriptor
    /\ h[i].records[k].action # "deregister_identity"
    /\ h[i].records[k].next_descriptor.effective_epoch <= epoch
    /\ epoch < EndOf(h[i].records, k)

\* A descriptor that counts in an epoch is one whose interval contains it.
LEMMA DescriptorInterval ==
    ASSUME NEW h \in Histories, DistinctIds(h), NEW id \in Identity, NEW epoch \in U64,
           descriptor_for_epoch(h, id, epoch) # NullDescriptor
    PROVE  \E i \in DOMAIN h, k \in Nat : HoldsIn(h, i, k, id, epoch)
<1> DEFINE i == HistoryIndex(h, id)
           rs == RecordsOf(h, id)
           governing == {k \in DOMAIN rs : Governs(rs, k, epoch)}
           k == CHOOSE k \in governing : TRUE
<1>1. Registered(h, id) /\ governing # {}
  BY DEF descriptor_for_epoch, GovernedBy
<1>2. i \in DOMAIN h /\ h[i].identity_id = id /\ rs = h[i].records
  BY <1>1, HistoryIndexLemma DEF RecordsOf
<1>3. k \in governing
  BY <1>1
<1>4. descriptor_for_epoch(h, id, epoch) = rs[k].next_descriptor
  BY <1>1 DEF descriptor_for_epoch, GovernedBy
<1> HIDE DEF i, rs, k
<1>5. k \in DOMAIN rs /\ Governs(rs, k, epoch)
  BY <1>3
<1>6. rs \in Seq(Records)
  BY <1>2, HistoryType
<1>7. k \in 1..k /\ k \in Nat
  BY <1>5, <1>6
<1>8. /\ rs[k].action # "deregister_identity"
      /\ rs[k].next_descriptor.effective_epoch <= epoch
      /\ epoch < EndOf(rs, k)
  BY <1>5, <1>7 DEF Governs, ScanStopsAt, EndOf
<1> QED
  BY <1>2, <1>4, <1>5, <1>7, <1>8 DEF HoldsIn

\* Two identities never hold one service key in one epoch: the check against the
\* stored intervals at lifecycle_v2.cpp:358 is enough for all later registries,
\* for any number of identities, keys and epochs.
THEOREM LifecycleUniqueServiceKey == Spec => []UniqueServiceKey
<1>1. IInv => UniqueServiceKey
  <2> SUFFICES ASSUME IInv, NEW i \in Identity, NEW j \in Identity, NEW epoch \in U64,
                      i # j,
                      descriptor_for_epoch(histories, i, epoch) # NullDescriptor,
                      descriptor_for_epoch(histories, j, epoch) # NullDescriptor
               PROVE  descriptor_for_epoch(histories, i, epoch).service_public_key
                        # descriptor_for_epoch(histories, j, epoch).service_public_key
    BY DEF UniqueServiceKey
  <2>1. histories \in Histories /\ DistinctIds(histories) /\ KeysDisjoint(histories)
    BY DEF IInv, TypeOK
  <2>2. PICK a \in DOMAIN histories, k \in Nat : HoldsIn(histories, a, k, i, epoch)
    BY <2>1, DescriptorInterval
  <2>3. PICK b \in DOMAIN histories, m \in Nat : HoldsIn(histories, b, m, j, epoch)
    BY <2>1, DescriptorInterval
  <2> DEFINE rs == histories[a].records
             qs == histories[b].records
  <2>4. Apart(rs, k, qs, m)
    BY <2>1, <2>2, <2>3 DEF KeysDisjoint, HoldsIn
  <2>5. rs \in Seq(Records) /\ qs \in Seq(Records) /\ k \in DOMAIN rs /\ m \in DOMAIN qs
    BY <2>1, <2>2, <2>3, HistoryType DEF HoldsIn
  <2>6. /\ rs[k].next_descriptor.effective_epoch <= epoch
        /\ epoch < EndOf(rs, k)
        /\ qs[m].next_descriptor.effective_epoch <= epoch
        /\ epoch < EndOf(qs, m)
        /\ rs[k].action # "deregister_identity"
        /\ qs[m].action # "deregister_identity"
    BY <2>2, <2>3 DEF HoldsIn
  <2> HIDE DEF rs, qs
  <2>7. /\ EndOf(rs, k) \in Int
        /\ EndOf(qs, m) \in Int
        /\ rs[k].next_descriptor.effective_epoch \in Int
        /\ qs[m].next_descriptor.effective_epoch \in Int
        /\ epoch \in Int
    BY <2>5, EndOfType, RecordType DEF U64
  <2>8. rs[k].next_descriptor.service_public_key # qs[m].next_descriptor.service_public_key
    BY <2>4, <2>6, <2>7 DEF Apart
  <2> QED
    BY <2>2, <2>3, <2>8 DEF HoldsIn, rs, qs
<1> QED
  BY <1>1, LifecycleInvariant, PTL

\* An identity that has deregistered has no descriptor from that epoch on: no
\* record can follow a deregistration (lifecycle_v2.cpp:332), and no earlier one
\* reaches past it.
THEOREM LifecycleDeregisteredStaysOut == Spec => []DeregisteredStaysOut
<1>1. IInv => DeregisteredStaysOut
  <2> SUFFICES ASSUME IInv, NEW i \in DOMAIN histories,
                      NEW k \in DOMAIN histories[i].records, NEW epoch \in U64,
                      histories[i].records[k].action = "deregister_identity",
                      histories[i].records[k].next_descriptor.effective_epoch <= epoch,
                      descriptor_for_epoch(histories, histories[i].identity_id, epoch)
                        # NullDescriptor
               PROVE  FALSE
    BY DEF DeregisteredStaysOut
  <2> DEFINE rs == histories[i].records
  <2>1. histories \in Histories /\ DistinctIds(histories) /\ GoesForward(rs)
    BY DEF IInv, TypeOK, AllGoForward
  <2>2. histories[i].identity_id \in Identity /\ rs \in Seq(Records)
    BY <2>1, HistoryType
  <2>3. PICK a \in DOMAIN histories, m \in Nat :
            HoldsIn(histories, a, m, histories[i].identity_id, epoch)
    BY <2>1, <2>2, DescriptorInterval
  <2>4. a = i
    BY <2>1, <2>3 DEF HoldsIn, DistinctIds
  <2>5. /\ m \in DOMAIN rs
        /\ rs[m].action # "deregister_identity"
        /\ epoch < EndOf(rs, m)
    BY <2>3, <2>4 DEF HoldsIn
  <2> HIDE DEF rs
  <2>6. k \in DOMAIN rs /\ rs[k].action = "deregister_identity"
    BY DEF rs
  <2>7. k \in Int /\ m \in Int /\ DOMAIN rs = 1..Len(rs) /\ Len(rs) \in Nat
    BY <2>2, <2>5, <2>6
  <2>8. m < k
    BY <2>1, <2>5, <2>6, <2>7 DEF GoesForward
  <2>9. m + 1 = k
    <3>1. m + 1 \in DOMAIN rs
      BY <2>5, <2>6, <2>7, <2>8
    <3>2. ~ (m + 1 < k)
      <4>1. SUFFICES ASSUME m + 1 < k PROVE FALSE
        OBVIOUS
      <4>2. rs[m + 1].next_descriptor.effective_epoch <= epoch
        <5>1. rs[m + 1].next_descriptor.effective_epoch < rs[k].next_descriptor.effective_epoch
          BY <2>1, <2>6, <3>1, <4>1 DEF GoesForward
        <5>2. /\ rs[m + 1].next_descriptor.effective_epoch \in Int
              /\ rs[k].next_descriptor.effective_epoch \in Int
              /\ rs[k].next_descriptor.effective_epoch <= epoch
              /\ epoch \in Int
          BY <2>2, <2>6, <3>1, RecordType DEF rs, U64
        <5> QED
          BY <5>1, <5>2
      <4> QED
        BY <2>2, <2>5, <2>6, <2>7, <2>8, <3>1, <4>2, RecordType DEF EndOf, U64
    <3> QED
      BY <2>7, <2>8, <3>2
  <2>10. rs[k].next_descriptor.effective_epoch <= epoch
    BY DEF rs
  <2> QED
    BY <2>2, <2>5, <2>6, <2>7, <2>9, <2>10, RecordType DEF EndOf, U64
<1> QED
  BY <1>1, LifecycleInvariant, PTL

-----------------------------------------------------------------------------
(* What a step may not change *)

\* No epoch before the first one that may still change is changed by any record:
\* a frozen snapshot and a paid epoch keep the descriptors they were computed
\* from (lifecycle_v2.cpp:294).
THEOREM LifecycleNoRetroactiveChange == Spec => NoRetroactiveChange
<1> DEFINE Fixed == \A id \in Identity, epoch \in U64 :
                        epoch < earliest_epoch =>
                            descriptor_for_epoch(histories', id, epoch)
                                = descriptor_for_epoch(histories, id, epoch)
<1>1. IInv /\ IInv' /\ [Next]_vars => [Fixed]_vars
  <2> SUFFICES ASSUME IInv, IInv', Next, NEW id \in Identity, NEW epoch \in U64,
                      epoch < earliest_epoch
               PROVE  descriptor_for_epoch(histories', id, epoch)
                          = descriptor_for_epoch(histories, id, epoch)
    OBVIOUS
  <2>1. CASE PassCutoff \/ EnterEpoch
    BY <2>1 DEF PassCutoff, EnterEpoch
  <2>2. ASSUME NEW r \in Records, NEW authentic \in BOOLEAN, Apply(r, authentic)
        PROVE  descriptor_for_epoch(histories', id, epoch)
                   = descriptor_for_epoch(histories, id, epoch)
    <3>1. epoch < r.next_descriptor.effective_epoch
      <4>1. /\ earliest_epoch <= r.next_descriptor.effective_epoch
            /\ earliest_epoch \in U64
            /\ r.next_descriptor.effective_epoch \in U64
        BY <2>2 DEF Apply, Accepts, NotRetroactive, IInv, TypeOK, Records, Descriptors
      <4> QED
        BY <4>1 DEF U64
    <3>2. /\ histories \in Histories
          /\ DistinctIds(histories)
          /\ histories' = PushRecord(histories, r)
      BY <2>2 DEF IInv, TypeOK, Apply
    <3>3. Registered(histories, r.next_descriptor.identity_id)
            <=> r.action # "register_identity"
      BY <2>2, AcceptedKinds DEF Apply
    <3> QED
      BY <3>1, <3>2, <3>3, PushKeepsEarlier
  <2> QED
    BY <2>1, <2>2 DEF Next
<1> QED
  BY <1>1, LifecycleInvariant, PTL DEF Spec, NoRetroactiveChange

=============================================================================
