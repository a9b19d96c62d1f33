---------------------------- MODULE Epoch_proofs ----------------------------
(***************************************************************************)
(* The epoch cycle, for any populations, epoch lengths and integer widths: *)
(* which epochs are frozen and closed at which height, that every operation*)
(* on the state keeps what its snapshots, leases, receipts and             *)
(* qualification sets rest on, and that they are as they should be along   *)
(* the current chain, inside a block and after every disconnected block.   *)
(***************************************************************************)
EXTENDS BlockTransition_proofs, FiniteSetTheorems

-----------------------------------------------------------------------------
(* Arithmetic *)

\* Division with remainder.
LEMMA DivMod ==
    ASSUME NEW a \in Nat, NEW b \in Nat \ {0}
    PROVE  /\ a \div b \in Nat /\ a % b \in 0..(b - 1)
           /\ a = b * (a \div b) + (a % b)
OBVIOUS

\* The quotient of a product.
LEMMA DivMul ==
    ASSUME NEW q \in Nat, NEW b \in Nat \ {0}
    PROVE  (b * q) \div b = q /\ (b * q) % b = 0
OBVIOUS

\* The order of products.
LEMMA MulOrder ==
    ASSUME NEW p \in Nat, NEW q \in Nat, NEW b \in Nat \ {0}
    PROVE  /\ b * p \in Nat
           /\ b * p < b * q + b => p <= q
           /\ p <= q => b * p <= b * q
           /\ p # 0 => b * p >= b /\ b * p >= p
OBVIOUS

\* The start of an epoch is a height or does not fit.
LEMMA EpochStart ==
    ASSUME NEW e \in Nat
    PROVE  /\ epoch_length * e \in Nat
           /\ epoch_start(e) = IF epoch_length * e <= U64Max THEN epoch_length * e ELSE None
           /\ epoch_start(e) \in Nat \cup {None}
           /\ epoch_start(e) # None => epoch_start(e) = epoch_length * e
           /\ e # 0 /\ epoch_start(e) # None => epoch_start(e) > anchor_depth
<1>1. epoch_length \in Nat \ {0} /\ U64Max \in Nat /\ anchor_depth < epoch_length
      /\ anchor_depth \in Nat /\ epoch_length \in Nat
  BY TimingAssumption
<1>2. epoch_length * e = e * epoch_length
  BY <1>1
<1>3. epoch_length * e \in Nat /\ (e # 0 => epoch_length * e >= epoch_length)
  BY <1>1, MulOrder
<1> DEFINE p == epoch_length * e
<1>4. epoch_start(e) = IF p <= U64Max THEN p ELSE None
  BY <1>2 DEF epoch_start, checked_mul, None
<1> HIDE DEF p
<1> QED
  BY <1>1, <1>3, <1>4 DEF p, None

\* The end of an epoch is a height or does not fit.
LEMMA EpochEnd ==
    ASSUME NEW e \in Nat
    PROVE  /\ epoch_end(e) \in Nat \cup {None}
           /\ epoch_end(e) # None => /\ epoch_start(e) # None
                                     /\ epoch_end(e) = epoch_length * e + epoch_length - 1
                                     /\ epoch_end(e) <= U64Max
           /\ epoch_length * e + epoch_length - 1 <= U64Max => epoch_end(e) # None
<1>1. /\ epoch_length \in Nat \ {0} /\ U64Max \in Nat
      /\ epoch_length * e \in Nat
      /\ epoch_start(e) = IF epoch_length * e <= U64Max THEN epoch_length * e ELSE None
  BY EpochStart, TimingAssumption
<1> DEFINE p == epoch_length * e
<1> HIDE DEF p
<1> QED
  BY <1>1 DEF epoch_end, checked_add, None, p

\* The first service epoch.
LEMMA FirstServiceEpoch == first_service_epoch = 1
<1>1. epoch_length \in Nat \ {0} /\ U64Max \in Nat \ {0}
  BY TimingAssumption
<1>2. 0 \div epoch_length = 0
  BY <1>1
<1> QED
  BY <1>1, <1>2
  DEF first_service_epoch, checked_add, activation_epoch, activation_height, None

\* The epochs whose membership is frozen when the blocks below height m are there.
Begun(m) ==
    {e \in U64 \ {0} : epoch_start(e) # None /\ epoch_start(e) < m + anchor_depth}

\* The epochs that are closed by then.  The epoch that ends with the last height of
\* the integer type never is.
Ended(m) ==
    {e \in U64 \ {0} : /\ epoch_end(e) # None
                      /\ epoch_end(e) < m + anchor_depth
                      /\ epoch_end(e) < U64Max}

\* The epoch that a block freezes starts anchor_depth blocks later.
LEMMA FreezeTiming ==
    ASSUME NEW h \in U64, FreezeDue(h)
    PROVE  LET e == FreezeEpoch(h)
           IN  /\ e \in U64 \ {0}
               /\ epoch_start(e) = h + anchor_depth
               /\ committee_anchor(e) = h
               /\ enrollment_cutoff(e) # None
               /\ e >= first_service_epoch
<1> DEFINE a == h + anchor_depth
           e == FreezeEpoch(h)
<1>1. /\ a \in Nat /\ a <= U64Max /\ h \in Nat
      /\ a % epoch_length = 0
      /\ e = a \div epoch_length /\ e >= 1
      /\ epoch_length \in Nat \ {0} /\ anchor_depth \in Nat /\ U64Max \in Nat
      /\ anchor_depth < epoch_length
  BY FirstServiceEpoch, TimingAssumption DEF FreezeDue, FreezeEpoch, U64
<1> HIDE DEF e, a
<1>2. e \in Nat /\ a = epoch_length * e
  BY <1>1, DivMod
<1>3. e <= a
  BY <1>1, <1>2, MulOrder
<1>4. epoch_start(e) = a /\ a > anchor_depth
  BY <1>1, <1>2, EpochStart DEF None
<1> QED
  BY <1>1, <1>2, <1>3, <1>4, FirstServiceEpoch
  DEF a, e, committee_anchor, enrollment_cutoff, None, U64

\* The block at a height freezes the epoch that begins with it, if there is one.
LEMMA BegunStep ==
    ASSUME NEW h \in U64
    PROVE  /\ FreezeDue(h) => /\ Begun(h + 1) = Begun(h) \cup {FreezeEpoch(h)}
                              /\ FreezeEpoch(h) \notin Begun(h)
           /\ ~ FreezeDue(h) => Begun(h + 1) = Begun(h)
<1>1. /\ h \in Nat /\ h + 1 \in Nat /\ anchor_depth \in Nat /\ U64Max \in Nat
      /\ epoch_length \in Nat \ {0}
  BY TimingAssumption DEF U64
<1>2. ASSUME NEW e \in U64 \ {0}, epoch_start(e) = h + anchor_depth
      PROVE  FreezeDue(h) /\ FreezeEpoch(h) = e
  <2>1. e \in Nat /\ epoch_start(e) # None
    BY <1>1, <1>2 DEF U64, None
  <2>2. epoch_length * e = h + anchor_depth /\ h + anchor_depth <= U64Max
    BY <1>1, <1>2, <2>1, EpochStart
  <2>3. (epoch_length * e) \div epoch_length = e /\ (epoch_length * e) % epoch_length = 0
    BY <1>1, <2>1, DivMul
  <2>4. /\ (h + anchor_depth) \div epoch_length = e
        /\ (h + anchor_depth) % epoch_length = 0
    BY <2>2, <2>3
  <2> QED
    BY <1>1, <1>2, <2>1, <2>2, <2>4, FirstServiceEpoch DEF FreezeDue, FreezeEpoch
<1>3. ASSUME NEW e
      PROVE  e \in Begun(h + 1)
               <=> e \in Begun(h) \/ (e \in U64 \ {0} /\ epoch_start(e) = h + anchor_depth)
  <2>1. e \in U64 \ {0} => epoch_start(e) \in Nat \cup {None}
    BY EpochStart DEF U64
  <2> DEFINE x == epoch_start(e)
  <2> HIDE DEF x
  <2>2. x \in Nat \cup {None} =>
          ((x # None /\ x < h + 1 + anchor_depth)
             <=> (x # None /\ x < h + anchor_depth) \/ x = h + anchor_depth)
    BY <1>1 DEF None
  <2> QED
    BY <2>1, <2>2 DEF Begun, x
<1>4. CASE FreezeDue(h)
  <2>1. FreezeEpoch(h) \in U64 \ {0} /\ epoch_start(FreezeEpoch(h)) = h + anchor_depth
    BY <1>4, FreezeTiming
  <2>2. FreezeEpoch(h) \notin Begun(h)
    BY <1>1, <2>1 DEF Begun
  <2>3. \A e : e \in Begun(h + 1) <=> e \in Begun(h) \/ e = FreezeEpoch(h)
    BY <1>2, <1>3, <2>1
  <2> QED
    BY <1>4, <2>2, <2>3
<1>5. CASE ~ FreezeDue(h)
  <2>1. \A e : e \in Begun(h + 1) <=> e \in Begun(h)
    BY <1>2, <1>3, <1>5
  <2> QED
    BY <1>5, <2>1
<1> QED
  BY <1>4, <1>5

\* The epoch that a block closes ends anchor_depth blocks later.
LEMMA CloseTiming ==
    ASSUME NEW h \in U64, CloseDue(h)
    PROVE  LET e == CloseEpoch(h)
           IN  /\ e \in U64 \ {0}
               /\ epoch_end(e) = h + anchor_depth
               /\ epoch_end(e) < U64Max
               /\ evidence_deadline(e) = h
<1> DEFINE a == h + anchor_depth + 1
           q == a \div epoch_length
           e == CloseEpoch(h)
<1>1. /\ a \in Nat /\ a <= U64Max /\ h \in Nat
      /\ a % epoch_length = 0
      /\ e = q - 1 /\ q - 1 >= 1
      /\ epoch_length \in Nat \ {0} /\ anchor_depth \in Nat /\ U64Max \in Nat
  BY FirstServiceEpoch, TimingAssumption DEF CloseDue, CloseEpoch, U64
<1>3. a = h + anchor_depth + 1
  OBVIOUS
<1> HIDE DEF a, e
<1>2. q \in Nat /\ a = epoch_length * q
  <2>1. q \in Nat /\ a = epoch_length * q + (a % epoch_length)
    BY <1>1, DivMod
  <2>2. epoch_length * q \in Nat
    BY <1>1, <2>1, MulOrder
  <2> HIDE DEF q
  <2> QED
    BY <1>1, <2>1, <2>2
<1> HIDE DEF q
<1>4. e \in Nat /\ e # 0 /\ q = e + 1
  BY <1>1, <1>2
<1>5. epoch_length * (e + 1) = epoch_length * e + epoch_length
  BY <1>1, <1>4
<1>6. q <= a
  BY <1>1, <1>2, <1>4, MulOrder
<1>7. epoch_length * e \in Nat
  BY <1>1, <1>4, MulOrder
<1>8. a = epoch_length * e + epoch_length
  BY <1>2, <1>4, <1>5
<1>9. epoch_end(e) = epoch_length * e + epoch_length - 1
  BY <1>1, <1>4, <1>7, <1>8, EpochEnd
<1>10. epoch_end(e) = h + anchor_depth /\ epoch_end(e) < U64Max
  BY <1>1, <1>3, <1>7, <1>8, <1>9
<1>11. e \in U64 \ {0}
  BY <1>1, <1>2, <1>4, <1>6 DEF U64
<1> QED
  BY <1>1, <1>10, <1>11 DEF e, evidence_deadline

\* The block at a height closes the epoch that ends with it, if there is one.
LEMMA EndedStep ==
    ASSUME NEW h \in U64
    PROVE  /\ CloseDue(h) => /\ Ended(h + 1) = Ended(h) \cup {CloseEpoch(h)}
                             /\ CloseEpoch(h) \notin Ended(h)
           /\ ~ CloseDue(h) => Ended(h + 1) = Ended(h)
<1>1. /\ h \in Nat /\ h + 1 \in Nat /\ anchor_depth \in Nat /\ U64Max \in Nat
      /\ epoch_length \in Nat \ {0} /\ epoch_length > 1
  BY TimingAssumption DEF U64
<1>2. ASSUME NEW e \in U64 \ {0}, epoch_end(e) = h + anchor_depth, epoch_end(e) < U64Max
      PROVE  CloseDue(h) /\ CloseEpoch(h) = e
  <2>1. e \in Nat /\ e >= 1 /\ epoch_end(e) # None
    BY <1>1, <1>2 DEF U64, None
  <2>2. epoch_length * e \in Nat /\ epoch_end(e) = epoch_length * e + epoch_length - 1
        /\ epoch_end(e) <= U64Max
    BY <2>1, EpochEnd, EpochStart
  <2>3. epoch_length * (e + 1) = epoch_length * e + epoch_length
    BY <1>1, <2>1
  <2>4. epoch_length * (e + 1) = h + anchor_depth + 1
    BY <1>1, <1>2, <2>2, <2>3
  <2>5. /\ (epoch_length * (e + 1)) \div epoch_length = e + 1
        /\ (epoch_length * (e + 1)) % epoch_length = 0
    BY <1>1, <2>1, DivMul
  <2>6. /\ (h + anchor_depth + 1) \div epoch_length = e + 1
        /\ (h + anchor_depth + 1) % epoch_length = 0
    BY <2>4, <2>5
  <2>7. h <= U64Max - anchor_depth - 1
    BY <1>1, <1>2, <2>2
  <2> QED
    BY <1>1, <2>1, <2>6, <2>7, FirstServiceEpoch DEF CloseDue, CloseEpoch
<1>3. ASSUME NEW e
      PROVE  e \in Ended(h + 1)
               <=> \/ e \in Ended(h)
                   \/ /\ e \in U64 \ {0}
                      /\ epoch_end(e) = h + anchor_depth
                      /\ epoch_end(e) < U64Max
  <2>1. e \in U64 \ {0} => epoch_end(e) \in Nat \cup {None}
    BY EpochEnd DEF U64
  <2> DEFINE x == epoch_end(e)
  <2> HIDE DEF x
  <2>2. x \in Nat \cup {None} =>
          ((x # None /\ x < h + 1 + anchor_depth)
             <=> (x # None /\ x < h + anchor_depth) \/ x = h + anchor_depth)
    BY <1>1 DEF None
  <2> QED
    BY <2>1, <2>2 DEF Ended, x
<1>4. CASE CloseDue(h)
  <2>1. /\ CloseEpoch(h) \in U64 \ {0}
        /\ epoch_end(CloseEpoch(h)) = h + anchor_depth
        /\ epoch_end(CloseEpoch(h)) < U64Max
    BY <1>4, CloseTiming
  <2>2. CloseEpoch(h) \notin Ended(h)
    BY <1>1, <2>1 DEF Ended
  <2>3. \A e : e \in Ended(h + 1) <=> e \in Ended(h) \/ e = CloseEpoch(h)
    BY <1>2, <1>3, <2>1
  <2> QED
    BY <1>4, <2>2, <2>3
<1>5. CASE ~ CloseDue(h)
  <2>1. \A e : e \in Ended(h + 1) <=> e \in Ended(h)
    BY <1>2, <1>3, <1>5
  <2> QED
    BY <1>5, <2>1
<1> QED
  BY <1>4, <1>5

\* An epoch is closed after it is frozen.
LEMMA EndedBegun ==
    ASSUME NEW m \in Nat
    PROVE  Ended(m) \subseteq Begun(m)
<1> SUFFICES ASSUME NEW e \in Ended(m) PROVE e \in Begun(m)
  OBVIOUS
<1>1. /\ e \in U64 \ {0} /\ e \in Nat
      /\ epoch_end(e) # None /\ epoch_end(e) < m + anchor_depth
  BY DEF Ended, U64
<1>2. /\ epoch_start(e) # None
      /\ epoch_length * e \in Nat
      /\ epoch_start(e) = epoch_length * e
      /\ epoch_end(e) = epoch_length * e + epoch_length - 1
  BY <1>1, EpochStart, EpochEnd
<1> QED
  BY <1>1, <1>2, TimingAssumption DEF Begun

\* The block that closes an epoch comes after the one that froze it.
LEMMA CloseAfterFreeze ==
    ASSUME NEW h \in U64, CloseDue(h)
    PROVE  CloseEpoch(h) \in Begun(h + 1)
<1>1. h \in Nat /\ h + 1 \in Nat
  BY DEF U64
<1>2. CloseEpoch(h) \in Ended(h + 1)
  BY EndedStep
<1> QED
  BY <1>1, <1>2, EndedBegun

\* A record can take effect in no epoch that is frozen at its inclusion.
LEMMA FrozenBeforeEffect ==
    ASSUME NEW h \in U64, NEW e \in Begun(h + 1)
    PROVE  e < minimum_effective_epoch(h)
<1> DEFINE q == h \div epoch_length
           next == q + 1
<1>1. /\ h \in Nat /\ epoch_length \in Nat \ {0} /\ anchor_depth \in Nat
      /\ anchor_depth < epoch_length
  BY TimingAssumption DEF U64
<1>2. q \in Nat /\ h % epoch_length \in 0..(epoch_length - 1)
      /\ h = epoch_length * q + (h % epoch_length)
  BY ZenonT(60), <1>1, DivMod
<1>3. /\ e \in Nat
      /\ epoch_length * e \in Nat
      /\ epoch_length * e <= h + anchor_depth
  <2>1. e \in Nat /\ epoch_start(e) # None /\ epoch_start(e) < h + 1 + anchor_depth
    BY DEF Begun, U64
  <2>2. epoch_start(e) = epoch_length * e /\ epoch_length * e \in Nat
    BY <2>1, EpochStart
  <2> QED
    BY <1>1, <2>1, <2>2
<1>4. minimum_effective_epoch(h)
        = IF enrollment_cutoff(next) = None \/ h > enrollment_cutoff(next) THEN next + 1
          ELSE next
  BY DEF minimum_effective_epoch, inclusion_epoch
<1> HIDE DEF q
<1>5. /\ epoch_length * q \in Nat /\ epoch_length * next \in Nat
      /\ epoch_length * next = epoch_length * q + epoch_length
  BY <1>1, <1>2, MulOrder
<1>6. next \in Nat /\ e <= next
  <2>1. epoch_length * e < epoch_length * next + epoch_length
    BY <1>1, <1>2, <1>3, <1>5
  <2>2. next \in Nat
    BY <1>2
  <2> QED
    BY <1>1, <1>3, <2>1, <2>2, MulOrder
<1>7. CASE enrollment_cutoff(next) = None \/ h > enrollment_cutoff(next)
  BY <1>3, <1>4, <1>6, <1>7
<1>8. CASE ~ (enrollment_cutoff(next) = None \/ h > enrollment_cutoff(next))
  <2> DEFINE c == enrollment_cutoff(next)
             s == epoch_start(next)
  <2>1. s \in Nat \cup {None} /\ (s # None => s = epoch_length * next)
    BY <1>6, EpochStart
  <2>2. c = IF s <= anchor_depth THEN None ELSE s - anchor_depth - 1
    BY DEF enrollment_cutoff
  <2> HIDE DEF c, s
  <2>3. s # None /\ c = s - anchor_depth - 1
    BY <1>1, <1>8, <2>1, <2>2 DEF c, None
  <2>4. h <= epoch_length * next - anchor_depth - 1
    BY <1>1, <1>5, <1>8, <2>1, <2>3 DEF c
  <2>5. epoch_length * e < epoch_length * next
    BY <1>1, <1>3, <1>5, <2>4
  <2>6. e # next
    BY <1>3, <1>5, <2>5
  <2> QED
    BY <1>3, <1>4, <1>6, <1>8, <2>6
<1> QED
  BY <1>7, <1>8

\* Before a payout height the epoch before it has ended.
LEMMA PayoutTiming ==
    ASSUME NEW h \in U64, first_payout_height # None, h >= first_payout_height
    PROVE  h \div epoch_length - 1 \in Ended(h)
<1> DEFINE q == h \div epoch_length
           e == q - 1
<1>1. /\ h \in Nat /\ h <= U64Max /\ epoch_length \in Nat \ {0} /\ anchor_depth \in Nat \ {0}
      /\ U64Max \in Nat \ {0}
  BY TimingAssumption DEF U64
<1>2. q \in Nat /\ h % epoch_length \in 0..(epoch_length - 1)
      /\ h = epoch_length * q + (h % epoch_length)
  BY ZenonT(60), <1>1, DivMod
<1>3. first_payout_height = epoch_length * 2
  <2>1. first_payout_height = epoch_start(checked_add(1, 1))
    BY FirstServiceEpoch DEF first_payout_height
  <2>2. checked_add(1, 1) = IF 2 <= U64Max THEN 2 ELSE None
    BY DEF checked_add, None
  <2>3. checked_add(1, 1) = 2
    BY <2>1, <2>2 DEF epoch_start, checked_mul
  <2>4. 2 \in Nat
    OBVIOUS
  <2> QED
    BY <2>1, <2>3, <2>4, EpochStart
<1> HIDE DEF q
<1>4. epoch_length * q \in Nat /\ q >= 2
  <2>1. epoch_length * q \in Nat /\ 2 \in Nat
    BY <1>1, <1>2, MulOrder
  <2>2. epoch_length * 2 < epoch_length * q + epoch_length
    BY <1>1, <1>2, <1>3, <2>1
  <2> QED
    BY <1>1, <1>2, <2>1, <2>2, MulOrder
<1>5. e \in Nat /\ e >= 1 /\ q = e + 1
  BY <1>2, <1>4
<1>6. epoch_length * e \in Nat /\ epoch_length * (e + 1) = epoch_length * e + epoch_length
  BY <1>1, <1>5
<1>7. epoch_length * e + epoch_length <= h
  <2>1. epoch_length * q = epoch_length * e + epoch_length
    BY <1>5, <1>6
  <2> HIDE DEF e
  <2> QED
    BY <1>1, <1>2, <1>6, <2>1
<1> HIDE DEF e
<1>8. /\ epoch_end(e) # None
      /\ epoch_end(e) = epoch_length * e + epoch_length - 1
  BY <1>1, <1>5, <1>6, <1>7, EpochEnd
<1>9. epoch_end(e) # None /\ epoch_end(e) < h + anchor_depth /\ epoch_end(e) < U64Max
  BY <1>1, <1>6, <1>7, <1>8
<1>10. e \in U64 \ {0}
  <2>1. e <= epoch_length * e
    BY <1>1, <1>5, MulOrder
  <2> QED
    BY <1>1, <1>5, <1>6, <1>7, <2>1 DEF U64
<1> QED
  BY <1>9, <1>10 DEF Ended, e, q

-----------------------------------------------------------------------------
(* What a state rests on *)

\* The work of a lease was done on one of the first n blocks of c.
LeaseOn(lease, c, n) ==
    LET context == epoch_start(lease.target_epoch - 1)
    IN  context \in 0..(n - 1) /\ lease.admission_context_hash = c[context + 1]

\* A receipt answers to the anchor of its round among the first n blocks of c.
ReceiptOn(r, c, n) ==
    LET anchor == round_anchor_height(r.epoch, r.round)
    IN  anchor \in 0..(n - 1) /\ r.anchor_hash = c[anchor + 1]

LeasesOn(leases, c, n) == \A i \in DOMAIN leases : LeaseOn(leases[i].lease, c, n)

ReceiptsOn(receipts, c, n) == \A i \in DOMAIN receipts : ReceiptOn(receipts[i].receipt_hash, c, n)

SnapshotsKnown(receipts, snapshots) ==
    \A i \in DOMAIN receipts : receipts[i].receipt_hash.snapshot_hash \in snapshots

OnePerEpoch(S) == \A s, t \in S : s.epoch = t.epoch => s = t

Settled(receipts, snapshots, qualifications) ==
    \A q \in qualifications : q = Closed(receipts, OfEpoch(snapshots, q.epoch))

Authorized(h, snapshots) ==
    \A s \in snapshots : s.members \subseteq AuthorizedMembers(h, s.epoch)

Populated(leases) ==
    \A e \in U64 : EpochPopulation(leases, e) <= max_active_population

\* The state of a node whose chain is the first n blocks of c and that has frozen
\* the epochs that are due below height m.
Good(st, c, n, m) ==
    /\ LeasesOn(st.leases, c, n)
    /\ Populated(st.leases)
    /\ ReceiptsOn(st.receipts, c, n)
    /\ SnapshotsKnown(st.receipts, st.snapshots)
    /\ Authorized(st.histories, st.snapshots)
    /\ OnePerEpoch(st.snapshots)
    /\ EpochsOf(st.snapshots) = Begun(m)
    /\ EpochsOf(st.qualifications) = Ended(n)
    /\ Settled(st.receipts, st.snapshots, st.qualifications)

\* The lookup of an epoch that is there finds it.
LEMMA OfEpochFound ==
    ASSUME NEW S, NEW e \in EpochsOf(S)
    PROVE  OfEpoch(S, e) \in S /\ OfEpoch(S, e).epoch = e
<1>1. PICK s \in S : s.epoch = e
  BY DEF EpochsOf
<1> QED
  BY <1>1 DEF OfEpoch

\* A set that has one more epoch gives the same answer for the others.
LEMMA OfEpochKept ==
    ASSUME NEW S, NEW T, S \subseteq T, OnePerEpoch(T), NEW e \in EpochsOf(S)
    PROVE  OfEpoch(T, e) = OfEpoch(S, e)
<1>1. OfEpoch(S, e) \in S /\ OfEpoch(S, e).epoch = e
  BY OfEpochFound
<1>2. e \in EpochsOf(T)
  BY <1>1 DEF EpochsOf
<1>3. OfEpoch(T, e) \in T /\ OfEpoch(T, e).epoch = e
  BY <1>2, OfEpochFound
<1> QED
  BY <1>1, <1>3 DEF OnePerEpoch

\* The evidence of a state rests on the blocks below its height only.
LEMMA SameBlocks ==
    ASSUME NEW st, NEW c, NEW d, NEW n \in Nat, NEW m, Good(st, c, n, m),
           \A i \in 1..n : d[i] = c[i]
    PROVE  Good(st, d, n, m)
<1>1. ASSUME NEW lease, LeaseOn(lease, c, n)
      PROVE  LeaseOn(lease, d, n)
  BY <1>1 DEF LeaseOn
<1>2. ASSUME NEW r, ReceiptOn(r, c, n)
      PROVE  ReceiptOn(r, d, n)
  BY <1>2 DEF ReceiptOn
<1> QED
  BY <1>1, <1>2 DEF Good, LeasesOn, ReceiptsOn

\* More blocks on top do not change what it rests on.
LEMMA MoreBlocks ==
    ASSUME NEW st, NEW c, NEW n \in Nat
    PROVE  /\ LeasesOn(st.leases, c, n) => LeasesOn(st.leases, c, n + 1)
           /\ ReceiptsOn(st.receipts, c, n) => ReceiptsOn(st.receipts, c, n + 1)
<1>1. ASSUME NEW lease, LeaseOn(lease, c, n)
      PROVE  LeaseOn(lease, c, n + 1)
  BY <1>1 DEF LeaseOn
<1>2. ASSUME NEW r, ReceiptOn(r, c, n)
      PROVE  ReceiptOn(r, c, n + 1)
  BY <1>2 DEF ReceiptOn
<1> QED
  BY <1>1, <1>2 DEF LeasesOn, ReceiptsOn

\* A receipt of another epoch does not change what the receipts of an epoch say.
LEMMA OtherReceipt ==
    ASSUME NEW receipts \in Seq(StoredReceipts), NEW x \in StoredReceipts, NEW snapshot,
           x.receipt_hash.epoch # snapshot.epoch
    PROVE  Closed(Append(receipts, x), snapshot) = Closed(receipts, snapshot)
<1> DEFINE longer == Append(receipts, x)
<1>1. EntriesOf(longer) = EntriesOf(receipts) \cup {x}
  <2>1. /\ DOMAIN longer = DOMAIN receipts \cup {Len(receipts) + 1}
        /\ longer[Len(receipts) + 1] = x
        /\ \A i \in DOMAIN receipts : longer[i] = receipts[i]
    OBVIOUS
  <2> HIDE DEF longer
  <2> QED
    BY <2>1 DEF EntriesOf
<1> HIDE DEF longer
<1>2. ASSUME NEW round, NEW subject
      PROVE  Voters(longer, snapshot.epoch, round, subject)
               = Voters(receipts, snapshot.epoch, round, subject)
  <2>1. {t \in EntriesOf(longer) : /\ t.receipt_hash.epoch = snapshot.epoch
                                   /\ t.receipt_hash.round = round
                                   /\ t.receipt_hash.subject = subject}
          = {t \in EntriesOf(receipts) : /\ t.receipt_hash.epoch = snapshot.epoch
                                         /\ t.receipt_hash.round = round
                                         /\ t.receipt_hash.subject = subject}
    BY <1>1
  <2> QED
    BY <2>1 DEF Voters
<1>3. ASSUME NEW subject
      PROVE  PassingRounds(longer, snapshot, subject) = PassingRounds(receipts, snapshot, subject)
  BY <1>2 DEF PassingRounds
<1>4. {key \in KeysOf(snapshot) :
          Cardinality(PassingRounds(longer, snapshot, key)) >= rounds_required}
        = {key \in KeysOf(snapshot) :
              Cardinality(PassingRounds(receipts, snapshot, key)) >= rounds_required}
  BY <1>3
<1>5. Closed(longer, snapshot) = Closed(receipts, snapshot)
  BY ZenonT(60), <1>4 DEF Closed
<1> QED
  BY <1>5 DEF longer

-----------------------------------------------------------------------------
(* What the operations make of it *)

\* A lifecycle record leaves the descriptors of the frozen epochs alone.
LEMMA GoodLifecycle ==
    ASSUME NEW st \in States, DistinctIds(st.histories), NEW r \in Records,
           NEW h \in U64, LifecycleAccepted(st, r, h),
           NEW c, NEW n, Good(st, c, n, h + 1)
    PROVE  Good(ApplyLifecycle(st, r), c, n, h + 1)
<1> DEFINE g == PushRecord(st.histories, r)
           out == ApplyLifecycle(st, r)
<1>1. /\ Registered(st.histories, r.next_descriptor.identity_id)
           <=> r.action # "register_identity"
      /\ r.next_descriptor.effective_epoch >= minimum_effective_epoch(h)
  <2>1. Accepts(st.histories, r, TRUE, inclusion_epoch(h), minimum_effective_epoch(h))
    BY ZenonT(60) DEF LifecycleAccepted
  <2>2. r.next_descriptor.effective_epoch >= minimum_effective_epoch(h)
    BY <2>1 DEF Accepts, NotRetroactive
  <2> QED
    BY ZenonT(60), <2>1, <2>2, AcceptedKinds
<1>2. st.histories \in Histories
  BY StateType
<1>3. ASSUME NEW e \in Begun(h + 1)
      PROVE  AuthorizedMembers(g, e) = AuthorizedMembers(st.histories, e)
  <2>1. e \in U64 /\ e < minimum_effective_epoch(h)
    BY <1>3, FrozenBeforeEffect DEF Begun
  <2>2. e < r.next_descriptor.effective_epoch
    <3>1. r.next_descriptor.effective_epoch \in Int /\ e \in Int
      BY <2>1, TimingAssumption DEF Records, Descriptors, U64
    <3>2. minimum_effective_epoch(h) \in Int
      <4>1. h \in Nat /\ epoch_length \in Nat \ {0}
        BY TimingAssumption DEF U64
      <4>2. h \div epoch_length \in Nat
        BY ZenonT(60), <4>1, DivMod
      <4> QED
        BY <4>2 DEF minimum_effective_epoch, inclusion_epoch
    <3> QED
      BY <1>1, <2>1, <3>1, <3>2
  <2>3. \A id \in Identity :
            descriptor_for_epoch(g, id, e) = descriptor_for_epoch(st.histories, id, e)
    BY <1>1, <1>2, <2>1, <2>2, PushKeepsEarlier
  <2>4. {descriptor_for_epoch(g, id, e) : id \in Identity}
          = {descriptor_for_epoch(st.histories, id, e) : id \in Identity}
    BY <2>3
  <2> QED
    BY <2>4, Zenon DEF AuthorizedMembers
<1>4. /\ out.histories = g
      /\ out.leases = st.leases
      /\ out.receipts = st.receipts
      /\ out.snapshots = st.snapshots
      /\ out.qualifications = st.qualifications
  BY DEF ApplyLifecycle, States
<1>5. Authorized(g, st.snapshots)
  <2>1. \A s \in st.snapshots : s.epoch \in Begun(h + 1)
    BY DEF Good, EpochsOf
  <2> QED
    BY <1>3, <2>1 DEF Good, Authorized
<1> HIDE DEF out, g
<1>6. Good(out, c, n, h + 1)
  BY <1>4, <1>5 DEF Good
<1> QED
  BY <1>6 DEF out

\* The start of an epoch before one that can be asked for.
LEMMA ContextType ==
    ASSUME NEW e \in U64
    PROVE  epoch_start(e - 1) \in Nat \cup {None}
<1>1. CASE e = 0
  BY <1>1 DEF epoch_start, checked_mul, None
<1>2. CASE e # 0
  <2>1. e - 1 \in Nat
    BY <1>2 DEF U64
  <2> QED
    BY <2>1, EpochStart
<1> QED
  BY <1>1, <1>2

\* The anchor of a round.
LEMMA AnchorType ==
    ASSUME NEW e \in U64, NEW round \in Rounds
    PROVE  round_anchor_height(e, round) \in Nat \cup {None}
<1>1. e \in Nat /\ anchor_depth \in Nat /\ U64Max \in Nat
  BY TimingAssumption DEF U64
<1>2. epoch_start(e) \in Nat \cup {None}
  BY <1>1, EpochStart
<1>3. round_offsets[round + 1] \in Nat
  <2>1. round_offsets \in Seq(Nat) /\ round + 1 \in 1..Len(round_offsets)
    BY CommitteeAssumption DEF Rounds, round_count
  <2> QED
    BY <2>1
<1> DEFINE s == epoch_start(e)
           o == round_offsets[round + 1]
<1> HIDE DEF s, o
<1>4. round_anchor_height(e, round)
        = IF round = 0 THEN (IF s < anchor_depth THEN None ELSE s - anchor_depth)
          ELSE (IF s # None /\ s + o <= U64Max THEN s + o ELSE None)
  BY DEF round_anchor_height, committee_anchor, checked_add, s, o
<1> QED
  BY <1>1, <1>2, <1>3, <1>4 DEF s, o, None

\* The leases of an epoch are finitely many.
LEMMA PopulationType ==
    ASSUME NEW leases \in Seq(StoredLeases), NEW e
    PROVE  /\ IsFiniteSet({i \in DOMAIN leases : leases[i].lease.target_epoch = e})
           /\ EpochPopulation(leases, e) \in Nat
<1> DEFINE S == {i \in DOMAIN leases : leases[i].lease.target_epoch = e}
<1>1. S \subseteq 1..Len(leases)
  OBVIOUS
<1>2. IsFiniteSet(1..Len(leases))
  BY FS_Interval
<1> HIDE DEF S
<1>3. IsFiniteSet(S)
  BY ZenonT(60), <1>1, <1>2, FS_Subset
<1>4. Cardinality(S) \in Nat
  BY <1>3, FS_CardinalityType
<1> QED
  BY <1>3, <1>4 DEF EpochPopulation, S

\* A lease that is accepted rests on the chain.
LEMMA LeaseRests ==
    ASSUME NEW st, NEW lease \in Leases, NEW h, NEW c, LeaseBound(st, lease, h, c),
           Len(c) \in Nat
    PROVE  LeaseOn(lease, c, Len(c))
<1>1. lease.target_epoch \in U64
  BY DEF Leases
<1>2. epoch_start(lease.target_epoch - 1) \in Nat \cup {None}
  BY <1>1, ContextType
<1>3. /\ HasBlock(c, epoch_start(lease.target_epoch - 1))
      /\ lease.admission_context_hash = block_hash(c, epoch_start(lease.target_epoch - 1))
  BY DEF LeaseBound
<1> QED
  BY <1>2, <1>3 DEF LeaseOn, HasBlock, block_hash

\* A new lease finds room in its epoch.
LEMMA GoodAppendLease ==
    ASSUME NEW st \in States, NEW lease \in Leases, NEW h \in U64, NEW c, Len(c) \in Nat,
           LeaseAppended(st, lease, h, c), NEW m, Good(st, c, Len(c), m)
    PROVE  Good(AppendLease(st, lease, h), c, Len(c), m)
<1> DEFINE stored == [lease |-> lease, inclusion_height |-> h]
           longer == Append(st.leases, stored)
           out == AppendLease(st, lease, h)
           k == Len(st.leases) + 1
<1>1. st.leases \in Seq(StoredLeases) /\ stored \in StoredLeases /\ stored.lease = lease
  BY ZenonT(60), StateType DEF StoredLeases
<1>2. /\ out.leases = longer
      /\ out.histories = st.histories
      /\ out.receipts = st.receipts
      /\ out.snapshots = st.snapshots
      /\ out.qualifications = st.qualifications
  BY DEF AppendLease, States
<1> HIDE DEF stored
<1>3. /\ longer \in Seq(StoredLeases)
      /\ DOMAIN longer = DOMAIN st.leases \cup {k} /\ k \notin DOMAIN st.leases
      /\ longer[k] = stored
      /\ \A i \in DOMAIN st.leases : longer[i] = st.leases[i]
  BY <1>1
<1> HIDE DEF longer, k
<1>4. LeasesOn(longer, c, Len(c))
  <2>1. LeaseOn(lease, c, Len(c))
    BY LeaseRests DEF LeaseAppended
  <2> QED
    BY <1>1, <1>3, <2>1 DEF Good, LeasesOn
<1>5. Populated(longer)
  <2> SUFFICES ASSUME NEW e \in U64
               PROVE  EpochPopulation(longer, e) <= max_active_population
    BY DEF Populated
  <2> DEFINE S == {i \in DOMAIN st.leases : st.leases[i].lease.target_epoch = e}
             T == {i \in DOMAIN longer : longer[i].lease.target_epoch = e}
  <2>1. IsFiniteSet(S) /\ Cardinality(S) \in Nat /\ Cardinality(S) <= max_active_population
    BY ZenonT(60), <1>1, PopulationType DEF Good, Populated, EpochPopulation
  <2>2. CASE lease.target_epoch = e
    <3>1. T = S \cup {k} /\ k \notin S
      BY <1>1, <1>3, <2>2
    <3>2. Cardinality(S) < max_active_population
      BY <2>2 DEF LeaseAppended, AdmissionAppends, EpochPopulation
    <3> HIDE DEF S, T
    <3>3. Cardinality(T) = Cardinality(S) + 1
      BY ZenonT(60), <2>1, <3>1, FS_AddElement
    <3> QED
      BY <2>1, <3>2, <3>3, CommitteeAssumption DEF EpochPopulation, T
  <2>3. CASE lease.target_epoch # e
    <3>1. T = S
      BY <1>1, <1>3, <2>3
    <3> QED
      BY ZenonT(60), <2>1, <3>1 DEF EpochPopulation
  <2> QED
    BY <2>2, <2>3
<1> HIDE DEF out
<1>6. Good(out, c, Len(c), m)
  BY <1>2, <1>4, <1>5 DEF Good
<1> QED
  BY <1>6 DEF out

\* A lease that replaces another takes its place.
LEMMA GoodReplaceLease ==
    ASSUME NEW st \in States, NEW lease \in Leases, NEW h \in U64, NEW c, Len(c) \in Nat,
           LeaseReplaced(st, lease, h, c), NEW m, Good(st, c, Len(c), m)
    PROVE  Good(ReplaceLease(st, lease, h), c, Len(c), m)
<1> DEFINE stored == [lease |-> lease, inclusion_height |-> h]
           a == SlotIndex(st.leases, lease)
           leases == [st.leases EXCEPT ![a] = stored]
           out == ReplaceLease(st, lease, h)
<1>1. st.leases \in Seq(StoredLeases) /\ stored \in StoredLeases /\ stored.lease = lease
  BY ZenonT(60), StateType DEF StoredLeases
<1>2. SameSlot(st.leases, lease) # {}
  BY DEF LeaseReplaced, AdmissionReplaces
<1>3. a \in DOMAIN st.leases /\ st.leases[a].lease.target_epoch = lease.target_epoch
  BY <1>1, <1>2, SlotFound DEF SameSlot
<1>4. out = [st EXCEPT !.leases = leases]
  BY DEF ReplaceLease
<1> HIDE DEF stored, a
<1>5. /\ leases \in Seq(StoredLeases)
      /\ DOMAIN leases = DOMAIN st.leases
      /\ leases[a] = stored
      /\ \A i \in DOMAIN st.leases : i # a => leases[i] = st.leases[i]
  BY <1>1, <1>3
<1> HIDE DEF leases
<1>6. /\ out.leases = leases
      /\ out.histories = st.histories
      /\ out.receipts = st.receipts
      /\ out.snapshots = st.snapshots
      /\ out.qualifications = st.qualifications
  BY <1>4 DEF States
<1>7. LeasesOn(leases, c, Len(c))
  <2>1. LeaseOn(lease, c, Len(c))
    BY LeaseRests DEF LeaseReplaced
  <2> QED
    BY <1>1, <1>5, <2>1 DEF Good, LeasesOn
<1>8. Populated(leases)
  <2> SUFFICES ASSUME NEW e \in U64
               PROVE  EpochPopulation(leases, e) <= max_active_population
    BY DEF Populated
  <2>1. {i \in DOMAIN leases : leases[i].lease.target_epoch = e}
          = {i \in DOMAIN st.leases : st.leases[i].lease.target_epoch = e}
    BY <1>1, <1>3, <1>5
  <2> QED
    BY <2>1 DEF Good, Populated, EpochPopulation
<1> HIDE DEF out
<1>9. Good(out, c, Len(c), m)
  BY <1>6, <1>7, <1>8 DEF Good
<1> QED
  BY <1>9 DEF out

\* A receipt joins no epoch that is closed.
LEMMA GoodReceipt ==
    ASSUME NEW st \in States, NEW r \in Receipts, NEW h \in U64, NEW c, Len(c) \in Nat,
           ReceiptAccepted(st, r, h, c), NEW m, Good(st, c, Len(c), m),
           Ended(Len(c)) \subseteq Begun(m)
    PROVE  Good(AppendReceipt(st, r, h), c, Len(c), m)
<1> DEFINE stored == [receipt_hash |-> r, inclusion_height |-> h]
           longer == Append(st.receipts, stored)
           out == AppendReceipt(st, r, h)
           k == Len(st.receipts) + 1
           anchor == round_anchor_height(r.epoch, r.round)
<1>1. /\ st.receipts \in Seq(StoredReceipts) /\ stored \in StoredReceipts
      /\ stored.receipt_hash = r
  BY ZenonT(60), StateType DEF StoredReceipts
<1>2. /\ out.receipts = longer
      /\ out.histories = st.histories
      /\ out.leases = st.leases
      /\ out.snapshots = st.snapshots
      /\ out.qualifications = st.qualifications
  BY DEF AppendReceipt, States
<1>3. /\ HasBlock(c, anchor)
      /\ r.anchor_hash = block_hash(c, anchor)
      /\ r.epoch \in EpochsOf(st.snapshots)
      /\ r.snapshot_hash = OfEpoch(st.snapshots, r.epoch)
      /\ r.epoch \notin EpochsOf(st.qualifications)
  BY DEF ReceiptAccepted, ReceiptChecked, ReceiptAppends
<1> HIDE DEF stored
<1>4. /\ DOMAIN longer = DOMAIN st.receipts \cup {k}
      /\ longer[k] = stored
      /\ \A i \in DOMAIN st.receipts : longer[i] = st.receipts[i]
  BY <1>1
<1>5. ReceiptOn(r, c, Len(c))
  <2>1. r.epoch \in U64 /\ r.round \in Rounds
    BY DEF Receipts
  <2>2. anchor \in Nat \cup {None}
    BY <2>1, AnchorType
  <2> QED
    BY <1>3, <2>2 DEF ReceiptOn, HasBlock, block_hash
<1>6. r.snapshot_hash \in st.snapshots
  BY <1>3, OfEpochFound
<1>7. Settled(longer, st.snapshots, st.qualifications)
  <2> SUFFICES ASSUME NEW q \in st.qualifications
               PROVE  q = Closed(longer, OfEpoch(st.snapshots, q.epoch))
    BY DEF Settled
  <2> DEFINE s == OfEpoch(st.snapshots, q.epoch)
  <2>1. q.epoch \in EpochsOf(st.qualifications) /\ q = Closed(st.receipts, s)
    BY DEF Good, Settled, EpochsOf
  <2>2. q.epoch \in EpochsOf(st.snapshots)
    BY <2>1 DEF Good
  <2>3. s.epoch = q.epoch
    BY <2>2, OfEpochFound
  <2>4. stored.receipt_hash.epoch # s.epoch
    BY <1>1, <1>3, <2>1, <2>3
  <2> HIDE DEF s
  <2>5. Closed(longer, s) = Closed(st.receipts, s)
    BY <1>1, <2>4, OtherReceipt
  <2> QED
    BY <2>1, <2>5 DEF s
<1> HIDE DEF longer, k, anchor
<1>8. ReceiptsOn(longer, c, Len(c)) /\ SnapshotsKnown(longer, st.snapshots)
  BY <1>1, <1>4, <1>5, <1>6 DEF Good, ReceiptsOn, SnapshotsKnown
<1> HIDE DEF out
<1>9. Good(out, c, Len(c), m)
  BY <1>2, <1>7, <1>8 DEF Good
<1> QED
  BY <1>9 DEF out

\* The freeze takes members that the registry authorizes.
LEMMA GoodFreeze ==
    ASSUME NEW st \in States, NEW h \in U64, FreezeDue(h), NEW anchor_hash, NEW c,
           Good(st, c, h, h)
    PROVE  Good(freeze_membership(st, FreezeEpoch(h), anchor_hash), c, h, h + 1)
<1> DEFINE e == FreezeEpoch(h)
           authorized == AuthorizedMembers(st.histories, e)
           f == Frozen(st.leases, authorized, e, anchor_hash)
           S == st.snapshots
           T == S \cup {f}
           out == freeze_membership(st, e, anchor_hash)
<1>1. f.epoch = e /\ f.members \subseteq authorized
  BY DEF Frozen, Eligible
<1>2. /\ out.snapshots = T
      /\ out.histories = st.histories
      /\ out.leases = st.leases
      /\ out.receipts = st.receipts
      /\ out.qualifications = st.qualifications
  BY DEF freeze_membership, States
<1>3. /\ EpochsOf(S) = Begun(h) /\ OnePerEpoch(S) /\ Authorized(st.histories, S)
      /\ Settled(st.receipts, S, st.qualifications)
      /\ EpochsOf(st.qualifications) = Ended(h)
      /\ SnapshotsKnown(st.receipts, S)
  BY DEF Good
<1>4. Begun(h + 1) = Begun(h) \cup {e} /\ e \notin Begun(h)
  BY BegunStep
<1> HIDE DEF e, f, S
<1>5. EpochsOf(T) = Begun(h + 1) /\ OnePerEpoch(T)
  <2>1. EpochsOf(T) = EpochsOf(S) \cup {e}
    BY <1>1 DEF EpochsOf
  <2>2. \A s \in S : s.epoch \in EpochsOf(S)
    BY DEF EpochsOf
  <2> QED
    BY ZenonT(60), <1>1, <1>3, <1>4, <2>1, <2>2 DEF OnePerEpoch
<1>6. Authorized(st.histories, T)
  BY <1>1, <1>3 DEF Authorized
<1>7. SnapshotsKnown(st.receipts, T)
  BY <1>3 DEF SnapshotsKnown
<1>8. Settled(st.receipts, T, st.qualifications)
  <2> SUFFICES ASSUME NEW q \in st.qualifications
               PROVE  q = Closed(st.receipts, OfEpoch(T, q.epoch))
    BY DEF Settled
  <2>1. q = Closed(st.receipts, OfEpoch(S, q.epoch))
    BY <1>3 DEF Settled
  <2>2. q.epoch \in Ended(h)
    BY <1>3 DEF EpochsOf
  <2>3. h \in Nat
    BY DEF U64
  <2>4. q.epoch \in EpochsOf(S)
    BY <1>3, <2>2, <2>3, EndedBegun
  <2>5. S \subseteq T
    OBVIOUS
  <2> HIDE DEF T
  <2>6. OfEpoch(T, q.epoch) = OfEpoch(S, q.epoch)
    BY <1>5, <2>4, <2>5, OfEpochKept
  <2> QED
    BY <2>1, <2>6
<1> HIDE DEF out, T
<1>9. Good(out, c, h, h + 1)
  BY <1>2, <1>5, <1>6, <1>7, <1>8 DEF Good
<1> QED
  BY <1>9 DEF out, e

\* Where nothing is due, nothing has to be frozen.
LEMMA GoodNoFreeze ==
    ASSUME NEW st, NEW h \in U64, ~ FreezeDue(h), NEW c, Good(st, c, h, h)
    PROVE  Good(st, c, h, h + 1)
<1>1. Begun(h + 1) = Begun(h)
  BY BegunStep
<1> QED
  BY <1>1 DEF Good

\* The close takes what the receipts say.
LEMMA GoodClose ==
    ASSUME NEW st \in States, NEW h \in U64, CloseDue(h), NEW c, Good(st, c, h, h + 1)
    PROVE  Good(close_qualification(st, CloseEpoch(h)), c, h + 1, h + 1)
<1> DEFINE e == CloseEpoch(h)
           s == OfEpoch(st.snapshots, e)
           q == Closed(st.receipts, s)
           Q == st.qualifications \cup {q}
           out == close_qualification(st, e)
<1>1. h \in Nat /\ e \in Begun(h + 1)
  BY CloseAfterFreeze DEF U64
<1>2. e \in EpochsOf(st.snapshots)
  BY <1>1 DEF Good
<1>3. s.epoch = e
  BY <1>2, OfEpochFound
<1>4. q.epoch = e
  BY <1>3 DEF Closed
<1>5. /\ out.qualifications = Q
      /\ out.histories = st.histories
      /\ out.leases = st.leases
      /\ out.receipts = st.receipts
      /\ out.snapshots = st.snapshots
  BY DEF close_qualification, States
<1>6. Ended(h + 1) = Ended(h) \cup {e}
  BY EndedStep
<1>7. Settled(st.receipts, st.snapshots, Q)
  <2>1. q = Closed(st.receipts, OfEpoch(st.snapshots, q.epoch))
    BY <1>4
  <2> HIDE DEF q
  <2> QED
    BY <2>1 DEF Good, Settled
<1> HIDE DEF e, q
<1>8. EpochsOf(Q) = Ended(h + 1)
  <2>1. EpochsOf(Q) = EpochsOf(st.qualifications) \cup {e}
    BY <1>4 DEF EpochsOf
  <2> QED
    BY ZenonT(60), <1>6, <2>1 DEF Good
<1>9. LeasesOn(st.leases, c, h + 1) /\ ReceiptsOn(st.receipts, c, h + 1)
  BY <1>1, MoreBlocks DEF Good
<1> HIDE DEF Q, out
<1>10. Good(out, c, h + 1, h + 1)
  BY <1>5, <1>7, <1>8, <1>9 DEF Good
<1> QED
  BY <1>10 DEF out, e

\* Where nothing is due, nothing has to be closed.
LEMMA GoodNoClose ==
    ASSUME NEW st, NEW h \in U64, ~ CloseDue(h), NEW c, Good(st, c, h, h + 1)
    PROVE  Good(st, c, h + 1, h + 1)
<1>1. Ended(h + 1) = Ended(h)
  BY EndedStep
<1>2. LeasesOn(st.leases, c, h + 1) /\ ReceiptsOn(st.receipts, c, h + 1)
  <2>1. h \in Nat
    BY DEF U64
  <2> QED
    BY <2>1, MoreBlocks DEF Good
<1> QED
  BY <1>1, <1>2 DEF Good

-----------------------------------------------------------------------------
(* The invariant *)

\* The number of blocks below and at a tip.
HeightOf(t) == IF t = None THEN 0 ELSE t + 1

\* A remembered state is as it should be at its height.
PointGood(point, c) == Good(point.state, c, HeightOf(point.tip), HeightOf(point.tip))

RunningGood ==
    Good(state, chain, Len(chain), IF pc = "idle" THEN Len(chain) ELSE Len(chain) + 1)

CommittedGood == Good(Outer, chain, Len(chain), Len(chain))

PastGood == \A i \in 1..Len(past) : PointGood(past[i], chain)

EInv == IInv /\ RunningGood /\ CommittedGood /\ PastGood

\* What the invariant says of the height.
LEMMA HeightFacts ==
    ASSUME IInv
    PROVE  /\ Len(chain) = Height /\ Height \in Nat /\ HeightOf(tip) = Height
           /\ pc # "idle" => Height \in U64
           /\ state \in States
           /\ chain \in Seq(BlockHash)
           /\ tip \in U64 \cup {None}
<1>1. tip \in U64 \cup {None} /\ Len(chain) = Height
  BY DEF IInv, PastOK
<1>2. Height \in Nat
  BY <1>1, HeightType
<1>3. HeightOf(tip) = Height
  BY <1>1 DEF HeightOf, Height, activation_height
<1> QED
  BY <1>1, <1>2, <1>3 DEF IInv, RunningOK, TypeOK

\* The remembered states are those at the heights below the tip, without a gap.
LEMMA PastHeights ==
    ASSUME IInv, NEW i \in 1..Len(past)
    PROVE  /\ HeightOf(past[i].tip) \in Nat
           /\ HeightOf(past[i].tip) = Len(chain) - 1 - (Len(past) - i)
<1>1. /\ Len(past) = Kept /\ past \in Seq(Points)
      /\ undo[i].height = tip - (Kept - i)
      /\ undo[i].prior_tip = IF undo[i].height = 0 THEN None ELSE undo[i].height - 1
      /\ past[i].tip = undo[i].prior_tip
      /\ tip \in U64 \cup {None}
      /\ tip = None => Kept = 0
      /\ Len(chain) = Height
  BY DEF IInv, PastOK
<1>2. Len(past) \in Nat /\ i \in Nat /\ i >= 1 /\ i <= Len(past)
  BY <1>1
<1>3. tip # None /\ tip \in Nat /\ Len(chain) = tip + 1
  BY <1>1, <1>2 DEF U64, Height
<1>4. undo[i].height \in Nat
  <2>1. undo \in Seq(Entries) /\ i \in 1..Len(undo)
    BY <1>1, <1>2 DEF IInv, TypeOK, Entries, Kept
  <2>2. undo[i] \in Entries
    BY <2>1
  <2> QED
    BY <2>2 DEF Entries, U64
<1>5. HeightOf(past[i].tip) = undo[i].height
  BY <1>1, <1>4 DEF HeightOf, None
<1> QED
  BY <1>1, <1>2, <1>3, <1>4, <1>5

\* The start, without blocks and epochs.
LEMMA InitGood ==
    ASSUME HistoryInit
    PROVE  EInv
<1>1. IInv /\ Outer = EmptyState
  BY InitIInv
<1>2. /\ state = EmptyState /\ chain = <<>> /\ pc = "idle" /\ past = <<>>
  BY DEF HistoryInit, Init
<1>3. Begun(0) = {} /\ Ended(0) = {}
  <2>1. Begun(0) = {}
    <3> SUFFICES ASSUME NEW e \in Begun(0) PROVE FALSE
      OBVIOUS
    <3>1. e \in Nat /\ e # 0 /\ epoch_start(e) # None /\ epoch_start(e) < 0 + anchor_depth
      BY DEF Begun, U64
    <3>2. epoch_start(e) > anchor_depth /\ epoch_start(e) \in Nat \cup {None}
      BY <3>1, EpochStart
    <3> QED
      BY <3>1, <3>2, TimingAssumption
  <2>2. 0 \in Nat
    OBVIOUS
  <2> QED
    BY <2>1, <2>2, EndedBegun
<1>4. Good(EmptyState, <<>>, 0, 0)
  <2>1. Populated(<<>>)
    <3> SUFFICES ASSUME NEW e \in U64
                 PROVE  EpochPopulation(<<>>, e) <= max_active_population
      BY DEF Populated
    <3>1. {i \in DOMAIN <<>> : <<>>[i].lease.target_epoch = e} = {}
      OBVIOUS
    <3>2. EpochPopulation(<<>>, e) = 0
      BY <3>1, FS_EmptySet DEF EpochPopulation
    <3> QED
      BY <3>2, CommitteeAssumption
  <2> QED
    BY <1>3, <2>1 DEF Good, EmptyState, LeasesOn, ReceiptsOn, SnapshotsKnown, Authorized,
                      OnePerEpoch, Settled, EpochsOf
<1>5. Len(<<>>) = 0
  OBVIOUS
<1> QED
  BY <1>1, <1>2, <1>4, <1>5 DEF EInv, RunningGood, CommittedGood, PastGood

\* A step inside a block has to care for the running state only.
LEMMA InBlock ==
    ASSUME EInv, IInv', Outer' = Outer, UNCHANGED <<chain, past>>, RunningGood'
    PROVE  EInv'
<1>1. CommittedGood' /\ PastGood'
  BY DEF EInv, CommittedGood, PastGood
<1> QED
  BY <1>1 DEF EInv

\* A step that ends in the idle state brings back the committed one.
LEMMA UnwoundGood ==
    ASSUME EInv, Outer' = Outer, UNCHANGED chain, pc' = "idle"
    PROVE  RunningGood'
<1>1. state' = Outer
  BY DEF Outer
<1> QED
  BY <1>1 DEF EInv, RunningGood, CommittedGood

\* The freeze at the start of a block.
LEMMA BeginBlockGood ==
    ASSUME EInv, NEW block_id \in BlockHash, BeginBlock(block_id)
    PROVE  RunningGood'
<1>1. /\ pc = "idle" /\ pc' = "block" /\ chain' = chain
      /\ Height <= U64Max
      /\ state' = IF FreezeDue(Height)
                  THEN freeze_membership(state, FreezeEpoch(Height), block_id) ELSE state
  BY DEF BeginBlock
<1>2. /\ Len(chain) = Height /\ Height \in Nat /\ state \in States
  BY HeightFacts DEF EInv
<1>3. Height \in U64
  BY <1>1, <1>2, TimingAssumption DEF U64
<1>4. Good(state, chain, Height, Height)
  BY <1>1, <1>2 DEF EInv, RunningGood
<1>5. Good(state', chain, Height, Height + 1)
  <2>1. CASE FreezeDue(Height)
    BY <1>1, <1>2, <1>3, <1>4, <2>1, GoodFreeze
  <2>2. CASE ~ FreezeDue(Height)
    BY <1>1, <1>3, <1>4, <2>2, GoodNoFreeze
  <2> QED
    BY <2>1, <2>2
<1> QED
  BY <1>1, <1>2, <1>5 DEF RunningGood

\* The records of a transaction.
LEMMA RecordGood ==
    ASSUME EInv, pc = "transaction", UNCHANGED <<chain, pc>>,
           \/ \E r \in Records : LifecycleRecord(r)
           \/ \E lease \in Leases : AdmissionRecord(lease)
           \/ \E r \in Receipts : ReceiptRecord(r)
    PROVE  RunningGood'
<1> DEFINE h == Height
<1>1. /\ Len(chain) = h /\ h \in Nat /\ h \in U64 /\ state \in States
      /\ DistinctIds(state.histories)
      /\ Len(chain) \in Nat
  BY HeightFacts DEF EInv, IInv, RunningOK, Sound
<1>2. Good(state, chain, Len(chain), h + 1)
  BY <1>1 DEF EInv, RunningGood
<1> HIDE DEF h
<1>3. SUFFICES Good(state', chain, Len(chain), h + 1)
  BY <1>1 DEF RunningGood
<1>4. ASSUME NEW r \in Records, LifecycleRecord(r)
      PROVE  Good(state', chain, Len(chain), h + 1)
  <2>1. LifecycleAccepted(state, r, h) /\ state' = ApplyLifecycle(state, r)
    BY <1>4 DEF LifecycleRecord, h
  <2> QED
    BY <1>1, <1>2, <2>1, GoodLifecycle
<1>5. ASSUME NEW lease \in Leases, AdmissionRecord(lease)
      PROVE  Good(state', chain, Len(chain), h + 1)
  <2>1. \/ /\ LeaseAppended(state, lease, h, chain)
           /\ state' = AppendLease(state, lease, h)
        \/ /\ LeaseReplaced(state, lease, h, chain)
           /\ state' = ReplaceLease(state, lease, h)
    BY <1>5 DEF AdmissionRecord, h
  <2>2. CASE LeaseAppended(state, lease, h, chain) /\ state' = AppendLease(state, lease, h)
    BY <1>1, <1>2, <2>2, GoodAppendLease
  <2>3. CASE LeaseReplaced(state, lease, h, chain) /\ state' = ReplaceLease(state, lease, h)
    BY <1>1, <1>2, <2>3, GoodReplaceLease
  <2> QED
    BY <2>1, <2>2, <2>3
<1>6. ASSUME NEW r \in Receipts, ReceiptRecord(r)
      PROVE  Good(state', chain, Len(chain), h + 1)
  <2>1. ReceiptAccepted(state, r, h, chain) /\ state' = AppendReceipt(state, r, h)
    BY <1>6 DEF ReceiptRecord, h
  <2>2. Ended(Len(chain)) \subseteq Begun(h + 1)
    <3>1. Ended(h) \subseteq Begun(h)
      BY <1>1, EndedBegun
    <3>2. Begun(h) \subseteq Begun(h + 1)
      BY <1>1, BegunStep
    <3> QED
      BY <1>1, <3>1, <3>2
  <2> QED
    BY <1>1, <1>2, <2>1, <2>2, GoodReceipt
<1> QED
  BY <1>4, <1>5, <1>6

\* A remembered state goes on as it should be under other blocks above it.
LEMMA PointKept ==
    ASSUME IInv, NEW i \in 1..Len(past), PointGood(past[i], chain), NEW d,
           \A k \in 1..(Len(chain) - 1) : d[k] = chain[k]
    PROVE  PointGood(past[i], d)
<1> DEFINE n == HeightOf(past[i].tip)
<1>1. n \in Nat /\ n = Len(chain) - 1 - (Len(past) - i)
  BY PastHeights
<1>2. Len(chain) \in Nat /\ Len(past) \in Nat /\ i \in Nat /\ i <= Len(past)
  <2>1. Len(chain) \in Nat
    BY HeightFacts
  <2>2. past \in Seq(Points)
    BY DEF IInv, PastOK
  <2> QED
    BY <2>1, <2>2
<1>3. Good(past[i].state, chain, n, n)
  BY DEF PointGood
<1> HIDE DEF n
<1>4. \A k \in 1..n : d[k] = chain[k]
  BY <1>1, <1>2
<1>5. Good(past[i].state, d, n, n)
  BY <1>1, <1>3, <1>4, SameBlocks
<1> QED
  BY <1>5 DEF PointGood, n

\* The end of a block: the close, and one more state to remember.
LEMMA EndBlockGood ==
    ASSUME EInv, EndBlock, Remember
    PROVE  EInv'
<1> DEFINE h == Height
<1>1. /\ pc = "block" /\ pc' = "idle"
      /\ state' = IF CloseDue(h) THEN close_qualification(state, CloseEpoch(h)) ELSE state
      /\ chain' = Append(chain, hash)
  BY DEF EndBlock
<1>2. /\ Len(chain) = h /\ h \in Nat /\ h \in U64 /\ HeightOf(tip) = h /\ state \in States
      /\ chain \in Seq(BlockHash)
  BY <1>1, HeightFacts DEF EInv
<1>3. IInv' /\ Outer' = state'
  BY EndBlockStep DEF EInv
<1>4. /\ Good(state, chain, h, h + 1)
      /\ Good(Outer, chain, h, h)
  BY <1>1, <1>2 DEF EInv, RunningGood, CommittedGood
<1>5. Committed = [state |-> Outer, tip |-> tip]
  BY CommittedState
<1> HIDE DEF h
<1>6. Len(chain') = h + 1 /\ \A k \in 1..h : chain'[k] = chain[k]
  <2>1. hash \in BlockHash \cup {NullHash}
    BY DEF EInv, IInv, TypeOK
  <2>2. chain \in Seq(BlockHash \cup {NullHash})
    BY <1>2
  <2> QED
    BY <1>1, <1>2, <2>1, <2>2
<1>7. Good(state, chain', h, h + 1) /\ Good(Outer, chain', h, h)
  BY <1>2, <1>4, <1>6, SameBlocks
<1>8. Good(state', chain', h + 1, h + 1)
  <2>1. CASE CloseDue(h)
    BY <1>1, <1>2, <1>7, <2>1, GoodClose
  <2>2. CASE ~ CloseDue(h)
    BY <1>1, <1>2, <1>7, <2>2, GoodNoClose
  <2> QED
    BY <2>1, <2>2
<1>9. RunningGood' /\ CommittedGood'
  BY <1>1, <1>3, <1>6, <1>8 DEF RunningGood, CommittedGood
<1>10. PointGood(Committed, chain')
  <2>1. Committed.state = Outer /\ Committed.tip = tip
    BY <1>5
  <2> QED
    BY <1>2, <1>7, <2>1 DEF PointGood
<1>11. \A i \in 1..Len(past) : PointGood(past[i], chain')
  <2> TAKE i \in 1..Len(past)
  <2>1. PointGood(past[i], chain)
    BY DEF EInv, PastGood
  <2>2. \A k \in 1..(Len(chain) - 1) : chain'[k] = chain[k]
    BY <1>2, <1>6
  <2>3. IInv
    BY DEF EInv
  <2> QED
    BY ZenonT(60), <2>1, <2>2, <2>3, PointKept
<1>12. PastGood'
  <2> DEFINE p == Committed
             c == chain'
  <2>1. /\ past' = IF Len(past) = max_recent_undo_blocks THEN Append(Tail(past), p)
                   ELSE Append(past, p)
        /\ past \in Seq(Points)
        /\ Len(past) \in Nat
        /\ past' \in Seq(Points)
    <3>1. past' = IF Len(past) = max_recent_undo_blocks THEN Append(Tail(past), p)
                  ELSE Append(past, p)
      BY DEF Remember
    <3>2. PastOK /\ PastOK'
      BY <1>3 DEF EInv, IInv
    <3>3. past \in Seq(Points) /\ past' \in Seq(Points)
      BY <3>2 DEF PastOK
    <3>4. Len(past) \in Nat
      BY <3>3
    <3> QED
      BY <3>1, <3>3, <3>4
  <2>2. PointGood(p, c) /\ \A i \in 1..Len(past) : PointGood(past[i], c)
    BY <1>10, <1>11
  <2>3. p \in Points
    <3>1. Outer \in States /\ tip \in U64 \cup {None}
      BY ZenonT(40), <1>1 DEF EInv, IInv, RunningOK, PastOK, Sound
    <3> QED
      BY <1>5, <3>1 DEF Points
  <2> HIDE DEF p, c
  <2>4. ASSUME NEW i \in 1..Len(past')
        PROVE  past'[i] = p \/ \E k \in 1..Len(past) : past'[i] = past[k]
    <3>1. CASE past' = Append(past, p)
      BY <2>1, <2>3, <3>1
    <3>2. CASE past' = Append(Tail(past), p) /\ past = <<>>
      <4>1. Len(past) = 0
        BY <3>2
      <4>2. max_recent_undo_blocks # 0
        BY UndoAssumption
      <4> QED
        BY <2>1, <2>3, <3>1, <4>1, <4>2
    <3>3. CASE past' = Append(Tail(past), p) /\ past # <<>>
      <4> DEFINE t == Tail(past)
      <4>1. /\ t \in Seq(Points) /\ Len(t) = Len(past) - 1
            /\ \A k \in 1..Len(t) : t[k] = past[k + 1]
            /\ Len(past) \in Nat \ {0}
        BY <2>1, <3>3
      <4>2. past' = Append(t, p)
        BY <3>3
      <4> HIDE DEF t
      <4>3. past'[i] = p \/ (i \in 1..Len(t) /\ past'[i] = t[i])
        BY <2>3, <4>1, <4>2
      <4> QED
        BY <4>1, <4>3
    <3> QED
      BY <2>1, <3>1, <3>2, <3>3
  <2>5. \A i \in 1..Len(past') : PointGood(past'[i], c)
    BY <2>2, <2>4
  <2> QED
    BY <2>5 DEF PastGood, c
<1> QED
  BY <1>3, <1>9, <1>12 DEF EInv

\* The disconnected block takes back what rested on it.
LEMMA DisconnectTipGood ==
    ASSUME EInv, DisconnectTip, past' = Front(past)
    PROVE  EInv'
<1> DEFINE n == Len(past)
<1>1. /\ pc = "idle" /\ pc' = "idle" /\ chain' = Front(chain)
  BY DEF DisconnectTip
<1>2. /\ IInv' /\ n > 0 /\ past \in Seq(Points)
      /\ Outer' = past[n].state
      /\ tip' = past[n].tip
  BY DisconnectTipStep DEF EInv
<1>3. state' = Outer'
  BY <1>1 DEF Outer
<1>4. n \in Nat /\ n \in 1..Len(past) /\ IInv
  BY <1>2 DEF EInv
<1>5. Len(chain) \in Nat /\ chain \in Seq(BlockHash) /\ Len(chain) > 0
  <2>1. Len(chain) \in Nat /\ chain \in Seq(BlockHash)
    BY <1>4, HeightFacts
  <2>2. HeightOf(past[n].tip) \in Nat /\ HeightOf(past[n].tip) = Len(chain) - 1 - (Len(past) - n)
    BY <1>4, PastHeights
  <2> QED
    BY <1>4, <2>1, <2>2
<1>6. /\ Len(chain') = Len(chain) - 1
      /\ \A k \in 1..(Len(chain) - 1) : chain'[k] = chain[k]
  BY <1>1, <1>5, FrontType
<1>7. /\ Len(past') = n - 1
      /\ \A i \in 1..(n - 1) : past'[i] = past[i]
  BY <1>2, <1>4, FrontType
<1>8. \A i \in 1..Len(past) : PointGood(past[i], chain')
  <2> TAKE i \in 1..Len(past)
  <2>1. PointGood(past[i], chain)
    BY DEF EInv, PastGood
  <2> QED
    BY <1>4, <1>6, <2>1, PointKept
<1>9. HeightOf(past[n].tip) = Len(chain')
  <2> DEFINE a == HeightOf(past[n].tip)
             c == Len(chain)
             d == Len(chain')
  <2>1. a = c - 1 - (Len(past) - n) /\ Len(past) = n
    BY <1>4, PastHeights
  <2>2. c \in Nat /\ d = c - 1
    BY <1>5, <1>6
  <2> HIDE DEF a, c, d, n
  <2>3. a = d
    BY <1>4, <2>1, <2>2
  <2> QED
    BY <2>3 DEF a, d
<1>10. Good(Outer', chain', Len(chain'), Len(chain'))
  BY <1>2, <1>4, <1>8, <1>9 DEF PointGood
<1>11. RunningGood' /\ CommittedGood'
  BY <1>1, <1>3, <1>10 DEF RunningGood, CommittedGood
<1>12. PastGood'
  <2>1. \A i \in 1..Len(past') : past'[i] = past[i] /\ i \in 1..Len(past)
    BY <1>4, <1>7
  <2> QED
    BY <1>8, <2>1 DEF PastGood
<1> QED
  BY <1>2, <1>11, <1>12 DEF EInv

\* The steps inside a block.
LEMMA StepInBlockGood ==
    ASSUME EInv, StepInBlock(BlockHash, Records, Leases, Receipts), past' = past
    PROVE  EInv'
<1>1. IInv' /\ Outer' = Outer
  BY StepInBlockStep DEF EInv
<1>2. chain' = chain
  BY DEF StepInBlock, BeginBlock, BeginTransaction, LifecycleRecord, ThrowAfterLog,
         AdmissionRecord, ReceiptRecord, EndTransaction, Refuse, Unwind
<1>3. RunningGood'
  <2>1. CASE \E block_id \in BlockHash : BeginBlock(block_id)
    BY <2>1, BeginBlockGood
  <2>2. CASE BeginTransaction \/ EndTransaction
    BY <2>2 DEF BeginTransaction, EndTransaction, EInv, RunningGood
  <2>3. CASE \/ \E r \in Records : LifecycleRecord(r)
             \/ \E lease \in Leases : AdmissionRecord(lease)
             \/ \E r \in Receipts : ReceiptRecord(r)
    <3>1. pc = "transaction" /\ UNCHANGED <<chain, pc>>
      BY <2>3 DEF LifecycleRecord, AdmissionRecord, ReceiptRecord
    <3> QED
      BY <2>3, <3>1, RecordGood
  <2>4. CASE Refuse \/ \E r \in Records : ThrowAfterLog(r)
    <3>1. pc' = "idle"
      BY <2>4 DEF Refuse, ThrowAfterLog, Unwind
    <3> QED
      BY <1>1, <1>2, <3>1, UnwoundGood
  <2> QED
    BY <2>1, <2>2, <2>3, <2>4 DEF StepInBlock
<1> QED
  BY <1>1, <1>2, <1>3, InBlock

-----------------------------------------------------------------------------
(* The theorems *)

\* The state of a node, the one a failing block returns to and the ones the journals
\* restore rest on the blocks below them, with the epochs due there frozen and closed
\* (block_transition_v2.cpp:131 and :174).
THEOREM EpochInvariant == HistorySpec => []EInv
<1>1. HistoryInit => EInv
  BY InitGood
<1>2. EInv /\ [HistoryStep(BlockHash, Records, Leases, Receipts)]_historyVars => EInv'
  <2> SUFFICES ASSUME EInv, [HistoryStep(BlockHash, Records, Leases, Receipts)]_historyVars
               PROVE  EInv'
    OBVIOUS
  <2>1. CASE StepInBlock(BlockHash, Records, Leases, Receipts) /\ UNCHANGED past
    BY <2>1, StepInBlockGood
  <2>2. CASE EndBlock /\ Remember
    BY <2>2, EndBlockGood
  <2>3. CASE DisconnectTip /\ past' = Front(past)
    BY <2>3, DisconnectTipGood
  <2>4. CASE UNCHANGED historyVars
    <3>1. IInv' /\ Outer' = Outer
      BY <2>4, StutterStep DEF EInv
    <3>2. UNCHANGED <<state, chain, pc, past>>
      BY <2>4 DEF historyVars
    <3>3. RunningGood'
      BY <3>2 DEF EInv, RunningGood
    <3> QED
      BY <3>1, <3>2, <3>3, InBlock
  <2> QED
    BY <2>1, <2>2, <2>3, <2>4 DEF HistoryStep
<1> QED
  BY <1>1, <1>2, PTL DEF HistorySpec

\* Leases and receipts always rest on blocks of the current chain, also after
\* blocks were disconnected and others connected (semantic_batch_v2.cpp:155 and :208).
THEOREM EpochEvidenceIsCanonical == HistorySpec => []EvidenceIsCanonical
<1>1. EInv => EvidenceIsCanonical
  <2> SUFFICES ASSUME EInv PROVE EvidenceIsCanonical
    OBVIOUS
  <2> DEFINE n == Len(chain)
  <2>1. n \in Nat
    BY HeightFacts DEF EInv
  <2>2. /\ LeasesOn(state.leases, chain, n)
        /\ ReceiptsOn(state.receipts, chain, n)
        /\ SnapshotsKnown(state.receipts, state.snapshots)
    BY DEF EInv, RunningGood, Good
  <2>3. ASSUME NEW x \in 0..(n - 1)
        PROVE  HasBlock(chain, x) /\ chain[x + 1] = block_hash(chain, x)
    BY <2>1, <2>3 DEF HasBlock, block_hash, None
  <2> HIDE DEF n
  <2>4. ASSUME NEW i \in DOMAIN state.leases
        PROVE  LET s == state.leases[i]
                   context == epoch_start(s.lease.target_epoch - 1)
               IN  /\ HasBlock(chain, context)
                   /\ s.lease.admission_context_hash = block_hash(chain, context)
    BY <2>2, <2>3 DEF LeasesOn, LeaseOn
  <2>5. ASSUME NEW i \in DOMAIN state.receipts
        PROVE  LET r == state.receipts[i].receipt_hash
                   anchor == round_anchor_height(r.epoch, r.round)
               IN  /\ HasBlock(chain, anchor)
                   /\ r.anchor_hash = block_hash(chain, anchor)
                   /\ r.snapshot_hash \in state.snapshots
    BY <2>2, <2>3 DEF ReceiptsOn, ReceiptOn, SnapshotsKnown
  <2> QED
    BY <2>4, <2>5 DEF EvidenceIsCanonical, EntriesOf
<1> QED
  BY <1>1, EpochInvariant, PTL

\* A frozen member keeps the descriptor it was frozen with (coordinator_v2.cpp:179).
THEOREM EpochFrozenMembersAuthorized == HistorySpec => []FrozenMembersAuthorized
<1>1. EInv => FrozenMembersAuthorized
  BY DEF EInv, RunningGood, Good, Authorized, FrozenMembersAuthorized
<1> QED
  BY <1>1, EpochInvariant, PTL

\* A closed qualification set is what the receipts of its epoch still say
\* (membership_v2.cpp:746).
THEOREM EpochQualificationSettled == HistorySpec => []QualificationSettled
<1>1. EInv => QualificationSettled
  BY DEF EInv, RunningGood, Good, Settled, QualificationSettled
<1> QED
  BY <1>1, EpochInvariant, PTL

\* Every block at a payout height finds the closed set of the epoch before it
\* (coordinator_v2.cpp:146).
THEOREM EpochPayoutSetClosed == HistorySpec => []PayoutSetClosed
<1>1. EInv => PayoutSetClosed
  <2> SUFFICES ASSUME EInv, pc = "idle", first_payout_height # None,
                      Height \in first_payout_height..U64Max
               PROVE  Height \div epoch_length - 1 \in EpochsOf(state.qualifications)
    BY DEF PayoutSetClosed
  <2>1. Len(chain) = Height /\ Height \in Nat
    BY HeightFacts DEF EInv
  <2>2. Height \in U64 /\ Height >= first_payout_height
    BY <2>1, TimingAssumption DEF U64
  <2>3. EpochsOf(state.qualifications) = Ended(Height)
    BY <2>1 DEF EInv, RunningGood, Good
  <2> QED
    BY <2>2, <2>3, PayoutTiming
<1> QED
  BY <1>1, EpochInvariant, PTL

\* The leases of an epoch give a snapshot that is not too large and has no identity
\* and no key twice.
LEMMA FreezeSucceeds ==
    ASSUME NEW st \in States, DistinctLeases(st.leases), NEW h \in U64, FreezeDue(h),
           NEW c, NEW n, Good(st, c, n, h)
    PROVE  FreezePossible(st, FreezeEpoch(h), h)
<1> DEFINE e == FreezeEpoch(h)
           leases == st.leases
           authorized == AuthorizedMembers(st.histories, e)
           eligible == Eligible(leases, authorized, e)
           all == {i \in DOMAIN leases : leases[i].lease.target_epoch = e}
<1>1. /\ e \in U64 /\ committee_anchor(e) = h /\ enrollment_cutoff(e) # None
      /\ e >= first_service_epoch
  BY FreezeTiming
<1>2. first_service_epoch # None
  BY FirstServiceEpoch DEF None
<1>3. e \notin EpochsOf(st.snapshots)
  BY BegunStep DEF Good
<1>4. leases \in Seq(StoredLeases)
  BY DEF States
<1> HIDE DEF e, leases
<1>5. eligible \subseteq all /\ \A i \in eligible : i \in DOMAIN leases
  BY DEF Eligible
<1>6. IsFiniteSet(all) /\ Cardinality(all) \in Nat
  BY ZenonT(60), <1>4, PopulationType DEF EpochPopulation
<1>7. Cardinality(all) <= max_active_population
  BY <1>1 DEF Good, Populated, EpochPopulation, leases
<1> HIDE DEF eligible
<1>8. Cardinality(eligible) <= max_active_population
  <2> HIDE DEF all
  <2>1. IsFiniteSet(eligible) /\ Cardinality(eligible) <= Cardinality(all)
    BY <1>5, <1>6, FS_Subset
  <2>2. Cardinality(eligible) \in Nat
    BY <2>1, FS_CardinalityType
  <2> QED
    BY <1>6, <1>7, <2>1, <2>2, CommitteeAssumption
<1>9. ASSUME NEW i \in eligible, NEW j \in eligible,
             \/ leases[i].lease.member.identity_id = leases[j].lease.member.identity_id
             \/ leases[i].lease.member.service_public_key
                  = leases[j].lease.member.service_public_key
      PROVE  i = j
  <2>1. /\ i \in DOMAIN leases /\ j \in DOMAIN leases
        /\ leases[i].lease.target_epoch = leases[j].lease.target_epoch
    BY <1>5
  <2> QED
    BY <1>9, <2>1 DEF DistinctLeases, leases
<1>10. FreezeAllowed(leases, st.snapshots, authorized, e, h)
  BY <1>1, <1>2, <1>3, <1>8, <1>9 DEF FreezeAllowed, eligible
<1> QED
  BY <1>10 DEF FreezePossible, e, leases

\* The close at the end of an epoch finds its snapshot and no earlier close.
LEMMA CloseSucceeds ==
    ASSUME NEW st, NEW h \in U64, CloseDue(h), NEW c, Good(st, c, h, h + 1)
    PROVE  ClosePossible(st, CloseEpoch(h), h)
<1>1. evidence_deadline(CloseEpoch(h)) = h /\ h # None
  BY CloseTiming DEF U64, None
<1>2. CloseEpoch(h) \notin Ended(h)
  BY EndedStep
<1>3. CloseEpoch(h) \in Begun(h + 1)
  BY CloseAfterFreeze
<1> QED
  BY <1>1, <1>2, <1>3 DEF Good, ClosePossible, CloseAllowed

\* The boundary operations of the next block cannot fail, whatever the blocks before
\* it contained (block_transition_v2.cpp:143 and :189).
THEOREM EpochBoundariesSucceed == HistorySpec => []BoundariesSucceed
<1>1. EInv => BoundariesSucceed
  <2> SUFFICES ASSUME EInv PROVE BoundariesSucceed
    OBVIOUS
  <2>1. /\ Len(chain) = Height /\ Height \in Nat /\ state \in States
        /\ pc # "idle" => Height \in U64
    BY HeightFacts DEF EInv
  <2>2. ASSUME pc = "idle", FreezeDue(Height)
        PROVE  FreezePossible(state, FreezeEpoch(Height), Height)
    <3>1. Height \in U64
      BY <2>1, <2>2, TimingAssumption DEF FreezeDue, U64
    <3>2. Good(state, chain, Height, Height)
      BY <2>1, <2>2 DEF EInv, RunningGood
    <3>3. DistinctLeases(state.leases)
      BY DEF EInv, IInv, RunningOK, Sound
    <3> QED
      BY <2>1, <2>2, <3>1, <3>2, <3>3, FreezeSucceeds
  <2>3. ASSUME pc = "block", CloseDue(Height)
        PROVE  ClosePossible(state, CloseEpoch(Height), Height)
    <3>1. Good(state, chain, Height, Height + 1) /\ Height \in U64
      BY <2>1, <2>3 DEF EInv, RunningGood
    <3> QED
      BY <2>3, <3>1, CloseSucceeds
  <2> QED
    BY <2>2, <2>3 DEF BoundariesSucceed
<1> QED
  BY <1>1, EpochInvariant, PTL

=============================================================================
