------------------------ MODULE SemanticState_proofs ------------------------
(***************************************************************************)
(* Lemmas about the registry and the journals: where a record goes, what a *)
(* lookup finds and which epochs an appended record leaves alone; what     *)
(* rollback restores, that the journals of a transaction and of its block  *)
(* join to one that undoes both, and that every record that is logged can  *)
(* be undone.                                                              *)
(***************************************************************************)
EXTENDS SemanticState, WellFoundedInduction, TLAPS

\* No identity has two histories.
DistinctIds(h) ==
    \A i, j \in DOMAIN h : h[i].identity_id = h[j].identity_id => i = j

-----------------------------------------------------------------------------
(* The registry: types and lookups *)

\* What the index of a sequence finds.
LEMMA SeqElement ==
    ASSUME NEW S, NEW s \in Seq(S), NEW i \in DOMAIN s
    PROVE  s[i] \in S /\ i \in 1..Len(s)
OBVIOUS

\* What the index of a registry finds.
LEMMA HistoryType ==
    ASSUME NEW h \in Histories, NEW i \in DOMAIN h
    PROVE  /\ i \in 1..Len(h)
           /\ h[i].identity_id \in Identity
           /\ h[i].records \in Seq(Records)
           /\ h[i].records # <<>>
<1>1. h[i] \in History /\ i \in 1..Len(h)
  BY SeqElement DEF Histories
<1> QED
  BY <1>1 DEF History

\* The lookup of a registered identity finds its history.
LEMMA HistoryIndexLemma ==
    ASSUME NEW h \in Histories, DistinctIds(h), NEW id \in Identity, Registered(h, id)
    PROVE  /\ HistoryIndex(h, id) \in DOMAIN h
           /\ h[HistoryIndex(h, id)].identity_id = id
<1>1. PICK i \in DOMAIN h : h[i].identity_id = id
  BY DEF Registered
<1>2. \A j \in 1..(i - 1) : h[j].identity_id # id
  BY <1>1, HistoryType DEF DistinctIds, Histories
<1> QED
  BY <1>1, <1>2 DEF HistoryIndex

\* In a registry with distinct ids, the history found is the only candidate.
LEMMA HistoryIndexUnique ==
    ASSUME NEW h \in Histories, DistinctIds(h), NEW i \in DOMAIN h
    PROVE  HistoryIndex(h, h[i].identity_id) = i
<1>1. h[i].identity_id \in Identity /\ Registered(h, h[i].identity_id)
  BY HistoryType DEF Registered
<1> QED
  BY <1>1, HistoryIndexLemma DEF DistinctIds

\* A registration adds one history at the end and touches no other.
LEMMA PushRegistration ==
    ASSUME NEW h \in Histories, NEW r \in Records, r.action = "register_identity"
    PROVE  /\ PushRecord(h, r) \in Histories
           /\ Len(PushRecord(h, r)) = Len(h) + 1
           /\ \A j \in DOMAIN h : PushRecord(h, r)[j] = h[j]
           /\ PushRecord(h, r)[Len(h) + 1]
                = [identity_id |-> r.next_descriptor.identity_id, records |-> <<r>>]
<1> DEFINE new == [identity_id |-> r.next_descriptor.identity_id, records |-> <<r>>]
<1>1. r.next_descriptor.identity_id \in Identity
  BY DEF Records, Descriptors
<1>2. <<r>> \in Seq(Records) \ {<<>>}
  OBVIOUS
<1>3. new \in History
  BY <1>1, <1>2 DEF History
<1>4. PushRecord(h, r) = Append(h, new)
  BY DEF PushRecord
<1> HIDE DEF new
<1>5. /\ Append(h, new) \in Histories
      /\ Len(Append(h, new)) = Len(h) + 1
      /\ \A j \in DOMAIN h : Append(h, new)[j] = h[j]
      /\ Append(h, new)[Len(h) + 1] = new
  BY <1>3 DEF Histories
<1> QED
  BY <1>4, <1>5 DEF new

\* Any other record is appended to the history of its identity.
LEMMA PushTransition ==
    ASSUME NEW h \in Histories, DistinctIds(h), NEW r \in Records,
           r.action # "register_identity", Registered(h, r.next_descriptor.identity_id)
    PROVE  LET i == HistoryIndex(h, r.next_descriptor.identity_id)
               g == PushRecord(h, r)
           IN  /\ g \in Histories
               /\ i \in DOMAIN h
               /\ h[i].identity_id = r.next_descriptor.identity_id
               /\ DOMAIN g = DOMAIN h
               /\ \A j \in DOMAIN h : j # i => g[j] = h[j]
               /\ g[i].identity_id = h[i].identity_id
               /\ g[i].records = Append(h[i].records, r)
<1> DEFINE i == HistoryIndex(h, r.next_descriptor.identity_id)
           g == PushRecord(h, r)
<1>1. r.next_descriptor.identity_id \in Identity
  BY DEF Records, Descriptors
<1>2. i \in DOMAIN h /\ h[i].identity_id = r.next_descriptor.identity_id
  BY <1>1, HistoryIndexLemma
<1>3. g = [h EXCEPT ![i].records = Append(@, r)]
  BY DEF PushRecord
<1>4. h[i] \in History
  BY <1>2, SeqElement DEF Histories
<1> DEFINE rs == Append(h[i].records, r)
<1>5. rs \in Seq(Records) /\ rs # <<>>
  BY <1>4 DEF History
<1> HIDE DEF i, rs
<1>6. g = [h EXCEPT ![i] = [h[i] EXCEPT !.records = rs]]
  BY <1>3 DEF rs
<1>7. [h[i] EXCEPT !.records = rs] \in History
  BY <1>4, <1>5 DEF History
<1>8. g \in Histories /\ DOMAIN g = DOMAIN h
  BY <1>2, <1>6, <1>7 DEF Histories
<1>9. /\ \A j \in DOMAIN h : j # i => g[j] = h[j]
      /\ g[i].identity_id = h[i].identity_id
      /\ g[i].records = rs
  BY <1>2, <1>4, <1>6 DEF History, Histories
<1> QED
  BY <1>2, <1>8, <1>9 DEF i, rs, Histories

\* What the index of a history finds.
LEMMA RecordType ==
    ASSUME NEW rs \in Seq(Records), NEW k \in DOMAIN rs
    PROVE  /\ k \in 1..Len(rs)
           /\ rs[k] \in Records
           /\ rs[k].next_descriptor \in Descriptors
           /\ rs[k].next_descriptor.effective_epoch \in Int
           /\ rs[k].next_descriptor.expiry_epoch \in Int
<1>1. rs[k] \in Records /\ k \in 1..Len(rs)
  BY SeqElement
<1>2. rs[k].next_descriptor \in Descriptors
  BY <1>1 DEF Records
<1> QED
  BY <1>1, <1>2, TimingAssumption DEF Descriptors, U64

\* Appending a record shortens the interval of its predecessor at most and leaves
\* the others alone.
LEMMA EndOfAppend ==
    ASSUME NEW rs \in Seq(Records), NEW r \in Records, NEW k \in DOMAIN rs
    PROVE  /\ EndOf(Append(rs, r), k) \in Int
           /\ EndOf(rs, k) \in Int
           /\ EndOf(Append(rs, r), k) <= EndOf(rs, k)
<1> DEFINE qs == Append(rs, r)
<1>1. /\ qs \in Seq(Records)
      /\ Len(qs) = Len(rs) + 1
      /\ k \in 1..Len(rs)
      /\ qs[k] = rs[k]
      /\ \A j \in 1..Len(rs) : qs[j] = rs[j]
      /\ k + 1 \in DOMAIN qs
  OBVIOUS
<1> HIDE DEF qs
<1>2. /\ rs[k].next_descriptor.expiry_epoch \in Int
      /\ qs[k + 1].next_descriptor.effective_epoch \in Int
      /\ k < Len(rs) => k + 1 \in DOMAIN rs
      /\ k < Len(rs) => rs[k + 1].next_descriptor.effective_epoch \in Int
  BY <1>1, RecordType
<1>3. CASE k < Len(rs)
  BY <1>1, <1>2, <1>3 DEF EndOf, qs
<1>4. CASE ~ (k < Len(rs))
  BY <1>1, <1>2, <1>4 DEF EndOf, qs
<1> QED
  BY <1>3, <1>4

\* The end of an interval is a number.
LEMMA EndOfType ==
    ASSUME NEW rs \in Seq(Records), NEW k \in DOMAIN rs
    PROVE  EndOf(rs, k) \in Int
BY EndOfAppend, RecordType

-----------------------------------------------------------------------------
(* What an appended record changes *)

\* An accepted record is a registration of a new identity or a record on a
\* registered one.
LEMMA AcceptedKinds ==
    ASSUME NEW h, NEW r, NEW authentic, NEW inclusion, NEW minimum,
           Accepts(h, r, authentic, inclusion, minimum)
    PROVE  Registered(h, r.next_descriptor.identity_id) <=> r.action # "register_identity"
BY DEF Accepts, RegistrationAllowed, TransitionAllowed, ActionAllowed

\* An accepted record leaves a registry in which no identity has two histories.
LEMMA PushKeepsRegistry ==
    ASSUME NEW h \in Histories, DistinctIds(h), NEW r \in Records,
           Registered(h, r.next_descriptor.identity_id) <=> r.action # "register_identity"
    PROVE  PushRecord(h, r) \in Histories /\ DistinctIds(PushRecord(h, r))
<1> DEFINE g == PushRecord(h, r)
<1>1. CASE r.action = "register_identity"
  <2>1. /\ g \in Histories
        /\ Len(g) = Len(h) + 1
        /\ \A j \in DOMAIN h : g[j] = h[j]
        /\ g[Len(h) + 1]
             = [identity_id |-> r.next_descriptor.identity_id, records |-> <<r>>]
    BY <1>1, PushRegistration
  <2>2. DOMAIN g = DOMAIN h \cup {Len(h) + 1}
    BY <2>1 DEF Histories
  <2> HIDE DEF g
  <2> QED
    BY <1>1, <2>1, <2>2 DEF DistinctIds, Registered, g
<1>2. CASE r.action # "register_identity"
  <2>1. LET i == HistoryIndex(h, r.next_descriptor.identity_id)
        IN  /\ g \in Histories
            /\ DOMAIN g = DOMAIN h
            /\ \A j \in DOMAIN h : j # i => g[j] = h[j]
            /\ g[i].identity_id = h[i].identity_id
    BY <1>2, PushTransition
  <2> HIDE DEF g
  <2> QED
    BY <2>1 DEF DistinctIds, g
<1> QED
  BY <1>1, <1>2

\* An identity whose history is the same in two registries is found the same.
LEMMA SameLookup ==
    ASSUME NEW h \in Histories, NEW g \in Histories, DistinctIds(h), DistinctIds(g),
           NEW id \in Identity,
           \A j \in DOMAIN h : h[j].identity_id = id => j \in DOMAIN g /\ g[j] = h[j],
           \A j \in DOMAIN g : g[j].identity_id = id => j \in DOMAIN h /\ g[j] = h[j]
    PROVE  /\ Registered(g, id) <=> Registered(h, id)
           /\ Registered(h, id) => RecordsOf(g, id) = RecordsOf(h, id)
<1>1. Registered(g, id) <=> Registered(h, id)
  BY DEF Registered
<1>2. ASSUME Registered(h, id)
      PROVE  RecordsOf(g, id) = RecordsOf(h, id)
  <2>1. HistoryIndex(h, id) \in DOMAIN h /\ h[HistoryIndex(h, id)].identity_id = id
    BY <1>2, HistoryIndexLemma
  <2>2. HistoryIndex(g, id) \in DOMAIN g /\ g[HistoryIndex(g, id)].identity_id = id
    BY <1>1, <1>2, HistoryIndexLemma
  <2>3. HistoryIndex(g, id) = HistoryIndex(h, id)
    BY <2>1, <2>2 DEF DistinctIds
  <2> QED
    BY <2>1, <2>3 DEF RecordsOf
<1> QED
  BY <1>1, <1>2

\* A record on another identity leaves the history of this one alone.
LEMMA OtherIdentity ==
    ASSUME NEW h \in Histories, DistinctIds(h), NEW r \in Records,
           Registered(h, r.next_descriptor.identity_id) <=> r.action # "register_identity",
           NEW id \in Identity, id # r.next_descriptor.identity_id
    PROVE  /\ Registered(PushRecord(h, r), id) <=> Registered(h, id)
           /\ Registered(h, id) => RecordsOf(PushRecord(h, r), id) = RecordsOf(h, id)
<1> DEFINE g == PushRecord(h, r)
<1>1. g \in Histories /\ DistinctIds(g)
  BY PushKeepsRegistry
<1>2. CASE r.action = "register_identity"
  <2>1. /\ Len(g) = Len(h) + 1
        /\ \A j \in DOMAIN h : g[j] = h[j]
        /\ g[Len(h) + 1].identity_id = r.next_descriptor.identity_id
    <3>1. /\ Len(g) = Len(h) + 1
          /\ \A j \in DOMAIN h : g[j] = h[j]
          /\ g[Len(h) + 1]
               = [identity_id |-> r.next_descriptor.identity_id, records |-> <<r>>]
      BY <1>1, <1>2, PushRegistration
    <3> QED
      BY <3>1
  <2>2. DOMAIN g = DOMAIN h \cup {Len(h) + 1}
    BY <1>1, <2>1 DEF Histories
  <2> QED
    BY <1>1, <2>1, <2>2, SameLookup
<1>3. CASE r.action # "register_identity"
  <2>1. Registered(h, r.next_descriptor.identity_id)
    BY <1>3
  <2>2. LET i == HistoryIndex(h, r.next_descriptor.identity_id)
        IN  /\ i \in DOMAIN h
            /\ h[i].identity_id = r.next_descriptor.identity_id
            /\ DOMAIN g = DOMAIN h
            /\ \A j \in DOMAIN h : j # i => g[j] = h[j]
            /\ g[i].identity_id = h[i].identity_id
    BY <1>1, <1>3, <2>1, PushTransition
  <2> QED
    BY <1>1, <2>2, SameLookup
<1> QED
  BY <1>2, <1>3

\* A record on a registered identity is appended to the history it had.
LEMMA SameIdentity ==
    ASSUME NEW h \in Histories, DistinctIds(h), NEW r \in Records,
           Registered(h, r.next_descriptor.identity_id) <=> r.action # "register_identity",
           r.action # "register_identity"
    PROVE  LET id == r.next_descriptor.identity_id
           IN  /\ Registered(h, id)
               /\ Registered(PushRecord(h, r), id)
               /\ RecordsOf(h, id) \in Seq(Records) \ {<<>>}
               /\ RecordsOf(PushRecord(h, r), id) = Append(RecordsOf(h, id), r)
<1> DEFINE g == PushRecord(h, r)
           id == r.next_descriptor.identity_id
           i == HistoryIndex(h, r.next_descriptor.identity_id)
<1>1. g \in Histories /\ DistinctIds(g)
  BY PushKeepsRegistry
<1>2. Registered(h, id)
  OBVIOUS
<1>3. /\ i \in DOMAIN h
      /\ DOMAIN g = DOMAIN h
      /\ g[i].identity_id = id
      /\ g[i].records = Append(h[i].records, r)
  BY <1>1, <1>2, PushTransition
<1>4. HistoryIndex(g, id) = i
  BY <1>1, <1>3, HistoryIndexUnique
<1>5. h[i].records \in Seq(Records) \ {<<>>}
  BY <1>1, <1>3, HistoryType
<1> QED
  BY <1>2, <1>3, <1>4, <1>5 DEF Registered, RecordsOf

\* A record that takes effect after an epoch does not change which record the
\* scan for that epoch selects.
LEMMA GovernsAppend ==
    ASSUME NEW rs \in Seq(Records) \ {<<>>}, NEW r \in Records, NEW epoch \in U64,
           epoch < r.next_descriptor.effective_epoch
    PROVE  {k \in DOMAIN Append(rs, r) : Governs(Append(rs, r), k, epoch)}
             = {k \in DOMAIN rs : Governs(rs, k, epoch)}
<1> DEFINE qs == Append(rs, r)
           n == Len(rs)
<1>1. /\ n \in Nat \ {0}
      /\ DOMAIN rs = 1..n
      /\ DOMAIN qs = 1..(n + 1)
      /\ Len(qs) = n + 1
      /\ \A k \in 1..n : qs[k] = rs[k]
      /\ qs[n + 1] = r
  OBVIOUS
<1>2. epoch \in Int /\ r.next_descriptor.effective_epoch \in Int
  BY DEF U64, Records, Descriptors
<1> HIDE DEF qs, n
<1>3. ASSUME NEW k \in 1..n
      PROVE  Governs(qs, k, epoch) <=> Governs(rs, k, epoch)
  <2>1. (\A j \in 1..k : qs[j].next_descriptor.effective_epoch <= epoch)
          <=> (\A j \in 1..k : rs[j].next_descriptor.effective_epoch <= epoch)
    BY <1>1
  <2>2. CASE k < n
    <3>1. k + 1 \in 1..n
      BY <1>1, <2>2
    <3> QED
      BY <1>1, <2>1, <2>2, <3>1 DEF Governs, ScanStopsAt
  <2>3. CASE k = n
    BY <1>1, <1>2, <2>1, <2>3 DEF Governs, ScanStopsAt
  <2>4. k < n \/ k = n
    BY <1>1, <1>3
  <2> QED
    BY <2>2, <2>3, <2>4
<1>4. ~ Governs(qs, n + 1, epoch)
  BY <1>1, <1>2 DEF Governs, ScanStopsAt
<1> QED
  BY <1>1, <1>3, <1>4 DEF qs

\* Nor does it change the descriptor of that epoch.
LEMMA GovernedByAppend ==
    ASSUME NEW rs \in Seq(Records) \ {<<>>}, NEW r \in Records, NEW epoch \in U64,
           epoch < r.next_descriptor.effective_epoch
    PROVE  GovernedBy(Append(rs, r), epoch) = GovernedBy(rs, epoch)
<1> DEFINE qs == Append(rs, r)
           S == {k \in DOMAIN rs : Governs(rs, k, epoch)}
           T == {k \in DOMAIN qs : Governs(qs, k, epoch)}
<1>1. T = S
  BY GovernsAppend
<1>2. \A k \in S : qs[k] = rs[k]
  OBVIOUS
<1>3. /\ GovernedBy(rs, epoch)
           = IF S = {} THEN NullDescriptor ELSE rs[CHOOSE k \in S : TRUE].next_descriptor
      /\ GovernedBy(qs, epoch)
           = IF T = {} THEN NullDescriptor ELSE qs[CHOOSE k \in T : TRUE].next_descriptor
  BY DEF GovernedBy
<1> DEFINE c == CHOOSE k \in S : TRUE
<1>4. S # {} => c \in S
  OBVIOUS
<1>5. (CHOOSE k \in T : TRUE) = c
  BY <1>1
<1> HIDE DEF S, T, c
<1>6. CASE S = {}
  BY <1>1, <1>3, <1>6
<1>7. CASE S # {}
  <2>1. GovernedBy(rs, epoch) = rs[c].next_descriptor
    BY <1>3, <1>7 DEF c
  <2>2. GovernedBy(qs, epoch) = qs[c].next_descriptor
    BY <1>1, <1>3, <1>5, <1>7
  <2>3. qs[c] = rs[c]
    BY <1>2, <1>4, <1>7
  <2> QED
    BY <2>1, <2>2, <2>3
<1> QED
  BY <1>6, <1>7

\* A record changes no epoch before the one in which it takes effect.
LEMMA PushKeepsEarlier ==
    ASSUME NEW h \in Histories, DistinctIds(h), NEW r \in Records,
           Registered(h, r.next_descriptor.identity_id) <=> r.action # "register_identity",
           NEW id \in Identity, NEW epoch \in U64, epoch < r.next_descriptor.effective_epoch
    PROVE  descriptor_for_epoch(PushRecord(h, r), id, epoch) = descriptor_for_epoch(h, id, epoch)
<1> DEFINE g == PushRecord(h, r)
<1>1. CASE id # r.next_descriptor.identity_id
  <2>1. /\ Registered(g, id) <=> Registered(h, id)
        /\ Registered(h, id) => RecordsOf(g, id) = RecordsOf(h, id)
    BY <1>1, OtherIdentity
  <2> QED
    BY <2>1 DEF descriptor_for_epoch
<1>2. CASE id = r.next_descriptor.identity_id /\ r.action # "register_identity"
  <2>1. /\ Registered(h, id)
        /\ Registered(g, id)
        /\ RecordsOf(h, id) \in Seq(Records) \ {<<>>}
        /\ RecordsOf(g, id) = Append(RecordsOf(h, id), r)
    BY <1>2, SameIdentity
  <2> QED
    BY <2>1, GovernedByAppend DEF descriptor_for_epoch
<1>3. CASE id = r.next_descriptor.identity_id /\ r.action = "register_identity"
  <2>1. ~ Registered(h, id)
    BY <1>3
  <2>2. /\ g \in Histories
        /\ DistinctIds(g)
        /\ Len(h) + 1 \in DOMAIN g
        /\ g[Len(h) + 1] = [identity_id |-> id, records |-> <<r>>]
    <3>1. /\ Len(g) = Len(h) + 1
          /\ g[Len(h) + 1] = [identity_id |-> id, records |-> <<r>>]
      BY <1>3, PushRegistration
    <3>2. g \in Histories /\ DistinctIds(g)
      BY PushKeepsRegistry
    <3> QED
      BY <3>1, <3>2 DEF Histories
  <2>3. Registered(g, id) /\ RecordsOf(g, id) = <<r>>
    <3>1. HistoryIndex(g, id) = Len(h) + 1
      BY <2>2, HistoryIndexUnique
    <3> QED
      BY <2>2, <3>1 DEF Registered, RecordsOf
  <2>4. \A k \in DOMAIN <<r>> : ~ Governs(<<r>>, k, epoch)
    <3>1. epoch \in Int /\ r.next_descriptor.effective_epoch \in Int
      BY DEF U64, Records, Descriptors
    <3> QED
      BY <3>1 DEF Governs, ScanStopsAt
  <2>5. GovernedBy(<<r>>, epoch) = NullDescriptor
    BY <2>4 DEF GovernedBy
  <2> QED
    BY <2>1, <2>3, <2>5 DEF descriptor_for_epoch
<1> QED
  BY <1>1, <1>2, <1>3

-----------------------------------------------------------------------------
(* Lists and logs *)

\* The order of the natural numbers is a well-founded relation.
LEMMA NatOrder ==
    \E R : IsWellFoundedOn(R, Nat) /\ \A x, y \in Nat : x < y => <<x, y>> \in R
<1> DEFINE R == OpToRel(<, Nat)
<1>1. IsWellFoundedOn(R, Nat)
  BY NatLessThanWellFounded
<1>2. \A x, y \in Nat : x < y => <<x, y>> \in R
  BY DEF OpToRel
<1> HIDE DEF R
<1> QED
  BY <1>1, <1>2

\* A set of natural numbers has a least element.
LEMMA LeastElement ==
    ASSUME NEW S \in SUBSET Nat, S # {}
    PROVE  \E i \in S : \A j \in S : i <= j
<1>1. PICK R : IsWellFoundedOn(R, Nat) /\ \A x, y \in Nat : x < y => <<x, y>> \in R
  BY NatOrder
<1>2. PICK i \in S : \A j \in S : ~ (<<j, i>> \in R)
  <2>1. IsWellFoundedOn(R, Nat) /\ S \subseteq Nat
    BY <1>1
  <2> QED
    BY <2>1, WFMin
<1>3. \A j \in S : ~ (j < i)
  BY ZenonT(60), <1>1, <1>2
<1>4. \A j \in S : i <= j
  BY <1>3
<1> QED
  BY <1>4

\* A list that is cut keeps its type and what is left of it.
LEMMA ResizeType ==
    ASSUME NEW S, NEW s \in Seq(S), NEW n \in 0..Len(s)
    PROVE  /\ resize(s, n) \in Seq(S)
           /\ Len(resize(s, n)) = n
           /\ DOMAIN resize(s, n) = 1..n
           /\ \A i \in 1..n : resize(s, n)[i] = s[i]
BY DEF resize

\* Two lists with the same elements are the same.
LEMMA SameList ==
    ASSUME NEW S, NEW s \in Seq(S), NEW t \in Seq(S), Len(s) = Len(t),
           \A i \in 1..Len(s) : s[i] = t[i]
    PROVE  s = t
OBVIOUS

\* A list that is cut at its length is not changed.
LEMMA ResizeAll ==
    ASSUME NEW S, NEW s \in Seq(S)
    PROVE  resize(s, Len(s)) = s
BY DEF resize

\* Of two cuts the shorter one decides.
LEMMA ResizeTwice ==
    ASSUME NEW S, NEW s \in Seq(S), NEW m \in 0..Len(s), NEW n \in 0..m
    PROVE  resize(resize(s, m), n) = resize(s, n)
BY DEF resize

\* A cut below its end removes an appended element.
LEMMA ResizeAppend ==
    ASSUME NEW S, NEW s \in Seq(S), NEW x \in S, NEW n \in 0..Len(s)
    PROVE  resize(Append(s, x), n) = resize(s, n)
BY DEF resize

\* Position i of a log holds its first entry for an index.
First(log, index, i) ==
    /\ i \in DOMAIN log
    /\ log[i].index = index
    /\ \A j \in 1..(i - 1) : log[j].index # index

\* There is at most one first entry, and Oldest finds it.
LEMMA FirstDecides ==
    ASSUME NEW E, NEW log \in Seq(E), NEW index, NEW i, First(log, index, i)
    PROVE  Oldest(log, index) = log[i]
<1> DEFINE c == CHOOSE k \in DOMAIN log :
                    /\ log[k].index = index
                    /\ \A j \in 1..(k - 1) : log[j].index # index
<1>1. First(log, index, c)
  BY ZenonT(60) DEF First
<1> HIDE DEF c
<1>2. c = i
  BY <1>1 DEF First
<1> QED
  BY <1>2 DEF Oldest, c

\* An index that is logged has a first entry.
LEMMA FirstExists ==
    ASSUME NEW E, NEW log \in Seq(E), NEW index, Logged(log, index)
    PROVE  \E i : First(log, index, i)
<1> DEFINE S == {i \in DOMAIN log : log[i].index = index}
<1>1. S \in SUBSET Nat /\ S # {}
  BY DEF Logged
<1> HIDE DEF S
<1>2. PICK i \in S : \A j \in S : i <= j
  BY <1>1, LeastElement
<1>3. First(log, index, i)
  BY <1>2 DEF S, First
<1> QED
  BY <1>3

\* What is logged in two logs that are joined, and which entry decides.
LEMMA JoinedLogs ==
    ASSUME NEW E, NEW a \in Seq(E), NEW b \in Seq(E), NEW index
    PROVE  /\ Logged(a \o b, index) <=> Logged(a, index) \/ Logged(b, index)
           /\ Logged(a, index) => Oldest(a \o b, index) = Oldest(a, index)
           /\ ~ Logged(a, index) /\ Logged(b, index) => Oldest(a \o b, index) = Oldest(b, index)
<1> DEFINE c == a \o b
           n == Len(a)
<1>1. /\ c \in Seq(E)
      /\ n \in Nat /\ Len(b) \in Nat
      /\ DOMAIN a = 1..n /\ DOMAIN b = 1..Len(b) /\ DOMAIN c = 1..(n + Len(b))
      /\ \A i \in 1..n : c[i] = a[i]
      /\ \A i \in 1..Len(b) : c[n + i] = b[i]
      /\ \A i \in (n + 1)..(n + Len(b)) : c[i] = b[i - n]
  OBVIOUS
<1> HIDE DEF c, n
<1>2. Logged(c, index) <=> Logged(a, index) \/ Logged(b, index)
  <2>1. ASSUME NEW i \in DOMAIN c, c[i].index = index
        PROVE  Logged(a, index) \/ Logged(b, index)
    <3>1. CASE i \in 1..n
      BY <1>1, <2>1, <3>1 DEF Logged
    <3>2. CASE i \in (n + 1)..(n + Len(b))
      <4>1. i - n \in DOMAIN b /\ b[i - n].index = index
        BY <1>1, <2>1, <3>2
      <4> QED
        BY <4>1 DEF Logged
    <3> QED
      BY <1>1, <2>1, <3>1, <3>2
  <2>2. ASSUME NEW i \in DOMAIN a, a[i].index = index
        PROVE  Logged(c, index)
    <3>1. i \in DOMAIN c /\ c[i].index = index
      BY <1>1, <2>2
    <3> QED
      BY <3>1 DEF Logged
  <2>3. ASSUME NEW i \in DOMAIN b, b[i].index = index
        PROVE  Logged(c, index)
    <3>1. n + i \in DOMAIN c /\ c[n + i].index = index
      BY <1>1, <2>3
    <3> QED
      BY <3>1 DEF Logged
  <2> QED
    BY <2>1, <2>2, <2>3 DEF Logged
<1>3. ASSUME Logged(a, index)
      PROVE  Oldest(c, index) = Oldest(a, index)
  <2>1. PICK i : First(a, index, i)
    BY <1>3, FirstExists
  <2>2. First(c, index, i)
    BY <1>1, <2>1 DEF First
  <2>3. c[i] = a[i]
    BY <1>1, <2>1 DEF First
  <2> QED
    BY <1>1, <2>1, <2>2, <2>3, FirstDecides
<1>4. ASSUME ~ Logged(a, index), Logged(b, index)
      PROVE  Oldest(c, index) = Oldest(b, index)
  <2>1. PICK i : First(b, index, i)
    BY <1>4, FirstExists
  <2>2. i \in 1..Len(b) /\ n + i \in DOMAIN c /\ c[n + i] = b[i]
    BY <1>1, <2>1 DEF First
  <2>3. \A j \in 1..(n + i - 1) : c[j].index # index
    <3> SUFFICES ASSUME NEW j \in 1..(n + i - 1) PROVE c[j].index # index
      OBVIOUS
    <3>1. CASE j \in 1..n
      BY <1>1, <1>4, <3>1 DEF Logged
    <3>2. CASE j > n
      <4>1. j - n \in 1..(i - 1) /\ c[j] = b[j - n]
        BY <1>1, <2>2, <3>2
      <4> QED
        BY <2>1, <4>1 DEF First
    <3> QED
      BY <1>1, <2>2, <3>1, <3>2
  <2>4. First(c, index, n + i)
    BY <1>1, <2>1, <2>2, <2>3 DEF First
  <2> QED
    BY <1>1, <2>1, <2>2, <2>4, FirstDecides
<1> QED
  BY <1>2, <1>3, <1>4 DEF c

\* A log with one entry more.
LEMMA LongerLog ==
    ASSUME NEW E, NEW a \in Seq(E), NEW e \in E, NEW index
    PROVE  /\ Logged(Append(a, e), index) <=> Logged(a, index) \/ e.index = index
           /\ Logged(a, index) => Oldest(Append(a, e), index) = Oldest(a, index)
           /\ ~ Logged(a, index) /\ e.index = index => Oldest(Append(a, e), index) = e
<1> DEFINE b == <<e>>
<1>1. b \in Seq(E) /\ Append(a, e) = a \o b
  OBVIOUS
<1>2. Logged(b, index) <=> e.index = index
  BY DEF Logged
<1>3. e.index = index => First(b, index, 1) /\ b[1] = e
  BY DEF First
<1>4. e.index = index => Oldest(b, index) = e
  BY ZenonT(60), <1>1, <1>3, FirstDecides
<1> HIDE DEF b
<1> QED
  BY <1>1, <1>2, <1>4, JoinedLogs

\* The entry that decides is one of the log.
LEMMA OldestEntry ==
    ASSUME NEW E, NEW log \in Seq(E), NEW index, Logged(log, index)
    PROVE  \E i \in DOMAIN log : log[i] = Oldest(log, index) /\ log[i].index = index
<1>1. PICK i : First(log, index, i)
  BY FirstExists
<1>2. Oldest(log, index) = log[i]
  BY <1>1, FirstDecides
<1> QED
  BY <1>1, <1>2 DEF First

-----------------------------------------------------------------------------
(* Rolling back the registry *)

SizeEntries == [index : Nat, records_size : Nat]

\* A journal can be applied to a registry: it cuts what is there.
FitsHistories(h, undo) ==
    /\ undo.histories_size \in 0..Len(h)
    /\ undo.record_sizes \in Seq(SizeEntries)
    /\ \A i \in DOMAIN undo.record_sizes :
          LET e == undo.record_sizes[i]
          IN  e.index \in DOMAIN h /\ e.records_size \in 1..Len(h[e.index].records)

\* The records that rollback leaves in history i.
RestoredRecords(h, undo, i) ==
    IF Logged(undo.record_sizes, i)
    THEN resize(h[i].records, Oldest(undo.record_sizes, i).records_size)
    ELSE h[i].records

\* The size that a journal restores is one that the history has had.
LEMMA RestoredSize ==
    ASSUME NEW h \in Histories, NEW undo, FitsHistories(h, undo), NEW i,
           Logged(undo.record_sizes, i)
    PROVE  Oldest(undo.record_sizes, i).records_size \in 1..Len(h[i].records)
<1> DEFINE log == undo.record_sizes
<1>1. log \in Seq(SizeEntries)
  BY DEF FitsHistories
<1>2. \A k \in DOMAIN log : log[k].records_size \in 1..Len(h[log[k].index].records)
  BY DEF FitsHistories
<1> HIDE DEF log
<1>3. Logged(log, i)
  BY DEF log
<1>4. PICK k \in DOMAIN log : log[k] = Oldest(log, i) /\ log[k].index = i
  BY <1>1, <1>3, OldestEntry
<1> QED
  BY <1>2, <1>4 DEF log

\* What rollback makes of a registry.
LEMMA RollbackHistoriesResult ==
    ASSUME NEW h \in Histories, NEW undo, FitsHistories(h, undo)
    PROVE  LET g == RollbackHistories(h, undo)
           IN  /\ g \in Histories
               /\ Len(g) = undo.histories_size
               /\ DOMAIN g = 1..undo.histories_size
               /\ \A i \in 1..undo.histories_size :
                     /\ i \in DOMAIN h
                     /\ g[i].identity_id = h[i].identity_id
                     /\ g[i].records = RestoredRecords(h, undo, i)
<1> DEFINE g == RollbackHistories(h, undo)
           n == undo.histories_size
           Size(i) == Oldest(undo.record_sizes, i).records_size
<1>1. n \in Nat /\ n <= Len(h) /\ DOMAIN h = 1..Len(h) /\ Len(h) \in Nat
  BY DEF FitsHistories, Histories
<1>2. ASSUME NEW i \in 1..n
      PROVE  /\ i \in DOMAIN h
             /\ g[i] \in History
             /\ g[i].identity_id = h[i].identity_id
             /\ g[i].records = RestoredRecords(h, undo, i)
  <2>1. i \in DOMAIN h
    BY <1>1, <1>2
  <2>2. h[i] \in History
    BY <2>1, SeqElement DEF Histories
  <2>3. h[i].records \in Seq(Records) /\ h[i].records # <<>>
    BY <2>1, HistoryType
  <2>4. CASE Logged(undo.record_sizes, i)
    <3>1. g[i] = [h[i] EXCEPT !.records = resize(h[i].records, Size(i))]
      BY <2>4 DEF RollbackHistories
    <3>2. Size(i) \in 1..Len(h[i].records)
      BY <2>4, RestoredSize
    <3> DEFINE rs == resize(h[i].records, Size(i))
    <3> HIDE DEF Size
    <3>3. rs \in Seq(Records) /\ Len(rs) = Size(i)
      BY <2>3, <3>2, ResizeType
    <3>4. rs # <<>>
      BY <3>2, <3>3
    <3>5. RestoredRecords(h, undo, i) = rs
      BY <2>4 DEF RestoredRecords, Size
    <3> HIDE DEF rs
    <3>6. g[i] = [h[i] EXCEPT !.records = rs]
      BY <3>1 DEF rs
    <3> HIDE DEF g
    <3> QED
      BY <2>1, <2>2, <3>3, <3>4, <3>5, <3>6 DEF History
  <2>5. CASE ~ Logged(undo.record_sizes, i)
    <3>1. g[i] = h[i]
      BY <2>5 DEF RollbackHistories
    <3> QED
      BY <2>1, <2>2, <2>5, <3>1 DEF RestoredRecords
  <2> QED
    BY <2>4, <2>5
<1>3. g = [i \in 1..n |-> g[i]]
  BY DEF RollbackHistories
<1> HIDE DEF g, n
<1>4. g \in Histories /\ Len(g) = n /\ DOMAIN g = 1..n
  BY <1>1, <1>2, <1>3 DEF Histories
<1> QED
  BY <1>2, <1>4 DEF g, n

\* Two registries with the same ids and records are the same.
LEMMA SameRegistry ==
    ASSUME NEW h \in Histories, NEW g \in Histories, Len(g) = Len(h),
           \A i \in 1..Len(h) : g[i].identity_id = h[i].identity_id /\ g[i].records = h[i].records
    PROVE  g = h
<1>1. ASSUME NEW i \in 1..Len(h) PROVE g[i] = h[i]
  <2>1. h[i] \in History /\ g[i] \in History
    BY DEF Histories
  <2>2. g[i].identity_id = h[i].identity_id /\ g[i].records = h[i].records
    BY <1>1
  <2> QED
    BY <2>1, <2>2 DEF History
<1> QED
  BY <1>1, SameList DEF Histories

\* Journal w has the sizes of u and the entries of u and then of t.
Joined(w, u, t) ==
    /\ w.histories_size = u.histories_size
    /\ w.leases_size = u.leases_size
    /\ w.record_sizes = u.record_sizes \o t.record_sizes
    /\ w.replaced_leases = u.replaced_leases \o t.replaced_leases

\* Undoing a transaction and then its block is undoing the joined journal.
LEMMA JoinHistories ==
    ASSUME NEW h \in Histories, NEW t, NEW u, NEW w,
           FitsHistories(h, t), FitsHistories(RollbackHistories(h, t), u), Joined(w, u, t)
    PROVE  /\ FitsHistories(h, w)
           /\ RollbackHistories(h, w) = RollbackHistories(RollbackHistories(h, t), u)
<1> DEFINE g == RollbackHistories(h, t)
           a == u.record_sizes
           b == t.record_sizes
           c == w.record_sizes
<1>1. /\ g \in Histories
      /\ Len(g) = t.histories_size
      /\ DOMAIN g = 1..t.histories_size
      /\ \A i \in 1..t.histories_size :
            /\ i \in DOMAIN h
            /\ g[i].identity_id = h[i].identity_id
            /\ g[i].records = RestoredRecords(h, t, i)
  BY RollbackHistoriesResult
<1>2. /\ a \in Seq(SizeEntries) /\ b \in Seq(SizeEntries) /\ c = a \o b
      /\ \A i \in DOMAIN a : /\ a[i].index \in DOMAIN g
                             /\ a[i].records_size \in 1..Len(g[a[i].index].records)
      /\ \A i \in DOMAIN b : /\ b[i].index \in DOMAIN h
                             /\ b[i].records_size \in 1..Len(h[b[i].index].records)
      /\ t.histories_size \in 0..Len(h)
      /\ u.histories_size \in 0..Len(g)
      /\ w.histories_size = u.histories_size
  BY DEF FitsHistories, Joined
<1> HIDE DEF g, a, b, c
<1>3. ASSUME NEW i \in 1..t.histories_size
      PROVE  /\ h[i].records \in Seq(Records)
             /\ Len(g[i].records) \in 1..Len(h[i].records)
             /\ \A n \in 0..Len(g[i].records) :
                    resize(g[i].records, n) = resize(h[i].records, n)
  <2>1. h[i].records \in Seq(Records) /\ h[i].records # <<>>
    BY <1>1, <1>3, HistoryType
  <2>2. g[i].records = RestoredRecords(h, t, i)
    BY <1>1, <1>3
  <2>3. CASE Logged(b, i)
    <3> DEFINE m == Oldest(b, i).records_size
    <3>1. m \in 1..Len(h[i].records) /\ g[i].records = resize(h[i].records, m)
      BY <2>2, <2>3, RestoredSize DEF RestoredRecords, b
    <3> HIDE DEF m
    <3>2. m \in 0..Len(h[i].records) /\ Len(g[i].records) = m
      BY <2>1, <3>1, ResizeType
    <3> QED
      BY <2>1, <3>1, <3>2, ResizeTwice
  <2>4. CASE ~ Logged(b, i)
    <3>1. g[i].records = h[i].records
      BY <2>2, <2>4 DEF RestoredRecords, b
    <3> QED
      BY <2>1, <3>1
  <2> QED
    BY <2>3, <2>4
<1>4. FitsHistories(h, w)
  <2>1. w.histories_size \in 0..Len(h)
    BY <1>1, <1>2 DEF Histories
  <2>2. c \in Seq(SizeEntries)
    BY <1>2
  <2>3. ASSUME NEW i \in DOMAIN c
        PROVE  c[i].index \in DOMAIN h /\ c[i].records_size \in 1..Len(h[c[i].index].records)
    <3>1. CASE i \in DOMAIN a
      <4>1. c[i] = a[i]
        BY <1>2, <3>1
      <4>2. /\ a[i].index \in 1..t.histories_size
            /\ a[i].records_size \in 1..Len(g[a[i].index].records)
        BY <1>1, <1>2, <3>1
      <4>3. /\ a[i].index \in DOMAIN h
            /\ h[a[i].index].records \in Seq(Records)
            /\ Len(g[a[i].index].records) \in 1..Len(h[a[i].index].records)
        BY <1>1, <1>3, <4>2
      <4>4. a[i].records_size \in 1..Len(h[a[i].index].records)
        <5> DEFINE x == a[i].records_size
                   y == Len(g[a[i].index].records)
                   z == Len(h[a[i].index].records)
        <5>1. x \in 1..y /\ y \in 1..z
          BY <4>2, <4>3
        <5>2. z \in Nat
          BY <4>3
        <5> HIDE DEF x, y, z
        <5>3. x \in 1..z
          BY <5>1, <5>2
        <5> QED
          BY <5>3 DEF x, z
      <4> QED
        BY <4>1, <4>3, <4>4
    <3>2. CASE i \notin DOMAIN a
      <4>1. i - Len(a) \in DOMAIN b /\ c[i] = b[i - Len(a)]
        BY <1>2, <2>3, <3>2
      <4> QED
        BY <1>2, <4>1
    <3> QED
      BY <3>1, <3>2
  <2> QED
    BY <2>1, <2>2, <2>3 DEF FitsHistories, c
<1>5. /\ RollbackHistories(h, w) \in Histories
      /\ Len(RollbackHistories(h, w)) = u.histories_size
      /\ \A i \in 1..u.histories_size :
            /\ RollbackHistories(h, w)[i].identity_id = h[i].identity_id
            /\ RollbackHistories(h, w)[i].records = RestoredRecords(h, w, i)
  BY <1>2, <1>4, RollbackHistoriesResult
<1>6. /\ RollbackHistories(g, u) \in Histories
      /\ Len(RollbackHistories(g, u)) = u.histories_size
      /\ \A i \in 1..u.histories_size :
            /\ i \in DOMAIN g
            /\ RollbackHistories(g, u)[i].identity_id = g[i].identity_id
            /\ RollbackHistories(g, u)[i].records = RestoredRecords(g, u, i)
  <2>1. FitsHistories(g, u)
    BY DEF g
  <2> QED
    BY <1>1, <2>1, RollbackHistoriesResult
<1>7. ASSUME NEW i \in 1..u.histories_size
      PROVE  RestoredRecords(h, w, i) = RestoredRecords(g, u, i)
  <2>1. i \in 1..t.histories_size
    BY <1>1, <1>6, <1>7
  <2>2. CASE Logged(a, i)
    <3> DEFINE n == Oldest(a, i).records_size
    <3>1. Logged(c, i) /\ Oldest(c, i) = Oldest(a, i)
      BY <1>2, <2>2, JoinedLogs
    <3>2. n \in 1..Len(g[i].records)
      <4>1. FitsHistories(g, u) /\ Logged(u.record_sizes, i)
        BY <2>2 DEF g, a
      <4> QED
        BY <1>1, <4>1, RestoredSize DEF a
    <3>3. resize(g[i].records, n) = resize(h[i].records, n)
      BY <1>3, <2>1, <3>2
    <3>4. RestoredRecords(h, w, i) = resize(h[i].records, n)
      BY <3>1 DEF RestoredRecords, c
    <3>5. RestoredRecords(g, u, i) = resize(g[i].records, n)
      BY <2>2 DEF RestoredRecords, a
    <3> QED
      BY <3>3, <3>4, <3>5
  <2>3. CASE ~ Logged(a, i)
    <3>1. RestoredRecords(g, u, i) = RestoredRecords(h, t, i)
      BY <1>1, <2>1, <2>3 DEF RestoredRecords, a
    <3>2. /\ Logged(c, i) <=> Logged(b, i)
          /\ Logged(b, i) => Oldest(c, i) = Oldest(b, i)
      BY <1>2, <2>3, JoinedLogs
    <3>3. RestoredRecords(h, w, i) = RestoredRecords(h, t, i)
      BY <3>2 DEF RestoredRecords, b, c
    <3> QED
      BY <3>1, <3>3
  <2> QED
    BY <2>2, <2>3
<1>8. \A i \in 1..u.histories_size : g[i].identity_id = h[i].identity_id
  BY <1>1, <1>6
<1>9. RollbackHistories(h, w) = RollbackHistories(g, u)
  BY <1>5, <1>6, <1>7, <1>8, SameRegistry
<1> QED
  BY <1>4, <1>9 DEF g

\* A log entry for the size that a history has changes nothing.
LEMMA LogHistories ==
    ASSUME NEW h \in Histories, NEW t, NEW w, NEW a \in DOMAIN h, FitsHistories(h, t),
           w.histories_size = t.histories_size,
           w.record_sizes
             = Append(t.record_sizes, [index |-> a, records_size |-> Len(h[a].records)])
    PROVE  /\ FitsHistories(h, w)
           /\ Logged(w.record_sizes, a)
           /\ RollbackHistories(h, w) = RollbackHistories(h, t)
<1> DEFINE e == [index |-> a, records_size |-> Len(h[a].records)]
           b == t.record_sizes
           c == w.record_sizes
<1>1. /\ h[a].records \in Seq(Records) /\ h[a].records # <<>>
      /\ a \in 1..Len(h)
  BY HistoryType
<1>2. /\ e \in SizeEntries
      /\ e.index = a
      /\ e.records_size = Len(h[a].records)
      /\ e.records_size \in 1..Len(h[a].records)
  BY <1>1 DEF SizeEntries
<1>3. /\ b \in Seq(SizeEntries)
      /\ c = Append(b, e)
      /\ \A i \in DOMAIN b : /\ b[i].index \in DOMAIN h
                             /\ b[i].records_size \in 1..Len(h[b[i].index].records)
      /\ t.histories_size \in 0..Len(h)
  BY DEF FitsHistories
<1> HIDE DEF e, b, c
<1>4. c \in Seq(SizeEntries)
  BY <1>2, <1>3
<1>5. \A i \in DOMAIN c :
          c[i].index \in DOMAIN h /\ c[i].records_size \in 1..Len(h[c[i].index].records)
  <2> SUFFICES ASSUME NEW i \in DOMAIN c
               PROVE  /\ c[i].index \in DOMAIN h
                      /\ c[i].records_size \in 1..Len(h[c[i].index].records)
    OBVIOUS
  <2>1. (i \in DOMAIN b /\ c[i] = b[i]) \/ c[i] = e
    BY <1>2, <1>3
  <2> QED
    BY <1>2, <1>3, <2>1
<1>6. FitsHistories(h, w)
  BY <1>3, <1>4, <1>5 DEF FitsHistories, c
<1>7. ASSUME NEW i \in 1..t.histories_size
      PROVE  RestoredRecords(h, w, i) = RestoredRecords(h, t, i)
  <2>1. /\ Logged(c, i) <=> Logged(b, i) \/ e.index = i
        /\ Logged(b, i) => Oldest(c, i) = Oldest(b, i)
        /\ ~ Logged(b, i) /\ e.index = i => Oldest(c, i) = e
    BY ZenonT(60), <1>2, <1>3, LongerLog
  <2>2. CASE Logged(b, i) \/ e.index # i
    BY <2>1, <2>2 DEF RestoredRecords, b, c
  <2>3. CASE ~ Logged(b, i) /\ e.index = i
    <3>1. RestoredRecords(h, w, i) = resize(h[i].records, Len(h[i].records))
      BY <1>2, <2>1, <2>3 DEF RestoredRecords, c
    <3>2. RestoredRecords(h, t, i) = h[i].records
      BY <2>3 DEF RestoredRecords, b
    <3> QED
      BY <1>1, <1>2, <2>3, <3>1, <3>2, ResizeAll
  <2> QED
    BY <2>2, <2>3
<1>8. Logged(c, a)
  BY <1>2, <1>3, LongerLog
<1>9. RollbackHistories(h, w) = RollbackHistories(h, t)
  <2> DEFINE n == t.histories_size
             x == RollbackHistories(h, w)
             y == RollbackHistories(h, t)
  <2>1. /\ x \in Histories /\ Len(x) = w.histories_size
        /\ \A i \in 1..w.histories_size : /\ x[i].identity_id = h[i].identity_id
                                         /\ x[i].records = RestoredRecords(h, w, i)
    BY <1>6, RollbackHistoriesResult
  <2>2. /\ y \in Histories /\ Len(y) = n
        /\ \A i \in 1..n : /\ y[i].identity_id = h[i].identity_id
                           /\ y[i].records = RestoredRecords(h, t, i)
    BY RollbackHistoriesResult
  <2> HIDE DEF x, y
  <2>3. /\ Len(x) = Len(y)
        /\ \A i \in 1..Len(y) : x[i].identity_id = y[i].identity_id /\ x[i].records = y[i].records
    BY <1>7, <2>1, <2>2
  <2>4. x = y
    BY <2>1, <2>2, <2>3, SameRegistry
  <2> QED
    BY <2>4 DEF x, y
<1> QED
  BY <1>6, <1>8, <1>9 DEF c

\* Histories that were logged may grow, and new ones may follow.
LEMMA GrowHistories ==
    ASSUME NEW h \in Histories, NEW g \in Histories, NEW w, FitsHistories(h, w),
           Len(h) <= Len(g),
           \A i \in DOMAIN h :
               /\ g[i].identity_id = h[i].identity_id
               /\ \/ g[i].records = h[i].records
                  \/ /\ Logged(w.record_sizes, i)
                     /\ \E r \in Records : g[i].records = Append(h[i].records, r)
    PROVE  FitsHistories(g, w) /\ RollbackHistories(g, w) = RollbackHistories(h, w)
<1> DEFINE c == w.record_sizes
<1>1. DOMAIN h \subseteq DOMAIN g /\ Len(h) \in Nat /\ Len(g) \in Nat
  BY DEF Histories
<1>2. ASSUME NEW i \in DOMAIN h
      PROVE  /\ h[i].records \in Seq(Records)
             /\ Len(h[i].records) \in Nat
             /\ Len(g[i].records) \in Nat
             /\ Len(h[i].records) <= Len(g[i].records)
             /\ \A n \in 0..Len(h[i].records) :
                    resize(g[i].records, n) = resize(h[i].records, n)
  <2>1. h[i].records \in Seq(Records)
    BY <1>2, HistoryType
  <2>2. CASE g[i].records = h[i].records
    BY <2>1, <2>2
  <2>3. ASSUME NEW r \in Records, g[i].records = Append(h[i].records, r)
        PROVE  /\ Len(h[i].records) \in Nat
               /\ Len(g[i].records) = Len(h[i].records) + 1
               /\ \A n \in 0..Len(h[i].records) :
                      resize(g[i].records, n) = resize(h[i].records, n)
    BY <2>1, <2>3, ResizeAppend
  <2> QED
    BY <1>2, <2>1, <2>2, <2>3
<1>3. FitsHistories(g, w)
  <2>1. /\ w.histories_size \in 0..Len(h)
        /\ c \in Seq(SizeEntries)
        /\ \A i \in DOMAIN c : /\ c[i].index \in DOMAIN h
                               /\ c[i].records_size \in 1..Len(h[c[i].index].records)
    BY DEF FitsHistories
  <2> HIDE DEF c
  <2>2. w.histories_size \in 0..Len(g)
    BY <1>1, <2>1
  <2>3. ASSUME NEW i \in DOMAIN c
        PROVE  c[i].index \in DOMAIN g /\ c[i].records_size \in 1..Len(g[c[i].index].records)
    <3>1. c[i].index \in DOMAIN h /\ c[i].records_size \in 1..Len(h[c[i].index].records)
      BY <2>1, <2>3
    <3>2. /\ Len(h[c[i].index].records) \in Nat
          /\ Len(g[c[i].index].records) \in Nat
          /\ Len(h[c[i].index].records) <= Len(g[c[i].index].records)
      BY <1>2, <3>1
    <3> QED
      BY <1>1, <3>1, <3>2
  <2> QED
    BY <2>1, <2>2, <2>3 DEF FitsHistories, c
<1>4. ASSUME NEW i \in 1..w.histories_size, i \in DOMAIN h
      PROVE  RestoredRecords(g, w, i) = RestoredRecords(h, w, i)
  <2>1. CASE Logged(c, i)
    <3>1. Oldest(c, i).records_size \in 1..Len(h[i].records)
      BY <2>1, RestoredSize
    <3>2. resize(g[i].records, Oldest(c, i).records_size)
            = resize(h[i].records, Oldest(c, i).records_size)
      BY <1>2, <1>4, <3>1
    <3> QED
      BY <2>1, <3>2 DEF RestoredRecords
  <2>2. CASE ~ Logged(c, i)
    BY <1>4, <2>2 DEF RestoredRecords
  <2> QED
    BY <2>1, <2>2
<1>5. /\ RollbackHistories(h, w) \in Histories
      /\ Len(RollbackHistories(h, w)) = w.histories_size
      /\ \A i \in 1..w.histories_size :
            /\ i \in DOMAIN h
            /\ RollbackHistories(h, w)[i].identity_id = h[i].identity_id
            /\ RollbackHistories(h, w)[i].records = RestoredRecords(h, w, i)
  BY RollbackHistoriesResult
<1>6. /\ RollbackHistories(g, w) \in Histories
      /\ Len(RollbackHistories(g, w)) = w.histories_size
      /\ \A i \in 1..w.histories_size :
            /\ RollbackHistories(g, w)[i].identity_id = g[i].identity_id
            /\ RollbackHistories(g, w)[i].records = RestoredRecords(g, w, i)
  BY <1>3, RollbackHistoriesResult
<1>7. RollbackHistories(g, w) = RollbackHistories(h, w)
  BY <1>4, <1>5, <1>6, SameRegistry
<1> QED
  BY <1>3, <1>7

-----------------------------------------------------------------------------
(* Rolling back the leases *)

LeaseEntries == [index : Nat, stored : StoredLeases]

\* A journal can be applied to a list of leases.
FitsLeases(leases, undo) ==
    /\ undo.leases_size \in 0..Len(leases)
    /\ undo.replaced_leases \in Seq(LeaseEntries)

\* The lease that rollback leaves at a position.
RestoredLease(leases, undo, i) ==
    IF Logged(undo.replaced_leases, i) THEN Oldest(undo.replaced_leases, i).stored
    ELSE leases[i]

\* What rollback makes of a list of leases.
LEMMA RollbackLeasesResult ==
    ASSUME NEW leases \in Seq(StoredLeases), NEW undo, FitsLeases(leases, undo)
    PROVE  LET out == RollbackLeases(leases, undo)
           IN  /\ out \in Seq(StoredLeases)
               /\ Len(out) = undo.leases_size
               /\ \A i \in 1..undo.leases_size : out[i] = RestoredLease(leases, undo, i)
<1> DEFINE out == RollbackLeases(leases, undo)
           n == undo.leases_size
           log == undo.replaced_leases
<1>1. n \in Nat /\ n <= Len(leases) /\ log \in Seq(LeaseEntries)
  BY DEF FitsLeases
<1>2. out = [i \in 1..n |-> RestoredLease(leases, undo, i)]
  BY DEF RollbackLeases, RestoredLease
<1> HIDE DEF out, n, log
<1>3. ASSUME NEW i \in 1..n PROVE RestoredLease(leases, undo, i) \in StoredLeases
  <2>1. CASE Logged(log, i)
    <3>1. PICK k \in DOMAIN log : log[k] = Oldest(log, i)
      BY <1>1, <2>1, OldestEntry
    <3>2. log[k] \in LeaseEntries
      BY <1>1, <3>1
    <3>3. Oldest(log, i).stored \in StoredLeases
      BY <3>1, <3>2 DEF LeaseEntries
    <3> QED
      BY <2>1, <3>3 DEF RestoredLease, log
  <2>2. CASE ~ Logged(log, i)
    <3>1. leases[i] \in StoredLeases
      BY <1>1, <1>3
    <3> QED
      BY <2>2, <3>1 DEF RestoredLease, log
  <2> QED
    BY <2>1, <2>2
<1>4. out \in Seq(StoredLeases) /\ Len(out) = n
  BY <1>1, <1>2, <1>3
<1> QED
  BY ZenonT(60), <1>2, <1>4 DEF out, n

\* Undoing a transaction and then its block is undoing the joined journal.
LEMMA JoinLeases ==
    ASSUME NEW leases \in Seq(StoredLeases), NEW t, NEW u, NEW w,
           FitsLeases(leases, t), FitsLeases(RollbackLeases(leases, t), u), Joined(w, u, t)
    PROVE  /\ FitsLeases(leases, w)
           /\ RollbackLeases(leases, w) = RollbackLeases(RollbackLeases(leases, t), u)
<1> DEFINE mid == RollbackLeases(leases, t)
           a == u.replaced_leases
           b == t.replaced_leases
           c == w.replaced_leases
<1>1. /\ mid \in Seq(StoredLeases)
      /\ Len(mid) = t.leases_size
      /\ \A i \in 1..t.leases_size : mid[i] = RestoredLease(leases, t, i)
  BY RollbackLeasesResult
<1>2. /\ a \in Seq(LeaseEntries) /\ b \in Seq(LeaseEntries) /\ c = a \o b
      /\ t.leases_size \in 0..Len(leases)
      /\ u.leases_size \in 0..Len(mid)
      /\ w.leases_size = u.leases_size
  BY DEF FitsLeases, Joined
<1> HIDE DEF mid, a, b, c
<1>3. c \in Seq(LeaseEntries) /\ w.leases_size \in 0..Len(leases)
  BY <1>1, <1>2
<1>4. FitsLeases(leases, w)
  BY <1>3 DEF FitsLeases, c
<1>5. ASSUME NEW i \in 1..u.leases_size
      PROVE  RestoredLease(leases, w, i) = RestoredLease(mid, u, i)
  <2>1. mid[i] = RestoredLease(leases, t, i)
    BY <1>1, <1>2, <1>5
  <2>2. /\ Logged(c, i) <=> Logged(a, i) \/ Logged(b, i)
        /\ Logged(a, i) => Oldest(c, i) = Oldest(a, i)
        /\ ~ Logged(a, i) /\ Logged(b, i) => Oldest(c, i) = Oldest(b, i)
    BY <1>2, JoinedLogs
  <2> QED
    BY <2>1, <2>2 DEF RestoredLease, a, b, c
<1>6. /\ RollbackLeases(leases, w) \in Seq(StoredLeases)
      /\ Len(RollbackLeases(leases, w)) = u.leases_size
      /\ \A i \in 1..u.leases_size : RollbackLeases(leases, w)[i] = RestoredLease(leases, w, i)
  BY <1>2, <1>4, RollbackLeasesResult
<1>7. /\ RollbackLeases(mid, u) \in Seq(StoredLeases)
      /\ Len(RollbackLeases(mid, u)) = u.leases_size
      /\ \A i \in 1..u.leases_size : RollbackLeases(mid, u)[i] = RestoredLease(mid, u, i)
  BY <1>1, RollbackLeasesResult DEF mid
<1>8. RollbackLeases(leases, w) = RollbackLeases(mid, u)
  BY <1>5, <1>6, <1>7, SameList
<1> QED
  BY <1>4, <1>8 DEF mid

\* An appended lease is cut off again.
LEMMA AppendedLease ==
    ASSUME NEW leases \in Seq(StoredLeases), NEW t, NEW s \in StoredLeases,
           FitsLeases(leases, t)
    PROVE  /\ FitsLeases(Append(leases, s), t)
           /\ RollbackLeases(Append(leases, s), t) = RollbackLeases(leases, t)
<1> DEFINE longer == Append(leases, s)
<1>1. t.leases_size \in 0..Len(leases)
  BY DEF FitsLeases
<1>2. /\ longer \in Seq(StoredLeases)
      /\ t.leases_size \in 0..Len(longer)
      /\ \A i \in 1..t.leases_size : longer[i] = leases[i]
  BY <1>1
<1> HIDE DEF longer
<1>3. FitsLeases(longer, t)
  BY <1>2 DEF FitsLeases
<1>4. \A i \in 1..t.leases_size : RestoredLease(longer, t, i) = RestoredLease(leases, t, i)
  BY <1>2 DEF RestoredLease
<1>5. RollbackLeases(longer, t) = RollbackLeases(leases, t)
  BY <1>2, <1>3, <1>4, RollbackLeasesResult, SameList
<1> QED
  BY <1>3, <1>5 DEF longer

\* The log w of a replacement at index a, after the log t.
ReplacementLogged(leases, t, w, a) ==
    /\ w.leases_size = t.leases_size
    /\ w.replaced_leases = Append(t.replaced_leases, [index |-> a, stored |-> leases[a]])

\* The list with another lease at index a.
IsReplaced(leases, out, a, s) == out = [leases EXCEPT ![a] = s]

\* A lease that was logged and replaced comes back.
LEMMA ReplacedLease ==
    ASSUME NEW leases \in Seq(StoredLeases), NEW t, NEW w, NEW a \in DOMAIN leases,
           NEW s \in StoredLeases, NEW out, FitsLeases(leases, t),
           ReplacementLogged(leases, t, w, a), IsReplaced(leases, out, a, s)
    PROVE  FitsLeases(out, w) /\ RollbackLeases(out, w) = RollbackLeases(leases, t)
<1> DEFINE e == [index |-> a, stored |-> leases[a]]
           b == t.replaced_leases
           c == w.replaced_leases
<1>0. /\ out = [leases EXCEPT ![a] = s]
      /\ w.leases_size = t.leases_size
      /\ c = Append(b, e)
  BY DEF ReplacementLogged, IsReplaced
<1>1. e \in LeaseEntries /\ e.index = a /\ e.stored = leases[a]
  BY DEF LeaseEntries
<1>2. b \in Seq(LeaseEntries) /\ c = Append(b, e) /\ t.leases_size \in 0..Len(leases)
  BY <1>0 DEF FitsLeases
<1>3. /\ out \in Seq(StoredLeases)
      /\ Len(out) = Len(leases)
      /\ \A i \in 1..Len(leases) : i # a => out[i] = leases[i]
  BY <1>0
<1> HIDE DEF e, b, c
<1>4. FitsLeases(out, w)
  <2>1. c \in Seq(LeaseEntries)
    BY <1>1, <1>2
  <2> QED
    BY <1>0, <1>2, <1>3, <2>1 DEF FitsLeases, c
<1>5. ASSUME NEW i \in 1..t.leases_size
      PROVE  RestoredLease(out, w, i) = RestoredLease(leases, t, i)
  <2>1. /\ Logged(c, i) <=> Logged(b, i) \/ e.index = i
        /\ Logged(b, i) => Oldest(c, i) = Oldest(b, i)
        /\ ~ Logged(b, i) /\ e.index = i => Oldest(c, i) = e
    BY ZenonT(60), <1>1, <1>2, LongerLog
  <2>2. i # a => out[i] = leases[i]
    BY <1>2, <1>3, <1>5
  <2> QED
    BY <1>1, <2>1, <2>2 DEF RestoredLease, b, c
<1>6. RollbackLeases(out, w) = RollbackLeases(leases, t)
  <2> DEFINE n == t.leases_size
             x == RollbackLeases(out, w)
             y == RollbackLeases(leases, t)
  <2>1. /\ x \in Seq(StoredLeases) /\ Len(x) = w.leases_size
        /\ \A i \in 1..w.leases_size : x[i] = RestoredLease(out, w, i)
    BY <1>3, <1>4, RollbackLeasesResult
  <2>2. /\ y \in Seq(StoredLeases) /\ Len(y) = n
        /\ \A i \in 1..n : y[i] = RestoredLease(leases, t, i)
    BY RollbackLeasesResult
  <2> HIDE DEF x, y
  <2>3. Len(x) = Len(y) /\ \A i \in 1..Len(x) : x[i] = y[i]
    BY <1>0, <1>5, <2>1, <2>2
  <2>4. x = y
    BY <2>1, <2>2, <2>3, SameList
  <2> QED
    BY <2>4 DEF x, y
<1> QED
  BY <1>4, <1>6

-----------------------------------------------------------------------------
(* Rolling back the whole state *)

\* A journal can be applied to a state.
Fits(st, undo) ==
    /\ undo \in Undos
    /\ FitsHistories(st.histories, undo)
    /\ FitsLeases(st.leases, undo)
    /\ undo.receipts_size \in 0..Len(st.receipts)

\* The fields of a state.
LEMMA StateType ==
    ASSUME NEW st \in States
    PROVE  /\ st.histories \in Histories
           /\ st.leases \in Seq(StoredLeases)
           /\ st.receipts \in Seq(StoredReceipts)
           /\ st.snapshots \in SUBSET Snapshots
           /\ st.qualifications \in SUBSET Qualifications
           /\ st = [histories |-> st.histories, leases |-> st.leases,
                    receipts |-> st.receipts, snapshots |-> st.snapshots,
                    qualifications |-> st.qualifications]
BY DEF States

\* The fields of a journal.
LEMMA UndoType ==
    ASSUME NEW u \in Undos
    PROVE  /\ u.histories_size \in Nat
           /\ u.leases_size \in Nat
           /\ u.receipts_size \in Nat
           /\ u.record_sizes \in Seq(SizeEntries)
           /\ u.replaced_leases \in Seq(LeaseEntries)
           /\ u.inserted_snapshots \in SUBSET U64
           /\ u.inserted_qualifications \in SUBSET U64
BY DEF Undos, SizeEntries, LeaseEntries

\* A journal that fits takes a state to a state.
LEMMA RollbackType ==
    ASSUME NEW st \in States, NEW u, Fits(st, u)
    PROVE  rollback(st, u) \in States
<1>1. RollbackHistories(st.histories, u) \in Histories
  BY StateType, RollbackHistoriesResult DEF Fits
<1>2. RollbackLeases(st.leases, u) \in Seq(StoredLeases)
  BY StateType, RollbackLeasesResult DEF Fits
<1>3. resize(st.receipts, u.receipts_size) \in Seq(StoredReceipts)
  BY StateType, ResizeType DEF Fits
<1>4. /\ {s \in st.snapshots : s.epoch \notin u.inserted_snapshots} \in SUBSET Snapshots
      /\ {q \in st.qualifications : q.epoch \notin u.inserted_qualifications}
           \in SUBSET Qualifications
  BY StateType
<1> QED
  BY <1>1, <1>2, <1>3, <1>4 DEF rollback, States

\* A journal that was just begun fits and changes nothing.
LEMMA RollbackCheckpoint ==
    ASSUME NEW st \in States
    PROVE  Fits(st, checkpoint(st)) /\ rollback(st, checkpoint(st)) = st
<1> DEFINE u == checkpoint(st)
           h == st.histories
<1>1. /\ h \in Histories
      /\ st.leases \in Seq(StoredLeases)
      /\ st.receipts \in Seq(StoredReceipts)
  BY StateType
<1>2. /\ u.histories_size = Len(h)
      /\ u.leases_size = Len(st.leases)
      /\ u.receipts_size = Len(st.receipts)
      /\ u.record_sizes = <<>>
      /\ u.replaced_leases = <<>>
      /\ u.inserted_snapshots = {}
      /\ u.inserted_qualifications = {}
  BY DEF checkpoint
<1>3. u \in Undos
  <2>1. Len(h) \in Nat /\ Len(st.leases) \in Nat /\ Len(st.receipts) \in Nat
    BY <1>1 DEF Histories
  <2> QED
    BY <2>1 DEF checkpoint, Undos
<1> HIDE DEF u
<1>4. \A i : ~ Logged(u.record_sizes, i) /\ ~ Logged(u.replaced_leases, i)
  BY <1>2 DEF Logged
<1>5. FitsHistories(h, u)
  <2>1. Len(h) \in 0..Len(h)
    BY <1>1 DEF Histories
  <2> QED
    BY <1>2, <2>1 DEF FitsHistories
<1>6. FitsLeases(st.leases, u)
  BY <1>1, <1>2 DEF FitsLeases
<1>7. Fits(st, u)
  BY <1>1, <1>2, <1>3, <1>5, <1>6 DEF Fits
<1>8. RollbackHistories(h, u) = h
  <2> DEFINE g == RollbackHistories(h, u)
  <2>1. \A i : RestoredRecords(h, u, i) = h[i].records
    BY <1>4 DEF RestoredRecords
  <2> HIDE DEF h
  <2>2. /\ g \in Histories
        /\ Len(g) = u.histories_size
        /\ \A i \in 1..u.histories_size :
              g[i].identity_id = h[i].identity_id /\ g[i].records = RestoredRecords(h, u, i)
    BY <1>1, <1>5, RollbackHistoriesResult
  <2> HIDE DEF g
  <2>3. \A i \in 1..Len(h) : g[i].identity_id = h[i].identity_id /\ g[i].records = h[i].records
    BY <1>2, <2>1, <2>2
  <2> QED
    BY <1>1, <1>2, <2>2, <2>3, SameRegistry DEF g
<1>9. RollbackLeases(st.leases, u) = st.leases
  BY <1>1, <1>2, <1>4, <1>6, RollbackLeasesResult, SameList DEF RestoredLease
<1>10. resize(st.receipts, u.receipts_size) = st.receipts
  BY <1>1, <1>2, ResizeAll
<1>11. /\ {s \in st.snapshots : s.epoch \notin u.inserted_snapshots} = st.snapshots
       /\ {q \in st.qualifications : q.epoch \notin u.inserted_qualifications}
            = st.qualifications
  BY <1>2
<1>12. rollback(st, u) = st
  BY <1>8, <1>9, <1>10, <1>11, StateType DEF rollback
<1> QED
  BY <1>7, <1>12 DEF u

\* The journals of a transaction and of its block join to one that undoes both.
LEMMA JoinedUndo ==
    ASSUME NEW st \in States, NEW t, NEW u, Fits(st, t), Fits(rollback(st, t), u)
    PROVE  /\ Fits(st, append_undo(u, t))
           /\ rollback(st, append_undo(u, t)) = rollback(rollback(st, t), u)
<1> DEFINE w == append_undo(u, t)
           mid == rollback(st, t)
<1>1. u \in Undos /\ t \in Undos
  BY DEF Fits
<1>2. /\ w.histories_size = u.histories_size
      /\ w.leases_size = u.leases_size
      /\ w.receipts_size = u.receipts_size
      /\ w.record_sizes = u.record_sizes \o t.record_sizes
      /\ w.replaced_leases = u.replaced_leases \o t.replaced_leases
      /\ w.inserted_snapshots = u.inserted_snapshots \cup t.inserted_snapshots
      /\ w.inserted_qualifications = u.inserted_qualifications \cup t.inserted_qualifications
  BY <1>1 DEF append_undo, Undos
<1>3. w \in Undos
  <2>1. /\ u.record_sizes \o t.record_sizes \in Seq(SizeEntries)
        /\ u.replaced_leases \o t.replaced_leases \in Seq(LeaseEntries)
    <3>1. /\ u.record_sizes \in Seq(SizeEntries) /\ t.record_sizes \in Seq(SizeEntries)
          /\ u.replaced_leases \in Seq(LeaseEntries) /\ t.replaced_leases \in Seq(LeaseEntries)
      BY <1>1, UndoType
    <3> QED
      BY <3>1
  <2>2. /\ u.inserted_snapshots \cup t.inserted_snapshots \in SUBSET U64
        /\ u.inserted_qualifications \cup t.inserted_qualifications \in SUBSET U64
    BY <1>1, UndoType
  <2> QED
    BY ZenonT(60), <1>1, <2>1, <2>2 DEF append_undo, Undos, SizeEntries, LeaseEntries
<1>4. /\ mid.histories = RollbackHistories(st.histories, t)
      /\ mid.leases = RollbackLeases(st.leases, t)
      /\ mid.receipts = resize(st.receipts, t.receipts_size)
      /\ mid.snapshots = {s \in st.snapshots : s.epoch \notin t.inserted_snapshots}
      /\ mid.qualifications
           = {q \in st.qualifications : q.epoch \notin t.inserted_qualifications}
  BY DEF rollback
<1> HIDE DEF w, mid
<1>5. Fits(mid, u) /\ Joined(w, u, t)
  BY <1>2 DEF mid, Joined
<1>6. /\ FitsHistories(st.histories, w)
      /\ RollbackHistories(st.histories, w) = RollbackHistories(mid.histories, u)
  <2>1. /\ st.histories \in Histories
        /\ FitsHistories(st.histories, t)
        /\ FitsHistories(RollbackHistories(st.histories, t), u)
    BY <1>4, <1>5, StateType DEF Fits
  <2>2. /\ FitsHistories(st.histories, w)
        /\ RollbackHistories(st.histories, w)
             = RollbackHistories(RollbackHistories(st.histories, t), u)
    BY <1>5, <2>1, JoinHistories
  <2> QED
    BY <1>4, <2>2
<1>7. /\ FitsLeases(st.leases, w)
      /\ RollbackLeases(st.leases, w) = RollbackLeases(mid.leases, u)
  <2>1. /\ st.leases \in Seq(StoredLeases)
        /\ FitsLeases(st.leases, t)
        /\ FitsLeases(RollbackLeases(st.leases, t), u)
    BY <1>4, <1>5, StateType DEF Fits
  <2>2. /\ FitsLeases(st.leases, w)
        /\ RollbackLeases(st.leases, w) = RollbackLeases(RollbackLeases(st.leases, t), u)
    BY <1>5, <2>1, JoinLeases
  <2> QED
    BY <1>4, <2>2
<1>8. /\ w.receipts_size \in 0..Len(st.receipts)
      /\ resize(st.receipts, w.receipts_size) = resize(mid.receipts, u.receipts_size)
  <2>1. /\ st.receipts \in Seq(StoredReceipts)
        /\ t.receipts_size \in 0..Len(st.receipts)
        /\ u.receipts_size \in 0..Len(mid.receipts)
    BY <1>5, StateType DEF Fits
  <2>2. Len(mid.receipts) = t.receipts_size
    BY <1>4, <2>1, ResizeType
  <2>3. u.receipts_size \in 0..t.receipts_size
    BY <2>1, <2>2
  <2> QED
    BY <1>2, <1>4, <2>1, <2>3, ResizeTwice
<1>9. /\ {s \in st.snapshots : s.epoch \notin w.inserted_snapshots}
           = {s \in mid.snapshots : s.epoch \notin u.inserted_snapshots}
      /\ {q \in st.qualifications : q.epoch \notin w.inserted_qualifications}
           = {q \in mid.qualifications : q.epoch \notin u.inserted_qualifications}
  BY <1>2, <1>4
<1>10. Fits(st, w)
  BY <1>3, <1>6, <1>7, <1>8 DEF Fits
<1>11. rollback(st, w) = rollback(mid, u)
  BY ZenonT(60), <1>6, <1>7, <1>8, <1>9 DEF rollback
<1> QED
  BY <1>10, <1>11 DEF w, mid

-----------------------------------------------------------------------------
(* Every change can be undone *)

\* The journal of a lifecycle record undoes it, and does no harm when the record
\* was logged but never applied.
LEMMA UndoLifecycle ==
    ASSUME NEW st \in States, DistinctIds(st.histories), NEW r \in Records, NEW t, Fits(st, t),
           Registered(st.histories, r.next_descriptor.identity_id)
             <=> r.action # "register_identity"
    PROVE  LET w == LogLifecycle(st, r, t)
               out == ApplyLifecycle(st, r)
           IN  /\ out \in States
               /\ DistinctIds(out.histories)
               /\ out.leases = st.leases
               /\ out.receipts = st.receipts
               /\ Fits(st, w)
               /\ rollback(st, w) = rollback(st, t)
               /\ Fits(out, w)
               /\ rollback(out, w) = rollback(st, t)
<1> DEFINE w == LogLifecycle(st, r, t)
           out == ApplyLifecycle(st, r)
           h == st.histories
           g == PushRecord(h, r)
           a == HistoryIndex(h, r.next_descriptor.identity_id)
           e == [index |-> a, records_size |-> Len(h[a].records)]
<1>1. h \in Histories /\ DistinctIds(h) /\ t \in Undos /\ FitsHistories(h, t)
  BY StateType DEF Fits
<1>2. g \in Histories /\ DistinctIds(g)
  BY <1>1, PushKeepsRegistry
<1>3. out = [st EXCEPT !.histories = g]
  BY DEF ApplyLifecycle
<1> HIDE DEF g
<1>4. /\ out \in States
      /\ out.histories = g
      /\ out.leases = st.leases
      /\ out.receipts = st.receipts
      /\ out.snapshots = st.snapshots
      /\ out.qualifications = st.qualifications
  BY <1>2, <1>3 DEF States
<1> HIDE DEF out
<1>5. CASE r.action = "register_identity"
  <2>1. w = t
    BY <1>5 DEF LogLifecycle
  <2>2. /\ Len(g) = Len(h) + 1
        /\ \A j \in DOMAIN h : g[j] = h[j]
    BY ZenonT(60), <1>1, <1>5, PushRegistration DEF g
  <2>3. Len(h) <= Len(g)
    BY <1>1, <2>2 DEF Histories
  <2>4. FitsHistories(g, t) /\ RollbackHistories(g, t) = RollbackHistories(h, t)
    BY <1>1, <1>2, <2>2, <2>3, GrowHistories
  <2>5. Fits(out, t) /\ rollback(out, t) = rollback(st, t)
    BY <1>4, <2>4 DEF Fits, rollback
  <2> HIDE DEF w
  <2> QED
    BY <1>2, <1>4, <2>1, <2>5 DEF w, out
<1>6. CASE r.action # "register_identity"
  <2>1. /\ a \in DOMAIN h
        /\ DOMAIN g = DOMAIN h
        /\ \A j \in DOMAIN h : j # a => g[j] = h[j]
        /\ g[a].identity_id = h[a].identity_id
        /\ g[a].records = Append(h[a].records, r)
    BY <1>1, <1>6, PushTransition DEF g
  <2>2. w = [t EXCEPT !.record_sizes = Append(@, e)]
    BY <1>6 DEF LogLifecycle
  <2>3. e \in SizeEntries
    <3>1. a \in Nat /\ Len(h[a].records) \in Nat
      <4> HIDE DEF h, a
      <4>1. a \in 1..Len(h) /\ h[a].records \in Seq(Records)
        BY <1>1, <2>1, HistoryType
      <4> QED
        BY <4>1
    <3> QED
      BY <3>1 DEF SizeEntries
  <2> DEFINE log == Append(t.record_sizes, e)
  <2>4. log \in Seq(SizeEntries)
    <3>1. t.record_sizes \in Seq(SizeEntries)
      BY <1>1, UndoType
    <3> QED
      BY <2>3, <3>1
  <2>5. w = [t EXCEPT !.record_sizes = log]
    BY <2>2
  <2> HIDE DEF w, log, e, a
  <2>6. /\ w \in Undos
        /\ w.record_sizes = log
        /\ w.histories_size = t.histories_size
        /\ w.leases_size = t.leases_size
        /\ w.receipts_size = t.receipts_size
        /\ w.replaced_leases = t.replaced_leases
        /\ w.inserted_snapshots = t.inserted_snapshots
        /\ w.inserted_qualifications = t.inserted_qualifications
    BY <1>1, <2>4, <2>5 DEF Undos, SizeEntries
  <2>7. /\ FitsHistories(h, w)
        /\ Logged(w.record_sizes, a)
        /\ RollbackHistories(h, w) = RollbackHistories(h, t)
    BY ZenonT(60), <1>1, <2>1, <2>6, LogHistories DEF log, e
  <2>8. FitsHistories(g, w) /\ RollbackHistories(g, w) = RollbackHistories(h, w)
    <3>1. Len(h) <= Len(g)
      BY <1>1, <1>2, <2>1 DEF Histories
    <3>2. \A i \in DOMAIN h :
              /\ g[i].identity_id = h[i].identity_id
              /\ \/ g[i].records = h[i].records
                 \/ /\ Logged(w.record_sizes, i)
                    /\ \E q \in Records : g[i].records = Append(h[i].records, q)
      BY <2>1, <2>7
    <3> QED
      BY ZenonT(60), <1>1, <1>2, <2>7, <3>1, <3>2, GrowHistories
  <2>9. /\ \A x : RollbackLeases(x, w) = RollbackLeases(x, t)
        /\ FitsLeases(st.leases, w)
        /\ w.receipts_size \in 0..Len(st.receipts)
    BY <2>6 DEF RollbackLeases, Fits, FitsLeases
  <2>10. Fits(st, w) /\ Fits(out, w)
    BY <1>4, <2>6, <2>7, <2>8, <2>9 DEF Fits
  <2>11. rollback(st, w) = rollback(st, t)
    BY ZenonT(40), <2>6, <2>7, <2>9 DEF rollback
  <2>12. rollback(out, w) = rollback(st, t)
    BY <1>4, <2>6, <2>7, <2>8, <2>9 DEF rollback
  <2> QED
    BY <1>2, <1>4, <2>10, <2>11, <2>12 DEF w, out
<1> QED
  BY <1>5, <1>6

\* A lease that was appended is cut off.
LEMMA UndoAppendLease ==
    ASSUME NEW st \in States, NEW lease \in Leases, NEW height \in U64, NEW t, Fits(st, t)
    PROVE  LET out == AppendLease(st, lease, height)
           IN  /\ out \in States
               /\ out.histories = st.histories
               /\ out.receipts = st.receipts
               /\ Fits(out, t)
               /\ rollback(out, t) = rollback(st, t)
<1> DEFINE out == AppendLease(st, lease, height)
           stored == [lease |-> lease, inclusion_height |-> height]
           longer == Append(st.leases, stored)
<1>1. st.leases \in Seq(StoredLeases) /\ stored \in StoredLeases
  BY StateType DEF StoredLeases
<1>2. out = [st EXCEPT !.leases = longer]
  BY DEF AppendLease
<1> HIDE DEF stored
<1>3. longer \in Seq(StoredLeases)
  BY <1>1
<1>4. FitsLeases(longer, t) /\ RollbackLeases(longer, t) = RollbackLeases(st.leases, t)
  BY <1>1, AppendedLease DEF Fits
<1> HIDE DEF longer
<1>5. /\ out \in States
      /\ out.leases = longer
      /\ out.histories = st.histories
      /\ out.receipts = st.receipts
      /\ out.snapshots = st.snapshots
      /\ out.qualifications = st.qualifications
  BY ZenonT(60), <1>2, <1>3 DEF States
<1> HIDE DEF out
<1>6. Fits(out, t) /\ rollback(out, t) = rollback(st, t)
  BY <1>4, <1>5 DEF Fits, rollback
<1> QED
  BY <1>5, <1>6 DEF out

\* The lookup of a slot that is taken finds the first lease in it.
LEMMA SlotFound ==
    ASSUME NEW leases \in Seq(StoredLeases), NEW lease, SameSlot(leases, lease) # {}
    PROVE  SlotIndex(leases, lease) \in SameSlot(leases, lease)
<1> DEFINE S == SameSlot(leases, lease)
<1>1. S \in SUBSET Nat
  BY DEF SameSlot
<1> HIDE DEF S
<1>2. PICK i \in S : \A j \in S : i <= j
  BY <1>1, LeastElement DEF S
<1> QED
  BY <1>2 DEF SlotIndex, S

\* A lease that was replaced comes back.
LEMMA UndoReplaceLease ==
    ASSUME NEW st \in States, NEW lease \in Leases, NEW height \in U64, NEW t, Fits(st, t),
           SameSlot(st.leases, lease) # {}
    PROVE  LET out == ReplaceLease(st, lease, height)
               w == LogReplacement(st, lease, t)
           IN  /\ out \in States
               /\ out.histories = st.histories
               /\ out.receipts = st.receipts
               /\ Fits(out, w)
               /\ rollback(out, w) = rollback(st, t)
<1> DEFINE out == ReplaceLease(st, lease, height)
           w == LogReplacement(st, lease, t)
           stored == [lease |-> lease, inclusion_height |-> height]
           a == SlotIndex(st.leases, lease)
           e == [index |-> a, stored |-> st.leases[a]]
           log == Append(t.replaced_leases, e)
           leases == [st.leases EXCEPT ![a] = stored]
<1>1. st.leases \in Seq(StoredLeases) /\ stored \in StoredLeases
  BY ZenonT(60), StateType DEF StoredLeases
<1>2. a \in DOMAIN st.leases
  BY <1>1, SlotFound DEF SameSlot
<1>3. out = [st EXCEPT !.leases = leases]
  BY DEF ReplaceLease
<1>4. w = [t EXCEPT !.replaced_leases = log]
  BY DEF LogReplacement
<1> HIDE DEF a, stored
<1>5. e \in LeaseEntries
  BY <1>1, <1>2 DEF LeaseEntries
<1>6. log \in Seq(LeaseEntries)
  <2>1. t.replaced_leases \in Seq(LeaseEntries)
    BY DEF Fits, FitsLeases
  <2> HIDE DEF e
  <2> QED
    BY <1>5, <2>1
<1>7. leases \in Seq(StoredLeases)
  BY <1>1, <1>2
<1> HIDE DEF e, log, leases, w, out
<1>8. /\ out \in States
      /\ out.leases = leases
      /\ out.histories = st.histories
      /\ out.receipts = st.receipts
      /\ out.snapshots = st.snapshots
      /\ out.qualifications = st.qualifications
  BY <1>3, <1>7 DEF States
<1>9. /\ w \in Undos
      /\ w.replaced_leases = log
      /\ w.record_sizes = t.record_sizes
      /\ w.histories_size = t.histories_size
      /\ w.leases_size = t.leases_size
      /\ w.receipts_size = t.receipts_size
      /\ w.inserted_snapshots = t.inserted_snapshots
      /\ w.inserted_qualifications = t.inserted_qualifications
  <2>1. t \in Undos
    BY DEF Fits
  <2> QED
    BY ZenonT(60), <1>4, <1>6, <2>1 DEF Undos, LeaseEntries
<1>10. FitsLeases(leases, w) /\ RollbackLeases(leases, w) = RollbackLeases(st.leases, t)
  <2>1. FitsLeases(st.leases, t)
    BY DEF Fits
  <2>2. ReplacementLogged(st.leases, t, w, a)
    BY <1>9 DEF ReplacementLogged, log, e
  <2>3. IsReplaced(st.leases, leases, a, stored)
    BY DEF IsReplaced, leases
  <2> QED
    BY <1>1, <1>2, <2>1, <2>2, <2>3, ReplacedLease
<1>11. /\ FitsHistories(st.histories, w)
       /\ RollbackHistories(st.histories, w) = RollbackHistories(st.histories, t)
  BY <1>9 DEF RollbackHistories, Fits, FitsHistories
<1>12. Fits(out, w) /\ rollback(out, w) = rollback(st, t)
  BY <1>8, <1>9, <1>10, <1>11 DEF Fits, rollback
<1> QED
  BY <1>8, <1>12 DEF out, w

\* A receipt is cut off.
LEMMA UndoReceipt ==
    ASSUME NEW st \in States, NEW r \in Receipts, NEW height \in U64, NEW t, Fits(st, t)
    PROVE  LET out == AppendReceipt(st, r, height)
           IN  /\ out \in States
               /\ out.histories = st.histories
               /\ out.leases = st.leases
               /\ Fits(out, t)
               /\ rollback(out, t) = rollback(st, t)
<1> DEFINE out == AppendReceipt(st, r, height)
           stored == [receipt_hash |-> r, inclusion_height |-> height]
           longer == Append(st.receipts, stored)
<1>1. st.receipts \in Seq(StoredReceipts) /\ stored \in StoredReceipts
  BY StateType DEF StoredReceipts
<1>2. out = [st EXCEPT !.receipts = longer]
  BY DEF AppendReceipt
<1>3. t.receipts_size \in 0..Len(st.receipts)
  BY DEF Fits
<1> HIDE DEF stored
<1>4. longer \in Seq(StoredReceipts) /\ t.receipts_size \in 0..Len(longer)
  BY <1>1, <1>3
<1>5. resize(longer, t.receipts_size) = resize(st.receipts, t.receipts_size)
  BY <1>1, <1>3, ResizeAppend
<1> HIDE DEF longer
<1>6. /\ out \in States
      /\ out.receipts = longer
      /\ out.histories = st.histories
      /\ out.leases = st.leases
      /\ out.snapshots = st.snapshots
      /\ out.qualifications = st.qualifications
  BY <1>2, <1>4 DEF States
<1> HIDE DEF out
<1>7. Fits(out, t) /\ rollback(out, t) = rollback(st, t)
  BY ZenonT(60), <1>4, <1>5, <1>6 DEF Fits, rollback
<1> QED
  BY <1>6, <1>7 DEF out

\* The journal that a block begins with undoes the freeze.
LEMMA UndoFreeze ==
    ASSUME NEW st \in States, NEW epoch \in U64, NEW anchor_hash \in BlockHash,
           epoch \notin EpochsOf(st.snapshots)
    PROVE  LET out == freeze_membership(st, epoch, anchor_hash)
               u == [checkpoint(st) EXCEPT !.inserted_snapshots = {epoch}]
           IN  /\ out \in States
               /\ out.histories = st.histories
               /\ out.leases = st.leases
               /\ out.receipts = st.receipts
               /\ Fits(out, u)
               /\ rollback(out, u) = st
<1> DEFINE out == freeze_membership(st, epoch, anchor_hash)
           c == checkpoint(st)
           u == [c EXCEPT !.inserted_snapshots = {epoch}]
           s0 == Frozen(st.leases, AuthorizedMembers(st.histories, epoch), epoch, anchor_hash)
<1>1. s0 \in Snapshots /\ s0.epoch = epoch
  <2> DEFINE S == Eligible(st.leases, AuthorizedMembers(st.histories, epoch), epoch)
             M == {st.leases[i].lease.member : i \in S}
  <2>1. M \in SUBSET Members
    <3>1. st.leases \in Seq(StoredLeases) /\ S \subseteq DOMAIN st.leases
      BY StateType DEF Eligible
    <3> SUFFICES ASSUME NEW i \in DOMAIN st.leases PROVE st.leases[i].lease.member \in Members
      BY <3>1
    <3>2. st.leases[i] \in StoredLeases
      BY <3>1
    <3> QED
      BY <3>2 DEF StoredLeases, Leases
  <2> HIDE DEF S
  <2>2. s0 = [epoch |-> epoch, anchor_hash |-> anchor_hash, members |-> M]
    BY DEF Frozen, S
  <2> HIDE DEF M, s0
  <2> QED
    BY <2>1, <2>2 DEF Snapshots
<1>2. out = [st EXCEPT !.snapshots = st.snapshots \cup {s0}]
  BY DEF freeze_membership
<1> HIDE DEF s0, out, c
<1>3. /\ out \in States
      /\ out.snapshots = st.snapshots \cup {s0}
      /\ out.histories = st.histories
      /\ out.leases = st.leases
      /\ out.receipts = st.receipts
      /\ out.qualifications = st.qualifications
  BY <1>1, <1>2 DEF States
<1>4. Fits(st, c) /\ rollback(st, c) = st
  BY RollbackCheckpoint DEF c
<1>5. /\ u \in Undos
      /\ u.inserted_snapshots = {epoch}
      /\ u.replaced_leases = c.replaced_leases
      /\ u.record_sizes = c.record_sizes
      /\ u.histories_size = c.histories_size
      /\ u.leases_size = c.leases_size
      /\ u.receipts_size = c.receipts_size
      /\ u.inserted_qualifications = c.inserted_qualifications
  <2>1. c \in Undos
    BY <1>4 DEF Fits
  <2> QED
    BY ZenonT(60), <2>1 DEF Undos
<1> HIDE DEF u
<1>6. Fits(out, u)
  BY <1>3, <1>4, <1>5 DEF Fits, FitsHistories, FitsLeases
<1>7. /\ RollbackHistories(st.histories, u) = RollbackHistories(st.histories, c)
      /\ RollbackLeases(st.leases, u) = RollbackLeases(st.leases, c)
  BY <1>5 DEF RollbackHistories, RollbackLeases
<1>8. {s \in out.snapshots : s.epoch \notin u.inserted_snapshots} = st.snapshots
  BY <1>1, <1>3, <1>5 DEF EpochsOf
<1>9. {s \in st.snapshots : s.epoch \notin c.inserted_snapshots} = st.snapshots
  BY DEF c, checkpoint
<1>10. rollback(out, u) = rollback(st, c)
  BY ZenonT(60), <1>3, <1>5, <1>7, <1>8, <1>9 DEF rollback
<1> QED
  BY <1>3, <1>4, <1>6, <1>10 DEF out, u, c

\* The journal of a block, with the epoch that the block closes, undoes the close.
LEMMA UndoClose ==
    ASSUME NEW st \in States, NEW epoch \in U64, NEW u, Fits(st, u),
           epoch \in EpochsOf(st.snapshots), epoch \notin EpochsOf(st.qualifications)
    PROVE  LET out == close_qualification(st, epoch)
               w == [u EXCEPT !.inserted_qualifications = @ \cup {epoch}]
           IN  /\ out \in States
               /\ out.histories = st.histories
               /\ out.leases = st.leases
               /\ out.receipts = st.receipts
               /\ Fits(out, w)
               /\ rollback(out, w) = rollback(st, u)
<1> DEFINE out == close_qualification(st, epoch)
           w == [u EXCEPT !.inserted_qualifications = @ \cup {epoch}]
           s0 == OfEpoch(st.snapshots, epoch)
           q0 == Closed(st.receipts, s0)
<1>1. s0 \in st.snapshots /\ s0 \in Snapshots /\ s0.epoch = epoch
  BY StateType DEF EpochsOf, OfEpoch
<1> HIDE DEF s0
<1>2. q0 \in Qualifications /\ q0.epoch = epoch
  <2> DEFINE Q == q0.qualified_nodes
  <2>1. Q \in SUBSET ServiceKey
    <3>1. KeysOf(s0) \subseteq ServiceKey
      BY <1>1 DEF Snapshots, Members, KeysOf
    <3> QED
      BY <3>1 DEF Closed
  <2>2. q0 = [epoch |-> s0.epoch, snapshot_hash |-> s0, qualified_nodes |-> Q]
    BY DEF Closed
  <2> HIDE DEF Q, q0
  <2> QED
    BY <1>1, <2>1, <2>2 DEF Qualifications
<1>3. out = [st EXCEPT !.qualifications = st.qualifications \cup {q0}]
  BY DEF close_qualification, s0
<1> HIDE DEF out, q0
<1>4. /\ out \in States
      /\ out.qualifications = st.qualifications \cup {q0}
      /\ out.histories = st.histories
      /\ out.leases = st.leases
      /\ out.receipts = st.receipts
      /\ out.snapshots = st.snapshots
  BY <1>2, <1>3 DEF States
<1>5. /\ w \in Undos
      /\ w.inserted_qualifications = u.inserted_qualifications \cup {epoch}
      /\ w.replaced_leases = u.replaced_leases
      /\ w.record_sizes = u.record_sizes
      /\ w.histories_size = u.histories_size
      /\ w.leases_size = u.leases_size
      /\ w.receipts_size = u.receipts_size
      /\ w.inserted_snapshots = u.inserted_snapshots
  <2>1. u \in Undos
    BY DEF Fits
  <2> QED
    BY <2>1 DEF Undos
<1> HIDE DEF w
<1>6. Fits(out, w)
  BY <1>4, <1>5 DEF Fits, FitsHistories, FitsLeases
<1>7. /\ RollbackHistories(st.histories, w) = RollbackHistories(st.histories, u)
      /\ RollbackLeases(st.leases, w) = RollbackLeases(st.leases, u)
  BY <1>5 DEF RollbackHistories, RollbackLeases
<1>8. {q \in out.qualifications : q.epoch \notin w.inserted_qualifications}
        = {q \in st.qualifications : q.epoch \notin u.inserted_qualifications}
  <2>1. \A q \in st.qualifications : q.epoch # epoch
    BY DEF EpochsOf
  <2> QED
    BY <1>2, <1>4, <1>5, <2>1
<1>9. rollback(out, w) = rollback(st, u)
  BY <1>4, <1>5, <1>7, <1>8 DEF rollback
<1> QED
  BY <1>4, <1>6, <1>9 DEF out, w

-----------------------------------------------------------------------------
(* Slots are filled once *)

\* No two leases for one epoch share an identity or a service key.
DistinctLeases(leases) ==
    \A i, j \in DOMAIN leases :
        LET a == leases[i].lease
            b == leases[j].lease
        IN  /\ a.target_epoch = b.target_epoch
            /\ \/ a.member.identity_id = b.member.identity_id
               \/ a.member.service_public_key = b.member.service_public_key
            => i = j

\* No two receipts fill one slot.
DistinctReceipts(receipts) ==
    \A i, j \in DOMAIN receipts :
        SameReceiptSlot(receipts[i].receipt_hash, receipts[j].receipt_hash) => i = j

\* A lease that is appended to a free slot shares nothing with another.
LEMMA AppendKeepsLeases ==
    ASSUME NEW leases \in Seq(StoredLeases), DistinctLeases(leases), NEW lease, NEW height,
           SameSlot(leases, lease) = {}, ~ KeyLeasedByOther(leases, lease)
    PROVE  DistinctLeases(Append(leases, [lease |-> lease, inclusion_height |-> height]))
<1> DEFINE s == [lease |-> lease, inclusion_height |-> height]
           longer == Append(leases, s)
           n == Len(leases)
<1>1. /\ DOMAIN leases = 1..n /\ DOMAIN longer = 1..(n + 1) /\ n \in Nat
      /\ \A i \in 1..n : longer[i] = leases[i]
      /\ longer[n + 1] = s
  OBVIOUS
<1>2. s.lease = lease
  OBVIOUS
<1> HIDE DEF longer, s, n
<1>3. ASSUME NEW i \in 1..n, leases[i].lease.target_epoch = lease.target_epoch
      PROVE  /\ leases[i].lease.member.identity_id # lease.member.identity_id
             /\ leases[i].lease.member.service_public_key # lease.member.service_public_key
  BY <1>1, <1>3 DEF SameSlot, KeyLeasedByOther, EntriesOf
<1>4. \A i \in DOMAIN longer : i \in 1..n \/ i = n + 1
  BY <1>1
<1>5. DistinctLeases(longer)
  <2> SUFFICES ASSUME NEW i \in DOMAIN longer, NEW j \in DOMAIN longer,
                      longer[i].lease.target_epoch = longer[j].lease.target_epoch,
                      \/ longer[i].lease.member.identity_id = longer[j].lease.member.identity_id
                      \/ longer[i].lease.member.service_public_key
                           = longer[j].lease.member.service_public_key
               PROVE  i = j
    BY DEF DistinctLeases
  <2>1. CASE i \in 1..n /\ j \in 1..n
    BY <1>1, <2>1 DEF DistinctLeases
  <2>2. CASE i \in 1..n /\ j = n + 1
    BY <1>1, <1>2, <1>3, <2>2
  <2>3. CASE i = n + 1 /\ j \in 1..n
    BY <1>1, <1>2, <1>3, <2>3
  <2> QED
    BY <1>4, <2>1, <2>2, <2>3
<1> QED
  BY <1>5 DEF longer, s

\* A lease that takes the place of an older one of its identity shares nothing
\* with another.
LEMMA ReplaceKeepsLeases ==
    ASSUME NEW leases \in Seq(StoredLeases), DistinctLeases(leases), NEW lease, NEW height,
           NEW a \in SameSlot(leases, lease), ~ KeyLeasedByOther(leases, lease)
    PROVE  DistinctLeases([leases EXCEPT ![a] = [lease |-> lease, inclusion_height |-> height]])
<1> DEFINE s == [lease |-> lease, inclusion_height |-> height]
           out == [leases EXCEPT ![a] = s]
<1>1. /\ a \in DOMAIN leases
      /\ leases[a].lease.target_epoch = lease.target_epoch
      /\ leases[a].lease.member.identity_id = lease.member.identity_id
  BY DEF SameSlot
<1>2. s.lease = lease
  OBVIOUS
<1> HIDE DEF s
<1>3. /\ DOMAIN out = DOMAIN leases
      /\ out[a] = s
      /\ \A i \in DOMAIN leases : i # a => out[i] = leases[i]
  BY <1>1
<1> HIDE DEF out
<1>4. ASSUME NEW i \in DOMAIN leases, i # a, leases[i].lease.target_epoch = lease.target_epoch
      PROVE  /\ leases[i].lease.member.identity_id # lease.member.identity_id
             /\ leases[i].lease.member.service_public_key # lease.member.service_public_key
  <2>1. leases[i].lease.member.identity_id # lease.member.identity_id
    BY <1>1, <1>4 DEF DistinctLeases
  <2> QED
    BY <1>4, <2>1 DEF KeyLeasedByOther, EntriesOf
<1> QED
  BY <1>2, <1>3, <1>4 DEF DistinctLeases, out, s

\* A receipt that is appended fills a free slot.
LEMMA AppendKeepsReceipts ==
    ASSUME NEW receipts \in Seq(StoredReceipts), DistinctReceipts(receipts), NEW r, NEW height,
           \A s \in EntriesOf(receipts) : ~ SameReceiptSlot(s.receipt_hash, r)
    PROVE  DistinctReceipts(Append(receipts, [receipt_hash |-> r, inclusion_height |-> height]))
<1> DEFINE s == [receipt_hash |-> r, inclusion_height |-> height]
           longer == Append(receipts, s)
           n == Len(receipts)
<1>1. /\ DOMAIN receipts = 1..n /\ DOMAIN longer = 1..(n + 1) /\ n \in Nat
      /\ \A i \in 1..n : longer[i] = receipts[i]
      /\ longer[n + 1] = s
  OBVIOUS
<1>2. s.receipt_hash = r
  OBVIOUS
<1> HIDE DEF longer, s, n
<1>3. \A i \in 1..n : /\ ~ SameReceiptSlot(receipts[i].receipt_hash, r)
                      /\ ~ SameReceiptSlot(r, receipts[i].receipt_hash)
  BY <1>1 DEF EntriesOf, SameReceiptSlot
<1>4. \A i \in DOMAIN longer : i \in 1..n \/ i = n + 1
  BY <1>1
<1>5. DistinctReceipts(longer)
  <2> SUFFICES ASSUME NEW i \in DOMAIN longer, NEW j \in DOMAIN longer,
                      SameReceiptSlot(longer[i].receipt_hash, longer[j].receipt_hash)
               PROVE  i = j
    BY DEF DistinctReceipts
  <2>1. CASE i \in 1..n /\ j \in 1..n
    BY <1>1, <2>1 DEF DistinctReceipts
  <2>2. CASE i \in 1..n /\ j = n + 1
    BY <1>1, <1>2, <1>3, <2>2
  <2>3. CASE i = n + 1 /\ j \in 1..n
    BY <1>1, <1>2, <1>3, <2>3
  <2> QED
    BY <1>4, <2>1, <2>2, <2>3
<1> QED
  BY <1>5 DEF longer, s

=============================================================================
