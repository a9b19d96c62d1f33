----------------------- MODULE ReceiptProducer_proofs -----------------------
(***************************************************************************)
(* The invariants of the receipt producer, for any rounds, subjects and    *)
(* times, and any order of probes, clock ticks, blocks and faults.         *)
(***************************************************************************)
EXTENDS ReceiptProducer, FiniteSetTheorems, WellFoundedInduction, TLAPS

-----------------------------------------------------------------------------
(* The delay *)

\* The order of the natural numbers is a well-founded relation.
LEMMA NatOrder ==
    \E R : IsWellFoundedOn(R, Nat) /\ \A x, y \in Nat : x < y => <<x, y>> \in R
<1> DEFINE R == OpToRel(<, Nat)
<1>1. IsWellFoundedOn(R, Nat)
  BY NatLessThanWellFounded
<1>2. \A x, y \in Nat : x < y => <<x, y>> \in R
  BY DEF OpToRel
<1> HIDE DEF R
<1> QED
  BY <1>1, <1>2

\* A set of natural numbers has a least element.
LEMMA LeastElement ==
    ASSUME NEW S \in SUBSET Nat, S # {}
    PROVE  \E i \in S : \A j \in S : i <= j
<1>1. PICK R : IsWellFoundedOn(R, Nat) /\ \A x, y \in Nat : x < y => <<x, y>> \in R
  BY NatOrder
<1>2. PICK i \in S : \A j \in S : ~ (<<j, i>> \in R)
  <2>1. IsWellFoundedOn(R, Nat) /\ S \subseteq Nat
    BY <1>1
  <2> QED
    BY <2>1, WFMin
<1>3. \A j \in S : ~ (j < i)
  BY ZenonT(60), <1>1, <1>2
<1>4. \A j \in S : i <= j
  BY <1>3
<1> QED
  BY <1>4

\* The delays after 1 to n failures.
Delays(f, n) ==
    f = [k \in 1..n |-> IF k = 1 THEN base_backoff ELSE Smaller(max_backoff, 2 * f[k - 1])]

\* There are such delays for every number of failures.
LEMMA DelaysExist ==
    ASSUME NEW n \in Nat \ {0}
    PROVE  \E f : Delays(f, n)
<1> DEFINE Bad == {k \in Nat \ {0} : \A f : ~ Delays(f, k)}
<1>1. SUFFICES ASSUME Bad # {} PROVE FALSE
  OBVIOUS
<1>2. PICK k \in Bad : \A m \in Bad : k <= m
  BY <1>1, LeastElement
<1>3. k \in Nat \ {0} /\ \A f : ~ Delays(f, k)
  OBVIOUS
<1>4. CASE k = 1
  <2> DEFINE f == [i \in 1..1 |-> base_backoff]
  <2>1. Delays(f, 1)
    BY DEF Delays
  <2> QED
    BY <1>3, <1>4, <2>1
<1>5. CASE k # 1
  <2>1. k - 1 \in Nat \ {0} /\ k - 1 \notin Bad
    BY <1>2, <1>3, <1>5
  <2>2. PICK g : Delays(g, k - 1)
    BY <2>1
  <2> DEFINE f == [i \in 1..k |-> IF i < k THEN g[i] ELSE Smaller(max_backoff, 2 * g[k - 1])]
             h == [i \in 1..k |-> IF i = 1 THEN base_backoff
                                  ELSE Smaller(max_backoff, 2 * f[i - 1])]
  <2>3. ASSUME NEW i \in 1..k
        PROVE  f[i] = h[i]
    <3>1. CASE i < k
      <4>1. i \in 1..(k - 1) /\ f[i] = g[i]
        BY <1>3, <3>1
      <4>2. g[i] = IF i = 1 THEN base_backoff ELSE Smaller(max_backoff, 2 * g[i - 1])
        BY <2>2, <4>1 DEF Delays
      <4>3. i # 1 => f[i - 1] = g[i - 1]
        BY <1>3, <3>1
      <4> QED
        BY <4>1, <4>2, <4>3
    <3>2. CASE i = k
      <4>1. f[k] = Smaller(max_backoff, 2 * g[k - 1]) /\ f[k - 1] = g[k - 1]
        BY <1>3, <1>5, <2>1
      <4> QED
        BY <1>3, <1>5, <3>2, <4>1
    <3> QED
      BY <1>3, <3>1, <3>2
  <2>4. f = h
    BY <2>3
  <2>5. Delays(f, k)
    BY <2>4 DEF Delays
  <2> QED
    BY <1>3, <2>5
<1> QED
  BY <1>4, <1>5

\* The delay after a failure lies between the base and the limit
\* (service_producer_v2.cpp:225).
LEMMA BackoffRange ==
    ASSUME NEW failures \in 1..FailuresMax
    PROVE  Backoff(failures) \in base_backoff..max_backoff
<1> DEFINE f == CHOOSE f : Delays(f, FailuresMax)
           Bad == {k \in 1..FailuresMax : f[k] \notin base_backoff..max_backoff}
<1>0. /\ base_backoff \in Nat \ {0} /\ max_backoff \in Nat /\ max_backoff >= base_backoff
      /\ FailuresMax \in Nat \ {0}
  BY TrackerAssumption
<1>1. Delays(f, FailuresMax)
  BY <1>0, DelaysExist
<1>2. Backoff(failures) = f[failures]
  BY DEF Backoff, Delays
<1> HIDE DEF f
<1>3. \A k \in 1..FailuresMax :
        f[k] = IF k = 1 THEN base_backoff ELSE Smaller(max_backoff, 2 * f[k - 1])
  BY <1>1 DEF Delays
<1>4. ASSUME Bad # {} PROVE FALSE
  <2>0. Bad \in SUBSET Nat
    BY <1>0
  <2>1. PICK k \in Bad : \A m \in Bad : k <= m
    <3> HIDE DEF Bad
    <3> QED
      BY <1>4, <2>0, LeastElement
  <2>2. k \in 1..FailuresMax /\ f[k] \notin base_backoff..max_backoff
    OBVIOUS
  <2>3. k # 1
    BY <1>0, <1>3, <2>2
  <2>4. k - 1 \in 1..FailuresMax /\ k - 1 \notin Bad
    BY <1>0, <2>1, <2>2, <2>3
  <2>5. f[k - 1] \in base_backoff..max_backoff
    BY <2>4
  <2> DEFINE x == f[k - 1]
  <2>6. f[k] = Smaller(max_backoff, 2 * x)
    BY <1>3, <2>2, <2>3
  <2> HIDE DEF x
  <2>7. Smaller(max_backoff, 2 * x) \in base_backoff..max_backoff
    BY <1>0, <2>5 DEF Smaller, x
  <2> QED
    BY <2>2, <2>6, <2>7
<1> QED
  BY <1>2, <1>4

-----------------------------------------------------------------------------
(* The tracker *)

\* The tracker is what the code's class can hold: at most max_entries entries of slots.
TrackerOK(t) ==
    /\ t = [context |-> t.context, entries |-> t.entries]
    /\ t.context \in Context \cup {NoContext}
    /\ t.entries \in [DOMAIN t.entries -> Entries]
    /\ DOMAIN t.entries \subseteq Slot
    /\ IsFiniteSet(DOMAIN t.entries)
    /\ Cardinality(DOMAIN t.entries) <= max_entries

\* The slots of the attempts in flight.
InFlight(t) == {slot \in DOMAIN t.entries : t.entries[slot].in_flight}

\* The constants are positive numbers.
LEMMA TrackerConstants ==
    /\ max_entries \in Nat \ {0} /\ base_backoff \in Nat \ {0} /\ resubmit \in Nat \ {0}
    /\ max_transport_attempts \in Nat \ {0} /\ max_backoff \in Nat
    /\ FailuresMax \in Nat \ {0}
BY TrackerAssumption

\* A tracker without entries.
LEMMA NoEntriesOK ==
    ASSUME NEW c \in Context \cup {NoContext}
    PROVE  LET t == [context |-> c, entries |-> NoEntries]
           IN  TrackerOK(t) /\ InFlight(t) = {}
<1> DEFINE t == [context |-> c, entries |-> NoEntries]
<1>1. t.context = c /\ t.entries = NoEntries
  OBVIOUS
<1>2. DOMAIN NoEntries = {} /\ NoEntries \in [{} -> Entries]
  BY DEF NoEntries
<1>3. IsFiniteSet({}) /\ Cardinality({}) = 0
  BY FS_EmptySet
<1> HIDE DEF t
<1>4. t = [context |-> t.context, entries |-> t.entries]
  BY DEF t
<1>5. TrackerOK(t)
  BY <1>1, <1>2, <1>3, <1>4, TrackerConstants DEF TrackerOK
<1>6. InFlight(t) = {}
  BY <1>1, <1>2 DEF InFlight
<1> QED
  BY <1>5, <1>6 DEF t

\* A tracker whose entries are changed is built of its context and the new entries.
LEMMA ChangedEntries ==
    ASSUME NEW t, TrackerOK(t), NEW D \in SUBSET Slot, NEW e \in [D -> Entries],
           IsFiniteSet(D), Cardinality(D) <= max_entries
    PROVE  LET u == [t EXCEPT !.entries = e]
           IN  TrackerOK(u) /\ u.context = t.context /\ u.entries = e
<1> DEFINE u == [t EXCEPT !.entries = e]
<1>1. t = [context |-> t.context, entries |-> t.entries] /\ t.context \in Context \cup {NoContext}
  BY DEF TrackerOK
<1>2. u = [context |-> t.context, entries |-> e]
  BY <1>1
<1>3. u.context = t.context /\ u.entries = e /\ DOMAIN u.entries = D
  BY <1>2
<1> HIDE DEF u
<1>4. u = [context |-> u.context, entries |-> u.entries]
  BY <1>2, <1>3
<1>5. TrackerOK(u)
  BY <1>1, <1>3, <1>4 DEF TrackerOK
<1> QED
  BY <1>3, <1>5 DEF u

\* One entry of the tracker is changed.
LEMMA ChangedEntry ==
    ASSUME NEW t, TrackerOK(t), NEW slot \in DOMAIN t.entries, NEW e \in Entries
    PROVE  LET u == [t EXCEPT !.entries = [t.entries EXCEPT ![slot] = e]]
           IN  /\ TrackerOK(u) /\ u.context = t.context
               /\ DOMAIN u.entries = DOMAIN t.entries
               /\ u.entries[slot] = e
               /\ \A s \in DOMAIN t.entries : s # slot => u.entries[s] = t.entries[s]
<1> DEFINE f == [t.entries EXCEPT ![slot] = e]
           u == [t EXCEPT !.entries = f]
<1>1. /\ t.entries \in [DOMAIN t.entries -> Entries] /\ DOMAIN t.entries \in SUBSET Slot
      /\ IsFiniteSet(DOMAIN t.entries) /\ Cardinality(DOMAIN t.entries) <= max_entries
  BY DEF TrackerOK
<1>2. /\ f \in [DOMAIN t.entries -> Entries] /\ f[slot] = e
      /\ \A s \in DOMAIN t.entries : s # slot => f[s] = t.entries[s]
  BY <1>1
<1> HIDE DEF f
<1>3. TrackerOK(u) /\ u.context = t.context /\ u.entries = f
  BY <1>1, <1>2, ChangedEntries
<1> HIDE DEF u
<1> QED
  BY <1>2, <1>3 DEF u, f

\* What an operation that ends the attempt of a slot does: the other entries are kept.
Ends(t, u, slot) ==
    /\ TrackerOK(u)
    /\ u.context = t.context
    /\ DOMAIN u.entries = DOMAIN t.entries
    /\ InFlight(u) = InFlight(t) \ {slot}

\* An entry is a record of its five fields.
LEMMA EntryFields ==
    ASSUME NEW e \in Entries
    PROVE  /\ e.next_attempt \in Nat /\ e.failures \in 0..FailuresMax
           /\ e.in_flight \in BOOLEAN /\ e.envelope \in BOOLEAN
           /\ e.window_attempts \in 0..max_transport_attempts
BY DEF Entries

\* An entry whose counter may have left its range.
OpenEntries ==
    [next_attempt : Nat, failures : 0..FailuresMax, in_flight : BOOLEAN,
     envelope : BOOLEAN, window_attempts : Nat]

\* An entry whose attempt ends is an entry.
LEMMA EntryEnds ==
    ASSUME NEW e \in Entries
    PROVE  LET x == [e EXCEPT !.in_flight = FALSE]
           IN  x \in Entries /\ x.in_flight = FALSE
BY DEF Entries

\* An entry whose counter and time change after a failure is an entry.
LEMMA EntryFails ==
    ASSUME NEW e \in Entries, NEW n \in 0..FailuresMax, NEW d \in Nat
    PROVE  LET x == [e EXCEPT !.failures = n, !.next_attempt = d]
           IN  x \in Entries /\ x.in_flight = e.in_flight
BY DEF Entries

\* An entry that keeps an envelope is an entry.
LEMMA EntryKeeps ==
    ASSUME NEW e \in Entries
    PROVE  LET x == [e EXCEPT !.envelope = TRUE, !.window_attempts = 1]
           IN  x \in OpenEntries /\ x.in_flight = e.in_flight
BY DEF Entries, OpenEntries

\* An entry is one whose counter is in its range.
LEMMA EntryOpen == Entries \subseteq OpenEntries
<1>1. 0..max_transport_attempts \subseteq Nat
  BY TrackerConstants
<1> QED
  BY <1>1 DEF Entries, OpenEntries

\* A transport keeps the type of an entry, and brings its counter back into its range.
LEMMA TransportedOK ==
    ASSUME NEW e \in OpenEntries
    PROVE  /\ Transported(e) \in Entries
           /\ Transported(e).in_flight = e.in_flight
<1> DEFINE w == IF e.window_attempts >= max_transport_attempts THEN 0 ELSE e.window_attempts
           n == IF e.window_attempts >= max_transport_attempts
                THEN Larger(resubmit, max_backoff) ELSE resubmit
<1>1. w \in 0..max_transport_attempts /\ n \in Nat
  BY TrackerConstants DEF Larger, OpenEntries
<1>2. Transported(e) = [e EXCEPT !.window_attempts = w, !.next_attempt = n]
  BY DEF Transported
<1> HIDE DEF w, n
<1> QED
  BY <1>1, <1>2 DEF Entries, OpenEntries

\* A failure ends the attempt (service_producer_v2.cpp:219).
LEMMA FailedEnds ==
    ASSUME NEW t, TrackerOK(t), NEW slot
    PROVE  Ends(t, failed(t, slot), slot)
<1>1. CASE ~ Known(t, slot)
  BY <1>1 DEF failed, Ends, InFlight, Known
<1>2. CASE Known(t, slot)
  <2> DEFINE e == t.entries[slot]
             n == Smaller(FailuresMax, e.failures + 1)
             x == [e EXCEPT !.in_flight = FALSE, !.failures = n, !.next_attempt = Backoff(n)]
             u == [t EXCEPT !.entries = [t.entries EXCEPT ![slot] = x]]
  <2>1. slot \in DOMAIN t.entries /\ e \in Entries
    BY <1>2 DEF TrackerOK, Known
  <2>2. n \in 1..FailuresMax
    BY <2>1, EntryFields, TrackerConstants DEF Smaller
  <2> HIDE DEF n
  <2>3. Backoff(n) \in Nat
    BY <2>2, BackoffRange, TrackerConstants
  <2>4. x \in Entries /\ x.in_flight = FALSE
    <3> DEFINE z == [e EXCEPT !.in_flight = FALSE]
    <3>1. z \in Entries /\ z.in_flight = FALSE
      BY <2>1, EntryEnds
    <3>2. x = [z EXCEPT !.failures = n, !.next_attempt = Backoff(n)]
      OBVIOUS
    <3>3. n \in 0..FailuresMax
      BY <2>2
    <3> HIDE DEF x, z
    <3> QED
      BY <3>3, <2>3, <3>1, <3>2, EntryFails
  <2>5. failed(t, slot) = u
    <3>1. t.entries \in [DOMAIN t.entries -> Entries]
          /\ t = [context |-> t.context, entries |-> t.entries]
      BY DEF TrackerOK
    <3> QED
      BY <1>2, <2>1, <3>1 DEF failed, n
  <2> HIDE DEF x
  <2>6. /\ TrackerOK(u) /\ u.context = t.context
        /\ DOMAIN u.entries = DOMAIN t.entries
        /\ u.entries[slot] = x
        /\ \A s \in DOMAIN t.entries : s # slot => u.entries[s] = t.entries[s]
    BY <2>1, <2>4, ChangedEntry
  <2> HIDE DEF u
  <2>7. InFlight(u) = InFlight(t) \ {slot}
    BY <2>4, <2>6 DEF InFlight
  <2> QED
    BY <2>5, <2>6, <2>7 DEF Ends
<1> QED
  BY <1>1, <1>2

\* A submission ends the attempt (service_producer_v2.cpp:242).
LEMMA SubmittedEnds ==
    ASSUME NEW t, TrackerOK(t), NEW slot, NEW keep \in BOOLEAN
    PROVE  Ends(t, submitted(t, slot, keep), slot)
<1>1. CASE ~ Known(t, slot)
  BY <1>1 DEF submitted, Ends, InFlight, Known
<1>2. CASE Known(t, slot)
  <2> DEFINE e == t.entries[slot]
             y == IF keep THEN [e EXCEPT !.in_flight = FALSE, !.envelope = TRUE,
                                         !.window_attempts = 1]
                  ELSE [e EXCEPT !.in_flight = FALSE]
             x == Transported(y)
             u == [t EXCEPT !.entries = [t.entries EXCEPT ![slot] = x]]
  <2>1. slot \in DOMAIN t.entries /\ e \in Entries
    BY <1>2 DEF TrackerOK, Known
  <2>2. y \in OpenEntries /\ y.in_flight = FALSE
    <3> DEFINE z == [e EXCEPT !.in_flight = FALSE]
    <3>1. z \in Entries /\ z.in_flight = FALSE
      BY <2>1, EntryEnds
    <3>2. y = IF keep THEN [z EXCEPT !.envelope = TRUE, !.window_attempts = 1] ELSE z
      OBVIOUS
    <3> HIDE DEF y, z
    <3> QED
      BY <3>1, <3>2, EntryKeeps, EntryOpen
  <2> HIDE DEF y
  <2>4. x \in Entries /\ x.in_flight = FALSE
    BY <2>2, TransportedOK
  <2>5. submitted(t, slot, keep) = u
    <3>1. t.entries \in [DOMAIN t.entries -> Entries]
          /\ t = [context |-> t.context, entries |-> t.entries]
      BY DEF TrackerOK
    <3> QED
      BY <1>2, <2>1, <3>1 DEF submitted, y
  <2> HIDE DEF x
  <2>6. /\ TrackerOK(u) /\ u.context = t.context
        /\ DOMAIN u.entries = DOMAIN t.entries
        /\ u.entries[slot] = x
        /\ \A s \in DOMAIN t.entries : s # slot => u.entries[s] = t.entries[s]
    BY <2>1, <2>4, ChangedEntry
  <2> HIDE DEF u
  <2>7. InFlight(u) = InFlight(t) \ {slot}
    BY <2>4, <2>6 DEF InFlight
  <2> QED
    BY <2>5, <2>6, <2>7 DEF Ends
<1> QED
  BY <1>1, <1>2

\* An attempt is started for a slot that has an entry or finds room for one
\* (service_producer_v2.cpp:198).
LEMMA StartFlies ==
    ASSUME NEW t, TrackerOK(t), NEW slot \in Slot, CanStart(t, slot)
    PROVE  LET u == start(t, slot)
           IN  /\ TrackerOK(u) /\ u.context = t.context
               /\ DOMAIN u.entries = DOMAIN t.entries \cup {slot}
               /\ InFlight(u) = InFlight(t) \cup {slot}
<1>0. t.entries \in [DOMAIN t.entries -> Entries]
      /\ t = [context |-> t.context, entries |-> t.entries]
  BY DEF TrackerOK
<1>1. CASE Known(t, slot)
  <2> DEFINE e == t.entries[slot]
             x == [e EXCEPT !.in_flight = TRUE]
             u == [t EXCEPT !.entries = [t.entries EXCEPT ![slot] = x]]
  <2>1. slot \in DOMAIN t.entries /\ e \in Entries
    BY <1>1 DEF TrackerOK, Known
  <2>2. x \in Entries /\ x.in_flight = TRUE
    BY <2>1 DEF Entries
  <2>3. start(t, slot) = u
    BY <1>0, <1>1, <2>1 DEF start
  <2> HIDE DEF x
  <2>4. /\ TrackerOK(u) /\ u.context = t.context
        /\ DOMAIN u.entries = DOMAIN t.entries
        /\ u.entries[slot] = x
        /\ \A s \in DOMAIN t.entries : s # slot => u.entries[s] = t.entries[s]
    BY <2>1, <2>2, ChangedEntry
  <2> HIDE DEF u
  <2>5. InFlight(u) = InFlight(t) \cup {slot}
    BY <2>1, <2>2, <2>4 DEF InFlight
  <2> QED
    BY <2>1, <2>3, <2>4, <2>5
<1>2. CASE ~ Known(t, slot)
  <2> DEFINE x == [next_attempt |-> 0, failures |-> 0, in_flight |-> TRUE,
                   envelope |-> FALSE, window_attempts |-> 0]
             D == DOMAIN t.entries \cup {slot}
             f == [s \in D |-> IF s = slot THEN x ELSE t.entries[s]]
             u == [t EXCEPT !.entries = f]
  <2>1. slot \notin DOMAIN t.entries
    BY <1>2 DEF Known
  <2>2. x \in Entries /\ x.in_flight = TRUE
    BY TrackerConstants DEF Entries
  <2> HIDE DEF x
  <2>4. start(t, slot) = u
    BY <1>2 DEF start, x
  <2>5. /\ D \in SUBSET Slot /\ IsFiniteSet(D) /\ Cardinality(D) <= max_entries
    <3>1. /\ DOMAIN t.entries \subseteq Slot /\ IsFiniteSet(DOMAIN t.entries)
          /\ Cardinality(DOMAIN t.entries) < max_entries
      BY <1>2 DEF TrackerOK, CanStart
    <3>2. IsFiniteSet(D) /\ Cardinality(D) = Cardinality(DOMAIN t.entries) + 1
      BY <2>1, <3>1, FS_AddElement
    <3>3. Cardinality(DOMAIN t.entries) \in Nat
      BY <3>1, FS_CardinalityType
    <3> QED
      BY <3>1, <3>2, <3>3, TrackerConstants
  <2>6. f \in [D -> Entries]
    BY <1>0, <2>2
  <2>7. f[slot] = x /\ \A s \in DOMAIN t.entries : f[s] = t.entries[s]
    BY <2>1
  <2>8. DOMAIN f = D
    OBVIOUS
  <2> HIDE DEF f
  <2>9. TrackerOK(u) /\ u.context = t.context /\ u.entries = f
    BY <2>5, <2>6, ChangedEntries
  <2> HIDE DEF u
  <2>10. InFlight(u) = InFlight(t) \cup {slot}
    BY <2>1, <2>2, <2>7, <2>8, <2>9 DEF InFlight
  <2> QED
    BY <2>4, <2>8, <2>9, <2>10
<1> QED
  BY <1>1, <1>2

\* The walk over the subjects drops entries and sends envelopes again; no attempt is
\* started or ended by it.
LEMMA WalkedKeeps ==
    ASSUME NEW t, TrackerOK(t)
    PROVE  LET u == Walked(t)
           IN  /\ TrackerOK(u) /\ u.context = t.context
               /\ DOMAIN u.entries \subseteq DOMAIN t.entries
               /\ InFlight(u) = InFlight(t) \cap DOMAIN u.entries
<1> DEFINE D == DOMAIN t.entries \ (Passed(t) \cap canonical)
           R == Resent(t)
           f == [s \in D |-> IF s \in R THEN transport_retry(t.entries[s]) ELSE t.entries[s]]
           u == [t EXCEPT !.entries = f]
<1>1. Walked(t) = u
  BY DEF Walked
<1>2. /\ t.entries \in [DOMAIN t.entries -> Entries] /\ DOMAIN t.entries \subseteq Slot
      /\ IsFiniteSet(DOMAIN t.entries) /\ Cardinality(DOMAIN t.entries) <= max_entries
  BY DEF TrackerOK
<1>3. D \subseteq DOMAIN t.entries
  OBVIOUS
<1> HIDE DEF D, R
<1>4. IsFiniteSet(D) /\ Cardinality(D) <= max_entries
  <2>1. IsFiniteSet(D) /\ Cardinality(D) <= Cardinality(DOMAIN t.entries)
    BY <1>2, <1>3, FS_Subset
  <2>2. Cardinality(D) \in Nat /\ Cardinality(DOMAIN t.entries) \in Nat
    BY <1>2, <2>1, FS_CardinalityType
  <2> QED
    BY <1>2, <2>1, <2>2, TrackerConstants
<1>5. ASSUME NEW e \in Entries
      PROVE  transport_retry(e) \in Entries /\ transport_retry(e).in_flight = e.in_flight
  <2> DEFINE z == [e EXCEPT !.window_attempts = e.window_attempts + 1]
  <2>1. z \in OpenEntries /\ z.in_flight = e.in_flight
    BY TrackerConstants DEF Entries, OpenEntries
  <2>2. transport_retry(e) = Transported(z)
    BY DEF transport_retry
  <2> HIDE DEF z
  <2> QED
    BY <2>1, <2>2, TransportedOK
<1>6. \A s \in D : f[s] \in Entries /\ f[s].in_flight = t.entries[s].in_flight
  BY <1>2, <1>3, <1>5
<1>7. DOMAIN f = D /\ f \in [D -> Entries]
  BY <1>6
<1> HIDE DEF f
<1>8. TrackerOK(u) /\ u.context = t.context /\ u.entries = f
  BY <1>2, <1>3, <1>4, <1>7, ChangedEntries
<1> HIDE DEF u
<1>9. InFlight(u) = InFlight(t) \cap D
  BY <1>3, <1>6, <1>7, <1>8 DEF InFlight
<1> QED
  BY <1>1, <1>3, <1>7, <1>8, <1>9

\* Time that passes starts and ends no attempt.
LEMMA ElapsedKeeps ==
    ASSUME NEW t, TrackerOK(t)
    PROVE  LET u == Elapsed(t)
           IN  TrackerOK(u) /\ DOMAIN u.entries = DOMAIN t.entries /\ InFlight(u) = InFlight(t)
<1> DEFINE D == DOMAIN t.entries
           f == [s \in D |-> ElapsedEntry(t.entries[s])]
           u == [t EXCEPT !.entries = f]
<1>1. Elapsed(t) = u
  BY DEF Elapsed
<1>2. /\ t.entries \in [D -> Entries] /\ D \subseteq Slot
      /\ IsFiniteSet(D) /\ Cardinality(D) <= max_entries
  BY DEF TrackerOK
<1>3. ASSUME NEW e \in Entries
      PROVE  ElapsedEntry(e) \in Entries /\ ElapsedEntry(e).in_flight = e.in_flight
  <2>1. Larger(0, e.next_attempt - 1) \in Nat
    BY EntryFields DEF Larger
  <2> QED
    BY <2>1 DEF ElapsedEntry, Entries
<1>4. \A s \in D : f[s] \in Entries /\ f[s].in_flight = t.entries[s].in_flight
  BY <1>2, <1>3
<1>5. DOMAIN f = D /\ f \in [D -> Entries]
  BY <1>4
<1> HIDE DEF f
<1>6. TrackerOK(u) /\ u.context = t.context /\ u.entries = f
  BY <1>2, <1>5, ChangedEntries
<1> HIDE DEF u
<1>7. InFlight(u) = InFlight(t)
  BY <1>4, <1>5, <1>6 DEF InFlight
<1> QED
  BY <1>1, <1>5, <1>6, <1>7

-----------------------------------------------------------------------------
(* The walk *)

\* The walk stops at a subject to probe or past the last subject.
LEMMA FirstProbeFound ==
    ASSUME NEW t
    PROVE  FirstProbe(t) \in 1..(Len(subjects) + 1)
<1> DEFINE n == Len(subjects)
           P(k) == Probes(t, SlotOf(subjects[k]))
           S == {k \in 1..n : P(k)}
           Stop(k) == (k <= n => P(k)) /\ \A i \in 1..(k - 1) : ~ P(i)
<1>0. n \in Nat
  BY ReceiptAssumption
<1>1. FirstProbe(t) = CHOOSE k \in 1..(n + 1) : Stop(k)
  BY DEF FirstProbe
<1> HIDE DEF n, P
<1>2. CASE S = {}
  <2>1. n + 1 \in 1..(n + 1) /\ Stop(n + 1)
    BY <1>0, <1>2
  <2> HIDE DEF Stop
  <2> QED
    BY <1>1, <2>1 DEF n
<1>3. CASE S # {}
  <2>1. S \in SUBSET Nat
    BY <1>0
  <2>2. PICK k \in S : \A j \in S : k <= j
    <3> HIDE DEF S
    <3> QED
      BY <1>3, <2>1, LeastElement
  <2>3. k \in 1..(n + 1) /\ Stop(k)
    BY <1>0, <2>2
  <2> HIDE DEF Stop
  <2> QED
    BY <1>1, <2>3 DEF n
<1> QED
  BY <1>2, <1>3

\* The slots of the open round are slots.
LEMMA OpenSlots ==
    ASSUME context \in Context, NEW k \in 1..Len(subjects)
    PROVE  SlotOf(subjects[k]) \in Slot
<1>1. k \in DOMAIN subjects
  BY ReceiptAssumption
<1>2. subjects[k] \in Subject
  BY <1>1 DEF Subject
<1> QED
  BY <1>2 DEF SlotOf, Slot

\* No slot is the one that stands for no probe.
LEMMA NoProbeSlot == NoProbe.slot \notin Slot /\ NoProbe.status = "none"
BY DEF NoProbe, Slot

\* The slots that the walk passes are slots.
LEMMA PassedSlots ==
    ASSUME context \in Context, NEW t
    PROVE  Resent(t) \subseteq Slot
<1>0. Len(subjects) \in Nat
  BY ReceiptAssumption
<1>1. \A i \in 1..(FirstProbe(t) - 1) : i \in 1..Len(subjects)
  BY <1>0, FirstProbeFound
<1>2. Passed(t) \subseteq Slot
  BY <1>1, OpenSlots DEF Passed
<1> QED
  BY <1>2 DEF Resent

-----------------------------------------------------------------------------
(* The invariant *)

\* The inductive invariant: the entries are finitely many besides.
IInv == TypeOK /\ TrackerOK(tracker) /\ OneAttempt

\* A tracker that holds what the class can hold has the type.
LEMMA TrackerTyped ==
    ASSUME NEW t, TrackerOK(t)
    PROVE  /\ t.context \in Context \cup {NoContext}
           /\ DOMAIN t.entries \subseteq Slot
           /\ Cardinality(DOMAIN t.entries) <= max_entries
           /\ \A slot \in DOMAIN t.entries : t.entries[slot] \in Entries
BY DEF TrackerOK

\* A state is good when its tracker is and agrees with the probe.
Good(t, f) ==
    /\ TrackerOK(t)
    /\ f \in Probe \cup {NoProbe}
    /\ InFlight(t) = IF f = NoProbe THEN {} ELSE {f.slot}

\* Every part of the state is good.
GoodState ==
    /\ Good(tracker, future)
    /\ context \in Context \cup {NoContext}
    /\ canonical \subseteq Slot
    /\ pool \subseteq Slot
    /\ pause \in BOOLEAN

\* The invariant in terms of good states.
LEMMA IInvIs == IInv <=> GoodState
BY TrackerTyped DEF IInv, TypeOK, OneAttempt, InFlight, Good, GoodState

\* The tracker that the walk starts with, when no probe runs.
LEMMA BegunGood ==
    ASSUME IInv, Ready
    PROVE  TrackerOK(Begun) /\ InFlight(Begun) = {}
<1>1. Good(tracker, NoProbe) /\ context \in Context
  BY IInvIs DEF Ready, GoodState
<1>2. CASE Begun = tracker
  BY <1>1, <1>2 DEF Good
<1>3. CASE Begun # tracker
  <2>1. Begun = [context |-> context, entries |-> NoEntries]
    BY <1>3 DEF Begun, begin_context
  <2> QED
    BY <1>1, <2>1, NoEntriesOK
<1> QED
  BY <1>2, <1>3

\* The tracker after the walk, when no probe runs.
LEMMA WalkedGood ==
    ASSUME IInv, Ready
    PROVE  /\ TrackerOK(Walked(Begun)) /\ InFlight(Walked(Begun)) = {}
           /\ Resent(Begun) \subseteq Slot
           /\ Starts => /\ ProbedSlot \in Slot
                        /\ TrackerOK(start(Walked(Begun), ProbedSlot))
                        /\ InFlight(start(Walked(Begun), ProbedSlot)) = {ProbedSlot}
                        /\ ProbedSlot \in DOMAIN start(Walked(Begun), ProbedSlot).entries
<1>1. context \in Context
  BY IInvIs DEF Ready, GoodState
<1>2. TrackerOK(Walked(Begun)) /\ InFlight(Walked(Begun)) = {}
  BY BegunGood, WalkedKeeps
<1>3. Resent(Begun) \subseteq Slot
  BY <1>1, PassedSlots
<1>4. ASSUME Starts
      PROVE  /\ ProbedSlot \in Slot
             /\ TrackerOK(start(Walked(Begun), ProbedSlot))
             /\ InFlight(start(Walked(Begun), ProbedSlot)) = {ProbedSlot}
             /\ ProbedSlot \in DOMAIN start(Walked(Begun), ProbedSlot).entries
  <2>1. FirstProbe(Begun) \in 1..Len(subjects)
    <3>1. FirstProbe(Begun) \in 1..(Len(subjects) + 1) /\ FirstProbe(Begun) <= Len(subjects)
      BY <1>4, FirstProbeFound DEF Starts
    <3> QED
      BY <3>1, ReceiptAssumption
  <2>2. ProbedSlot \in Slot
    BY <1>1, <2>1, OpenSlots DEF ProbedSlot
  <2>3. CanStart(Walked(Begun), ProbedSlot)
    BY <1>4 DEF Starts
  <2> QED
    BY <1>2, <2>2, <2>3, StartFlies
<1> QED
  BY <1>2, <1>3, <1>4

\* The invariant holds of the producer that starts.
LEMMA IInvInit == Init => IInv
<1> SUFFICES ASSUME Init PROVE IInv
  OBVIOUS
<1>1. TrackerOK(EmptyTracker) /\ InFlight(EmptyTracker) = {}
  BY NoEntriesOK DEF EmptyTracker
<1>2. Good(EmptyTracker, NoProbe)
  BY <1>1 DEF Good
<1> QED
  BY <1>2, IInvIs DEF Init, GoodState

\* A step that ends the attempt of the probe keeps the invariant.
LEMMA EndedGood ==
    ASSUME NEW t, NEW f, NEW u, Good(t, f), Ends(t, u, f.slot)
    PROVE  Good(u, NoProbe)
BY DEF Good, Ends

\* A tracker without an attempt goes with no probe.
LEMMA IdleGood ==
    ASSUME NEW t, TrackerOK(t), InFlight(t) = {}
    PROVE  Good(t, NoProbe)
BY DEF Good

\* Every step of the producer, the clock, the chain and the network keeps the invariant.
LEMMA IInvStep == IInv /\ [Next]_vars => IInv'
<1> SUFFICES ASSUME IInv, [Next]_vars PROVE IInv'
  OBVIOUS
<1>0. /\ Good(tracker, future) /\ TrackerOK(tracker)
      /\ context \in Context \cup {NoContext}
      /\ canonical \subseteq Slot /\ pool \subseteq Slot /\ pause \in BOOLEAN
  BY IInvIs DEF Good, GoodState
<1>P. IInv' <=> /\ Good(tracker', future')
                /\ context' \in Context \cup {NoContext}
                /\ canonical' \subseteq Slot
                /\ pool' \subseteq Slot
                /\ pause' \in BOOLEAN
  <2>1. IInv' <=> GoodState'
    BY IInvIs, PTL
  <2> QED
    BY <2>1 DEF GoodState
<1>1. CASE CollectFailure \/ CollectExpired \/ CollectRefused
  <2>1. BackOff
    BY <1>1 DEF CollectFailure, CollectExpired, CollectRefused
  <2> QED
    BY <1>0, <2>1, <1>P, FailedEnds, EndedGood DEF BackOff
<1>2. CASE CollectReceipt
  <2>1. future.slot \in Slot
    BY <1>0, <1>2, NoProbeSlot DEF Good, Probe, CollectReceipt
  <2>2. Ends(tracker, tracker', future.slot)
    BY <1>0, <1>2, SubmittedEnds, ReceiptAssumption DEF CollectReceipt
  <2>3. pool' \subseteq Slot
    BY <1>0, <1>2, <2>1 DEF CollectReceipt
  <2> QED
    BY <1>0, <1>2, <1>P, <2>2, <2>3, EndedGood DEF CollectReceipt
<1>3. CASE WalkPast
  <2>1. Ready
    BY <1>3 DEF WalkPast
  <2> QED
    BY <1>0, <1>3, <1>P, <2>1, WalkedGood, IdleGood DEF WalkPast, Ready
<1>4. CASE StartProbe
  <2>1. Ready /\ Starts
    BY <1>4 DEF StartProbe
  <2>2. /\ ProbedSlot \in Slot /\ TrackerOK(tracker')
        /\ InFlight(tracker') = {ProbedSlot} /\ ProbedSlot \in DOMAIN tracker'.entries
        /\ Resent(Begun) \subseteq Slot
    BY <1>4, <2>1, WalkedGood DEF StartProbe
  <2>3. future' = [slot |-> ProbedSlot, status |-> "running", age |-> 0]
    BY <1>4 DEF StartProbe
  <2>4. Good(tracker', future')
    <3>1. future'.slot = ProbedSlot /\ future' # NoProbe
      BY <2>3, NoProbeSlot
    <3>2. future' \in Probe
      BY <2>2, <2>3, ReceiptAssumption DEF Probe
    <3> QED
      BY <2>2, <3>1, <3>2 DEF Good
  <2> QED
    BY <1>0, <1>4, <1>P, <2>2, <2>4 DEF StartProbe
<1>5. CASE LaunchFails
  <2>1. Ready /\ Starts
    BY <1>5 DEF LaunchFails
  <2> DEFINE t == start(Walked(Begun), ProbedSlot)
  <2>2. TrackerOK(t) /\ InFlight(t) = {ProbedSlot} /\ Resent(Begun) \subseteq Slot
    BY <2>1, WalkedGood
  <2>3. tracker' = failed(t, ProbedSlot)
    BY <1>5 DEF LaunchFails
  <2> HIDE DEF t
  <2>4. TrackerOK(tracker') /\ InFlight(tracker') = {}
    BY <2>2, <2>3, FailedEnds DEF Ends
  <2> QED
    BY <1>0, <1>5, <1>P, <2>1, <2>2, <2>4, IdleGood DEF LaunchFails, Ready
<1>6. CASE ProbeEnds
  <2>1. future \in Probe
    BY <1>0, <1>6, NoProbeSlot DEF Good, ProbeEnds
  <2>2. future' \in Probe /\ future'.slot = future.slot
    <3>1. PICK status \in {"accepted", "failed"} :
             future' = [future EXCEPT !.age = 0, !.status = status]
      BY <1>6 DEF ProbeEnds
    <3>2. 0 \in 0..max_probe
      BY ReceiptAssumption
    <3>3. status \in {"running", "accepted", "failed"}
      OBVIOUS
    <3> QED
      BY <2>1, <3>1, <3>2, <3>3 DEF Probe
  <2>3. future # NoProbe /\ future' # NoProbe
    BY <2>1, <2>2, NoProbeSlot DEF Probe
  <2>4. Good(tracker', future')
    BY <1>0, <1>6, <2>2, <2>3 DEF ProbeEnds, Good
  <2> QED
    BY <1>0, <1>6, <1>P, <2>4 DEF ProbeEnds
<1>7. CASE Tick
  <2>1. /\ TrackerOK(tracker') /\ DOMAIN tracker'.entries = DOMAIN tracker.entries
        /\ InFlight(tracker') = InFlight(tracker)
    BY <1>0, <1>7, ElapsedKeeps DEF Tick
  <2>2. CASE future.status = "running"
    <3>1. future \in Probe
      BY <1>0, <2>2, NoProbeSlot DEF Good
    <3>2. future' = [future EXCEPT !.age = @ + 1] /\ future.age < max_probe
      BY <1>7, <2>2 DEF Tick
    <3>3. future' \in Probe /\ future'.slot = future.slot
      BY <3>1, <3>2, ReceiptAssumption DEF Probe
    <3>4. future # NoProbe /\ future' # NoProbe
      BY <3>1, <3>3, NoProbeSlot DEF Probe
    <3>5. Good(tracker', future')
      BY <1>0, <2>1, <3>3, <3>4 DEF Good
    <3> QED
      BY <1>0, <1>7, <1>P, <3>5 DEF Tick
  <2>3. CASE future.status # "running"
    <3>1. future' = future
      BY <1>7, <2>3 DEF Tick
    <3>2. Good(tracker', future')
      BY <1>0, <2>1, <3>1 DEF Good
    <3> QED
      BY <1>0, <1>7, <1>P, <3>2 DEF Tick
  <2> QED
    BY <2>2, <2>3
<1>8. ASSUME NEW c \in Context \cup {NoContext}, ChangeContext(c)
      PROVE  IInv'
  BY <1>0, <1>8, <1>P DEF ChangeContext
<1>9. CASE Include
  BY <1>0, <1>9, <1>P DEF Include
<1>10. CASE Disconnect
  BY <1>0, <1>10, <1>P DEF Disconnect
<1>11. CASE Lose
  BY <1>0, <1>11, <1>P DEF Lose
<1>12. CASE Restart
  <2>1. TrackerOK(EmptyTracker) /\ InFlight(EmptyTracker) = {}
    BY NoEntriesOK DEF EmptyTracker
  <2> QED
    BY <1>0, <1>12, <1>P, <2>1, IdleGood DEF Restart
<1>13. CASE UNCHANGED vars
  BY <1>0, <1>13, <1>P DEF vars
<1> QED
  BY <1>1, <1>2, <1>3, <1>4, <1>5, <1>6, <1>7, <1>8, <1>9, <1>10, <1>11, <1>12, <1>13
     DEF Next, Call

\* The tracker holds at most max_entries well-formed entries of slots, whatever the
\* members to probe, the rounds and the limits are (service_producer_v2.cpp:208).
THEOREM ReceiptTypeOK == Spec => []TypeOK
<1>1. IInv => TypeOK
  BY DEF IInv
<1> QED
  BY <1>1, IInvInit, IInvStep, PTL DEF Spec

\* No order of probes, rounds, failed launches and restarts leaves a slot blocked by an
\* attempt that is over, or lets an attempt run that the tracker does not know
\* (service_producer_v2.cpp:219).
THEOREM ReceiptOneAttempt == Spec => []OneAttempt
<1>1. IInv => OneAttempt
  BY DEF IInv
<1> QED
  BY <1>1, IInvInit, IInvStep, PTL DEF Spec

=============================================================================
