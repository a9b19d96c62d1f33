-------------------------- MODULE RelayPool_proofs --------------------------
(***************************************************************************)
(* The invariants of the relay pool, for any records, batches, limits and  *)
(* timing, and any order of batches, templates, blocks, popped blocks and  *)
(* restarts.                                                               *)
(***************************************************************************)
EXTENDS RelayPool, FiniteSetTheorems, WellFoundedInduction, TLAPS

-----------------------------------------------------------------------------
(* Numbers *)

\* The order of the natural numbers is a well-founded relation.
LEMMA NatOrder ==
    \E R : IsWellFoundedOn(R, Nat) /\ \A x, y \in Nat : x < y => <<x, y>> \in R
<1> DEFINE R == OpToRel(<, Nat)
<1>1. IsWellFoundedOn(R, Nat)
  BY NatLessThanWellFounded
<1>2. \A x, y \in Nat : x < y => <<x, y>> \in R
  BY DEF OpToRel
<1> HIDE DEF R
<1> QED
  BY <1>1, <1>2

\* A set of natural numbers has a least element.
LEMMA LeastElement ==
    ASSUME NEW S \in SUBSET Nat, S # {}
    PROVE  \E i \in S : \A j \in S : i <= j
<1>1. PICK R : IsWellFoundedOn(R, Nat) /\ \A x, y \in Nat : x < y => <<x, y>> \in R
  BY NatOrder
<1>2. PICK i \in S : \A j \in S : ~ (<<j, i>> \in R)
  <2>1. IsWellFoundedOn(R, Nat) /\ S \subseteq Nat
    BY <1>1
  <2> QED
    BY <2>1, WFMin
<1>3. \A j \in S : ~ (j < i)
  BY ZenonT(60), <1>1, <1>2
<1>4. \A j \in S : i <= j
  BY <1>3
<1> QED
  BY <1>4

-----------------------------------------------------------------------------
(* Sums of bytes *)

\* The element that the sum over a set takes first.
Chosen(s) == CHOOSE x \in s : TRUE

\* What the sum over a set is, from a table of the sums over smaller sets.
BytesFrom(f, s) == IF s = {} THEN 0 ELSE Chosen(s).bytes + f[s \ {Chosen(s)}]

\* A table of the sums over the subsets of a set.
BytesTable(f, S) == f = [s \in SUBSET S |-> BytesFrom(f, s)]

\* The sum over a set is the last entry of the table.
LEMMA BytesOfIs ==
    ASSUME NEW S
    PROVE  BytesOf(S) = (CHOOSE f : BytesTable(f, S))[S]
BY DEF BytesOf, FoldSet, MapThenFoldSet, BytesTable, BytesFrom, Chosen

\* The subsets with at most n elements.
Layer(S, n) == {s \in SUBSET S : Cardinality(s) <= n}

\* The subsets of a finite set by their size.
LEMMA Layers ==
    ASSUME NEW S, IsFiniteSet(S)
    PROVE  /\ Layer(S, 0) = {{}}
           /\ Layer(S, Cardinality(S)) = SUBSET S
           /\ \A n \in Nat : Layer(S, n) \subseteq Layer(S, n + 1)
           /\ \A n \in Nat : \A s \in Layer(S, n + 1) : \A x \in s : s \ {x} \in Layer(S, n)
<1>1. \A s \in SUBSET S : IsFiniteSet(s) /\ Cardinality(s) \in Nat /\ Cardinality(s) <= Cardinality(S)
  BY FS_Subset, FS_CardinalityType
<1>2. \A s \in SUBSET S : Cardinality(s) = 0 <=> s = {}
  BY <1>1, FS_EmptySet
<1>3. \A s \in SUBSET S : \A x \in s : Cardinality(s \ {x}) = Cardinality(s) - 1
  BY <1>1, FS_RemoveElement
<1>4. Layer(S, 0) = {{}}
  BY <1>1, <1>2 DEF Layer
<1>5. Layer(S, Cardinality(S)) = SUBSET S
  BY <1>1 DEF Layer
<1>6. \A n \in Nat : Layer(S, n) \subseteq Layer(S, n + 1)
  BY <1>1 DEF Layer
<1>7. ASSUME NEW n \in Nat, NEW s \in Layer(S, n + 1), NEW x \in s
      PROVE  s \ {x} \in Layer(S, n)
  <2>1. s \in SUBSET S /\ Cardinality(s) <= n + 1 /\ s \ {x} \in SUBSET S
    BY DEF Layer
  <2>2. Cardinality(s \ {x}) <= n
    BY <1>1, <1>3, <2>1
  <2> QED
    BY <2>1, <2>2 DEF Layer
<1> QED
  BY <1>4, <1>5, <1>6, <1>7

\* A finite set has a table.
LEMMA BytesTableExists ==
    ASSUME NEW S, IsFiniteSet(S)
    PROVE  \E f : BytesTable(f, S)
<1> DEFINE Part(f, n) == f = [s \in Layer(S, n) |-> BytesFrom(f, s)]
           Bad == {n \in Nat : \A f : ~ Part(f, n)}
<1>1. ASSUME Bad # {} PROVE FALSE
  <2>1. Bad \in SUBSET Nat
    OBVIOUS
  <2>2. PICK k \in Bad : \A m \in Bad : k <= m
    <3> HIDE DEF Bad
    <3> QED
      BY <1>1, <2>1, LeastElement
  <2>3. k \in Nat /\ \A f : ~ Part(f, k)
    OBVIOUS
  <2>4. CASE k = 0
    <3> DEFINE f == [s \in Layer(S, 0) |-> 0]
    <3>1. \A s \in Layer(S, 0) : BytesFrom(f, s) = 0
      BY Layers DEF BytesFrom
    <3>2. f = [s \in Layer(S, 0) |-> BytesFrom(f, s)]
      BY <3>1
    <3> QED
      BY <2>3, <2>4, <3>2
  <2>5. CASE k # 0
    <3> DEFINE n == k - 1
    <3>1. n \in Nat /\ n + 1 = k /\ n \notin Bad
      BY <2>2, <2>3, <2>5
    <3>2. PICK g : Part(g, n)
      BY <3>1
    <3> HIDE DEF n
    <3> DEFINE f == [s \in Layer(S, k) |-> BytesFrom(g, s)]
    <3>3. \A s \in Layer(S, n) : g[s] = BytesFrom(g, s) /\ s \in Layer(S, k)
      BY <3>1, <3>2, Layers
    <3>4. \A s \in Layer(S, n) : f[s] = g[s]
      BY <3>3
    <3>5. ASSUME NEW s \in Layer(S, k)
          PROVE  BytesFrom(f, s) = BytesFrom(g, s)
      <4>1. CASE s = {}
        BY <4>1 DEF BytesFrom
      <4>2. CASE s # {}
        <5>1. Chosen(s) \in s
          BY <4>2 DEF Chosen
        <5>2. s \ {Chosen(s)} \in Layer(S, n)
          BY <3>1, <5>1, Layers
        <5>3. f[s \ {Chosen(s)}] = g[s \ {Chosen(s)}]
          BY <3>4, <5>2
        <5> HIDE DEF f
        <5> QED
          BY <4>2, <5>3 DEF BytesFrom
      <4> QED
        BY <4>1, <4>2
    <3>6. f = [s \in Layer(S, k) |-> BytesFrom(f, s)]
      BY <3>5
    <3> QED
      BY <2>3, <3>6
  <2> QED
    BY <2>4, <2>5
<1>2. Cardinality(S) \in Nat /\ Layer(S, Cardinality(S)) = SUBSET S
  BY Layers, FS_CardinalityType
<1>3. PICK f : Part(f, Cardinality(S))
  BY <1>1, <1>2
<1> QED
  BY <1>2, <1>3 DEF BytesTable

\* Two tables agree where both have an entry.
LEMMA BytesTablesAgree ==
    ASSUME NEW S, NEW T, IsFiniteSet(S), NEW f, NEW g, BytesTable(f, S), BytesTable(g, T),
           NEW u \in SUBSET S, u \in SUBSET T
    PROVE  f[u] = g[u]
<1> DEFINE Differ(s) == s \in SUBSET S /\ s \in SUBSET T /\ f[s] # g[s]
           Bad == {n \in Nat : \E s : Differ(s) /\ Cardinality(s) = n}
<1>1. \A s \in SUBSET S : IsFiniteSet(s) /\ Cardinality(s) \in Nat
  BY FS_Subset, FS_CardinalityType
<1>2. ASSUME Bad # {} PROVE FALSE
  <2>1. Bad \in SUBSET Nat
    OBVIOUS
  <2>2. PICK k \in Bad : \A m \in Bad : k <= m
    <3> HIDE DEF Bad
    <3> QED
      BY <1>2, <2>1, LeastElement
  <2>3. PICK s : Differ(s) /\ Cardinality(s) = k
    BY <2>2
  <2>4. f[s] = BytesFrom(f, s) /\ g[s] = BytesFrom(g, s)
    BY <2>3 DEF BytesTable
  <2>5. s # {}
    BY <2>3, <2>4 DEF BytesFrom
  <2> DEFINE x == Chosen(s)
             r == s \ {x}
  <2>6. x \in s
    BY <2>5 DEF Chosen
  <2> HIDE DEF x
  <2>7. IsFiniteSet(s) /\ k \in Nat /\ Cardinality(r) = k - 1 /\ Cardinality(r) \in Nat
    BY <1>1, <2>3, <2>6, FS_RemoveElement
  <2>8. ~ Differ(r)
    BY <2>2, <2>7
  <2>9. f[r] = g[r]
    BY <2>3, <2>8
  <2> QED
    BY <2>3, <2>4, <2>5, <2>9 DEF BytesFrom, x
<1>3. ~ Differ(u)
  BY <1>1, <1>2
<1> QED
  BY <1>3

\* The sum over the empty set, and the sum over another set from the element that is
\* taken first.
LEMMA BytesOfChosen ==
    ASSUME NEW S, IsFiniteSet(S)
    PROVE  /\ S = {} => BytesOf(S) = 0
           /\ S # {} => /\ Chosen(S) \in S
                        /\ BytesOf(S) = Chosen(S).bytes + BytesOf(S \ {Chosen(S)})
<1> DEFINE f == CHOOSE f : BytesTable(f, S)
           T == S \ {Chosen(S)}
           g == CHOOSE g : BytesTable(g, T)
<1>1. IsFiniteSet(T)
  BY FS_Subset
<1>2. BytesTable(f, S)
  BY BytesTableExists
<1>3. BytesTable(g, T)
  <2> HIDE DEF T
  <2> QED
    BY <1>1, BytesTableExists
<1>4. BytesOf(S) = f[S] /\ BytesOf(T) = g[T]
  BY BytesOfIs
<1> HIDE DEF f, g
<1>5. f[S] = BytesFrom(f, S)
  BY <1>2 DEF BytesTable
<1>6. f[T] = g[T]
  BY <1>1, <1>2, <1>3, BytesTablesAgree
<1>7. S # {} => Chosen(S) \in S
  BY DEF Chosen
<1> QED
  BY <1>4, <1>5, <1>6, <1>7 DEF BytesFrom

\* A finite set of items whose sizes are numbers.
HaveBytes(S) == IsFiniteSet(S) /\ \A i \in S : i.bytes \in Nat

\* A part of it is one.
LEMMA HaveBytesPart ==
    ASSUME NEW S, HaveBytes(S), NEW T \in SUBSET S
    PROVE  /\ HaveBytes(T) /\ IsFiniteSet(T) /\ Cardinality(T) \in Nat
           /\ \A x \in T : Cardinality(T \ {x}) \in Nat /\ Cardinality(T \ {x}) < Cardinality(T)
<1>1. IsFiniteSet(T) /\ Cardinality(T) \in Nat
  BY FS_Subset, FS_CardinalityType DEF HaveBytes
<1>2. ASSUME NEW x \in T
      PROVE  Cardinality(T \ {x}) \in Nat /\ Cardinality(T \ {x}) < Cardinality(T)
  <2>1. IsFiniteSet(T \ {x}) /\ Cardinality(T \ {x}) = Cardinality(T) - 1
    BY <1>1, FS_RemoveElement
  <2>2. Cardinality(T \ {x}) \in Nat
    BY <2>1, FS_CardinalityType
  <2> QED
    BY <1>1, <2>1, <2>2
<1> QED
  BY <1>1, <1>2 DEF HaveBytes

\* A sum of bytes is a number.
LEMMA BytesOfType ==
    ASSUME NEW S, HaveBytes(S)
    PROVE  BytesOf(S) \in Nat
<1> DEFINE Wrong(s) == s \in SUBSET S /\ BytesOf(s) \notin Nat
           Bad == {n \in Nat : \E s : Wrong(s) /\ Cardinality(s) = n}
<1>1. ASSUME Bad # {} PROVE FALSE
  <2>1. Bad \in SUBSET Nat
    OBVIOUS
  <2>2. PICK k \in Bad : \A m \in Bad : k <= m
    <3> HIDE DEF Bad
    <3> QED
      BY <1>1, <2>1, LeastElement
  <2>3. PICK s : Wrong(s) /\ Cardinality(s) = k
    BY <2>2
  <2>4. IsFiniteSet(s)
    BY <2>3, HaveBytesPart
  <2>5. s # {} /\ Chosen(s) \in s /\ BytesOf(s) = Chosen(s).bytes + BytesOf(s \ {Chosen(s)})
    BY <2>3, <2>4, BytesOfChosen
  <2> DEFINE r == s \ {Chosen(s)}
  <2>6. r \in SUBSET S /\ Cardinality(r) \in Nat /\ Cardinality(r) < k
    BY <2>3, <2>5, HaveBytesPart
  <2>7. ~ Wrong(r)
    <3> HIDE DEF r
    <3> QED
      BY <2>2, <2>6
  <2>8. BytesOf(r) \in Nat
    BY <2>6, <2>7
  <2>9. Chosen(s).bytes \in Nat
    BY <2>3, <2>5 DEF HaveBytes
  <2> HIDE DEF r
  <2>10. BytesOf(s) = Chosen(s).bytes + BytesOf(r)
    BY <2>5 DEF r
  <2> QED
    BY <2>3, <2>8, <2>9, <2>10
<1>2. ~ Wrong(S)
  BY <1>1, HaveBytesPart
<1> QED
  BY <1>2

\* Any item may be taken out of a sum.
LEMMA BytesOfRemove ==
    ASSUME NEW S, HaveBytes(S), NEW y \in S
    PROVE  BytesOf(S) = y.bytes + BytesOf(S \ {y})
<1> DEFINE Wrong(s) == s \in SUBSET S /\ \E z \in s : BytesOf(s) # z.bytes + BytesOf(s \ {z})
           Bad == {n \in Nat : \E s : Wrong(s) /\ Cardinality(s) = n}
<1>1. ASSUME Bad # {} PROVE FALSE
  <2>1. Bad \in SUBSET Nat
    OBVIOUS
  <2>2. PICK k \in Bad : \A m \in Bad : k <= m
    <3> HIDE DEF Bad
    <3> QED
      BY <1>1, <2>1, LeastElement
  <2>3. PICK s : Wrong(s) /\ Cardinality(s) = k
    BY <2>2
  <2>4. PICK z \in s : BytesOf(s) # z.bytes + BytesOf(s \ {z})
    BY <2>3
  <2> DEFINE x == Chosen(s)
             r == s \ {x}
             t == s \ {z}
  <2>5. s \in SUBSET S /\ IsFiniteSet(s) /\ x \in s /\ BytesOf(s) = x.bytes + BytesOf(r)
    BY <2>3, <2>4, BytesOfChosen, HaveBytesPart
  <2> HIDE DEF x
  <2>6. x # z
    BY <2>4, <2>5
  <2>7. /\ r \in SUBSET S /\ Cardinality(r) \in Nat /\ Cardinality(r) < k
        /\ t \in SUBSET S /\ Cardinality(t) \in Nat /\ Cardinality(t) < k
    BY <2>3, <2>5, HaveBytesPart
  <2> HIDE DEF r, t
  <2>8. ~ Wrong(r) /\ ~ Wrong(t)
    BY <2>2, <2>7
  <2>9. z \in r /\ x \in t /\ r \ {z} = t \ {x} /\ t \ {x} \in SUBSET S
    BY <2>5, <2>6, <2>7 DEF r, t
  <2>10. BytesOf(r) = z.bytes + BytesOf(t \ {x}) /\ BytesOf(t) = x.bytes + BytesOf(t \ {x})
    BY <2>7, <2>8, <2>9
  <2>11. x.bytes \in Nat /\ z.bytes \in Nat /\ BytesOf(t \ {x}) \in Nat
    BY <2>5, <2>9, HaveBytesPart, BytesOfType DEF HaveBytes
  <2>12. BytesOf(s) = z.bytes + BytesOf(t)
    BY <2>5, <2>10, <2>11
  <2> QED
    BY <2>4, <2>12 DEF t
<1>2. ~ Wrong(S)
  BY <1>1, HaveBytesPart
<1> QED
  BY <1>2

\* A sum is that of a part and of the rest.
LEMMA BytesOfSplit ==
    ASSUME NEW S, HaveBytes(S), NEW G \in SUBSET S
    PROVE  /\ BytesOf(S) = BytesOf(S \ G) + BytesOf(G)
           /\ BytesOf(S) \in Nat /\ BytesOf(G) \in Nat /\ BytesOf(S \ G) \in Nat
           /\ BytesOf(G) <= BytesOf(S)
<1> DEFINE Wrong(g) == g \in SUBSET S /\ BytesOf(S) # BytesOf(S \ g) + BytesOf(g)
           Bad == {n \in Nat : \E g : Wrong(g) /\ Cardinality(g) = n}
<1>0. \A g \in SUBSET S : BytesOf(g) \in Nat
  BY HaveBytesPart, BytesOfType
<1>1. ASSUME Bad # {} PROVE FALSE
  <2>1. Bad \in SUBSET Nat
    OBVIOUS
  <2>2. PICK k \in Bad : \A m \in Bad : k <= m
    <3> HIDE DEF Bad
    <3> QED
      BY <1>1, <2>1, LeastElement
  <2>3. PICK g : Wrong(g) /\ Cardinality(g) = k
    BY <2>2
  <2>4. g \in SUBSET S /\ HaveBytes(g) /\ IsFiniteSet(g)
    BY <2>3, HaveBytesPart
  <2>5. CASE g = {}
    <3>1. S \ g = S /\ BytesOf(g) = 0
      BY <2>4, <2>5, BytesOfChosen
    <3> QED
      BY <1>0, <2>3, <3>1
  <2>6. CASE g # {}
    <3>1. PICK y \in g : TRUE
      BY <2>6
    <3> DEFINE h == g \ {y}
    <3>2. h \in SUBSET S /\ Cardinality(h) \in Nat /\ Cardinality(h) < k
      BY <2>3, <2>4, <3>1, HaveBytesPart
    <3> HIDE DEF h
    <3>3. ASSUME Wrong(h) PROVE FALSE
      <4>1. Cardinality(h) \in Bad
        BY <3>2, <3>3
      <4> HIDE DEF Bad
      <4> QED
        BY <2>1, <2>2, <3>2, <4>1
    <3>4. BytesOf(S) = BytesOf(S \ h) + BytesOf(h)
      BY <3>2, <3>3
    <3>5. BytesOf(g) = y.bytes + BytesOf(h)
      BY <2>4, BytesOfRemove DEF h
    <3>6. HaveBytes(S \ h) /\ y \in S \ h /\ (S \ h) \ {y} = S \ g
      BY <2>4, HaveBytesPart DEF h
    <3>7. BytesOf(S \ h) = y.bytes + BytesOf(S \ g)
      BY <3>6, BytesOfRemove
    <3>8. y.bytes \in Nat /\ BytesOf(h) \in Nat /\ BytesOf(S \ g) \in Nat
      BY <1>0, <2>4, <3>2 DEF HaveBytes
    <3>9. BytesOf(S) = BytesOf(S \ g) + BytesOf(g)
      BY <3>4, <3>5, <3>7, <3>8
    <3> QED
      BY <2>3, <3>9
  <2> QED
    BY <2>5, <2>6
<1>2. BytesOf(S) = BytesOf(S \ G) + BytesOf(G)
  <2>1. ~ Wrong(G)
    BY <1>1, HaveBytesPart
  <2> QED
    BY <2>1
<1>3. BytesOf(S) \in Nat /\ BytesOf(G) \in Nat /\ BytesOf(S \ G) \in Nat
  BY <1>0
<1> QED
  BY <1>2, <1>3

\* An item that is added is added to the sum.
LEMMA BytesOfAdd ==
    ASSUME NEW S, HaveBytes(S), NEW y, y \notin S, y.bytes \in Nat
    PROVE  HaveBytes(S \cup {y}) /\ BytesOf(S \cup {y}) = y.bytes + BytesOf(S)
<1>1. HaveBytes(S \cup {y})
  BY FS_AddElement DEF HaveBytes
<1>2. (S \cup {y}) \ {y} = S
  OBVIOUS
<1> QED
  BY <1>1, <1>2, BytesOfRemove

-----------------------------------------------------------------------------
(* The queue *)

\* The items of the two classes.
LEMMA ClassesSplit ==
    ASSUME NEW items, HaveBytes(items), \A i \in items : i.record_class \in Classes,
           NEW c \in Classes
    PROVE  /\ Other(c) \in Classes
           /\ Cardinality(items) = Cardinality(ClassItems(items, c))
                                     + Cardinality(ClassItems(items, Other(c)))
           /\ BytesOf(items) = BytesOf(ClassItems(items, c))
                                 + BytesOf(ClassItems(items, Other(c)))
           /\ \A d \in Classes : /\ HaveBytes(ClassItems(items, d))
                                 /\ BytesOf(ClassItems(items, d)) \in Nat
                                 /\ Cardinality(ClassItems(items, d)) \in Nat
<1> DEFINE A == ClassItems(items, c)
           B == ClassItems(items, Other(c))
<1>1. Other(c) \in Classes /\ Other(c) # c /\ \A d \in Classes : d = c \/ d = Other(c)
  BY DEF Other, Classes
<1>2. A \subseteq items /\ B = items \ A /\ A \cap B = {} /\ A \cup B = items
  BY <1>1 DEF ClassItems
<1>3. HaveBytes(A) /\ HaveBytes(B)
  BY <1>2, HaveBytesPart
<1> HIDE DEF A, B
<1>4. BytesOf(items) = BytesOf(B) + BytesOf(A) /\ BytesOf(A) \in Nat /\ BytesOf(B) \in Nat
  BY <1>2, BytesOfSplit
<1>5. Cardinality(A) \in Nat /\ Cardinality(B) \in Nat
  BY <1>3, FS_CardinalityType DEF HaveBytes
<1>6. Cardinality(items) = Cardinality(A) + Cardinality(B)
  <2>1. Cardinality(A \cup B) = Cardinality(A) + Cardinality(B) - Cardinality(A \cap B)
    BY <1>3, FS_Union DEF HaveBytes
  <2>2. Cardinality({}) = 0
    BY FS_EmptySet
  <2>3. Cardinality(items) = Cardinality(A) + Cardinality(B) - 0
    BY Zenon, <1>2, <2>1, <2>2
  <2> QED
    BY <1>5, <2>3
<1>7. \A d \in Classes : ClassItems(items, d) \in {A, B}
  BY <1>1 DEF A, B
<1>8. \A d \in Classes : /\ HaveBytes(ClassItems(items, d))
                         /\ BytesOf(ClassItems(items, d)) \in Nat
                         /\ Cardinality(ClassItems(items, d)) \in Nat
  BY <1>3, <1>4, <1>5, <1>7
<1> QED
  BY <1>1, <1>4, <1>6, <1>8 DEF A, B

\* What the limits of the queue are.
LEMMA QueueLimits ==
    ASSUME NEW c \in Classes
    PROVE  /\ queue_limits.max_items \in Nat /\ queue_limits.max_bytes \in Nat
           /\ queue_limits.max_items <= SizeMax /\ queue_limits.max_bytes <= SizeMax
           /\ SizeMax \in Nat
           /\ queue_limits.reserved_items[c] \in Nat /\ queue_limits.reserved_bytes[c] \in Nat
           /\ Other(c) \in Classes
           /\ queue_limits.reserved_items[Other(c)] \in Nat
           /\ queue_limits.reserved_bytes[Other(c)] \in Nat
           /\ queue_limits.reserved_items[c] + queue_limits.reserved_items[Other(c)]
                <= queue_limits.max_items
           /\ queue_limits.reserved_bytes[c] + queue_limits.reserved_bytes[Other(c)]
                <= queue_limits.max_bytes
BY LimitsAssumption DEF LimitsValid, Classes, Other

\* A difference that is not below zero is exact.
LEMMA MinusExact ==
    ASSUME NEW a \in Nat, NEW b \in Nat, b <= a, a <= SizeMax
    PROVE  Minus(a, b) = a - b
<1>1. SizeMax \in Nat
  BY LimitsAssumption
<1> DEFINE m == SizeMax + 1
           d == a - b
<1>2. m \in Nat \ {0} /\ d \in 0..(m - 1)
  BY <1>1
<1> HIDE DEF m, d
<1>3. d % m = d
  BY <1>2
<1> QED
  BY <1>3 DEF Minus, m, d

\* The queue as RoomAccounted has it.
QueueOK(q) ==
    /\ q = [items |-> q.items, bytes |-> q.bytes]
    /\ HaveBytes(q.items)
    /\ \A i \in q.items : i.record_class \in Classes
    /\ q.bytes = BytesOf(q.items)
    /\ q.bytes \in 0..queue_limits.max_bytes
    /\ Cardinality(q.items) <= queue_limits.max_items
    /\ \A c \in Classes :
          LET held == ClassItems(q.items, c)
          IN  /\ Cardinality(held) <= queue_limits.max_items - queue_limits.reserved_items[Other(c)]
              /\ BytesOf(held) <= queue_limits.max_bytes - queue_limits.reserved_bytes[Other(c)]

\* An empty queue is in order.
LEMMA EmptyQueueOK == QueueOK(EmptyQueue)
<1> DEFINE q == EmptyQueue
<1>1. q = [items |-> q.items, bytes |-> q.bytes] /\ q.items = {} /\ q.bytes = 0
  BY DEF EmptyQueue
<1>2. IsFiniteSet({}) /\ Cardinality({}) = 0
  BY FS_EmptySet
<1>3. HaveBytes({}) /\ BytesOf({}) = 0
  BY <1>2, BytesOfChosen DEF HaveBytes
<1>4. \A c \in Classes : ClassItems({}, c) = {}
  BY DEF ClassItems
<1>5. ASSUME NEW c \in Classes
      PROVE  /\ 0 <= queue_limits.max_items - queue_limits.reserved_items[Other(c)]
             /\ 0 <= queue_limits.max_bytes - queue_limits.reserved_bytes[Other(c)]
             /\ 0 \in 0..queue_limits.max_bytes /\ 0 <= queue_limits.max_items
  <2>1. /\ queue_limits.max_items \in Nat /\ queue_limits.max_bytes \in Nat
        /\ queue_limits.reserved_items[c] \in Nat /\ queue_limits.reserved_bytes[c] \in Nat
        /\ queue_limits.reserved_items[Other(c)] \in Nat
        /\ queue_limits.reserved_bytes[Other(c)] \in Nat
        /\ queue_limits.reserved_items[c] + queue_limits.reserved_items[Other(c)]
             <= queue_limits.max_items
        /\ queue_limits.reserved_bytes[c] + queue_limits.reserved_bytes[Other(c)]
             <= queue_limits.max_bytes
    BY QueueLimits
  <2> QED
    BY <2>1
<1>6. "evidence" \in Classes
  BY DEF Classes
<1> HIDE DEF q
<1> QED
  BY <1>1, <1>2, <1>3, <1>4, <1>5, <1>6 DEF QueueOK, q

\* What is removed from a queue leaves it in order, and is taken off the running sum
\* without going below zero.
LEMMA WithoutOK ==
    ASSUME NEW q, QueueOK(q), NEW gone \in SUBSET q.items
    PROVE  /\ QueueOK(Without(q, gone))
           /\ Without(q, gone).items = q.items \ gone
           /\ gone = {} => Without(q, gone) = q
<1> DEFINE left == q.items \ gone
           u == Without(q, gone)
<1>1. /\ HaveBytes(q.items) /\ IsFiniteSet(q.items) /\ q.bytes = BytesOf(q.items)
      /\ q.bytes \in 0..queue_limits.max_bytes
      /\ Cardinality(q.items) <= queue_limits.max_items
      /\ \A i \in q.items : i.record_class \in Classes
  BY DEF QueueOK, HaveBytes
<1>2. /\ BytesOf(q.items) = BytesOf(left) + BytesOf(gone)
      /\ BytesOf(left) \in Nat /\ BytesOf(gone) \in Nat
  BY <1>1, BytesOfSplit
<1>3. /\ queue_limits.max_bytes \in Nat /\ queue_limits.max_bytes <= SizeMax /\ SizeMax \in Nat
      /\ queue_limits.max_items \in Nat
  BY QueueLimits DEF Classes
<1>4. Minus(q.bytes, BytesOf(gone)) = BytesOf(left)
  <2>1. q.bytes \in Nat /\ BytesOf(gone) <= q.bytes /\ q.bytes <= SizeMax
    BY <1>1, <1>2, <1>3
  <2>2. Minus(q.bytes, BytesOf(gone)) = q.bytes - BytesOf(gone)
    BY <1>2, <2>1, MinusExact
  <2> QED
    BY <1>1, <1>2, <2>1, <2>2
<1>5. u = [items |-> left, bytes |-> BytesOf(left)]
  BY <1>4 DEF Without
<1>6. u.items = left /\ u.bytes = BytesOf(left) /\ u = [items |-> u.items, bytes |-> u.bytes]
  BY <1>5
<1>7. HaveBytes(left) /\ left \subseteq q.items
  BY <1>1, HaveBytesPart
<1>8. gone = {} => u = q
  <2> SUFFICES ASSUME gone = {} PROVE u = q
    OBVIOUS
  <2>1. left = q.items
    OBVIOUS
  <2> QED
    BY <1>1, <1>5, <2>1 DEF QueueOK
<1> HIDE DEF left, u
<1>9. BytesOf(left) \in 0..queue_limits.max_bytes
  BY <1>1, <1>2, <1>3
<1>10. Cardinality(left) <= queue_limits.max_items
  <2>1. /\ Cardinality(left) <= Cardinality(q.items)
        /\ Cardinality(left) \in Nat /\ Cardinality(q.items) \in Nat
    BY <1>1, <1>7, FS_Subset, FS_CardinalityType
  <2> QED
    BY <1>1, <1>3, <2>1
<1>11. ASSUME NEW c \in Classes
       PROVE  /\ Cardinality(ClassItems(left, c))
                   <= queue_limits.max_items - queue_limits.reserved_items[Other(c)]
              /\ BytesOf(ClassItems(left, c))
                   <= queue_limits.max_bytes - queue_limits.reserved_bytes[Other(c)]
  <2> DEFINE A == ClassItems(left, c)
             B == ClassItems(q.items, c)
  <2>1. A \subseteq B /\ B \subseteq q.items
    BY <1>7 DEF ClassItems
  <2>2. /\ Cardinality(B) <= queue_limits.max_items - queue_limits.reserved_items[Other(c)]
        /\ BytesOf(B) <= queue_limits.max_bytes - queue_limits.reserved_bytes[Other(c)]
    BY DEF QueueOK
  <2> HIDE DEF A, B
  <2>3. HaveBytes(B) /\ IsFiniteSet(B)
    BY <1>1, <2>1, HaveBytesPart
  <2>4. BytesOf(A) <= BytesOf(B) /\ BytesOf(A) \in Nat /\ BytesOf(B) \in Nat
    BY <2>1, <2>3, BytesOfSplit
  <2>5. Cardinality(A) <= Cardinality(B) /\ Cardinality(A) \in Nat /\ Cardinality(B) \in Nat
    BY <2>1, <2>3, FS_Subset, FS_CardinalityType
  <2>6. /\ queue_limits.reserved_items[Other(c)] \in Nat
        /\ queue_limits.reserved_bytes[Other(c)] \in Nat
    BY QueueLimits
  <2> QED
    BY <1>3, <2>2, <2>4, <2>5, <2>6 DEF A
<1>12. \A i \in left : i.record_class \in Classes
  BY <1>1, <1>7
<1>13. QueueOK(u)
  BY <1>6, <1>7, <1>9, <1>10, <1>11, <1>12 DEF QueueOK
<1> QED
  BY <1>6, <1>8, <1>13 DEF u, left

-----------------------------------------------------------------------------
(* The pool *)

\* The entries of the pool.
PoolEntries == [record : Record, deadline_height : 0..U64Max]

\* The queue is in order and has the items of the records, with one entry for each.
PoolOK(p) ==
    /\ p = [queue |-> p.queue, records |-> p.records]
    /\ p.records \subseteq PoolEntries
    /\ QueueOK(p.queue)
    /\ p.queue.items = {ItemOf(s) : s \in p.records}
    /\ \A s, t \in p.records : s.record = t.record => s = t

\* The parts of the item of an entry.
LEMMA ItemParts ==
    ASSUME NEW s
    PROVE  /\ ItemOf(s).id = s.record.id
           /\ ItemOf(s).bytes = s.record.bytes
           /\ ItemOf(s).deadline_height = s.deadline_height
           /\ ItemOf(s).record_class = record_class(s.record)
           /\ ItemOf(s).record_class \in Classes
BY DEF ItemOf, record_class, Classes

\* An empty pool is in order.
LEMMA EmptyPoolOK == PoolOK(EmptyPool)
<1>1. EmptyPool.records = {} /\ EmptyPool.queue = EmptyQueue /\ EmptyQueue.items = {}
  BY DEF EmptyPool, EmptyQueue
<1>2. EmptyPool = [queue |-> EmptyPool.queue, records |-> EmptyPool.records]
  BY DEF EmptyPool
<1> QED
  BY <1>1, <1>2, EmptyQueueOK DEF PoolOK

\* A pool of which records and their items are taken away together stays in order.
LEMMA PartOK ==
    ASSUME NEW p, PoolOK(p), NEW R \in SUBSET p.records, NEW gone \in SUBSET p.queue.items,
           p.queue.items \ gone = {ItemOf(s) : s \in R}
    PROVE  LET u == [queue |-> Without(p.queue, gone), records |-> R]
           IN  PoolOK(u) /\ u.records = R
<1> DEFINE u == [queue |-> Without(p.queue, gone), records |-> R]
<1>1. u.queue = Without(p.queue, gone) /\ u.records = R
      /\ u = [queue |-> u.queue, records |-> u.records]
  OBVIOUS
<1>2. QueueOK(p.queue) /\ p.records \subseteq PoolEntries
      /\ \A s, t \in p.records : s.record = t.record => s = t
  BY DEF PoolOK
<1>3. QueueOK(Without(p.queue, gone)) /\ Without(p.queue, gone).items = p.queue.items \ gone
  BY <1>2, WithoutOK
<1> HIDE DEF u
<1>4. PoolOK(u)
  BY <1>1, <1>2, <1>3 DEF PoolOK
<1> QED
  BY <1>1, <1>4 DEF u

\* erase_confirmed takes the named records out of both (relay_pool_v2.cpp:415).
LEMMA EraseOK ==
    ASSUME NEW p, PoolOK(p), NEW ids
    PROVE  /\ PoolOK(erase_confirmed(p, ids))
           /\ erase_confirmed(p, ids).records = {s \in p.records : s.record.id \notin ids}
<1> DEFINE R == {s \in p.records : s.record.id \notin ids}
           gone == {i \in p.queue.items : i.id \in ids}
<1>1. p.queue.items = {ItemOf(s) : s \in p.records}
  BY DEF PoolOK
<1>2. p.queue.items \ gone = {ItemOf(s) : s \in R}
  BY <1>1, ItemParts
<1>3. erase_confirmed(p, ids) = [queue |-> Without(p.queue, gone), records |-> R]
  BY DEF erase_confirmed
<1>4. R \in SUBSET p.records /\ gone \in SUBSET p.queue.items
  OBVIOUS
<1> HIDE DEF R, gone
<1>5. /\ PoolOK([queue |-> Without(p.queue, gone), records |-> R])
      /\ [queue |-> Without(p.queue, gone), records |-> R].records = R
  BY <1>2, <1>4, PartOK
<1> QED
  BY <1>3, <1>5 DEF R

\* What a step that only takes records away leaves.
Shrinks(p, u) == PoolOK(u) /\ u.records \subseteq p.records

\* prune_expired leaves no record whose deadline is past (relay_pool_v2.cpp:285).
LEMMA PruneOK ==
    ASSUME NEW p, PoolOK(p), NEW height \in Nat
    PROVE  /\ Shrinks(p, prune_expired(p, height))
           /\ \A s \in prune_expired(p, height).records : s.deadline_height >= height
<1> DEFINE R == {s \in p.records : s.deadline_height >= height}
           gone == {i \in p.queue.items : i.deadline_height < height}
           u == [queue |-> Without(p.queue, gone), records |-> R]
           v == compact_receipt_slots(u, height)
<1>1. p.queue.items = {ItemOf(s) : s \in p.records} /\ p.records \subseteq PoolEntries
  BY DEF PoolOK
<1>2. \A s \in p.records : s.deadline_height \in Nat
  BY <1>1 DEF PoolEntries
<1>3. p.queue.items \ gone = {ItemOf(s) : s \in R}
  BY <1>1, <1>2, ItemParts
<1>4. prune_expired(p, height) = v
  BY DEF prune_expired, PruneExpired
<1>5. R \in SUBSET p.records /\ gone \in SUBSET p.queue.items
  OBVIOUS
<1>6. \A s \in R : s.deadline_height >= height
  OBVIOUS
<1> HIDE DEF R, gone
<1>7. PoolOK(u) /\ u.records = R
  BY <1>3, <1>5, PartOK
<1> HIDE DEF u
<1>8. PoolOK(v) /\ v.records \subseteq R
  <2>1. CASE height < receipt_slot_dedup_height
    BY <1>7, <2>1 DEF compact_receipt_slots
  <2>2. CASE ~ (height < receipt_slot_dedup_height)
    BY <1>7, <2>2, EraseOK DEF compact_receipt_slots
  <2> QED
    BY <2>1, <2>2
<1> QED
  BY <1>4, <1>5, <1>6, <1>8 DEF Shrinks

\* prune_unusable_receipts only takes receipts away (relay_pool_v2.cpp:302).
LEMMA UnusableOK ==
    ASSUME NEW p, PoolOK(p), NEW blocks, NEW height \in Nat
    PROVE  LET u == prune_unusable_receipts(p, blocks, height)
           IN  /\ Shrinks(p, u)
               /\ \A s \in u.records : s.deadline_height >= height
<1> DEFINE v == prune_expired(p, height)
           u == prune_unusable_receipts(p, blocks, height)
<1>1. PoolOK(v) /\ v.records \subseteq p.records /\ \A s \in v.records : s.deadline_height >= height
  BY PruneOK DEF Shrinks
<1>2. PICK ids : u = v \/ u = erase_confirmed(v, ids)
  BY DEF prune_unusable_receipts
<1> HIDE DEF u, v
<1>3. PoolOK(u) /\ u.records \subseteq v.records
  BY <1>1, <1>2, EraseOK
<1> QED
  BY <1>1, <1>3 DEF Shrinks, u

-----------------------------------------------------------------------------
(* enqueue *)

\* The room that a queue in order has: no difference goes below zero.
LEMMA RoomIs ==
    ASSUME NEW q, QueueOK(q), NEW c \in Classes
    PROVE  LET held == ClassItems(q.items, c)
           IN  /\ Minus(queue_limits.max_items, queue_limits.reserved_items[Other(c)])
                    = queue_limits.max_items - queue_limits.reserved_items[Other(c)]
               /\ Minus(queue_limits.max_bytes, q.bytes) = queue_limits.max_bytes - q.bytes
               /\ Minus(Minus(queue_limits.max_bytes, queue_limits.reserved_bytes[Other(c)]),
                        BytesOf(held))
                    = queue_limits.max_bytes - queue_limits.reserved_bytes[Other(c)]
                        - BytesOf(held)
               /\ BytesOf(held) \in Nat /\ Cardinality(held) \in Nat
               /\ IsFiniteSet(held) /\ HaveBytes(held)
<1> DEFINE held == ClassItems(q.items, c)
           I == queue_limits.max_items
           B == queue_limits.max_bytes
           i == queue_limits.reserved_items[Other(c)]
           b == queue_limits.reserved_bytes[Other(c)]
<1>1. /\ I \in Nat /\ B \in Nat /\ I <= SizeMax /\ B <= SizeMax /\ SizeMax \in Nat
      /\ i \in Nat /\ b \in Nat /\ i <= I /\ b <= B
  <2>1. /\ I \in Nat /\ B \in Nat /\ I <= SizeMax /\ B <= SizeMax /\ SizeMax \in Nat
        /\ queue_limits.reserved_items[c] \in Nat /\ queue_limits.reserved_bytes[c] \in Nat
        /\ i \in Nat /\ b \in Nat
        /\ queue_limits.reserved_items[c] + i <= I
        /\ queue_limits.reserved_bytes[c] + b <= B
    BY QueueLimits
  <2> HIDE DEF I, B, i, b
  <2> QED
    BY <2>1
<1>2. /\ q.bytes \in 0..B /\ HaveBytes(q.items)
      /\ Cardinality(held) <= I - i /\ BytesOf(held) <= B - b
      /\ \A j \in q.items : j.record_class \in Classes
  BY DEF QueueOK
<1>3. HaveBytes(held) /\ BytesOf(held) \in Nat /\ Cardinality(held) \in Nat
  BY <1>2, ClassesSplit
<1> HIDE DEF held, I, B, i, b
<1>4. Minus(I, i) = I - i
  BY <1>1, MinusExact
<1>5. Minus(B, q.bytes) = B - q.bytes
  BY <1>1, <1>2, MinusExact
<1>6. Minus(B, b) = B - b
  BY <1>1, MinusExact
<1>7. B - b \in Nat /\ B - b <= SizeMax
  BY <1>1
<1>8. Minus(B - b, BytesOf(held)) = B - b - BytesOf(held)
  BY <1>2, <1>3, <1>7, MinusExact
<1> QED
  BY <1>3, <1>4, <1>5, <1>6, <1>8 DEF held, I, B, i, b, HaveBytes

\* An item that finds room leaves the queue in order (resource_policy_v2.cpp:563).
LEMMA EnqueuedOK ==
    ASSUME NEW q, QueueOK(q), NEW item, item.bytes \in Nat, item.record_class \in Classes,
           item \notin q.items, ~ NoRoom(q, item)
    PROVE  QueueOK(Enqueued(q, item)) /\ Enqueued(q, item).items = q.items \cup {item}
<1> DEFINE c == item.record_class
           held == ClassItems(q.items, c)
           I == queue_limits.max_items
           B == queue_limits.max_bytes
           i(d) == queue_limits.reserved_items[Other(d)]
           b(d) == queue_limits.reserved_bytes[Other(d)]
           more == q.items \cup {item}
           u == Enqueued(q, item)
<1>1. /\ Cardinality(q.items) < I /\ Cardinality(held) < I - i(c)
      /\ item.bytes <= B - q.bytes /\ item.bytes <= B - b(c) - BytesOf(held)
      /\ BytesOf(held) \in Nat /\ Cardinality(held) \in Nat
      /\ IsFiniteSet(held) /\ HaveBytes(held)
  <2>0. /\ Cardinality(q.items) \in Nat /\ I \in Nat /\ B \in Nat /\ q.bytes \in Nat
        /\ i(c) \in Nat /\ b(c) \in Nat
    BY QueueLimits, FS_CardinalityType DEF QueueOK, HaveBytes
  <2>1. /\ Minus(I, i(c)) = I - i(c)
        /\ Minus(B, q.bytes) = B - q.bytes
        /\ Minus(Minus(B, b(c)), BytesOf(held)) = B - b(c) - BytesOf(held)
        /\ BytesOf(held) \in Nat /\ Cardinality(held) \in Nat
        /\ IsFiniteSet(held) /\ HaveBytes(held)
    BY RoomIs
  <2>2. /\ ~ (Cardinality(q.items) >= I) /\ ~ (Cardinality(held) >= Minus(I, i(c)))
        /\ ~ (item.bytes > Minus(B, q.bytes))
        /\ ~ (item.bytes > Minus(Minus(B, b(c)), BytesOf(held)))
    BY DEF NoRoom
  <2> HIDE DEF held, I, B, i, b
  <2> QED
    BY <2>0, <2>1, <2>2
<1>2. /\ HaveBytes(q.items) /\ IsFiniteSet(q.items) /\ q.bytes = BytesOf(q.items)
      /\ q.bytes \in 0..B /\ \A j \in q.items : j.record_class \in Classes
      /\ \A d \in Classes : /\ Cardinality(ClassItems(q.items, d)) <= I - i(d)
                            /\ BytesOf(ClassItems(q.items, d)) <= B - b(d)
  BY DEF QueueOK, HaveBytes
<1>3. u.items = more /\ u.bytes = q.bytes + item.bytes /\ u = [items |-> u.items, bytes |-> u.bytes]
  BY DEF Enqueued
<1>4. HaveBytes(more) /\ BytesOf(more) = item.bytes + BytesOf(q.items)
  BY <1>2, BytesOfAdd
<1>5. I \in Nat /\ B \in Nat
  BY QueueLimits
<1>6. Cardinality(more) = Cardinality(q.items) + 1 /\ Cardinality(q.items) \in Nat
  BY <1>2, FS_AddElement, FS_CardinalityType
<1>7. \A d \in Classes : d # c => ClassItems(more, d) = ClassItems(q.items, d)
  BY DEF ClassItems
<1>8. ClassItems(more, c) = held \cup {item} /\ item \notin held
  BY DEF ClassItems
<1>9. \A j \in more : j.record_class \in Classes
  BY <1>2
<1> HIDE DEF held, I, B, more, u
<1>10. /\ Cardinality(held \cup {item}) = Cardinality(held) + 1
       /\ BytesOf(held \cup {item}) = item.bytes + BytesOf(held)
  BY <1>1, <1>8, FS_AddElement, BytesOfAdd
<1>11. i(c) \in Nat /\ b(c) \in Nat
  BY QueueLimits
<1>12. /\ Cardinality(ClassItems(more, c)) <= I - i(c)
       /\ BytesOf(ClassItems(more, c)) <= B - b(c)
  <2> HIDE DEF c, i, b
  <2> QED
    BY <1>1, <1>5, <1>8, <1>10, <1>11
<1>13. \A d \in Classes : /\ Cardinality(ClassItems(more, d)) <= I - i(d)
                          /\ BytesOf(ClassItems(more, d)) <= B - b(d)
  BY <1>2, <1>7, <1>12
<1>14. u.bytes = BytesOf(u.items) /\ u.bytes \in 0..B
  BY <1>1, <1>2, <1>3, <1>4, <1>5
<1>15. Cardinality(u.items) <= I
  BY <1>1, <1>3, <1>5, <1>6
<1> QED
  BY <1>3, <1>4, <1>9, <1>13, <1>14, <1>15 DEF QueueOK, u, more, I, B

\* The deadline of a record is a height or below every height.
LEMMA DescribeType ==
    ASSUME NEW r \in Record, NEW height
    PROVE  describe(r, height) \in Int /\ describe(r, height) <= U64Max
<1>1. /\ epoch_length \in Nat \ {0} /\ anchor_depth \in Nat /\ U64Max \in Nat
      /\ r.epoch \in Nat /\ r.round \in Nat /\ round_offsets \in Seq(Nat)
      /\ Len(round_offsets) \in Nat /\ r.round + 1 <= Len(round_offsets)
  BY TimingAssumption, RelayAssumption DEF U64, Rounds, round_count
<1> DEFINE s == epoch_start(r.epoch)
           e == epoch_end(r.epoch)
           x == r.epoch * epoch_length
<1>2. s \in Int /\ s <= U64Max /\ s >= -1
  <2>1. x \in Nat
    BY <1>1
  <2>2. s = IF r.epoch # None /\ x <= U64Max THEN x ELSE None
    BY DEF epoch_start, checked_mul
  <2> HIDE DEF x
  <2> QED
    BY <1>1, <2>1, <2>2 DEF None
<1>3. ASSUME NEW k \in Nat
      PROVE  checked_add(s, k) \in Int /\ checked_add(s, k) <= U64Max
  BY <1>1, <1>2 DEF checked_add, None
<1> HIDE DEF s
<1>4. e \in Int /\ e <= U64Max
  <2>1. epoch_length - 1 \in Nat
    BY <1>1
  <2>2. e = checked_add(s, epoch_length - 1)
    BY DEF epoch_end, s
  <2> HIDE DEF e
  <2> QED
    BY <1>3, <2>1, <2>2
<1> HIDE DEF e
<1>5. enrollment_cutoff(r.epoch) \in Int /\ enrollment_cutoff(r.epoch) <= U64Max
  BY <1>1, <1>2 DEF enrollment_cutoff, None, s
<1>6. evidence_deadline(r.epoch) \in Int /\ evidence_deadline(r.epoch) <= U64Max
  BY <1>1, <1>4 DEF evidence_deadline, None, e
<1>7. last_inclusion(r.epoch, r.round) \in Int /\ last_inclusion(r.epoch, r.round) <= U64Max
  <2>1. CASE r.round + 1 < Len(round_offsets)
    <3> DEFINE k == round_offsets[r.round + 2]
    <3>1. k \in Nat
      BY <1>1, <2>1
    <3>2. last_inclusion(r.epoch, r.round) = checked_add(s, k) - 1
      BY <2>1 DEF last_inclusion, round_count, s
    <3> DEFINE y == checked_add(s, k)
    <3> HIDE DEF k
    <3>3. y \in Int /\ y <= U64Max
      BY <1>3, <3>1
    <3> HIDE DEF y
    <3>4. y - 1 \in Int /\ y - 1 <= U64Max
      BY <1>1, <3>3
    <3> QED
      BY <3>2, <3>4 DEF y
  <2>2. CASE ~ (r.round + 1 < Len(round_offsets))
    BY <1>6, <2>2 DEF last_inclusion, round_count
  <2> QED
    BY <2>1, <2>2
<1> QED
  BY <1>5, <1>6, <1>7 DEF describe

\* The pool without the receipts that hold the slot of a record.
Freed(p, r, height) ==
    LET pruned == prune_expired(p, height)
    IN  erase_confirmed(pruned, {s.record.id : s \in SlotHolder(pruned, r, height)})

\* The receipts that hold the slot of a record in its own context.
Held(p, r, height) ==
    {s \in SlotHolder(prune_expired(p, height), r, height) : s.record.context = r.context}

\* The entry for a record.
EntryFor(r, height) == [record |-> r, deadline_height |-> describe(r, height)]

\* The three ways of enqueue: the slot is held, the record is known, or the queue is
\* asked (relay_pool_v2.cpp:200).
LEMMA EnqueueWays ==
    ASSUME NEW p, PoolOK(p), NEW r \in Record, NEW height \in Nat
    PROVE  LET freed == Freed(p, r, height)
               held == Held(p, r, height)
               entry == EntryFor(r, height)
               item == ItemOf(entry)
               known == {s \in freed.records : s.record = r}
               status == EnqueueStatus(freed.queue, item, height)
               result == enqueue(p, r, height)
           IN  /\ Shrinks(p, freed)
               /\ \A s \in freed.records : s.deadline_height >= height
               /\ held # {} =>
                     /\ result.status \in {"idempotent_duplicate", "receipt_slot_variant"}
                     /\ result.pool = prune_expired(p, height)
               /\ held = {} /\ known # {} =>
                     /\ result.status = IF entry \in known THEN "idempotent_duplicate"
                                        ELSE "conflict"
                     /\ result.pool = freed
               /\ held = {} /\ known = {} =>
                     /\ result.status = IF status = "idempotent_duplicate"
                                        THEN "invalid_configuration" ELSE status
                     /\ result.pool = IF status = "accepted"
                                      THEN [queue |-> Enqueued(freed.queue, item),
                                            records |-> freed.records \cup {entry}]
                                      ELSE freed
<1> DEFINE pruned == prune_expired(p, height)
           freed == Freed(p, r, height)
           held == Held(p, r, height)
           entry == EntryFor(r, height)
           item == ItemOf(entry)
           known == {s \in freed.records : s.record = r}
           status == EnqueueStatus(freed.queue, item, height)
           result == enqueue(p, r, height)
           queue == PruneExpired(freed.queue, height)
           asked == EnqueueStatus(queue, item, height)
<1>1. PoolOK(pruned) /\ pruned.records \subseteq p.records
      /\ \A s \in pruned.records : s.deadline_height >= height
  BY PruneOK DEF Shrinks
<1>2. PoolOK(freed) /\ freed.records \subseteq pruned.records
  <2> HIDE DEF pruned
  <2>1. freed = erase_confirmed(pruned, {s.record.id : s \in SlotHolder(pruned, r, height)})
    BY DEF Freed, pruned
  <2> HIDE DEF freed
  <2> QED
    BY <1>1, <2>1, EraseOK
<1>3. Shrinks(p, freed) /\ \A s \in freed.records : s.deadline_height >= height
  BY <1>1, <1>2 DEF Shrinks
<1>4. queue = freed.queue
  <2> HIDE DEF freed
  <2> DEFINE gone == {i \in freed.queue.items : i.deadline_height < height}
  <2>1. freed.queue.items = {ItemOf(s) : s \in freed.records} /\ QueueOK(freed.queue)
        /\ freed.records \subseteq PoolEntries
    BY <1>2 DEF PoolOK
  <2>2. \A s \in freed.records : s.deadline_height \in Nat
    BY <2>1 DEF PoolEntries
  <2>3. gone = {}
    BY <1>3, <2>1, <2>2, ItemParts
  <2>4. Without(freed.queue, {}) = freed.queue
    BY <2>1, WithoutOK
  <2> QED
    BY <2>3, <2>4 DEF PruneExpired
<1>5. result =
        CASE held # {} ->
                [status |-> IF \E s \in held : s.record = r THEN "idempotent_duplicate"
                            ELSE "receipt_slot_variant",
                 pool |-> pruned]
          [] held = {} /\ known # {} ->
                [status |-> IF entry \in known THEN "idempotent_duplicate" ELSE "conflict",
                 pool |-> freed]
          [] OTHER ->
                [status |-> IF asked = "idempotent_duplicate" THEN "invalid_configuration"
                            ELSE asked,
                 pool |-> IF asked = "accepted"
                          THEN [queue |-> Enqueued(queue, item),
                                records |-> freed.records \cup {entry}]
                          ELSE freed]
  BY DEF enqueue, Freed, Held, EntryFor
<1>6. asked = status
  BY <1>4
<1> HIDE DEF pruned, freed, held, entry, known, status, result, queue, asked, item
<1>7. held # {} => /\ result.status \in {"idempotent_duplicate", "receipt_slot_variant"}
                   /\ result.pool = pruned
  BY <1>5
<1>8. held = {} /\ known # {} =>
         /\ result.status = IF entry \in known THEN "idempotent_duplicate" ELSE "conflict"
         /\ result.pool = freed
  BY <1>5
<1>9. held = {} /\ known = {} =>
         /\ result.status = IF status = "idempotent_duplicate"
                            THEN "invalid_configuration" ELSE status
         /\ result.pool = IF status = "accepted"
                          THEN [queue |-> Enqueued(freed.queue, item),
                                records |-> freed.records \cup {entry}]
                          ELSE freed
  BY <1>4, <1>5, <1>6
<1> QED
  BY ZenonT(40), <1>3, <1>7, <1>8, <1>9 DEF pruned, freed, held, entry, known, status, result, item

\* What the answer of the queue says.
LEMMA AnswerIs ==
    ASSUME NEW q, NEW item, NEW height \in Nat, item.deadline_height \in Int
    PROVE  LET status == EnqueueStatus(q, item, height)
               fresh == item.deadline_height >= height /\ \A i \in q.items : i.id # item.id
           IN  /\ status = "accepted" => fresh /\ ~ NoRoom(q, item)
               /\ status = "full" => fresh /\ NoRoom(q, item)
               /\ fresh => status \in {"full", "accepted"}
               /\ status = "expired" <=> item.deadline_height < height
BY DEF EnqueueStatus

\* enqueue leaves the pool in order.
LEMMA EnqueueOK ==
    ASSUME NEW p, PoolOK(p), NEW r \in Record, NEW height \in Nat
    PROVE  PoolOK(enqueue(p, r, height).pool)
<1> DEFINE freed == Freed(p, r, height)
           held == Held(p, r, height)
           entry == EntryFor(r, height)
           item == ItemOf(entry)
           known == {s \in freed.records : s.record = r}
           status == EnqueueStatus(freed.queue, item, height)
           result == enqueue(p, r, height)
<1>1. /\ Shrinks(p, freed)
      /\ held # {} => result.pool = prune_expired(p, height)
      /\ held = {} /\ known # {} => result.pool = freed
      /\ held = {} /\ known = {} =>
            result.pool = IF status = "accepted"
                          THEN [queue |-> Enqueued(freed.queue, item),
                                records |-> freed.records \cup {entry}]
                          ELSE freed
  BY EnqueueWays
<1>2. PoolOK(freed) /\ PoolOK(prune_expired(p, height))
  BY <1>1, PruneOK DEF Shrinks
<1>3. entry.record = r /\ entry.deadline_height = describe(r, height)
  BY DEF EntryFor
<1>4. /\ item.id = r.id /\ item.bytes = r.bytes /\ item.deadline_height = describe(r, height)
      /\ item.record_class \in Classes
  BY <1>3, ItemParts
<1>5. r.bytes \in Nat /\ describe(r, height) \in Int /\ describe(r, height) <= U64Max
  BY RelayAssumption, LimitsAssumption, DescribeType
<1> HIDE DEF freed, held, result
<1>6. ASSUME held = {}, known = {}, status = "accepted"
      PROVE  PoolOK(result.pool)
  <2> DEFINE u == [queue |-> Enqueued(freed.queue, item), records |-> freed.records \cup {entry}]
  <2>1. result.pool = u
    BY <1>1, <1>6
  <2>2. /\ describe(r, height) >= height /\ ~ NoRoom(freed.queue, item)
        /\ \A i \in freed.queue.items : i.id # item.id
    BY <1>4, <1>5, <1>6, AnswerIs
  <2>3. item \notin freed.queue.items
    BY <2>2
  <2>4. /\ QueueOK(freed.queue) /\ freed.queue.items = {ItemOf(s) : s \in freed.records}
        /\ freed.records \subseteq PoolEntries
        /\ \A s, t \in freed.records : s.record = t.record => s = t
    BY <1>2 DEF PoolOK
  <2>5. entry \in PoolEntries
    BY <1>5, <2>2 DEF EntryFor, PoolEntries
  <2>6. \A s \in freed.records : s.record # r
    BY <1>6
  <2> HIDE DEF status, known
  <2>7. item = ItemOf(entry)
    OBVIOUS
  <2> HIDE DEF item, entry
  <2>8. /\ QueueOK(Enqueued(freed.queue, item))
        /\ Enqueued(freed.queue, item).items = freed.queue.items \cup {item}
    BY <1>4, <1>5, <2>2, <2>3, <2>4, EnqueuedOK
  <2>9. /\ u.queue = Enqueued(freed.queue, item) /\ u.records = freed.records \cup {entry}
        /\ u = [queue |-> u.queue, records |-> u.records]
    OBVIOUS
  <2> HIDE DEF u
  <2>10. u.queue.items = {ItemOf(s) : s \in u.records}
    BY <2>4, <2>7, <2>8, <2>9
  <2>11. \A s, t \in u.records : s.record = t.record => s = t
    BY <1>3, <2>4, <2>6, <2>9
  <2>12. u.records \subseteq PoolEntries
    BY <2>4, <2>5, <2>9
  <2>13. PoolOK(u)
    BY <2>8, <2>9, <2>10, <2>11, <2>12 DEF PoolOK
  <2> QED
    BY <2>1, <2>13
<1> HIDE DEF known, status
<1> QED
  BY <1>1, <1>2, <1>6 DEF result

-----------------------------------------------------------------------------
(* admit *)

\* The last position in a set of positions is one of them.
LEMMA LastPosition ==
    ASSUME NEW n \in Nat, NEW S \in SUBSET (1..n), S # {}
    PROVE  Max(S) \in S
<1> DEFINE Bounds == {m \in Nat : \A y \in S : y <= m}
<1>1. n \in Bounds /\ Bounds \in SUBSET Nat
  OBVIOUS
<1>2. PICK m \in Bounds : \A k \in Bounds : m <= k
  <2> HIDE DEF Bounds
  <2> QED
    BY <1>1, LeastElement
<1>3. PICK y \in S : TRUE
  OBVIOUS
<1>4. m \in Nat /\ y \in Nat /\ 1 <= y /\ y <= m
  BY <1>2, <1>3
<1>5. ASSUME m \notin S PROVE FALSE
  <2>1. \A z \in S : z \in Nat /\ z <= m /\ z # m
    BY <1>2, <1>5
  <2>2. \A z \in S : z <= m - 1
    BY <1>4, <2>1
  <2>3. m - 1 \in Bounds
    BY <1>4, <2>2
  <2> QED
    BY <1>2, <1>4, <2>3
<1>6. m \in S /\ \A z \in S : m >= z
  BY <1>2, <1>5
<1> QED
  BY <1>6 DEF Max

\* The run over a batch after a set of its positions, from a table of the runs over
\* smaller sets.
RunFrom(f, start, blocks, list, s) ==
    IF s = {} THEN start ELSE AdmitOne(f[s \ {Max(s)}], list[Max(s)], blocks)

\* A table of the runs over the sets of positions.
RunTable(f, start, blocks, list) ==
    f = [s \in SUBSET DOMAIN list |-> RunFrom(f, start, blocks, list, s)]

\* The run over the whole batch.
RunOver(start, blocks, list) ==
    (CHOOSE f : RunTable(f, start, blocks, list))[DOMAIN list]

\* The run that admit starts with.
RunStart(p, blocks, list) ==
    [status |-> IF TooLarge(list) THEN "invalid_batch" ELSE "accepted",
     pool |-> prune_unusable_receipts(p, blocks, Len(blocks)),
     applied |-> Confirmed(blocks)]

\* admit commits what the run over the batch left.
LEMMA AdmitIs ==
    ASSUME NEW p, NEW blocks, NEW list
    PROVE  admit(p, blocks, list) = Committed(p, RunOver(RunStart(p, blocks, list), blocks, list))
BY DEF admit, FoldLeft, MapThenFoldSet, RunOver, RunTable, RunFrom, RunStart

\* There is a table for every batch.
LEMMA RunTableExists ==
    ASSUME NEW start, NEW blocks, NEW list \in Seq(Record)
    PROVE  \E f : RunTable(f, start, blocks, list)
<1> DEFINE S == DOMAIN list
           From(f, s) == RunFrom(f, start, blocks, list, s)
           Part(f, n) == f = [s \in Layer(S, n) |-> From(f, s)]
           Bad == {n \in Nat : \A f : ~ Part(f, n)}
<1>0. S = 1..Len(list) /\ Len(list) \in Nat
  OBVIOUS
<1>fin. IsFiniteSet(S)
  BY <1>0, FS_Interval
<1>from. \A f, g, s : (s # {} => f[s \ {Max(s)}] = g[s \ {Max(s)}]) => From(f, s) = From(g, s)
  BY DEF RunFrom
<1>empty. \A f : From(f, {}) = start
  BY DEF RunFrom
<1>max. \A s \in SUBSET S : s # {} => Max(s) \in s
  BY <1>0, LastPosition
<1> HIDE DEF S, From
<1>1. ASSUME Bad # {} PROVE FALSE
  <2>1. Bad \in SUBSET Nat
    OBVIOUS
  <2>2. PICK k \in Bad : \A m \in Bad : k <= m
    <3> HIDE DEF Bad
    <3> QED
      BY <1>1, <2>1, LeastElement
  <2>3. k \in Nat /\ \A f : ~ Part(f, k)
    OBVIOUS
  <2>4. CASE k = 0
    <3> DEFINE f == [s \in Layer(S, 0) |-> start]
    <3>1. \A s \in Layer(S, 0) : From(f, s) = start
      BY <1>fin, <1>empty, Layers
    <3>2. f = [s \in Layer(S, 0) |-> From(f, s)]
      BY <3>1
    <3> QED
      BY <2>3, <2>4, <3>2
  <2>5. CASE k # 0
    <3> DEFINE n == k - 1
    <3>1. n \in Nat /\ n + 1 = k /\ n \notin Bad
      BY <2>2, <2>3, <2>5
    <3>2. PICK g : Part(g, n)
      BY <3>1
    <3> HIDE DEF n
    <3> DEFINE f == [s \in Layer(S, k) |-> From(g, s)]
    <3>3. \A s \in Layer(S, n) : g[s] = From(g, s) /\ s \in Layer(S, k)
      BY <1>fin, <3>1, <3>2, Layers
    <3>4. \A s \in Layer(S, n) : f[s] = g[s]
      BY <3>3
    <3>5. ASSUME NEW s \in Layer(S, k)
          PROVE  From(f, s) = From(g, s)
      <4>1. s \in SUBSET S
        BY DEF Layer
      <4>2. s # {} => s \ {Max(s)} \in Layer(S, n)
        BY <1>fin, <1>max, <3>1, <4>1, Layers
      <4>3. s # {} => f[s \ {Max(s)}] = g[s \ {Max(s)}]
        BY <3>4, <4>2
      <4> HIDE DEF f
      <4> QED
        BY <1>from, <4>3
    <3>6. f = [s \in Layer(S, k) |-> From(f, s)]
      BY <3>5
    <3> QED
      BY <2>3, <3>6
  <2> QED
    BY <2>4, <2>5
<1>2. Cardinality(S) \in Nat /\ Layer(S, Cardinality(S)) = SUBSET S
  BY <1>fin, Layers, FS_CardinalityType
<1>n. \A n \in Nat : \E f : Part(f, n)
  BY <1>1
<1>3. PICK f : Part(f, Cardinality(S))
  <2> HIDE DEF Part
  <2> QED
    BY <1>n, <1>2
<1>4. f = [s \in SUBSET S |-> From(f, s)]
  BY <1>2, <1>3
<1> QED
  BY <1>4 DEF RunTable, S, From

\* The state of a run: its pool is in order.
RunOK(run) ==
    /\ run = [status |-> run.status, pool |-> run.pool, applied |-> run.applied]
    /\ PoolOK(run.pool)

\* One record leaves the run in order (relay_pool_v2.cpp:473).
LEMMA AdmitOneOK ==
    ASSUME NEW run, RunOK(run), NEW r \in Record, NEW blocks, Len(blocks) \in Nat
    PROVE  RunOK(AdmitOne(run, r, blocks))
<1> DEFINE height == Len(blocks)
           queued == enqueue(run.pool, r, height)
           u == Queued(run, r, queued)
<1>1. PoolOK(queued.pool)
  BY EnqueueOK DEF RunOK
<1>2. RunOK(u)
  <2> DEFINE v == Verdict(queued.status)
             a == Preview(run.applied, r, queued.status)
  <2>0. u = [run EXCEPT !.status = v, !.pool = queued.pool, !.applied = a]
    BY DEF Queued
  <2> HIDE DEF queued, v, a, u
  <2>1. u = [status |-> v, pool |-> queued.pool, applied |-> a]
    BY <2>0 DEF RunOK
  <2> QED
    BY <1>1, <2>1 DEF RunOK
<1>3. ASSUME NEW status
      PROVE  RunOK([run EXCEPT !.status = status])
  BY DEF RunOK
<1>4. \/ AdmitOne(run, r, blocks) = run
      \/ AdmitOne(run, r, blocks) = u
      \/ \E status : AdmitOne(run, r, blocks) = [run EXCEPT !.status = status]
  <2> DEFINE going == run.status = "accepted"
             strict == height >= receipt_slot_dedup_height /\ IsReceipt(r)
             genuine == ContextAvailable(r, blocks) /\ ContextMatches(r, blocks)
             late == height > last_inclusion(r.epoch, r.round)
             early == height <= last_inclusion(r.epoch, r.round)
             filled == has_receipt_slot(run.applied, r)
             applies == Applies(run.applied, blocks, r, height)
  <2>1. AdmitOne(run, r, blocks) =
          CASE ~ going -> run
            [] going /\ strict /\ ~ genuine -> [run EXCEPT !.status = "invalid_batch"]
            [] going /\ strict /\ genuine /\ late -> [run EXCEPT !.status = "expired"]
            [] going /\ strict /\ genuine /\ early /\ filled -> run
            [] OTHER -> IF ~ applies THEN [run EXCEPT !.status = "invalid_batch"] ELSE u
    BY DEF AdmitOne
  <2> HIDE DEF going, strict, genuine, late, early, filled, applies, u
  <2> QED
    BY <2>1
<1> QED
  BY <1>2, <1>3, <1>4

\* The run over a batch leaves the pool in order.
LEMMA RunOverOK ==
    ASSUME NEW start, RunOK(start), NEW blocks, Len(blocks) \in Nat, NEW list \in Seq(Record)
    PROVE  RunOK(RunOver(start, blocks, list))
<1> DEFINE S == DOMAIN list
           f == CHOOSE f : RunTable(f, start, blocks, list)
           Wrong(s) == s \in SUBSET S /\ ~ RunOK(f[s])
           Bad == {n \in Nat : \E s : Wrong(s) /\ Cardinality(s) = n}
<1>1. RunTable(f, start, blocks, list)
  BY RunTableExists
<1>2. RunOver(start, blocks, list) = f[S]
  BY DEF RunOver
<1> HIDE DEF f
<1>3. S = 1..Len(list) /\ Len(list) \in Nat /\ \A i \in S : list[i] \in Record
  OBVIOUS
<1>fin. IsFiniteSet(S)
  BY <1>3, FS_Interval
<1>4. \A s \in SUBSET S : IsFiniteSet(s) /\ Cardinality(s) \in Nat
  <2> HIDE DEF S
  <2> QED
    BY <1>fin, FS_Subset, FS_CardinalityType
<1>5. \A s \in SUBSET S : f[s] = RunFrom(f, start, blocks, list, s)
  BY <1>1 DEF RunTable
<1> HIDE DEF S
<1>6. ASSUME Bad # {} PROVE FALSE
  <2>1. Bad \in SUBSET Nat
    OBVIOUS
  <2>2. PICK k \in Bad : \A m \in Bad : k <= m
    <3> HIDE DEF Bad
    <3> QED
      BY <1>6, <2>1, LeastElement
  <2>3. PICK s : Wrong(s) /\ Cardinality(s) = k
    BY <2>2
  <2>4. s # {}
    BY <1>5, <2>3 DEF RunFrom
  <2> DEFINE x == Max(s)
             r == s \ {x}
  <2>5. x \in s /\ list[x] \in Record
    BY <1>3, <2>3, <2>4, LastPosition
  <2>6. f[s] = AdmitOne(f[r], list[x], blocks)
    BY <1>5, <2>3, <2>4 DEF RunFrom
  <2> HIDE DEF x
  <2>7. r \in SUBSET S /\ Cardinality(r) = k - 1 /\ Cardinality(r) \in Nat /\ k \in Nat
    BY <1>4, <2>3, <2>5, FS_RemoveElement
  <2> HIDE DEF r
  <2>8. ASSUME Wrong(r) PROVE FALSE
    <3>1. Cardinality(r) \in Bad
      BY <2>7, <2>8
    <3> HIDE DEF Bad
    <3> QED
      BY <2>2, <2>7, <3>1
  <2>9. RunOK(f[r])
    BY <2>7, <2>8
  <2> QED
    BY <2>3, <2>5, <2>6, <2>9, AdmitOneOK
<1>7. S \in SUBSET S /\ Cardinality(S) \in Nat
  BY <1>4
<1>8. ~ Wrong(S)
  BY <1>6, <1>7
<1> QED
  BY <1>2, <1>8

\* A batch leaves the pool in order, taken or not.
LEMMA AdmitOK ==
    ASSUME NEW p, PoolOK(p), NEW blocks, Len(blocks) \in Nat, NEW list \in Seq(Record)
    PROVE  PoolOK(admit(p, blocks, list).pool)
<1> DEFINE start == RunStart(p, blocks, list)
           end == RunOver(start, blocks, list)
<1>1. PoolOK(prune_unusable_receipts(p, blocks, Len(blocks)))
  BY UnusableOK DEF Shrinks
<1>2. RunOK(start)
  BY <1>1 DEF RunOK, RunStart
<1> HIDE DEF start
<1>3. RunOK(end)
  BY <1>2, RunOverOK
<1>4. admit(p, blocks, list) = Committed(p, end)
  BY AdmitIs DEF start
<1> HIDE DEF end
<1> QED
  BY <1>3, <1>4 DEF Committed, RunOK

-----------------------------------------------------------------------------
(* The invariant *)

\* The pool is in order and the chain is a list of blocks.
PoolInv(labels, lists) ==
    /\ PoolOK(pool)
    /\ chain \in Seq([label : labels, records : lists])

\* A node that starts has it.
LEMMA PoolInvInit ==
    ASSUME NEW labels, NEW lists, NEW blocks \in Seq([label : labels, records : lists]),
           Init(blocks)
    PROVE  PoolInv(labels, lists)
BY EmptyPoolOK DEF PoolInv, Init

\* Every step keeps it.
LEMMA PoolInvStep ==
    ASSUME NEW labels, NEW lists, PoolInv(labels, lists), [Next(labels, lists)]_vars
    PROVE  PoolInv(labels, lists)'
<1> DEFINE Blocks == [label : labels, records : lists]
<1>0. PoolOK(pool) /\ chain \in Seq(Blocks)
  BY DEF PoolInv
<1> HIDE DEF Blocks
<1>1. Len(chain) \in Nat
  BY <1>0
<1>P. PoolOK(pool') /\ chain' \in Seq(Blocks) => PoolInv(labels, lists)'
  BY DEF PoolInv, Blocks
<1>2. ASSUME NEW envelopes \in Batch, Submit(envelopes)
      PROVE  PoolInv(labels, lists)'
  <2>1. envelopes \in Seq(Record)
    BY RelayAssumption
  <2> QED
    BY <1>0, <1>1, <1>2, <1>P, <2>1, AdmitOK DEF Submit
<1>3. CASE GetTemplate
  BY <1>0, <1>1, <1>3, <1>P, UnusableOK DEF GetTemplate, TemplatePool, Shrinks
<1>4. ASSUME NEW label \in labels, NEW list \in lists, AddBlock(label, list)
      PROVE  PoolInv(labels, lists)'
  <2>1. PoolOK(pool')
    BY <1>0, <1>4, EraseOK DEF AddBlock, erase_confirmed_records
  <2>2. [label |-> label, records |-> list] \in Blocks
    BY DEF Blocks
  <2>3. chain' \in Seq(Blocks)
    BY <1>0, <1>4, <2>2 DEF AddBlock
  <2> QED
    BY <1>P, <2>1, <2>3
<1>5. CASE PopBlock
  <2>1. chain' \in Seq(Blocks)
    BY <1>0, <1>5 DEF PopBlock, Front
  <2> QED
    BY <1>0, <1>5, <1>P, <2>1 DEF PopBlock
<1>6. CASE Restart
  BY <1>0, <1>6, <1>P, EmptyPoolOK DEF Restart
<1>7. CASE UNCHANGED vars
  BY <1>0, <1>7, <1>P DEF vars
<1> QED
  BY <1>2, <1>3, <1>4, <1>5, <1>6, <1>7 DEF Next

\* The invariant says that the queue and the records agree and that the room is
\* accounted for.
LEMMA PoolInvIs ==
    ASSUME PoolOK(pool)
    PROVE  QueueMatchesRecords /\ RoomAccounted
BY DEF PoolOK, QueueOK, PoolEntries, QueueMatchesRecords, RoomAccounted

\* The queue and the records beside it never disagree, whatever the records, the
\* limits and the order of batches, blocks and restarts (relay_pool_v2.cpp:400).
THEOREM RelayQueueMatches ==
    ASSUME NEW labels, NEW lists, NEW blocks \in Seq([label : labels, records : lists])
    PROVE  Spec(blocks, labels, lists) => []QueueMatchesRecords
<1>1. Init(blocks) => PoolInv(labels, lists)
  BY PoolInvInit
<1>2. PoolInv(labels, lists) /\ [Next(labels, lists)]_vars => PoolInv(labels, lists)'
  BY PoolInvStep
<1>3. PoolInv(labels, lists) => QueueMatchesRecords
  BY PoolInvIs DEF PoolInv
<1> QED
  BY <1>1, <1>2, <1>3, PTL DEF Spec

\* The room is accounted for, and no class takes the reserve of the other, whatever
\* the sizes of the records and the limits are (resource_policy_v2.cpp:568).
THEOREM RelayRoomAccounted ==
    ASSUME NEW labels, NEW lists, NEW blocks \in Seq([label : labels, records : lists])
    PROVE  Spec(blocks, labels, lists) => []RoomAccounted
<1>1. Init(blocks) => PoolInv(labels, lists)
  BY PoolInvInit
<1>2. PoolInv(labels, lists) /\ [Next(labels, lists)]_vars => PoolInv(labels, lists)'
  BY PoolInvStep
<1>3. PoolInv(labels, lists) => RoomAccounted
  BY PoolInvIs DEF PoolInv
<1> QED
  BY <1>1, <1>2, <1>3, PTL DEF Spec

\* A queue in order has room for an item of a class that stays within its reserve.
LEMMA ReserveFree ==
    ASSUME NEW q, QueueOK(q), NEW item, item.bytes \in Nat, item.record_class \in Classes,
           LET held == ClassItems(q.items, item.record_class)
           IN  /\ Cardinality(held) < queue_limits.reserved_items[item.record_class]
               /\ BytesOf(held) + item.bytes <= queue_limits.reserved_bytes[item.record_class]
    PROVE  ~ NoRoom(q, item)
<1> DEFINE c == item.record_class
           o == Other(c)
           A == ClassItems(q.items, c)
           O == ClassItems(q.items, o)
           I == queue_limits.max_items
           B == queue_limits.max_bytes
           ri(d) == queue_limits.reserved_items[d]
           rb(d) == queue_limits.reserved_bytes[d]
<1>1. /\ I \in Nat /\ B \in Nat /\ ri(c) \in Nat /\ ri(o) \in Nat /\ rb(c) \in Nat /\ rb(o) \in Nat
      /\ ri(c) + ri(o) <= I /\ rb(c) + rb(o) <= B /\ o \in Classes
  BY QueueLimits
<1>2. Other(o) = c
  BY DEF Other, Classes
<1>3. HaveBytes(q.items) /\ q.bytes = BytesOf(q.items)
      /\ \A i \in q.items : i.record_class \in Classes
  BY DEF QueueOK
<1>4. /\ Cardinality(q.items) = Cardinality(A) + Cardinality(O)
      /\ BytesOf(q.items) = BytesOf(A) + BytesOf(O)
      /\ BytesOf(A) \in Nat /\ BytesOf(O) \in Nat
      /\ Cardinality(A) \in Nat /\ Cardinality(O) \in Nat
  BY <1>1, <1>3, ClassesSplit
<1>5. Cardinality(O) <= I - ri(c) /\ BytesOf(O) <= B - rb(c)
  BY <1>1, <1>2 DEF QueueOK
<1>6. Cardinality(A) < ri(c) /\ BytesOf(A) + item.bytes <= rb(c)
  OBVIOUS
<1>7. /\ Minus(I, ri(o)) = I - ri(o)
      /\ Minus(B, q.bytes) = B - q.bytes
      /\ Minus(Minus(B, rb(o)), BytesOf(A)) = B - rb(o) - BytesOf(A)
  BY RoomIs
<1>8. NoRoom(q, item) <=> \/ Cardinality(q.items) >= I
                          \/ Cardinality(A) >= Minus(I, ri(o))
                          \/ item.bytes > Minus(B, q.bytes)
                          \/ item.bytes > Minus(Minus(B, rb(o)), BytesOf(A))
  BY DEF NoRoom
<1> HIDE DEF A, O, I, B, ri, rb, c, o
<1> QED
  BY <1>1, <1>3, <1>4, <1>5, <1>6, <1>7, <1>8

\* A class within its reserve is never refused for want of room.
LEMMA ReserveKept ==
    ASSUME NEW p, PoolOK(p), NEW r \in Record, NEW height \in Nat,
           LET held == ClassItems(p.queue.items, record_class(r))
           IN  /\ Cardinality(held) < queue_limits.reserved_items[record_class(r)]
               /\ BytesOf(held) + r.bytes <= queue_limits.reserved_bytes[record_class(r)]
    PROVE  enqueue(p, r, height).status # "full"
<1> DEFINE freed == Freed(p, r, height)
           held == Held(p, r, height)
           entry == EntryFor(r, height)
           item == ItemOf(entry)
           known == {s \in freed.records : s.record = r}
           status == EnqueueStatus(freed.queue, item, height)
           result == enqueue(p, r, height)
           c == record_class(r)
           A == ClassItems(freed.queue.items, c)
           P == ClassItems(p.queue.items, c)
<1>1. /\ Shrinks(p, freed)
      /\ held # {} => result.status \in {"idempotent_duplicate", "receipt_slot_variant"}
      /\ held = {} /\ known # {} =>
            result.status = IF entry \in known THEN "idempotent_duplicate" ELSE "conflict"
      /\ held = {} /\ known = {} =>
            result.status = IF status = "idempotent_duplicate"
                            THEN "invalid_configuration" ELSE status
  BY ZenonT(40), EnqueueWays
<1>2. /\ item.bytes = r.bytes /\ item.deadline_height = describe(r, height)
      /\ item.record_class = c /\ c \in Classes
  <2>1. entry.record = r /\ entry.deadline_height = describe(r, height)
    BY DEF EntryFor
  <2> HIDE DEF entry
  <2> QED
    BY <2>1, ItemParts
<1>3. r.bytes \in Nat /\ describe(r, height) \in Int
  <2>1. SizeMax \in Nat /\ r.bytes \in 1..SizeMax
    BY RelayAssumption, LimitsAssumption
  <2>2. describe(r, height) \in Int
    BY DescribeType
  <2> QED
    BY <2>1, <2>2
<1>4. PoolOK(freed) /\ QueueOK(freed.queue) /\ QueueOK(p.queue)
      /\ freed.queue.items \subseteq p.queue.items
  BY <1>1 DEF Shrinks, PoolOK
<1>5. A \subseteq P /\ P \subseteq p.queue.items
  BY <1>4 DEF ClassItems
<1>6. Cardinality(P) < queue_limits.reserved_items[c]
      /\ BytesOf(P) + r.bytes <= queue_limits.reserved_bytes[c]
  OBVIOUS
<1> HIDE DEF freed, held, known, result, A, P
<1>7. HaveBytes(P) /\ IsFiniteSet(P)
  BY <1>4, <1>5, HaveBytesPart DEF QueueOK
<1>8. BytesOf(A) <= BytesOf(P) /\ BytesOf(A) \in Nat /\ BytesOf(P) \in Nat
  BY ZenonT(40), <1>5, <1>7, BytesOfSplit
<1>9. Cardinality(A) <= Cardinality(P) /\ Cardinality(A) \in Nat /\ Cardinality(P) \in Nat
  BY <1>5, <1>7, FS_Subset, FS_CardinalityType
<1>10. queue_limits.reserved_items[c] \in Nat /\ queue_limits.reserved_bytes[c] \in Nat
  BY <1>2, QueueLimits
<1>11. /\ Cardinality(A) < queue_limits.reserved_items[c]
       /\ BytesOf(A) + item.bytes <= queue_limits.reserved_bytes[c]
  <2> HIDE DEF c, item
  <2> QED
    BY <1>2, <1>3, <1>6, <1>8, <1>9, <1>10
<1>12. ~ NoRoom(freed.queue, item)
  <2>1. A = ClassItems(freed.queue.items, c)
    BY DEF A
  <2> HIDE DEF c, item
  <2> QED
    BY <1>2, <1>3, <1>4, <1>11, <2>1, ReserveFree
<1>13. status # "full"
  <2> HIDE DEF item
  <2> QED
    BY <1>2, <1>3, <1>12, AnswerIs
<1> HIDE DEF status
<1> QED
  BY <1>1, <1>13 DEF result

\* However full one class has made the queue, the other one finds its reserve free:
\* for every record, every limit and every way the pool was filled
\* (resource_policy_v2.cpp:563).
THEOREM RelayReservedRoom ==
    ASSUME NEW labels, NEW lists, NEW blocks \in Seq([label : labels, records : lists])
    PROVE  Spec(blocks, labels, lists) => []ReservedRoom
<1>1. Init(blocks) => PoolInv(labels, lists)
  BY PoolInvInit
<1>2. PoolInv(labels, lists) /\ [Next(labels, lists)]_vars => PoolInv(labels, lists)'
  BY PoolInvStep
<1>3. PoolInv(labels, lists) => ReservedRoom
  <2>1. PoolInv(labels, lists) => PoolOK(pool) /\ Len(chain) \in Nat
    BY DEF PoolInv
  <2> QED
    BY <2>1, ReserveKept DEF ReservedRoom
<1> QED
  BY <1>1, <1>2, <1>3, PTL DEF Spec

-----------------------------------------------------------------------------
(* A batch of one record *)

\* The run over one record is the step for that record.
LEMMA OneRun ==
    ASSUME NEW start, NEW blocks, NEW r \in Record
    PROVE  RunOver(start, blocks, <<r>>) = AdmitOne(start, r, blocks)
<1> DEFINE list == <<r>>
           f == CHOOSE f : RunTable(f, start, blocks, list)
<1>1. list \in Seq(Record) /\ DOMAIN list = {1} /\ list[1] = r
  OBVIOUS
<1> HIDE DEF list
<1>2. RunTable(f, start, blocks, list)
  BY <1>1, RunTableExists
<1>3. RunOver(start, blocks, list) = f[{1}]
  BY <1>1 DEF RunOver
<1> HIDE DEF f
<1>4. Max({1}) = 1
  <2>1. {1} \in SUBSET (1..1) /\ {1} # {} /\ 1 \in Nat
    OBVIOUS
  <2>2. Max({1}) \in {1}
    BY <2>1, LastPosition
  <2> QED
    BY <2>2
<1>5. f[{1}] = RunFrom(f, start, blocks, list, {1}) /\ f[{}] = RunFrom(f, start, blocks, list, {})
  BY <1>1, <1>2 DEF RunTable
<1>6. f[{}] = start
  BY <1>5 DEF RunFrom
<1>7. f[{1}] = AdmitOne(f[{}], r, blocks)
  BY <1>1, <1>4, <1>5 DEF RunFrom
<1> QED
  BY <1>3, <1>6, <1>7 DEF list

\* A table of the sums of the bytes over the sets of positions of a batch.
SumTable(g, list) ==
    g = [s \in SUBSET DOMAIN list |->
            IF s = {} THEN 0 ELSE g[s \ {Max(s)}] + list[Max(s)].bytes]

\* A batch of one record is too large when the record is.
LEMMA OneFits ==
    ASSUME NEW r \in Record, r.bytes <= queue_limits.max_bytes
    PROVE  ~ TooLarge(<<r>>)
<1> DEFINE list == <<r>>
           sum == FoldLeft(LAMBDA n, x : n + x.bytes, 0, list)
           g == CHOOSE g : SumTable(g, list)
           h == [s \in SUBSET {1} |-> IF s = {} THEN 0 ELSE r.bytes]
<1>1. DOMAIN list = {1} /\ list[1] = r /\ Len(list) = 1
  OBVIOUS
<1>2. r.bytes \in Nat
  BY RelayAssumption, LimitsAssumption
<1> HIDE DEF list
<1>3. sum = g[DOMAIN list]
  BY DEF FoldLeft, MapThenFoldSet, SumTable
<1>4. Max({1}) = 1
  <2>1. {1} \in SUBSET (1..1) /\ {1} # {} /\ 1 \in Nat
    OBVIOUS
  <2>2. Max({1}) \in {1}
    BY <2>1, LastPosition
  <2> QED
    BY <2>2
<1>5. SumTable(h, list)
  <2>1. \A s \in SUBSET {1} : s = {} \/ s = {1}
    OBVIOUS
  <2>2. h[{}] = 0 /\ h[{1}] = r.bytes
    OBVIOUS
  <2> DEFINE k == [s \in SUBSET {1} |->
                     IF s = {} THEN 0 ELSE h[s \ {Max(s)}] + list[Max(s)].bytes]
  <2>3. k[{}] = 0
    OBVIOUS
  <2>4. k[{1}] = h[{}] + r.bytes
    BY <1>1, <1>4
  <2>5. k[{1}] = r.bytes
    BY <1>2, <2>2, <2>4
  <2>6. h = k
    <3>1. DOMAIN h = SUBSET {1} /\ DOMAIN k = SUBSET {1}
      OBVIOUS
    <3>2. h = [s \in SUBSET {1} |-> h[s]] /\ k = [s \in SUBSET {1} |-> k[s]]
      OBVIOUS
    <3> HIDE DEF h, k
    <3>3. \A s \in SUBSET {1} : h[s] = k[s]
      BY <2>1, <2>2, <2>3, <2>5
    <3> QED
      BY <3>2, <3>3
  <2> QED
    BY <1>1, <2>6 DEF SumTable
<1>6. SumTable(g, list)
  BY <1>5
<1> HIDE DEF g, h
<1>7. /\ g[{1}] = g[{1} \ {Max({1})}] + list[Max({1})].bytes
      /\ g[{}] = 0
  BY <1>1, <1>6 DEF SumTable
<1>8. g[{1}] = r.bytes
  BY <1>1, <1>2, <1>4, <1>7
<1>9. queue_limits.max_items \in Nat \ {0}
  BY LimitsAssumption DEF LimitsValid
<1>10. TooLarge(list) <=> Len(list) > queue_limits.max_items \/ sum > queue_limits.max_bytes
  BY DEF TooLarge
<1>11. queue_limits.max_bytes \in Nat
  BY LimitsAssumption DEF LimitsValid
<1> HIDE DEF sum
<1>12. ~ TooLarge(list)
  BY <1>1, <1>2, <1>3, <1>8, <1>9, <1>10, <1>11
<1> QED
  BY <1>12 DEF list

\* A receipt that applies gets past the checks of admit and is put to the pool.
LEMMA ApplyingIsQueued ==
    ASSUME NEW run, run.status = "accepted", NEW r \in Record, NEW blocks,
           Len(blocks) \in Nat, IsReceipt(r),
           Len(blocks) >= receipt_slot_dedup_height,
           Applies(run.applied, blocks, r, Len(blocks)), ~ has_receipt_slot(run.applied, r)
    PROVE  /\ AdmitOne(run, r, blocks) = Queued(run, r, enqueue(run.pool, r, Len(blocks)))
           /\ describe(r, Len(blocks)) >= Len(blocks)
<1> DEFINE height == Len(blocks)
           u == Queued(run, r, enqueue(run.pool, r, height))
           going == run.status = "accepted"
           strict == height >= receipt_slot_dedup_height /\ IsReceipt(r)
           genuine == ContextAvailable(r, blocks) /\ ContextMatches(r, blocks)
           last == last_inclusion(r.epoch, r.round)
           late == height > last
           early == height <= last
           filled == has_receipt_slot(run.applied, r)
           applies == Applies(run.applied, blocks, r, height)
<1>1. receipt_slot_dedup_height \in Nat
  BY RelayAssumption, TimingAssumption DEF U64
<1>2. describe(r, height) = last
  <2> HIDE DEF last
  <2> QED
    BY <1>1 DEF describe, last
<1>3. last \in Int
  BY <1>2, DescribeType
<1>4. genuine /\ InWindow(r.epoch, r.round, height)
  BY DEF Applies
<1>5. early
  BY <1>4 DEF InWindow
<1> HIDE DEF last
<1>6. ~ late
  BY <1>3, <1>5
<1>7. AdmitOne(run, r, blocks) =
        CASE ~ going -> run
          [] going /\ strict /\ ~ genuine -> [run EXCEPT !.status = "invalid_batch"]
          [] going /\ strict /\ genuine /\ late -> [run EXCEPT !.status = "expired"]
          [] going /\ strict /\ genuine /\ early /\ filled -> run
          [] OTHER -> IF ~ applies THEN [run EXCEPT !.status = "invalid_batch"] ELSE u
  BY DEF AdmitOne, last
<1>8. going /\ strict /\ applies /\ ~ filled
  OBVIOUS
<1>9. describe(r, height) >= height
  BY <1>2, <1>3, <1>5
<1> HIDE DEF going, strict, genuine, late, early, filled, applies, u
<1>10. AdmitOne(run, r, blocks) = u
  BY <1>4, <1>6, <1>7, <1>8
<1> QED
  BY <1>9, <1>10 DEF u

\* What the pool makes of a receipt that is not late: there is no room, or its slot
\* is pending in its context (relay_pool_v2.cpp:242).
LEMMA ReceiptEnters ==
    ASSUME NEW p, PoolOK(p), NEW r \in Record, NEW height \in Nat, IsReceipt(r),
           height >= receipt_slot_dedup_height, describe(r, height) >= height
    PROVE  LET result == enqueue(p, r, height)
           IN  \/ result.status = "full"
               \/ /\ result.status \in {"accepted", "idempotent_duplicate",
                                        "receipt_slot_variant"}
                  /\ \E s \in result.pool.records :
                        SameSlot(s.record, r) /\ s.record.context = r.context
<1> DEFINE pruned == prune_expired(p, height)
           freed == Freed(p, r, height)
           held == Held(p, r, height)
           entry == EntryFor(r, height)
           item == ItemOf(entry)
           known == {s \in freed.records : s.record = r}
           status == EnqueueStatus(freed.queue, item, height)
           result == enqueue(p, r, height)
<1>1. /\ Shrinks(p, freed)
      /\ held # {} =>
            /\ result.status \in {"idempotent_duplicate", "receipt_slot_variant"}
            /\ result.pool = pruned
      /\ held = {} /\ known = {} =>
            /\ result.status = IF status = "idempotent_duplicate"
                               THEN "invalid_configuration" ELSE status
            /\ result.pool = IF status = "accepted"
                             THEN [queue |-> Enqueued(freed.queue, item),
                                   records |-> freed.records \cup {entry}]
                             ELSE freed
  BY ZenonT(40), EnqueueWays
<1>2. PoolOK(freed)
  BY <1>1 DEF Shrinks
<1>3. SameSlot(r, r)
  BY DEF SameSlot
<1>4. entry.record = r /\ item.id = r.id /\ item.deadline_height = describe(r, height)
  BY ZenonT(40), ItemParts DEF EntryFor
<1>5. CASE held # {}
  <2>1. PICK s \in held : TRUE
    BY <1>5
  <2>2. s \in pruned.records /\ SameSlot(s.record, r) /\ s.record.context = r.context
    BY <2>1 DEF Held, SlotHolder
  <2> HIDE DEF held, pruned, freed, known, status, result
  <2> QED
    BY <1>1, <1>5, <2>2 DEF result
<1>6. known = {}
  <2>1. SUFFICES ASSUME NEW s \in freed.records, s.record = r PROVE FALSE
    OBVIOUS
  <2>2. freed.records = {t \in pruned.records :
                            t.record.id \notin {x.record.id : x \in SlotHolder(pruned, r, height)}}
    BY DEF Freed, erase_confirmed
  <2>3. s \in pruned.records
        /\ s.record.id \notin {x.record.id : x \in SlotHolder(pruned, r, height)}
    <3> HIDE DEF freed, pruned
    <3> QED
      BY <2>1, <2>2
  <2>4. s \in SlotHolder(pruned, r, height)
    BY <1>3, <2>1, <2>3 DEF SlotHolder
  <2> QED
    BY <2>3, <2>4
<1>7. \A i \in freed.queue.items : i.id # item.id
  <2>1. freed.queue.items = {ItemOf(s) : s \in freed.records} /\ freed.records \subseteq PoolEntries
    BY <1>2 DEF PoolOK
  <2> HIDE DEF freed, item
  <2>2. ASSUME NEW s \in freed.records PROVE ItemOf(s).id # item.id
    <3>1. s.record \in Record /\ s.record # r
      BY <1>6, <2>1, <2>2 DEF PoolEntries
    <3>2. s.record.id # r.id
      BY <3>1, RelayAssumption
    <3> QED
      BY <1>4, <3>2, ItemParts
  <2> QED
    BY <2>1, <2>2
<1>8. status \in {"full", "accepted"}
  <2>1. describe(r, height) \in Int
    BY DescribeType
  <2> HIDE DEF freed, item
  <2> QED
    BY <1>4, <1>7, <2>1, AnswerIs
<1>9. CASE held = {}
  <2>1. entry \in freed.records \cup {entry} /\ entry.record.context = r.context
    BY <1>4
  <2> HIDE DEF held, pruned, freed, known, status, result, entry, item
  <2>2. CASE status = "full"
    BY <1>1, <1>6, <1>9, <2>2 DEF result
  <2>3. CASE status = "accepted"
    <3>1. result.status = "accepted" /\ entry \in result.pool.records
      BY <1>1, <1>6, <1>9, <2>1, <2>3
    <3> QED
      BY <1>3, <1>4, <2>1, <3>1 DEF result
  <2> QED
    BY <1>8, <2>2, <2>3
<1> QED
  BY <1>5, <1>9

\* A receipt of the present branch gets past one that was left behind.
LEMMA ReplacementAdmitted ==
    ASSUME NEW p, PoolOK(p), NEW blocks, Len(blocks) \in Nat, NEW r \in Record, IsReceipt(r),
           r.bytes <= queue_limits.max_bytes, Len(blocks) >= receipt_slot_dedup_height,
           Applies(Confirmed(blocks), blocks, r, Len(blocks)),
           ~ has_receipt_slot(Confirmed(blocks), r)
    PROVE  LET result == admit(p, blocks, <<r>>)
           IN  \/ result.status = "capacity_exhausted"
               \/ /\ result.status = "accepted"
                  /\ \E s \in result.pool.records :
                        SameSlot(s.record, r) /\ s.record.context = r.context
<1> DEFINE start == RunStart(p, blocks, <<r>>)
           queued == enqueue(start.pool, r, Len(blocks))
           end == AdmitOne(start, r, blocks)
           result == admit(p, blocks, <<r>>)
<1>1. result = Committed(p, end)
  BY AdmitIs, OneRun
<1>2. PoolOK(prune_unusable_receipts(p, blocks, Len(blocks)))
  BY UnusableOK DEF Shrinks
<1>3. /\ start.status = "accepted" /\ start.applied = Confirmed(blocks) /\ PoolOK(start.pool)
      /\ start = [status |-> start.status, pool |-> start.pool, applied |-> start.applied]
  BY <1>2, OneFits DEF RunStart
<1> HIDE DEF start, result
<1>4. end = Queued(start, r, queued) /\ describe(r, Len(blocks)) >= Len(blocks)
  BY <1>3, ApplyingIsQueued
<1>5. \/ queued.status = "full"
      \/ /\ queued.status \in {"accepted", "idempotent_duplicate", "receipt_slot_variant"}
         /\ \E s \in queued.pool.records :
               SameSlot(s.record, r) /\ s.record.context = r.context
  BY <1>3, <1>4, ReceiptEnters
<1>6. end.status = Verdict(queued.status) /\ end.pool = queued.pool
  <2> HIDE DEF queued, end
  <2> QED
    BY <1>3, <1>4 DEF Queued
<1> HIDE DEF queued, end
<1>7. /\ result.status = end.status
      /\ end.status = "accepted" => result.pool = end.pool
  BY <1>1 DEF Committed
<1> QED
  BY <1>5, <1>6, <1>7 DEF Verdict, result

\* A receipt that the next block can carry is never kept out by one of a branch that
\* was left, for every way the chain and the pool came about (relay_pool_v2.cpp:242).
THEOREM RelayReplacementEnters ==
    ASSUME NEW labels, NEW lists, NEW blocks \in Seq([label : labels, records : lists])
    PROVE  Spec(blocks, labels, lists) => []ReplacementEnters
<1>1. Init(blocks) => PoolInv(labels, lists)
  BY PoolInvInit
<1>2. PoolInv(labels, lists) /\ [Next(labels, lists)]_vars => PoolInv(labels, lists)'
  BY PoolInvStep
<1>3. PoolInv(labels, lists) => ReplacementEnters
  <2>1. PoolInv(labels, lists) => PoolOK(pool) /\ Len(chain) \in Nat
    BY DEF PoolInv
  <2> QED
    BY <2>1, ReplacementAdmitted DEF ReplacementEnters
<1> QED
  BY <1>1, <1>2, <1>3, PTL DEF Spec

=============================================================================
