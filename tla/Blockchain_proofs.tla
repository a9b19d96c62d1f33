------------------------- MODULE Blockchain_proofs --------------------------
(***************************************************************************)
(* The coordinator inside Blockchain follows the canonical chain, for any  *)
(* tree of blocks, any verdicts of connect_block and any journal window,   *)
(* as long as the database fails in no other way than by an exception of   *)
(* add_block or by a crash.                                                *)
(***************************************************************************)
EXTENDS Blockchain, SequenceTheorems, WellFoundedInduction, TLAPS

Entry == [block : Block, state_hash : Seq(Block)]

Valid(blocks) == Canonical!Valid(blocks)

\* A chain of blocks each of which is stored with the state that it leads to.
Good(d) ==
    /\ Valid(Blocks(d))
    /\ \A i \in DOMAIN d : d[i].state_hash = SubSeq(Blocks(d), 1, i)

\* A batch that will be committed unless something fails in it.
Follows == pc \notin {"down", "halted", "idle"} /\ (m_batch_success \/ pc = "pop")

\* What the disconnected blocks go back on: all that is left while the switch pops
\* and restores, and what lies below the split in between.
Base ==
    IF pc \in {"connect", "unwind"} THEN SubSeq(Blocks(batch), 1, target_height)
    ELSE Blocks(batch)

\* The original chain is still there, in two parts.
Restorable ==
    pc \in {"switch", "connect", "unwind", "restore"} /\ m_batch_success =>
        /\ pc \in {"connect", "unwind"} => target_height \in 1..Len(batch)
        /\ Valid(Base \o disconnected_chain)

IInv ==
    /\ TypeOK
    /\ pc # "halted"
    /\ pc \in {"switch", "connect"} => alt_chain # <<>>
    /\ pc = "restore" => disconnected_chain # <<>>
    /\ Good(db)
    /\ pc \in {"idle", "down"} => batch = db
    /\ IdleCoordinatorCanonical
    /\ Follows => coordinator = Blocks(batch) /\ Good(batch)
    /\ Restorable

-----------------------------------------------------------------------------
(* Sequences *)

\* The blocks of a database, as a sequence of the same length.
LEMMA BlocksType ==
    ASSUME NEW d \in Seq(Entry)
    PROVE  /\ Blocks(d) \in Seq(Block)
           /\ Len(Blocks(d)) = Len(d)
           /\ DOMAIN d = 1..Len(d)
           /\ \A i \in 1..Len(d) : Blocks(d)[i] = d[i].block
  <1>0. /\ Len(d) \in Nat
        /\ DOMAIN d = 1..Len(d)
        /\ \A i \in 1..Len(d) : d[i] \in Entry
    OBVIOUS
  <1>1. /\ Len(d) \in Nat
        /\ DOMAIN d = 1..Len(d)
        /\ \A i \in 1..Len(d) : d[i].block \in Block
    BY <1>0 DEF Entry
  <1>2. Blocks(d) = [i \in 1..Len(d) |-> d[i].block]
    BY <1>1 DEF Blocks
  <1> QED BY <1>1, <1>2

\* A sequence without its last element.
LEMMA FrontProperties ==
    ASSUME NEW S, NEW s \in Seq(S), Len(s) >= 1
    PROVE  /\ Front(s) \in Seq(S)
           /\ Len(Front(s)) = Len(s) - 1
           /\ \A i \in 1..Len(s) - 1 : Front(s)[i] = s[i]
  <1> DEFINE n == Len(s) - 1
  <1>1. n \in Nat /\ n + 1 = Len(s)
    OBVIOUS
  <1>2. \A i \in 1..n : s[i] \in S
    BY <1>1
  <1>3. /\ SubSeq(s, 1, n) \in Seq(S)
        /\ Len(SubSeq(s, 1, n)) = IF 1 <= n THEN n - 1 + 1 ELSE 0
        /\ \A i \in 1..n - 1 + 1 : SubSeq(s, 1, n)[i] = s[1 + i - 1]
    BY <1>1, <1>2, SubSeqProperties
  <1> HIDE DEF n
  <1>4. \A i \in 1..n : SubSeq(s, 1, n)[i] = s[i]
    BY <1>1, <1>3
  <1>5. Len(SubSeq(s, 1, n)) = n
    BY <1>1, <1>3
  <1> QED BY <1>1, <1>3, <1>4, <1>5 DEF Front, n

\* A prefix of a sequence.
LEMMA PrefixProperties ==
    ASSUME NEW S, NEW s \in Seq(S), NEW n \in 0..Len(s)
    PROVE  /\ SubSeq(s, 1, n) \in Seq(S)
           /\ Len(SubSeq(s, 1, n)) = n
           /\ \A i \in 1..n : SubSeq(s, 1, n)[i] = s[i]
  <1>1. /\ SubSeq(s, 1, n) \in Seq(S)
        /\ Len(SubSeq(s, 1, n)) = IF 1 <= n THEN n - 1 + 1 ELSE 0
        /\ \A i \in 1..n - 1 + 1 : SubSeq(s, 1, n)[i] = s[1 + i - 1]
    BY SubSeqProperties
  <1>2. \A i \in 1..n : SubSeq(s, 1, n)[i] = s[i]
    BY <1>1
  <1>3. Len(SubSeq(s, 1, n)) = n
    BY <1>1
  <1> QED BY <1>1, <1>2, <1>3

\* Prefixes of two sequences that agree on them are the same.
LEMMA SamePrefix ==
    ASSUME NEW S, NEW s \in Seq(S), NEW t \in Seq(S), NEW n \in Nat,
           n <= Len(s), n <= Len(t), \A i \in 1..n : s[i] = t[i]
    PROVE  SubSeq(s, 1, n) = SubSeq(t, 1, n)
  <1>1. n \in 0..Len(s) /\ n \in 0..Len(t)
    OBVIOUS
  <1>2. /\ SubSeq(s, 1, n) \in Seq(S)
        /\ Len(SubSeq(s, 1, n)) = n
        /\ \A i \in 1..n : SubSeq(s, 1, n)[i] = s[i]
    BY <1>1, PrefixProperties
  <1>3. /\ SubSeq(t, 1, n) \in Seq(S)
        /\ Len(SubSeq(t, 1, n)) = n
        /\ \A i \in 1..n : SubSeq(t, 1, n)[i] = t[i]
    BY <1>1, PrefixProperties
  <1> QED BY <1>2, <1>3, SeqEqual

\* The first block of a list, and the others.
LEMMA HeadAndTail ==
    ASSUME NEW S, NEW s \in Seq(S), s # <<>>
    PROVE  /\ Head(s) \in S
           /\ Tail(s) \in Seq(S)
           /\ s = <<Head(s)>> \o Tail(s)
           /\ Len(s) # 1 => Tail(s) # <<>>
  <1>1. /\ Head(s) \in S
        /\ Tail(s) \in Seq(S)
        /\ Len(Tail(s)) = Len(s) - 1
        /\ \A i \in 1..Len(Tail(s)) : Tail(s)[i] = s[i + 1]
    BY HeadTailProperties
  <1>2. Len(s) \in Nat /\ Len(s) >= 1 /\ Head(s) = s[1]
    OBVIOUS
  <1>3. Len(s) # 1 => Tail(s) # <<>>
    <2> DEFINE t == Tail(s)
    <2>1. Len(t) = Len(s) - 1
      BY <1>1
    <2> HIDE DEF t
    <2>2. Len(s) # 1 => Len(t) # 0
      BY <2>1, <1>2
    <2>3. t = <<>> => Len(t) = 0
      OBVIOUS
    <2> QED BY <2>2, <2>3 DEF t
  <1>4. SubSeq(s, 1, Len(s)) = <<s[1]>> \o SubSeq(s, 2, Len(s))
    <2>1. 1 \in 1..Len(s) /\ Len(s) \in 1..Len(s) /\ 1 + 1 = 2
      BY <1>2
    <2> QED BY <2>1, SubSeqRecursiveFirst
  <1>5. SubSeq(s, 1, Len(s)) = s /\ SubSeq(s, 2, Len(s)) = Tail(s)
    BY SubSeqFull, TailIsSubSeq
  <1> QED BY <1>1, <1>2, <1>3, <1>4, <1>5

\* The blocks after a block was added.
LEMMA BlocksAppend ==
    ASSUME NEW d \in Seq(Entry), NEW e \in Entry
    PROVE  /\ Append(d, e) \in Seq(Entry)
           /\ Blocks(Append(d, e)) = Append(Blocks(d), e.block)
  <1>1. /\ Append(d, e) \in Seq(Entry)
        /\ Len(Append(d, e)) = Len(d) + 1
        /\ \A i \in 1..Len(d) : Append(d, e)[i] = d[i]
        /\ Append(d, e)[Len(d) + 1] = e
    BY AppendProperties
  <1>2. e.block \in Block
    BY DEF Entry
  <1>3. /\ Blocks(d) \in Seq(Block)
        /\ Len(Blocks(d)) = Len(d)
        /\ \A i \in 1..Len(d) : Blocks(d)[i] = d[i].block
    BY BlocksType
  <1>4. /\ Blocks(Append(d, e)) \in Seq(Block)
        /\ Len(Blocks(Append(d, e))) = Len(d) + 1
        /\ \A i \in 1..Len(d) + 1 : Blocks(Append(d, e))[i] = Append(d, e)[i].block
    BY <1>1, BlocksType
  <1>5. /\ Append(Blocks(d), e.block) \in Seq(Block)
        /\ Len(Append(Blocks(d), e.block)) = Len(d) + 1
        /\ \A i \in 1..Len(d) : Append(Blocks(d), e.block)[i] = Blocks(d)[i]
        /\ Append(Blocks(d), e.block)[Len(d) + 1] = e.block
    BY <1>2, <1>3, AppendProperties
  <1>6. \A i \in 1..Len(d) + 1 : Blocks(Append(d, e))[i] = Append(Blocks(d), e.block)[i]
    BY <1>1, <1>3, <1>4, <1>5
  <1> QED BY <1>1, <1>4, <1>5, <1>6, SeqEqual

\* The blocks after the tip was popped.
LEMMA BlocksFront ==
    ASSUME NEW d \in Seq(Entry), Len(d) >= 1
    PROVE  /\ Front(d) \in Seq(Entry)
           /\ Len(Front(d)) = Len(d) - 1
           /\ Blocks(Front(d)) = Front(Blocks(d))
  <1>1. /\ Front(d) \in Seq(Entry)
        /\ Len(Front(d)) = Len(d) - 1
        /\ \A i \in 1..Len(d) - 1 : Front(d)[i] = d[i]
    BY FrontProperties
  <1>2. /\ Blocks(d) \in Seq(Block)
        /\ Len(Blocks(d)) = Len(d)
        /\ \A i \in 1..Len(d) : Blocks(d)[i] = d[i].block
    BY BlocksType
  <1>3. /\ Blocks(Front(d)) \in Seq(Block)
        /\ Len(Blocks(Front(d))) = Len(d) - 1
        /\ \A i \in 1..Len(d) - 1 : Blocks(Front(d))[i] = Front(d)[i].block
    BY <1>1, BlocksType
  <1>4. /\ Front(Blocks(d)) \in Seq(Block)
        /\ Len(Front(Blocks(d))) = Len(d) - 1
        /\ \A i \in 1..Len(d) - 1 : Front(Blocks(d))[i] = Blocks(d)[i]
    BY <1>2, FrontProperties
  <1> DEFINE n == Len(d) - 1
  <1>5. ASSUME NEW i \in 1..n
        PROVE  Blocks(Front(d))[i] = Front(Blocks(d))[i]
    <2>1. i \in 1..Len(d) /\ i \in 1..Len(d) - 1
      OBVIOUS
    <2> QED BY <2>1, <1>1, <1>2, <1>3, <1>4
  <1> QED BY <1>1, <1>3, <1>4, <1>5, SeqEqual

-----------------------------------------------------------------------------
(* Chains of blocks *)

\* A block on the tip of a valid chain extends it.
LEMMA ValidAppend ==
    ASSUME NEW bs \in Seq(Block), Valid(bs), NEW b \in Block,
           prev_id(b) = bs[Len(bs)], ConnectsAt(bs, b)
    PROVE  Valid(Append(bs, b))
  <1> DEFINE n == Len(bs)
             cs == Append(bs, b)
  <1>1. /\ cs \in Seq(Block)
        /\ cs # <<>>
        /\ Len(cs) = n + 1
        /\ \A i \in 1..n : cs[i] = bs[i]
        /\ cs[n + 1] = b
    BY AppendProperties
  <1>2. /\ bs # <<>>
        /\ bs[1] = Genesis
        /\ \A i \in 2..n : prev_id(bs[i]) = bs[i - 1]
        /\ \A i \in 1..n : ConnectsAt(SubSeq(bs, 1, i - 1), bs[i])
    BY DEF Valid, Canonical!Valid
  <1>3. n \in Nat /\ n >= 1
    BY <1>2
  <1>4. ASSUME NEW i \in 0..n
        PROVE  SubSeq(cs, 1, i) = SubSeq(bs, 1, i)
    <2>1. i \in Nat /\ i <= Len(cs) /\ i <= Len(bs) /\ \A j \in 1..i : cs[j] = bs[j]
      BY <1>1, <1>3
    <2> HIDE DEF cs
    <2> QED BY <2>1, <1>1, SamePrefix
  <1>5. SubSeq(bs, 1, n) = bs
    BY SubSeqFull
  <1> HIDE DEF n, cs
  <1>6. ASSUME NEW i \in 2..n + 1
        PROVE  prev_id(cs[i]) = cs[i - 1]
    <2>1. CASE i = n + 1
      BY <2>1, <1>1, <1>3 DEF n
    <2>2. CASE i \in 2..n
      <3>1. i \in 1..n /\ i - 1 \in 1..n
        BY <2>2, <1>3
      <3> QED BY <3>1, <2>2, <1>1, <1>2
    <2> QED BY <2>1, <2>2, <1>3
  <1>7. ASSUME NEW i \in 1..n + 1
        PROVE  ConnectsAt(SubSeq(cs, 1, i - 1), cs[i])
    <2>1. i - 1 \in 0..n
      BY <1>3
    <2>2. SubSeq(cs, 1, i - 1) = SubSeq(bs, 1, i - 1)
      BY <2>1, <1>4
    <2>3. CASE i = n + 1
      <3>1. i - 1 = n
        BY <2>3, <1>3
      <3> QED BY <3>1, <2>2, <2>3, <1>1, <1>5
    <2>4. CASE i \in 1..n
      BY <2>2, <2>4, <1>1, <1>2
    <2> QED BY <2>3, <2>4, <1>3
  <1>8. cs[1] = Genesis
    BY <1>1, <1>2, <1>3
  <1> QED BY <1>1, <1>6, <1>7, <1>8 DEF Valid, Canonical!Valid, cs

\* What is left of a valid chain after its upper blocks are popped is valid.
LEMMA ValidPrefix ==
    ASSUME NEW bs \in Seq(Block), Valid(bs), NEW n \in 1..Len(bs)
    PROVE  Valid(SubSeq(bs, 1, n))
  <1> DEFINE cs == SubSeq(bs, 1, n)
  <1>1. /\ cs \in Seq(Block)
        /\ Len(cs) = n
        /\ \A i \in 1..n : cs[i] = bs[i]
    BY PrefixProperties
  <1>2. /\ bs[1] = Genesis
        /\ \A i \in 2..Len(bs) : prev_id(bs[i]) = bs[i - 1]
        /\ \A i \in 1..Len(bs) : ConnectsAt(SubSeq(bs, 1, i - 1), bs[i])
    BY DEF Valid, Canonical!Valid
  <1> HIDE DEF cs
  <1>3. ASSUME NEW i \in 1..n
        PROVE  ConnectsAt(SubSeq(cs, 1, i - 1), cs[i])
    <2>1. /\ i - 1 \in Nat /\ i - 1 <= Len(cs) /\ i - 1 <= Len(bs)
          /\ \A j \in 1..i - 1 : cs[j] = bs[j]
      BY <1>1
    <2>2. SubSeq(cs, 1, i - 1) = SubSeq(bs, 1, i - 1)
      BY <2>1, <1>1, SamePrefix
    <2>3. i \in 1..Len(bs)
      OBVIOUS
    <2> QED BY <2>2, <2>3, <1>1, <1>2
  <1>4. ASSUME NEW i \in 2..n
        PROVE  prev_id(cs[i]) = cs[i - 1]
    <2>1. i \in 1..n /\ i - 1 \in 1..n /\ i \in 2..Len(bs)
      OBVIOUS
    <2> QED BY <2>1, <1>1, <1>2
  <1>5. cs # <<>> /\ cs[1] = Genesis
    BY <1>1, <1>2
  <1> QED BY <1>1, <1>3, <1>4, <1>5 DEF Valid, Canonical!Valid, cs

\* In a valid chain the block after a prefix is accepted in the state of the prefix.
LEMMA ValidNext ==
    ASSUME NEW bs \in Seq(Block), NEW cs \in Seq(Block), bs # <<>>, cs # <<>>,
           Valid(bs \o cs)
    PROVE  prev_id(Head(cs)) = bs[Len(bs)] /\ ConnectsAt(bs, Head(cs))
  <1> DEFINE n == Len(bs)
             all == bs \o cs
  <1>1. /\ all \in Seq(Block)
        /\ Len(all) = n + Len(cs)
        /\ \A i \in 1..n + Len(cs) : all[i] = IF i <= n THEN bs[i] ELSE cs[i - n]
    BY ConcatProperties
  <1>2. n \in Nat /\ n >= 1 /\ Len(cs) \in Nat /\ Len(cs) >= 1 /\ Head(cs) = cs[1]
    OBVIOUS
  <1>3. /\ \A i \in 2..Len(all) : prev_id(all[i]) = all[i - 1]
        /\ \A i \in 1..Len(all) : ConnectsAt(SubSeq(all, 1, i - 1), all[i])
    BY DEF Valid, Canonical!Valid
  <1>4. \A i \in 1..n : all[i] = bs[i]
    <2> HIDE DEF all, n
    <2> QED BY <1>1, <1>2
  <1>5. all[n + 1] = cs[1]
    <2> HIDE DEF all, n
    <2> QED BY <1>1, <1>2
  <1>6. SubSeq(all, 1, n) = SubSeq(bs, 1, n)
    <2>1. n <= Len(all) /\ n <= Len(bs)
      <3> HIDE DEF all
      <3> QED BY <1>1, <1>2
    <2> HIDE DEF all, n
    <2> QED BY <2>1, <1>1, <1>2, <1>4, SamePrefix
  <1>7. SubSeq(bs, 1, n) = bs
    BY SubSeqFull
  <1> HIDE DEF all
  <1>8. n + 1 \in 2..Len(all) /\ n + 1 \in 1..Len(all) /\ n + 1 - 1 = n /\ n \in 1..n
    <2> HIDE DEF n
    <2> QED BY <1>1, <1>2
  <1>9. prev_id(all[n + 1]) = all[n] /\ ConnectsAt(SubSeq(all, 1, n), all[n + 1])
    <2> HIDE DEF n
    <2> QED BY <1>3, <1>8
  <1> QED BY <1>2, <1>4, <1>5, <1>6, <1>7, <1>8, <1>9

\* A chain that is stored with its commitments can be replayed.
LEMMA GoodReplays ==
    ASSUME NEW d \in Seq(Entry), Good(d)
    PROVE  Replays(d)
  <1>1. /\ Len(Blocks(d)) = Len(d)
        /\ DOMAIN d = 1..Len(d)
        /\ \A i \in 1..Len(d) : Blocks(d)[i] = d[i].block
    BY BlocksType
  <1>2. \A i \in 1..Len(d) : ConnectsAt(SubSeq(Blocks(d), 1, i - 1), Blocks(d)[i])
    BY <1>1 DEF Good, Valid, Canonical!Valid
  <1> QED BY <1>1, <1>2 DEF Good, Replays, ConnectsAt

\* What handle_block_to_main_chain writes for a block that was accepted.
Committing(blocks, b) == [block |-> b, state_hash |-> Append(blocks, b)]

\* A block that is accepted extends the chain and its commitments.
LEMMA GoodAppend ==
    ASSUME NEW d \in Seq(Entry), Good(d), NEW b \in Block,
           prev_id(b) = Tip(d), ConnectsAt(Blocks(d), b)
    PROVE  /\ Committing(Blocks(d), b) \in Entry
           /\ Append(d, Committing(Blocks(d), b)) \in Seq(Entry)
           /\ Blocks(Append(d, Committing(Blocks(d), b))) = Append(Blocks(d), b)
           /\ Good(Append(d, Committing(Blocks(d), b)))
  <1> DEFINE bs == Blocks(d)
             cs == Append(bs, b)
             e == Committing(bs, b)
             f == Append(d, e)
  <1>1. /\ bs \in Seq(Block)
        /\ Len(bs) = Len(d)
        /\ DOMAIN d = 1..Len(d)
        /\ \A i \in 1..Len(d) : bs[i] = d[i].block
    BY BlocksType
  <1>2. Valid(bs) /\ bs # <<>>
    BY DEF Good, Valid, Canonical!Valid
  <1>3. Len(d) \in Nat /\ Len(d) >= 1
    BY <1>1, <1>2
  <1>4. /\ cs \in Seq(Block)
        /\ Len(cs) = Len(d) + 1
        /\ \A i \in 1..Len(d) : cs[i] = bs[i]
    BY <1>1, AppendProperties
  <1>5. Tip(d) = bs[Len(bs)]
    BY <1>1, <1>3 DEF Tip
  <1>6. Valid(cs)
    BY <1>1, <1>2, <1>5, ValidAppend
  <1>7. e \in Entry /\ e.block = b /\ e.state_hash = cs
    BY <1>4 DEF Committing, Entry
  <1> HIDE DEF cs, e
  <1>8. f \in Seq(Entry) /\ Blocks(f) = Append(bs, b)
    BY <1>7, BlocksAppend
  <1>9. /\ Len(f) = Len(d) + 1
        /\ \A i \in 1..Len(d) : f[i] = d[i]
        /\ f[Len(d) + 1] = e
    BY <1>7, AppendProperties
  <1> HIDE DEF bs, f
  <1>10. DOMAIN f = 1..Len(d) + 1
    BY <1>8, <1>9
  <1>11. ASSUME NEW i \in 1..Len(d) + 1
         PROVE  f[i].state_hash = SubSeq(cs, 1, i)
    <2>1. CASE i = Len(d) + 1
      <3>1. SubSeq(cs, 1, Len(cs)) = cs
        BY <1>4, SubSeqFull
      <3> QED BY <3>1, <2>1, <1>4, <1>7, <1>9
    <2>2. CASE i \in 1..Len(d)
      <3>1. d[i].state_hash = SubSeq(bs, 1, i)
        BY <2>2, <1>1 DEF Good, bs
      <3>2. i \in Nat /\ i <= Len(cs) /\ i <= Len(bs) /\ \A j \in 1..i : cs[j] = bs[j]
        BY <2>2, <1>1, <1>3, <1>4
      <3>3. SubSeq(cs, 1, i) = SubSeq(bs, 1, i)
        BY <3>2, <1>1, <1>4, SamePrefix
      <3> QED BY <3>1, <3>3, <2>2, <1>9
    <2> QED BY <2>1, <2>2, <1>3
  <1>12. Good(f)
    BY <1>6, <1>8, <1>10, <1>11 DEF Good, cs
  <1> QED BY <1>7, <1>8, <1>12 DEF f, e, bs

\* A chain that has lost its tip is still one with its commitments.
LEMMA GoodFront ==
    ASSUME NEW d \in Seq(Entry), Good(d), Len(d) > 1
    PROVE  Good(Front(d))
  <1> DEFINE bs == Blocks(d)
             f == Front(d)
             n == Len(d) - 1
  <1>1. /\ bs \in Seq(Block)
        /\ Len(bs) = Len(d)
        /\ DOMAIN d = 1..Len(d)
    BY BlocksType
  <1>2. Len(d) \in Nat /\ n \in 1..Len(d) /\ n = Len(d) - 1
    OBVIOUS
  <1>3. /\ f \in Seq(Entry)
        /\ Len(f) = n
        /\ Blocks(f) = Front(bs)
    BY BlocksFront
  <1>4. \A i \in 1..n : f[i] = d[i]
    BY FrontProperties
  <1>5. Front(bs) = SubSeq(bs, 1, n)
    BY <1>1 DEF Front
  <1> HIDE DEF bs, f, n
  <1>6. Valid(Front(bs))
    BY <1>1, <1>2, <1>5, ValidPrefix DEF Good, bs
  <1>7. /\ SubSeq(bs, 1, n) \in Seq(Block)
        /\ Len(SubSeq(bs, 1, n)) = n
        /\ \A i \in 1..n : SubSeq(bs, 1, n)[i] = bs[i]
    BY <1>1, <1>2, PrefixProperties
  <1>8. ASSUME NEW i \in 1..n
        PROVE  f[i].state_hash = SubSeq(Front(bs), 1, i)
    <2>1. i \in 1..Len(d) /\ i \in Nat /\ i <= n /\ i <= Len(bs)
      BY <1>1, <1>2
    <2>2. \A j \in 1..i : SubSeq(bs, 1, n)[j] = bs[j]
      BY <2>1, <1>2, <1>7
    <2>3. SubSeq(Front(bs), 1, i) = SubSeq(bs, 1, i)
      BY <2>1, <2>2, <1>1, <1>5, <1>7, SamePrefix
    <2>4. d[i].state_hash = SubSeq(bs, 1, i)
      BY <2>1, <1>1 DEF Good, bs
    <2> QED BY <2>3, <2>4, <1>4
  <1>9. DOMAIN f = 1..n
    BY <1>2, <1>3
  <1> QED BY <1>3, <1>6, <1>8, <1>9 DEF Good, f

-----------------------------------------------------------------------------
(* The steps that procedures are made of *)

\* The failures of the database that the code does not recover from before a restart.
FailuresHandled == Faults \cap {"pop_block", "batch_stop"} = {}

\* The types, one by one.
LEMMA TypeFacts ==
    TypeOK <=> /\ db \in Seq(Entry)
               /\ batch \in Seq(Entry)
               /\ m_batch_success \in BOOLEAN
               /\ coordinator \in Seq(Block)
               /\ journals \in 0..max_recent_undo_blocks
               /\ pc \in {"idle", "incoming", "switch", "connect", "unwind", "restore",
                          "cleanup", "pop", "down", "halted"}
               /\ alt_chain \in Seq(Block)
               /\ disconnected_chain \in Seq(Block)
               /\ target_height \in Nat
  BY DEF TypeOK, Entry

\* The journals never exceed their window.
LEMMA WindowRange ==
    ASSUME NEW n \in Nat
    PROVE  /\ Window(n) \in 0..max_recent_undo_blocks
           /\ n > 0 => Window(n) > 0
  BY BlockchainAssumption DEF Window

\* AddBlock keeps the coordinator and the chain together.
LEMMA AddBlockStep ==
    ASSUME TypeOK, NEW b \in Block, AddBlock(b)
    PROVE  /\ batch' \in Seq(Entry)
           /\ coordinator' \in Seq(Block)
           /\ journals' \in 0..max_recent_undo_blocks
           /\ db' = db
           /\ m_batch_success' = m_batch_success
           /\ Len(batch') = Len(batch) + 1
           /\ coordinator = Blocks(batch) /\ Good(batch) =>
                 /\ coordinator' = Blocks(batch')
                 /\ Good(batch')
                 /\ Blocks(batch') = Append(Blocks(batch), b)
  <1> DEFINE e == Committing(coordinator, b)
  <1>1. /\ batch \in Seq(Entry)
        /\ coordinator \in Seq(Block)
        /\ journals \in 0..max_recent_undo_blocks
    BY TypeFacts
  <1>2. /\ prev_id(b) = Tip(batch)
        /\ check_block(Len(batch), b)
        /\ Connects(coordinator, b)
        /\ coordinator' = Append(coordinator, b)
        /\ journals' = Window(journals + 1)
        /\ batch' = Append(batch, e)
        /\ db' = db
        /\ m_batch_success' = m_batch_success
    BY DEF AddBlock, Accepted, Committing
  <1>3. coordinator' \in Seq(Block)
    BY <1>1, <1>2, AppendProperties
  <1>4. e \in Entry
    BY <1>2, <1>3 DEF Committing, Entry
  <1> HIDE DEF e
  <1>5. batch' \in Seq(Entry) /\ Len(batch') = Len(batch) + 1
    BY <1>1, <1>2, <1>4, AppendProperties
  <1>6. journals + 1 \in Nat
    BY <1>1, BlockchainAssumption
  <1>7. journals' \in 0..max_recent_undo_blocks
    BY <1>2, <1>6, WindowRange
  <1>8. ASSUME coordinator = Blocks(batch), Good(batch)
        PROVE  /\ coordinator' = Blocks(batch')
               /\ Good(batch')
               /\ Blocks(batch') = Append(Blocks(batch), b)
    <2>1. ConnectsAt(Blocks(batch), b) /\ e = Committing(Blocks(batch), b)
      BY <1>1, <1>2, <1>8, BlocksType DEF e, ConnectsAt
    <2>2. /\ Blocks(Append(batch, e)) = Append(Blocks(batch), b)
          /\ Good(Append(batch, e))
      BY <2>1, <1>1, <1>2, <1>8, GoodAppend
    <2> QED BY <2>2, <1>2, <1>8
  <1> QED BY <1>2, <1>3, <1>5, <1>7, <1>8

\* An exception of add_block dooms the batch.
LEMMA AddBlockThrowsStep ==
    ASSUME TypeOK, NEW b \in Block, AddBlockThrows(b)
    PROVE  /\ batch' \in Seq(Entry)
           /\ coordinator' = coordinator
           /\ journals' \in 0..max_recent_undo_blocks
           /\ db' = db
           /\ m_batch_success' = FALSE
  <1> DEFINE e == [block |-> b, state_hash |-> NoCommitment]
  <1>1. /\ batch \in Seq(Entry)
        /\ journals \in 0..max_recent_undo_blocks
    BY TypeFacts
  <1>2. /\ batch' \in {batch, Append(batch, e)}
        /\ m_batch_success' = FALSE
        /\ journals' = Window(journals + 1) - 1
        /\ db' = db
        /\ coordinator' = coordinator
    BY DEF AddBlockThrows
  <1>3. e \in Entry
    BY DEF Entry, NoCommitment
  <1> HIDE DEF e
  <1>4. batch' \in Seq(Entry)
    BY <1>1, <1>2, <1>3, AppendProperties
  <1>5. journals + 1 \in Nat /\ journals + 1 > 0
    BY <1>1, BlockchainAssumption
  <1>6. Window(journals + 1) \in 0..max_recent_undo_blocks /\ Window(journals + 1) > 0
    BY <1>5, WindowRange
  <1>7. journals' \in 0..max_recent_undo_blocks
    BY <1>2, <1>6, BlockchainAssumption
  <1> QED BY <1>2, <1>4, <1>7

\* PopBlock keeps the coordinator and the chain together, also when it has to replay.
LEMMA PopBlockStep ==
    ASSUME TypeOK, PopBlock
    PROVE  /\ Len(batch) > 1
           /\ batch' = Front(batch)
           /\ batch' \in Seq(Entry)
           /\ coordinator' \in Seq(Block)
           /\ journals' \in 0..max_recent_undo_blocks
           /\ db' = db
           /\ m_batch_success' = m_batch_success
           /\ coordinator = Blocks(batch) /\ Good(batch) =>
                 coordinator' = Blocks(batch') /\ Good(batch')
  <1> DEFINE f == Front(batch)
             n == Len(batch) - 1
  <1>1. /\ batch \in Seq(Entry)
        /\ coordinator \in Seq(Block)
        /\ journals \in 0..max_recent_undo_blocks
    BY TypeFacts
  <1>2. /\ Len(batch) > 1
        /\ batch' = f
        /\ rollback_epose_block(n, f)
        /\ db' = db
        /\ m_batch_success' = m_batch_success
    BY DEF PopBlock
  <1>3. f \in Seq(Entry) /\ Len(f) = n /\ Blocks(f) = Front(Blocks(batch))
    BY <1>1, <1>2, BlocksFront
  <1>4. Blocks(f) \in Seq(Block)
    BY <1>3, BlocksType
  <1>5. n \in Nat /\ n >= 1
    BY <1>1, <1>2
  <1> HIDE DEF f, n
  <1>6. CASE Len(coordinator) - 1 # n
    <2>1. coordinator' = coordinator /\ journals' = journals
      BY <1>2, <1>6 DEF rollback_epose_block
    <2>2. coordinator # Blocks(batch)
      BY <1>1, <1>6, BlocksType DEF n
    <2> QED BY <2>1, <2>2, <1>1, <1>2, <1>3 DEF f
  <1>7. CASE Len(coordinator) - 1 = n /\ journals = 0
    <2>1. rebuild_epose_state(f)
      BY <1>2, <1>7 DEF rollback_epose_block
    <2>2. CASE Replays(f)
      <3>1. coordinator' = Blocks(f) /\ journals' = Window(n)
        BY <2>1, <2>2, <1>3 DEF rebuild_epose_state
      <3>2. journals' \in 0..max_recent_undo_blocks
        BY <3>1, <1>5, WindowRange
      <3>3. Good(batch) => Good(f)
        BY <1>1, <1>2, GoodFront DEF f
      <3> QED BY <3>1, <3>2, <3>3, <1>2, <1>3, <1>4 DEF f
    <2>3. CASE ~ Replays(f)
      <3>1. coordinator' = coordinator /\ journals' = journals
        BY <2>1, <2>3 DEF rebuild_epose_state
      <3>2. ~ Good(batch)
        BY <2>3, <1>1, <1>2, <1>3, GoodFront, GoodReplays DEF f
      <3> QED BY <3>1, <3>2, <1>1, <1>2, <1>3 DEF f
    <2> QED BY <2>2, <2>3
  <1>8. CASE Len(coordinator) - 1 = n /\ journals # 0
    <2>1. coordinator' = Front(coordinator) /\ journals' = journals - 1
      BY <1>2, <1>8 DEF rollback_epose_block
    <2>2. coordinator' \in Seq(Block)
      BY <2>1, <1>1, <1>5, <1>8, FrontProperties
    <2>3. journals' \in 0..max_recent_undo_blocks
      BY <2>1, <1>1, <1>8, BlockchainAssumption
    <2>4. coordinator = Blocks(batch) /\ Good(batch) => coordinator' = Blocks(f) /\ Good(f)
      BY <2>1, <1>1, <1>2, <1>3, GoodFront DEF f
    <2> QED BY <2>2, <2>3, <2>4, <1>2, <1>3 DEF f
  <1> QED BY <1>6, <1>7, <1>8

-----------------------------------------------------------------------------
(* The inductive invariant *)

\* The types of the next state, one by one.
LEMMA NextTypes ==
    ASSUME db' \in Seq(Entry), batch' \in Seq(Entry), m_batch_success' \in BOOLEAN,
           coordinator' \in Seq(Block), journals' \in 0..max_recent_undo_blocks,
           pc' \in {"idle", "incoming", "switch", "connect", "unwind", "restore",
                    "cleanup", "pop", "down", "halted"},
           alt_chain' \in Seq(Block), disconnected_chain' \in Seq(Block),
           target_height' \in Nat
    PROVE  TypeOK'
  BY DEF TypeOK, Entry

\* The node starts from a chain of one block that can be replayed.
LEMMA InitIInv == Init => IInv
  <1> SUFFICES ASSUME Init PROVE IInv
    OBVIOUS
  <1> DEFINE e == [block |-> Genesis, state_hash |-> <<Genesis>>]
  <1>1. Genesis \in Block /\ <<Genesis>> \in Seq(Block)
    BY BlockchainAssumption
  <1>2. e \in Entry /\ e.block = Genesis /\ e.state_hash = <<Genesis>>
    BY <1>1 DEF Entry
  <1>3. /\ db = <<e>> /\ batch = <<e>> /\ m_batch_success = TRUE /\ coordinator = <<>>
        /\ journals = 0 /\ pc = "down" /\ alt_chain = <<>> /\ disconnected_chain = <<>>
        /\ target_height = 0
    BY DEF Init
  <1> HIDE DEF e
  <1>4. <<e>> \in Seq(Entry) /\ Len(<<e>>) = 1 /\ <<e>>[1] = e
    BY <1>2
  <1>5. Blocks(<<e>>) \in Seq(Block) /\ Len(Blocks(<<e>>)) = 1 /\ Blocks(<<e>>)[1] = Genesis
    <2> DEFINE d == <<e>>
    <2>1. d \in Seq(Entry) /\ Len(d) = 1 /\ d[1].block = Genesis
      BY <1>2, <1>4
    <2> HIDE DEF d
    <2>2. /\ Blocks(d) \in Seq(Block)
          /\ Len(Blocks(d)) = Len(d)
          /\ \A i \in 1..Len(d) : Blocks(d)[i] = d[i].block
      BY <2>1, BlocksType
    <2>3. Blocks(d) \in Seq(Block) /\ Len(Blocks(d)) = 1 /\ Blocks(d)[1] = Genesis
      BY <2>1, <2>2
    <2> QED BY <2>3 DEF d
  <1>6. Blocks(<<e>>) = <<Genesis>>
    BY <1>1, <1>5, SeqEqual
  <1>7. SubSeq(<<Genesis>>, 1, 0) = <<>>
    BY SubSeqEmpty
  <1>8. SubSeq(<<Genesis>>, 1, 1) = <<Genesis>>
    BY <1>1, SubSeqFull
  <1>9. Valid(<<Genesis>>)
    <2>1. <<Genesis>> # <<>> /\ <<Genesis>>[1] = Genesis /\ Len(<<Genesis>>) = 1
      OBVIOUS
    <2>2. ASSUME NEW i \in 1..1
          PROVE  ConnectsAt(SubSeq(<<Genesis>>, 1, i - 1), <<Genesis>>[i])
      <3>1. i = 1 /\ i - 1 = 0
        OBVIOUS
      <3>2. ConnectsAt(<<>>, Genesis)
        BY BlockchainAssumption DEF ConnectsAt, check_block
      <3> QED BY <3>1, <3>2, <2>1, <1>7
    <2>3. \A i \in 2..1 : prev_id(<<Genesis>>[i]) = <<Genesis>>[i - 1]
      OBVIOUS
    <2> QED BY <2>1, <2>2, <2>3 DEF Valid, Canonical!Valid
  <1>10. ASSUME NEW i \in DOMAIN <<e>>
         PROVE  <<e>>[i].state_hash = SubSeq(Blocks(<<e>>), 1, i)
    <2>1. i = 1
      BY <1>4
    <2> QED BY <2>1, <1>2, <1>4, <1>6, <1>8
  <1>11. Good(db)
    BY <1>3, <1>6, <1>9, <1>10 DEF Good
  <1>12. TypeOK
    BY <1>3, <1>4, TypeFacts, BlockchainAssumption
  <1> QED BY <1>3, <1>11, <1>12 DEF IInv, IdleCoordinatorCanonical, Follows, Restorable

\* A batch is opened.
LEMMA PrepareIInv ==
    ASSUME IInv, Prepare
    PROVE  IInv'
  <1>1. /\ pc = "idle" /\ pc' = "incoming" /\ batch' = db /\ m_batch_success' = TRUE
        /\ db' = db /\ coordinator' = coordinator /\ journals' = journals
        /\ alt_chain' = alt_chain /\ disconnected_chain' = disconnected_chain
        /\ target_height' = target_height
    BY DEF Prepare, switchVars
  <1>2. TypeOK /\ Good(db) /\ coordinator = Blocks(db)
    BY <1>1 DEF IInv, IdleCoordinatorCanonical
  <1>3. TypeOK'
    BY <1>1, <1>2, TypeFacts, NextTypes
  <1> QED BY <1>1, <1>2, <1>3 DEF IInv, IdleCoordinatorCanonical, Follows, Restorable

\* A block enters at the tip, or ends the batch.
LEMMA AddToTipIInv ==
    ASSUME IInv, NEW b \in Block, AddToTip(b)
    PROVE  IInv'
  <1>1. /\ pc = "incoming" /\ alt_chain' = alt_chain
        /\ disconnected_chain' = disconnected_chain /\ target_height' = target_height
    BY DEF AddToTip, switchVars
  <1>2. /\ TypeOK /\ Good(db)
        /\ m_batch_success => coordinator = Blocks(batch) /\ Good(batch)
    BY <1>1 DEF IInv, Follows
  <1>3. CASE AddBlock(b) /\ pc' = pc
    <2>1. /\ batch' \in Seq(Entry) /\ coordinator' \in Seq(Block)
          /\ journals' \in 0..max_recent_undo_blocks
          /\ db' = db /\ m_batch_success' = m_batch_success
          /\ coordinator = Blocks(batch) /\ Good(batch) =>
                coordinator' = Blocks(batch') /\ Good(batch')
      BY <1>2, <1>3, AddBlockStep
    <2>2. TypeOK'
      BY <2>1, <1>1, <1>2, <1>3, TypeFacts, NextTypes
    <2> QED BY <2>1, <2>2, <1>1, <1>2, <1>3
            DEF IInv, IdleCoordinatorCanonical, Follows, Restorable
  <1>4. CASE RefuseBlock(b) /\ pc' = "cleanup"
    <2>1. /\ db' = db /\ batch' = batch /\ m_batch_success' = m_batch_success
          /\ coordinator' = coordinator /\ journals' = journals
      BY <1>4 DEF RefuseBlock
    <2>2. TypeOK'
      BY <2>1, <1>1, <1>2, <1>4, TypeFacts, NextTypes
    <2> QED BY <2>1, <2>2, <1>1, <1>2, <1>4
            DEF IInv, IdleCoordinatorCanonical, Follows, Restorable
  <1>5. CASE AddBlockThrows(b) /\ pc' = "cleanup"
    <2>1. /\ batch' \in Seq(Entry) /\ coordinator' = coordinator
          /\ journals' \in 0..max_recent_undo_blocks
          /\ db' = db /\ m_batch_success' = FALSE
      BY <1>2, <1>5, AddBlockThrowsStep
    <2>2. TypeOK'
      BY <2>1, <1>1, <1>2, <1>5, TypeFacts, NextTypes
    <2> QED BY <2>1, <2>2, <1>1, <1>2, <1>5
            DEF IInv, IdleCoordinatorCanonical, Follows, Restorable
  <1> QED BY <1>3, <1>4, <1>5 DEF AddToTip

\* A switch begins with nothing disconnected.
LEMMA BeginSwitchIInv ==
    ASSUME IInv, NEW chain \in Chains, NEW h \in 1..Len(batch), BeginSwitch(chain, h)
    PROVE  IInv'
  <1>1. /\ pc = "incoming" /\ pc' = "switch" /\ alt_chain' = chain
        /\ disconnected_chain' = <<>> /\ target_height' = target_height
        /\ db' = db /\ batch' = batch /\ m_batch_success' = m_batch_success
        /\ coordinator' = coordinator /\ journals' = journals
    BY DEF BeginSwitch
  <1>2. chain \in Seq(Block) /\ chain # <<>>
    BY DEF Chains
  <1>3. /\ TypeOK /\ Good(db)
        /\ m_batch_success => coordinator = Blocks(batch) /\ Good(batch)
    BY <1>1 DEF IInv, Follows
  <1>4. TypeOK'
    BY <1>1, <1>2, <1>3, TypeFacts, NextTypes
  <1>5. Blocks(batch) \o <<>> = Blocks(batch)
    BY <1>3, TypeFacts, BlocksType, ConcatEmptySeq
  <1>6. Restorable'
    BY <1>1, <1>3, <1>5 DEF Restorable, Base, Good
  <1> QED BY <1>1, <1>2, <1>3, <1>4, <1>6 DEF IInv, IdleCoordinatorCanonical, Follows

\* A switch pops a block and keeps it.
LEMMA SwitchPopIInv ==
    ASSUME IInv, FailuresHandled, SwitchPop
    PROVE  IInv'
  <1>1. /\ PopBlock
        /\ pc = "switch" /\ pc' = pc
        /\ disconnected_chain' = <<Tip(batch)>> \o disconnected_chain
        /\ alt_chain' = alt_chain /\ target_height' = target_height
    BY DEF SwitchPop, PopBlockThrows, FailuresHandled
  <1>2. /\ TypeOK /\ Good(db) /\ alt_chain # <<>>
        /\ m_batch_success => coordinator = Blocks(batch) /\ Good(batch)
        /\ m_batch_success => Valid(Blocks(batch) \o disconnected_chain)
    BY <1>1 DEF IInv, Follows, Restorable, Base
  <1>3. /\ Len(batch) > 1
        /\ batch' = Front(batch) /\ batch' \in Seq(Entry)
        /\ coordinator' \in Seq(Block)
        /\ journals' \in 0..max_recent_undo_blocks
        /\ db' = db /\ m_batch_success' = m_batch_success
        /\ coordinator = Blocks(batch) /\ Good(batch) =>
              coordinator' = Blocks(batch') /\ Good(batch')
    BY <1>1, <1>2, PopBlockStep
  <1> DEFINE bs == Blocks(batch)
             t == Tip(batch)
  <1>4. /\ batch \in Seq(Entry) /\ disconnected_chain \in Seq(Block)
        /\ bs \in Seq(Block) /\ Len(bs) = Len(batch) /\ bs[Len(bs)] = t
    <2>1. batch \in Seq(Entry) /\ disconnected_chain \in Seq(Block)
      BY <1>2, TypeFacts
    <2>2. /\ bs \in Seq(Block) /\ Len(bs) = Len(batch)
          /\ \A i \in 1..Len(batch) : bs[i] = batch[i].block
      BY <2>1, BlocksType
    <2>3. Len(batch) \in 1..Len(batch)
      BY <1>3, <2>1
    <2>4. t = batch[Len(batch)].block
      BY DEF Tip
    <2> HIDE DEF bs, t
    <2> QED BY <2>1, <2>2, <2>3, <2>4
  <1>5. Blocks(batch') = Front(bs)
    BY <1>3, <1>4, BlocksFront
  <1> HIDE DEF bs, t
  <1>6. t \in Block /\ <<t>> \in Seq(Block)
    BY <1>3, <1>4
  <1>7. Front(bs) \in Seq(Block) /\ Front(bs) \o <<t>> = bs
    <2>1. SubSeq(bs, 1, Len(bs)) = SubSeq(bs, 1, Len(bs) - 1) \o <<bs[Len(bs)]>>
      BY <1>3, <1>4, SubSeqRecursiveSecond
    <2>2. SubSeq(bs, 1, Len(bs)) = bs
      BY <1>4, SubSeqFull
    <2>3. Front(bs) \in Seq(Block)
      BY <1>3, <1>4, FrontProperties
    <2> QED BY <2>1, <2>2, <2>3, <1>4 DEF Front
  <1>8. (Front(bs) \o <<t>>) \o disconnected_chain = Front(bs) \o (<<t>> \o disconnected_chain)
    BY <1>4, <1>6, <1>7, ConcatAssociative
  <1>9. disconnected_chain' \in Seq(Block)
    BY <1>1, <1>4, <1>6, ConcatProperties DEF t
  <1>10. TypeOK'
    BY <1>1, <1>2, <1>3, <1>9, TypeFacts, NextTypes
  <1>11. Blocks(batch') \o disconnected_chain' = Blocks(batch) \o disconnected_chain
    BY <1>1, <1>5, <1>7, <1>8 DEF bs, t
  <1>12. Restorable'
    BY <1>1, <1>2, <1>3, <1>11 DEF Restorable, Base
  <1> QED BY <1>1, <1>2, <1>3, <1>10, <1>12 DEF IInv, IdleCoordinatorCanonical, Follows

\* The split is at the tip.
LEMMA SwitchSplitIInv ==
    ASSUME IInv, SwitchSplit
    PROVE  IInv'
  <1>1. /\ pc = "switch" /\ pc' = "connect" /\ target_height' = Len(batch)
        /\ db' = db /\ batch' = batch /\ m_batch_success' = m_batch_success
        /\ coordinator' = coordinator /\ journals' = journals
        /\ alt_chain' = alt_chain /\ disconnected_chain' = disconnected_chain
    BY DEF SwitchSplit
  <1>2. /\ TypeOK /\ Good(db) /\ alt_chain # <<>>
        /\ m_batch_success => coordinator = Blocks(batch) /\ Good(batch)
        /\ m_batch_success => Valid(Blocks(batch) \o disconnected_chain)
    BY <1>1 DEF IInv, Follows, Restorable, Base
  <1>3. /\ Blocks(batch) \in Seq(Block) /\ Len(Blocks(batch)) = Len(batch)
        /\ Len(batch) \in Nat
    BY <1>2, TypeFacts, BlocksType
  <1>4. SubSeq(Blocks(batch), 1, Len(batch)) = Blocks(batch)
    BY <1>3, SubSeqFull
  <1>5. TypeOK'
    BY <1>1, <1>2, <1>3, TypeFacts, NextTypes
  <1>6. m_batch_success => Len(batch) \in 1..Len(batch)
    BY <1>2, <1>3 DEF Good, Valid, Canonical!Valid
  <1>7. Restorable'
    BY <1>1, <1>2, <1>4, <1>6 DEF Restorable, Base
  <1> QED BY <1>1, <1>2, <1>5, <1>7 DEF IInv, IdleCoordinatorCanonical, Follows

\* What lies below the split is not touched by what is connected above it.
LEMMA BaseKept ==
    ASSUME NEW bs \in Seq(Block), NEW cs \in Seq(Block), NEW n \in Nat,
           n <= Len(bs), n <= Len(cs), \A i \in 1..n : bs[i] = cs[i],
           NEW rest, Valid(SubSeq(bs, 1, n) \o rest)
    PROVE  Valid(SubSeq(cs, 1, n) \o rest)
  BY SamePrefix

\* The switch connects a block, or turns back.
LEMMA SwitchConnectIInv ==
    ASSUME IInv, SwitchConnect
    PROVE  IInv'
  <1> DEFINE b == Head(alt_chain)
  <1>1. /\ pc = "connect" /\ alt_chain' = Tail(alt_chain)
        /\ disconnected_chain' = disconnected_chain /\ target_height' = target_height
    BY DEF SwitchConnect
  <1>2. /\ TypeOK /\ Good(db) /\ alt_chain # <<>>
        /\ m_batch_success => coordinator = Blocks(batch) /\ Good(batch)
        /\ m_batch_success => target_height \in 1..Len(batch)
        /\ m_batch_success =>
              Valid(SubSeq(Blocks(batch), 1, target_height) \o disconnected_chain)
    BY <1>1 DEF IInv, Follows, Restorable, Base
  <1>3. alt_chain \in Seq(Block) /\ batch \in Seq(Entry) /\ target_height \in Nat
    BY <1>2, TypeFacts
  <1>4. /\ b \in Block /\ alt_chain' \in Seq(Block)
        /\ Len(alt_chain) # 1 => alt_chain' # <<>>
    BY <1>1, <1>2, <1>3, HeadAndTail
  <1>5. /\ Blocks(batch) \in Seq(Block) /\ Len(Blocks(batch)) = Len(batch)
        /\ Len(batch) \in Nat
    BY <1>3, BlocksType
  <1> HIDE DEF b
  <1>6. CASE AddBlock(b) /\ pc' = IF Len(alt_chain) = 1 THEN "incoming" ELSE "connect"
    <2>1. /\ batch' \in Seq(Entry) /\ coordinator' \in Seq(Block)
          /\ journals' \in 0..max_recent_undo_blocks
          /\ db' = db /\ m_batch_success' = m_batch_success
          /\ Len(batch') = Len(batch) + 1
          /\ coordinator = Blocks(batch) /\ Good(batch) =>
                /\ coordinator' = Blocks(batch')
                /\ Good(batch')
                /\ Blocks(batch') = Append(Blocks(batch), b)
      BY <1>2, <1>4, <1>6, AddBlockStep
    <2>2. pc' \in {"incoming", "connect"} /\ (pc' = "connect" => alt_chain' # <<>>)
      BY <1>4, <1>6
    <2>3. TypeOK'
      BY <2>1, <2>2, <1>1, <1>2, <1>4, TypeFacts, NextTypes
    <2>4. ASSUME m_batch_success
          PROVE  Valid(SubSeq(Blocks(batch'), 1, target_height) \o disconnected_chain)
      <3> DEFINE bs == Blocks(batch)
                 cs == Append(bs, b)
      <3>1. Blocks(batch') = cs
        BY <2>1, <2>4, <1>2
      <3>2. cs \in Seq(Block) /\ Len(cs) = Len(bs) + 1 /\ \A i \in 1..Len(bs) : cs[i] = bs[i]
        BY <1>4, <1>5, AppendProperties
      <3> HIDE DEF bs, cs
      <3>3. /\ bs \in Seq(Block) /\ target_height <= Len(bs)
            /\ Valid(SubSeq(bs, 1, target_height) \o disconnected_chain)
        BY <2>4, <1>2, <1>5 DEF bs
      <3>4. /\ target_height <= Len(cs)
            /\ \A i \in 1..target_height : bs[i] = cs[i]
        BY <3>2, <3>3, <1>3
      <3> QED BY <3>1, <3>2, <3>3, <3>4, <1>3, BaseKept
    <2>5. m_batch_success => target_height \in 1..Len(batch')
      BY <2>1, <1>2, <1>5
    <2>6. Restorable'
      BY <2>1, <2>2, <2>4, <2>5, <1>1 DEF Restorable, Base
    <2> QED BY <2>1, <2>2, <2>3, <2>6, <1>1, <1>2
            DEF IInv, IdleCoordinatorCanonical, Follows
  <1>7. CASE RefuseBlock(b) /\ pc' = "unwind"
    <2>1. /\ db' = db /\ batch' = batch /\ m_batch_success' = m_batch_success
          /\ coordinator' = coordinator /\ journals' = journals
      BY <1>7 DEF RefuseBlock
    <2>2. TypeOK'
      BY <2>1, <1>1, <1>2, <1>4, <1>7, TypeFacts, NextTypes
    <2>3. Restorable'
      BY <2>1, <1>1, <1>2, <1>7 DEF Restorable, Base
    <2> QED BY <2>1, <2>2, <2>3, <1>1, <1>2, <1>7
            DEF IInv, IdleCoordinatorCanonical, Follows
  <1>8. CASE AddBlockThrows(b) /\ pc' = "unwind"
    <2>1. /\ batch' \in Seq(Entry) /\ coordinator' = coordinator
          /\ journals' \in 0..max_recent_undo_blocks
          /\ db' = db /\ m_batch_success' = FALSE
      BY <1>2, <1>4, <1>8, AddBlockThrowsStep
    <2>2. TypeOK'
      BY <2>1, <1>1, <1>2, <1>4, <1>8, TypeFacts, NextTypes
    <2> QED BY <2>1, <2>2, <1>1, <1>2, <1>8
            DEF IInv, IdleCoordinatorCanonical, Follows, Restorable
  <1> QED BY <1>6, <1>7, <1>8 DEF SwitchConnect, b

\* The switch turns back to the split.
LEMMA UnwindPopIInv ==
    ASSUME IInv, FailuresHandled, UnwindPop
    PROVE  IInv'
  <1>1. /\ PopBlock
        /\ pc = "unwind" /\ pc' = pc /\ Len(batch) # target_height
        /\ alt_chain' = alt_chain /\ disconnected_chain' = disconnected_chain
        /\ target_height' = target_height
    BY DEF UnwindPop, PopBlockThrows, FailuresHandled, switchVars
  <1>2. /\ TypeOK /\ Good(db)
        /\ m_batch_success => coordinator = Blocks(batch) /\ Good(batch)
        /\ m_batch_success => target_height \in 1..Len(batch)
        /\ m_batch_success =>
              Valid(SubSeq(Blocks(batch), 1, target_height) \o disconnected_chain)
    BY <1>1 DEF IInv, Follows, Restorable, Base
  <1>3. /\ Len(batch) > 1
        /\ batch' = Front(batch) /\ batch' \in Seq(Entry)
        /\ coordinator' \in Seq(Block)
        /\ journals' \in 0..max_recent_undo_blocks
        /\ db' = db /\ m_batch_success' = m_batch_success
        /\ coordinator = Blocks(batch) /\ Good(batch) =>
              coordinator' = Blocks(batch') /\ Good(batch')
    BY <1>1, <1>2, PopBlockStep
  <1>4. TypeOK'
    BY <1>1, <1>2, <1>3, TypeFacts, NextTypes
  <1> DEFINE bs == Blocks(batch)
             cs == Front(bs)
  <1>5. /\ batch \in Seq(Entry) /\ target_height \in Nat
        /\ bs \in Seq(Block) /\ Len(bs) = Len(batch) /\ Len(bs) \in Nat
    BY <1>2, TypeFacts, BlocksType
  <1>6. Blocks(batch') = cs /\ Len(batch') = Len(batch) - 1
    BY <1>3, <1>5, BlocksFront
  <1>7. /\ cs \in Seq(Block) /\ Len(cs) = Len(bs) - 1
        /\ \A i \in 1..Len(bs) - 1 : cs[i] = bs[i]
    BY <1>3, <1>5, FrontProperties
  <1> HIDE DEF bs, cs
  <1>8. ASSUME m_batch_success
        PROVE  /\ target_height \in 1..Len(batch')
               /\ Valid(SubSeq(cs, 1, target_height) \o disconnected_chain)
    <2>1. target_height \in 1..Len(bs) - 1
      BY <1>1, <1>2, <1>5, <1>8
    <2>2. /\ target_height <= Len(bs) /\ target_height <= Len(cs)
          /\ \A i \in 1..target_height : bs[i] = cs[i]
      BY <2>1, <1>5, <1>7
    <2>3. Valid(SubSeq(bs, 1, target_height) \o disconnected_chain)
      BY <1>2, <1>8 DEF bs
    <2> QED BY <2>1, <2>2, <2>3, <1>5, <1>6, <1>7, BaseKept
  <1>9. Restorable'
    BY <1>1, <1>3, <1>6, <1>8 DEF Restorable, Base
  <1> QED BY <1>1, <1>2, <1>3, <1>4, <1>9 DEF IInv, IdleCoordinatorCanonical, Follows

\* The switch has turned back.
LEMMA UnwindDoneIInv ==
    ASSUME IInv, UnwindDone
    PROVE  IInv'
  <1>1. /\ pc = "unwind" /\ Len(batch) = target_height
        /\ pc' \in {"cleanup", "restore"}
        /\ pc' = "restore" => disconnected_chain # <<>>
        /\ db' = db /\ batch' = batch /\ m_batch_success' = m_batch_success
        /\ coordinator' = coordinator /\ journals' = journals
        /\ alt_chain' = alt_chain /\ disconnected_chain' = disconnected_chain
        /\ target_height' = target_height
    BY DEF UnwindDone, switchVars
  <1>2. /\ TypeOK /\ Good(db)
        /\ m_batch_success => coordinator = Blocks(batch) /\ Good(batch)
        /\ m_batch_success =>
              Valid(SubSeq(Blocks(batch), 1, target_height) \o disconnected_chain)
    BY <1>1 DEF IInv, Follows, Restorable, Base
  <1>3. SubSeq(Blocks(batch), 1, target_height) = Blocks(batch)
    BY <1>1, <1>2, TypeFacts, BlocksType, SubSeqFull
  <1>4. TypeOK'
    BY <1>1, <1>2, TypeFacts, NextTypes
  <1>5. Restorable'
    BY <1>1, <1>2, <1>3 DEF Restorable, Base
  <1> QED BY <1>1, <1>2, <1>4, <1>5 DEF IInv, IdleCoordinatorCanonical, Follows

\* The next block of the original chain goes back on its parent.
LEMMA RestoreIInv ==
    ASSUME IInv, Restore
    PROVE  IInv'
  <1> DEFINE b == Head(disconnected_chain)
             bs == Blocks(batch)
             rest == Tail(disconnected_chain)
  <1>1. /\ pc = "restore" /\ disconnected_chain' = rest
        /\ alt_chain' = alt_chain /\ target_height' = target_height
    BY DEF Restore
  <1>2. /\ TypeOK /\ Good(db) /\ disconnected_chain # <<>>
        /\ m_batch_success => coordinator = Blocks(batch) /\ Good(batch)
        /\ m_batch_success => Valid(bs \o disconnected_chain)
    BY <1>1 DEF IInv, Follows, Restorable, Base
  <1>3. disconnected_chain \in Seq(Block) /\ batch \in Seq(Entry)
    BY <1>2, TypeFacts
  <1>4. /\ b \in Block /\ rest \in Seq(Block)
        /\ disconnected_chain = <<b>> \o rest
        /\ Len(disconnected_chain) # 1 => rest # <<>>
    BY <1>2, <1>3, HeadAndTail
  <1>5. bs \in Seq(Block)
    BY <1>3, BlocksType
  <1> HIDE DEF b, bs, rest
  <1>6. Append(bs, b) \o rest = bs \o disconnected_chain
    <2>1. Append(bs, b) = bs \o <<b>>
      BY <1>4, <1>5, AppendIsConcat
    <2>2. <<b>> \in Seq(Block)
      BY <1>4
    <2>3. (bs \o <<b>>) \o rest = bs \o (<<b>> \o rest)
      BY <2>2, <1>4, <1>5, ConcatAssociative
    <2> QED BY <2>1, <2>3, <1>4
  <1>7. CASE AddBlock(b) /\ pc' = IF Len(disconnected_chain) = 1 THEN "cleanup" ELSE "restore"
    <2>1. /\ batch' \in Seq(Entry) /\ coordinator' \in Seq(Block)
          /\ journals' \in 0..max_recent_undo_blocks
          /\ db' = db /\ m_batch_success' = m_batch_success
          /\ coordinator = Blocks(batch) /\ Good(batch) =>
                /\ coordinator' = Blocks(batch')
                /\ Good(batch')
                /\ Blocks(batch') = Append(Blocks(batch), b)
      BY <1>2, <1>4, <1>7, AddBlockStep
    <2>2. pc' \in {"cleanup", "restore"} /\ (pc' = "restore" => disconnected_chain' # <<>>)
      BY <1>1, <1>4, <1>7
    <2>3. TypeOK'
      BY <2>1, <2>2, <1>1, <1>2, <1>4, TypeFacts, NextTypes
    <2>4. m_batch_success => Valid(Blocks(batch') \o disconnected_chain')
      BY <2>1, <1>1, <1>2, <1>6 DEF bs
    <2>5. Restorable'
      BY <2>1, <2>2, <2>4 DEF Restorable, Base
    <2> QED BY <2>1, <2>2, <2>3, <2>5, <1>1, <1>2
            DEF IInv, IdleCoordinatorCanonical, Follows
  <1>8. CASE RefuseBlock(b) /\ pc' = "cleanup"
    <2>1. /\ db' = db /\ batch' = batch /\ m_batch_success' = m_batch_success
          /\ coordinator' = coordinator /\ journals' = journals
      BY <1>8 DEF RefuseBlock
    <2>2. TypeOK'
      BY <2>1, <1>1, <1>2, <1>4, <1>8, TypeFacts, NextTypes
    <2> QED BY <2>1, <2>2, <1>1, <1>2, <1>8
            DEF IInv, IdleCoordinatorCanonical, Follows, Restorable
  <1>9. CASE AddBlockThrows(b) /\ pc' = "cleanup"
    <2>1. /\ batch' \in Seq(Entry) /\ coordinator' = coordinator
          /\ journals' \in 0..max_recent_undo_blocks
          /\ db' = db /\ m_batch_success' = FALSE
      BY <1>2, <1>4, <1>9, AddBlockThrowsStep
    <2>2. TypeOK'
      BY <2>1, <1>1, <1>2, <1>4, <1>9, TypeFacts, NextTypes
    <2> QED BY <2>1, <2>2, <1>1, <1>2, <1>9
            DEF IInv, IdleCoordinatorCanonical, Follows, Restorable
  <1> QED BY <1>7, <1>8, <1>9 DEF Restore, b

\* The batch is committed, or aborted and the coordinator rebuilt.
LEMMA CleanupIInv ==
    ASSUME IInv, FailuresHandled, Cleanup
    PROVE  IInv'
  <1>1. /\ pc \in {"incoming", "cleanup"} /\ pc' = "idle"
        /\ m_batch_success' = m_batch_success
        /\ alt_chain' = alt_chain /\ disconnected_chain' = disconnected_chain
        /\ target_height' = target_height
    BY DEF Cleanup, switchVars
  <1>2. /\ TypeOK /\ Good(db)
        /\ m_batch_success => coordinator = Blocks(batch) /\ Good(batch)
    BY <1>1 DEF IInv, Follows
  <1>3. db \in Seq(Entry) /\ Len(db) \in Nat
    BY <1>2, TypeFacts
  <1>4. CASE m_batch_success
    <2>1. /\ db' = batch /\ batch' = batch /\ coordinator' = coordinator
          /\ journals' = journals
      BY <1>4 DEF Cleanup, BatchStop, BatchStopThrows, FailuresHandled
    <2>2. TypeOK'
      BY <2>1, <1>1, <1>2, TypeFacts, NextTypes
    <2> QED BY <2>1, <2>2, <1>1, <1>2, <1>4
            DEF IInv, IdleCoordinatorCanonical, Follows, Restorable
  <1>5. CASE ~ m_batch_success
    <2>1. db' = db /\ batch' = db /\ rebuild_epose_state(db)
      BY <1>5 DEF Cleanup
    <2>2. coordinator' = Blocks(db) /\ journals' = Window(Len(db))
      BY <2>1, <1>2, <1>3, GoodReplays DEF rebuild_epose_state
    <2>3. journals' \in 0..max_recent_undo_blocks
      BY <2>2, <1>3, WindowRange
    <2>4. coordinator' \in Seq(Block)
      BY <2>2, <1>3, BlocksType
    <2>5. TypeOK'
      BY <2>1, <2>3, <2>4, <1>1, <1>2, TypeFacts, NextTypes
    <2> QED BY <2>1, <2>2, <2>5, <1>1, <1>2
            DEF IInv, IdleCoordinatorCanonical, Follows, Restorable
  <1> QED BY <1>4, <1>5

\* The operator's command opens a batch of its own.
LEMMA pop_blocksIInv ==
    ASSUME IInv, NEW n \in Nat, pop_blocks(n)
    PROVE  IInv'
  <1>1. /\ pc = "idle" /\ pc' = "pop" /\ batch' = db
        /\ target_height' = IF n < Len(db) THEN Len(db) - n ELSE 1
        /\ db' = db /\ m_batch_success' = m_batch_success /\ coordinator' = coordinator
        /\ journals' = journals /\ alt_chain' = alt_chain
        /\ disconnected_chain' = disconnected_chain
    BY DEF pop_blocks
  <1>2. TypeOK /\ Good(db) /\ coordinator = Blocks(db)
    BY <1>1 DEF IInv, IdleCoordinatorCanonical
  <1>3. target_height' \in Nat
    BY <1>1, <1>2, TypeFacts
  <1>4. TypeOK'
    BY <1>1, <1>2, <1>3, TypeFacts, NextTypes
  <1> QED BY <1>1, <1>2, <1>4 DEF IInv, IdleCoordinatorCanonical, Follows, Restorable

\* It pops ...
LEMMA PopStepIInv ==
    ASSUME IInv, FailuresHandled, PopStep
    PROVE  IInv'
  <1>1. /\ PopBlock /\ pc = "pop" /\ pc' = pc
        /\ alt_chain' = alt_chain /\ disconnected_chain' = disconnected_chain
        /\ target_height' = target_height
    BY DEF PopStep, FailuresHandled, switchVars
  <1>2. TypeOK /\ Good(db) /\ coordinator = Blocks(batch) /\ Good(batch)
    BY <1>1 DEF IInv, Follows
  <1>3. /\ batch' \in Seq(Entry) /\ coordinator' \in Seq(Block)
        /\ journals' \in 0..max_recent_undo_blocks
        /\ db' = db /\ m_batch_success' = m_batch_success
        /\ coordinator' = Blocks(batch') /\ Good(batch')
    BY <1>1, <1>2, PopBlockStep
  <1>4. TypeOK'
    BY <1>1, <1>2, <1>3, TypeFacts, NextTypes
  <1> QED BY <1>1, <1>2, <1>3, <1>4 DEF IInv, IdleCoordinatorCanonical, Follows, Restorable

\* ... and commits.
LEMMA PopDoneIInv ==
    ASSUME IInv, FailuresHandled, PopDone
    PROVE  IInv'
  <1>1. /\ pc = "pop" /\ pc' = "idle" /\ db' = batch /\ batch' = batch
        /\ m_batch_success' = m_batch_success /\ coordinator' = coordinator
        /\ journals' = journals /\ alt_chain' = alt_chain
        /\ disconnected_chain' = disconnected_chain /\ target_height' = target_height
    BY DEF PopDone, BatchStop, BatchStopThrows, FailuresHandled, switchVars
  <1>2. TypeOK /\ coordinator = Blocks(batch) /\ Good(batch)
    BY <1>1 DEF IInv, Follows
  <1>3. TypeOK'
    BY <1>1, <1>2, TypeFacts, NextTypes
  <1> QED BY <1>1, <1>2, <1>3 DEF IInv, IdleCoordinatorCanonical, Follows, Restorable

\* A crash loses the batch and the coordinator.
LEMMA CrashIInv ==
    ASSUME IInv, Crash
    PROVE  IInv'
  <1>1. /\ pc' = "down" /\ batch' = db /\ m_batch_success' = TRUE /\ coordinator' = <<>>
        /\ journals' = 0 /\ alt_chain' = <<>> /\ disconnected_chain' = <<>>
        /\ target_height' = 0 /\ db' = db
    BY DEF Crash
  <1>2. TypeOK /\ Good(db)
    BY DEF IInv
  <1>3. TypeOK'
    <2>1. journals' \in 0..max_recent_undo_blocks /\ target_height' \in Nat
      BY <1>1, BlockchainAssumption
    <2>2. <<>> \in Seq(Block)
      OBVIOUS
    <2> QED BY <2>1, <2>2, <1>1, <1>2, TypeFacts, NextTypes
  <1> QED BY <1>1, <1>2, <1>3 DEF IInv, IdleCoordinatorCanonical, Follows, Restorable

\* A restart replays what was committed, and succeeds.
LEMMA StartIInv ==
    ASSUME IInv, Start
    PROVE  IInv'
  <1>1. /\ pc = "down" /\ rebuild_epose_state(db)
        /\ pc' = IF Replays(db) THEN "idle" ELSE "halted"
        /\ db' = db /\ batch' = batch /\ m_batch_success' = m_batch_success
        /\ alt_chain' = alt_chain /\ disconnected_chain' = disconnected_chain
        /\ target_height' = target_height
    BY DEF Start, switchVars
  <1>2. TypeOK /\ Good(db) /\ batch = db
    BY <1>1 DEF IInv
  <1>3. db \in Seq(Entry) /\ Len(db) \in Nat
    BY <1>2, TypeFacts
  <1>4. pc' = "idle" /\ coordinator' = Blocks(db) /\ journals' = Window(Len(db))
    BY <1>1, <1>2, <1>3, GoodReplays DEF rebuild_epose_state
  <1>5. journals' \in 0..max_recent_undo_blocks
    BY <1>3, <1>4, WindowRange
  <1>6. coordinator' \in Seq(Block)
    BY <1>3, <1>4, BlocksType
  <1>7. TypeOK'
    BY <1>1, <1>2, <1>4, <1>5, <1>6, TypeFacts, NextTypes
  <1> QED BY <1>1, <1>2, <1>4, <1>7 DEF IInv, IdleCoordinatorCanonical, Follows, Restorable

\* Every step keeps the invariant.
LEMMA NextIInv ==
    ASSUME IInv, FailuresHandled, [Next]_vars
    PROVE  IInv'
  <1>1. CASE UNCHANGED vars
    <2>1. /\ db' = db /\ batch' = batch /\ m_batch_success' = m_batch_success
          /\ coordinator' = coordinator /\ journals' = journals /\ pc' = pc
          /\ alt_chain' = alt_chain /\ disconnected_chain' = disconnected_chain
          /\ target_height' = target_height
      BY <1>1 DEF vars
    <2>2. TypeOK'
      BY <2>1, TypeFacts, NextTypes DEF IInv
    <2>3. Restorable'
      BY <2>1 DEF IInv, Restorable, Base
    <2> QED BY <2>1, <2>2, <2>3 DEF IInv, IdleCoordinatorCanonical, Follows
  <1>2. CASE Prepare \/ Cleanup \/ Crash \/ Start
    BY <1>2, PrepareIInv, CleanupIInv, CrashIInv, StartIInv
  <1>3. CASE \E b \in Block : AddToTip(b)
    BY <1>3, AddToTipIInv
  <1>4. CASE \E chain \in Chains : \E h \in 1..Len(batch) : BeginSwitch(chain, h)
    BY <1>4, BeginSwitchIInv
  <1>5. CASE \E n \in Nat : pop_blocks(n)
    BY <1>5, pop_blocksIInv
  <1>6. CASE Procedure
    BY <1>6, SwitchPopIInv, SwitchSplitIInv, SwitchConnectIInv, UnwindPopIInv,
       UnwindDoneIInv, RestoreIInv, PopStepIInv, PopDoneIInv DEF Procedure
  <1> QED BY <1>1, <1>2, <1>3, <1>4, <1>5, <1>6 DEF Next, NextWith

-----------------------------------------------------------------------------
(* Theorems *)

\* The invariant holds in every state of a node whose database fails only in ways
\* that the code handles.
LEMMA ChainInvariant ==
    ASSUME FailuresHandled
    PROVE  Spec => []IInv
  <1>1. IInv /\ [Next]_vars => IInv'
    BY NextIInv
  <1> QED BY <1>1, InitIInv, PTL DEF Spec

\* Every variable of the chain keeps its type; the journals stay in their window
\* (blockchain.cpp:1549, :1656).
THEOREM ChainTypeCorrect ==
    ASSUME FailuresHandled
    PROVE  Spec => []TypeOK
  <1>1. IInv => TypeOK
    BY DEF IInv
  <1> QED BY <1>1, ChainInvariant, PTL

\* Whenever the node is idle its coordinator is the one of the committed chain
\* (cleanup_handle_incoming_blocks and Blockchain::init).
THEOREM CoordinatorIsCanonical ==
    ASSUME FailuresHandled
    PROVE  Spec => []IdleCoordinatorCanonical
  <1>1. IInv => IdleCoordinatorCanonical
    BY DEF IInv
  <1> QED BY <1>1, ChainInvariant, PTL

\* In a batch that is not doomed every block is judged in the state of its parent
\* (handle_block_to_main_chain and pop_block_from_blockchain).
THEOREM CoordinatorFollows ==
    ASSUME FailuresHandled
    PROVE  Spec => []CoordinatorFollowsBatch
  <1>1. IInv => CoordinatorFollowsBatch
    BY DEF IInv, Follows, CoordinatorFollowsBatch
  <1> QED BY <1>1, ChainInvariant, PTL

\* A crash at any point leaves a database that rebuild_epose_state accepts.
THEOREM DatabaseAlwaysReplays ==
    ASSUME FailuresHandled
    PROVE  Spec => []DatabaseReplays
  <1>1. IInv => DatabaseReplays
    <2> SUFFICES ASSUME IInv PROVE Replays(db)
      BY DEF DatabaseReplays
    <2>1. db \in Seq(Entry) /\ Good(db)
      BY TypeFacts DEF IInv
    <2> QED BY <2>1, GoodReplays
  <1> QED BY <1>1, ChainInvariant, PTL

\* The next block of the original chain is accepted on its parent.
LEMMA RestoreAccepted == IInv => RestoreNeverRefused
  <1> SUFFICES ASSUME IInv, pc = "restore", m_batch_success
               PROVE  Accepted(Head(disconnected_chain))
    BY DEF RestoreNeverRefused
  <1>1. /\ TypeOK /\ disconnected_chain # <<>>
        /\ coordinator = Blocks(batch) /\ Good(batch)
        /\ Valid(Blocks(batch) \o disconnected_chain)
    BY DEF IInv, Follows, Restorable, Base
  <1>2. disconnected_chain \in Seq(Block) /\ batch \in Seq(Entry)
    BY <1>1, TypeFacts
  <1> DEFINE bs == Blocks(batch)
  <1>3. /\ bs \in Seq(Block) /\ Len(bs) = Len(batch)
        /\ \A i \in 1..Len(batch) : bs[i] = batch[i].block
    BY <1>2, BlocksType
  <1>4. bs # <<>>
    BY <1>1 DEF Good, Valid, Canonical!Valid
  <1>5. /\ prev_id(Head(disconnected_chain)) = bs[Len(bs)]
        /\ ConnectsAt(bs, Head(disconnected_chain))
    BY <1>1, <1>2, <1>3, <1>4, ValidNext
  <1>6. bs[Len(bs)] = Tip(batch)
    BY <1>2, <1>3, <1>4 DEF Tip
  <1> QED BY <1>1, <1>3, <1>5, <1>6 DEF Accepted, ConnectsAt

\* rollback_blockchain_switching never meets a block of the original chain that
\* handle_block_to_main_chain refuses, however deep the switch went.
THEOREM RestoreSucceeds ==
    ASSUME FailuresHandled
    PROVE  Spec => []RestoreNeverRefused
  BY RestoreAccepted, ChainInvariant, PTL

\* The committed chain changes only at the end of a procedure.
LEMMA CommitStep ==
    ASSUME [Next]_vars
    PROVE  /\ pc' = "idle" \/ db' = db
           /\ pc = "idle" => db' = db
           /\ pc = "idle" /\ pc' = "idle" => coordinator' = coordinator
  <1>1. CASE UNCHANGED vars
    BY <1>1 DEF vars
  <1>2. CASE Prepare \/ Crash \/ Start
    BY <1>2 DEF Prepare, Crash, Start
  <1>3. CASE \E b \in Block : AddToTip(b)
    BY <1>3 DEF AddToTip, AddBlock, RefuseBlock, AddBlockThrows
  <1>4. CASE \E chain \in Chains : \E h \in 1..Len(batch) : BeginSwitch(chain, h)
    BY <1>4 DEF BeginSwitch
  <1>5. CASE \E n \in Nat : pop_blocks(n)
    BY <1>5 DEF pop_blocks
  <1>6. CASE Cleanup
    BY <1>6 DEF Cleanup
  <1>7. CASE Procedure
    <2>1. CASE SwitchPop \/ UnwindPop \/ PopStep
      BY <2>1 DEF SwitchPop, UnwindPop, PopStep, PopBlock
    <2>2. CASE SwitchConnect \/ Restore
      BY <2>2 DEF SwitchConnect, Restore, AddBlock, RefuseBlock, AddBlockThrows
    <2>3. CASE SwitchSplit \/ UnwindDone \/ PopDone
      BY <2>3 DEF SwitchSplit, UnwindDone, PopDone
    <2> QED BY <1>7, <2>1, <2>2, <2>3 DEF Procedure
  <1> QED BY <1>1, <1>2, <1>3, <1>4, <1>5, <1>6, <1>7 DEF Next, NextWith

\* The node implements CanonicalState: it serves the state of a valid canonical
\* chain and of nothing else, through batches, switches, pops and restarts.
THEOREM ChainServesCanonicalState ==
    ASSUME FailuresHandled
    PROVE  Spec => ServesCanonicalState
  <1> DEFINE served == IF pc = "idle" THEN coordinator ELSE <<>>
  <1>1. Init => Canonical!Init
    <2> SUFFICES ASSUME Init PROVE Canonical!Init
      OBVIOUS
    <2>1. Good(db) /\ pc = "down"
      BY InitIInv DEF IInv, Init
    <2> QED BY <2>1 DEF Canonical!Init, Good, Valid
  <1>2. IInv /\ IInv' /\ [Next]_vars => [Canonical!Next]_<<Blocks(db), served>>
    <2> SUFFICES ASSUME IInv, IInv', [Next]_vars
                 PROVE  [Canonical!Next]_<<Blocks(db), served>>
      OBVIOUS
    <2>1. /\ pc' = "idle" \/ db' = db
          /\ pc = "idle" => db' = db
          /\ pc = "idle" /\ pc' = "idle" => coordinator' = coordinator
      BY CommitStep
    <2>2. CASE pc = "idle" /\ pc' # "idle"
      <3>1. coordinator # <<>>
        BY <2>2 DEF IInv, IdleCoordinatorCanonical, Good, Valid, Canonical!Valid
      <3> QED BY <3>1, <2>1, <2>2 DEF Canonical!Next, Canonical!Leave
    <2>3. CASE pc # "idle" /\ pc' = "idle"
      <3>1. coordinator' = Blocks(db') /\ Canonical!Valid(Blocks(db'))
        BY <2>3 DEF IInv, IdleCoordinatorCanonical, Good, Valid
      <3> QED BY <3>1, <2>3 DEF Canonical!Next, Canonical!Settle
    <2>4. CASE (pc = "idle") <=> (pc' = "idle")
      <3>1. db' = db /\ served' = served
        BY <2>1, <2>4
      <3> QED BY <3>1
    <2> QED BY <2>2, <2>3, <2>4
  <1> QED BY <1>1, <1>2, ChainInvariant, PTL
          DEF Spec, ServesCanonicalState, Canonical!Spec

-----------------------------------------------------------------------------
(* Work *)

\* The order of the natural numbers is a well-founded relation.
LEMMA NatOrder ==
    \E R : IsWellFoundedOn(R, Nat) /\ \A x, y \in Nat : x < y => <<x, y>> \in R
<1> DEFINE R == OpToRel(<, Nat)
<1>1. IsWellFoundedOn(R, Nat)
  BY NatLessThanWellFounded
<1>2. \A x, y \in Nat : x < y => <<x, y>> \in R
  BY DEF OpToRel
<1> HIDE DEF R
<1> QED
  BY <1>1, <1>2

\* A set of natural numbers has a least element.
LEMMA LeastElement ==
    ASSUME NEW S \in SUBSET Nat, S # {}
    PROVE  \E i \in S : \A j \in S : i <= j
<1>1. PICK R : IsWellFoundedOn(R, Nat) /\ \A x, y \in Nat : x < y => <<x, y>> \in R
  BY NatOrder
<1>2. PICK i \in S : \A j \in S : ~ (<<j, i>> \in R)
  <2>1. IsWellFoundedOn(R, Nat) /\ S \subseteq Nat
    BY <1>1
  <2> QED
    BY <2>1, WFMin
<1>3. \A j \in S : ~ (j < i)
  BY ZenonT(60), <1>1, <1>2
<1>4. \A j \in S : i <= j
  BY <1>3
<1> QED
  BY <1>4

\* The work of the first n blocks, for every n up to k.
Sums(f, s, k) ==
    f = [n \in 0..k |-> IF n = 0 THEN 0 ELSE f[n - 1] + difficulty(s[n])]

\* There are such sums for every sequence.
LEMMA SumsExist ==
    ASSUME NEW s, NEW n \in Nat
    PROVE  \E f : Sums(f, s, n)
  <1> DEFINE Bad == {k \in Nat : \A f : ~ Sums(f, s, k)}
  <1>1. SUFFICES ASSUME Bad # {} PROVE FALSE
    OBVIOUS
  <1>2. PICK k \in Bad : \A m \in Bad : k <= m
    BY <1>1, LeastElement
  <1>3. k \in Nat /\ \A f : ~ Sums(f, s, k)
    OBVIOUS
  <1>4. CASE k = 0
    <2> DEFINE f == [i \in 0..0 |-> 0]
    <2>1. Sums(f, s, 0)
      BY DEF Sums
    <2> QED BY <1>3, <1>4, <2>1
  <1>5. CASE k # 0
    <2>1. k - 1 \in Nat /\ k - 1 \notin Bad
      BY <1>2, <1>3, <1>5
    <2>2. PICK g : Sums(g, s, k - 1)
      BY <2>1
    <2> DEFINE f == [i \in 0..k |-> IF i < k THEN g[i] ELSE g[k - 1] + difficulty(s[k])]
               h == [i \in 0..k |-> IF i = 0 THEN 0 ELSE f[i - 1] + difficulty(s[i])]
    <2>3. ASSUME NEW i \in 0..k
          PROVE  f[i] = h[i]
      <3>1. CASE i < k
        <4>1. i \in 0..(k - 1) /\ f[i] = g[i]
          BY <1>3, <3>1
        <4>2. g[i] = IF i = 0 THEN 0 ELSE g[i - 1] + difficulty(s[i])
          BY <2>2, <4>1 DEF Sums
        <4>3. i # 0 => f[i - 1] = g[i - 1]
          BY <1>3, <3>1
        <4> QED BY <4>1, <4>2, <4>3
      <3>2. CASE i = k
        <4>1. f[k] = g[k - 1] + difficulty(s[k]) /\ f[k - 1] = g[k - 1]
          BY <1>3, <1>5, <2>1
        <4> QED BY <1>3, <1>5, <3>2, <4>1
      <3> QED BY <1>3, <3>1, <3>2
    <2>4. f = h
      BY <2>3
    <2>5. Sums(f, s, k)
      BY <2>4 DEF Sums
    <2> QED BY <1>3, <2>5
  <1> QED BY <1>4, <1>5

\* The sums of a chain of blocks are natural numbers, and the last one is its work.
LEMMA WorkSums ==
    ASSUME NEW s \in Seq(Block)
    PROVE  \E f : /\ Work(s) = f[Len(s)]
                  /\ f[0] = 0
                  /\ \A n \in 1..Len(s) : f[n] = f[n - 1] + difficulty(s[n])
                  /\ \A n \in 0..Len(s) : f[n] \in Nat
  <1> DEFINE f == CHOOSE f : Sums(f, s, Len(s))
             Bad == {k \in 0..Len(s) : f[k] \notin Nat}
  <1>0. Len(s) \in Nat /\ \A n \in 1..Len(s) : difficulty(s[n]) \in Nat
    BY BlockchainAssumption
  <1>1. Sums(f, s, Len(s))
    BY <1>0, SumsExist
  <1>2. Work(s) = f[Len(s)]
    BY DEF Work, Sums
  <1> HIDE DEF f
  <1>3. \A n \in 0..Len(s) : f[n] = IF n = 0 THEN 0 ELSE f[n - 1] + difficulty(s[n])
    BY <1>1 DEF Sums
  <1>4. f[0] = 0 /\ \A n \in 1..Len(s) : f[n] = f[n - 1] + difficulty(s[n])
    BY <1>0, <1>3
  <1>5. ASSUME Bad # {} PROVE FALSE
    <2>1. Bad \in SUBSET Nat
      BY <1>0
    <2>2. PICK k \in Bad : \A m \in Bad : k <= m
      <3> HIDE DEF Bad
      <3> QED BY <1>5, <2>1, LeastElement
    <2>3. k \in 0..Len(s) /\ f[k] \notin Nat
      OBVIOUS
    <2>4. k # 0
      BY <1>4, <2>3
    <2>5. k \in 1..Len(s) /\ k - 1 \in 0..Len(s) /\ k - 1 \notin Bad
      BY <1>0, <2>2, <2>3, <2>4
    <2>6. f[k - 1] \in Nat
      BY <2>5
    <2>7. f[k] = f[k - 1] + difficulty(s[k]) /\ difficulty(s[k]) \in Nat
      BY <1>0, <1>4, <2>5
    <2> QED BY <2>3, <2>6, <2>7
  <1>6. \A n \in 0..Len(s) : f[n] \in Nat
    BY <1>5
  <1> QED BY <1>2, <1>4, <1>6

\* No blocks have no work.
LEMMA WorkEmpty == Work(<<>>) = 0
  <1>1. <<>> \in Seq(Block) /\ Len(<<>>) = 0
    OBVIOUS
  <1> QED BY <1>1, WorkSums

\* Work is a natural number.
LEMMA WorkType ==
    ASSUME NEW s \in Seq(Block)
    PROVE  Work(s) \in Nat
  <1>1. PICK f : Work(s) = f[Len(s)] /\ \A n \in 0..Len(s) : f[n] \in Nat
    BY WorkSums
  <1>2. Len(s) \in 0..Len(s)
    OBVIOUS
  <1> QED BY <1>1, <1>2

\* A block adds its difficulty to the work below it.
LEMMA WorkAppend ==
    ASSUME NEW s \in Seq(Block), NEW b \in Block
    PROVE  Work(Append(s, b)) = Work(s) + difficulty(b)
  <1> DEFINE t == Append(s, b)
             n == Len(s)
             m == Len(t)
  <1>1. /\ t \in Seq(Block) /\ m = n + 1 /\ t[m] = b
        /\ \A i \in 1..n : t[i] = s[i]
    BY AppendProperties
  <1>2. n \in Nat /\ m \in Nat /\ m \in 1..m /\ m - 1 = n
    BY <1>1
  <1>3. PICK f : /\ Work(s) = f[n] /\ f[0] = 0
                 /\ \A i \in 1..n : f[i] = f[i - 1] + difficulty(s[i])
    BY WorkSums
  <1>4. PICK g : /\ Work(t) = g[m] /\ g[0] = 0
                 /\ \A i \in 1..m : g[i] = g[i - 1] + difficulty(t[i])
    <2> HIDE DEF t
    <2> QED BY <1>1, WorkSums
  <1> HIDE DEF n, m, t
  <1> DEFINE Bad == {k \in 0..n : f[k] # g[k]}
  <1>5. ASSUME Bad # {} PROVE FALSE
    <2>1. Bad \in SUBSET Nat
      BY <1>2
    <2>2. PICK k \in Bad : \A j \in Bad : k <= j
      <3> HIDE DEF Bad
      <3> QED BY <1>5, <2>1, LeastElement
    <2>3. k \in 0..n /\ f[k] # g[k]
      OBVIOUS
    <2>4. k # 0
      BY <1>3, <1>4, <2>3
    <2>5. k \in 1..n /\ k \in 1..m /\ k - 1 \in 0..n /\ k - 1 \notin Bad
      BY <1>1, <1>2, <2>2, <2>3, <2>4
    <2>6. f[k - 1] = g[k - 1]
      BY <2>5
    <2> QED BY <1>1, <1>3, <1>4, <2>3, <2>5, <2>6
  <1>6. f[n] = g[n]
    BY <1>2, <1>5
  <1>7. g[m] = g[m - 1] + difficulty(t[m])
    BY <1>2, <1>4
  <1> QED BY <1>1, <1>2, <1>3, <1>4, <1>6, <1>7 DEF t

\* The work of two chains after each other is the sum of their work.
LEMMA WorkConcat ==
    ASSUME NEW s \in Seq(Block), NEW t \in Seq(Block)
    PROVE  Work(s \o t) = Work(s) + Work(t)
  <1> DEFINE P(k) == SubSeq(t, 1, k)
             Bad == {k \in 0..Len(t) : Work(s \o P(k)) # Work(s) + Work(P(k))}
  <1>0. Len(t) \in Nat /\ P(Len(t)) = t /\ Len(t) \in 0..Len(t)
    BY SubSeqFull
  <1>1. ASSUME Bad # {} PROVE FALSE
    <2>1. Bad \in SUBSET Nat
      BY <1>0
    <2>2. PICK k \in Bad : \A m \in Bad : k <= m
      <3> HIDE DEF Bad
      <3> QED BY <1>1, <2>1, LeastElement
    <2>3. k \in 0..Len(t) /\ Work(s \o P(k)) # Work(s) + Work(P(k))
      OBVIOUS
    <2>4. CASE k = 0
      <3>1. P(0) = <<>>
        BY SubSeqEmpty
      <3>2. s \o <<>> = s
        BY ConcatEmptySeq
      <3>3. Work(s) \in Nat
        BY WorkType
      <3>4. P(k) = <<>>
        BY <2>4, <3>1
      <3>5. Work(s \o P(k)) = Work(s) /\ Work(P(k)) = 0
        BY <3>2, <3>4, WorkEmpty
      <3> HIDE DEF P
      <3> QED BY <2>3, <3>3, <3>5
    <2>5. CASE k # 0
      <3> DEFINE p == P(k - 1)
                 b == t[k]
      <3>1. k \in 1..Len(t) /\ k - 1 \in 0..Len(t) /\ k - 1 \notin Bad
        BY <1>0, <2>2, <2>3, <2>5
      <3>2. p \in Seq(Block) /\ b \in Block /\ <<b>> \in Seq(Block)
        BY <3>1, PrefixProperties
      <3>3. P(k) = p \o <<b>>
        BY <3>1, SubSeqRecursiveSecond
      <3>4. Work(s \o p) = Work(s) + Work(p)
        BY <3>1
      <3> HIDE DEF p, b
      <3>5. P(k) = Append(p, b)
        BY <3>2, <3>3, AppendIsConcat
      <3>6. s \o P(k) = Append(s \o p, b)
        <4>1. s \o (p \o <<b>>) = (s \o p) \o <<b>>
          BY <3>2, ConcatAssociative
        <4>2. s \o p \in Seq(Block)
          BY <3>2, ConcatProperties
        <4> QED BY <3>2, <3>3, <4>1, <4>2, AppendIsConcat
      <3>7. s \o p \in Seq(Block)
        BY <3>2, ConcatProperties
      <3>8. Work(P(k)) = Work(p) + difficulty(b)
        BY <3>2, <3>5, WorkAppend
      <3>9. Work(s \o P(k)) = Work(s \o p) + difficulty(b)
        BY <3>2, <3>6, <3>7, WorkAppend
      <3>10. Work(s) \in Nat /\ Work(p) \in Nat /\ difficulty(b) \in Nat
        BY <3>2, WorkType, BlockchainAssumption
      <3> QED BY <2>3, <3>4, <3>8, <3>9, <3>10
    <2> QED BY <2>4, <2>5
  <1>2. Len(t) \notin Bad
    BY <1>1
  <1> QED BY <1>0, <1>2

\* A chain has at least the work of each of its lower parts, by the work of the rest.
LEMMA WorkPrefix ==
    ASSUME NEW s \in Seq(Block), NEW h \in 1..Len(s)
    PROVE  /\ Work(SubSeq(s, 1, h)) \in Nat
           /\ h < Len(s) => /\ SubSeq(s, h + 1, Len(s)) \in Seq(Block)
                            /\ Work(s) = Work(SubSeq(s, 1, h)) + Work(SubSeq(s, h + 1, Len(s)))
           /\ Work(s) >= Work(SubSeq(s, 1, h))
  <1> DEFINE lower == SubSeq(s, 1, h)
             upper == SubSeq(s, h + 1, Len(s))
  <1>1. lower \in Seq(Block)
    BY PrefixProperties
  <1>2. Work(lower) \in Nat
    BY <1>1, WorkType
  <1>3. CASE h = Len(s)
    <2>1. lower = s
      BY <1>3, SubSeqFull
    <2>2. ~ (h < Len(s))
      BY <1>3
    <2>3. Work(s) >= Work(lower)
      <3> HIDE DEF lower
      <3> QED BY <1>2, <2>1
    <2> HIDE DEF lower
    <2> QED BY <1>2, <2>2, <2>3 DEF lower
  <1>4. CASE h < Len(s)
    <2>1. h \in Nat /\ h + 1 \in Nat /\ Len(s) \in Nat /\ 1 <= h + 1
      OBVIOUS
    <2>2. upper \in Seq(Block)
      <3>1. \A i \in h + 1..Len(s) : s[i] \in Block
        OBVIOUS
      <3> QED BY <2>1, <3>1, SubSeqProperties
    <2>3. s = lower \o upper
      <3>1. SubSeq(s, 1, h) \o SubSeq(s, h + 1, Len(s)) = SubSeq(s, 1, Len(s))
        BY <1>4, ConcatAdjacentSubSeq
      <3> QED BY <3>1, SubSeqFull
    <2>4. Work(lower \o upper) = Work(lower) + Work(upper) /\ Work(upper) \in Nat
      <3> HIDE DEF lower, upper
      <3> QED BY <1>1, <2>2, WorkConcat, WorkType
    <2>5. Work(s) = Work(lower) + Work(upper)
      BY <2>3, <2>4
    <2> HIDE DEF lower, upper
    <2>6. Work(s) >= Work(lower)
      BY <1>2, <2>4, <2>5
    <2> QED BY <1>2, <2>2, <2>5, <2>6 DEF lower, upper
  <1> QED BY <1>3, <1>4

-----------------------------------------------------------------------------
(* The chain that is committed *)

\* Every chain may be replaced by itself.
LEMMA NoWorseSame ==
    ASSUME NEW s \in Seq(Block)
    PROVE  NoWorse(s, s)
  BY WorkType DEF NoWorse

\* What may replace a chain may replace what that chain may replace.
LEMMA NoWorseTransitive ==
    ASSUME NEW s \in Seq(Block), NEW t \in Seq(Block), NEW u \in Seq(Block),
           NoWorse(s, t), NoWorse(t, u)
    PROVE  NoWorse(s, u)
  <1>1. Work(s) \in Nat /\ Work(t) \in Nat /\ Work(u) \in Nat
    BY WorkType
  <1>2. /\ Passed(t) \subseteq Passed(s) /\ Passed(u) \subseteq Passed(t)
        /\ Passed(s) = Passed(t) => Work(s) >= Work(t)
        /\ Passed(t) = Passed(u) => Work(t) >= Work(u)
    BY DEF NoWorse
  <1>3. Passed(u) \subseteq Passed(s)
    BY <1>2
  <1>4. ASSUME Passed(s) = Passed(u)
        PROVE  Work(s) >= Work(u)
    <2>1. Passed(s) = Passed(t) /\ Passed(t) = Passed(u)
      BY <1>2, <1>4
    <2> QED BY <1>1, <1>2, <2>1
  <1> QED BY <1>3, <1>4 DEF NoWorse

\* A block on the tip may replace the chain below it.
LEMMA NoWorseAppend ==
    ASSUME NEW s \in Seq(Block), NEW b \in Block
    PROVE  NoWorse(Append(s, b), s)
  <1>1. /\ Len(Append(s, b)) = Len(s) + 1 /\ Len(s) \in Nat
        /\ \A i \in 1..Len(s) : Append(s, b)[i] = s[i]
    BY AppendProperties
  <1>2. ASSUME NEW p \in Passed(s)
        PROVE  p \in Passed(Append(s, b))
    <2>1. /\ p \in DOMAIN m_points /\ p \in Nat /\ p < Len(s) /\ s[p + 1] = m_points[p]
      BY BlockchainAssumption DEF Passed
    <2>2. p + 1 \in 1..Len(s) /\ p < Len(Append(s, b))
      BY <1>1, <2>1
    <2>3. Append(s, b)[p + 1] = m_points[p]
      BY <1>1, <2>1, <2>2
    <2> QED BY <2>1, <2>2, <2>3 DEF Passed
  <1>3. Work(Append(s, b)) >= Work(s)
    BY WorkAppend, WorkType, BlockchainAssumption
  <1> QED BY <1>2, <1>3 DEF NoWorse

\* The first of the blocks that wait goes on the tip, and the whole stays what it is.
LEMMA MoveHead ==
    ASSUME NEW s \in Seq(Block), NEW t \in Seq(Block), t # <<>>
    PROVE  /\ Head(t) \in Block /\ Tail(t) \in Seq(Block)
           /\ Append(s, Head(t)) \in Seq(Block)
           /\ Append(s, Head(t)) \o Tail(t) = s \o t
           /\ Len(t) = 1 => Append(s, Head(t)) = s \o t
  <1>1. Head(t) \in Block /\ Tail(t) \in Seq(Block) /\ t = <<Head(t)>> \o Tail(t)
    BY HeadAndTail
  <1>2. <<Head(t)>> \in Seq(Block)
    BY <1>1
  <1>3. Append(s, Head(t)) = s \o <<Head(t)>> /\ Append(s, Head(t)) \in Seq(Block)
    BY <1>1, AppendIsConcat, AppendProperties
  <1>4. (s \o <<Head(t)>>) \o Tail(t) = s \o (<<Head(t)>> \o Tail(t))
    BY <1>1, <1>2, ConcatAssociative
  <1>5. ASSUME Len(t) = 1
        PROVE  Append(s, Head(t)) = s \o t
    <2>1. Len(Tail(t)) = 0
      BY <1>5, HeadTailProperties
    <2>2. Tail(t) = <<>>
      BY <1>1, <2>1, EmptySeq
    <2>3. Append(s, Head(t)) \o <<>> = Append(s, Head(t))
      BY <1>3, ConcatEmptySeq
    <2> QED BY <1>1, <1>3, <1>4, <2>2, <2>3
  <1> QED BY <1>1, <1>3, <1>4, <1>5

\* What the batch still has to hold for its commit to leave a chain that is no worse:
\* while a switch runs the original chain can be put back, and so can the alternative
\* chain on the split, which is at the one height that its parent has.
ChainKept ==
    m_batch_success =>
        /\ pc \in {"incoming", "cleanup"} => NoWorse(Blocks(batch), Blocks(db))
        /\ pc \in {"switch", "connect", "unwind", "restore"} =>
              NoWorse(Base \o disconnected_chain, Blocks(db))
        /\ pc = "switch" =>
              \E h \in 1..Len(batch) :
                 /\ StandsAt(batch, h, prev_id(Head(alt_chain)))
                 /\ NoWorse(SubSeq(Blocks(batch), 1, h) \o alt_chain, Blocks(db))
        /\ pc = "connect" => NoWorse(Blocks(batch) \o alt_chain, Blocks(db))

\* The chains of a state are well formed.
LEMMA ChainTypes ==
    ASSUME TypeOK
    PROVE  /\ db \in Seq(Entry) /\ batch \in Seq(Entry)
           /\ alt_chain \in Seq(Block) /\ disconnected_chain \in Seq(Block)
           /\ Blocks(db) \in Seq(Block) /\ Blocks(batch) \in Seq(Block)
           /\ Len(Blocks(batch)) = Len(batch) /\ Len(batch) \in Nat
           /\ DOMAIN batch = 1..Len(batch)
           /\ \A i \in 1..Len(batch) : Blocks(batch)[i] = batch[i].block
  <1>1. /\ db \in Seq(Entry) /\ batch \in Seq(Entry)
        /\ alt_chain \in Seq(Block) /\ disconnected_chain \in Seq(Block)
    BY TypeFacts
  <1> QED BY <1>1, BlocksType

\* A block enters at the tip, or ends the batch.
LEMMA AddToTipKept ==
    ASSUME IInv, ChainKept, NEW b \in Block, AddToTip(b)
    PROVE  ChainKept'
  <1> SUFFICES ASSUME m_batch_success' PROVE ChainKept'
    BY DEF ChainKept
  <1>1. pc = "incoming" /\ pc' \in {"incoming", "cleanup"}
    BY DEF AddToTip
  <1>2. TypeOK
    BY DEF IInv
  <1>3. CASE AddBlock(b)
    <2>1. m_batch_success
      BY <1>3 DEF AddBlock
    <2>2. coordinator = Blocks(batch) /\ Good(batch)
      BY <1>1, <2>1 DEF IInv, Follows
    <2>3. db' = db /\ Blocks(batch') = Append(Blocks(batch), b)
      BY <1>2, <1>3, <2>2, AddBlockStep
    <2>4. NoWorse(Blocks(batch), Blocks(db))
      BY <1>1, <2>1 DEF ChainKept
    <2>5. /\ Blocks(batch) \in Seq(Block) /\ Blocks(db) \in Seq(Block)
          /\ Append(Blocks(batch), b) \in Seq(Block)
      BY <1>2, ChainTypes, AppendProperties
    <2>6. NoWorse(Append(Blocks(batch), b), Blocks(batch))
      BY <2>5, NoWorseAppend
    <2>7. NoWorse(Append(Blocks(batch), b), Blocks(db))
      BY <2>4, <2>5, <2>6, NoWorseTransitive
    <2> QED BY <1>1, <2>3, <2>7 DEF ChainKept
  <1>4. CASE RefuseBlock(b)
    BY <1>1, <1>4 DEF RefuseBlock, ChainKept
  <1>5. CASE AddBlockThrows(b)
    BY <1>5 DEF AddBlockThrows
  <1> QED BY <1>3, <1>4, <1>5 DEF AddToTip

\* An alternative chain that handle_alternative_block switches to keeps every checkpoint
\* that the main chain has passed, and passes another one or has more work.
LEMMA SwitchIsNoWorse ==
    ASSUME TypeOK, NEW chain \in Chains, NEW h \in 1..Len(batch), BeginSwitch(chain, h)
    PROVE  NoWorse(SubSeq(Blocks(batch), 1, h) \o chain, Blocks(batch))
  <1> DEFINE bs == Blocks(batch)
             lower == SubSeq(bs, 1, h)
             upper == SubSeq(bs, h + 1, Len(bs))
             all == lower \o chain
             n == Len(chain)
             k == h + n - 1
  <1>1. /\ bs \in Seq(Block) /\ Len(bs) = Len(batch) /\ Len(batch) \in Nat
    BY ChainTypes
  <1>2. chain \in Seq(Block) /\ n \in Nat /\ n >= 1 /\ DOMAIN chain = 1..n
    BY DEF Chains
  <1>3. /\ is_alternative_block_allowed(Len(batch), k)
        /\ \A i \in DOMAIN chain : check_block(h + i - 1, chain[i])
        /\ \/ k \in DOMAIN m_points
           \/ Work(chain) > Work(SubSeq(bs, h + 1, Len(batch)))
    BY DEF BeginSwitch
  <1> HIDE DEF bs
  <1>4. /\ lower \in Seq(Block) /\ Len(lower) = h
        /\ \A i \in 1..h : lower[i] = bs[i]
    BY <1>1, PrefixProperties
  <1> HIDE DEF lower, n
  <1>5. /\ Len(all) = h + n
        /\ \A i \in 1..h + n : all[i] = IF i <= h THEN lower[i] ELSE chain[i - h]
    BY <1>2, <1>4, ConcatProperties DEF n
  <1> HIDE DEF all
  <1>6. \A p \in DOMAIN m_points : p \in Nat /\ (p <= Len(bs) => p < k)
    BY <1>1, <1>3, BlockchainAssumption DEF is_alternative_block_allowed
  <1>7. ASSUME NEW p \in DOMAIN m_points, p >= h, p < h + n
        PROVE  all[p + 1] = m_points[p]
    <2>1. p \in Nat
      BY <1>6
    <2>2. p + 1 - h \in 1..n /\ h + (p + 1 - h) - 1 = p /\ p + 1 \in 1..h + n /\ ~ (p + 1 <= h)
      BY <1>2, <1>7, <2>1
    <2>3. check_block(p, chain[p + 1 - h])
      BY <1>2, <1>3, <2>2
    <2> QED BY <1>5, <2>2, <2>3 DEF check_block
  <1>8. ASSUME NEW p \in Passed(bs)
        PROVE  p \in Passed(all)
    <2>1. p \in DOMAIN m_points /\ p < Len(bs) /\ bs[p + 1] = m_points[p]
      BY DEF Passed
    <2>2. p \in Nat /\ p < k
      BY <1>1, <1>6, <2>1
    <2>3. p < h + n
      BY <1>2, <2>2
    <2>4. CASE p >= h
      BY <1>5, <1>7, <2>1, <2>3, <2>4 DEF Passed
    <2>5. CASE ~ (p >= h)
      <3>1. p + 1 \in 1..h /\ p + 1 \in 1..h + n /\ p + 1 <= h
        BY <1>2, <2>2, <2>5
      <3>2. all[p + 1] = m_points[p]
        BY <1>4, <1>5, <2>1, <3>1
      <3> QED BY <1>5, <2>1, <2>3, <3>2 DEF Passed
    <2> QED BY <2>4, <2>5
  <1>9. CASE k \in DOMAIN m_points
    <2>1. k \in Passed(all)
      <3>1. k >= h /\ k < h + n
        BY <1>2
      <3> HIDE DEF k
      <3> QED BY <1>5, <1>7, <1>9, <3>1 DEF Passed
    <2>2. k \notin Passed(bs)
      <3>1. k \in Nat
        BY <1>6, <1>9
      <3> HIDE DEF k
      <3> QED BY <1>1, <1>6, <1>9, <3>1 DEF Passed
    <2> HIDE DEF k
    <2> QED BY <1>8, <2>1, <2>2 DEF NoWorse, all, lower, bs
  <1>10. CASE Work(chain) > Work(SubSeq(bs, h + 1, Len(batch)))
    <2>1. Work(all) = Work(lower) + Work(chain)
      BY <1>2, <1>4, WorkConcat DEF all
    <2>2. Work(lower) \in Nat /\ Work(chain) \in Nat /\ Work(bs) \in Nat
      BY <1>1, <1>2, <1>4, WorkType
    <2>3. Work(all) >= Work(bs)
      <3>1. CASE h < Len(bs)
        <4>1. upper \in Seq(Block) /\ Work(bs) = Work(lower) + Work(upper)
          BY <1>1, <3>1, WorkPrefix DEF lower
        <4>2. Work(upper) \in Nat /\ Work(chain) > Work(upper)
          BY <1>1, <1>10, <4>1, WorkType
        <4> HIDE DEF upper
        <4> QED BY <2>1, <2>2, <4>1, <4>2
      <3>2. CASE ~ (h < Len(bs))
        <4>1. h = Len(bs)
          BY <1>1, <3>2
        <4>2. lower = bs
          BY <1>1, <4>1, SubSeqFull DEF lower
        <4> QED BY <2>1, <2>2, <4>2
      <3> QED BY <3>1, <3>2
    <2> QED BY <1>8, <2>3 DEF NoWorse, all, lower, bs
  <1> QED BY <1>3, <1>9, <1>10

\* A switch begins for such a chain.
LEMMA BeginSwitchKept ==
    ASSUME IInv, ChainKept, NEW chain \in Chains, NEW h \in 1..Len(batch),
           BeginSwitch(chain, h)
    PROVE  ChainKept'
  <1> SUFFICES ASSUME m_batch_success' PROVE ChainKept'
    BY DEF ChainKept
  <1> DEFINE bs == Blocks(batch)
             all == SubSeq(bs, 1, h) \o chain
  <1>1. /\ pc = "incoming" /\ pc' = "switch" /\ alt_chain' = chain
        /\ disconnected_chain' = <<>> /\ db' = db /\ batch' = batch
        /\ m_batch_success
        /\ StandsAt(batch, h, prev_id(Head(chain)))
    BY DEF BeginSwitch
  <1>2. TypeOK /\ NoWorse(bs, Blocks(db))
    BY <1>1 DEF IInv, ChainKept
  <1>3. bs \in Seq(Block) /\ Blocks(db) \in Seq(Block) /\ Len(bs) = Len(batch)
    BY <1>2, ChainTypes
  <1>4. NoWorse(all, bs)
    BY <1>2, SwitchIsNoWorse
  <1>5. all \in Seq(Block)
    <2>1. chain \in Seq(Block)
      BY DEF Chains
    <2>2. h \in 0..Len(bs)
      BY <1>3
    <2>3. SubSeq(bs, 1, h) \in Seq(Block)
      BY <1>3, <2>2, PrefixProperties
    <2> QED BY <2>1, <2>3, ConcatProperties
  <1> HIDE DEF all, bs
  <1>6. NoWorse(all, Blocks(db))
    BY <1>2, <1>3, <1>4, <1>5, NoWorseTransitive
  <1>7. Base' \o disconnected_chain' = bs
    BY <1>1, <1>3, ConcatEmptySeq DEF Base, bs
  <1>8. NoWorse(Base' \o disconnected_chain', Blocks(db'))
    BY <1>1, <1>2, <1>7
  <1>9. \E i \in 1..Len(batch') :
           /\ StandsAt(batch', i, prev_id(Head(alt_chain')))
           /\ NoWorse(SubSeq(Blocks(batch'), 1, i) \o alt_chain', Blocks(db'))
    BY <1>1, <1>6 DEF all, bs
  <1> QED BY <1>1, <1>8, <1>9 DEF ChainKept

\* A switch pops a block and keeps it.
LEMMA SwitchPopKept ==
    ASSUME IInv, ChainKept, FailuresHandled, SwitchPop
    PROVE  ChainKept'
  <1> SUFFICES ASSUME m_batch_success' PROVE ChainKept'
    BY DEF ChainKept
  <1>1. /\ PopBlock
        /\ pc = "switch" /\ pc' = pc /\ Tip(batch) # prev_id(Head(alt_chain))
        /\ disconnected_chain' = <<Tip(batch)>> \o disconnected_chain
        /\ alt_chain' = alt_chain
    BY DEF SwitchPop, PopBlockThrows, FailuresHandled
  <1>2. TypeOK
    BY DEF IInv
  <1>3. Len(batch) > 1 /\ batch' = Front(batch) /\ db' = db /\ m_batch_success
    BY <1>1, <1>2, PopBlockStep
  <1> DEFINE bs == Blocks(batch)
             cs == Front(bs)
             t == Tip(batch)
             n == Len(batch) - 1
  <1>4. /\ batch \in Seq(Entry) /\ disconnected_chain \in Seq(Block)
        /\ bs \in Seq(Block) /\ Len(bs) = Len(batch) /\ Len(batch) \in Nat
        /\ DOMAIN batch = 1..Len(batch)
        /\ \A i \in 1..Len(batch) : bs[i] = batch[i].block
    BY <1>2, ChainTypes
  <1>5. /\ Blocks(batch') = cs /\ Len(batch') = n /\ n \in Nat
        /\ DOMAIN batch' = 1..n
        /\ \A i \in 1..n : batch'[i] = batch[i]
    <2>1. Front(batch) \in Seq(Entry) /\ Len(Front(batch)) = n /\ Blocks(Front(batch)) = cs
      BY <1>3, <1>4, BlocksFront
    <2>2. \A i \in 1..n : Front(batch)[i] = batch[i]
      BY <1>3, <1>4, FrontProperties
    <2>3. n \in Nat
      BY <1>3, <1>4
    <2> HIDE DEF cs, n
    <2> QED BY <1>3, <2>1, <2>2, <2>3
  <1>6. /\ cs \in Seq(Block) /\ Len(cs) = n
        /\ \A i \in 1..n : cs[i] = bs[i]
    BY <1>3, <1>4, FrontProperties
  <1>7. t \in Block /\ <<t>> \in Seq(Block) /\ bs[Len(bs)] = t
    <2>1. Len(batch) \in 1..Len(batch)
      BY <1>3, <1>4
    <2>2. bs[Len(batch)] = t
      BY <1>4, <2>1 DEF Tip
    <2> HIDE DEF bs, t
    <2> QED BY <1>4, <2>1, <2>2
  <1>8. cs \o <<t>> = bs
    <2> HIDE DEF bs, t
    <2>1. SubSeq(bs, 1, Len(bs)) = SubSeq(bs, 1, Len(bs) - 1) \o <<bs[Len(bs)]>>
      BY <1>3, <1>4, SubSeqRecursiveSecond
    <2>2. SubSeq(bs, 1, Len(bs)) = bs
      BY <1>4, SubSeqFull
    <2> QED BY <2>1, <2>2, <1>7 DEF Front
  <1>9. cs \o (<<t>> \o disconnected_chain) = bs \o disconnected_chain
    <2> HIDE DEF bs, cs, t
    <2>1. (cs \o <<t>>) \o disconnected_chain = cs \o (<<t>> \o disconnected_chain)
      BY <1>4, <1>6, <1>7, ConcatAssociative
    <2> QED BY <1>8, <2>1
  <1>10. NoWorse(Base' \o disconnected_chain', Blocks(db'))
    <2>1. NoWorse(bs \o disconnected_chain, Blocks(db))
      BY <1>1, <1>3 DEF ChainKept, Base
    <2>2. Base' = cs
      BY <1>1, <1>5 DEF Base
    <2> HIDE DEF bs, cs
    <2> QED BY <1>1, <1>3, <1>9, <2>1, <2>2
  <1>11. PICK h \in 1..Len(batch) :
            /\ StandsAt(batch, h, prev_id(Head(alt_chain)))
            /\ NoWorse(SubSeq(bs, 1, h) \o alt_chain, Blocks(db))
    BY <1>1, <1>3 DEF ChainKept
  <1> HIDE DEF bs, cs
  <1>12. h \in 1..n
    <2>1. batch[h].block = prev_id(Head(alt_chain))
      BY <1>4, <1>11 DEF StandsAt
    <2>2. h # Len(batch)
      BY <1>1, <2>1 DEF Tip
    <2> QED BY <1>4, <2>2
  <1>13. StandsAt(batch', h, prev_id(Head(alt_chain)))
    <2>1. \A i \in 1..n : i \in DOMAIN batch
      BY <1>4
    <2> HIDE DEF n
    <2> QED BY <1>5, <1>11, <2>1 DEF StandsAt
  <1>14. SubSeq(cs, 1, h) = SubSeq(bs, 1, h)
    <2>1. h \in Nat /\ h <= Len(bs) /\ h <= Len(cs) /\ \A i \in 1..h : cs[i] = bs[i]
      BY <1>4, <1>6, <1>12
    <2> QED BY <1>4, <1>6, <2>1, SamePrefix
  <1>15. \E i \in 1..Len(batch') :
            /\ StandsAt(batch', i, prev_id(Head(alt_chain')))
            /\ NoWorse(SubSeq(Blocks(batch'), 1, i) \o alt_chain', Blocks(db'))
    BY <1>1, <1>3, <1>5, <1>11, <1>12, <1>13, <1>14
  <1> QED BY <1>1, <1>10, <1>15 DEF ChainKept

\* The split is found at the tip, which is the height where the chains part.
LEMMA SwitchSplitKept ==
    ASSUME IInv, ChainKept, SwitchSplit
    PROVE  ChainKept'
  <1> SUFFICES ASSUME m_batch_success' PROVE ChainKept'
    BY DEF ChainKept
  <1> DEFINE bs == Blocks(batch)
  <1>1. /\ pc = "switch" /\ pc' = "connect" /\ target_height' = Len(batch)
        /\ Tip(batch) = prev_id(Head(alt_chain))
        /\ db' = db /\ batch' = batch /\ m_batch_success
        /\ alt_chain' = alt_chain /\ disconnected_chain' = disconnected_chain
    BY DEF SwitchSplit
  <1>2. /\ bs \in Seq(Block) /\ Len(bs) = Len(batch) /\ Len(batch) \in Nat
        /\ DOMAIN batch = 1..Len(batch)
    BY ChainTypes DEF IInv
  <1>3. PICK h \in 1..Len(batch) :
            /\ StandsAt(batch, h, prev_id(Head(alt_chain)))
            /\ NoWorse(SubSeq(bs, 1, h) \o alt_chain, Blocks(db))
    BY <1>1 DEF ChainKept
  <1>4. SubSeq(bs, 1, Len(bs)) = bs
    BY <1>2, SubSeqFull
  <1>5. h = Len(bs)
    <2>1. Len(batch) \in DOMAIN batch
      BY <1>2
    <2>2. batch[Len(batch)].block = prev_id(Head(alt_chain))
      BY <1>1 DEF Tip
    <2>3. Len(batch) = h
      BY <1>3, <2>1, <2>2 DEF StandsAt
    <2> QED BY <1>2, <2>3
  <1>6. NoWorse(Blocks(batch') \o alt_chain', Blocks(db'))
    BY <1>1, <1>3, <1>4, <1>5
  <1>7. Base = bs /\ Base' = bs
    BY <1>1, <1>2, <1>4 DEF Base
  <1>8. NoWorse(Base' \o disconnected_chain', Blocks(db'))
    BY <1>1, <1>7 DEF ChainKept
  <1> QED BY <1>1, <1>6, <1>8 DEF ChainKept

\* The switch connects a block, or turns back.
LEMMA SwitchConnectKept ==
    ASSUME IInv, ChainKept, SwitchConnect
    PROVE  ChainKept'
  <1> SUFFICES ASSUME m_batch_success' PROVE ChainKept'
    BY DEF ChainKept
  <1> DEFINE b == Head(alt_chain)
             bs == Blocks(batch)
             cs == Append(bs, b)
  <1>1. /\ pc = "connect" /\ alt_chain' = Tail(alt_chain)
        /\ disconnected_chain' = disconnected_chain /\ target_height' = target_height
    BY DEF SwitchConnect
  <1>2. TypeOK /\ alt_chain # <<>>
    BY <1>1 DEF IInv
  <1>3. /\ alt_chain \in Seq(Block) /\ bs \in Seq(Block) /\ Len(bs) = Len(batch)
        /\ Len(batch) \in Nat
    BY <1>2, ChainTypes
  <1>4. /\ b \in Block /\ cs \in Seq(Block)
        /\ cs \o Tail(alt_chain) = bs \o alt_chain
        /\ Len(alt_chain) = 1 => cs = bs \o alt_chain
    BY <1>2, <1>3, MoveHead
  <1> HIDE DEF b
  <1>5. CASE AddBlock(b) /\ pc' = IF Len(alt_chain) = 1 THEN "incoming" ELSE "connect"
    <2>1. m_batch_success
      BY <1>5 DEF AddBlock
    <2>2. /\ coordinator = Blocks(batch) /\ Good(batch)
          /\ target_height \in 1..Len(batch)
      BY <1>1, <2>1 DEF IInv, Follows, Restorable
    <2>3. db' = db /\ Blocks(batch') = cs
      BY <1>2, <1>4, <1>5, <2>2, AddBlockStep
    <2>4. /\ NoWorse(SubSeq(bs, 1, target_height) \o disconnected_chain, Blocks(db))
          /\ NoWorse(bs \o alt_chain, Blocks(db))
      BY <1>1, <2>1 DEF ChainKept, Base
    <2>5. CASE Len(alt_chain) = 1
      <3>1. pc' = "incoming"
        BY <1>5, <2>5
      <3>2. NoWorse(Blocks(batch'), Blocks(db'))
        BY <1>4, <2>3, <2>4, <2>5
      <3> QED BY <3>1, <3>2 DEF ChainKept
    <2>6. CASE Len(alt_chain) # 1
      <3>1. pc' = "connect"
        BY <1>5, <2>6
      <3>2. NoWorse(Blocks(batch') \o alt_chain', Blocks(db'))
        BY <1>1, <1>4, <2>3, <2>4
      <3>3. SubSeq(cs, 1, target_height) = SubSeq(bs, 1, target_height)
        <4>1. Len(cs) = Len(bs) + 1 /\ \A i \in 1..Len(bs) : cs[i] = bs[i]
          BY <1>3, <1>4, AppendProperties
        <4> HIDE DEF cs, bs
        <4>2. /\ target_height \in Nat /\ target_height <= Len(bs)
              /\ target_height <= Len(cs) /\ \A i \in 1..target_height : cs[i] = bs[i]
          BY <1>3, <2>2, <4>1
        <4> QED BY <1>3, <1>4, <4>2, SamePrefix
      <3>4. Base' = SubSeq(bs, 1, target_height)
        BY <1>1, <2>3, <3>1, <3>3 DEF Base
      <3>5. NoWorse(Base' \o disconnected_chain', Blocks(db'))
        BY <1>1, <2>3, <2>4, <3>4
      <3> QED BY <3>1, <3>2, <3>5 DEF ChainKept
    <2> QED BY <2>5, <2>6
  <1>6. CASE RefuseBlock(b) /\ pc' = "unwind"
    <2>1. db' = db /\ batch' = batch /\ m_batch_success
      BY <1>6 DEF RefuseBlock
    <2>2. Base' = Base
      BY <1>1, <1>6, <2>1 DEF Base
    <2>3. NoWorse(Base \o disconnected_chain, Blocks(db))
      BY <1>1, <2>1 DEF ChainKept
    <2>4. NoWorse(Base' \o disconnected_chain', Blocks(db'))
      BY <1>1, <2>1, <2>2, <2>3
    <2> QED BY <1>6, <2>4 DEF ChainKept
  <1>7. CASE AddBlockThrows(b)
    BY <1>7 DEF AddBlockThrows
  <1> QED BY <1>5, <1>6, <1>7 DEF SwitchConnect, b

\* The switch turns back to the split.
LEMMA UnwindPopKept ==
    ASSUME IInv, ChainKept, FailuresHandled, UnwindPop
    PROVE  ChainKept'
  <1> SUFFICES ASSUME m_batch_success' PROVE ChainKept'
    BY DEF ChainKept
  <1> DEFINE bs == Blocks(batch)
             cs == Front(bs)
  <1>1. /\ PopBlock
        /\ pc = "unwind" /\ pc' = pc /\ Len(batch) # target_height
        /\ disconnected_chain' = disconnected_chain /\ target_height' = target_height
    BY DEF UnwindPop, PopBlockThrows, FailuresHandled, switchVars
  <1>2. TypeOK
    BY DEF IInv
  <1>3. /\ Len(batch) > 1 /\ batch' = Front(batch) /\ db' = db /\ m_batch_success
    BY <1>1, <1>2, PopBlockStep
  <1>4. target_height \in 1..Len(batch)
    BY <1>1, <1>3 DEF IInv, Restorable
  <1>5. /\ batch \in Seq(Entry) /\ bs \in Seq(Block) /\ Len(bs) = Len(batch)
        /\ Len(batch) \in Nat
    BY <1>2, ChainTypes
  <1>6. Blocks(batch') = cs
    BY <1>3, <1>5, BlocksFront
  <1>7. /\ cs \in Seq(Block) /\ Len(cs) = Len(bs) - 1
        /\ \A i \in 1..Len(bs) - 1 : cs[i] = bs[i]
    BY <1>3, <1>5, FrontProperties
  <1>8. SubSeq(cs, 1, target_height) = SubSeq(bs, 1, target_height)
    <2> HIDE DEF bs, cs
    <2>1. /\ target_height \in Nat /\ target_height <= Len(bs)
          /\ target_height <= Len(cs) /\ \A i \in 1..target_height : cs[i] = bs[i]
      BY <1>1, <1>4, <1>5, <1>7
    <2> QED BY <1>5, <1>7, <2>1, SamePrefix
  <1>9. Base' = Base
    BY <1>1, <1>6, <1>8 DEF Base
  <1>10. NoWorse(Base \o disconnected_chain, Blocks(db))
    BY <1>1, <1>3 DEF ChainKept
  <1>11. NoWorse(Base' \o disconnected_chain', Blocks(db'))
    BY <1>1, <1>3, <1>9, <1>10
  <1> QED BY <1>1, <1>11 DEF ChainKept

\* The switch has turned back.
LEMMA UnwindDoneKept ==
    ASSUME IInv, ChainKept, UnwindDone
    PROVE  ChainKept'
  <1> SUFFICES ASSUME m_batch_success' PROVE ChainKept'
    BY DEF ChainKept
  <1> DEFINE bs == Blocks(batch)
  <1>1. /\ pc = "unwind" /\ Len(batch) = target_height
        /\ pc' = IF disconnected_chain = <<>> THEN "cleanup" ELSE "restore"
        /\ db' = db /\ batch' = batch /\ m_batch_success
        /\ disconnected_chain' = disconnected_chain
    BY DEF UnwindDone, switchVars
  <1>2. bs \in Seq(Block) /\ Len(bs) = Len(batch)
    BY ChainTypes DEF IInv
  <1>3. Base = bs
    BY <1>1, <1>2, SubSeqFull DEF Base
  <1>4. NoWorse(bs \o disconnected_chain, Blocks(db))
    BY <1>1, <1>3 DEF ChainKept
  <1>5. CASE disconnected_chain = <<>>
    <2>1. pc' = "cleanup"
      BY <1>1, <1>5
    <2>2. bs \o <<>> = bs
      BY <1>2, ConcatEmptySeq
    <2>3. NoWorse(Blocks(batch'), Blocks(db'))
      BY <1>1, <1>4, <1>5, <2>2
    <2> QED BY <2>1, <2>3 DEF ChainKept
  <1>6. CASE disconnected_chain # <<>>
    <2>1. pc' = "restore" /\ Base' = bs
      BY <1>1, <1>6 DEF Base
    <2>2. NoWorse(Base' \o disconnected_chain', Blocks(db'))
      BY <1>1, <1>4, <2>1
    <2> QED BY <2>1, <2>2 DEF ChainKept
  <1> QED BY <1>5, <1>6

\* The next block of the original chain goes back on its parent; it is not refused.
LEMMA RestoreKept ==
    ASSUME IInv, ChainKept, Restore
    PROVE  ChainKept'
  <1> SUFFICES ASSUME m_batch_success' PROVE ChainKept'
    BY DEF ChainKept
  <1> DEFINE b == Head(disconnected_chain)
             bs == Blocks(batch)
             cs == Append(bs, b)
  <1>1. pc = "restore" /\ disconnected_chain' = Tail(disconnected_chain)
    BY DEF Restore
  <1>2. TypeOK /\ disconnected_chain # <<>>
    BY <1>1 DEF IInv
  <1>3. disconnected_chain \in Seq(Block) /\ bs \in Seq(Block)
    BY <1>2, ChainTypes
  <1>4. /\ b \in Block
        /\ cs \o Tail(disconnected_chain) = bs \o disconnected_chain
        /\ Len(disconnected_chain) = 1 => cs = bs \o disconnected_chain
    BY <1>2, <1>3, MoveHead
  <1>5. m_batch_success => Accepted(b)
    BY <1>1, RestoreAccepted DEF RestoreNeverRefused
  <1> HIDE DEF b
  <1>6. CASE AddBlock(b) /\ pc' = IF Len(disconnected_chain) = 1 THEN "cleanup" ELSE "restore"
    <2>1. m_batch_success
      BY <1>6 DEF AddBlock
    <2>2. coordinator = Blocks(batch) /\ Good(batch)
      BY <1>1, <2>1 DEF IInv, Follows
    <2>3. db' = db /\ Blocks(batch') = cs
      BY <1>2, <1>4, <1>6, <2>2, AddBlockStep
    <2>4. NoWorse(bs \o disconnected_chain, Blocks(db))
      BY <1>1, <2>1 DEF ChainKept, Base
    <2>5. CASE Len(disconnected_chain) = 1
      <3>1. pc' = "cleanup"
        BY <1>6, <2>5
      <3>2. NoWorse(Blocks(batch'), Blocks(db'))
        BY <1>4, <2>3, <2>4, <2>5
      <3> QED BY <3>1, <3>2 DEF ChainKept
    <2>6. CASE Len(disconnected_chain) # 1
      <3>1. pc' = "restore"
        BY <1>6, <2>6
      <3>2. Base' = Blocks(batch')
        BY <3>1 DEF Base
      <3>3. NoWorse(Base' \o disconnected_chain', Blocks(db'))
        BY <1>1, <1>4, <2>3, <2>4, <3>2
      <3> QED BY <3>1, <3>3 DEF ChainKept
    <2> QED BY <2>5, <2>6
  <1>7. CASE RefuseBlock(b)
    BY <1>5, <1>7 DEF RefuseBlock
  <1>8. CASE AddBlockThrows(b)
    BY <1>8 DEF AddBlockThrows
  <1> QED BY <1>6, <1>7, <1>8 DEF Restore, b

\* No step breaks what the batch has to hold.
LEMMA NextKept ==
    ASSUME IInv, ChainKept, FailuresHandled, [Next]_vars
    PROVE  ChainKept'
  <1>1. CASE UNCHANGED vars
    BY <1>1 DEF vars, ChainKept, Base
  <1>2. CASE Prepare
    <2>1. pc' = "incoming" /\ batch' = db /\ db' = db
      BY <1>2 DEF Prepare
    <2>2. NoWorse(Blocks(db), Blocks(db))
      BY ChainTypes, NoWorseSame DEF IInv
    <2>3. NoWorse(Blocks(batch'), Blocks(db'))
      BY <2>1, <2>2
    <2> QED BY <2>1, <2>3 DEF ChainKept
  <1>3. CASE pc' \in {"idle", "halted", "down", "pop"}
    BY <1>3 DEF ChainKept
  <1>4. CASE Cleanup \/ Crash \/ Start \/ PopDone \/ PopStep \/ \E n \in Nat : pop_blocks(n)
    <2>1. pc' \in {"idle", "halted", "down", "pop"}
      BY <1>4 DEF Cleanup, Crash, Start, PopDone, PopStep, pop_blocks
    <2> QED BY <1>3, <2>1
  <1>5. CASE \E b \in Block : AddToTip(b)
    BY <1>5, AddToTipKept
  <1>6. CASE \E chain \in Chains : \E h \in 1..Len(batch) : BeginSwitch(chain, h)
    BY <1>6, BeginSwitchKept
  <1>7. CASE SwitchPop \/ SwitchSplit \/ SwitchConnect \/ UnwindPop \/ UnwindDone \/ Restore
    BY <1>7, SwitchPopKept, SwitchSplitKept, SwitchConnectKept, UnwindPopKept,
       UnwindDoneKept, RestoreKept
  <1> QED BY <1>1, <1>2, <1>4, <1>5, <1>6, <1>7 DEF Next, NextWith, Procedure

\* A step that commits ends a batch that may be committed, or the operator's command.
LEMMA CommitsBatch ==
    ASSUME FailuresHandled, [Next]_vars, db' # db, pc # "pop"
    PROVE  pc \in {"incoming", "cleanup"} /\ m_batch_success /\ db' = batch
  <1>1. CASE UNCHANGED vars
    BY <1>1 DEF vars
  <1>2. CASE Prepare \/ Crash \/ Start
    BY <1>2 DEF Prepare, Crash, Start
  <1>3. CASE \E b \in Block : AddToTip(b)
    BY <1>3 DEF AddToTip, AddBlock, RefuseBlock, AddBlockThrows
  <1>4. CASE \E chain \in Chains : \E h \in 1..Len(batch) : BeginSwitch(chain, h)
    BY <1>4 DEF BeginSwitch
  <1>5. CASE \E n \in Nat : pop_blocks(n)
    BY <1>5 DEF pop_blocks
  <1>6. CASE Cleanup
    BY <1>6 DEF Cleanup, BatchStop, BatchStopThrows, FailuresHandled
  <1>7. CASE Procedure
    <2>1. CASE SwitchPop \/ UnwindPop \/ PopStep
      BY <2>1 DEF SwitchPop, UnwindPop, PopStep, PopBlock
    <2>2. CASE SwitchConnect \/ Restore
      BY <2>2 DEF SwitchConnect, Restore, AddBlock, RefuseBlock, AddBlockThrows
    <2>3. CASE SwitchSplit \/ UnwindDone \/ PopDone
      BY <2>3 DEF SwitchSplit, UnwindDone, PopDone
    <2> QED BY <1>7, <2>1, <2>2, <2>3 DEF Procedure
  <1> QED BY <1>1, <1>2, <1>3, <1>4, <1>5, <1>6, <1>7 DEF Next, NextWith

\* Unless the operator pops blocks, the chain that cleanup_handle_incoming_blocks commits
\* has passed every checkpoint of the chain before it, and another one or no less work: a
\* switch that is refused half-way puts the original chain back first, and one that
\* succeeds was for a checkpoint or for more work (blockchain.cpp:2123, :3217, :3231).
THEOREM ChainCommitNeverWorse ==
    ASSUME FailuresHandled
    PROVE  Spec => CommitNeverWorse
  <1>1. Init => ChainKept
    BY DEF Init, ChainKept
  <1>2. IInv /\ ChainKept /\ [Next]_vars => ChainKept'
    BY NextKept
  <1>3. IInv /\ ChainKept /\ [Next]_vars
            => [db' # db /\ pc # "pop" => NoWorse(Blocks(db'), Blocks(db))]_vars
    <2> SUFFICES ASSUME IInv, ChainKept, [Next]_vars, db' # db, pc # "pop"
                 PROVE  NoWorse(Blocks(db'), Blocks(db))
      OBVIOUS
    <2>1. pc \in {"incoming", "cleanup"} /\ m_batch_success /\ db' = batch
      BY CommitsBatch
    <2> QED BY <2>1 DEF ChainKept
  <1> QED BY <1>1, <1>2, <1>3, ChainInvariant, PTL DEF Spec, CommitNeverWorse

=============================================================================
