----------------------- MODULE BlockTransition_proofs -----------------------
(***************************************************************************)
(* The block transition implements ReversibleState, for any populations,   *)
(* epoch lengths, integer widths and journal windows.                      *)
(***************************************************************************)
EXTENDS BlockTransitionHistory, SemanticState_proofs, SequenceTheorems

Points == [state : States, tip : U64 \cup {None}]

\* A state that records and boundaries keep as it should be.
Sound(st) ==
    /\ st \in States
    /\ DistinctIds(st.histories)
    /\ DistinctLeases(st.leases)
    /\ DistinctReceipts(st.receipts)

\* The state at the start of the running transaction.
Inner == IF pc = "transaction" THEN rollback(state, tx_undo) ELSE state

\* The state at the start of the running block.
Outer == IF pc = "idle" THEN state ELSE rollback(Inner, undo[last].changes)

\* The journals of blocks that are connected.
Kept == IF pc = "idle" THEN Len(undo) ELSE Len(undo) - 1

\* The state after the block of journal i.
After(i) == IF i = Kept THEN Outer ELSE past[i + 1].state

\* The journals of connected blocks lead back to the states in past.
PastOK ==
    /\ tip \in U64 \cup {None}
    /\ tip = None => Kept = 0
    /\ Len(chain) = Height
    /\ Kept <= max_recent_undo_blocks
    /\ past \in Seq(Points)
    /\ Len(past) = Kept
    /\ \A i \in 1..Kept :
          /\ undo[i].height = tip - (Kept - i)
          /\ undo[i].prior_tip = IF undo[i].height = 0 THEN None ELSE undo[i].height - 1
          /\ past[i].tip = undo[i].prior_tip
          /\ Sound(past[i].state)
          /\ Fits(After(i), undo[i].changes)
          /\ rollback(After(i), undo[i].changes) = past[i].state

\* The journals of the running block and transaction lead back to their starts.
RunningOK ==
    /\ Sound(state)
    /\ Sound(Inner)
    /\ Sound(Outer)
    /\ pc = "transaction" => Fits(state, tx_undo)
    /\ pc # "idle" => /\ Len(undo) > 0
                      /\ Fits(Inner, undo[last].changes)
                      /\ Height \in U64
                      /\ undo[last].height = Height
                      /\ undo[last].prior_tip = tip
                      /\ hash \in BlockHash

IInv == TypeOK /\ PastOK /\ RunningOK

-----------------------------------------------------------------------------
(* Facts used in every step *)

\* The quotient of a height is no larger than the height.
LEMMA DivBound ==
    ASSUME NEW a \in Nat, NEW b \in Nat \ {0}
    PROVE  a \div b \in Nat /\ a \div b <= a
OBVIOUS

\* The state without any records.
LEMMA EmptyStateType == EmptyState \in States
<1>1. <<>> \in Histories /\ <<>> \in Seq(StoredLeases) /\ <<>> \in Seq(StoredReceipts)
  BY DEF Histories
<1> QED
  BY <1>1 DEF EmptyState, States

\* The empty journal.
LEMMA NoUndoType == NoUndo \in Undos
BY EmptyStateType, RollbackCheckpoint DEF NoUndo, Fits

\* The height of the next block is a number.
LEMMA HeightType ==
    ASSUME tip \in U64 \cup {None}
    PROVE  Height \in Nat
BY DEF Height, activation_height, U64, None

\* A step inside a block leaves the connected blocks alone.
LEMMA PastKept ==
    ASSUME PastOK, UNCHANGED <<tip, chain, past>>, Outer' = Outer, Kept' = Kept,
           \A i \in 1..Kept : undo'[i] = undo[i]
    PROVE  PastOK'
<1>1. \A i : After(i)' = After(i)
  BY DEF After
<1> QED
  BY <1>1 DEF PastOK, Height

\* The journal entry of a block.
Entries == [height : U64, prior_tip : U64 \cup {None}, changes : Undos]

\* What the type invariant says of the newest journal.
LEMMA LastEntry ==
    ASSUME undo \in Seq(Entries), Len(undo) > 0
    PROVE  last \in DOMAIN undo /\ last \in Nat /\ undo[last] \in Entries
BY DEF last

\* A list without its last element.
LEMMA FrontType ==
    ASSUME NEW S, NEW s \in Seq(S), Len(s) > 0
    PROVE  /\ Front(s) \in Seq(S)
           /\ Len(Front(s)) = Len(s) - 1
           /\ \A i \in 1..(Len(s) - 1) : Front(s)[i] = s[i]
<1> DEFINE n == Len(s) - 1
<1>1. n \in Nat /\ \A i \in 1..n : s[i] \in S
  OBVIOUS
<1> HIDE DEF n
<1>2. /\ SubSeq(s, 1, n) \in Seq(S)
      /\ Len(SubSeq(s, 1, n)) = IF 1 <= n THEN n - 1 + 1 ELSE 0
      /\ \A i \in 1..(n - 1 + 1) : SubSeq(s, 1, n)[i] = s[1 + i - 1]
  BY <1>1, SubSeqProperties
<1>3. Len(SubSeq(s, 1, n)) = n /\ \A i \in 1..n : SubSeq(s, 1, n)[i] = s[i]
  BY <1>1, <1>2
<1> QED
  BY <1>2, <1>3 DEF Front, n

-----------------------------------------------------------------------------
(* The steps inside a block *)

\* A record of a transaction that the journals can undo.
LEMMA RecordStep ==
    ASSUME IInv, pc = "transaction", UNCHANGED <<undo, tip, chain, pc, hash, past>>,
           Sound(state'), Fits(state', tx_undo'),
           rollback(state', tx_undo') = rollback(state, tx_undo)
    PROVE  IInv' /\ Outer' = Outer
<1>1. Inner' = Inner /\ Outer' = Outer /\ Kept' = Kept
  BY DEF Inner, Outer, Kept, last
<1>2. PastOK'
  BY <1>1, PastKept DEF IInv
<1>3. RunningOK'
  BY <1>1 DEF IInv, RunningOK, Height, last
<1>4. TypeOK'
  BY DEF IInv, TypeOK, Sound, Fits
<1> QED
  BY <1>1, <1>2, <1>3, <1>4 DEF IInv

\* A lifecycle record.
LEMMA LifecycleRecordStep ==
    ASSUME IInv, NEW r \in Records, LifecycleRecord(r), past' = past
    PROVE  IInv' /\ Outer' = Outer
<1>1. state \in States /\ Sound(state) /\ Fits(state, tx_undo) /\ DistinctIds(state.histories)
  BY DEF IInv, RunningOK, LifecycleRecord, Sound
<1>2. Registered(state.histories, r.next_descriptor.identity_id)
        <=> r.action # "register_identity"
  BY ZenonT(60), AcceptedKinds DEF LifecycleRecord, LifecycleAccepted
<1>3. state' = ApplyLifecycle(state, r) /\ tx_undo' = LogLifecycle(state, r, tx_undo)
  BY DEF LifecycleRecord
<1>4. /\ state' \in States
      /\ DistinctIds(state'.histories)
      /\ state'.leases = state.leases
      /\ state'.receipts = state.receipts
      /\ Fits(state', tx_undo')
      /\ rollback(state', tx_undo') = rollback(state, tx_undo)
  BY <1>1, <1>2, <1>3, UndoLifecycle
<1>5. Sound(state')
  BY <1>1, <1>4 DEF Sound
<1> QED
  BY <1>4, <1>5, RecordStep DEF LifecycleRecord

\* An admission lease.
LEMMA AdmissionRecordStep ==
    ASSUME IInv, NEW lease \in Leases, AdmissionRecord(lease), past' = past
    PROVE  IInv' /\ Outer' = Outer
<1>1. /\ state \in States /\ Sound(state) /\ Fits(state, tx_undo)
      /\ DistinctLeases(state.leases)
      /\ state.leases \in Seq(StoredLeases)
      /\ Height \in U64
  BY StateType DEF IInv, RunningOK, AdmissionRecord, Sound
<1>2. CASE /\ LeaseAppended(state, lease, Height, chain)
           /\ state' = AppendLease(state, lease, Height)
           /\ UNCHANGED tx_undo
  <2>1. /\ state' \in States
        /\ state'.histories = state.histories
        /\ state'.receipts = state.receipts
        /\ Fits(state', tx_undo')
        /\ rollback(state', tx_undo') = rollback(state, tx_undo)
    BY <1>1, <1>2, UndoAppendLease
  <2>2. SameSlot(state.leases, lease) = {} /\ ~ KeyLeasedByOther(state.leases, lease)
    BY <1>2 DEF LeaseAppended, LeaseBound, AdmissionChecked, AdmissionAppends
  <2>3. state'.leases
          = Append(state.leases, [lease |-> lease, inclusion_height |-> Height])
    BY <1>1, <1>2 DEF AppendLease, States
  <2>4. Sound(state')
    BY <1>1, <2>1, <2>2, <2>3, AppendKeepsLeases DEF Sound
  <2> QED
    BY <2>1, <2>4, RecordStep DEF AdmissionRecord
<1>3. CASE /\ LeaseReplaced(state, lease, Height, chain)
           /\ tx_undo' = LogReplacement(state, lease, tx_undo)
           /\ state' = ReplaceLease(state, lease, Height)
  <2> DEFINE a == SlotIndex(state.leases, lease)
  <2>1. SameSlot(state.leases, lease) # {} /\ ~ KeyLeasedByOther(state.leases, lease)
    BY <1>3 DEF LeaseReplaced, LeaseBound, AdmissionChecked, AdmissionReplaces
  <2>2. /\ state' \in States
        /\ state'.histories = state.histories
        /\ state'.receipts = state.receipts
        /\ Fits(state', tx_undo')
        /\ rollback(state', tx_undo') = rollback(state, tx_undo)
    BY <1>1, <1>3, <2>1, UndoReplaceLease
  <2>3. a \in SameSlot(state.leases, lease)
    BY <1>1, <2>1, SlotFound
  <2>4. state'.leases
          = [state.leases EXCEPT ![a] = [lease |-> lease, inclusion_height |-> Height]]
    BY <1>1, <1>3 DEF ReplaceLease, States
  <2> HIDE DEF a
  <2>5. DistinctLeases(state'.leases)
    <3>1. DistinctLeases([state.leases EXCEPT ![a] =
                             [lease |-> lease, inclusion_height |-> Height]])
      BY ZenonT(60), <1>1, <2>1, <2>3, ReplaceKeepsLeases
    <3> QED
      BY <2>4, <3>1
  <2>6. Sound(state')
    BY <1>1, <2>2, <2>5 DEF Sound
  <2> QED
    BY <2>2, <2>6, RecordStep DEF AdmissionRecord
<1> QED
  BY <1>2, <1>3 DEF AdmissionRecord

\* A receipt.
LEMMA ReceiptRecordStep ==
    ASSUME IInv, NEW r \in Receipts, ReceiptRecord(r), past' = past
    PROVE  IInv' /\ Outer' = Outer
<1>1. /\ state \in States /\ Sound(state) /\ Fits(state, tx_undo)
      /\ DistinctReceipts(state.receipts)
      /\ state.receipts \in Seq(StoredReceipts)
      /\ Height \in U64
      /\ state' = AppendReceipt(state, r, Height)
      /\ tx_undo' = tx_undo
  BY StateType DEF IInv, RunningOK, ReceiptRecord, Sound
<1>2. /\ state' \in States
      /\ state'.histories = state.histories
      /\ state'.leases = state.leases
      /\ Fits(state', tx_undo')
      /\ rollback(state', tx_undo') = rollback(state, tx_undo)
  BY <1>1, UndoReceipt
<1>3. \A s \in EntriesOf(state.receipts) : ~ SameReceiptSlot(s.receipt_hash, r)
  BY DEF ReceiptRecord, ReceiptAccepted, ReceiptAppends
<1>4. state'.receipts
        = Append(state.receipts, [receipt_hash |-> r, inclusion_height |-> Height])
  BY <1>1 DEF AppendReceipt, States
<1>5. Sound(state')
  BY <1>1, <1>2, <1>3, <1>4, AppendKeepsReceipts DEF Sound
<1> QED
  BY <1>1, <1>2, <1>5, RecordStep DEF ReceiptRecord

\* The start of a transaction.
LEMMA BeginTransactionStep ==
    ASSUME IInv, BeginTransaction, past' = past
    PROVE  IInv' /\ Outer' = Outer
<1>1. Sound(state) /\ state \in States
  BY DEF IInv, RunningOK, Sound
<1>2. Fits(state, tx_undo') /\ rollback(state, tx_undo') = state
  BY <1>1, RollbackCheckpoint DEF BeginTransaction
<1>3. Inner' = Inner /\ Outer' = Outer /\ Kept' = Kept
  BY <1>2 DEF Inner, Outer, Kept, last, BeginTransaction
<1>4. PastOK'
  BY <1>3, PastKept DEF IInv, BeginTransaction
<1>5. RunningOK'
  BY <1>2, <1>3 DEF IInv, RunningOK, Height, last, BeginTransaction
<1>6. TypeOK'
  BY <1>2 DEF IInv, TypeOK, Fits, BeginTransaction
<1> QED
  BY <1>3, <1>4, <1>5, <1>6 DEF IInv

\* The end of a transaction joins its journal to that of the block.
LEMMA EndTransactionStep ==
    ASSUME IInv, EndTransaction, past' = past
    PROVE  IInv' /\ Outer' = Outer
<1> DEFINE u == undo[last].changes
           w == append_undo(u, tx_undo)
<1>1. /\ state \in States /\ Sound(state) /\ Fits(state, tx_undo)
      /\ Fits(rollback(state, tx_undo), u)
      /\ Outer = rollback(rollback(state, tx_undo), u)
      /\ Sound(Outer)
      /\ Len(undo) > 0
      /\ undo \in Seq(Entries)
  BY DEF IInv, RunningOK, EndTransaction, Sound, Inner, Outer, TypeOK, Entries
<1>2. Fits(state, w) /\ rollback(state, w) = Outer
  BY <1>1, JoinedUndo
<1>3. last \in DOMAIN undo /\ last \in Nat /\ undo[last] \in Entries
  BY <1>1, LastEntry
<1>4. undo' = [undo EXCEPT ![last].changes = w]
  BY DEF EndTransaction
<1>5. w \in Undos
  BY <1>2 DEF Fits
<1> HIDE DEF w
<1> DEFINE e == [undo[last] EXCEPT !.changes = w]
<1>6. /\ e \in Entries
      /\ e.changes = w
      /\ e.height = undo[last].height
      /\ e.prior_tip = undo[last].prior_tip
  BY <1>3, <1>5 DEF Entries
<1>7. undo' = [undo EXCEPT ![last] = e]
  BY <1>4
<1> HIDE DEF e
<1>8. /\ undo' \in Seq(Entries)
      /\ Len(undo') = Len(undo)
      /\ undo'[last] = e
      /\ \A i \in 1..(Len(undo) - 1) : undo'[i] = undo[i]
  BY <1>1, <1>3, <1>6, <1>7 DEF last
<1>9. pc = "transaction" /\ pc' = "block" /\ UNCHANGED <<state, tip, chain, hash>>
  BY DEF EndTransaction
<1>10. last' = last
  BY <1>8 DEF last
<1>11. Inner' = state /\ Outer' = Outer /\ Kept' = Kept
  BY <1>2, <1>6, <1>8, <1>9, <1>10 DEF Inner, Outer, Kept
<1>12. PastOK'
  <2>1. \A i \in 1..Kept : undo'[i] = undo[i]
    BY <1>8, <1>9 DEF Kept
  <2> QED
    BY <1>9, <1>11, <2>1, PastKept DEF IInv
<1>13. RunningOK'
  BY <1>1, <1>2, <1>6, <1>8, <1>9, <1>10, <1>11 DEF IInv, RunningOK, Height
<1>14. TypeOK'
  BY <1>8, <1>9, NoUndoType DEF IInv, TypeOK, Entries, EndTransaction
<1> QED
  BY <1>11, <1>12, <1>13, <1>14 DEF IInv

\* The scope guards bring back the state at the start of the block.
LEMMA UnwindStep ==
    ASSUME IInv, pc # "idle", NEW t, Unwind(t), past' = past,
           pc = "transaction" => rollback(state, t) = rollback(state, tx_undo)
    PROVE  IInv' /\ Outer' = Outer
<1>1. /\ Sound(Outer)
      /\ Len(undo) > 0
      /\ undo \in Seq(Entries)
  BY DEF IInv, RunningOK, TypeOK, Entries
<1>2. state' = Outer
  BY DEF Unwind, Outer, Inner
<1>3. /\ undo' \in Seq(Entries)
      /\ Len(undo') = Len(undo) - 1
      /\ \A i \in 1..(Len(undo) - 1) : undo'[i] = undo[i]
  BY <1>1, FrontType DEF Unwind
<1>4. pc' = "idle" /\ UNCHANGED <<tip, chain>> /\ tx_undo' = NoUndo /\ hash' = NullHash
  BY DEF Unwind
<1>5. Inner' = Outer /\ Outer' = Outer /\ Kept' = Kept
  BY <1>2, <1>3, <1>4 DEF Inner, Outer, Kept
<1>6. PastOK'
  <2>1. \A i \in 1..Kept : undo'[i] = undo[i]
    BY <1>3 DEF Kept
  <2> QED
    BY <1>4, <1>5, <2>1, PastKept DEF IInv
<1>7. RunningOK'
  BY <1>1, <1>2, <1>4, <1>5 DEF RunningOK
<1>8. TypeOK'
  BY <1>1, <1>2, <1>3, <1>4, NoUndoType DEF IInv, TypeOK, Entries, Sound
<1> QED
  BY <1>5, <1>6, <1>7, <1>8 DEF IInv

\* A record that is refused.
LEMMA RefuseStep ==
    ASSUME IInv, Refuse, past' = past
    PROVE  IInv' /\ Outer' = Outer
BY UnwindStep DEF Refuse

\* An exception between the log and the change of a record.
LEMMA ThrowAfterLogStep ==
    ASSUME IInv, NEW r \in Records, ThrowAfterLog(r), past' = past
    PROVE  IInv' /\ Outer' = Outer
<1>1. state \in States /\ Fits(state, tx_undo) /\ DistinctIds(state.histories)
  BY DEF IInv, RunningOK, ThrowAfterLog, Sound
<1>2. Registered(state.histories, r.next_descriptor.identity_id)
        <=> r.action # "register_identity"
  BY ZenonT(60), AcceptedKinds DEF ThrowAfterLog, LifecycleAccepted
<1>3. rollback(state, LogLifecycle(state, r, tx_undo)) = rollback(state, tx_undo)
  BY <1>1, <1>2, UndoLifecycle
<1>4. pc = "transaction" /\ Unwind(LogLifecycle(state, r, tx_undo))
  BY DEF ThrowAfterLog
<1> QED
  BY <1>3, <1>4, UnwindStep

\* The journal of a new block undoes the freeze, if there is one.
LEMMA BeginBlockStep ==
    ASSUME IInv, NEW block_id \in BlockHash, BeginBlock(block_id), past' = past
    PROVE  IInv' /\ Outer' = Outer
<1> DEFINE c == checkpoint(state)
           freezing == FreezeDue(Height)
           u == [c EXCEPT !.inserted_snapshots =
                    IF freezing THEN {FreezeEpoch(Height)} ELSE {}]
           e == [height |-> Height, prior_tip |-> tip, changes |-> u]
<1>1. /\ pc = "idle" /\ pc' = "block" /\ hash' = block_id /\ UNCHANGED <<tip, chain, tx_undo>>
      /\ Height <= U64Max
      /\ undo' = Append(undo, e)
      /\ freezing => FreezePossible(state, FreezeEpoch(Height), Height)
      /\ state' = IF freezing THEN freeze_membership(state, FreezeEpoch(Height), block_id)
                  ELSE state
  BY DEF BeginBlock
<1>2. /\ state \in States /\ Sound(state)
      /\ undo \in Seq(Entries)
      /\ tip \in U64 \cup {None}
  BY DEF IInv, RunningOK, Sound, TypeOK, Entries
<1>3. Height \in U64
  BY <1>1, <1>2, HeightType, TimingAssumption DEF U64
<1>4. /\ Sound(state')
      /\ Fits(state', u)
      /\ rollback(state', u) = state
  <2>1. CASE freezing
    <3>1. FreezeEpoch(Height) \in U64
      <4>1. /\ Height + anchor_depth \in Nat
            /\ Height + anchor_depth <= U64Max
            /\ epoch_length \in Nat \ {0}
        BY <1>3, <2>1, TimingAssumption DEF FreezeDue, U64
      <4>2. /\ (Height + anchor_depth) \div epoch_length \in Nat
            /\ (Height + anchor_depth) \div epoch_length <= Height + anchor_depth
        BY <4>1, DivBound
      <4> QED
        BY <4>1, <4>2, TimingAssumption DEF FreezeEpoch, U64
    <3>2. FreezeEpoch(Height) \notin EpochsOf(state.snapshots)
      BY <1>1, <2>1 DEF FreezePossible, FreezeAllowed
    <3> DEFINE out == freeze_membership(state, FreezeEpoch(Height), block_id)
    <3>3. u = [checkpoint(state) EXCEPT !.inserted_snapshots = {FreezeEpoch(Height)}]
      BY <2>1
    <3> HIDE DEF u
    <3>4. /\ out \in States
          /\ out.histories = state.histories
          /\ out.leases = state.leases
          /\ out.receipts = state.receipts
          /\ Fits(out, u)
          /\ rollback(out, u) = state
      BY <1>2, <3>1, <3>2, <3>3, UndoFreeze
    <3>5. state' = out
      BY <1>1, <2>1
    <3> HIDE DEF out
    <3> QED
      BY <1>2, <3>4, <3>5 DEF Sound
  <2>2. CASE ~ freezing
    <3>1. u = c
      <4>1. u = [c EXCEPT !.inserted_snapshots = {}]
        BY <2>2
      <4>2. c \in Undos /\ c.inserted_snapshots = {}
        BY ZenonT(60), <1>2, RollbackCheckpoint DEF Fits, checkpoint
      <4> HIDE DEF c
      <4>3. [c EXCEPT !.inserted_snapshots = {}] = c
        BY <4>2 DEF Undos
      <4> QED
        BY <4>1, <4>3
    <3> HIDE DEF u
    <3>2. state' = state
      BY <1>1, <2>2
    <3> QED
      BY <1>2, <3>1, <3>2, RollbackCheckpoint
  <2> QED
    BY <2>1, <2>2
<1>5. u \in Undos
  BY <1>4 DEF Fits
<1> HIDE DEF u
<1>6. /\ e \in Entries
      /\ e.changes = u /\ e.height = Height /\ e.prior_tip = tip
  BY <1>2, <1>3, <1>5 DEF Entries
<1> HIDE DEF e
<1>7. /\ undo' \in Seq(Entries)
      /\ Len(undo') = Len(undo) + 1
      /\ Len(undo) \in Nat
      /\ undo'[Len(undo) + 1] = e
      /\ \A i \in 1..Len(undo) : undo'[i] = undo[i]
  BY <1>1, <1>2, <1>6
<1>8. last' = Len(undo) + 1 /\ undo'[last'] = e
  BY <1>7 DEF last
<1>9. Inner' = state' /\ Outer' = state /\ Outer = state /\ Kept' = Kept
  BY <1>1, <1>4, <1>6, <1>7, <1>8 DEF Inner, Outer, Kept
<1>10. PastOK'
  <2>1. \A i \in 1..Kept : undo'[i] = undo[i]
    BY <1>1, <1>7 DEF Kept
  <2> QED
    BY ZenonT(60), <1>1, <1>9, <2>1, PastKept DEF IInv
<1>11. RunningOK'
  <2>1. Height' = Height
    BY <1>1 DEF Height
  <2> QED
    BY <1>1, <1>2, <1>3, <1>4, <1>6, <1>7, <1>8, <1>9, <2>1 DEF RunningOK
<1>12. TypeOK'
  BY <1>1, <1>4, <1>7 DEF IInv, TypeOK, Entries, Sound
<1> QED
  BY <1>9, <1>10, <1>11, <1>12 DEF IInv

-----------------------------------------------------------------------------
(* Connecting and disconnecting a block *)

\* The history variable remembers the state at the start of the running block.
LEMMA CommittedState == Committed = [state |-> Outer, tip |-> tip]
BY DEF Committed, Outer, Inner

\* A list that drops its oldest element when it is full.
LEMMA Trimmed ==
    ASSUME NEW S, NEW s \in Seq(S), Len(s) > 0, NEW full \in BOOLEAN
    PROVE  LET d == IF full THEN 1 ELSE 0
               t == IF full THEN Tail(s) ELSE s
           IN  /\ t \in Seq(S)
               /\ Len(t) = Len(s) - d
               /\ \A i \in 1..(Len(s) - d) : t[i] = s[i + d]
<1>1. CASE full
  BY <1>1
<1>2. CASE ~ full
  BY <1>2
<1> QED
  BY <1>1, <1>2

\* The commit moves journals and remembered states along together.
LEMMA ConnectPast ==
    ASSUME PastOK, pc = "block", Kept \in Nat, Sound(Outer), Height \in U64,
           chain \in Seq(BlockHash), hash \in BlockHash,
           NEW closed \in Seq(Entries), Len(closed) = Kept + 1,
           closed[Kept + 1].height = Height, closed[Kept + 1].prior_tip = tip,
           \A i \in 1..Kept : closed[i] = undo[i],
           Fits(state', closed[Kept + 1].changes),
           rollback(state', closed[Kept + 1].changes) = Outer,
           undo' = IF Len(closed) > max_recent_undo_blocks THEN Tail(closed) ELSE closed,
           tip' = Height, chain' = Append(chain, hash), pc' = "idle", Remember
    PROVE  /\ PastOK'
           /\ undo' \in Seq(Entries)
<1> DEFINE n == Kept
           C == [state |-> Outer, tip |-> tip]
           P == Append(past, C)
           full == n = max_recent_undo_blocks
           d == IF full THEN 1 ELSE 0
           k == n + 1 - d
<1>1. /\ tip \in U64 \cup {None}
      /\ tip = None => n = 0
      /\ Len(chain) = Height
      /\ n <= max_recent_undo_blocks
      /\ past \in Seq(Points)
      /\ Len(past) = n
  BY DEF PastOK
<1>2. C \in Points
  BY <1>1 DEF Points, Sound
<1>3. Committed = C
  BY CommittedState
<1>4. C.state = Outer /\ C.tip = tip
  OBVIOUS
<1> HIDE DEF C
<1>5. /\ P \in Seq(Points) /\ Len(P) = n + 1
      /\ P[n + 1] = C
      /\ \A i \in 1..n : P[i] = past[i]
  BY <1>1, <1>2
<1>6. past' = IF full THEN Tail(P) ELSE P
  <2>1. CASE full
    <3>1. past' = Append(Tail(past), C)
      BY <1>1, <1>3, <2>1 DEF Remember
    <3>2. Len(past) > 0
      BY <1>1, <2>1, UndoAssumption
    <3>3. Tail(P) = Append(Tail(past), C)
      BY <1>1, <1>2, <3>2
    <3> QED
      BY <2>1, <3>1, <3>3
  <2>2. CASE ~ full
    BY <1>1, <1>3, <2>2 DEF Remember
  <2> QED
    BY <2>1, <2>2
<1>7. undo' = IF full THEN Tail(closed) ELSE closed
  BY <1>1, UndoAssumption
<1>8. n \in Nat /\ full \in BOOLEAN
  OBVIOUS
<1> HIDE DEF n, P, full
<1>9. /\ past' \in Seq(Points)
      /\ Len(past') = k
      /\ \A i \in 1..k : past'[i] = P[i + d]
  BY <1>5, <1>6, <1>8, Trimmed
<1>10. /\ undo' \in Seq(Entries)
       /\ Len(undo') = k
       /\ \A i \in 1..k : undo'[i] = closed[i + d]
  <2>1. closed \in Seq(Entries) /\ Len(closed) = n + 1 /\ Len(closed) > 0
    BY <1>8 DEF n
  <2> DEFINE t == IF full THEN Tail(closed) ELSE closed
  <2>2. /\ t \in Seq(Entries)
        /\ Len(t) = Len(closed) - d
        /\ \A i \in 1..(Len(closed) - d) : t[i] = closed[i + d]
    BY <1>8, <2>1, Trimmed
  <2>3. undo' = t
    BY <1>7
  <2>4. Len(closed) - d = k
    BY <1>8, <2>1
  <2> HIDE DEF d, t
  <2> HIDE DEF k
  <2>5. t \in Seq(Entries) /\ Len(t) = k /\ \A i \in 1..k : t[i] = closed[i + d]
    BY <2>2, <2>4
  <2> QED
    BY <2>3, <2>5, Zenon
<1>11. Kept' = k /\ Outer' = state'
  BY <1>10 DEF Kept, Outer, Inner
<1>12. tip' = Height /\ tip' # None /\ Height' = Height + 1 /\ Height \in Nat
  BY HeightType, <1>1 DEF Height, U64, None
<1>13. Len(chain') = Height'
  BY <1>1, <1>12
<1>14. k <= max_recent_undo_blocks /\ d \in {0, 1} /\ k \in Nat
  BY <1>1, <1>8, UndoAssumption DEF full, n
<1> HIDE DEF d
<1>15. ASSUME NEW i \in 1..k
       PROVE  /\ undo'[i].height = tip' - (k - i)
              /\ undo'[i].prior_tip = IF undo'[i].height = 0 THEN None
                                      ELSE undo'[i].height - 1
              /\ past'[i].tip = undo'[i].prior_tip
              /\ Sound(past'[i].state)
              /\ Fits(After(i)', undo'[i].changes)
              /\ rollback(After(i)', undo'[i].changes) = past'[i].state
  <2> DEFINE j == i + d
  <2>1. undo'[i] = closed[j] /\ past'[i] = P[j] /\ j \in 1..(n + 1) /\ j \in Nat
    BY <1>8, <1>9, <1>10, <1>14
  <2>2. CASE j = n + 1
    <3>1. i = k
      BY <1>8, <1>14, <2>2
    <3>2. After(i)' = state'
      BY <1>11, <3>1 DEF After
    <3>3. undo'[i].height = Height /\ undo'[i].prior_tip = tip /\ past'[i] = C
      BY ZenonT(60), <1>5, <2>1, <2>2 DEF n
    <3>4. tip = IF Height = 0 THEN None ELSE Height - 1
      BY <1>1 DEF Height, activation_height, U64, None
    <3>5. Fits(state', undo'[i].changes) /\ rollback(state', undo'[i].changes) = Outer
      BY ZenonT(60), <2>1, <2>2 DEF n
    <3>6. tip' - (k - i) = Height
      BY <1>12, <1>14, <3>1
    <3>7. Sound(past'[i].state) /\ past'[i].state = Outer /\ past'[i].tip = tip
      BY <1>4, <3>3
    <3> QED
      BY ZenonT(60), <3>2, <3>3, <3>4, <3>5, <3>6, <3>7
  <2>3. CASE j \in 1..n
    <3>1. undo'[i] = undo[j] /\ past'[i] = past[j]
      BY ZenonT(60), <1>5, <2>1, <2>3 DEF n
    <3>2. After(i)' = After(j)
      <4>1. i # k /\ i + 1 \in 1..k
        BY <1>8, <1>14, <2>3
      <4>2. After(i)' = past'[i + 1].state
        BY <1>11, <4>1 DEF After
      <4>3. past'[i + 1] = P[j + 1]
        BY <1>9, <1>14, <4>1
      <4>4. CASE j = n
        BY <1>4, <1>5, <4>2, <4>3, <4>4 DEF After, n
      <4>5. CASE j # n
        <5>1. j + 1 \in 1..n
          BY <1>8, <2>1, <2>3, <4>5
        <5> QED
          BY <1>5, <4>2, <4>3, <4>5, <5>1 DEF After, n
      <4> QED
        BY <4>4, <4>5
    <3> HIDE DEF j
    <3>3. /\ undo[j].height = tip - (n - j)
          /\ undo[j].prior_tip = IF undo[j].height = 0 THEN None ELSE undo[j].height - 1
          /\ past[j].tip = undo[j].prior_tip
          /\ Sound(past[j].state)
          /\ Fits(After(j), undo[j].changes)
          /\ rollback(After(j), undo[j].changes) = past[j].state
      BY <2>3 DEF PastOK, n
    <3>4. tip # None
      BY <1>1, <1>8, <2>3
    <3>5. tip - (n - j) = tip' - (k - i)
      BY <1>1, <1>8, <1>12, <1>14, <2>1, <2>3, <3>4 DEF Height, U64, j
    <3> HIDE DEF k
    <3> QED
      BY ZenonT(60), <3>1, <3>2, <3>3, <3>5
  <2>4. j = n + 1 \/ j \in 1..n
    BY <1>8, <2>1
  <2> HIDE DEF k, j
  <2> QED
    BY <2>2, <2>3, <2>4
<1> HIDE DEF k
<1> QED
  BY ZenonT(60), <1>9, <1>10, <1>11, <1>12, <1>13, <1>14, <1>15 DEF PastOK

\* The close, the commit and the trimming.
LEMMA EndBlockStep ==
    ASSUME IInv, EndBlock, Remember
    PROVE  IInv' /\ Outer' = state'
<1> DEFINE u == undo[last].changes
           closing == CloseDue(Height)
           w == IF closing
                THEN [u EXCEPT !.inserted_qualifications = @ \cup {CloseEpoch(Height)}]
                ELSE u
           closed == [undo EXCEPT ![last].changes.inserted_qualifications =
                         IF closing THEN @ \cup {CloseEpoch(Height)} ELSE @]
           e == [undo[last] EXCEPT !.changes = w]
<1>1. /\ pc = "block" /\ pc' = "idle"
      /\ closing => ClosePossible(state, CloseEpoch(Height), Height)
      /\ state' = IF closing THEN close_qualification(state, CloseEpoch(Height)) ELSE state
      /\ undo' = IF Len(closed) > max_recent_undo_blocks THEN Tail(closed) ELSE closed
      /\ tip' = Height /\ chain' = Append(chain, hash) /\ hash' = NullHash
      /\ tx_undo' = tx_undo
  BY DEF EndBlock
<1>2. /\ state \in States /\ Sound(state) /\ Sound(Outer)
      /\ Fits(state, u) /\ Outer = rollback(state, u)
      /\ undo \in Seq(Entries) /\ Len(undo) > 0
      /\ undo[last].height = Height /\ undo[last].prior_tip = tip
      /\ Height \in U64 /\ chain \in Seq(BlockHash) /\ hash \in BlockHash
  BY <1>1 DEF IInv, RunningOK, Sound, Inner, Outer, TypeOK, Entries
<1>3. last \in DOMAIN undo /\ last \in Nat /\ undo[last] \in Entries
  BY <1>2, LastEntry
<1>4. Sound(state') /\ Fits(state', w) /\ rollback(state', w) = Outer
  <2>1. CASE closing
    <3> DEFINE epoch == CloseEpoch(Height)
               out == close_qualification(state, epoch)
    <3>1. epoch \in EpochsOf(state.snapshots) /\ epoch \notin EpochsOf(state.qualifications)
      BY <1>1, <2>1 DEF ClosePossible, CloseAllowed
    <3>2. epoch \in U64
      BY <1>2, <3>1 DEF EpochsOf, States, Snapshots
    <3>3. w = [u EXCEPT !.inserted_qualifications = @ \cup {epoch}]
      BY <2>1
    <3>4. state' = out
      BY <1>1, <2>1
    <3> HIDE DEF u, w, epoch
    <3>5. /\ out \in States
          /\ out.histories = state.histories
          /\ out.leases = state.leases
          /\ out.receipts = state.receipts
          /\ Fits(out, w)
          /\ rollback(out, w) = rollback(state, u)
      BY <1>2, <3>1, <3>2, <3>3, UndoClose
    <3> HIDE DEF out
    <3> QED
      BY <1>2, <3>4, <3>5 DEF Sound
  <2>2. CASE ~ closing
    <3>1. w = u /\ state' = state
      BY <1>1, <2>2
    <3> HIDE DEF u, w
    <3> QED
      BY <1>2, <3>1
  <2> QED
    BY <2>1, <2>2
<1>5. w \in Undos
  BY <1>4 DEF Fits
<1>6. closed = [undo EXCEPT ![last] = e]
  <2>1. CASE closing
    BY <2>1
  <2>2. CASE ~ closing
    BY ZenonT(60), <1>3, <2>2 DEF Entries, Undos
  <2> QED
    BY <2>1, <2>2
<1> HIDE DEF w, closed
<1>7. /\ e \in Entries
      /\ e.changes = w
      /\ e.height = undo[last].height
      /\ e.prior_tip = undo[last].prior_tip
  BY <1>3, <1>5 DEF Entries
<1> HIDE DEF e
<1>8. /\ closed \in Seq(Entries)
      /\ Len(closed) = Len(undo)
      /\ closed[last] = e
      /\ \A i \in 1..(Len(undo) - 1) : closed[i] = undo[i]
  BY <1>2, <1>3, <1>6, <1>7 DEF last
<1>9. Kept = Len(undo) - 1 /\ Kept \in Nat /\ last = Kept + 1
  BY <1>1, <1>2 DEF Kept, last
<1>10. /\ Len(closed) = Kept + 1
       /\ closed[Kept + 1].height = Height
       /\ closed[Kept + 1].prior_tip = tip
       /\ closed[Kept + 1].changes = w
       /\ \A i \in 1..Kept : closed[i] = undo[i]
  BY <1>2, <1>7, <1>8, <1>9
<1>11. PastOK' /\ undo' \in Seq(Entries)
  <2>1. /\ Fits(state', closed[Kept + 1].changes)
        /\ rollback(state', closed[Kept + 1].changes) = Outer
    BY <1>4, <1>10
  <2>2. PastOK
    BY DEF IInv
  <2> QED
    BY <1>1, <1>2, <1>8, <1>9, <1>10, <2>1, <2>2, ConnectPast
<1>12. Inner' = state' /\ Outer' = state'
  BY <1>1 DEF Inner, Outer
<1>13. RunningOK'
  BY <1>1, <1>4, <1>12 DEF RunningOK
<1>14. TypeOK'
  <2>1. chain' \in Seq(BlockHash)
    BY <1>1, <1>2
  <2> QED
    BY <1>1, <1>2, <1>4, <1>11, <2>1 DEF IInv, TypeOK, Sound, Entries
<1> QED
  BY <1>11, <1>12, <1>13, <1>14 DEF IInv

\* The newest journal leads back to the state before its block.
LEMMA DisconnectTipStep ==
    ASSUME IInv, DisconnectTip, past' = Front(past)
    PROVE  /\ IInv'
           /\ Len(past) > 0
           /\ past \in Seq(Points)
           /\ Outer' = past[Len(past)].state
           /\ tip' = past[Len(past)].tip
<1> DEFINE n == Len(undo)
<1>1. /\ pc = "idle" /\ tip # None /\ undo # <<>>
      /\ undo[last].height = tip
      /\ state' = rollback(state, undo[last].changes)
      /\ tip' = undo[last].prior_tip
      /\ undo' = Front(undo)
      /\ chain' = Front(chain)
      /\ pc' = pc /\ hash' = hash /\ tx_undo' = tx_undo
  BY DEF DisconnectTip
<1>2. /\ undo \in Seq(Entries) /\ chain \in Seq(BlockHash) /\ tip \in U64
      /\ state \in States
  BY <1>1 DEF IInv, TypeOK, Entries
<1>3. n \in Nat /\ n > 0 /\ last = n /\ n \in 1..n
  BY <1>1, <1>2 DEF last
<1>4. Kept = n /\ Outer = state
  BY <1>1 DEF Kept, Outer
<1>5. /\ Len(chain) = Height
      /\ n <= max_recent_undo_blocks
      /\ past \in Seq(Points)
      /\ Len(past) = n
      /\ \A i \in 1..n :
            /\ undo[i].height = tip - (n - i)
            /\ undo[i].prior_tip = IF undo[i].height = 0 THEN None ELSE undo[i].height - 1
            /\ past[i].tip = undo[i].prior_tip
            /\ Sound(past[i].state)
            /\ Fits(After(i), undo[i].changes)
            /\ rollback(After(i), undo[i].changes) = past[i].state
  BY <1>4 DEF IInv, PastOK
<1> HIDE DEF n
<1>6. state' = past[n].state /\ tip' = past[n].tip /\ Sound(state')
  <2>1. After(n) = state
    BY <1>4 DEF After
  <2> QED
    BY <1>1, <1>3, <1>5, <2>1
<1>7. /\ undo' \in Seq(Entries)
      /\ Len(undo') = n - 1
      /\ \A i \in 1..(n - 1) : undo'[i] = undo[i]
  BY <1>1, <1>2, <1>3, FrontType DEF n
<1>8. /\ past' \in Seq(Points)
      /\ Len(past') = n - 1
      /\ \A i \in 1..(n - 1) : past'[i] = past[i]
  BY ZenonT(60), <1>3, <1>5, FrontType
<1>9. Height = tip + 1 /\ tip \in Nat
  BY <1>1, <1>2 DEF Height, U64
<1>10. chain' \in Seq(BlockHash) /\ Len(chain') = tip
  BY <1>1, <1>2, <1>5, <1>9, FrontType
<1>11. Kept' = n - 1 /\ Outer' = state' /\ Inner' = state'
  BY <1>1, <1>7 DEF Kept, Outer, Inner
<1>12. tip' = IF tip = 0 THEN None ELSE tip - 1
  BY <1>1, <1>3, <1>5
<1>13. tip' \in U64 \cup {None}
  <2>1. past[n] \in Points
    BY <1>3, <1>5
  <2> QED
    BY <1>6, <2>1 DEF Points
<1>14. tip = 0 => n = 1
  <2>1. ASSUME tip = 0, n # 1
        PROVE  FALSE
    <3>1. n - 1 \in 1..n
      BY <1>3, <2>1
    <3>2. undo[n - 1].height = tip - (n - (n - 1))
      BY <1>5, <3>1
    <3>3. undo[n - 1] \in Entries
      BY <1>2, <3>1 DEF n
    <3> QED
      BY <1>3, <2>1, <3>2, <3>3 DEF Entries, U64
  <2> QED
    BY <2>1
<1>15. tip' = None => Kept' = 0
  BY <1>2, <1>11, <1>12, <1>14 DEF U64, None
<1>16. Len(chain') = Height'
  BY <1>2, <1>9, <1>10, <1>12 DEF Height, activation_height, U64, None
<1>17. ASSUME NEW i \in 1..(n - 1)
       PROVE  /\ undo'[i].height = tip' - (n - 1 - i)
              /\ undo'[i].prior_tip = IF undo'[i].height = 0 THEN None
                                      ELSE undo'[i].height - 1
              /\ past'[i].tip = undo'[i].prior_tip
              /\ Sound(past'[i].state)
              /\ Fits(After(i)', undo'[i].changes)
              /\ rollback(After(i)', undo'[i].changes) = past'[i].state
  <2>1. i \in 1..n /\ i # n /\ undo'[i] = undo[i] /\ past'[i] = past[i]
    BY <1>3, <1>7, <1>8
  <2>2. After(i) = past[i + 1].state
    BY <1>4, <2>1 DEF After
  <2>3. After(i)' = After(i)
    <3>1. CASE i = n - 1
      <4>1. i + 1 = n
        BY <1>3, <3>1
      <4> QED
        BY <1>6, <1>11, <2>2, <3>1, <4>1 DEF After
    <3>2. CASE i # n - 1
      <4>1. i + 1 \in 1..(n - 1)
        BY <1>3, <3>2
      <4> QED
        BY <1>8, <1>11, <2>2, <3>2, <4>1 DEF After
    <3> QED
      BY <3>1, <3>2
  <2>4. tip' = tip - 1
    BY <1>3, <1>12, <1>14
  <2>5. tip' - (n - 1 - i) = tip - (n - i)
    BY <1>3, <1>9, <2>4
  <2> QED
    BY <1>5, <2>1, <2>3, <2>5
<1>18. PastOK'
  BY <1>3, <1>5, <1>8, <1>11, <1>13, <1>15, <1>16, <1>17, UndoAssumption DEF PastOK
<1>19. RunningOK'
  BY <1>1, <1>6, <1>11 DEF RunningOK
<1>20. TypeOK'
  BY <1>1, <1>6, <1>7, <1>10, <1>13 DEF IInv, TypeOK, Sound, Entries
<1> QED
  BY <1>3, <1>5, <1>6, <1>11, <1>18, <1>19, <1>20 DEF IInv

-----------------------------------------------------------------------------
(* The invariant *)

\* The node starts without blocks, and with an empty state.
LEMMA InitIInv ==
    ASSUME HistoryInit
    PROVE  IInv /\ Outer = EmptyState
<1>1. /\ state = EmptyState /\ undo = <<>> /\ tip = None /\ chain = <<>> /\ pc = "idle"
      /\ hash = NullHash /\ tx_undo = NoUndo /\ past = <<>>
  BY DEF HistoryInit, Init
<1>2. EmptyState \in States
  BY EmptyStateType
<1>3. Sound(EmptyState)
  BY <1>2 DEF Sound, EmptyState, DistinctIds, DistinctLeases, DistinctReceipts
<1>4. Inner = EmptyState /\ Outer = EmptyState /\ Kept = 0
  BY <1>1 DEF Inner, Outer, Kept
<1>5. TypeOK
  BY <1>1, <1>2, NoUndoType DEF TypeOK
<1>6. PastOK
  BY <1>1, <1>4, UndoAssumption DEF PastOK, Height, activation_height
<1>7. RunningOK
  BY <1>1, <1>3, <1>4 DEF RunningOK
<1> QED
  BY <1>4, <1>5, <1>6, <1>7 DEF IInv

\* No step inside a block changes the state that its failure returns to.
LEMMA StepInBlockStep ==
    ASSUME IInv, StepInBlock(BlockHash, Records, Leases, Receipts), past' = past
    PROVE  IInv' /\ Outer' = Outer
<1>1. ASSUME NEW block_id \in BlockHash, BeginBlock(block_id)
      PROVE  IInv' /\ Outer' = Outer
  BY <1>1, BeginBlockStep
<1>2. CASE BeginTransaction
  BY <1>2, BeginTransactionStep
<1>3. ASSUME NEW r \in Records, LifecycleRecord(r)
      PROVE  IInv' /\ Outer' = Outer
  BY <1>3, LifecycleRecordStep
<1>4. ASSUME NEW r \in Records, ThrowAfterLog(r)
      PROVE  IInv' /\ Outer' = Outer
  BY <1>4, ThrowAfterLogStep
<1>5. ASSUME NEW lease \in Leases, AdmissionRecord(lease)
      PROVE  IInv' /\ Outer' = Outer
  BY <1>5, AdmissionRecordStep
<1>6. ASSUME NEW r \in Receipts, ReceiptRecord(r)
      PROVE  IInv' /\ Outer' = Outer
  BY <1>6, ReceiptRecordStep
<1>7. CASE EndTransaction
  BY <1>7, EndTransactionStep
<1>8. CASE Refuse
  BY <1>8, RefuseStep
<1> QED
  BY <1>1, <1>2, <1>3, <1>4, <1>5, <1>6, <1>7, <1>8 DEF StepInBlock

\* A step that changes nothing.
LEMMA StutterStep ==
    ASSUME IInv, UNCHANGED historyVars
    PROVE  IInv' /\ Outer' = Outer
<1>1. UNCHANGED <<state, undo, tip, chain, pc, hash, tx_undo, past>>
  BY DEF historyVars
<1>2. Inner' = Inner /\ Outer' = Outer /\ Kept' = Kept /\ last' = last /\ Height' = Height
  BY <1>1 DEF Inner, Outer, Kept, last, Height
<1>3. PastOK'
  BY <1>1, <1>2, PastKept DEF IInv
<1>4. RunningOK'
  BY <1>1, <1>2 DEF IInv, RunningOK
<1>5. TypeOK'
  BY <1>1 DEF IInv, TypeOK
<1> QED
  BY <1>2, <1>3, <1>4, <1>5 DEF IInv

\* The journals of the recent blocks and of the running one always lead back to the
\* states before them (block_transition_v2.cpp:121 and :234).
THEOREM BlockTransitionInvariant == HistorySpec => []IInv
<1>1. HistoryInit => IInv
  BY InitIInv
<1>2. IInv /\ [HistoryStep(BlockHash, Records, Leases, Receipts)]_historyVars => IInv'
  <2> SUFFICES ASSUME IInv, [HistoryStep(BlockHash, Records, Leases, Receipts)]_historyVars
               PROVE  IInv'
    OBVIOUS
  <2>1. CASE StepInBlock(BlockHash, Records, Leases, Receipts) /\ UNCHANGED past
    BY <2>1, StepInBlockStep
  <2>2. CASE EndBlock /\ Remember
    BY <2>2, EndBlockStep
  <2>3. CASE DisconnectTip /\ past' = Front(past)
    BY <2>3, DisconnectTipStep
  <2>4. CASE UNCHANGED historyVars
    BY <2>4, StutterStep
  <2> QED
    BY <2>1, <2>2, <2>3, <2>4 DEF HistoryStep
<1> QED
  BY <1>1, <1>2, PTL DEF HistorySpec

\* The type invariant of the block transition.
THEOREM BlockTransitionTypeOK == HistorySpec => []TypeOK
<1>1. IInv => TypeOK
  BY DEF IInv
<1> QED
  BY <1>1, BlockTransitionInvariant, PTL

\* The journals kept are those of the newest blocks without a gap
\* (block_transition_v2.cpp:230).
THEOREM BlockTransitionJournalCoversTip == HistorySpec => []JournalCoversTip
<1>1. IInv => JournalCoversTip
  BY DEF IInv, PastOK, JournalCoversTip, Kept
<1> QED
  BY <1>1, BlockTransitionInvariant, PTL

\* No two leases for one epoch share an identity or a service key
\* (membership_v2.cpp:900).
THEOREM BlockTransitionLeaseSlotsDistinct == HistorySpec => []LeaseSlotsDistinct
<1>1. IInv => LeaseSlotsDistinct
  BY DEF IInv, RunningOK, Sound, DistinctLeases, LeaseSlotsDistinct
<1> QED
  BY <1>1, BlockTransitionInvariant, PTL

\* A receipt slot is filled once (membership_v2.cpp:726).
THEOREM BlockTransitionReceiptSlotsDistinct == HistorySpec => []ReceiptSlotsDistinct
<1>1. IInv => ReceiptSlotsDistinct
  BY DEF IInv, RunningOK, Sound, DistinctReceipts, ReceiptSlotsDistinct
<1> QED
  BY <1>1, BlockTransitionInvariant, PTL

\* A block that fails leaves no trace, and disconnecting a block restores exactly
\* what it was connected to (block_transition_v2.cpp:121 and :234).
THEOREM BlockTransitionReversible == HistorySpec => BlocksAreReversible
<1>1. HistoryInit => Abstract!Init
  <2> SUFFICES ASSUME HistoryInit
               PROVE  Abstract!Init
    OBVIOUS
  <2>1. Outer = EmptyState /\ tip = None /\ past = <<>>
    BY InitIInv DEF HistoryInit, Init
  <2> QED
    BY <2>1, CommittedState DEF Abstract!Init
<1>2. ASSUME IInv, [HistoryStep(BlockHash, Records, Leases, Receipts)]_historyVars
      PROVE  [Abstract!Next]_(Abstract!vars)
  <2>0. /\ Committed = [state |-> Outer, tip |-> tip]
        /\ Committed' = [state |-> Outer', tip |-> tip']
    <3>1. Committed' = [state |-> Outer, tip |-> tip]'
      BY DEF Committed, Outer, Inner
    <3> QED
      BY <3>1, CommittedState
  <2>1. CASE StepInBlock(BlockHash, Records, Leases, Receipts) /\ UNCHANGED past
    <3>1. Outer' = Outer
      BY <1>2, <2>1, StepInBlockStep
    <3>2. tip' = tip
      BY <2>1 DEF StepInBlock, BeginBlock, BeginTransaction, LifecycleRecord, ThrowAfterLog,
                  AdmissionRecord, ReceiptRecord, EndTransaction, Refuse, Unwind
    <3> QED
      BY <2>0, <2>1, <3>1, <3>2 DEF Abstract!vars
  <2>2. CASE EndBlock /\ Remember
    <3>1. IInv' /\ Outer' = state'
      BY <1>2, <2>2, EndBlockStep
    <3>2. Outer' \in States /\ tip' \in U64 \cup {None}
      BY <3>1 DEF IInv, TypeOK
    <3>3. Committed' \in [state : States, tip : U64 \cup {None}]
      BY <2>0, <3>2
    <3>4. Abstract!Connect
      BY <2>2, <3>3 DEF Abstract!Connect, Remember
    <3> QED
      BY <3>4 DEF Abstract!Next
  <2>3. CASE DisconnectTip /\ past' = Front(past)
    <3>1. /\ Len(past) > 0
          /\ past \in Seq(Points)
          /\ Outer' = past[Len(past)].state
          /\ tip' = past[Len(past)].tip
      BY <1>2, <2>3, DisconnectTipStep
    <3>2. past[Len(past)] \in Points
      BY <3>1
    <3>3. Committed' = past[Len(past)]
      BY <2>0, <3>1, <3>2 DEF Points
    <3>4. past # <<>>
      BY <3>1
    <3>5. Abstract!Disconnect
      BY <2>3, <3>3, <3>4 DEF Abstract!Disconnect, Front
    <3> QED
      BY <3>5 DEF Abstract!Next
  <2>4. CASE UNCHANGED historyVars
    <3>1. Outer' = Outer /\ tip' = tip /\ past' = past
      BY <1>2, <2>4, StutterStep DEF historyVars
    <3> QED
      BY <2>0, <3>1 DEF Abstract!vars
  <2> QED
    BY <1>2, <2>1, <2>2, <2>3, <2>4 DEF HistoryStep
<1> QED
  BY <1>1, <1>2, BlockTransitionInvariant, PTL
     DEF HistorySpec, BlocksAreReversible, Abstract!Spec

=============================================================================
