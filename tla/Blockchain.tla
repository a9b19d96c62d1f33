----------------------------- MODULE Blockchain -----------------------------
(***************************************************************************)
(* The EPoSE coordinator inside Blockchain: a coordinator in memory next   *)
(* to blocks and commitments in an LMDB database that commits in batches.  *)
(* Blocks enter in batches, a better alternative chain replaces the tip,   *)
(* the operator pops blocks, and every path has its failures: a block that *)
(* EPoSE refuses, an exception of the database, a crash.                   *)
(*                                                                         *)
(* The state of the coordinator is a function of the blocks it connected,  *)
(* and disconnecting a block restores the state before it (ReversibleState *)
(* and its proof), so the coordinator is the sequence of those blocks and  *)
(* a state hash is that sequence.  All of this runs under                  *)
(* m_blockchain_lock, one procedure at a time; what is visible in between  *)
(* are the exceptions and the crash.  update_next_cumulative_weight_limit  *)
(* never fails, so its failure branches are left out.                      *)
(*                                                                         *)
(* The checkpoints are those that the node was started with: the rollback  *)
(* that a later checkpoint file enforces (check_against_checkpoints) is    *)
(* left out.                                                               *)
(***************************************************************************)
EXTENDS Integers, Sequences

CONSTANTS
    Block,                  \* the hashes of the blocks that exist
    Genesis,                \* the block at height 0
    prev_id(_),             \* the parent of a block
    difficulty(_),          \* of a block
    Connects(_, _),         \* whether connect_block accepts a block in a state
    m_points,               \* the checkpoints: a block for each of some heights
    max_recent_undo_blocks, \* of the limits of the block transition
    Faults                  \* the failures of the environment that happen

ASSUME BlockchainAssumption ==
    /\ Genesis \in Block
    /\ Connects(<<>>, Genesis)
    /\ \A b \in Block : prev_id(b) \in Block /\ difficulty(b) \in Nat
    /\ DOMAIN m_points \subseteq Nat
    /\ 0 \in DOMAIN m_points => m_points[0] = Genesis
    /\ max_recent_undo_blocks \in Nat \ {0}
    /\ Faults \subseteq {"add_block", "pop_block", "batch_stop", "crash"}

VARIABLES
    db,                 \* what the database has committed, block by block
    batch,              \* what its open write transaction shows, else db
    m_batch_success,    \* whether the batch may be committed
    coordinator,        \* m_epose_v2, by the blocks that it has connected
    journals,           \* how many of them it can disconnect
    pc,                 \* the procedure that runs
    alt_chain,          \* the alternative blocks that are still to be connected
    disconnected_chain, \* the blocks that the switch has popped
    target_height       \* the chain height at which popping stops

vars == <<db, batch, m_batch_success, coordinator, journals, pc,
          alt_chain, disconnected_chain, target_height>>

switchVars == <<alt_chain, disconnected_chain, target_height>>

NoCommitment == <<>>

Blocks(d) == [i \in DOMAIN d |-> d[i].block]

Tip(d) == d[Len(d)].block

\* The database knows a block of the chain by one height.
StandsAt(d, height, b) == \A i \in DOMAIN d : d[i].block = b <=> i = height

Front(seq) == SubSeq(seq, 1, Len(seq) - 1)

\* The cumulative difficulty of a chain of blocks.
Work(blocks) ==
    LET cumulative_difficulty[n \in 0..Len(blocks)] ==
            IF n = 0 THEN 0 ELSE cumulative_difficulty[n - 1] + difficulty(blocks[n])
    IN  cumulative_difficulty[Len(blocks)]

\* The block may stand at this height (checkpoints::check_block).
check_block(height, b) == height \in DOMAIN m_points => m_points[height] = b

\* Mutant: a block below the last checkpoint may be an alternative one.
AlternativeAllowedAnywhere(blockchain_height, block_height) == block_height # 0

\* The last checkpoint up to the height of the chain lies below an alternative block.
is_alternative_block_allowed(blockchain_height, block_height) ==
    /\ block_height # 0
    /\ \A h \in DOMAIN m_points : h <= blockchain_height => h < block_height

\* The checkpoints that a chain has passed.
Passed(blocks) == {h \in DOMAIN m_points : h < Len(blocks) /\ blocks[h + 1] = m_points[h]}

Window(n) == IF n > max_recent_undo_blocks THEN max_recent_undo_blocks ELSE n

\* What rebuild_epose_state insists on: every block connects to the state of the
\* blocks before it, and the stored commitment is the state that this gives.
Replays(d) ==
    \A i \in DOMAIN d :
        /\ Connects(SubSeq(Blocks(d), 1, i - 1), d[i].block)
        /\ d[i].state_hash = SubSeq(Blocks(d), 1, i)

\* The new coordinator is installed only after all of it was verified.
rebuild_epose_state(d) ==
    IF Replays(d)
    THEN /\ coordinator' = Blocks(d)
         /\ journals' = Window(Len(d))
    ELSE UNCHANGED <<coordinator, journals>>

Init ==
    /\ db = <<[block |-> Genesis, state_hash |-> <<Genesis>>]>>
    /\ batch = db
    /\ m_batch_success = TRUE
    /\ coordinator = <<>>
    /\ journals = 0
    /\ pc = "down"
    /\ alt_chain = <<>>
    /\ disconnected_chain = <<>>
    /\ target_height = 0

\* Mutant: the height that the coordinator expects is not compared.
AcceptedAtAnyHeight(b) ==
    /\ prev_id(b) = Tip(batch)
    /\ check_block(Len(batch), b)
    /\ Connects(coordinator, b)

\* Whether a block passes the checks of its parent, of its height and of connect_block,
\* which compares the height of the database with the one that the coordinator expects.
Accepted(b) ==
    /\ prev_id(b) = Tip(batch)
    /\ check_block(Len(batch), b)
    /\ Len(coordinator) = Len(batch)
    /\ Connects(coordinator, b)

\* Mutant: the oldest journal is not trimmed.
AddBlockUntrimmed(b) ==
    /\ Accepted(b)
    /\ coordinator' = Append(coordinator, b)
    /\ journals' = journals + 1
    /\ batch' = Append(batch, [block |-> b, state_hash |-> Append(coordinator, b)])
    /\ UNCHANGED <<db, m_batch_success>>

\* Mutant: the commitment is the state before the block.
AddBlockStaleCommitment(b) ==
    /\ Accepted(b)
    /\ coordinator' = Append(coordinator, b)
    /\ journals' = Window(journals + 1)
    /\ batch' = Append(batch, [block |-> b, state_hash |-> coordinator])
    /\ UNCHANGED <<db, m_batch_success>>

\* handle_block_to_main_chain, when everything succeeds.
AddBlock(b) ==
    /\ Accepted(b)
    /\ coordinator' = Append(coordinator, b)
    /\ journals' = Window(journals + 1)
    /\ batch' = Append(batch, [block |-> b, state_hash |-> Append(coordinator, b)])
    /\ UNCHANGED <<db, m_batch_success>>

RefuseBlock(b) ==
    /\ ~ Accepted(b)
    /\ UNCHANGED <<db, batch, m_batch_success, coordinator, journals>>

\* Mutant: the exception does not doom the batch.
AddBlockThrowsCommitted(b) ==
    /\ "add_block" \in Faults
    /\ Accepted(b)
    /\ batch' \in {batch, Append(batch, [block |-> b, state_hash |-> NoCommitment])}
    /\ journals' = Window(journals + 1) - 1
    /\ UNCHANGED <<db, coordinator, m_batch_success>>

\* add_block throws after the coordinator has connected the block.  It may have
\* written the block without its commitment; the coordinator disconnects its tip,
\* having trimmed its journals for a block that did not stay.
AddBlockThrows(b) ==
    /\ "add_block" \in Faults
    /\ Accepted(b)
    /\ batch' \in {batch, Append(batch, [block |-> b, state_hash |-> NoCommitment])}
    /\ m_batch_success' = FALSE
    /\ journals' = Window(journals + 1) - 1
    /\ UNCHANGED <<db, coordinator>>

\* Mutant: no replay when the journals are used up.
RollbackWithoutReplay(popped_height, d) ==
    IF Len(coordinator) - 1 # popped_height \/ journals = 0
    THEN UNCHANGED <<coordinator, journals>>
    ELSE /\ coordinator' = Front(coordinator)
         /\ journals' = journals - 1

\* rollback_epose_block, for a chain that has lost its tip at popped_height.
rollback_epose_block(popped_height, d) ==
    IF Len(coordinator) - 1 # popped_height THEN UNCHANGED <<coordinator, journals>>
    ELSE IF journals = 0 THEN rebuild_epose_state(d)
    ELSE /\ coordinator' = Front(coordinator)
         /\ journals' = journals - 1

\* Mutant: the height of the chain before the pop is passed on.
PopBlockOffByOne ==
    /\ Len(batch) > 1
    /\ batch' = Front(batch)
    /\ rollback_epose_block(Len(batch), Front(batch))
    /\ UNCHANGED <<db, m_batch_success>>

\* pop_block_from_blockchain, which throws rather than pop the genesis block.
PopBlock ==
    /\ Len(batch) > 1
    /\ batch' = Front(batch)
    /\ rollback_epose_block(Len(batch) - 1, Front(batch))
    /\ UNCHANGED <<db, m_batch_success>>

\* The database throws while it pops; inside a batch nothing undoes what it did.
PopBlockThrows ==
    /\ "pop_block" \in Faults
    /\ batch' \in {batch, Front(batch)}

-----------------------------------------------------------------------------
(* Incoming blocks *)

\* prepare_handle_incoming_blocks.
Prepare ==
    /\ pc = "idle"
    /\ pc' = "incoming"
    /\ batch' = db
    /\ m_batch_success' = TRUE
    /\ UNCHANGED <<db, coordinator, journals, switchVars>>

\* add_new_block with a block on the tip; the caller gives up at the first failure.
AddToTip(b) ==
    /\ pc = "incoming"
    /\ prev_id(b) = Tip(batch)
    /\ \/ AddBlock(b) /\ UNCHANGED pc
       \/ (RefuseBlock(b) \/ AddBlockThrows(b)) /\ pc' = "cleanup"
    /\ UNCHANGED switchVars

\* handle_alternative_block: the new block completes an alternative chain that leaves
\* the main one at split_height.  A block at a checkpoint starts the switch whatever
\* the work, any other one when its chain has more work than the main one.
BeginSwitch(chain, split_height) ==
    LET height == split_height + Len(chain) - 1
    IN  /\ pc = "incoming"
        /\ split_height < Len(batch)
        /\ StandsAt(batch, split_height, prev_id(Head(chain)))
        /\ \A i \in DOMAIN batch : batch[i].block # Head(chain)
        /\ prev_id(chain[Len(chain)]) # Tip(batch)
        /\ is_alternative_block_allowed(Len(batch), height)
        /\ \A i \in DOMAIN chain : check_block(split_height + i - 1, chain[i])
        /\ \/ height \in DOMAIN m_points
           \/ Work(chain) > Work(SubSeq(Blocks(batch), split_height + 1, Len(batch)))
        /\ pc' = "switch"
        /\ alt_chain' = chain
        /\ disconnected_chain' = <<>>
        /\ UNCHANGED <<db, batch, m_batch_success, coordinator, journals, target_height>>

\* switch_to_alternative_blockchain pops down to the parent of the first block ...
SwitchPop ==
    /\ pc = "switch"
    /\ Tip(batch) # prev_id(Head(alt_chain))
    /\ \/ /\ PopBlock
          /\ disconnected_chain' = <<Tip(batch)>> \o disconnected_chain
          /\ UNCHANGED pc
       \/ /\ PopBlockThrows
          /\ pc' = "cleanup"
          /\ UNCHANGED <<db, m_batch_success, coordinator, journals, disconnected_chain>>
    /\ UNCHANGED <<alt_chain, target_height>>

\* ... takes the height of the split ...
SwitchSplit ==
    /\ pc = "switch"
    /\ Tip(batch) = prev_id(Head(alt_chain))
    /\ pc' = "connect"
    /\ target_height' = Len(batch)
    /\ UNCHANGED <<db, batch, m_batch_success, coordinator, journals, alt_chain,
                   disconnected_chain>>

\* Mutant: a refused block is tried again.
SwitchConnectInsists ==
    LET b == Head(alt_chain)
    IN  /\ pc = "connect"
        /\ \/ /\ AddBlock(b)
              /\ pc' = IF Len(alt_chain) = 1 THEN "incoming" ELSE "connect"
              /\ alt_chain' = Tail(alt_chain)
           \/ /\ RefuseBlock(b) \/ AddBlockThrows(b)
              /\ UNCHANGED <<pc, alt_chain>>
        /\ UNCHANGED <<disconnected_chain, target_height>>

\* ... and connects the alternative chain; at a failure it restores the old one.
SwitchConnect ==
    LET b == Head(alt_chain)
    IN  /\ pc = "connect"
        /\ \/ AddBlock(b) /\ pc' = IF Len(alt_chain) = 1 THEN "incoming" ELSE "connect"
           \/ (RefuseBlock(b) \/ AddBlockThrows(b)) /\ pc' = "unwind"
        /\ alt_chain' = Tail(alt_chain)
        /\ UNCHANGED <<disconnected_chain, target_height>>

\* rollback_blockchain_switching pops what the switch has connected ...
UnwindPop ==
    /\ pc = "unwind"
    /\ Len(batch) # target_height
    /\ \/ PopBlock /\ UNCHANGED pc
       \/ /\ PopBlockThrows
          /\ pc' = "cleanup"
          /\ UNCHANGED <<db, m_batch_success, coordinator, journals>>
    /\ UNCHANGED switchVars

UnwindDone ==
    /\ pc = "unwind"
    /\ Len(batch) = target_height
    /\ pc' = IF disconnected_chain = <<>> THEN "cleanup" ELSE "restore"
    /\ UNCHANGED <<db, batch, m_batch_success, coordinator, journals, switchVars>>

\* ... and adds the original chain again.
Restore ==
    LET b == Head(disconnected_chain)
    IN  /\ pc = "restore"
        /\ \/ AddBlock(b) /\ pc' = IF Len(disconnected_chain) = 1 THEN "cleanup" ELSE "restore"
           \/ (RefuseBlock(b) \/ AddBlockThrows(b)) /\ pc' = "cleanup"
        /\ disconnected_chain' = Tail(disconnected_chain)
        /\ UNCHANGED <<alt_chain, target_height>>

\* The commit of the batch fails: the transaction is gone, the coordinator stays.
BatchStopThrows ==
    /\ "batch_stop" \in Faults
    /\ batch' = db
    /\ UNCHANGED <<db, coordinator, journals>>

BatchStop ==
    /\ db' = batch
    /\ UNCHANGED <<batch, coordinator, journals>>

\* Mutant: no rebuild after the abort.
CleanupWithoutRebuild ==
    /\ pc \in {"incoming", "cleanup"}
    /\ \/ m_batch_success /\ (BatchStop \/ BatchStopThrows)
       \/ /\ ~ m_batch_success
          /\ batch' = db
          /\ UNCHANGED <<db, coordinator, journals>>
    /\ pc' = "idle"
    /\ UNCHANGED <<m_batch_success, switchVars>>

\* cleanup_handle_incoming_blocks.
Cleanup ==
    /\ pc \in {"incoming", "cleanup"}
    /\ \/ m_batch_success /\ (BatchStop \/ BatchStopThrows)
       \/ /\ ~ m_batch_success
          /\ batch' = db
          /\ rebuild_epose_state(db)
          /\ UNCHANGED db
    /\ pc' = "idle"
    /\ UNCHANGED <<m_batch_success, switchVars>>

-----------------------------------------------------------------------------
(* The command of the operator that pops blocks *)

pop_blocks(n) ==
    /\ pc = "idle"
    /\ pc' = "pop"
    /\ batch' = db
    /\ target_height' = IF n < Len(db) THEN Len(db) - n ELSE 1
    /\ UNCHANGED <<db, m_batch_success, coordinator, journals, alt_chain, disconnected_chain>>

\* An exception aborts the batch.
PopStep ==
    /\ pc = "pop"
    /\ Len(batch) # target_height
    /\ \/ PopBlock /\ UNCHANGED pc
       \/ /\ "pop_block" \in Faults
          /\ batch' = db
          /\ pc' = "idle"
          /\ UNCHANGED <<db, m_batch_success, coordinator, journals>>
    /\ UNCHANGED switchVars

PopDone ==
    /\ pc = "pop"
    /\ Len(batch) = target_height
    /\ BatchStop \/ BatchStopThrows
    /\ pc' = "idle"
    /\ UNCHANGED <<m_batch_success, switchVars>>

-----------------------------------------------------------------------------
(* The process *)

\* The process dies at any point; the database keeps what it has committed.
Crash ==
    /\ "crash" \in Faults
    /\ pc \notin {"down", "halted"}
    /\ pc' = "down"
    /\ batch' = db
    /\ m_batch_success' = TRUE
    /\ coordinator' = <<>>
    /\ journals' = 0
    /\ alt_chain' = <<>>
    /\ disconnected_chain' = <<>>
    /\ target_height' = 0
    /\ UNCHANGED db

\* Blockchain::init, which fails when the state cannot be rebuilt.
Start ==
    /\ pc = "down"
    /\ pc' = IF Replays(db) THEN "idle" ELSE "halted"
    /\ rebuild_epose_state(db)
    /\ UNCHANGED <<db, batch, m_batch_success, switchVars>>

\* The steps that a procedure takes without waiting for anybody.
Procedure ==
    \/ SwitchPop \/ SwitchSplit \/ SwitchConnect
    \/ UnwindPop \/ UnwindDone \/ Restore
    \/ PopStep \/ PopDone

\* The blocks, the alternative chains and the pops are inputs.
NextWith(blocks, chains, pops) ==
    \/ Prepare
    \/ \E b \in blocks : AddToTip(b)
    \/ \E chain \in chains : \E h \in 1..Len(batch) : BeginSwitch(chain, h)
    \/ Procedure
    \/ Cleanup
    \/ \E n \in pops : pop_blocks(n)
    \/ Crash
    \/ Start

IsChain(chain) == \A i \in 2..Len(chain) : prev_id(chain[i]) = chain[i - 1]

Chains == {chain \in Seq(Block) : chain # <<>> /\ IsChain(chain)}

Next == NextWith(Block, Chains, Nat)

Spec == Init /\ [][Next]_vars

\* A procedure that runs holds the lock and goes on, a batch of blocks ends, and
\* whoever keeps the node running starts it again.
Fairness == WF_vars(Procedure) /\ WF_vars(Cleanup) /\ WF_vars(Start)

-----------------------------------------------------------------------------
(* Properties *)

\* Every variable has the type of what it models.
TypeOK ==
    LET Entries == Seq([block : Block, state_hash : Seq(Block)])
    IN  /\ db \in Entries
        /\ batch \in Entries
        /\ m_batch_success \in BOOLEAN
        /\ coordinator \in Seq(Block)
        /\ journals \in 0..max_recent_undo_blocks
        /\ pc \in {"idle", "incoming", "switch", "connect", "unwind", "restore",
                   "cleanup", "pop", "down", "halted"}
        /\ alt_chain \in Seq(Block)
        /\ disconnected_chain \in Seq(Block)
        /\ target_height \in Nat

\* The coordinator is the one of the canonical chain whenever the node is idle:
\* "Rebuild only after the abort completed so memory and the canonical database
\* converge again" (blockchain.cpp:5985).
IdleCoordinatorCanonical == pc = "idle" => coordinator = Blocks(db)

\* Inside a batch that is not doomed the coordinator follows block by block what
\* the write transaction shows, so a block is judged in the state of its parent
\* although connect_block only compares heights (blockchain.cpp:751, :5558).
CoordinatorFollowsBatch ==
    pc \notin {"down", "halted", "idle"} /\ (m_batch_success \/ pc = "pop") =>
        coordinator = Blocks(batch)

\* Whatever was committed can be replayed with the commitments stored next to it:
\* a crash at any point leaves a database that init accepts (blockchain.cpp:492).
DatabaseReplays == Replays(db)

\* A switch that EPoSE refuses half-way can always put the original chain back,
\* also when it went deeper than the journals: the branch "PANIC! failed to add
\* (again) block" is not taken unless the database failed (blockchain.cpp:2123).
RestoreNeverRefused ==
    pc = "restore" /\ m_batch_success => Accepted(Head(disconnected_chain))

\* What a chain may be replaced by: it has passed the same checkpoints and has as much
\* work, or it has passed more of them.
NoWorse(new, old) ==
    /\ Passed(old) \subseteq Passed(new)
    /\ Passed(new) = Passed(old) => Work(new) >= Work(old)

\* Unless the operator pops blocks, a commit gives up no checkpoint that the chain has
\* passed, and loses work only to pass one: a failed switch is undone before its batch
\* is committed, and a switch for the sake of a checkpoint (blockchain.cpp:3217) is not
\* followed, in its batch, by one that goes back below it (blockchain.cpp:3011).
CommitNeverWorse ==
    [][db' # db /\ pc # "pop" => NoWorse(Blocks(db'), Blocks(db))]_vars

\* Whether a block is valid after the blocks of a state, by its height and by EPoSE.
ConnectsAt(state, b) == check_block(Len(state), b) /\ Connects(state, b)

Canonical == INSTANCE CanonicalState
                 WITH chain <- Blocks(db),
                      served <- IF pc = "idle" THEN coordinator ELSE <<>>,
                      Connects <- ConnectsAt

\* The node serves the state of a valid canonical chain, and of nothing else.
ServesCanonicalState == Canonical!Spec

StartsWith(seq, front) == Len(front) <= Len(seq) /\ SubSeq(seq, 1, Len(front)) = front

\* The coordinator of an idle node is on the branch of the chain, ahead of it or behind.
OnBranch ==
    pc = "idle" => StartsWith(coordinator, Blocks(db)) \/ StartsWith(Blocks(db), coordinator)

\* A pop or a commit that fails leaves an idle node with a coordinator that is not the
\* one of its chain.  As long as such a coordinator is on the branch of the chain, the
\* height that connect_block compares (blockchain.cpp:751) keeps its state out of the
\* database whatever happens next, and every crash is followed by a start with the
\* coordinator of the chain (blockchain.cpp:492).  A commit that fails after a switch
\* leaves it on another branch; failed_commit shows what may follow.
RestartHeals == []OnBranch => (pc = "down" ~> pc = "idle" /\ coordinator = Blocks(db))

\* Every procedure ends and every crash is recovered from, in a coordinator that
\* is the one of the chain.
Recovers == []<>(pc = "idle" /\ coordinator = Blocks(db))

=============================================================================
