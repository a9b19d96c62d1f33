---------------------------- MODULE MCBlockchain ----------------------------
(***************************************************************************)
(* The chain for TLC: a small tree of blocks, some of which EPoSE refuses. *)
(* A block is named by its branch and its height.  The last block of A is  *)
(* a checkpoint; B and C each have a block with more work than A.          *)
(***************************************************************************)
EXTENDS Blockchain

CONSTANTS
    Tree,       \* the blocks above the genesis block, each with its parent
    Heavy,      \* the blocks that count five times
    Bad,        \* the blocks that connect_block refuses
    MaxFailures \* of the database, other than in add_block

VARIABLE failures   \* so far

mcVars == <<vars, failures>>

\* Branch A grows by five blocks.  B leaves the genesis block, C the first of A.
ThreeBranches ==
    {<<"a1", "g">>, <<"a2", "a1">>, <<"a3", "a2">>, <<"a4", "a3">>, <<"a5", "a4">>,
     <<"b1", "g">>, <<"b2", "b1">>, <<"b3", "b2">>,
     <<"c2", "a1">>, <<"c3", "c2">>, <<"c4", "c3">>, <<"c5", "c4">>}

\* The blocks up to the third height.
ShortBranches == {t \in ThreeBranches : t[1] \notin {"a4", "a5", "c4", "c5"}}

MCBlock == {"g"} \cup {t[1] : t \in Tree}

MCprev_id(b) == IF b = "g" THEN "g" ELSE (CHOOSE t \in Tree : t[1] = b)[2]

MCdifficulty(b) == IF b \in Heavy THEN 5 ELSE 1

MCpoints == [h \in {0, 5} |-> IF h = 0 THEN "g" ELSE "a5"]

MCConnects(state, b) == b \notin Bad

MaxLen == 4

\* The paths of the tree that have at most MaxLen blocks.
LongerBy(chains) ==
    chains \cup UNION {{Append(chain, t[1]) : t \in {u \in Tree : u[2] = chain[Len(chain)]}} :
                         chain \in chains}

MCChains == LongerBy(LongerBy(LongerBy({<<t[1]>> : t \in Tree})))

CandidateBlocks == MCBlock \ {"g"}

\* The database throws where the coordinator has moved already.
Failure ==
    \/ pc = "switch" /\ pc' = "cleanup"
    \/ pc = "unwind" /\ pc' = "cleanup" /\ Len(batch) # target_height
    \/ pc' = "idle" /\ db' = db /\ batch # db /\ (m_batch_success \/ pc = "pop")

MCInit == Init /\ failures = 0

MCNext ==
    /\ NextWith(CandidateBlocks, MCChains, 1..MaxLen)
    /\ failures' = IF Failure THEN failures + 1 ELSE failures
    /\ failures' <= MaxFailures

MCSpec == MCInit /\ [][MCNext]_mcVars /\ Fairness

=============================================================================
