--------------------------- MODULE CanonicalState ---------------------------
(***************************************************************************)
(* What the node promises about its EPoSE state: whenever it serves one,   *)
(* it is the state of the canonical chain, and that chain is valid from    *)
(* the genesis block on.  A state is named by the blocks that lead to it,  *)
(* so that serving the state of a chain is serving that chain.             *)
(***************************************************************************)
EXTENDS Integers, Sequences

CONSTANTS
    Genesis,        \* the block at height 0
    prev_id(_),     \* the parent of a block
    Connects(_, _)  \* whether a block is valid after the blocks before it

VARIABLES
    chain,          \* the canonical chain
    served          \* the chain whose state is served, <<>> while there is none

Valid(blocks) ==
    /\ blocks # <<>>
    /\ blocks[1] = Genesis
    /\ \A i \in 2..Len(blocks) : prev_id(blocks[i]) = blocks[i - 1]
    /\ \A i \in 1..Len(blocks) : Connects(SubSeq(blocks, 1, i - 1), blocks[i])

Init == Valid(chain) /\ served = <<>>

\* The node stops serving: it is busy, or down.
Leave == served # <<>> /\ served' = <<>> /\ UNCHANGED chain

\* The node serves a state again, that of a chain which may be another one.
Settle == served = <<>> /\ Valid(chain') /\ served' = chain'

Next == Leave \/ Settle

Spec == Init /\ [][Next]_<<chain, served>>

=============================================================================
