------------------------- MODULE MCServiceProducer -------------------------
(***************************************************************************)
(* The enrolment of a service node for TLC: three epochs of four blocks.   *)
(* The hash of a block is its height and the number of blocks that were    *)
(* disconnected before it.                                                 *)
(***************************************************************************)
EXTENDS ServiceProducer

CONSTANTS
    MaxHeight,  \* of the chain
    MaxForks,   \* blocks that are ever disconnected
    MaxStops    \* stops of the daemon

VARIABLES
    forks,      \* blocks disconnected so far
    stops       \* stops so far

mcVars == <<vars, forks, stops>>

OneRound == <<0>>

MCBlockHash == (0..MaxHeight) \X (0..MaxForks)

MCScore(subject, round, anchor_hash, key) == 0

BarrenFork == {<<4, 1>>}

MCInit == Init(<<0, 0>>) /\ binding = 1 /\ forks = 0 /\ stops = 0

Counted ==
    /\ forks' = IF Height' < Height THEN forks + 1 ELSE forks
    /\ stops' = IF ready /\ ~ ready' THEN stops + 1 ELSE stops

Bounded == Height' <= MaxHeight /\ forks' <= MaxForks /\ stops' <= MaxStops

MCNext == Next({<<Height, forks>>}) /\ Counted /\ Bounded

MCSpec == MCInit /\ [][MCNext]_mcVars /\ Fairness

=============================================================================
