-------------------------- MODULE ReversibleState --------------------------
(***************************************************************************)
(* What the block transition promises: a block either takes the state to a *)
(* new one as a whole or does nothing, and for the most recent blocks it   *)
(* can be taken back exactly.                                              *)
(***************************************************************************)
EXTENDS Naturals, Sequences

CONSTANTS State, Start, Window

VARIABLES
    current,    \* the state after the blocks connected so far
    past        \* the states before the most recent blocks, oldest first

vars == <<current, past>>

Init == current = Start /\ past = <<>>

Connect ==
    /\ current' \in State
    /\ past' = IF Len(past) = Window THEN Append(Tail(past), current) ELSE Append(past, current)

Disconnect ==
    /\ past # <<>>
    /\ current' = past[Len(past)]
    /\ past' = SubSeq(past, 1, Len(past) - 1)

Next == Connect \/ Disconnect

Spec == Init /\ [][Next]_vars

=============================================================================
