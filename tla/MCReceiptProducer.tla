------------------------- MODULE MCReceiptProducer -------------------------
(***************************************************************************)
(* The receipt producer for TLC: the times of the daemon in ticks of 30    *)
(* seconds, and bounds on the changes of the context, the disconnected     *)
(* receipts, the refused ones, the restarts and the failed launches.       *)
(***************************************************************************)
EXTENDS ReceiptProducer

CONSTANTS MaxChanges, MaxFaults

VARIABLES
    changes,    \* changes of the context so far
    faults      \* restarts, failed launches, refused and disconnected receipts so far

mcVars == <<vars, changes, faults>>

Three == <<1, 2, 3>>

MCInit == Init /\ changes = 0 /\ faults = 0

Steady(step) == step /\ UNCHANGED <<changes, faults>>

Fault(step) == step /\ faults < MaxFaults /\ faults' = faults + 1 /\ changes' = changes

MCNext ==
    \/ Steady(CollectFailure)
    \/ Steady(CollectExpired)
    \/ Fault(CollectRefused)
    \/ Steady(CollectReceipt)
    \/ Steady(WalkPast)
    \/ Steady(StartProbe)
    \/ Fault(LaunchFails)
    \/ Steady(ProbeEnds)
    \/ Steady(Tick)
    \/ /\ changes < MaxChanges
       /\ changes' = changes + 1
       /\ faults' = faults
       /\ \E c \in Context \cup {NoContext} : ChangeContext(c)
    \/ Steady(Include)
    \/ Fault(Disconnect)
    \/ Steady(Lose)
    \/ Fault(Restart)

MCSpec == MCInit /\ [][MCNext]_mcVars /\ Fairness

=============================================================================
