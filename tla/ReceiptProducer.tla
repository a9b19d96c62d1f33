-------------------------- MODULE ReceiptProducer --------------------------
(***************************************************************************)
(* The production of service receipts by one verifier                      *)
(* (update_epose_v2_receipt_producer).  A call of the producer collects    *)
(* the probe that ended, or walks over the subjects that the verifier has  *)
(* to probe in the open round, in the order of the snapshot: it forgets    *)
(* the slots that are on the chain, sends a kept envelope again when it is *)
(* time, and probes the first subject that may be tried.  One probe runs   *)
(* at a time, and between two probes there are at least 30 seconds.        *)
(*                                                                         *)
(* A context is an open round together with the block that anchors it; a   *)
(* slot is a context and a subject.  pool is what miners have of this      *)
(* verifier's receipts.                                                    *)
(***************************************************************************)
EXTENDS RetryTracker, Sequences

CONSTANTS
    Context,    \* the rounds with their anchors
    subjects,   \* the members that this verifier probes, in the order of the snapshot
    Reachable,  \* the subjects that answer
    max_probe,  \* how long a probe may take, in ticks
    hardened,   \* the chain has reached QWC_EPOSE_RELAY_HARDENING_HEIGHT
    Faults      \* of {"launch", "refused", "restart", "lost", "reorg"}

Subject == {subjects[i] : i \in DOMAIN subjects}

ASSUME ReceiptAssumption ==
    /\ NoContext \notin Context
    /\ subjects \in Seq(Subject)
    /\ \A i, j \in DOMAIN subjects : subjects[i] = subjects[j] => i = j
    /\ Reachable \subseteq Subject
    /\ max_probe \in Nat
    /\ hardened \in BOOLEAN
    /\ Faults \subseteq {"launch", "refused", "restart", "lost", "reorg"}

VARIABLES
    context,    \* of the round that is open, if one is
    canonical,  \* slots with a receipt on the chain
    pool,       \* slots with a receipt that miners may include
    tracker,
    future,     \* the probe
    pause       \* the last probe began or ended less than 30 seconds ago

vars == <<context, canonical, pool, tracker, future, pause>>

Slot == Context \X Subject

NoProbe == [slot |-> <<>>, status |-> "none", age |-> 0]

\* A probe, and for how many ticks it runs.
Probe == [slot : Slot, status : {"running", "accepted", "failed"}, age : 0..max_probe]

-----------------------------------------------------------------------------
(* A call that finds a probe that has ended *)

\* The relay pool takes only receipts of the open round.
Admissible(slot) == slot[1] = context

\* The slot has to wait before it is tried again.
BackOff ==
    /\ tracker' = failed(tracker, future.slot)
    /\ future' = NoProbe
    /\ pause' = TRUE
    /\ UNCHANGED <<context, canonical, pool>>

CollectFailure == future.status = "failed" /\ BackOff

CollectExpired == future.status = "accepted" /\ ~ Admissible(future.slot) /\ BackOff

\* The relay pool is full, or the node has just lost its synchronisation.
CollectRefused ==
    /\ "refused" \in Faults
    /\ future.status = "accepted"
    /\ Admissible(future.slot)
    /\ BackOff

CollectReceipt ==
    /\ future.status = "accepted"
    /\ Admissible(future.slot)
    /\ tracker' = submitted(tracker, future.slot, hardened)
    /\ pool' = pool \cup ({future.slot} \ canonical)
    /\ future' = NoProbe
    /\ pause' = TRUE
    /\ UNCHANGED <<context, canonical>>

-----------------------------------------------------------------------------
(* A call that walks over the subjects *)

SlotOf(subject) == <<context, subject>>

Resends(t, slot) == slot \notin canonical /\ hardened /\ HoldsEnvelope(t, slot)

Probes(t, slot) == slot \notin canonical /\ ~ Resends(t, slot) /\ can_attempt(t, slot)

\* The position of the first subject to probe, or one past the last position.
FirstProbe(t) ==
    CHOOSE k \in 1..(Len(subjects) + 1) :
        /\ k <= Len(subjects) => Probes(t, SlotOf(subjects[k]))
        /\ \A i \in 1..(k - 1) : ~ Probes(t, SlotOf(subjects[i]))

Passed(t) == {SlotOf(subjects[i]) : i \in 1..(FirstProbe(t) - 1)}

\* The slots whose kept envelope is sent again.
Resent(t) == {slot \in Passed(t) : Resends(t, slot) /\ TransportDue(t, slot)}

\* The tracker after the subjects before the one to probe.
Walked(t) ==
    LET kept == DOMAIN t.entries \ (Passed(t) \cap canonical)
    IN  [t EXCEPT !.entries = [slot \in kept |->
            IF slot \in Resent(t) THEN transport_retry(@[slot]) ELSE @[slot]]]

Ready == future = NoProbe /\ ~ pause /\ context # NoContext

Begun == begin_context(tracker, context)

ProbedSlot == SlotOf(subjects[FirstProbe(Begun)])

\* There is a subject to probe, and an entry for it.
Starts == FirstProbe(Begun) <= Len(subjects) /\ CanStart(Walked(Begun), ProbedSlot)

WalkPast ==
    /\ Ready
    /\ ~ Starts
    /\ tracker' = Walked(Begun)
    /\ pool' = pool \cup Resent(Begun)
    /\ UNCHANGED <<context, canonical, future, pause>>

StartProbe ==
    /\ Ready
    /\ Starts
    /\ tracker' = start(Walked(Begun), ProbedSlot)
    /\ pool' = pool \cup Resent(Begun)
    /\ future' = [slot |-> ProbedSlot, status |-> "running", age |-> 0]
    /\ pause' = TRUE
    /\ UNCHANGED <<context, canonical>>

\* Mutant: the tracker is not told.
LaunchForgotten ==
    /\ "launch" \in Faults
    /\ Ready
    /\ Starts
    /\ tracker' = start(Walked(Begun), ProbedSlot)
    /\ pool' = pool \cup Resent(Begun)
    /\ pause' = TRUE
    /\ UNCHANGED <<context, canonical, future>>

\* The thread of the probe cannot be started.
LaunchFails ==
    /\ "launch" \in Faults
    /\ Ready
    /\ Starts
    /\ tracker' = failed(start(Walked(Begun), ProbedSlot), ProbedSlot)
    /\ pool' = pool \cup Resent(Begun)
    /\ pause' = TRUE
    /\ UNCHANGED <<context, canonical, future>>

Call ==
    \/ CollectFailure
    \/ CollectExpired
    \/ CollectRefused
    \/ CollectReceipt
    \/ WalkPast
    \/ StartProbe
    \/ LaunchFails

-----------------------------------------------------------------------------
(* The probe, the clock, the chain and the network *)

\* A subject answers or the probe runs into its timeouts, one for every endpoint that it
\* asks for the descriptor and one for the service.
ProbeEnds ==
    /\ future.status = "running"
    /\ future' = [future EXCEPT !.age = 0, !.status =
                    IF future.slot[2] \in Reachable THEN "accepted" ELSE "failed"]
    /\ UNCHANGED <<context, canonical, pool, tracker, pause>>

\* A call would do something.
Due ==
    \/ future.status \in {"accepted", "failed"}
    \/ /\ Ready
       /\ Starts \/ Walked(Begun) # tracker

\* 30 seconds pass.  The daemon calls the producer every second, so no call is overtaken;
\* a probe is, for as long as it may take.
Tick ==
    /\ ~ Due
    /\ future.status = "running" => future.age < max_probe
    /\ tracker' = Elapsed(tracker)
    /\ future' = IF future.status = "running" THEN [future EXCEPT !.age = @ + 1] ELSE future
    /\ pause' = FALSE
    /\ UNCHANGED <<context, canonical, pool>>

\* Another round opens or closes, or the anchor of the round is replaced.
ChangeContext(c) ==
    /\ c # context
    /\ context' = c
    /\ canonical' = {}
    /\ pool' = {}
    /\ UNCHANGED <<tracker, future, pause>>

Include ==
    \E slot \in pool :
        /\ canonical' = canonical \cup {slot}
        /\ pool' = pool \ {slot}
        /\ UNCHANGED <<context, tracker, future, pause>>

\* A block with a receipt is disconnected.
Disconnect ==
    \E slot \in canonical :
        /\ "reorg" \in Faults
        /\ canonical' = canonical \ {slot}
        /\ UNCHANGED <<context, pool, tracker, future, pause>>

\* A receipt does not reach the miners, or they forget it.
Lose ==
    \E slot \in pool :
        /\ "lost" \in Faults
        /\ pool' = pool \ {slot}
        /\ UNCHANGED <<context, canonical, tracker, future, pause>>

\* The daemon stops and starts again.
Restart ==
    /\ "restart" \in Faults
    /\ tracker' = EmptyTracker
    /\ future' = NoProbe
    /\ pause' = FALSE
    /\ UNCHANGED <<context, canonical, pool>>

Init ==
    /\ context = NoContext
    /\ canonical = {}
    /\ pool = {}
    /\ tracker = EmptyTracker
    /\ future = NoProbe
    /\ pause = FALSE

Next ==
    \/ Call
    \/ ProbeEnds
    \/ Tick
    \/ \E c \in Context \cup {NoContext} : ChangeContext(c)
    \/ Include
    \/ Disconnect
    \/ Lose
    \/ Restart

Spec == Init /\ [][Next]_vars

\* The daemon stays synchronised and keeps calling, probes end and time passes.
Fairness ==
    /\ WF_vars(Call)
    /\ WF_vars(ProbeEnds)
    /\ WF_vars(Tick)

-----------------------------------------------------------------------------
(* Properties *)

\* Every variable has the type of the field or local it models, and the tracker never
\* holds more than max_entries attempts (service_producer_v2.cpp:208).
TypeOK ==
    /\ context \in Context \cup {NoContext}
    /\ canonical \subseteq Slot
    /\ pool \subseteq Slot
    /\ tracker.context \in Context \cup {NoContext}
    /\ DOMAIN tracker.entries \subseteq Slot
    /\ Cardinality(DOMAIN tracker.entries) <= max_entries
    /\ \A slot \in DOMAIN tracker.entries : tracker.entries[slot] \in Entries
    /\ future \in Probe \cup {NoProbe}
    /\ pause \in BOOLEAN

\* The entry in flight is the one of the probe, while there is a probe: an attempt that
\* ended in any way, also in a round that is over, never blocks its slot, and no probe
\* runs that the tracker has forgotten (service_producer_v2.cpp:198).
OneAttempt ==
    {slot \in DOMAIN tracker.entries : tracker.entries[slot].in_flight}
        = IF future = NoProbe THEN {} ELSE {future.slot}

\* How many subjects before this one do not answer.
SilentBefore(s) ==
    Cardinality({i \in DOMAIN subjects :
        subjects[i] \notin Reachable /\ \E j \in DOMAIN subjects : i < j /\ subjects[j] = s})

\* The first of them is not due again when all of them have been probed once, each for
\* as long as a probe may take, and each followed by a pause.
InTurn(s) ==
    \/ SilentBefore(s) = 0
    \/ (SilentBefore(s) - 1) * (max_probe + 1) + 1 < max_backoff

\* A subject that answers is served although subjects before it do not, as long as the
\* delay of those outlasts their probes: the miners have its receipt again and again until
\* it is on the chain, although the relay pool refuses receipts, receipts are lost, blocks
\* disconnected and the daemon restarted.  With more silent subjects before it, or longer
\* probes, those may be due first every time, and then it is never reached
\* (cryptonote_core.cpp:1406).
RetriesAreFair ==
    \A s \in {r \in Reachable : InTurn(r)} :
        []<>(context = NoContext \/ SlotOf(s) \in pool \cup canonical)

=============================================================================
