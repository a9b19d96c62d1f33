---------------------------- MODULE RetryTracker ----------------------------
(***************************************************************************)
(* The retries of the receipt producer (receipt_retry_tracker_v2).  The    *)
(* tracker remembers, for the round that is open and the block that        *)
(* anchors it, when each receipt slot may be tried again.                  *)
(*                                                                         *)
(* The operators take the tracker t as their first parameter.  Times are   *)
(* counted in ticks of 30 seconds, the shortest time that the producer     *)
(* tells apart; next_attempt_ms is what is left of it, 0 once it is past.  *)
(***************************************************************************)
EXTENDS Integers, FiniteSets

CONSTANTS
    max_entries,
    base_backoff,
    max_backoff,
    resubmit,
    max_transport_attempts,
    FailuresMax             \* the largest value of the failure counter

\* What begin_context insists on.
ASSUME TrackerAssumption ==
    /\ {max_entries, base_backoff, resubmit, max_transport_attempts} \subseteq Nat \ {0}
    /\ max_backoff \in Nat
    /\ max_backoff >= base_backoff
    /\ FailuresMax \in Nat \ {0}

NoContext == "none"

NoEntries == <<>>

EmptyTracker == [context |-> NoContext, entries |-> NoEntries]

Entries ==
    [next_attempt : Nat, failures : 0..FailuresMax, in_flight : BOOLEAN,
     envelope : BOOLEAN, window_attempts : 0..max_transport_attempts]

Larger(a, b) == IF a > b THEN a ELSE b

Smaller(a, b) == IF a < b THEN a ELSE b

-----------------------------------------------------------------------------

begin_context(t, context) ==
    IF t.context = context THEN t ELSE [context |-> context, entries |-> NoEntries]

Known(t, slot) == slot \in DOMAIN t.entries

\* A receipt was submitted for the slot and its envelope is kept.
HoldsEnvelope(t, slot) == Known(t, slot) /\ t.entries[slot].envelope

can_attempt(t, slot) ==
    /\ t.context # NoContext
    /\ Known(t, slot) =>
        /\ ~ t.entries[slot].in_flight
        /\ ~ t.entries[slot].envelope
        /\ t.entries[slot].next_attempt = 0

\* There is an entry for the slot or room for one.
CanStart(t, slot) ==
    can_attempt(t, slot) /\ (Known(t, slot) \/ Cardinality(DOMAIN t.entries) < max_entries)

start(t, slot) ==
    IF Known(t, slot) THEN [t EXCEPT !.entries[slot].in_flight = TRUE]
    ELSE [t EXCEPT !.entries = [s \in DOMAIN @ \cup {slot} |->
            IF s = slot THEN [next_attempt |-> 0, failures |-> 0, in_flight |-> TRUE,
                              envelope |-> FALSE, window_attempts |-> 0]
            ELSE @[s]]]

\* Mutant: the delay does not grow.
BackoffFlat(failures) == base_backoff

\* The delay doubles with every failure, up to its limit.
Backoff(failures) ==
    LET delay[n \in 1..FailuresMax] ==
            IF n = 1 THEN base_backoff ELSE Smaller(max_backoff, 2 * delay[n - 1])
    IN  delay[failures]

failed(t, slot) ==
    LET failures == Smaller(FailuresMax, t.entries[slot].failures + 1)
    IN  IF ~ Known(t, slot) THEN t
        ELSE [t EXCEPT !.entries[slot].in_flight = FALSE,
                       !.entries[slot].failures = failures,
                       !.entries[slot].next_attempt = Backoff(failures)]

\* Mutant: the transports of a window are counted on after it.
TransportedOn(entry) ==
    LET exhausted == entry.window_attempts >= max_transport_attempts
    IN  [entry EXCEPT
            !.next_attempt = IF exhausted THEN Larger(resubmit, max_backoff) ELSE resubmit]

\* The entry after one more transport in its window: the last one of a window is
\* followed by the longer pause.
Transported(entry) ==
    LET exhausted == entry.window_attempts >= max_transport_attempts
    IN  [entry EXCEPT
            !.window_attempts = IF exhausted THEN 0 ELSE @,
            !.next_attempt = IF exhausted THEN Larger(resubmit, max_backoff) ELSE resubmit]

\* The envelope is kept when keep says so.
submitted(t, slot, keep) ==
    IF ~ Known(t, slot) THEN t
    ELSE [t EXCEPT !.entries[slot] =
            Transported(IF keep THEN [@ EXCEPT !.in_flight = FALSE, !.envelope = TRUE,
                                               !.window_attempts = 1]
                        ELSE [@ EXCEPT !.in_flight = FALSE])]

TransportDue(t, slot) ==
    /\ HoldsEnvelope(t, slot)
    /\ ~ t.entries[slot].in_flight
    /\ t.entries[slot].next_attempt = 0

transport_retry(entry) == Transported([entry EXCEPT !.window_attempts = @ + 1])

\* 30 seconds pass.
ElapsedEntry(entry) == [entry EXCEPT !.next_attempt = Larger(0, @ - 1)]

Elapsed(t) == [t EXCEPT !.entries = [slot \in DOMAIN @ |-> ElapsedEntry(@[slot])]]

=============================================================================
