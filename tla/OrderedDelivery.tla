--------------------------- MODULE OrderedDelivery --------------------------
(***************************************************************************)
(* What the dispatcher promises a subscriber about order. An event is      *)
(* tried, perhaps many times, until it is settled (accepted, or put on the *)
(* dead-letter queue); the cursor is the last event settled. A new event   *)
(* is tried only when everything tried before it lies below it and is      *)
(* settled: the head of the line blocks the rest.                          *)
(***************************************************************************)
EXTENDS Naturals

CONSTANT Events

VARIABLES tried, cursor

Init ==
    /\ tried = {}
    /\ cursor = 0

\* A retry, a replay, or a repetition after a crash: delivery is at least once.
TryAgain(e) ==
    /\ e \in tried
    /\ UNCHANGED <<tried, cursor>>

TryNext(e) ==
    /\ \A t \in tried : t < e /\ t <= cursor
    /\ tried' = tried \cup {e}
    /\ UNCHANGED cursor

Settle(e) ==
    /\ e \in tried
    /\ cursor < e
    /\ cursor' = e
    /\ UNCHANGED tried

Next == \E e \in Events : TryAgain(e) \/ TryNext(e) \/ Settle(e)

Spec == Init /\ [][Next]_<<tried, cursor>>
=============================================================================
