------------------------------ MODULE EventLog ------------------------------
(***************************************************************************)
(* The table integration_events: the outbox every consumer reads by cursor.*)
(*                                                                         *)
(* emit_event inserts a row in the transaction of its caller. The row      *)
(* takes its event_id from a sequence at once; visible_at is set by a      *)
(* deferred trigger, at COMMIT. Readers see the rows whose visible_at lies *)
(* at least two seconds (the visibility floor) in the past.                *)
(***************************************************************************)
EXTENDS Naturals, Sequences

CONSTANT MaxEvents  \* how many ids the sequence hands out

ASSUME MaxEventsAssumption == MaxEvents \in Nat

VARIABLES
    next_event,  \* the id the sequence gives next
    writing,     \* ids inserted by transactions that are still open
    log,         \* committed ids in the order of visible_at
    ripe         \* how many of them have passed the floor

event_vars == <<next_event, writing, log, ripe>>

EventIds == 1..MaxEvents

Committed == {log[i] : i \in 1..Len(log)}

\* visible_at <= NOW() - INTERVAL '2 seconds': the oldest commits first.
Readable == {log[i] : i \in 1..ripe}

EventInit ==
    /\ next_event = 1
    /\ writing = {}
    /\ log = << >>
    /\ ripe = 0

emit_event ==
    /\ next_event \in EventIds
    /\ writing' = writing \cup {next_event}
    /\ next_event' = next_event + 1
    /\ UNCHANGED <<log, ripe>>

\* COMMIT of the transaction that wrote e; the deferred trigger stamps visible_at.
commit_event(e) ==
    /\ e \in writing
    /\ writing' = writing \ {e}
    /\ log' = Append(log, e)
    /\ UNCHANGED <<next_event, ripe>>

\* The transaction rolls back: its id is never used.
rollback_event(e) ==
    /\ e \in writing
    /\ writing' = writing \ {e}
    /\ UNCHANGED <<next_event, log, ripe>>

\* Two seconds after its commit an event is past the floor.
pass_floor ==
    /\ ripe < Len(log)
    /\ ripe' = ripe + 1
    /\ UNCHANGED <<next_event, writing, log>>

EventNext ==
    \/ emit_event
    \/ \E e \in writing : commit_event(e) \/ rollback_event(e)
    \/ pass_floor

EventTypeOK ==
    /\ next_event \in 1..(MaxEvents + 1)
    /\ writing \subseteq EventIds
    /\ log \in Seq(EventIds)
    /\ ripe \in 0..Len(log)
=============================================================================
