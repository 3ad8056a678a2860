----------------------------- MODULE MCWorkTasks -----------------------------
(* Small instances of WorkTasks and WorkDispatch for TLC: a shift of ordinary *)
(* work, and the board where supervisors dispatch.                           *)
EXTENDS WorkDispatch, TLC

CONSTANTS ann, bob, root, b1

VARIABLE shift

MCRankOne == ann :> 1
MCRank    == ann :> 1 @@ bob :> 2

\* 30 and 40 minutes per 50 orders, receiving by size; the unit is 10 minutes
MCMinutes == [type \in TaskTypes |->
                CASE type = "PICKING" -> 3
                  [] type = "PACKING" -> 4
                  [] type = "RECEIVING" -> 2
                  [] OTHER -> 1]

\* what create_batch and create_task are asked for
PackNote     == {<<"PICKING", "PACKING">>}
PackNotes    == PackNote \cup {<<"PICKING">>}
Receiving    == {"RECEIVING"}
OnePriority  == {50}

\* what claims ask for: everything that is granted, receiving
AnyGranted   == {NULL}
ReceivingOrAll == {NULL, {"RECEIVING"}}

\* the grants administrators save
PickOrAll    == {{"PICKING"}, {"PICKING", "PACKING", "RECEIVING"}}
NonePickAll  == PickOrAll \cup {{}}
OnOrBreak    == {"AVAILABLE", "BREAK"}

\* Transactions that overlap may account the same second more than once, without
\* bound; two seconds too many are enough to see it.
BoundedSeconds == \A t \in TaskIds : Accounted(t) <= MaxClock + 2

\* The floor: one employee works through a Pack Note of two stages and a receipt that
\* comes after it.
\* The clock: one employee has one task, and time passes between any two steps.
BothStages == \A b \in Batches : batch_status[b] = "NONE" /\ batch_status'[b] # "NONE" =>
                Cardinality({t \in TaskIds : job'[t].batch = b}) = 2
ReceiptLast == \A t \in TaskIds : status'[t] # "NONE" /\ job'[t].batch = NULL => t = 3
ShiftInit == Init /\ shift \in {"floor", "clock"}
ShiftNext ==
  /\ Next
  /\ \/ shift = "floor" /\ BothStages /\ ReceiptLast /\ now' = now
     \/ shift = "clock" /\ status'[2] = "NONE"
  /\ UNCHANGED shift
ShiftSpec == ShiftInit /\ [][ShiftNext]_<<vars, shift>>

\* the supervisors' actions, with claims and cancellations around them
DispatchNext ==
  Supervise \/ \E u \in Users : claim_next(u) \/ \E t \in TaskIds : CANCEL(t, u)
DispatchInit == Init /\ shift = "board"
DispatchSpec == DispatchInit /\ [][DispatchNext /\ UNCHANGED shift]_<<vars, shift>>
=============================================================================
