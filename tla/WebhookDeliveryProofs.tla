------------------------ MODULE WebhookDeliveryProofs -----------------------
(***************************************************************************)
(* Theorems about WebhookDelivery for every number of events, attempts,    *)
(* replays, failures and messages, every filter and every ceiling.         *)
(*                                                                         *)
(* Nothing is used of the queue of due rows: claim_pending takes a row     *)
(* that is pending, whichever it is, and that is enough for the order.     *)
(***************************************************************************)
EXTENDS WebhookDelivery, FiniteSetTheorems, SequenceTheorems, WellFoundedInduction, TLAPS

RowType == [event : EventIds, attempt : 1..MaxAttempts, status : RowStatuses]

WorkerType ==
  [pc : {"none", "idle", "ready", "claimed", "answered"}, connected : BOOLEAN,
   cursor : EventIds \cup {0}, filter : FilterChoices \cup {{}}, delivery : Nat,
   answer : Answers \cup {"none"}]

\* What the steps need to know of the domains of the variables.
Types ==
  /\ EventTypeOK
  /\ status \in {"active", "paused", "revoked", "purged"}
  /\ cursor \in EventIds \cup {0}
  /\ filter \in FilterChoices
  /\ rows \in Seq(RowType)
  /\ worker \in WorkerType
  /\ tried \subseteq EventIds
  /\ late_posts \in Nat
  /\ replays \in Nat

LiveIn(r) == {d \in DOMAIN r : r[d].status \in {"pending", "in_flight"}}
EventsOf(r) == {r[d].event : d \in DOMAIN r}
LiveEventsOf(r) == {r[d].event : d \in LiveIn(r)}

(***************************************************************************)
(* The line of a subscription, given the events R that have rows, those L  *)
(* that have live rows, the cursor c and the events T that were sent. Above*)
(* the cursor an event with a row, or one that was sent, has a live row,   *)
(* and all live rows are for one event: the head of the line. Below it     *)
(* every row was sent.                                                     *)
(***************************************************************************)
LineOf(R, L, c, T) ==
  /\ \A e \in R \cup T : c < e => e \in L
  /\ \A e, f \in L : c < e /\ c < f => e = f
  /\ \A e \in R : e \in T \/ c < e

Line == LineOf(EventsOf(rows), LiveEventsOf(rows), cursor, tried)

\* The row the worker has in hand is live, and its event was sent once there is an
\* answer.
InHand ==
  /\ worker.pc \in {"claimed", "answered"} => worker.delivery \in LiveIn(rows)
  /\ worker.pc = "answered" => rows[worker.delivery].event \in tried

\* Nobody but the worker moves the cursor.
CursorRead == worker.pc = "ready" => worker.cursor = cursor

PurgedIsEmpty == status = "purged" => rows = << >>

\* Rows become live one at a time, unless administrators insert them.
FewLive == IsFiniteSet(LiveIn(rows)) /\ Cardinality(LiveIn(rows)) <= 1 + replays

LineInv == Types /\ Line /\ InHand /\ CursorRead /\ PurgedIsEmpty /\ FewLive

\* Only a cycle begun while the subscription was active can send after it ceased to be.
LateCycle ==
  /\ status = "active" => late_posts = 0
  /\ late_posts <= 1
  /\ late_posts = 1 => worker.pc \notin {"ready", "claimed"}

-----------------------------------------------------------------------------
(* What the changes of the table do to rows and events *)

LEMMA FunctionIsSeq ==
  ASSUME NEW S, NEW n \in Nat, NEW f \in [1..n -> S]
  PROVE  f \in Seq(S) /\ DOMAIN f = 1..n /\ Len(f) = n
  OBVIOUS

\* The row fields a step reads
LEMMA RowFacts ==
  ASSUME NEW r \in Seq(RowType)
  PROVE  /\ Len(r) \in Nat
         /\ DOMAIN r = 1..Len(r)
         /\ \A d \in DOMAIN r : /\ r[d] \in RowType
                                /\ r[d].event \in EventIds
                                /\ r[d].attempt \in 1..MaxAttempts
                                /\ r[d].status \in RowStatuses
  <1>1. Len(r) \in Nat /\ DOMAIN r = 1..Len(r)
    BY LenProperties
  <1>2. \A d \in DOMAIN r : r[d] \in RowType
    BY <1>1, ElementOfSeq
  <1> QED
    BY <1>1, <1>2 DEF RowType

\* UPDATE webhook_deliveries SET status = s WHERE delivery_id = d
WithStatus(r, d, s) == [r EXCEPT ![d].status = s]

LEMMA SetStatus ==
  ASSUME NEW r \in Seq(RowType), NEW d \in DOMAIN r, NEW s \in RowStatuses, NEW q,
         q = WithStatus(r, d, s)
  PROVE  /\ q \in Seq(RowType)
         /\ DOMAIN q = DOMAIN r /\ Len(q) = Len(r)
         /\ \A x \in DOMAIN r : /\ q[x].event = r[x].event
                                /\ q[x].attempt = r[x].attempt
                                /\ q[x].status = IF x = d THEN s ELSE r[x].status
  <1> DEFINE w == [r[d] EXCEPT !.status = s]
  <1>1. w \in RowType /\ w.event = r[d].event /\ w.attempt = r[d].attempt /\ w.status = s
    BY RowFacts DEF RowType
  <1>2. q = [r EXCEPT ![d] = w]
    BY DEF WithStatus
  <1>3. d \in 1..Len(r)
    BY RowFacts
  <1>4. /\ q \in Seq(RowType)
        /\ Len(q) = Len(r)
        /\ \A j \in 1..Len(r) : q[j] = IF j = d THEN w ELSE r[j]
    <2> HIDE DEF w
    <2> QED
      BY <1>1, <1>2, <1>3, ExceptSeq
  <1> HIDE DEF w
  <1> QED
    BY <1>1, <1>4, RowFacts

\* INSERT of one row
LEMMA AddRow ==
  ASSUME NEW r \in Seq(RowType), NEW w \in RowType, NEW q, q = Append(r, w)
  PROVE  /\ q \in Seq(RowType)
         /\ Len(r) + 1 \notin DOMAIN r
         /\ DOMAIN q = DOMAIN r \cup {Len(r) + 1}
         /\ \A x \in DOMAIN r : q[x] = r[x]
         /\ q[Len(r) + 1] = w
  <1>1. Len(r) \in Nat /\ DOMAIN r = 1..Len(r)
    BY RowFacts
  <1>2. /\ q \in Seq(RowType)
        /\ Len(q) = Len(r) + 1
        /\ \A x \in 1..Len(r) : q[x] = r[x]
        /\ q[Len(r) + 1] = w
    BY AppendProperties
  <1>3. DOMAIN q = 1..Len(q)
    BY <1>2, LenProperties
  <1> QED
    BY <1>1, <1>2, <1>3

\* INSERT of several rows
LEMMA AddRows ==
  ASSUME NEW r \in Seq(RowType), NEW w \in Seq(RowType), NEW q, q = r \o w
  PROVE  /\ q \in Seq(RowType)
         /\ DOMAIN r \subseteq DOMAIN q
         /\ DOMAIN q = 1..(Len(r) + Len(w))
         /\ \A x \in DOMAIN r : q[x] = r[x]
         /\ \A x \in DOMAIN q \ DOMAIN r : x - Len(r) \in DOMAIN w /\ q[x] = w[x - Len(r)]
  <1>1. Len(r) \in Nat /\ DOMAIN r = 1..Len(r) /\ Len(w) \in Nat /\ DOMAIN w = 1..Len(w)
    BY RowFacts
  <1>2. /\ q \in Seq(RowType)
        /\ Len(q) = Len(r) + Len(w)
        /\ \A i \in 1..(Len(r) + Len(w)) : q[i] = IF i <= Len(r) THEN r[i] ELSE w[i - Len(r)]
    BY ConcatProperties
  <1>3. DOMAIN q = 1..Len(q)
    BY <1>2, LenProperties
  <1> QED
    BY <1>1, <1>2, <1>3

\* Statuses that change without a row becoming live or ceasing to be
LEMMA SameLine ==
  ASSUME NEW r, NEW q, DOMAIN q = DOMAIN r, LiveIn(q) = LiveIn(r),
         \A x \in DOMAIN r : q[x].event = r[x].event
  PROVE  EventsOf(q) = EventsOf(r) /\ LiveEventsOf(q) = LiveEventsOf(r)
  BY DEF EventsOf, LiveEventsOf, LiveIn

\* The sets of rows that the actions name, in terms of LiveIn
LEMMA LiveRowsIn == LiveRows = LiveIn(rows)
  BY DEF LiveRows, RowsIn, LiveIn

LEMMA PendingIsLive == RowsIn({"pending"}) \subseteq LiveIn(rows)
  BY DEF RowsIn, LiveIn

LEMMA InFlightIsLive == RowsIn({"in_flight"}) \subseteq LiveIn(rows)
  BY DEF RowsIn, LiveIn

LEMMA LiveHaveEvents ==
  ASSUME NEW r
  PROVE  /\ \A d \in LiveIn(r) : d \in DOMAIN r /\ r[d].event \in LiveEventsOf(r)
         /\ LiveEventsOf(r) \subseteq EventsOf(r)
  BY DEF LiveIn, LiveEventsOf, EventsOf

\* Every event that can be sent is one of the sequence's ids.
LEMMA ReadableAreIds == EventTypeOK => Readable \subseteq EventIds
  BY ElementOfSeq DEF EventTypeOK, Readable

\* The worker's query returns an event above the cursor it has read.
LEMMA FreshIsAhead ==
  ASSUME Types, FreshEvents # {}
  PROVE  /\ _select_next_fresh_event \in EventIds
         /\ worker.cursor < _select_next_fresh_event
  <1>1. FreshEvents \subseteq EventIds
    BY ReadableAreIds DEF Types, FreshEvents
  <1>2. EventIds \subseteq Nat
    BY MaxEventsAssumption DEF EventIds
  <1> DEFINE R == {p \in Nat \X Nat : p[1] < p[2]}
  <1>0. IsWellFoundedOn(R, Nat)
    BY NatLessThanWellFounded, Zenon DEF OpToRel
  <1>3. PICK e \in FreshEvents : \A f \in FreshEvents : <<f, e>> \notin R
    <2> HIDE DEF R
    <2> QED
      BY <1>0, <1>1, <1>2, WFMin
  <1>4. ASSUME NEW f \in FreshEvents PROVE e <= f
    <2>1. e \in Nat /\ f \in Nat
      BY <1>1, <1>2
    <2>2. <<f, e>> \in R <=> f < e
      BY <2>1
    <2> QED
      BY <1>3, <2>1, <2>2
  <1>5. _select_next_fresh_event \in FreshEvents
    BY <1>4 DEF _select_next_fresh_event
  <1> QED
    BY <1>1, <1>5 DEF FreshEvents

-----------------------------------------------------------------------------
(* The invariant holds, one lemma for each action *)

LEMMA LineInvInit == Init => LineInv
  <1> SUFFICES ASSUME Init PROVE LineInv
    OBVIOUS
  <1>1. rows \in Seq(RowType) /\ DOMAIN rows = {}
    BY EmptySeq DEF Init
  <1>2. worker \in WorkerType /\ worker.pc = "none"
    BY DEF Init, NoWorker, WorkerType
  <1>3. EventTypeOK
    BY EmptySeq, MaxEventsAssumption DEF Init, EventInit, EventTypeOK, EventIds
  <1>4. Types
    BY <1>1, <1>2, <1>3 DEF Init, Types
  <1>5. Line
    BY <1>1 DEF Init, Line, LineOf, EventsOf, LiveEventsOf, LiveIn
  <1>6. FewLive
    <2>1. LiveIn(rows) = {} /\ replays = 0
      BY <1>1 DEF Init, LiveIn
    <2> QED
      BY <2>1, FS_EmptySet DEF FewLive
  <1> QED
    BY <1>2, <1>4, <1>5, <1>6 DEF Init, LineInv, InHand, CursorRead, PurgedIsEmpty

\* Steps that touch neither the table, the cursor nor the history of what was sent
LEMMA TableUntouched ==
  ASSUME Line, UNCHANGED <<rows, cursor, tried>>
  PROVE  Line'
  BY DEF Line, LineOf, EventsOf, LiveEventsOf, LiveIn

\* Steps after which no other row is live than before
LEMMA FewKept ==
  ASSUME LineInv, LiveIn(rows') \subseteq LiveIn(rows), replays' = replays
  PROVE  FewLive'
  <1>1. /\ IsFiniteSet(LiveIn(rows'))
        /\ Cardinality(LiveIn(rows')) <= Cardinality(LiveIn(rows))
    BY FS_Subset DEF LineInv, FewLive
  <1>2. Cardinality(LiveIn(rows)) \in Nat /\ Cardinality(LiveIn(rows')) \in Nat
    BY <1>1, FS_CardinalityType DEF LineInv, FewLive
  <1> QED
    BY <1>1, <1>2 DEF LineInv, Types, FewLive

LEMMA RowsUntouched ==
  ASSUME LineInv, UNCHANGED <<rows, replays>>
  PROVE  FewLive'
  BY FewKept

LEMMA WorkersAreTyped == NoWorker \in WorkerType /\ IdleWorker \in WorkerType
  BY DEF NoWorker, IdleWorker, WorkerType

LEMMA IdlePc == NoWorker.pc = "none" /\ IdleWorker.pc = "idle"
  BY DEF NoWorker, IdleWorker

\* The worker gives up what it has, or never had anything
LEMMA WorkerResets ==
  ASSUME LineInv, worker' \in {NoWorker, IdleWorker},
         UNCHANGED <<event_vars, subscription, rows, tried, late_posts, replays>>
  PROVE  LineInv'
  <1>1. worker' \in WorkerType /\ worker'.pc \in {"none", "idle"}
    BY WorkersAreTyped, IdlePc
  <1>2. Types'
    BY <1>1 DEF LineInv, Types, EventTypeOK, event_vars, subscription
  <1>3. Line'
    BY TableUntouched DEF LineInv, subscription
  <1> QED
    BY <1>1, <1>2, <1>3, RowsUntouched DEF LineInv, InHand, CursorRead, PurgedIsEmpty, subscription

LEMMA read_subscriptionStep == LineInv /\ read_subscription => LineInv'
  <1> SUFFICES ASSUME LineInv, read_subscription PROVE LineInv'
    OBVIOUS
  <1>1. worker' \in WorkerType /\ worker'.pc = "ready" /\ worker'.cursor = cursor
    BY DEF LineInv, Types, WorkerType, read_subscription
  <1>2. Types'
    BY <1>1 DEF LineInv, Types, EventTypeOK, event_vars, subscription, table, history,
       read_subscription
  <1>3. Line'
    BY TableUntouched DEF LineInv, subscription, table, history, read_subscription
  <1>4. FewLive'
    BY RowsUntouched DEF table, history, read_subscription
  <1> QED
    BY <1>1, <1>2, <1>3, <1>4 DEF LineInv, InHand, CursorRead, PurgedIsEmpty, subscription, table,
       read_subscription

LEMMA claim_pendingStep == LineInv /\ claim_pending => LineInv'
  <1> SUFFICES ASSUME LineInv, claim_pending PROVE LineInv'
    OBVIOUS
  <1> DEFINE d == _select_next_pending
  <1>1. /\ d \in RowsIn({"pending"})
        /\ rows' = [rows EXCEPT ![d].status = "in_flight"]
        /\ worker' = [worker EXCEPT !.pc = "claimed", !.delivery = d]
        /\ UNCHANGED <<event_vars, subscription, up, notices, history>>
    BY DEF claim_pending
  <1> HIDE DEF d
  <1>2. rows \in Seq(RowType) /\ d \in DOMAIN rows /\ rows[d].status = "pending"
    BY <1>1 DEF LineInv, Types, RowsIn
  <1>3. /\ rows' \in Seq(RowType)
        /\ DOMAIN rows' = DOMAIN rows
        /\ \A x \in DOMAIN rows : /\ rows'[x].event = rows[x].event
                                  /\ rows'[x].status = IF x = d THEN "in_flight" ELSE rows[x].status
    <2>1. "in_flight" \in RowStatuses
      BY DEF RowStatuses
    <2>2. rows' = WithStatus(rows, d, "in_flight")
      BY <1>1 DEF WithStatus
    <2> QED
      BY <1>2, <2>1, <2>2, SetStatus
  <1>4. d \in Nat
    BY <1>2, RowFacts
  <1>5. worker' \in WorkerType /\ worker'.pc = "claimed" /\ worker'.delivery = d
    BY <1>1, <1>4 DEF LineInv, Types, WorkerType
  <1>6. LiveIn(rows') = LiveIn(rows) /\ d \in LiveIn(rows')
    BY <1>2, <1>3 DEF LiveIn
  <1>7. EventsOf(rows') = EventsOf(rows) /\ LiveEventsOf(rows') = LiveEventsOf(rows)
    BY <1>3, <1>6, SameLine
  <1>8. Types'
    BY <1>1, <1>3, <1>5 DEF LineInv, Types, EventTypeOK, event_vars, subscription, history
  <1>9. Line'
    BY <1>1, <1>7 DEF LineInv, Line, LineOf, subscription, history
  <1>10. PurgedIsEmpty'
    BY <1>1, <1>2, EmptySeq DEF LineInv, PurgedIsEmpty, subscription
  <1>11. FewLive'
    BY <1>1, <1>6, FewKept DEF history
  <1> QED
    BY <1>5, <1>6, <1>8, <1>9, <1>10, <1>11 DEF LineInv, InHand, CursorRead

LEMMA claim_freshStep == LineInv /\ claim_fresh => LineInv'
  <1> SUFFICES ASSUME LineInv, claim_fresh PROVE LineInv'
    OBVIOUS
  <1> DEFINE e == _select_next_fresh_event
             w == Row(e, 1, "in_flight")
             n == Len(rows) + 1
  <1>1. /\ worker.pc = "ready" /\ FreshEvents # {} /\ status # "purged"
        /\ LiveIn(rows) = {}
        /\ rows' = Append(rows, w)
        /\ worker' = [worker EXCEPT !.pc = "claimed", !.delivery = n]
        /\ UNCHANGED <<event_vars, subscription, due, up, notices, history>>
    BY LiveRowsIn DEF claim_fresh, _has_non_terminal_delivery
  <1>2. e \in EventIds /\ cursor < e
    BY <1>1, FreshIsAhead DEF LineInv, CursorRead
  <1>3. w \in RowType /\ w.event = e /\ w.status = "in_flight"
    BY <1>2, AttemptsAssumption DEF Row, RowType, RowStatuses
  <1> HIDE DEF e, w
  <1>4. rows \in Seq(RowType) /\ Len(rows) \in Nat
    BY RowFacts DEF LineInv, Types
  <1>5. /\ rows' \in Seq(RowType)
        /\ n \notin DOMAIN rows
        /\ DOMAIN rows' = DOMAIN rows \cup {n}
        /\ \A x \in DOMAIN rows : rows'[x] = rows[x]
        /\ rows'[n] = w
    BY <1>1, <1>3, <1>4, AddRow
  <1>6. n \in Nat
    BY <1>4
  <1> HIDE DEF n
  <1>7. worker' \in WorkerType /\ worker'.pc = "claimed" /\ worker'.delivery = n
    BY <1>1, <1>6 DEF LineInv, Types, WorkerType
  <1>8. LiveIn(rows') = {n}
    BY <1>1, <1>3, <1>5 DEF LiveIn
  <1>9. EventsOf(rows') = EventsOf(rows) \cup {e} /\ LiveEventsOf(rows') = {e}
    BY <1>3, <1>5, <1>8 DEF EventsOf, LiveEventsOf
  <1>10. LiveEventsOf(rows) = {}
    BY <1>1 DEF LiveEventsOf
  <1>11. Types'
    BY <1>1, <1>5, <1>7 DEF LineInv, Types, EventTypeOK, event_vars, subscription, history
  <1>12. Line'
    BY <1>1, <1>2, <1>9, <1>10 DEF LineInv, Line, LineOf, subscription, history
  <1>13. FewLive'
    <2>1. IsFiniteSet(LiveIn(rows')) /\ Cardinality(LiveIn(rows')) = 1
      BY <1>8, FS_Singleton
    <2>2. replays' = replays /\ replays \in Nat
      BY <1>1 DEF LineInv, Types, history
    <2> QED
      BY <2>1, <2>2 DEF FewLive
  <1> QED
    BY <1>1, <1>7, <1>8, <1>11, <1>12, <1>13 DEF LineInv, InHand, CursorRead, PurgedIsEmpty, subscription

LEMMA sendStep == LineInv /\ send => LineInv'
  <1> SUFFICES ASSUME LineInv, send PROVE LineInv'
    OBVIOUS
  <1> DEFINE e == rows[worker.delivery].event
  <1>1. /\ worker.pc = "claimed"
        /\ tried' = tried \cup {e}
        /\ UNCHANGED <<event_vars, subscription, table, up, notices, replays, faults>>
    BY DEF send
  <1>2. PICK a \in Answers : worker' = [worker EXCEPT !.pc = "answered", !.answer = a]
    BY DEF send
  <1>3. /\ worker' \in WorkerType /\ worker'.pc = "answered"
        /\ worker'.delivery = worker.delivery
    BY <1>2 DEF LineInv, Types, WorkerType
  <1>4. worker.delivery \in LiveIn(rows)
    BY <1>1 DEF LineInv, InHand
  <1>5. e \in EventIds /\ e \in LiveEventsOf(rows)
    BY <1>4, LiveHaveEvents, RowFacts DEF LineInv, Types
  <1>6. late_posts' \in Nat
    BY DEF send, LineInv, Types
  <1>7. rows' = rows
    BY <1>1 DEF table
  <1>8. tried' \subseteq EventIds
    BY <1>1, <1>5 DEF LineInv, Types
  <1>9. Types'
    BY <1>1, <1>3, <1>6, <1>7, <1>8 DEF LineInv, Types, EventTypeOK, event_vars, subscription
  <1>10. Line'
    BY <1>1, <1>5, <1>7 DEF LineInv, Line, LineOf, subscription, EventsOf, LiveEventsOf, LiveIn
  <1>11. InHand'
    BY <1>1, <1>3, <1>4, <1>7 DEF InHand, LiveIn
  <1>12. FewLive'
    BY <1>1, <1>7, RowsUntouched
  <1> QED
    BY <1>1, <1>3, <1>7, <1>9, <1>10, <1>11, <1>12 DEF LineInv, CursorRead, PurgedIsEmpty, subscription

\* The row in hand becomes succeeded or dlq, and the cursor moves up to its event.
Settled(s) ==
  /\ worker.pc = "answered"
  /\ rows' = WithStatus(rows, worker.delivery, s)
  /\ cursor' = Advanced(rows[worker.delivery].event)
  /\ worker' = IdleWorker
  /\ status' \in {status, "paused"} /\ (status' = "paused" => status # "purged")
  /\ UNCHANGED <<event_vars, filter, history>>

LEMMA AutoPauseStatus ==
  ASSUME NEW S, NEW c, _maybe_auto_pause(S, c)
  PROVE  status' = status \/ (status = "active" /\ status' = "paused")
  BY DEF _maybe_auto_pause

LEMMA RecordsSettle ==
  ASSUME LineInv, record_success \/ record_dead_letter
  PROVE  \E s \in {"succeeded", "dlq"} : Settled(s)
  <1>1. CASE record_success
    <2>1. status' = status /\ (status = "paused" => status # "purged")
      BY <1>1 DEF record_success
    <2>2. /\ worker.pc = "answered"
          /\ rows' = WithStatus(rows, worker.delivery, "succeeded")
          /\ cursor' = Advanced(rows[worker.delivery].event)
          /\ worker' = IdleWorker
          /\ UNCHANGED <<event_vars, filter, history>>
      BY <1>1 DEF record_success, WithStatus
    <2> QED
      BY <2>1, <2>2 DEF Settled
  <1>2. CASE record_dead_letter
    <2>1. status' = status \/ (status = "active" /\ status' = "paused")
      BY <1>2, AutoPauseStatus DEF record_dead_letter
    <2>2. /\ worker.pc = "answered"
          /\ rows' = WithStatus(rows, worker.delivery, "dlq")
          /\ cursor' = Advanced(rows[worker.delivery].event)
          /\ worker' = IdleWorker
          /\ UNCHANGED <<event_vars, filter, history>>
      BY <1>2 DEF record_dead_letter, WithStatus
    <2> QED
      BY <2>1, <2>2 DEF Settled
  <1> QED
    BY <1>1, <1>2

\* When the head of the line is settled, what remains is a line above it.
LEMMA SettleLine ==
  ASSUME NEW R \in SUBSET Nat, NEW L \in SUBSET Nat, NEW T \in SUBSET Nat, NEW c \in Nat,
         LineOf(R, L, c, T),
         NEW e \in L, e \in T,
         NEW K, K \subseteq L, L \subseteq K \cup {e}
  PROVE  LineOf(R, K, IF c < e THEN e ELSE c, T)
  <1>1. CASE c < e
    BY <1>1 DEF LineOf
  <1>2. CASE ~(c < e)
    <2>1. \A x \in R \cup T : c < x => x \in K
      BY <1>2 DEF LineOf
    <2> QED
      BY <1>2, <2>1 DEF LineOf
  <1> QED
    BY <1>1, <1>2

LEMMA SettledStep ==
  ASSUME LineInv, NEW s \in {"succeeded", "dlq"}, Settled(s)
  PROVE  LineInv'
  <1> DEFINE d == worker.delivery
             e == rows[d].event
  <1>1. d \in LiveIn(rows) /\ d \in DOMAIN rows /\ e \in tried /\ e \in LiveEventsOf(rows)
    BY LiveHaveEvents DEF LineInv, InHand, Settled
  <1>2. rows \in Seq(RowType) /\ s \in RowStatuses
    BY DEF LineInv, Types, RowStatuses
  <1>3. e \in EventIds /\ e \in Nat /\ cursor \in Nat
    BY <1>1, <1>2, RowFacts, MaxEventsAssumption DEF LineInv, Types, EventIds
  <1>4. rows' = WithStatus(rows, d, s)
    BY DEF Settled
  <1>5. /\ rows' \in Seq(RowType)
        /\ DOMAIN rows' = DOMAIN rows
        /\ \A x \in DOMAIN rows : /\ rows'[x].event = rows[x].event
                                  /\ rows'[x].status = IF x = d THEN s ELSE rows[x].status
    BY <1>1, <1>2, <1>4, SetStatus
  <1>6. LiveIn(rows') = LiveIn(rows) \ {d}
    BY <1>1, <1>5 DEF LiveIn
  <1>7. EventsOf(rows') = EventsOf(rows)
    BY <1>5 DEF EventsOf
  <1>8. LiveEventsOf(rows') \subseteq LiveEventsOf(rows)
    BY <1>5, <1>6, LiveHaveEvents DEF LiveEventsOf
  <1>9. LiveEventsOf(rows) \subseteq LiveEventsOf(rows') \cup {e}
    BY <1>5, <1>6, LiveHaveEvents DEF LiveEventsOf
  <1>10. cursor' = IF cursor < e THEN e ELSE cursor
    BY DEF Settled, Advanced
  <1>11. worker' \in WorkerType /\ worker'.pc = "idle"
    BY WorkersAreTyped, IdlePc DEF Settled
  <1>12. status' \in {"active", "paused", "revoked", "purged"}
    BY DEF Settled, LineInv, Types
  <1>13. Types'
    BY <1>3, <1>5, <1>10, <1>11, <1>12 DEF LineInv, Types, EventTypeOK, event_vars, history, Settled
  <1>14. LineOf(EventsOf(rows), LiveEventsOf(rows), cursor, tried)
    BY DEF LineInv, Line
  <1>15. EventsOf(rows) \subseteq Nat /\ tried \subseteq Nat /\ LiveEventsOf(rows) \subseteq Nat
    BY <1>2, RowFacts, LiveHaveEvents, MaxEventsAssumption DEF EventsOf, LineInv, Types, EventIds
  <1>16. LineOf(EventsOf(rows'), LiveEventsOf(rows'), cursor', tried')
    <2>1. tried' = tried
      BY DEF Settled, history
    <2> HIDE DEF e, d
    <2> QED
      BY <1>1, <1>3, <1>7, <1>8, <1>9, <1>10, <1>14, <1>15, <2>1, SettleLine
  <1>17. PurgedIsEmpty'
    BY <1>1, EmptySeq DEF Settled, LineInv, PurgedIsEmpty
  <1>18. FewLive'
    BY <1>6, FewKept DEF Settled, history
  <1> QED
    BY <1>11, <1>13, <1>16, <1>17, <1>18 DEF LineInv, Line, InHand, CursorRead

LEMMA record_failureStep == LineInv /\ record_failure => LineInv'
  <1> SUFFICES ASSUME LineInv, record_failure PROVE LineInv'
    OBVIOUS
  <1> DEFINE d == worker.delivery
             r == WithStatus(rows, d, "failed")
             w == Row(rows[d].event, rows[d].attempt + 1, "pending")
             n == Len(r) + 1
  <1>1. /\ worker.pc = "answered" /\ ~GivenUp
        /\ rows' = Append(r, w)
        /\ worker' = IdleWorker
        /\ UNCHANGED <<event_vars, cursor, filter, up, history>>
    BY DEF record_failure, WithStatus
  <1>2. d \in LiveIn(rows) /\ d \in DOMAIN rows
    BY <1>1, LiveHaveEvents DEF LineInv, InHand
  <1>3. rows \in Seq(RowType) /\ "failed" \in RowStatuses
    BY DEF LineInv, Types, RowStatuses
  <1>4. rows[d].event \in EventIds /\ rows[d].attempt \in 1..MaxAttempts
    BY <1>2, <1>3, RowFacts
  <1>5. rows[d].attempt + 1 \in 1..MaxAttempts
    BY <1>1, <1>4, AttemptsAssumption DEF GivenUp
  <1>6. w \in RowType /\ w.event = rows[d].event /\ w.status = "pending"
    BY <1>4, <1>5 DEF Row, RowType, RowStatuses
  <1> HIDE DEF w, r
  <1>7. /\ r \in Seq(RowType)
        /\ DOMAIN r = DOMAIN rows
        /\ \A x \in DOMAIN rows : /\ r[x].event = rows[x].event
                                  /\ r[x].status = IF x = d THEN "failed" ELSE rows[x].status
    BY <1>2, <1>3, SetStatus DEF r
  <1>8. /\ rows' \in Seq(RowType)
        /\ n \notin DOMAIN r
        /\ DOMAIN rows' = DOMAIN r \cup {n}
        /\ \A x \in DOMAIN r : rows'[x] = r[x]
        /\ rows'[n] = w
    BY <1>1, <1>6, <1>7, AddRow
  <1> HIDE DEF n
  <1>9. LiveIn(rows') = (LiveIn(rows) \ {d}) \cup {n}
    BY <1>2, <1>6, <1>7, <1>8 DEF LiveIn
  <1>10. EventsOf(rows') = EventsOf(rows)
    <2>1. DOMAIN rows' = DOMAIN rows \cup {n}
      BY <1>7, <1>8
    <2>2. \A x \in DOMAIN rows : rows'[x].event = rows[x].event
      BY <1>7, <1>8
    <2>3. rows'[n].event = rows[d].event
      BY <1>6, <1>8
    <2> HIDE DEF d
    <2> QED
      BY <1>2, <2>1, <2>2, <2>3 DEF EventsOf
  <1>11. LiveEventsOf(rows') = LiveEventsOf(rows)
    <2>1. \A x \in LiveIn(rows) : x \in DOMAIN rows /\ rows'[x].event = rows[x].event
      BY <1>7, <1>8, LiveHaveEvents
    <2>2. rows'[n].event = rows[d].event
      BY <1>6, <1>8
    <2> QED
      BY <1>2, <1>9, <2>1, <2>2 DEF LiveEventsOf
  <1>12. worker' \in WorkerType /\ worker'.pc = "idle"
    BY <1>1, WorkersAreTyped, IdlePc
  <1>13. status' = status \/ (status = "active" /\ status' = "paused")
    BY AutoPauseStatus DEF record_failure
  <1>14. Types'
    BY <1>1, <1>8, <1>12, <1>13 DEF LineInv, Types, EventTypeOK, event_vars, history
  <1>15. Line'
    BY <1>1, <1>10, <1>11 DEF LineInv, Line, LineOf, history
  <1>16. PurgedIsEmpty'
    BY <1>2, <1>13, EmptySeq DEF LineInv, PurgedIsEmpty
  <1>17. FewLive'
    <2>1. IsFiniteSet(LiveIn(rows)) /\ n \notin LiveIn(rows) \ {d}
      BY <1>7, <1>8 DEF LineInv, FewLive, LiveIn
    <2>2. /\ IsFiniteSet(LiveIn(rows) \ {d})
          /\ Cardinality(LiveIn(rows) \ {d}) = Cardinality(LiveIn(rows)) - 1
      BY <1>2, <2>1, FS_RemoveElement
    <2>3. /\ IsFiniteSet(LiveIn(rows'))
          /\ Cardinality(LiveIn(rows')) = Cardinality(LiveIn(rows) \ {d}) + 1
      BY <1>9, <2>1, <2>2, FS_AddElement
    <2>4. Cardinality(LiveIn(rows)) \in Nat
      BY <2>1, FS_CardinalityType
    <2> QED
      BY <1>1, <2>2, <2>3, <2>4 DEF LineInv, FewLive, history
  <1> QED
    BY <1>12, <1>14, <1>15, <1>16, <1>17 DEF LineInv, InHand, CursorRead

\* Rows go from in_flight back to pending: at boot, or when they are reclaimed.
LEMMA ToPendingStep ==
  ASSUME LineInv, NEW S \in SUBSET RowsIn({"in_flight"}), ToPending(S),
         UNCHANGED <<event_vars, subscription, worker, tried, late_posts, replays>>
  PROVE  LineInv'
  <1>1. rows \in Seq(RowType) /\ S \subseteq LiveIn(rows) /\ S \subseteq DOMAIN rows
    BY InFlightIsLive, LiveHaveEvents DEF LineInv, Types
  <1>2. Len(rows) \in Nat /\ DOMAIN rows = 1..Len(rows) /\ \A d \in DOMAIN rows : rows[d] \in RowType
    BY <1>1, RowFacts
  <1> DEFINE F(d) == IF d \in S THEN [rows[d] EXCEPT !.status = "pending"] ELSE rows[d]
  <1>3. rows' = [d \in DOMAIN rows |-> F(d)]
    BY DEF ToPending
  <1>4. \A d \in DOMAIN rows : /\ F(d) \in RowType
                               /\ F(d).event = rows[d].event
                               /\ F(d).status = IF d \in S THEN "pending" ELSE rows[d].status
    BY <1>2 DEF RowType, RowStatuses
  <1> HIDE DEF F
  <1>5. DOMAIN rows' = DOMAIN rows /\ \A d \in DOMAIN rows : rows'[d] = F(d)
    BY <1>3
  <1>6. rows' \in Seq(RowType)
    <2>1. rows' \in [1..Len(rows) -> RowType]
      BY <1>2, <1>3, <1>4
    <2> QED
      BY <1>2, <2>1, FunctionIsSeq
  <1>7. LiveIn(rows') = LiveIn(rows)
    BY <1>1, <1>4, <1>5 DEF LiveIn
  <1>8. \A d \in DOMAIN rows : rows'[d].event = rows[d].event
    BY <1>4, <1>5
  <1>9. EventsOf(rows') = EventsOf(rows) /\ LiveEventsOf(rows') = LiveEventsOf(rows)
    BY <1>5, <1>7, <1>8, SameLine
  <1>10. Types'
    BY <1>6 DEF LineInv, Types, EventTypeOK, event_vars, subscription
  <1>11. Line'
    BY <1>9 DEF LineInv, Line, LineOf, subscription
  <1>12. InHand'
    BY <1>7, <1>8, LiveHaveEvents DEF LineInv, InHand
  <1>13. PurgedIsEmpty'
    <2> SUFFICES ASSUME status = "purged" PROVE rows' = << >>
      BY DEF PurgedIsEmpty, subscription
    <2>1. rows = << >>
      BY DEF LineInv, PurgedIsEmpty
    <2> QED
      BY <1>5, <1>6, <2>1, EmptySeq, LenProperties
  <1>14. FewLive'
    BY <1>7, FewKept
  <1> QED
    BY <1>10, <1>11, <1>12, <1>13, <1>14 DEF LineInv, CursorRead, subscription

\* The cleanup takes rows away that ended; they are not live.
LEMMA cleanupStep == LineInv /\ cleanup_webhook_deliveries => LineInv'
  <1> SUFFICES ASSUME LineInv, cleanup_webhook_deliveries PROVE LineInv'
    OBVIOUS
  <1>1. PICK d \in Expired : rows' = [rows EXCEPT ![d].status = "deleted"]
    BY DEF cleanup_webhook_deliveries
  <1>2. UNCHANGED <<event_vars, subscription, worker, tried, late_posts, replays>>
    BY DEF cleanup_webhook_deliveries, process, history
  <1>3. /\ rows \in Seq(RowType) /\ d \in DOMAIN rows
        /\ rows[d].status \in {"succeeded", "dlq"} /\ "deleted" \in RowStatuses
    BY DEF LineInv, Types, Expired, RowsIn, RowStatuses
  <1>4. rows' = WithStatus(rows, d, "deleted")
    BY <1>1 DEF WithStatus
  <1>5. /\ rows' \in Seq(RowType)
        /\ DOMAIN rows' = DOMAIN rows
        /\ \A x \in DOMAIN rows : /\ rows'[x].event = rows[x].event
                                  /\ rows'[x].status = IF x = d THEN "deleted" ELSE rows[x].status
    BY <1>3, <1>4, SetStatus
  <1>6. LiveIn(rows') = LiveIn(rows)
    BY <1>3, <1>5 DEF LiveIn
  <1>7. EventsOf(rows') = EventsOf(rows) /\ LiveEventsOf(rows') = LiveEventsOf(rows)
    BY <1>5, <1>6, SameLine
  <1>8. Types'
    BY <1>2, <1>5 DEF LineInv, Types, EventTypeOK, event_vars, subscription
  <1>9. Line'
    BY <1>2, <1>7 DEF LineInv, Line, LineOf, subscription
  <1>10. InHand'
    BY <1>2, <1>5, <1>6, LiveHaveEvents DEF LineInv, InHand
  <1>11. PurgedIsEmpty'
    BY <1>2, <1>3, EmptySeq DEF LineInv, PurgedIsEmpty, subscription
  <1>12. FewLive'
    BY <1>2, <1>6, FewKept
  <1> QED
    BY <1>2, <1>8, <1>9, <1>10, <1>11, <1>12 DEF LineInv, CursorRead, subscription

\* A replay adds rows for events that have rows: above the cursor, for the head of the
\* line only.
LEMMA ReplayStep ==
  ASSUME LineInv, NEW ids \in Seq(DOMAIN rows), Replay(ids)
  PROVE  LineInv'
  <1> DEFINE w == [i \in 1..Len(ids) |-> Row(rows[ids[i]].event, 1, "pending")]
  <1>1. /\ status # "purged"
        /\ rows' = rows \o w
        /\ replays' = replays + Len(ids)
        /\ UNCHANGED <<event_vars, subscription, worker, tried, late_posts>>
    BY DEF Replay, process
  <1>2. rows \in Seq(RowType) /\ Len(ids) \in Nat /\ \A i \in 1..Len(ids) : ids[i] \in DOMAIN rows
    BY LenProperties, ElementOfSeq DEF LineInv, Types
  <1>3. \A i \in 1..Len(ids) : /\ w[i] \in RowType /\ w[i].status = "pending"
                               /\ w[i].event \in EventsOf(rows)
    <2> TAKE i \in 1..Len(ids)
    <2>1. ids[i] \in DOMAIN rows
      BY <1>2
    <2>2. rows[ids[i]].event \in EventIds /\ rows[ids[i]].event \in EventsOf(rows)
      BY <1>2, <2>1, RowFacts DEF EventsOf
    <2>3. w[i] = Row(rows[ids[i]].event, 1, "pending")
      OBVIOUS
    <2> HIDE DEF w
    <2> QED
      BY <2>2, <2>3, AttemptsAssumption DEF Row, RowType, RowStatuses
  <1>4. w \in [1..Len(ids) -> RowType]
    BY <1>3
  <1>5. w \in Seq(RowType) /\ DOMAIN w = 1..Len(ids)
    BY <1>2, <1>4, FunctionIsSeq
  <1> HIDE DEF w
  <1>6. /\ rows' \in Seq(RowType)
        /\ DOMAIN rows \subseteq DOMAIN rows'
        /\ \A x \in DOMAIN rows : rows'[x] = rows[x]
        /\ \A x \in DOMAIN rows' \ DOMAIN rows :
             x - Len(rows) \in DOMAIN w /\ rows'[x] = w[x - Len(rows)]
    BY <1>1, <1>2, <1>5, AddRows
  <1>7. \A x \in DOMAIN rows' \ DOMAIN rows : rows'[x].event \in EventsOf(rows)
    BY <1>3, <1>5, <1>6
  <1>8. EventsOf(rows') = EventsOf(rows)
    <2>1. ASSUME NEW f \in EventsOf(rows') PROVE f \in EventsOf(rows)
      <3>1. PICK x \in DOMAIN rows' : f = rows'[x].event
        BY DEF EventsOf
      <3> QED
        BY <1>6, <1>7, <3>1 DEF EventsOf
    <2>2. ASSUME NEW f \in EventsOf(rows) PROVE f \in EventsOf(rows')
      BY <1>6 DEF EventsOf
    <2> QED
      BY <2>1, <2>2
  <1>9. \A x \in LiveIn(rows) : x \in LiveIn(rows') /\ rows'[x].event = rows[x].event
    BY <1>6 DEF LiveIn
  <1>10. LiveEventsOf(rows) \subseteq LiveEventsOf(rows')
    BY <1>9 DEF LiveEventsOf
  <1>11. LiveEventsOf(rows') \subseteq EventsOf(rows)
    BY <1>8, LiveHaveEvents
  <1>12. Types'
    BY <1>1, <1>2, <1>6 DEF LineInv, Types, EventTypeOK, event_vars, subscription
  <1>13. Line'
    <2>1. LineOf(EventsOf(rows), LiveEventsOf(rows), cursor, tried)
      BY DEF LineInv, Line
    <2>2. LineOf(EventsOf(rows), LiveEventsOf(rows'), cursor, tried)
      BY <1>10, <1>11, <2>1 DEF LineOf
    <2> QED
      BY <1>1, <1>8, <2>2 DEF Line, subscription
  <1>14. InHand'
    BY <1>1, <1>9 DEF LineInv, InHand
  <1>15. FewLive'
    <2> DEFINE N == (Len(rows) + 1)..(Len(rows) + Len(ids))
               L == LiveIn(rows)
    <2>1. Len(rows) \in Nat /\ DOMAIN rows = 1..Len(rows) /\ Len(w) = Len(ids)
      BY <1>2, <1>5, RowFacts
    <2>2. DOMAIN rows' = 1..(Len(rows) + Len(ids))
      <3>1. DOMAIN rows' = 1..(Len(rows) + Len(w))
        BY <1>1, <1>2, <1>5, AddRows
      <3> QED
        BY <2>1, <3>1
    <2>3. LiveIn(rows') \subseteq L \cup N
      <3> SUFFICES ASSUME NEW x \in LiveIn(rows'), x \notin N PROVE x \in L
        OBVIOUS
      <3>1. x \in DOMAIN rows
        BY <1>2, <2>1, <2>2 DEF LiveIn
      <3> QED
        BY <1>6, <3>1 DEF LiveIn
    <2>4. IsFiniteSet(L) /\ Cardinality(L) \in Nat
      BY FS_CardinalityType DEF LineInv, FewLive
    <2>5. IsFiniteSet(N) /\ Cardinality(N) = Len(ids)
      <3> DEFINE a == Len(rows) + 1
                 b == Len(rows) + Len(ids)
      <3>1. a \in Int /\ b \in Int /\ (IF a > b THEN 0 ELSE b - a + 1) = Len(ids)
        BY <1>2, <2>1
      <3> HIDE DEF a, b
      <3>2. IsFiniteSet(a..b) /\ Cardinality(a..b) = IF a > b THEN 0 ELSE b - a + 1
        BY <3>1, FS_Interval
      <3> QED
        BY <3>1, <3>2 DEF a, b
    <2> HIDE DEF N, L
    <2>6. IsFiniteSet(L \cup N) /\ IsFiniteSet(L \cap N)
      BY <2>4, <2>5, FS_Union, FS_Intersection
    <2>7. Cardinality(L \cup N) = Cardinality(L) + Len(ids) - Cardinality(L \cap N)
      BY <2>4, <2>5, FS_Union
    <2>8. /\ IsFiniteSet(LiveIn(rows'))
          /\ Cardinality(LiveIn(rows')) <= Cardinality(L \cup N)
      BY <2>3, <2>6, FS_Subset
    <2>9. /\ Cardinality(LiveIn(rows')) \in Nat /\ Cardinality(L \cup N) \in Nat
          /\ Cardinality(L \cap N) \in Nat
      BY <2>6, <2>8, FS_CardinalityType
    <2>10. Cardinality(L) <= 1 + replays /\ replays \in Nat
      BY DEF L, LineInv, FewLive, Types
    <2> QED
      BY <1>1, <1>2, <2>4, <2>7, <2>8, <2>9, <2>10 DEF FewLive
  <1> QED
    BY <1>1, <1>12, <1>13, <1>14, <1>15 DEF LineInv, CursorRead, PurgedIsEmpty, subscription

\* The rows a batch selects are finitely many, and listed in some order.
LEMMA ReplaysStep == LineInv /\ (replay_single \/ replay_batch) => LineInv'
  <1>1. ASSUME LineInv, replay_single PROVE LineInv'
    <2>1. PICK d \in Listed : Replay(<<d>>)
      BY <1>1 DEF replay_single
    <2>2. d \in DOMAIN rows
      BY DEF Listed, RowsIn
    <2>3. <<d>> \in Seq(DOMAIN rows)
      BY <2>2
    <2> QED
      BY <1>1, <2>1, <2>3, ReplayStep
  <1>2. ASSUME LineInv, replay_batch PROVE LineInv'
    <2>0. PICK s \in {"dlq", "failed", "succeeded"} : \E S \in SUBSET RowsIn({s}) :
            \E ids \in [1..Cardinality(S) -> S] : Replay(ids)
      BY <1>2 DEF replay_batch
    <2>01. PICK S \in SUBSET RowsIn({s}) : \E ids \in [1..Cardinality(S) -> S] : Replay(ids)
      BY <2>0
    <2>1. PICK ids \in [1..Cardinality(S) -> S] : Replay(ids)
      BY <2>01
    <2>2. S \subseteq DOMAIN rows
      BY DEF RowsIn
    <2>3. Len(rows) \in Nat /\ DOMAIN rows = 1..Len(rows)
      BY <1>2, RowFacts DEF LineInv, Types
    <2>4. Cardinality(S) \in Nat
      <3>1. IsFiniteSet(1..Len(rows))
        BY <2>3, FS_Interval
      <3>2. IsFiniteSet(S)
        BY <2>2, <2>3, <3>1, FS_Subset
      <3> QED
        BY <3>2, FS_CardinalityType
    <2>5. ids \in [1..Cardinality(S) -> DOMAIN rows]
      BY <2>2
    <2>6. ids \in Seq(DOMAIN rows)
      BY <2>4, <2>5, FunctionIsSeq
    <2> QED
      BY <1>2, <2>1, <2>6, ReplayStep
  <1> QED
    BY <1>1, <1>2

\* A purge finds no live row, so everything that was sent is settled.
LEMMA purgeStep == LineInv /\ purge => LineInv'
  <1> SUFFICES ASSUME LineInv, purge PROVE LineInv'
    OBVIOUS
  <1>1. /\ LiveIn(rows) = {}
        /\ status' = "purged"
        /\ rows' = << >>
        /\ UNCHANGED <<event_vars, cursor, filter, worker, history>>
    BY LiveRowsIn DEF purge
  <1>2. rows' \in Seq(RowType) /\ DOMAIN rows' = {}
    BY <1>1, EmptySeq
  <1>3. EventsOf(rows') = {} /\ LiveEventsOf(rows') = {}
    BY <1>2 DEF EventsOf, LiveEventsOf, LiveIn
  <1>4. LiveEventsOf(rows) = {}
    BY <1>1 DEF LiveEventsOf
  <1>5. Types'
    BY <1>1, <1>2 DEF LineInv, Types, EventTypeOK, event_vars, history
  <1>6. Line'
    BY <1>1, <1>3, <1>4 DEF LineInv, Line, LineOf, history
  <1>7. InHand'
    BY <1>1 DEF LineInv, InHand
  <1>8. FewLive'
    BY <1>1, <1>2, FewKept DEF LiveIn, history
  <1> QED
    BY <1>1, <1>5, <1>6, <1>7, <1>8 DEF LineInv, CursorRead, PurgedIsEmpty

\* Evictions, settings and events: the table, the cursor and the worker's place in its
\* cycle stay.
Quiet ==
  /\ worker' \in {worker, [worker EXCEPT !.connected = FALSE]}
  /\ EventTypeOK'
  /\ status' \in {status, "active", "paused", "revoked"}
  /\ filter' \in FilterChoices
  /\ late_posts' \in {late_posts, 0}
  /\ UNCHANGED <<cursor, rows, tried, replays>>

LEMMA QuietStep == LineInv /\ Quiet => LineInv'
  <1> SUFFICES ASSUME LineInv, Quiet PROVE LineInv'
    OBVIOUS
  <1>1. /\ worker' \in WorkerType /\ worker'.pc = worker.pc
        /\ worker'.delivery = worker.delivery /\ worker'.cursor = worker.cursor
    BY DEF LineInv, Types, Quiet, WorkerType
  <1>2. Types'
    BY <1>1 DEF LineInv, Types, Quiet
  <1>3. Line'
    BY TableUntouched DEF LineInv, Quiet
  <1>4. InHand'
    BY <1>1 DEF LineInv, InHand, Quiet, LiveIn
  <1>5. FewLive'
    BY RowsUntouched DEF Quiet
  <1> QED
    BY <1>1, <1>2, <1>3, <1>4, <1>5 DEF LineInv, CursorRead, PurgedIsEmpty, Quiet

LEMMA EventTypesKept == EventTypeOK /\ EventNext => EventTypeOK'
  <1> SUFFICES ASSUME EventTypeOK, EventNext PROVE EventTypeOK'
    OBVIOUS
  <1>1. CASE emit_event
    BY <1>1, MaxEventsAssumption DEF emit_event, EventTypeOK, EventIds
  <1>2. ASSUME NEW e \in writing, commit_event(e) PROVE EventTypeOK'
    <2>1. e \in EventIds
      BY DEF EventTypeOK
    <2>2. log' \in Seq(EventIds) /\ Len(log') = Len(log) + 1 /\ Len(log) \in Nat
      BY <1>2, <2>1, AppendProperties, LenProperties DEF commit_event, EventTypeOK
    <2> QED
      BY <1>2, <2>2 DEF commit_event, EventTypeOK
  <1>3. ASSUME NEW e \in writing, rollback_event(e) PROVE EventTypeOK'
    BY <1>3 DEF rollback_event, EventTypeOK
  <1>4. CASE pass_floor
    <2>1. Len(log) \in Nat
      BY LenProperties DEF EventTypeOK
    <2> QED
      BY <1>4, <2>1 DEF pass_floor, EventTypeOK
  <1> QED
    BY <1>1, <1>2, <1>3, <1>4 DEF EventNext

LEMMA QuietActions ==
  ASSUME LineInv,
         \/ _run_fanout \/ retry_due \/ update_webhook \/ soft_delete \/ Emit
         \/ UNCHANGED vars
  PROVE  Quiet
  <1>0. EventTypeOK /\ filter \in FilterChoices /\ (UNCHANGED event_vars => EventTypeOK')
    BY DEF LineInv, Types, EventTypeOK, event_vars
  <1>1. CASE _run_fanout
    BY <1>0, <1>1 DEF _run_fanout, Quiet, subscription, table, history
  <1>2. CASE retry_due
    BY <1>0, <1>2 DEF retry_due, Quiet, subscription, process, history
  <1>3. CASE update_webhook
    BY <1>0, <1>3 DEF update_webhook, Quiet, table
  <1>4. CASE soft_delete
    BY <1>0, <1>4 DEF soft_delete, Quiet, table, history
  <1>5. CASE Emit
    BY <1>0, <1>5, EventTypesKept DEF Emit, Quiet, subscription, table, process, history
  <1>6. CASE UNCHANGED vars
    BY <1>0, <1>6 DEF vars, Quiet, subscription, table, process, history
  <1> QED
    BY <1>1, <1>2, <1>3, <1>4, <1>5, <1>6

LEMMA ResetActions ==
  ASSUME LineInv, back_off \/ worker_error \/ worker_exit \/ crash
  PROVE  LineInv'
  <1>1. worker' \in {NoWorker, IdleWorker}
    BY DEF back_off, worker_error, worker_exit, crash
  <1>2. UNCHANGED <<event_vars, subscription, rows, tried, late_posts, replays>>
    BY DEF back_off, worker_error, worker_exit, crash, table, history
  <1> QED
    BY <1>1, <1>2, WorkerResets

LEMMA RefreshStep == LineInv /\ _refresh_active_subscriptions => LineInv'
  <1> SUFFICES ASSUME LineInv, _refresh_active_subscriptions PROVE LineInv'
    OBVIOUS
  <1>1. UNCHANGED <<event_vars, subscription, rows, tried, late_posts, replays>>
    BY DEF _refresh_active_subscriptions, table, history
  <1>2. CASE worker' = IdleWorker
    BY <1>1, <1>2, WorkerResets
  <1>3. CASE worker' \in {worker, [worker EXCEPT !.connected = FALSE]}
    <2>1. EventTypeOK' /\ filter' \in FilterChoices
      BY <1>1 DEF LineInv, Types, EventTypeOK, event_vars, subscription
    <2> QED
      BY <1>1, <1>3, <2>1, QuietStep DEF Quiet, subscription
  <1> QED
    BY <1>2, <1>3 DEF _refresh_active_subscriptions

LEMMA RowsReturned ==
  ASSUME LineInv, reset_orphaned_in_flight \/ reclaim_stale_in_flight
  PROVE  LineInv'
  <1>1. UNCHANGED <<event_vars, subscription, worker, tried, late_posts, replays>>
    BY DEF reset_orphaned_in_flight, reclaim_stale_in_flight, process, history
  <1>2. CASE UNCHANGED table
    <2>1. EventTypeOK' /\ filter' \in FilterChoices
      BY <1>1 DEF LineInv, Types, EventTypeOK, event_vars, subscription
    <2> QED
      BY <1>1, <1>2, <2>1, QuietStep DEF Quiet, subscription, table
  <1>3. ASSUME NEW S \in SUBSET RowsIn({"in_flight"}), ToPending(S) PROVE LineInv'
    BY <1>1, <1>3, ToPendingStep
  <1> QED
    BY <1>2, <1>3 DEF reset_orphaned_in_flight, reclaim_stale_in_flight

LEMMA LineInvNext == LineInv /\ [Next]_vars => LineInv'
  <1> SUFFICES ASSUME LineInv, [Next]_vars PROVE LineInv'
    OBVIOUS
  <1>1. CASE DeliverOne
    <2>1. CASE record_success \/ record_dead_letter
      BY <2>1, RecordsSettle, SettledStep
    <2> QED
      BY <1>1, <2>1, read_subscriptionStep, claim_pendingStep, claim_freshStep, sendStep,
         record_failureStep, ResetActions DEF DeliverOne
  <1>2. CASE Dispatcher
    BY <1>2, ResetActions, RefreshStep, RowsReturned, QuietActions, QuietStep DEF Dispatcher
  <1>3. CASE Admin
    BY <1>3, QuietActions, QuietStep, purgeStep, ReplaysStep, cleanupStep DEF Admin
  <1>4. CASE Emit \/ UNCHANGED vars
    BY <1>4, QuietActions, QuietStep
  <1> QED
    BY <1>1, <1>2, <1>3, <1>4 DEF Next

-----------------------------------------------------------------------------
(* The theorems *)

\* The line of a subscription holds at all times: everything above the cursor that was
\* taken up or sent is one event with a live row (_select_next_pending,
\* _has_non_terminal_delivery and the cursor's update in deliver_one, dispatch.py).
THEOREM LineCorrect == Spec => []LineInv
  BY LineInvInit, LineInvNext, PTL DEF Spec

\* An event with a row above the cursor has a live row: no crash, eviction, failed
\* transaction, purge or cleanup loses an event that the dispatcher took up.
THEOREM NothingAbandonedHolds == Spec => []NothingAbandoned
  <1>1. LineInv => NothingAbandoned
    <2> SUFFICES ASSUME LineInv, NEW d \in DOMAIN rows, cursor < rows[d].event
                 PROVE  \E l \in LiveRows : rows[l].event = rows[d].event
      BY DEF NothingAbandoned
    <2>1. rows[d].event \in EventsOf(rows)
      BY DEF EventsOf
    <2>2. rows[d].event \in LiveEventsOf(rows)
      BY <2>1 DEF LineInv, Line, LineOf
    <2> QED
      BY <2>2, LiveRowsIn DEF LiveEventsOf
  <1> QED
    BY <1>1, LineCorrect, PTL

\* purge never takes the row of a delivery under way: the worker holds a live row from
\* its claim to its record, and live rows refuse the purge (admin_webhooks.py).
THEOREM PurgeWaitsHolds == Spec => []PurgeWaits
  <1>1. LineInv => PurgeWaits
    BY EmptySeq DEF LineInv, InHand, PurgedIsEmpty, PurgeWaits, LiveIn
  <1> QED
    BY <1>1, LineCorrect, PTL

\* The dispatcher alone has one live row at most, whatever fails; every other one was
\* inserted by a replay (deliver_one in dispatch.py, replay in admin_webhooks.py).
THEOREM OneLive == Spec => []OneLiveRow
  <1>1. LineInv => OneLiveRow
    BY LiveRowsIn DEF LineInv, FewLive, OneLiveRow
  <1> QED
    BY <1>1, LineCorrect, PTL

LEMMA LateCycleInit == Init => LateCycle
  BY DEF Init, LateCycle

LEMMA LateCycleNext == LineInv /\ LateCycle /\ [Next]_vars => LateCycle'
  <1> SUFFICES ASSUME LineInv, LateCycle, [Next]_vars PROVE LateCycle'
    OBVIOUS
  <1>0. late_posts \in Nat /\ worker \in WorkerType
    BY DEF LineInv, Types
  <1>1. CASE read_subscription
    BY <1>0, <1>1 DEF read_subscription, LateCycle, subscription, history
  <1>2. CASE claim_pending \/ claim_fresh
    <2>1. worker.pc = "ready" /\ UNCHANGED <<subscription, history>>
      BY <1>2 DEF claim_pending, claim_fresh
    <2> QED
      BY <1>0, <2>1 DEF LateCycle, subscription, history
  <1>3. CASE send
    <2>1. PICK a \in Answers : worker' = [worker EXCEPT !.pc = "answered", !.answer = a]
      BY <1>3 DEF send
    <2>2. worker'.pc = "answered"
      BY <1>0, <2>1 DEF WorkerType
    <2> QED
      BY <1>0, <1>3, <2>2 DEF send, LateCycle, subscription
  <1>4. CASE record_success \/ record_dead_letter \/ record_failure
    <2>1. worker' = IdleWorker /\ UNCHANGED history
      BY <1>4 DEF record_success, record_dead_letter, record_failure
    <2>2. status' = status \/ (status = "active" /\ status' = "paused")
      BY <1>4, AutoPauseStatus DEF record_success, record_dead_letter, record_failure
    <2> QED
      BY <2>1, <2>2, IdlePc DEF LateCycle, history
  <1>5. CASE back_off \/ worker_error \/ worker_exit \/ crash
    <2>1. worker' \in {NoWorker, IdleWorker} /\ UNCHANGED <<status, late_posts>>
      BY <1>5 DEF back_off, worker_error, worker_exit, crash, subscription, history
    <2> QED
      BY <2>1, IdlePc DEF LateCycle
  <1>6. CASE _run_fanout \/ _refresh_active_subscriptions
    <2>1. UNCHANGED <<status, late_posts>>
      BY <1>6 DEF _run_fanout, _refresh_active_subscriptions, subscription, history
    <2>2. worker' \in {worker, IdleWorker, [worker EXCEPT !.connected = FALSE]}
      BY <1>6 DEF _run_fanout, _refresh_active_subscriptions
    <2>3. worker'.pc \in {worker.pc, "idle"}
      BY <1>0, <2>2, IdlePc DEF WorkerType
    <2> QED
      BY <2>1, <2>3 DEF LateCycle
  <1>7. CASE reset_orphaned_in_flight \/ reclaim_stale_in_flight \/ retry_due \/ Emit
             \/ replay_single \/ replay_batch \/ cleanup_webhook_deliveries \/ UNCHANGED vars
    <2>1. UNCHANGED <<status, late_posts, worker>>
      BY <1>7 DEF reset_orphaned_in_flight, reclaim_stale_in_flight, retry_due, Emit,
         replay_single, replay_batch, Replay, cleanup_webhook_deliveries, vars,
         subscription, process, history
    <2> QED
      BY <2>1 DEF LateCycle
  <1>8. CASE update_webhook
    BY <1>0, <1>8 DEF update_webhook, LateCycle
  <1>9. CASE soft_delete \/ purge
    <2>1. status' # "active" /\ UNCHANGED <<late_posts, worker>>
      BY <1>9 DEF soft_delete, purge, history
    <2> QED
      BY <2>1 DEF LateCycle
  <1> QED
    BY <1>1, <1>2, <1>3, <1>4, <1>5, <1>6, <1>7, <1>8, <1>9
       DEF Next, DeliverOne, Dispatcher, Admin

\* After a subscription left "active" at most one send begins before it is resumed: the
\* one of the cycle that had read the status before (deliver_one, dispatch.py).
THEOREM PauseHeld == Spec => []PauseHolds
  <1>1. LateCycle => PauseHolds
    BY DEF LateCycle, PauseHolds
  <1> QED
    BY <1>1, LateCycleInit, LateCycleNext, LineCorrect, PTL DEF Spec

LEMMA OrderStep == LineInv /\ [Next]_vars => [Order!Next]_<<tried, cursor>>
  <1> SUFFICES ASSUME LineInv, [Next]_vars PROVE [Order!Next]_<<tried, cursor>>
    OBVIOUS
  <1>0. EventIds \subseteq Nat /\ cursor \in Nat /\ tried \subseteq Nat
    BY MaxEventsAssumption DEF LineInv, Types, EventIds
  <1> DEFINE e == rows[worker.delivery].event
  <1>1. CASE send
    <2>1. tried' = tried \cup {e} /\ cursor' = cursor
      BY <1>1 DEF send, subscription
    <2>2. worker.delivery \in LiveIn(rows)
      BY <1>1 DEF send, LineInv, InHand
    <2>3. e \in EventIds /\ e \in LiveEventsOf(rows) /\ e \in EventsOf(rows)
      BY <2>2, LiveHaveEvents, RowFacts DEF LineInv, Types
    <2> HIDE DEF e
    <2>4. CASE e \in tried
      BY <2>1, <2>4
    <2>5. CASE e \notin tried
      <3>1. cursor < e
        BY <2>3, <2>5 DEF LineInv, Line, LineOf
      <3>2. \A t \in tried : t < e /\ t <= cursor
        <4> TAKE t \in tried
        <4>1. CASE cursor < t
          BY <2>3, <2>5, <3>1, <4>1 DEF LineInv, Line, LineOf
        <4>2. CASE ~(cursor < t)
          BY <1>0, <2>3, <3>1, <4>2
        <4> QED
          BY <4>1, <4>2
      <3> QED
        BY <2>1, <2>3, <3>2 DEF Order!Next, Order!TryNext
    <2> QED
      BY <2>4, <2>5
  <1>2. CASE record_success \/ record_dead_letter
    <2>1. PICK s \in {"succeeded", "dlq"} : Settled(s)
      BY <1>2, RecordsSettle
    <2>2. tried' = tried /\ cursor' = IF cursor < e THEN e ELSE cursor
      BY <2>1 DEF Settled, Advanced, history
    <2>3. e \in tried /\ e \in EventIds
      BY <2>1 DEF Settled, LineInv, InHand, Types
    <2> HIDE DEF e
    <2> QED
      BY <2>2, <2>3 DEF Order!Next, Order!Settle
  <1>3. ASSUME ~send, ~record_success, ~record_dead_letter PROVE UNCHANGED <<tried, cursor>>
    BY <1>3 DEF Next, DeliverOne, Dispatcher, Admin, Emit, vars, subscription, process, history,
       read_subscription, claim_pending, claim_fresh, back_off, record_failure, worker_error,
       worker_exit, _run_fanout, _refresh_active_subscriptions, crash,
       reset_orphaned_in_flight, reclaim_stale_in_flight, retry_due,
       update_webhook, soft_delete, purge, replay_single, replay_batch, Replay,
       cleanup_webhook_deliveries
  <1> QED
    BY <1>1, <1>2, <1>3

\* The dispatcher implements OrderedDelivery: first sends happen in the order of event
\* ids, and the next event is sent only when everything sent before is settled.
THEOREM OrderKept == Spec => InOrder
  <1>1. Init => Order!Init
    BY DEF Init, Order!Init
  <1> QED
    BY <1>1, OrderStep, LineCorrect, PTL DEF Spec, InOrder, Order!Spec

=============================================================================
