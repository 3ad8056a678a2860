--------------------------- MODULE WebhookDelivery --------------------------
(***************************************************************************)
(* One webhook subscription: the rows of webhook_deliveries, the worker    *)
(* thread of the dispatcher process that delivers them, the administrators *)
(* who change, replay and delete, and the jobs that look after the table.  *)
(*                                                                         *)
(* deliver_one commits twice around its HTTP call, so it is four actions:  *)
(* read the subscription, claim a row, send, record the answer. Between    *)
(* them anything may happen: an administrator's transaction, an eviction   *)
(* that closes the worker's connection, a crash of the process.            *)
(*                                                                         *)
(* A worker is woken by NOTIFY, by Redis messages, and by a poll every two *)
(* seconds; with the poll an idle worker may always begin a cycle, so the  *)
(* wake-ups themselves are left out. Messages that evict are kept.         *)
(***************************************************************************)
EXTENDS EventLog, FiniteSets, SequencesExt

CONSTANTS
    MaxAttempts,     \* attempts before a delivery is given up
    PendingCeiling,  \* live rows that pause the subscription
    DlqCeiling,      \* dead-letter rows that pause the subscription
    EventType,       \* the type of each event
    FilterChoices,   \* the filters administrators set: sets of event types
    MaxReplays,      \* bound: rows administrators insert
    MaxFaults,       \* bound: crashes, failed transactions
    MaxNotices       \* bound: eviction messages in transit

ASSUME AttemptsAssumption == MaxAttempts \in Nat \ {0}
ASSUME CeilingsAssumption == PendingCeiling \in Nat /\ DlqCeiling \in Nat
ASSUME BoundsAssumption ==
    MaxReplays \in Nat /\ MaxFaults \in Nat /\ MaxNotices \in Nat

VARIABLES
    status,      \* webhook_subscriptions.status; "purged" once the row is gone
    cursor,      \* webhook_subscriptions.last_delivered_event_id
    filter,      \* webhook_subscriptions.subscription_filter
    rows,        \* webhook_deliveries, by delivery_id
    due,         \* pending rows whose scheduled_at has come, in its order
    up,          \* the dispatcher process runs
    worker,      \* the subscription's worker thread
    notices,     \* "paused" and "deleted" messages on their way to the process
    tried,       \* history: the events the worker has sent
    late_posts,  \* history: sends begun since the subscription left "active"
    replays,     \* history: rows inserted by administrators
    faults       \* history: failures so far

subscription == <<status, cursor, filter>>
table == <<rows, due>>
process == <<up, worker, notices>>
history == <<tried, late_posts, replays, faults>>
vars == <<event_vars, subscription, table, process, history>>

RowStatuses == {"pending", "in_flight", "succeeded", "failed", "dlq", "deleted"}
Answers == {"accepted", "transient", "permanent"}

Row(e, n, s) == [event |-> e, attempt |-> n, status |-> s]

NoWorker == [pc |-> "none", connected |-> FALSE, cursor |-> 0, filter |-> {},
             delivery |-> 0, answer |-> "none"]
IdleWorker == [NoWorker EXCEPT !.pc = "idle", !.connected = TRUE]

RowsIn(S) == {d \in DOMAIN rows : rows[d].status \in S}
LiveRows == RowsIn({"pending", "in_flight"})

\* An empty filter matches every event.
Matches(e, f) == f = {} \/ EventType[e] \in f

\* A message may get lost, and finds nobody while the process is down.
Publish ==
    \/ UNCHANGED notices
    \/ up /\ notices < MaxNotices /\ notices' = notices + 1

Init ==
    /\ EventInit
    /\ status = "active"
    /\ cursor = 0
    /\ filter \in FilterChoices
    /\ rows = << >>
    /\ due = << >>
    /\ up = TRUE
    /\ worker = NoWorker
    /\ notices = 0
    /\ tried = {}
    /\ late_posts = 0
    /\ replays = 0
    /\ faults = 0

-----------------------------------------------------------------------------
(* deliver_one *)

\* wrong variant: the status is checked when the worker is spawned only
read_subscription_spawned ==
    /\ worker.pc = "idle" /\ worker.connected
    /\ worker' = [worker EXCEPT !.pc = "ready", !.cursor = cursor, !.filter = filter]
    /\ UNCHANGED <<event_vars, subscription, table, up, notices, history>>

read_subscription ==
    /\ worker.pc = "idle" /\ worker.connected
    /\ status = "active"
    /\ worker' = [worker EXCEPT !.pc = "ready", !.cursor = cursor, !.filter = filter]
    /\ UNCHANGED <<event_vars, subscription, table, up, notices, history>>

_select_next_pending == Head(due)

\* The lowest readable event that the cursor and the filter read before let through.
FreshEvents == {e \in Readable : worker.cursor < e /\ Matches(e, worker.filter)}
_select_next_fresh_event == CHOOSE e \in FreshEvents : \A f \in FreshEvents : e <= f

\* wrong variant: only rows that wait for their time hold the line
WaitingRetry == RowsIn({"pending"}) # {}

\* wrong variant: no row holds the line but one that is due
NothingHolds == FALSE

_has_non_terminal_delivery == LiveRows # {}

claim_pending ==
    /\ worker.pc = "ready" /\ worker.connected
    /\ due # << >>
    /\ LET d == _select_next_pending IN
         /\ d \in RowsIn({"pending"})
         /\ rows' = [rows EXCEPT ![d].status = "in_flight"]
         /\ worker' = [worker EXCEPT !.pc = "claimed", !.delivery = d]
    /\ due' = Tail(due)
    /\ UNCHANGED <<event_vars, subscription, up, notices, history>>

claim_fresh ==
    /\ worker.pc = "ready" /\ worker.connected
    /\ due = << >> /\ ~_has_non_terminal_delivery
    /\ FreshEvents # {}
    /\ status # "purged"  \* else the foreign key refuses the row
    /\ rows' = Append(rows, Row(_select_next_fresh_event, 1, "in_flight"))
    /\ worker' = [worker EXCEPT !.pc = "claimed", !.delivery = Len(rows) + 1]
    /\ UNCHANGED <<event_vars, subscription, due, up, notices, history>>

\* Nothing to do, a retry that is not due, or a subscription gone meanwhile.
back_off ==
    /\ worker.pc = "ready" /\ worker.connected
    /\ due = << >>
    /\ _has_non_terminal_delivery \/ FreshEvents = {} \/ status = "purged"
    /\ worker' = IdleWorker
    /\ UNCHANGED <<event_vars, subscription, table, up, notices, history>>

\* The HTTP call needs no database connection: an evicted worker completes it.
send ==
    /\ worker.pc = "claimed"
    /\ \E a \in Answers : worker' = [worker EXCEPT !.pc = "answered", !.answer = a]
    /\ tried' = tried \cup {rows[worker.delivery].event}
    /\ late_posts' = IF status = "active" THEN late_posts ELSE late_posts + 1
    /\ UNCHANGED <<event_vars, subscription, table, up, notices, replays, faults>>

\* The cursor moves forward only.
Advanced(e) == IF cursor < e THEN e ELSE cursor

\* Pauses an active subscription whose count in the new table reaches the ceiling.
_maybe_auto_pause(S, ceiling) ==
    IF /\ status = "active"
       /\ Cardinality({d \in DOMAIN rows' : rows'[d].status \in S}) >= ceiling
    THEN status' = "paused" /\ Publish
    ELSE UNCHANGED <<status, notices>>

record_success ==
    LET d == worker.delivery IN
    /\ worker.pc = "answered" /\ worker.connected
    /\ worker.answer = "accepted"
    /\ rows' = [rows EXCEPT ![d].status = "succeeded"]
    /\ due' = SelectSeq(due, LAMBDA x : x # d)
    /\ cursor' = Advanced(rows[d].event)
    /\ worker' = IdleWorker
    /\ UNCHANGED <<event_vars, status, filter, up, notices, history>>

GivenUp == worker.answer = "permanent" \/ rows[worker.delivery].attempt >= MaxAttempts

record_dead_letter ==
    LET d == worker.delivery IN
    /\ worker.pc = "answered" /\ worker.connected
    /\ worker.answer # "accepted" /\ GivenUp
    /\ rows' = [rows EXCEPT ![d].status = "dlq"]
    /\ due' = SelectSeq(due, LAMBDA x : x # d)
    /\ cursor' = Advanced(rows[d].event)
    /\ _maybe_auto_pause({"dlq"}, DlqCeiling)
    /\ worker' = IdleWorker
    /\ UNCHANGED <<event_vars, filter, up, history>>

record_failure ==
    LET d == worker.delivery IN
    /\ worker.pc = "answered" /\ worker.connected
    /\ worker.answer # "accepted" /\ ~GivenUp
    /\ rows' = Append([rows EXCEPT ![d].status = "failed"],
                      Row(rows[d].event, rows[d].attempt + 1, "pending"))
    /\ due' = SelectSeq(due, LAMBDA x : x # d)
    /\ _maybe_auto_pause({"pending", "in_flight"}, PendingCeiling)
    /\ worker' = IdleWorker
    /\ UNCHANGED <<event_vars, cursor, filter, up, history>>

\* deliver_one raises: the transaction rolls back and the thread goes on.
worker_error ==
    /\ worker.pc \in {"ready", "claimed", "answered"} /\ worker.connected
    /\ faults < MaxFaults
    /\ faults' = faults + 1
    /\ worker' = IdleWorker
    /\ UNCHANGED <<event_vars, subscription, table, up, notices, tried, late_posts, replays>>

-----------------------------------------------------------------------------
(* The process around it *)

\* The next database call of an evicted worker fails; the thread ends.
worker_exit ==
    /\ worker.pc # "none" /\ ~worker.connected
    /\ worker' = NoWorker
    /\ UNCHANGED <<event_vars, subscription, table, up, notices, history>>

\* A "paused" or "deleted" message closes the worker's connection, however late.
_run_fanout ==
    /\ up /\ notices > 0
    /\ notices' = notices - 1
    /\ worker' = [worker EXCEPT !.connected = FALSE]
    /\ UNCHANGED <<event_vars, subscription, table, up, history>>

\* Every minute: a worker for an active subscription, none for another.
_refresh_active_subscriptions ==
    /\ up
    /\ \/ worker.pc = "none" /\ status = "active" /\ worker' = IdleWorker
       \/ worker.pc # "none" /\ status # "active"
          /\ worker' = [worker EXCEPT !.connected = FALSE]
       \/ worker.pc = "none" /\ status # "active" /\ UNCHANGED worker
    /\ UNCHANGED <<event_vars, subscription, table, up, notices, history>>

crash ==
    /\ up /\ faults < MaxFaults
    /\ up' = FALSE
    /\ worker' = NoWorker
    /\ notices' = 0
    /\ faults' = faults + 1
    /\ UNCHANGED <<event_vars, subscription, table, tried, late_posts, replays>>

ToPending(S) ==
    /\ rows' = [d \in DOMAIN rows |->
                  IF d \in S THEN [rows[d] EXCEPT !.status = "pending"] ELSE rows[d]]
    /\ due' = due \o SetToSortSeq(S, <)

\* The process starts; the reset of orphaned rows is logged and skipped if it fails.
reset_orphaned_in_flight ==
    /\ ~up /\ up' = TRUE
    /\ \/ ToPending(RowsIn({"in_flight"})) /\ UNCHANGED faults
       \/ UNCHANGED table /\ faults < MaxFaults /\ faults' = faults + 1
    /\ UNCHANGED <<event_vars, subscription, worker, notices, tried, late_posts, replays>>

\* wrong variant: only retries are reclaimed
reclaim_retries ==
    /\ up
    /\ \E d \in RowsIn({"in_flight"}) : rows[d].attempt > 1 /\ ToPending({d})
    /\ UNCHANGED <<event_vars, subscription, process, history>>

\* A row attempted long ago. The age says nothing about the worker: signing waits for
\* the lock on the secret without a limit, so the delivery may still be under way.
reclaim_stale_in_flight ==
    /\ up
    /\ \E d \in RowsIn({"in_flight"}) : ToPending({d})
    /\ UNCHANGED <<event_vars, subscription, process, history>>

\* The scheduled_at of a retry comes.
retry_due ==
    /\ \E d \in RowsIn({"pending"}) : d \notin ToSet(due) /\ due' = Append(due, d)
    /\ UNCHANGED <<event_vars, subscription, rows, process, history>>

-----------------------------------------------------------------------------
(* Administrators, and the retention job *)

\* PATCH with a status, a filter, or both. Revoked is final; a resume begins afresh.
update_webhook ==
    /\ status # "purged"
    /\ \E s \in {status, "active", "paused"}, f \in FilterChoices :
         /\ <<s, f>> # <<status, filter>>
         /\ s # status => status # "revoked"
         /\ status' = s /\ filter' = f
         /\ IF s = "paused" /\ status # "paused" THEN Publish ELSE UNCHANGED notices
         /\ late_posts' = IF s # status /\ s = "active" THEN 0 ELSE late_posts
    /\ UNCHANGED <<event_vars, cursor, table, up, worker, tried, replays, faults>>

soft_delete ==
    /\ status \in {"active", "paused"}
    /\ status' = "revoked"
    /\ Publish
    /\ UNCHANGED <<event_vars, cursor, filter, table, up, worker, history>>

\* wrong variant: only pending rows refuse it
purge_pending ==
    /\ status # "purged"
    /\ RowsIn({"pending"}) = {}
    /\ status' = "purged"
    /\ rows' = << >>
    /\ Publish
    /\ UNCHANGED <<event_vars, cursor, filter, due, up, worker, history>>

\* Refused while a row is live; takes the rows with the subscription.
purge ==
    /\ status # "purged"
    /\ LiveRows = {}
    /\ status' = "purged"
    /\ rows' = << >>
    /\ Publish
    /\ UNCHANGED <<event_vars, cursor, filter, due, up, worker, history>>

Replay(ids) ==
    /\ status \in {"active", "paused"}
    /\ replays + Len(ids) <= MaxReplays
    /\ replays' = replays + Len(ids)
    /\ rows' = rows \o [i \in 1..Len(ids) |-> Row(rows[ids[i]].event, 1, "pending")]
    /\ due' = due \o [i \in 1..Len(ids) |-> Len(rows) + i]
    /\ UNCHANGED <<event_vars, subscription, process, tried, late_posts, faults>>

Listed == RowsIn(RowStatuses \ {"deleted"})

replay_single == \E d \in Listed : Replay(<<d>>)

\* One new row for each row of a status that the request's type and dates select, in
\* no particular order; the ceiling holds.
replay_batch ==
    \E s \in {"dlq", "failed", "succeeded"} : \E S \in SUBSET RowsIn({s}) :
        /\ Cardinality(LiveRows) + Cardinality(S) <= PendingCeiling
        /\ \E ids \in [1..Cardinality(S) -> S] : ToSet(ids) = S /\ Replay(ids)

\* wrong variant: rows stuck in flight are cleared as well
ExpiredOrStuck == RowsIn({"succeeded", "dlq", "in_flight"})

\* Rows that ended, however old. A "failed" row stays.
Expired == RowsIn({"succeeded", "dlq"})

cleanup_webhook_deliveries ==
    /\ \E d \in Expired : rows' = [rows EXCEPT ![d].status = "deleted"]
    /\ UNCHANGED <<event_vars, subscription, due, process, history>>

-----------------------------------------------------------------------------

DeliverOne ==
    \/ read_subscription \/ claim_pending \/ claim_fresh \/ back_off
    \/ send \/ record_success \/ record_dead_letter \/ record_failure \/ worker_error

Dispatcher ==
    \/ worker_exit \/ _run_fanout \/ _refresh_active_subscriptions
    \/ crash \/ reset_orphaned_in_flight \/ reclaim_stale_in_flight \/ retry_due

Admin ==
    \/ update_webhook \/ soft_delete \/ purge
    \/ replay_single \/ replay_batch \/ cleanup_webhook_deliveries

Emit == EventNext /\ UNCHANGED <<subscription, table, process, history>>

Next == DeliverOne \/ Dispatcher \/ Admin \/ Emit

Spec == Init /\ [][Next]_vars

(***************************************************************************)
(* The threads of the process run, the container restarts it, and its      *)
(* minute and reclaim timers fire. Nothing is assumed of administrators,   *)
(* of the consumer's answers, or of the messages.                          *)
(***************************************************************************)
Fairness ==
    /\ WF_vars(read_subscription)
    /\ WF_vars(claim_pending \/ claim_fresh \/ back_off)
    /\ WF_vars(send)
    /\ WF_vars(record_success \/ record_dead_letter \/ record_failure)
    /\ WF_vars(worker_exit)
    /\ WF_vars(_refresh_active_subscriptions)
    /\ WF_vars(reset_orphaned_in_flight)
    /\ WF_vars(reclaim_stale_in_flight)
    /\ WF_vars(retry_due)

FairSpec == Spec /\ Fairness

-----------------------------------------------------------------------------
(* Properties *)

\* First sends happen in the order of event ids, each when all before it are settled,
\* through retries, replays, evictions, crashes and reclaimed rows ("a stuck event
\* blocks newer events on the same subscription").
Order == INSTANCE OrderedDelivery WITH Events <- EventIds
InOrder == Order!Spec

\* An event the dispatcher took up and has not settled keeps a live row, whatever
\* failed in between: nothing that was begun is forgotten.
NothingAbandoned ==
    \A d \in DOMAIN rows :
        cursor < rows[d].event => \E l \in LiveRows : rows[l].event = rows[d].event

\* The dispatcher alone never has two live rows; more come from replays only. (So a
\* failing consumer cannot reach the pending ceiling without them.)
OneLiveRow == Cardinality(LiveRows) <= 1 + replays

\* A pause, by hand or by a ceiling, and a deletion stop the sending: at most the
\* cycle that had read the status before it still sends.
PauseHolds == late_posts <= 1

\* A purge cannot pull the row from under a delivery: live rows refuse it, and no new
\* one can be inserted while it runs.
PurgeWaits == status = "purged" => worker.pc \notin {"claimed", "answered"}

\* e is readable, unsettled and matches the filter f in force, and no cycle begun under
\* an older filter is about to pass it.
Awaiting(e, f) ==
    /\ e \in Readable /\ cursor < e
    /\ filter = f /\ Matches(e, f)
    /\ status = "active"
    /\ worker.pc = "ready" => worker.filter = f
    /\ \A d \in LiveRows : rows[d].event <= e

\* An event that may be delivered is delivered or put on the dead-letter queue, as long
\* as the subscription stays active under its filter: through crashes, lost and late
\* messages, evictions, failed transactions and rows left in flight.
EventuallySettled ==
    \A e \in EventIds, f \in FilterChoices :
        Awaiting(e, f) ~> \/ e \in tried /\ e <= cursor
                          \/ status # "active"
                          \/ filter # f

\* A committed event that the subscription's filter lets through is tried before the
\* cursor passes it.
NoEventDropped ==
    \A e \in Committed : Matches(e, filter) /\ e < cursor => e \in tried
=============================================================================
