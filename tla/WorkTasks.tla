------------------------------ MODULE WorkTasks ------------------------------
(***************************************************************************)
(* ME Warehouse Control: the queue of work tasks of one warehouse.         *)
(*                                                                         *)
(* Sources: api/services/work_control_service.py (claiming and the task    *)
(* life cycle), api/services/work_dispatch_service.py (automatic dispatch, *)
(* availability, manual assignment), api/routes/work_control.py (the       *)
(* handlers that call them), db/migrations/082 and 086 (tables and the     *)
(* one-active-task index).                                                 *)
(*                                                                         *)
(* Every handler is one database transaction, and here one action: the     *)
(* trailing auto_dispatch or claim_next_task of a handler belongs to its   *)
(* action.  WorkClaim.tla interleaves the statements of these transactions.*)
(* Rows of work_tasks are numbered in insertion order (BIGSERIAL), so the  *)
(* ORDER BY ... available_at, task_id of the queries is the order of ids:  *)
(* no code sets available_at, which defaults to the time of the INSERT.    *)
(***************************************************************************)
EXTENDS Sums, Sequences, FiniteSetsExt

CONSTANTS
  Workers,           \* usernames with role USER
  Admins,            \* usernames with role ADMIN
  Rank,              \* Rank[w]: position of w in the order of lower-cased names
  Batches,           \* Pack Notes
  MaxTasks,          \* bound on the rows of work_tasks
  BatchTypeLists,    \* the task_types lists create_batch is called with
  LooseTypes,        \* the task types create_task is called with
  Priorities,        \* the priorities of the requests
  TypeRequests,      \* the task_types / next_task_types of claim requests
  GrantChoices,      \* the function grants an administrator may save
  AvailabilityChoices, \* the availability statuses supervisors set
  EstimatedMinutes,  \* EstimatedMinutes[type]: estimate_task_minutes
  MaxClock,          \* bound on the clock
  MaxSkew,           \* how long before its commit a transaction may begin
  NULL

TaskTypes  == {"PICKING", "PACKING", "RECEIVING", "PUTAWAY", "STOCK_CHECK", "OTHER"}
PickPack   == {"PICKING", "PACKING"}
Grantable  == TaskTypes \ {"OTHER"}      \* TASK_FUNCTIONS has no entry for OTHER
Statuses   == {"QUEUED", "ASSIGNED", "CLAIMED", "IN_PROGRESS", "PAUSED",
               "COMPLETED", "CANCELLED"}
ACTIVE_STATUSES == {"CLAIMED", "IN_PROGRESS", "PAUSED"}
TERMINAL        == {"COMPLETED", "CANCELLED"}
OPEN_STATUSES   == Statuses \ TERMINAL
AvailabilityStatuses == {"AVAILABLE", "BREAK", "OFF_DUTY"}

Users   == Workers \cup Admins
TaskIds == 1..MaxTasks

ASSUME NullAssumption == NULL \notin Users \cup Batches \cup Nat
ASSUME UsersAssumption == Workers \cap Admins = {}
ASSUME RankAssumption ==
  /\ Rank \in [Workers -> Nat]
  /\ \A v, w \in Workers : Rank[v] = Rank[w] => v = w
ASSUME BoundsAssumption == MaxTasks \in Nat /\ MaxClock \in Nat /\ MaxSkew \in Nat
ASSUME InputsAssumption ==
  /\ BatchTypeLists \subseteq Seq(TaskTypes)
  /\ \A l \in BatchTypeLists : Len(l) > 0
  /\ LooseTypes \subseteq TaskTypes
  /\ Priorities \subseteq Nat
  /\ GrantChoices \subseteq SUBSET Grantable
  /\ AvailabilityChoices \subseteq AvailabilityStatuses
  /\ EstimatedMinutes \in [TaskTypes -> Nat]
  /\ \A types \in SUBSET TaskTypes : types # NULL   \* None is not a list

VARIABLES
  job,           \* columns of work_tasks fixed by the INSERT: type, batch, priority
  status,        \* work_tasks.status, "NONE" when there is no such row yet
  assigned_to,   \* work_tasks.assigned_to
  claimed_by,    \* work_tasks.claimed_by
  timing,        \* the time columns of work_tasks
  verified,      \* users with a VERIFIED row in work_task_events, per task
  batch_status,  \* work_batches.status, "NONE" when there is no such row yet
  availability,  \* work_worker_status.availability_status of the current day
  grants,        \* users.allowed_functions, as the task types they allow
  now            \* the clock

vars == <<job, status, assigned_to, claimed_by, timing, verified, batch_status,
          availability, grants, now>>

Job == [type : TaskTypes, batch : Batches \cup {NULL}, priority : Nat]
Stamp == Nat \cup {NULL}
Timing == [started : Stamp, completed : Stamp, active_from : Stamp,
           paused_from : Stamp, active : Nat, paused : Nat]
NoTiming == [started |-> NULL, completed |-> NULL, active_from |-> NULL,
             paused_from |-> NULL, active |-> 0, paused |-> 0]

TypeOK ==
  /\ job \in [TaskIds -> Job]
  /\ status \in [TaskIds -> Statuses \cup {"NONE"}]
  /\ assigned_to \in [TaskIds -> Users \cup {NULL}]
  /\ claimed_by \in [TaskIds -> Users \cup {NULL}]
  /\ timing \in [TaskIds -> Timing]
  /\ verified \in [TaskIds -> SUBSET Users]
  /\ batch_status \in [Batches -> {"NONE", "OPEN", "IN_PROGRESS", "COMPLETED"}]
  /\ availability \in [Users -> AvailabilityStatuses]
  /\ grants \in [Workers -> SUBSET Grantable]
  /\ now \in Nat

Init ==
  /\ job = [t \in TaskIds |-> [type |-> "OTHER", batch |-> NULL, priority |-> 0]]
  /\ status = [t \in TaskIds |-> "NONE"]
  /\ assigned_to = [t \in TaskIds |-> NULL]
  /\ claimed_by = [t \in TaskIds |-> NULL]
  /\ timing = [t \in TaskIds |-> NoTiming]
  /\ verified = [t \in TaskIds |-> {}]
  /\ batch_status = [b \in Batches |-> "NONE"]
  /\ availability = [u \in Users |-> "AVAILABLE"]
  /\ grants \in [Workers -> GrantChoices]
  /\ now = 0

-----------------------------------------------------------------------------
(***************************************************************************)
(* Queries shared by the handlers.  The parameters st, as, jb and av stand *)
(* for the columns as the transaction has left them so far.                *)
(***************************************************************************)

\* COALESCE(claimed_by, assigned_to)
Owner(t, as) == IF claimed_by[t] # NULL THEN claimed_by[t] ELSE as[t]

\* t and s are the two stages of one Pack Note
Counterpart(s, t, jb) ==
  /\ jb[t].batch # NULL
  /\ jb[s].batch = jb[t].batch
  /\ jb[s].type \in PickPack
  /\ jb[t].type \in PickPack
  /\ jb[s].type # jb[t].type

\* ORDER BY priority DESC, available_at, task_id
Before(s, t, jb) ==
  \/ jb[s].priority > jb[t].priority
  \/ jb[s].priority = jb[t].priority /\ s < t

\* NOW() of a transaction that commits now: the time it began
Stamps == {s \in 0..now : now - s <= MaxSkew}

\* wrong variant: no GREATEST(0, ...)
NotClamped(n) == n

Greatest0(n) == IF n > 0 THEN n ELSE 0

(***************************************************************************)
(* auto_dispatch: the loop visits the unowned queued tasks in queue order  *)
(* and gives each to the candidate with the least projected minutes, then  *)
(* the fewest tasks, then the first name.  An assignment f of the unowned  *)
(* tasks is the result of the loop when every task's choice is the best    *)
(* one after the choices of the tasks before it.                           *)
(***************************************************************************)

Unowned(st, as) == {t \in TaskIds : st[t] = "QUEUED" /\ as[t] = NULL}

\* _remaining_minutes, of a task whose row is still open
RemainingMinutes(t, st, jb) ==
  LET running == IF st[t] = "IN_PROGRESS" /\ timing[t].active_from # NULL
                   THEN Greatest0(now - timing[t].active_from) ELSE 0
  IN  Greatest0(EstimatedMinutes[jb[t].type] - (timing[t].active + running))

OpenOwned(w, st, as) == {t \in TaskIds : st[t] \in OPEN_STATUSES /\ Owner(t, as) = w}

\* the tasks the loop has given to w before it comes to t
GivenBefore(w, t, f, jb) == {s \in DOMAIN f : Before(s, t, jb) /\ f[s] = w}

\* wrong variant: the loop does not add what it gives
ProjectedAtStart(w, t, f, st, as, jb) ==
  SumOver(LAMBDA s : RemainingMinutes(s, st, jb), OpenOwned(w, st, as))

ProjectedMinutes(w, t, f, st, as, jb) ==
  SumOver(LAMBDA s : RemainingMinutes(s, st, jb), OpenOwned(w, st, as))
  + SumOver(LAMBDA s : EstimatedMinutes[jb[s].type], GivenBefore(w, t, f, jb))

AssignedCount(w, t, f, st, as, jb) ==
  Cardinality(OpenOwned(w, st, as)) + Cardinality(GivenBefore(w, t, f, jb))

\* counterpart_workers[batch of t] when the loop comes to t
CounterpartWorkers(t, f, as, jb) ==
  {Owner(s, as) : s \in {r \in TaskIds : jb[r].batch = jb[t].batch /\ jb[r].type \in PickPack}}
  \cup {f[s] : s \in {r \in DOMAIN f : Before(r, t, jb) /\ jb[r].batch = jb[t].batch}}

\* wrong variant: the other stage of the Pack Note does not matter
CandidatesOfType(t, f, as, jb, av) ==
  {w \in Workers : av[w] = "AVAILABLE" /\ jb[t].type \in grants[w]}

DispatchCandidates(t, f, as, jb, av) ==
  {w \in Workers :
     /\ av[w] = "AVAILABLE"
     /\ jb[t].type \in grants[w]
     /\ ~ /\ jb[t].batch # NULL
          /\ jb[t].type \in PickPack
          /\ w \in CounterpartWorkers(t, f, as, jb)}

\* the key of min(candidates): v is preferred to w for t
Preferred(v, w, t, f, st, as, jb) ==
  LET mv == ProjectedMinutes(v, t, f, st, as, jb)
      mw == ProjectedMinutes(w, t, f, st, as, jb)
      cv == AssignedCount(v, t, f, st, as, jb)
      cw == AssignedCount(w, t, f, st, as, jb)
  IN  \/ mv < mw
      \/ mv = mw /\ cv < cw
      \/ mv = mw /\ cv = cw /\ Rank[v] < Rank[w]

IsDispatch(f, st, as, jb, av) ==
  \A t \in DOMAIN f :
    LET candidates == DispatchCandidates(t, f, as, jb, av)
    IN  IF candidates = {} THEN f[t] = NULL
        ELSE /\ f[t] \in candidates
             /\ \A w \in candidates \ {f[t]} : Preferred(f[t], w, t, f, st, as, jb)

auto_dispatch(st, as, jb, av) ==
  \E f \in [Unowned(st, as) -> Workers \cup {NULL}] :
    /\ IsDispatch(f, st, as, jb, av)
    /\ assigned_to' = [t \in TaskIds |-> IF t \in DOMAIN f THEN f[t] ELSE as[t]]
    /\ status' = [t \in TaskIds |->
                    IF t \in DOMAIN f /\ f[t] # NULL THEN "ASSIGNED" ELSE st[t]]

-----------------------------------------------------------------------------
(***************************************************************************)
(* claim_next_task                                                         *)
(***************************************************************************)

\* wrong variant: only a running task is the current one
HasRunning(u, st) == \E t \in TaskIds : claimed_by[t] = u /\ st[t] = "IN_PROGRESS"

\* get_current_task found a row
HasCurrent(u, st) == \E t \in TaskIds : claimed_by[t] = u /\ st[t] \in ACTIVE_STATUSES

\* "if task_types:" -- neither a missing nor an empty list filters
TypeFilter(types) == IF types = NULL \/ types = {} THEN TaskTypes ELSE types

\* wrong variant: a claimed task that has not been started can be claimed again
ClaimableUntilStart(u, types, st) ==
  {t \in TaskIds : /\ st[t] \in {"QUEUED", "ASSIGNED", "CLAIMED"}
                   /\ job[t].type \in TypeFilter(types)}

Claimable(u, types, st) ==
  {t \in TaskIds :
     /\ st[t] \in {"QUEUED", "ASSIGNED"}
     /\ assigned_to[t] \in {NULL, u}
     /\ job[t].type \in TypeFilter(types)
     /\ ~ \E s \in TaskIds : /\ st[s] # "NONE"
                             /\ Counterpart(s, t, job)
                             /\ Owner(s, assigned_to) = u}

\* own assignments first, then queue order
ClaimBefore(s, t, u) ==
  \/ assigned_to[s] = u /\ assigned_to[t] # u
  \/ (assigned_to[s] = u <=> assigned_to[t] = u) /\ Before(s, t, job)

\* FOR UPDATE SKIP LOCKED: the rows other transactions have locked are passed over
claim_next_task(u, types, st, bs) ==
  \/ /\ \/ HasCurrent(u, st)
        \/ availability[u] # "AVAILABLE"
        \/ Claimable(u, types, st) = {}
     /\ status' = st
     /\ batch_status' = bs
     /\ UNCHANGED claimed_by
  \/ /\ ~HasCurrent(u, st)
     /\ availability[u] = "AVAILABLE"
     /\ \E locked \in SUBSET Claimable(u, types, st) :
          \E t \in Claimable(u, types, st) \ locked :
            /\ \A s \in Claimable(u, types, st) \ (locked \cup {t}) : ClaimBefore(t, s, u)
            /\ status' = [st EXCEPT ![t] = "CLAIMED"]
            /\ claimed_by' = [claimed_by EXCEPT ![t] = u]
            /\ batch_status' = [b \in Batches |->
                 IF b = job[t].batch /\ bs[b] = "OPEN" THEN "IN_PROGRESS" ELSE bs[b]]

\* _authorized_task_types: TRUE when the request is granted, and the resulting list
TypesGranted(u, requested) ==
  u \in Workers /\ requested # NULL => requested \subseteq grants[u]

AuthorizedTypes(u, requested) ==
  IF u \in Workers /\ requested = NULL THEN grants[u] ELSE requested

\* POST /tasks/claim-next; an empty list of types is answered without a claim
claim_next(u) ==
  \E requested \in TypeRequests :
    /\ TypesGranted(u, requested)
    /\ AuthorizedTypes(u, requested) # {}
    /\ claim_next_task(u, AuthorizedTypes(u, requested), status, batch_status)
    /\ UNCHANGED <<job, assigned_to, timing, verified, availability, grants, now>>

-----------------------------------------------------------------------------
(***************************************************************************)
(* Creating work                                                           *)
(***************************************************************************)

\* task_id is a sequence: t is the next row to insert
FirstFree(t) ==
  /\ \A s \in t..MaxTasks : status[s] = "NONE"
  /\ \A s \in 1..(t - 1) : status[s] # "NONE"

\* POST /batches, with its auto_dispatch
create_batch(b, types, priority) ==
  \E t \in TaskIds :
    LET new == t..(t + Len(types) - 1)
        jb  == [s \in TaskIds |-> IF s \in new
                  THEN [type |-> types[s - t + 1], batch |-> b, priority |-> priority]
                  ELSE job[s]]
        st  == [s \in TaskIds |-> IF s \in new THEN "QUEUED" ELSE status[s]]
    IN  /\ batch_status[b] = "NONE"
        /\ FirstFree(t)
        /\ new \subseteq TaskIds
        /\ job' = jb
        /\ batch_status' = [batch_status EXCEPT ![b] = "OPEN"]
        /\ auto_dispatch(st, assigned_to, jb, availability)
        /\ UNCHANGED <<claimed_by, timing, verified, availability, grants, now>>

(***************************************************************************)
(* assign_task's checks on the chosen employee; a failed check raises and  *)
(* the transaction is rolled back.                                         *)
(***************************************************************************)
MayBeAssigned(w, t, jb) ==
  /\ jb[t].type \in grants[w]
  /\ availability[w] = "AVAILABLE"
  /\ ~ \E s \in TaskIds : Counterpart(s, t, jb) /\ Owner(s, assigned_to) = w

\* POST /tasks: with an assignee it is assign_task, without one auto_dispatch
create_task(type, b, priority, w) ==
  \E t \in TaskIds :
    LET jb == [job EXCEPT ![t] = [type |-> type, batch |-> b, priority |-> priority]]
        st == [status EXCEPT ![t] = "QUEUED"]
    IN  /\ FirstFree(t)
        /\ b # NULL => batch_status[b] # "NONE"
        /\ job' = jb
        /\ \/ /\ w = NULL
              /\ auto_dispatch(st, assigned_to, jb, availability)
           \/ /\ w # NULL
              /\ MayBeAssigned(w, t, jb)
              /\ status' = [st EXCEPT ![t] = "ASSIGNED"]
              /\ assigned_to' = [assigned_to EXCEPT ![t] = w]
        /\ UNCHANGED <<claimed_by, timing, verified, batch_status, availability, grants, now>>

-----------------------------------------------------------------------------
(***************************************************************************)
(* Dispatch, availability, assignment                                      *)
(***************************************************************************)

\* POST /dispatch/run
run_dispatch ==
  /\ auto_dispatch(status, assigned_to, job, availability)
  /\ UNCHANGED <<job, claimed_by, timing, verified, batch_status, availability, grants, now>>

\* wrong variant: the assignments of the employee are not released
availability_without_release(w, av) ==
  /\ availability' = [availability EXCEPT ![w] = av]
  /\ auto_dispatch(status, assigned_to, job, availability')
  /\ UNCHANGED <<job, claimed_by, timing, verified, batch_status, grants, now>>

\* PUT /dispatch/workers/<id>/availability: release, then dispatch again
set_worker_availability(w, av) ==
  LET released == {t \in TaskIds : /\ av # "AVAILABLE"
                                   /\ assigned_to[t] = w
                                   /\ claimed_by[t] = NULL
                                   /\ status[t] = "ASSIGNED"}
      st == [t \in TaskIds |-> IF t \in released THEN "QUEUED" ELSE status[t]]
      as == [t \in TaskIds |-> IF t \in released THEN NULL ELSE assigned_to[t]]
  IN  /\ availability' = [availability EXCEPT ![w] = av]
      /\ auto_dispatch(st, as, job, availability')
      /\ UNCHANGED <<job, claimed_by, timing, verified, batch_status, grants, now>>

\* PUT /tasks/<id>/assignment: assign_task, and auto_dispatch when unassigned
assign_task(t, w) ==
  /\ status[t] \in {"QUEUED", "ASSIGNED"}
  /\ claimed_by[t] = NULL
  /\ \/ /\ w = NULL
        /\ auto_dispatch([status EXCEPT ![t] = "QUEUED"],
                         [assigned_to EXCEPT ![t] = NULL], job, availability)
     \/ /\ w # NULL
        /\ MayBeAssigned(w, t, job)
        /\ status' = [status EXCEPT ![t] = "ASSIGNED"]
        /\ assigned_to' = [assigned_to EXCEPT ![t] = w]
  /\ UNCHANGED <<job, claimed_by, timing, verified, batch_status, availability, grants, now>>

\* availability rows are dated: nobody has one at the start of a work day
new_work_day ==
  /\ \E w \in Workers : availability[w] # "AVAILABLE"
  /\ availability' = [u \in Users |-> "AVAILABLE"]
  /\ UNCHANGED <<job, status, assigned_to, claimed_by, timing, verified, batch_status, grants, now>>

\* PUT /admin/users/<id>: the administrator saves other function grants
update_user(w) ==
  /\ \E g \in GrantChoices : grants' = [grants EXCEPT ![w] = g]
  /\ UNCHANGED <<job, status, assigned_to, claimed_by, timing, verified, batch_status,
                 availability, now>>

-----------------------------------------------------------------------------
(***************************************************************************)
(* Working on a task: verify-scan and transition_task                      *)
(***************************************************************************)

MayTransition(t, u) == u \in Admins \/ claimed_by[t] = u

\* POST /tasks/<id>/verify-scan with a barcode of the task's Pack Note; a task
\* without a batch matches no barcode
verify_task_scan(t, u) ==
  /\ job[t].type \in PickPack
  /\ status[t] = "CLAIMED"
  /\ MayTransition(t, u)
  /\ job[t].batch # NULL
  /\ verified' = [verified EXCEPT ![t] = @ \cup {u}]
  /\ UNCHANGED <<job, status, assigned_to, claimed_by, timing, batch_status,
                 availability, grants, now>>

\* wrong variants: a transition forgets the interval it closes, or to close it
resumed_uncounted(r, at) == [r EXCEPT !.paused_from = NULL, !.active_from = at]
cancelled_running(r, at, from_status) == [r EXCEPT !.completed = at]

\* The set_sql of each transition, on the time columns r of a task
started_times(r, at) ==
  [r EXCEPT !.started = IF r.started = NULL THEN at ELSE r.started,
            !.active_from = at, !.paused_from = NULL]
paused_times(r, at) ==
  [r EXCEPT !.active = r.active + Greatest0(at - r.active_from),
            !.active_from = NULL, !.paused_from = at]
resumed_times(r, at) ==
  [r EXCEPT !.paused = r.paused + Greatest0(at - r.paused_from),
            !.paused_from = NULL, !.active_from = at]
completed_times(r, at) ==
  [r EXCEPT !.completed = at,
            !.active = r.active + Greatest0(at - r.active_from),
            !.active_from = NULL, !.paused_from = NULL]
cancelled_times(r, at, from_status) ==
  [r EXCEPT !.completed = at,
            !.active = r.active + (IF from_status = "IN_PROGRESS"
                         THEN Greatest0(at - r.active_from) ELSE 0),
            !.paused = r.paused + (IF from_status = "PAUSED"
                         THEN Greatest0(at - r.paused_from) ELSE 0),
            !.active_from = NULL, !.paused_from = NULL]

\* wrong variant: the scan is left to the handheld
START_unverified(t, u) ==
  /\ status[t] = "CLAIMED"
  /\ MayTransition(t, u)
  /\ \E at \in Stamps : timing' = [timing EXCEPT ![t] = started_times(timing[t], at)]
  /\ status' = [status EXCEPT ![t] = "IN_PROGRESS"]
  /\ UNCHANGED <<job, assigned_to, claimed_by, verified, batch_status, availability, grants, now>>

START(t, u) ==
  /\ status[t] = "CLAIMED"
  /\ MayTransition(t, u)
  /\ job[t].type \in PickPack => u \in verified[t]
  /\ \E at \in Stamps : timing' = [timing EXCEPT ![t] = started_times(timing[t], at)]
  /\ status' = [status EXCEPT ![t] = "IN_PROGRESS"]
  /\ UNCHANGED <<job, assigned_to, claimed_by, verified, batch_status, availability, grants, now>>

PAUSE(t, u) ==
  /\ status[t] = "IN_PROGRESS"
  /\ MayTransition(t, u)
  /\ \E at \in Stamps : timing' = [timing EXCEPT ![t] = paused_times(timing[t], at)]
  /\ status' = [status EXCEPT ![t] = "PAUSED"]
  /\ UNCHANGED <<job, assigned_to, claimed_by, verified, batch_status, availability, grants, now>>

RESUME(t, u) ==
  /\ status[t] = "PAUSED"
  /\ MayTransition(t, u)
  /\ \E at \in Stamps : timing' = [timing EXCEPT ![t] = resumed_times(timing[t], at)]
  /\ status' = [status EXCEPT ![t] = "IN_PROGRESS"]
  /\ UNCHANGED <<job, assigned_to, claimed_by, verified, batch_status, availability, grants, now>>

\* wrong variant: a cancelled task keeps the batch open
BatchAfterCompleted(t, st) ==
  [b \in Batches |->
     IF b = job[t].batch /\ \A s \in TaskIds : job[s].batch = b => st[s] = "COMPLETED"
       THEN "COMPLETED" ELSE batch_status[b]]

\* the batch is done when no task of it is left open
BatchAfter(t, st) ==
  [b \in Batches |->
     IF b = job[t].batch /\ \A s \in TaskIds : job[s].batch = b => st[s] \in TERMINAL
       THEN "COMPLETED" ELSE batch_status[b]]

\* wrong variant: the completion passes on the types it was asked for, unchecked
COMPLETE_unchecked(t, u) ==
  LET st == [status EXCEPT ![t] = "COMPLETED"]
  IN  /\ status[t] = "IN_PROGRESS"
      /\ MayTransition(t, u)
      /\ \E at \in Stamps : timing' = [timing EXCEPT ![t] = completed_times(timing[t], at)]
      /\ \E requested \in TypeRequests \ {NULL} :
           claim_next_task(u, requested, st, BatchAfter(t, st))
      /\ UNCHANGED <<job, assigned_to, verified, availability, grants, now>>

\* COMPLETE, with the claim of the next task when the request asks for one
COMPLETE(t, u) ==
  LET st == [status EXCEPT ![t] = "COMPLETED"]
  IN  /\ status[t] = "IN_PROGRESS"
      /\ MayTransition(t, u)
      /\ \E at \in Stamps : timing' = [timing EXCEPT ![t] = completed_times(timing[t], at)]
      /\ \/ /\ status' = st
            /\ batch_status' = BatchAfter(t, st)
            /\ UNCHANGED claimed_by
         \/ \E requested \in TypeRequests :
              /\ TypesGranted(u, requested)
              /\ claim_next_task(u, AuthorizedTypes(u, requested), st, BatchAfter(t, st))
      /\ UNCHANGED <<job, assigned_to, verified, availability, grants, now>>

\* wrong variant: a completed task can be cancelled
CANCEL_any(t, u) ==
  LET st == [status EXCEPT ![t] = "CANCELLED"]
  IN  /\ status[t] \notin {"NONE", "CANCELLED"}
      /\ u \in Admins
      /\ \E at \in Stamps : timing' = [timing EXCEPT ![t] = cancelled_times(timing[t], at, status[t])]
      /\ status' = st
      /\ batch_status' = BatchAfter(t, st)
      /\ UNCHANGED <<job, assigned_to, claimed_by, verified, availability, grants, now>>

CANCEL(t, u) ==
  LET st == [status EXCEPT ![t] = "CANCELLED"]
  IN  /\ status[t] \in OPEN_STATUSES
      /\ u \in Admins
      /\ \E at \in Stamps : timing' = [timing EXCEPT ![t] = cancelled_times(timing[t], at, status[t])]
      /\ status' = st
      /\ batch_status' = BatchAfter(t, st)
      /\ UNCHANGED <<job, assigned_to, claimed_by, verified, availability, grants, now>>

Tick ==
  /\ now < MaxClock
  /\ now' = now + 1
  /\ UNCHANGED <<job, status, assigned_to, claimed_by, timing, verified, batch_status,
                 availability, grants>>

-----------------------------------------------------------------------------

Supervise ==
  \/ \E b \in Batches, l \in BatchTypeLists, p \in Priorities : create_batch(b, l, p)
  \/ \E type \in LooseTypes, b \in Batches \cup {NULL}, p \in Priorities,
        w \in Workers \cup {NULL} : create_task(type, b, p, w)
  \/ run_dispatch
  \/ \E w \in Workers, av \in AvailabilityChoices : set_worker_availability(w, av)
  \/ \E t \in TaskIds, w \in Workers \cup {NULL} : assign_task(t, w)
  \/ new_work_day
  \/ \E w \in Workers : update_user(w)

Work ==
  \/ \E u \in Users : claim_next(u)
  \/ \E t \in TaskIds, u \in Users : verify_task_scan(t, u)
  \/ \E t \in TaskIds, u \in Users : START(t, u)
  \/ \E t \in TaskIds, u \in Users : PAUSE(t, u)
  \/ \E t \in TaskIds, u \in Users : RESUME(t, u)
  \/ \E t \in TaskIds, u \in Users : COMPLETE(t, u)
  \/ \E t \in TaskIds, u \in Users : CANCEL(t, u)

Next == Supervise \/ Work \/ Tick

Spec == Init /\ [][Next]_vars

-----------------------------------------------------------------------------
(***************************************************************************)
(* Properties                                                              *)
(***************************************************************************)

Exists(t) == status[t] # "NONE"

\* get_current_task returns "the" task of a user: however claims, completions
\* that claim the next task, cancellations and supervisors interleave, nobody
\* ever holds two claimed, running or paused tasks.
OneActivePerWorker ==
  \A s, t \in TaskIds :
    /\ status[s] \in ACTIVE_STATUSES
    /\ status[t] \in ACTIVE_STATUSES
    /\ claimed_by[s] = claimed_by[t]
    => s = t

\* The picker and the packer of a Pack Note are different employees, whether the
\* stages were claimed, dispatched or assigned by hand, and whether they are still
\* open or long finished.
CrossCheck ==
  \A s, t \in TaskIds :
    Counterpart(s, t, job) /\ Owner(t, assigned_to) # NULL
      => Owner(s, assigned_to) # Owner(t, assigned_to)

\* A waiting assignment is a promise the assignee can keep: it names an employee
\* who is on duty, and nobody else holds a claim on the task.  A task handed out
\* to someone who went on a break would wait for ever, since claim_next_task
\* offers it to no one else.
AssigneesOnDuty ==
  \A t \in TaskIds :
    /\ status[t] = "ASSIGNED" => /\ assigned_to[t] \in Workers
                                 /\ availability[assigned_to[t]] = "AVAILABLE"
    /\ status[t] = "QUEUED" => assigned_to[t] = NULL
    /\ claimed_by[t] # NULL => assigned_to[t] \in {NULL, claimed_by[t]}

\* Nobody picks or packs without having scanned a barcode of the Pack Note: a
\* PICKING or PACKING task that was ever started has a VERIFIED event and a batch.
ScanGate ==
  \A t \in TaskIds :
    job[t].type \in PickPack /\ timing[t].started # NULL
      => verified[t] # {} /\ job[t].batch # NULL

\* Pack Note status agrees with its tasks: OPEN means that nobody has touched it,
\* and when its last task ends the Pack Note is COMPLETED, whichever transition
\* (a completion, a cancellation) ended it.
BatchAgrees ==
  \A b \in Batches :
    LET tasks == {t \in TaskIds : Exists(t) /\ job[t].batch = b}
    IN  /\ batch_status[b] = "NONE" => tasks = {}
        /\ batch_status[b] = "OPEN" => \A t \in tasks : claimed_by[t] = NULL
        /\ batch_status[b] \in {"OPEN", "IN_PROGRESS"} =>
             \E t \in tasks : status[t] \in OPEN_STATUSES

\* Seconds between the start of t and its end (or its last timed event)
Accounted(t) == timing[t].active + timing[t].paused
LastStamp(t) ==
  IF timing[t].completed # NULL THEN timing[t].completed
  ELSE IF timing[t].active_from # NULL THEN timing[t].active_from
  ELSE timing[t].paused_from

\* The efficiency report loses no time: over any sequence of pauses and resumes
\* the active and the paused seconds of a task cover all the time since it was
\* started, and exactly that time when no transaction waited between its begin
\* (which NOW() returns) and its commit.
TimeAccounting ==
  \A t \in TaskIds : timing[t].started # NULL =>
    /\ LastStamp(t) # NULL
    /\ Accounted(t) >= LastStamp(t) - timing[t].started
    /\ MaxSkew = 0 => Accounted(t) = LastStamp(t) - timing[t].started

\* The clock that runs is the one of the status: only IN_PROGRESS accrues active
\* time, only PAUSED accrues paused time, and an ended task accrues neither.
ClocksAgree ==
  \A t \in TaskIds :
    /\ status[t] = "IN_PROGRESS" <=> timing[t].active_from # NULL
    /\ status[t] = "PAUSED" <=> timing[t].paused_from # NULL
    /\ status[t] \in TERMINAL <=> timing[t].completed # NULL

\* What the columns of one row say about each other; with the invariants above it
\* is inductive.  A row that does not exist is blank, a waiting task is unclaimed,
\* a task in hand or completed is claimed, times are written from START on and
\* never lie in the future, and only a task with a Pack Note can be verified.
RowsAgree ==
  \A t \in TaskIds :
    /\ status[t] = "NONE" =>
         job[t].batch = NULL /\ assigned_to[t] = NULL /\ verified[t] = {}
    /\ status[t] \in {"NONE", "QUEUED", "ASSIGNED"} => claimed_by[t] = NULL
    /\ status[t] \in ACTIVE_STATUSES \cup {"COMPLETED"} => claimed_by[t] # NULL
    /\ status[t] \in {"NONE", "QUEUED", "ASSIGNED", "CLAIMED"} => timing[t] = NoTiming
    /\ verified[t] # {} => job[t].batch # NULL
    /\ \A at \in {timing[t].started, timing[t].completed, timing[t].active_from,
                  timing[t].paused_from} \ {NULL} : at <= now

\* Attribution and history are final: the employee who claimed a task stays its
\* employee through pauses, breaks and cancellation, and an ended task keeps its
\* owner, its times and its status.
AttributionStable ==
  [][\A t \in TaskIds :
       /\ claimed_by[t] # NULL => claimed_by'[t] = claimed_by[t]
       /\ status[t] \in TERMINAL =>
            /\ status'[t] = status[t]
            /\ timing'[t] = timing[t]
            /\ assigned_to'[t] = assigned_to[t]
            /\ claimed_by'[t] = claimed_by[t]]_vars

\* The queue keeps its promise to the handhelds, with requests as atomic steps.
Ended == {t \in TaskIds : status[t] \in TERMINAL}
Promise == INSTANCE ClaimOnce WITH
  Tasks <- TaskIds, Nobody <- NULL, taken_by <- claimed_by, finished <- Ended
ClaimsOnce == Promise!Spec

\* "These are enforced by the API when claiming work" (docs/me-warehouse-control.md,
\* of the operational functions): nobody claims a type of work that is not granted
\* at that moment -- except by a completion of his own that claims with an empty list
\* of types, which filters nothing. The list is empty for an employee without any
\* grants, or when the request sends an empty one; where no handheld does
\* ({} \notin TypeRequests), an employee with some grants never claims beyond them.
ClaimsGranted ==
  [][\A t \in TaskIds :
       LET w == claimed_by'[t]
       IN  claimed_by[t] = NULL /\ w \in Workers /\ job[t].type \notin grants[w]
             => /\ grants[w] = {} \/ {} \in TypeRequests
                /\ \E s \in TaskIds : /\ claimed_by[s] = w
                                       /\ status[s] = "IN_PROGRESS"
                                       /\ status'[s] = "COMPLETED"]_vars

=============================================================================
