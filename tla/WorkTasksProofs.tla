--------------------------- MODULE WorkTasksProofs ---------------------------
(***************************************************************************)
(* Theorems about WorkTasks for every number of employees, Pack Notes and  *)
(* tasks, every dispatch rate and every set of requests.                   *)
(***************************************************************************)
EXTENDS WorkTasks, TLAPS

-----------------------------------------------------------------------------
(***************************************************************************)
(* What a dispatch does to the columns it writes.                          *)
(***************************************************************************)

\* The rows a dispatch writes, from the columns st and as it found
DispatchedRows(st, as, jb, av) ==
  \A t \in TaskIds :
    \/ status'[t] = st[t] /\ assigned_to'[t] = as[t]
    \/ /\ st[t] = "QUEUED" /\ as[t] = NULL
       /\ status'[t] = "ASSIGNED" /\ assigned_to'[t] \in Workers
       /\ av[assigned_to'[t]] = "AVAILABLE"
       /\ jb[t].type \in grants[assigned_to'[t]]

\* auto_dispatch only turns queued, unowned tasks into tasks assigned to an
\* available worker who is granted their type; it leaves every other row alone.
LEMMA DispatchStep ==
  ASSUME NEW st \in [TaskIds -> Statuses \cup {"NONE"}],
         NEW as \in [TaskIds -> Users \cup {NULL}],
         NEW jb, NEW av,
         auto_dispatch(st, as, jb, av)
  PROVE  /\ status' \in [TaskIds -> Statuses \cup {"NONE"}]
         /\ assigned_to' \in [TaskIds -> Users \cup {NULL}]
         /\ DispatchedRows(st, as, jb, av)
  <1>1. PICK f \in [Unowned(st, as) -> Workers \cup {NULL}] :
          /\ IsDispatch(f, st, as, jb, av)
          /\ assigned_to' = [t \in TaskIds |-> IF t \in DOMAIN f THEN f[t] ELSE as[t]]
          /\ status' = [t \in TaskIds |->
                          IF t \in DOMAIN f /\ f[t] # NULL THEN "ASSIGNED" ELSE st[t]]
    BY DEF auto_dispatch
  <1>2. DOMAIN f = Unowned(st, as) /\ Unowned(st, as) \subseteq TaskIds
    BY DEF Unowned
  <1>3. ASSUME NEW t \in TaskIds
        PROVE  \/ status'[t] = st[t] /\ assigned_to'[t] = as[t]
               \/ /\ st[t] = "QUEUED" /\ as[t] = NULL
                  /\ status'[t] = "ASSIGNED" /\ assigned_to'[t] \in Workers
                  /\ av[assigned_to'[t]] = "AVAILABLE"
                  /\ jb[t].type \in grants[assigned_to'[t]]
    <2>1. CASE t \notin DOMAIN f
      BY <1>1, <2>1
    <2>2. CASE t \in DOMAIN f /\ f[t] = NULL
      BY <1>1, <2>2, <1>2 DEF Unowned
    <2>3. CASE t \in DOMAIN f /\ f[t] # NULL
      <3>1. f[t] \in DispatchCandidates(t, f, as, jb, av)
        BY <1>1, <2>3, Zenon DEF IsDispatch
      <3>2. st[t] = "QUEUED" /\ as[t] = NULL
        BY <2>3, <1>2 DEF Unowned
      <3>3. assigned_to'[t] = f[t] /\ status'[t] = "ASSIGNED"
        BY <1>1, <2>3
      <3> QED
        BY <3>1, <3>2, <3>3 DEF DispatchCandidates
    <2> QED
      BY <2>1, <2>2, <2>3
  <1>4. assigned_to' \in [TaskIds -> Users \cup {NULL}]
    BY <1>1, <1>2 DEF Users
  <1>5. status' \in [TaskIds -> Statuses \cup {"NONE"}]
    BY <1>1 DEF Statuses
  <1> QED
    BY <1>3, <1>4, <1>5 DEF DispatchedRows

\* What claim_next_task writes: at most one task, waiting and open to u, becomes
\* u's, and its Pack Note leaves OPEN.
LEMMA ClaimStep ==
  ASSUME NEW u, NEW types, NEW st, NEW bs,
         claim_next_task(u, types, st, bs)
  PROVE  \/ status' = st /\ batch_status' = bs /\ claimed_by' = claimed_by
         \/ /\ ~HasCurrent(u, st)
            /\ \E t \in TaskIds :
                 /\ t \in Claimable(u, types, st)
                 /\ status' = [st EXCEPT ![t] = "CLAIMED"]
                 /\ claimed_by' = [claimed_by EXCEPT ![t] = u]
                 /\ batch_status' = [b \in Batches |->
                      IF b = job[t].batch /\ bs[b] = "OPEN" THEN "IN_PROGRESS" ELSE bs[b]]
  <1>1. Claimable(u, types, st) \subseteq TaskIds
    BY DEF Claimable
  <1> QED
    BY <1>1 DEF claim_next_task

\* Every transition writes one stamp that is not in the future.
LEMMA StampsAreNat ==
  ASSUME now \in Nat, NEW at \in Stamps
  PROVE  at \in Nat /\ at <= now /\ at >= now - MaxSkew
  BY BoundsAssumption DEF Stamps

\* GREATEST(0, n) is a natural number that is at least n.
LEMMA GreatestNat ==
  ASSUME NEW n \in Int
  PROVE  Greatest0(n) \in Nat /\ Greatest0(n) >= n /\ (n >= 0 => Greatest0(n) = n)
  BY DEF Greatest0

\* The columns each transition leaves behind.
LEMMA StartedTimes ==
  ASSUME NEW r \in Timing, NEW at \in Nat
  PROVE  /\ started_times(r, at) \in Timing
         /\ started_times(r, at).started = IF r.started = NULL THEN at ELSE r.started
         /\ started_times(r, at).completed = r.completed
         /\ started_times(r, at).active_from = at
         /\ started_times(r, at).paused_from = NULL
         /\ started_times(r, at).active = r.active
         /\ started_times(r, at).paused = r.paused
  BY DEF started_times, Timing, Stamp

\* PAUSE closes the active interval and opens a paused one.
LEMMA PausedTimes ==
  ASSUME NEW r \in Timing, NEW at \in Nat, r.active_from \in Nat
  PROVE  /\ paused_times(r, at) \in Timing
         /\ paused_times(r, at).started = r.started
         /\ paused_times(r, at).completed = r.completed
         /\ paused_times(r, at).active_from = NULL
         /\ paused_times(r, at).paused_from = at
         /\ paused_times(r, at).active = r.active + Greatest0(at - r.active_from)
         /\ paused_times(r, at).paused = r.paused
  <1>1. r.active + Greatest0(at - r.active_from) \in Nat
    BY GreatestNat DEF Timing
  <1> QED
    BY <1>1 DEF paused_times, Timing, Stamp

\* RESUME closes the paused interval and opens an active one.
LEMMA ResumedTimes ==
  ASSUME NEW r \in Timing, NEW at \in Nat, r.paused_from \in Nat
  PROVE  /\ resumed_times(r, at) \in Timing
         /\ resumed_times(r, at).started = r.started
         /\ resumed_times(r, at).completed = r.completed
         /\ resumed_times(r, at).active_from = at
         /\ resumed_times(r, at).paused_from = NULL
         /\ resumed_times(r, at).active = r.active
         /\ resumed_times(r, at).paused = r.paused + Greatest0(at - r.paused_from)
  <1>1. r.paused + Greatest0(at - r.paused_from) \in Nat
    BY GreatestNat DEF Timing
  <1> QED
    BY <1>1 DEF resumed_times, Timing, Stamp

\* COMPLETE closes the active interval and stops every clock.
LEMMA CompletedTimes ==
  ASSUME NEW r \in Timing, NEW at \in Nat, r.active_from \in Nat
  PROVE  /\ completed_times(r, at) \in Timing
         /\ completed_times(r, at).started = r.started
         /\ completed_times(r, at).completed = at
         /\ completed_times(r, at).active_from = NULL
         /\ completed_times(r, at).paused_from = NULL
         /\ completed_times(r, at).active = r.active + Greatest0(at - r.active_from)
         /\ completed_times(r, at).paused = r.paused
  <1>1. r.active + Greatest0(at - r.active_from) \in Nat
    BY GreatestNat DEF Timing
  <1> QED
    BY <1>1 DEF completed_times, Timing, Stamp

\* CANCEL closes whichever interval is open and stops every clock.
LEMMA CancelledTimes ==
  ASSUME NEW r \in Timing, NEW at \in Nat, NEW from,
         from = "IN_PROGRESS" => r.active_from \in Nat,
         from = "PAUSED" => r.paused_from \in Nat
  PROVE  /\ cancelled_times(r, at, from) \in Timing
         /\ cancelled_times(r, at, from).started = r.started
         /\ cancelled_times(r, at, from).completed = at
         /\ cancelled_times(r, at, from).active_from = NULL
         /\ cancelled_times(r, at, from).paused_from = NULL
         /\ cancelled_times(r, at, from).active =
              r.active + (IF from = "IN_PROGRESS" THEN Greatest0(at - r.active_from) ELSE 0)
         /\ cancelled_times(r, at, from).paused =
              r.paused + (IF from = "PAUSED" THEN Greatest0(at - r.paused_from) ELSE 0)
  <1> DEFINE a == r.active + (IF from = "IN_PROGRESS" THEN Greatest0(at - r.active_from) ELSE 0)
             p == r.paused + (IF from = "PAUSED" THEN Greatest0(at - r.paused_from) ELSE 0)
  <1>1. a \in Nat /\ p \in Nat
    BY GreatestNat DEF Timing
  <1> QED
    BY <1>1 DEF cancelled_times, Timing, Stamp

-----------------------------------------------------------------------------
(***************************************************************************)
(* Type correctness                                                        *)
(***************************************************************************)

\* The tables start out well typed.
LEMMA InitTypeOK == Init => TypeOK
  BY InputsAssumption
  DEF Init, TypeOK, Job, TaskTypes, Timing, NoTiming, Stamp, AvailabilityStatuses

\* Inserting the tasks of a Pack Note, or one loose task, keeps the tables well typed.
LEMMA CreateTypeOK ==
  ASSUME TypeOK,
         \/ \E b \in Batches, l \in BatchTypeLists, p \in Priorities : create_batch(b, l, p)
         \/ \E type \in LooseTypes, b \in Batches \cup {NULL}, p \in Priorities,
               w \in Workers \cup {NULL} : create_task(type, b, p, w)
  PROVE  TypeOK'
  <1>1. ASSUME NEW b \in Batches, NEW l \in BatchTypeLists, NEW p \in Priorities,
               create_batch(b, l, p)
        PROVE  TypeOK'
    <2>1. PICK t \in TaskIds :
            LET new == t..(t + Len(l) - 1)
                jb  == [s \in TaskIds |-> IF s \in new
                          THEN [type |-> l[s - t + 1], batch |-> b, priority |-> p]
                          ELSE job[s]]
                st  == [s \in TaskIds |-> IF s \in new THEN "QUEUED" ELSE status[s]]
            IN  job' = jb /\ auto_dispatch(st, assigned_to, jb, availability)
      BY <1>1 DEF create_batch
    <2> DEFINE new == t..(t + Len(l) - 1)
               jb  == [s \in TaskIds |-> IF s \in new
                          THEN [type |-> l[s - t + 1], batch |-> b, priority |-> p]
                          ELSE job[s]]
               st  == [s \in TaskIds |-> IF s \in new THEN "QUEUED" ELSE status[s]]
    <2>2. l \in Seq(TaskTypes) /\ Len(l) \in Nat /\ p \in Nat
      BY InputsAssumption
    <2>3. \A s \in new : l[s - t + 1] \in TaskTypes
      BY <2>2 DEF TaskIds
    <2>4. jb \in [TaskIds -> Job]
      BY <2>2, <2>3 DEF Job, TypeOK
    <2>5. st \in [TaskIds -> Statuses \cup {"NONE"}]
      BY DEF TypeOK, Statuses
    <2>6. auto_dispatch(st, assigned_to, jb, availability) /\ job' = jb
      BY <2>1
    <2> HIDE DEF st, jb
    <2>7. /\ status' \in [TaskIds -> Statuses \cup {"NONE"}]
          /\ assigned_to' \in [TaskIds -> Users \cup {NULL}]
      BY <2>5, <2>6, DispatchStep DEF TypeOK
    <2> QED
      BY <1>1, <2>4, <2>6, <2>7 DEF TypeOK, create_batch
  <1>2. ASSUME NEW type \in LooseTypes, NEW b \in Batches \cup {NULL}, NEW p \in Priorities,
               NEW w \in Workers \cup {NULL}, create_task(type, b, p, w)
        PROVE  TypeOK'
    <2>1. PICK t \in TaskIds :
            LET jb == [job EXCEPT ![t] = [type |-> type, batch |-> b, priority |-> p]]
                st == [status EXCEPT ![t] = "QUEUED"]
            IN  /\ job' = jb
                /\ \/ /\ w = NULL
                      /\ auto_dispatch(st, assigned_to, jb, availability)
                   \/ /\ w # NULL
                      /\ status' = [st EXCEPT ![t] = "ASSIGNED"]
                      /\ assigned_to' = [assigned_to EXCEPT ![t] = w]
      BY <1>2 DEF create_task
    <2> DEFINE jb == [job EXCEPT ![t] = [type |-> type, batch |-> b, priority |-> p]]
               st == [status EXCEPT ![t] = "QUEUED"]
    <2>2. jb \in [TaskIds -> Job]
      BY InputsAssumption DEF Job, TypeOK
    <2>3. st \in [TaskIds -> Statuses \cup {"NONE"}]
      BY DEF TypeOK, Statuses
    <2>4. /\ status' \in [TaskIds -> Statuses \cup {"NONE"}]
          /\ assigned_to' \in [TaskIds -> Users \cup {NULL}]
      <3>1. CASE auto_dispatch(st, assigned_to, jb, availability)
        <4> HIDE DEF st, jb
        <4> QED
          BY <2>3, <3>1, DispatchStep DEF TypeOK
      <3>2. CASE /\ w # NULL
                 /\ status' = [st EXCEPT ![t] = "ASSIGNED"]
                 /\ assigned_to' = [assigned_to EXCEPT ![t] = w]
        BY <2>3, <3>2 DEF TypeOK, Statuses, Users
      <3> QED
        BY <2>1, <3>1, <3>2
    <2> QED
      BY <1>2, <2>1, <2>2, <2>4 DEF TypeOK, create_task
  <1> QED
    BY <1>1, <1>2

\* Every supervisor's action keeps the tables well typed.
LEMMA SuperviseTypeOK ==
  ASSUME TypeOK, Supervise
  PROVE  TypeOK'
  <1>1. CASE run_dispatch
    <2>1. /\ status' \in [TaskIds -> Statuses \cup {"NONE"}]
          /\ assigned_to' \in [TaskIds -> Users \cup {NULL}]
      BY <1>1, DispatchStep DEF run_dispatch, TypeOK
    <2> QED
      BY <1>1, <2>1 DEF run_dispatch, TypeOK
  <1>2. ASSUME NEW w \in Workers, NEW av \in AvailabilityChoices, set_worker_availability(w, av)
        PROVE  TypeOK'
    <2> DEFINE released == {t \in TaskIds : /\ av # "AVAILABLE"
                                            /\ assigned_to[t] = w
                                            /\ claimed_by[t] = NULL
                                            /\ status[t] = "ASSIGNED"}
               st == [t \in TaskIds |-> IF t \in released THEN "QUEUED" ELSE status[t]]
               as == [t \in TaskIds |-> IF t \in released THEN NULL ELSE assigned_to[t]]
    <2>1. /\ st \in [TaskIds -> Statuses \cup {"NONE"}]
          /\ as \in [TaskIds -> Users \cup {NULL}]
      BY DEF TypeOK, Statuses
    <2>2. auto_dispatch(st, as, job, availability')
      BY <1>2 DEF set_worker_availability
    <2> HIDE DEF st, as
    <2>3. /\ status' \in [TaskIds -> Statuses \cup {"NONE"}]
          /\ assigned_to' \in [TaskIds -> Users \cup {NULL}]
      BY <2>1, <2>2, DispatchStep
    <2>4. availability' \in [Users -> AvailabilityStatuses]
      BY <1>2, InputsAssumption DEF set_worker_availability, TypeOK, Users
    <2> QED
      BY <1>2, <2>3, <2>4 DEF set_worker_availability, TypeOK
  <1>3. ASSUME NEW t \in TaskIds, NEW w \in Workers \cup {NULL}, assign_task(t, w)
        PROVE  TypeOK'
    <2>1. /\ status' \in [TaskIds -> Statuses \cup {"NONE"}]
          /\ assigned_to' \in [TaskIds -> Users \cup {NULL}]
      <3> DEFINE st == [status EXCEPT ![t] = "QUEUED"]
                 as == [assigned_to EXCEPT ![t] = NULL]
      <3>1. /\ st \in [TaskIds -> Statuses \cup {"NONE"}]
            /\ as \in [TaskIds -> Users \cup {NULL}]
        BY DEF TypeOK, Statuses
      <3>2. CASE auto_dispatch(st, as, job, availability)
        <4> HIDE DEF st, as
        <4> QED
          BY <3>1, <3>2, DispatchStep
      <3>3. CASE /\ w # NULL
                 /\ status' = [status EXCEPT ![t] = "ASSIGNED"]
                 /\ assigned_to' = [assigned_to EXCEPT ![t] = w]
        BY <3>3 DEF TypeOK, Statuses, Users
      <3> QED
        BY <1>3, <3>2, <3>3 DEF assign_task
    <2> QED
      BY <1>3, <2>1 DEF assign_task, TypeOK
  <1>4. CASE new_work_day
    BY <1>4 DEF new_work_day, TypeOK, AvailabilityStatuses
  <1>5. ASSUME NEW w \in Workers, update_user(w)
        PROVE  TypeOK'
    BY <1>5, InputsAssumption DEF update_user, TypeOK
  <1> QED
    BY <1>1, <1>2, <1>3, <1>4, <1>5, CreateTypeOK DEF Supervise

-----------------------------------------------------------------------------
(***************************************************************************)
(* What the supervisors' actions do to one row.                            *)
(***************************************************************************)

\* Row t is left in the queue or with an employee who is on duty.
Waiting(t) ==
  \/ status[t] = "QUEUED" /\ assigned_to[t] = NULL
  \/ /\ status[t] = "ASSIGNED" /\ assigned_to[t] \in Workers
     /\ availability[assigned_to[t]] = "AVAILABLE"

SameRow(t) ==
  /\ status'[t] = status[t] /\ assigned_to'[t] = assigned_to[t] /\ job'[t] = job[t]
  /\ status[t] = "ASSIGNED" => availability'[assigned_to[t]] = "AVAILABLE"

Requeued(t) ==
  /\ status[t] \in {"NONE", "QUEUED", "ASSIGNED"}
  /\ status[t] # "NONE" => job'[t] = job[t]
  /\ Waiting(t)'

\* A supervisor's action leaves claims, times and verifications alone, and any
\* row it touches was waiting (or new) and is waiting afterwards.
LEMMA SuperviseRows ==
  ASSUME TypeOK, RowsAgree, AssigneesOnDuty, Supervise
  PROVE  /\ UNCHANGED <<claimed_by, timing, verified, now>>
         /\ \A t \in TaskIds : SameRow(t) \/ Requeued(t)
  <1>1. ASSUME NEW b \in Batches, NEW l \in BatchTypeLists, NEW p \in Priorities,
               create_batch(b, l, p)
        PROVE  /\ UNCHANGED <<claimed_by, timing, verified, now>>
               /\ \A t \in TaskIds : SameRow(t) \/ Requeued(t)
    <2> DEFINE new(t) == t..(t + Len(l) - 1)
               jb(t)  == [s \in TaskIds |-> IF s \in new(t)
                          THEN [type |-> l[s - t + 1], batch |-> b, priority |-> p]
                          ELSE job[s]]
               st(t)  == [s \in TaskIds |-> IF s \in new(t) THEN "QUEUED" ELSE status[s]]
    <2>1. PICK t \in TaskIds :
            /\ FirstFree(t) /\ new(t) \subseteq TaskIds
            /\ job' = jb(t)
            /\ auto_dispatch(st(t), assigned_to, jb(t), availability)
      BY <1>1 DEF create_batch
    <2>2. st(t) \in [TaskIds -> Statuses \cup {"NONE"}]
      BY DEF TypeOK, Statuses
    <2>3. \A s \in new(t) : status[s] = "NONE"
      BY <2>1 DEF FirstFree, TaskIds
    <2>4. DispatchedRows(st(t), assigned_to, jb(t), availability)
      <3> HIDE DEF st, jb
      <3> QED
        BY <2>1, <2>2, DispatchStep DEF TypeOK
    <2>5. UNCHANGED <<claimed_by, timing, verified, now, availability>>
      BY <1>1 DEF create_batch
    <2>6. ASSUME NEW s \in TaskIds, s \in new(t)
          PROVE  Requeued(s)
      <3>1. status[s] = "NONE" /\ assigned_to[s] = NULL /\ st(t)[s] = "QUEUED"
        BY <2>3, <2>6 DEF RowsAgree
      <3> QED
        BY <2>4, <2>5, <3>1 DEF DispatchedRows, Requeued, Waiting
    <2>7. ASSUME NEW s \in TaskIds, s \notin new(t)
          PROVE  SameRow(s) \/ Requeued(s)
      <3>1. st(t)[s] = status[s] /\ job'[s] = job[s]
        BY <2>1, <2>7
      <3> QED
        BY <2>4, <2>5, <3>1 DEF DispatchedRows, SameRow, Requeued, Waiting, AssigneesOnDuty
    <2> QED
      BY <2>5, <2>6, <2>7
  <1>2. ASSUME NEW type \in LooseTypes, NEW b \in Batches \cup {NULL}, NEW p \in Priorities,
               NEW w \in Workers \cup {NULL}, create_task(type, b, p, w)
        PROVE  /\ UNCHANGED <<claimed_by, timing, verified, now>>
               /\ \A t \in TaskIds : SameRow(t) \/ Requeued(t)
    <2> DEFINE jb(t) == [job EXCEPT ![t] = [type |-> type, batch |-> b, priority |-> p]]
               st(t) == [status EXCEPT ![t] = "QUEUED"]
    <2>1. PICK t \in TaskIds :
            /\ FirstFree(t)
            /\ job' = jb(t)
            /\ \/ /\ w = NULL
                  /\ auto_dispatch(st(t), assigned_to, jb(t), availability)
               \/ /\ w # NULL
                  /\ MayBeAssigned(w, t, jb(t))
                  /\ status' = [st(t) EXCEPT ![t] = "ASSIGNED"]
                  /\ assigned_to' = [assigned_to EXCEPT ![t] = w]
      BY <1>2 DEF create_task
    <2>2. st(t) \in [TaskIds -> Statuses \cup {"NONE"}]
      BY DEF TypeOK, Statuses
    <2>3. status[t] = "NONE" /\ assigned_to[t] = NULL /\ st(t)[t] = "QUEUED"
      BY <2>1 DEF FirstFree, TaskIds, RowsAgree, TypeOK
    <2>4. UNCHANGED <<claimed_by, timing, verified, now, availability>>
      BY <1>2 DEF create_task
    <2>5. \A s \in TaskIds \ {t} : st(t)[s] = status[s] /\ job'[s] = job[s]
      BY <2>1 DEF TypeOK
    <2>6. CASE auto_dispatch(st(t), assigned_to, jb(t), availability)
      <3>1. DispatchedRows(st(t), assigned_to, jb(t), availability)
        <4> HIDE DEF st, jb
        <4> QED
          BY <2>2, <2>6, DispatchStep DEF TypeOK
      <3>2. Requeued(t)
        BY <2>3, <2>4, <3>1 DEF DispatchedRows, Requeued, Waiting
      <3>3. \A s \in TaskIds \ {t} : SameRow(s) \/ Requeued(s)
        BY <2>4, <2>5, <3>1 DEF DispatchedRows, SameRow, Requeued, Waiting, AssigneesOnDuty
      <3> QED
        BY <2>4, <3>2, <3>3
    <2>7. CASE /\ w # NULL
               /\ MayBeAssigned(w, t, jb(t))
               /\ status' = [st(t) EXCEPT ![t] = "ASSIGNED"]
               /\ assigned_to' = [assigned_to EXCEPT ![t] = w]
      <3>1. Requeued(t)
        BY <2>2, <2>3, <2>4, <2>7 DEF DispatchedRows, Requeued, Waiting, MayBeAssigned, TypeOK
      <3>2. \A s \in TaskIds \ {t} : SameRow(s)
        BY <2>2, <2>4, <2>5, <2>7 DEF SameRow, AssigneesOnDuty, TypeOK
      <3> QED
        BY <2>4, <3>1, <3>2
    <2> QED
      BY <2>1, <2>6, <2>7
  <1>3. CASE run_dispatch
    <2>1. DispatchedRows(status, assigned_to, job, availability)
      BY <1>3, DispatchStep DEF run_dispatch, TypeOK
    <2> QED
      BY <1>3, <2>1 DEF run_dispatch, DispatchedRows, SameRow, Requeued, Waiting, AssigneesOnDuty
  <1>4. ASSUME NEW w \in Workers, NEW av \in AvailabilityChoices, set_worker_availability(w, av)
        PROVE  /\ UNCHANGED <<claimed_by, timing, verified, now>>
               /\ \A t \in TaskIds : SameRow(t) \/ Requeued(t)
    <2> DEFINE released == {t \in TaskIds : /\ av # "AVAILABLE"
                                            /\ assigned_to[t] = w
                                            /\ claimed_by[t] = NULL
                                            /\ status[t] = "ASSIGNED"}
               st == [t \in TaskIds |-> IF t \in released THEN "QUEUED" ELSE status[t]]
               as == [t \in TaskIds |-> IF t \in released THEN NULL ELSE assigned_to[t]]
    <2>1. /\ st \in [TaskIds -> Statuses \cup {"NONE"}]
          /\ as \in [TaskIds -> Users \cup {NULL}]
      BY DEF TypeOK, Statuses
    <2>2. auto_dispatch(st, as, job, availability')
      BY <1>4 DEF set_worker_availability
    <2>3. DispatchedRows(st, as, job, availability')
      <3> HIDE DEF st, as
      <3> QED
        BY <2>1, <2>2, DispatchStep
    <2>4. /\ UNCHANGED <<job, claimed_by, timing, verified, now>>
          /\ availability' = [availability EXCEPT ![w] = av]
      BY <1>4 DEF set_worker_availability
    <2>5. ASSUME NEW t \in TaskIds
          PROVE  SameRow(t) \/ Requeued(t)
      <3>1. CASE t \in released
        <4>1. status[t] = "ASSIGNED" /\ st[t] = "QUEUED" /\ as[t] = NULL
          BY <3>1
        <4> QED
          BY <2>3, <2>4, <4>1 DEF DispatchedRows, Requeued, Waiting
      <3>2. CASE t \notin released
        <4>1. st[t] = status[t] /\ as[t] = assigned_to[t]
          BY <3>2
        <4>2. status[t] = "ASSIGNED" => availability'[assigned_to[t]] = "AVAILABLE"
          BY <2>4, <3>2 DEF RowsAgree, AssigneesOnDuty, TypeOK, Users
        <4> HIDE DEF st, as, released
        <4> QED
          BY <2>3, <2>4, <4>1, <4>2 DEF DispatchedRows, SameRow, Requeued, Waiting
      <3> QED
        BY <3>1, <3>2
    <2> QED
      BY <2>4, <2>5
  <1>5. ASSUME NEW t \in TaskIds, NEW w \in Workers \cup {NULL}, assign_task(t, w)
        PROVE  /\ UNCHANGED <<claimed_by, timing, verified, now>>
               /\ \A s \in TaskIds : SameRow(s) \/ Requeued(s)
    <2> DEFINE st == [status EXCEPT ![t] = "QUEUED"]
               as == [assigned_to EXCEPT ![t] = NULL]
    <2>1. /\ st \in [TaskIds -> Statuses \cup {"NONE"}]
          /\ as \in [TaskIds -> Users \cup {NULL}]
      BY DEF TypeOK, Statuses
    <2>2. /\ status[t] \in {"QUEUED", "ASSIGNED"}
          /\ UNCHANGED <<job, claimed_by, timing, verified, now, availability>>
      BY <1>5 DEF assign_task
    <2>3. CASE auto_dispatch(st, as, job, availability)
      <3>1. DispatchedRows(st, as, job, availability)
        <4> HIDE DEF st, as
        <4> QED
          BY <2>1, <2>3, DispatchStep
      <3>2. Requeued(t)
        BY <2>2, <3>1 DEF DispatchedRows, Requeued, Waiting, TypeOK
      <3>3. \A s \in TaskIds \ {t} : SameRow(s) \/ Requeued(s)
        BY <2>2, <3>1 DEF DispatchedRows, SameRow, Requeued, Waiting, AssigneesOnDuty, TypeOK
      <3> QED
        BY <2>2, <3>2, <3>3
    <2>4. CASE /\ w # NULL
               /\ MayBeAssigned(w, t, job)
               /\ status' = [status EXCEPT ![t] = "ASSIGNED"]
               /\ assigned_to' = [assigned_to EXCEPT ![t] = w]
      <3>1. Requeued(t)
        BY <2>2, <2>4 DEF DispatchedRows, Requeued, Waiting, MayBeAssigned, TypeOK
      <3>2. \A s \in TaskIds \ {t} : SameRow(s)
        BY <2>2, <2>4 DEF SameRow, AssigneesOnDuty, TypeOK
      <3> QED
        BY <2>2, <3>1, <3>2
    <2> QED
      BY <1>5, <2>3, <2>4 DEF assign_task
  <1>6. CASE new_work_day
    BY <1>6 DEF new_work_day, SameRow, AssigneesOnDuty, Users
  <1>7. ASSUME NEW w \in Workers, update_user(w)
        PROVE  /\ UNCHANGED <<claimed_by, timing, verified, now>>
               /\ \A t \in TaskIds : SameRow(t) \/ Requeued(t)
    BY <1>7 DEF update_user, SameRow, AssigneesOnDuty
  <1> QED
    BY <1>1, <1>2, <1>3, <1>4, <1>5, <1>6, <1>7 DEF Supervise

-----------------------------------------------------------------------------
(***************************************************************************)
(* The row invariant: everything the columns of one row promise about each *)
(* other, which is what makes TypeOK inductive.                            *)
(***************************************************************************)

RowInv == TypeOK /\ RowsAgree /\ ClocksAgree /\ AssigneesOnDuty /\ ScanGate /\ TimeAccounting

\* The row invariant holds of the empty tables.
LEMMA RowInvInit == Init => RowInv
  <1> SUFFICES ASSUME Init PROVE RowInv
    OBVIOUS
  <1>1. TypeOK
    BY InitTypeOK
  <1>2. RowsAgree /\ ClocksAgree /\ AssigneesOnDuty /\ ScanGate /\ TimeAccounting
    BY DEF Init, RowsAgree, ClocksAgree, AssigneesOnDuty, ScanGate, TimeAccounting,
           NoTiming, ACTIVE_STATUSES, TERMINAL
  <1> QED
    BY <1>1, <1>2 DEF RowInv

\* A supervisor's action keeps the row invariant: what it touches was and stays waiting.
LEMMA RowInvSupervise ==
  ASSUME RowInv, Supervise
  PROVE  RowInv'
  <1>1. TypeOK' /\ TypeOK
    BY SuperviseTypeOK DEF RowInv
  <1>2. /\ UNCHANGED <<claimed_by, timing, verified, now>>
        /\ \A t \in TaskIds : SameRow(t) \/ Requeued(t)
    BY SuperviseRows DEF RowInv
  <1>3. RowsAgree'
    BY <1>1, <1>2 DEF RowInv, RowsAgree, SameRow, Requeued, Waiting, ACTIVE_STATUSES
  <1>4. ClocksAgree'
    BY <1>1, <1>2 DEF RowInv, RowsAgree, ClocksAgree, SameRow, Requeued, Waiting, TERMINAL, NoTiming
  <1>5. AssigneesOnDuty'
    BY <1>1, <1>2, NullAssumption DEF RowInv, RowsAgree, AssigneesOnDuty, SameRow, Requeued, Waiting, Users
  <1>6. ScanGate'
    BY <1>1, <1>2 DEF RowInv, RowsAgree, ScanGate, SameRow, Requeued, NoTiming
  <1>7. TimeAccounting'
    BY <1>1, <1>2 DEF RowInv, TimeAccounting, Accounted, LastStamp
  <1> QED
    BY <1>1, <1>3, <1>4, <1>5, <1>6, <1>7 DEF RowInv

\* A claim changes the status and the owner of at most one row, which was waiting
\* and open to u.
ClaimedRow(t, u, st) ==
  /\ st[t] \in {"QUEUED", "ASSIGNED"}
  /\ assigned_to[t] \in {NULL, u}
  /\ status'[t] = "CLAIMED"
  /\ claimed_by'[t] = u

\* A claim turns at most one waiting row into a claimed one and leaves the others as they are.
LEMMA ClaimRows ==
  ASSUME NEW u \in Users, NEW types, NEW st \in [TaskIds -> Statuses \cup {"NONE"}],
         NEW bs \in [Batches -> {"NONE", "OPEN", "IN_PROGRESS", "COMPLETED"}],
         claimed_by \in [TaskIds -> Users \cup {NULL}],
         claim_next_task(u, types, st, bs)
  PROVE  /\ status' \in [TaskIds -> Statuses \cup {"NONE"}]
         /\ claimed_by' \in [TaskIds -> Users \cup {NULL}]
         /\ batch_status' \in [Batches -> {"NONE", "OPEN", "IN_PROGRESS", "COMPLETED"}]
         /\ \A t \in TaskIds : \/ status'[t] = st[t] /\ claimed_by'[t] = claimed_by[t]
                               \/ ClaimedRow(t, u, st)
  <1>1. CASE status' = st /\ batch_status' = bs /\ claimed_by' = claimed_by
    BY <1>1
  <1>2. CASE \E t \in TaskIds :
               /\ t \in Claimable(u, types, st)
               /\ status' = [st EXCEPT ![t] = "CLAIMED"]
               /\ claimed_by' = [claimed_by EXCEPT ![t] = u]
               /\ batch_status' = [b \in Batches |->
                    IF b = job[t].batch /\ bs[b] = "OPEN" THEN "IN_PROGRESS" ELSE bs[b]]
    BY <1>2 DEF Claimable, ClaimedRow, Statuses
  <1> QED
    BY <1>1, <1>2, ClaimStep

\* START keeps the row invariant: the scan gate was passed and the active clock starts.
LEMMA RowInvStart ==
  ASSUME RowInv, NEW t \in TaskIds, NEW u \in Users, START(t, u)
  PROVE  RowInv'
  <1> USE DEF RowInv
  <1>1. PICK at \in Stamps : timing' = [timing EXCEPT ![t] = started_times(timing[t], at)]
    BY DEF START
  <1>2. at \in Nat /\ at <= now /\ timing[t] \in Timing
    BY StampsAreNat DEF TypeOK
  <1>3. /\ status[t] = "CLAIMED" /\ timing[t] = NoTiming
        /\ job[t].type \in PickPack => u \in verified[t]
        /\ status' = [status EXCEPT ![t] = "IN_PROGRESS"]
        /\ UNCHANGED <<job, assigned_to, claimed_by, verified, batch_status,
                       availability, grants, now>>
    BY DEF START, RowsAgree
  <1>4. /\ timing'[t] \in Timing
        /\ timing'[t].started = at /\ timing'[t].completed = NULL
        /\ timing'[t].active_from = at /\ timing'[t].paused_from = NULL
        /\ timing'[t].active = 0 /\ timing'[t].paused = 0
    BY <1>1, <1>2, <1>3, StartedTimes DEF NoTiming, TypeOK
  <1>5. status'[t] = "IN_PROGRESS" /\ \A s \in TaskIds \ {t} : status'[s] = status[s] /\ timing'[s] = timing[s]
    BY <1>1, <1>3 DEF TypeOK
  <1>6. TypeOK'
    BY <1>1, <1>3, <1>4 DEF TypeOK, Statuses
  <1>7. RowsAgree'
    BY <1>2, <1>3, <1>4, <1>5, NullAssumption DEF RowsAgree, ACTIVE_STATUSES
  <1>8. ClocksAgree'
    BY <1>2, <1>3, <1>4, <1>5, NullAssumption DEF ClocksAgree, TERMINAL
  <1>9. AssigneesOnDuty'
    BY <1>3, <1>5 DEF AssigneesOnDuty
  <1>10. ScanGate'
    BY <1>3, <1>4, <1>5 DEF ScanGate, RowsAgree
  <1>11. TimeAccounting'
    BY <1>2, <1>3, <1>4, <1>5, NullAssumption DEF TimeAccounting, Accounted, LastStamp
  <1> QED
    BY <1>6, <1>7, <1>8, <1>9, <1>10, <1>11

\* PAUSE keeps the row invariant: active seconds up to the stamp are accounted.
LEMMA RowInvPause ==
  ASSUME RowInv, NEW t \in TaskIds, NEW u \in Users, PAUSE(t, u)
  PROVE  RowInv'
  <1> USE DEF RowInv
  <1>1. PICK at \in Stamps : timing' = [timing EXCEPT ![t] = paused_times(timing[t], at)]
    BY DEF PAUSE
  <1>2. at \in Nat /\ at <= now /\ at >= now - MaxSkew /\ now \in Nat /\ timing[t] \in Timing
    BY StampsAreNat DEF TypeOK
  <1>3. /\ status[t] = "IN_PROGRESS"
        /\ timing[t].active_from \in Nat /\ timing[t].active_from <= now
        /\ timing[t].completed = NULL
        /\ status' = [status EXCEPT ![t] = "PAUSED"]
        /\ UNCHANGED <<job, assigned_to, claimed_by, verified, batch_status,
                       availability, grants, now>>
    BY <1>2 DEF PAUSE, RowsAgree, ClocksAgree, Timing, Stamp, TERMINAL
  <1>4. /\ timing'[t] = paused_times(timing[t], at)
        /\ status'[t] = "PAUSED"
        /\ \A s \in TaskIds \ {t} : status'[s] = status[s] /\ timing'[s] = timing[s]
    BY <1>1, <1>3 DEF TypeOK
  <1>5. /\ timing'[t] \in Timing
        /\ timing'[t].started = timing[t].started /\ timing'[t].completed = NULL
        /\ timing'[t].active_from = NULL /\ timing'[t].paused_from = at
        /\ timing'[t].active = timing[t].active + Greatest0(at - timing[t].active_from)
        /\ timing'[t].paused = timing[t].paused
    BY <1>2, <1>3, <1>4, PausedTimes
  <1>6. TypeOK'
    BY <1>1, <1>3, <1>4, <1>5 DEF TypeOK, Statuses
  <1>7. RowsAgree'
    BY <1>2, <1>3, <1>4, <1>5, NullAssumption DEF RowsAgree, ACTIVE_STATUSES
  <1>8. ClocksAgree'
    BY <1>2, <1>3, <1>4, <1>5, NullAssumption DEF ClocksAgree, TERMINAL
  <1>9. AssigneesOnDuty'
    BY <1>3, <1>4 DEF AssigneesOnDuty
  <1>10. ScanGate'
    BY <1>3, <1>4, <1>5 DEF ScanGate
  <1>11. TimeAccounting'
    <2>1. CASE timing[t].started = NULL
      BY <1>3, <1>4, <1>5, <2>1 DEF TimeAccounting, Accounted, LastStamp
    <2>2. CASE timing[t].started # NULL
      <3> DEFINE from == timing[t].active_from
                 spent == Greatest0(at - from)
      <3>1. /\ timing[t].active \in Nat /\ timing[t].paused \in Nat /\ timing[t].started \in Nat
        BY <1>2, <2>2 DEF Timing, Stamp
      <3>2. /\ from \in Nat /\ spent \in Nat /\ spent >= at - from
            /\ MaxSkew = 0 => spent = at - from
        BY <1>2, <1>3, GreatestNat
      <3>3. /\ timing[t].active + timing[t].paused >= from - timing[t].started
            /\ MaxSkew = 0 => timing[t].active + timing[t].paused = from - timing[t].started
        BY <1>3, <2>2 DEF TimeAccounting, Accounted, LastStamp, ClocksAgree
      <3>4. LastStamp(t)' = at /\ Accounted(t)' = timing[t].active + timing[t].paused + spent
        BY <1>2, <1>4, <1>5, <3>1, <3>2, NullAssumption DEF LastStamp, Accounted
      <3>5. /\ Accounted(t)' >= LastStamp(t)' - timing'[t].started
            /\ MaxSkew = 0 => Accounted(t)' = LastStamp(t)' - timing'[t].started
            /\ LastStamp(t)' # NULL
        <4> HIDE DEF spent, from
        <4> QED
          BY <1>2, <1>3, <1>5, <3>1, <3>2, <3>3, <3>4, NullAssumption
      <3>6. \A s \in TaskIds \ {t} : LastStamp(s)' = LastStamp(s) /\ Accounted(s)' = Accounted(s)
        BY <1>4 DEF LastStamp, Accounted
      <3> QED
        BY <1>4, <3>5, <3>6 DEF TimeAccounting
    <2> QED
      BY <2>1, <2>2
  <1> QED
    BY <1>6, <1>7, <1>8, <1>9, <1>10, <1>11

\* RESUME keeps the row invariant: paused seconds up to the stamp are accounted.
LEMMA RowInvResume ==
  ASSUME RowInv, NEW t \in TaskIds, NEW u \in Users, RESUME(t, u)
  PROVE  RowInv'
  <1> USE DEF RowInv
  <1>1. PICK at \in Stamps : timing' = [timing EXCEPT ![t] = resumed_times(timing[t], at)]
    BY DEF RESUME
  <1>2. at \in Nat /\ at <= now /\ at >= now - MaxSkew /\ now \in Nat /\ timing[t] \in Timing
    BY StampsAreNat DEF TypeOK
  <1>3. /\ status[t] = "PAUSED"
        /\ timing[t].paused_from \in Nat /\ timing[t].paused_from <= now
        /\ timing[t].completed = NULL
        /\ status' = [status EXCEPT ![t] = "IN_PROGRESS"]
        /\ UNCHANGED <<job, assigned_to, claimed_by, verified, batch_status,
                       availability, grants, now>>
    BY <1>2 DEF RESUME, RowsAgree, ClocksAgree, Timing, Stamp, TERMINAL
  <1>4. /\ timing'[t] = resumed_times(timing[t], at)
        /\ status'[t] = "IN_PROGRESS"
        /\ \A s \in TaskIds \ {t} : status'[s] = status[s] /\ timing'[s] = timing[s]
    BY <1>1, <1>3 DEF TypeOK
  <1>5. /\ timing'[t] \in Timing
        /\ timing'[t].started = timing[t].started /\ timing'[t].completed = NULL
        /\ timing'[t].active_from = at /\ timing'[t].paused_from = NULL
        /\ timing'[t].active = timing[t].active
        /\ timing'[t].paused = timing[t].paused + Greatest0(at - timing[t].paused_from)
    BY <1>2, <1>3, <1>4, ResumedTimes
  <1>6. TypeOK'
    BY <1>1, <1>3, <1>4, <1>5 DEF TypeOK, Statuses
  <1>7. RowsAgree'
    BY <1>2, <1>3, <1>4, <1>5, NullAssumption DEF RowsAgree, ACTIVE_STATUSES
  <1>8. ClocksAgree'
    BY <1>2, <1>3, <1>4, <1>5, NullAssumption DEF ClocksAgree, TERMINAL
  <1>9. AssigneesOnDuty'
    BY <1>3, <1>4 DEF AssigneesOnDuty
  <1>10. ScanGate'
    BY <1>3, <1>4, <1>5 DEF ScanGate
  <1>11. TimeAccounting'
    <2>1. CASE timing[t].started = NULL
      BY <1>3, <1>4, <1>5, <2>1 DEF TimeAccounting, Accounted, LastStamp
    <2>2. CASE timing[t].started # NULL
      <3> DEFINE from == timing[t].paused_from
                 spent == Greatest0(at - from)
      <3>1. /\ timing[t].active \in Nat /\ timing[t].paused \in Nat /\ timing[t].started \in Nat
        BY <1>2, <2>2 DEF Timing, Stamp
      <3>2. /\ from \in Nat /\ spent \in Nat /\ spent >= at - from
            /\ MaxSkew = 0 => spent = at - from
        BY <1>2, <1>3, GreatestNat
      <3>3. /\ timing[t].active + timing[t].paused >= from - timing[t].started
            /\ MaxSkew = 0 => timing[t].active + timing[t].paused = from - timing[t].started
        BY <1>3, <2>2 DEF TimeAccounting, Accounted, LastStamp, ClocksAgree
      <3>4. LastStamp(t)' = at /\ Accounted(t)' = timing[t].active + timing[t].paused + spent
        BY <1>2, <1>4, <1>5, <3>1, <3>2, NullAssumption DEF LastStamp, Accounted
      <3>5. /\ Accounted(t)' >= LastStamp(t)' - timing'[t].started
            /\ MaxSkew = 0 => Accounted(t)' = LastStamp(t)' - timing'[t].started
            /\ LastStamp(t)' # NULL
        <4> HIDE DEF spent, from
        <4> QED
          BY <1>2, <1>3, <1>5, <3>1, <3>2, <3>3, <3>4, NullAssumption
      <3>6. \A s \in TaskIds \ {t} : LastStamp(s)' = LastStamp(s) /\ Accounted(s)' = Accounted(s)
        BY <1>4 DEF LastStamp, Accounted
      <3> QED
        BY <1>4, <3>5, <3>6 DEF TimeAccounting
    <2> QED
      BY <2>1, <2>2
  <1> QED
    BY <1>6, <1>7, <1>8, <1>9, <1>10, <1>11

\* COMPLETE, with or without the claim of the next task, keeps the row invariant.
LEMMA RowInvComplete ==
  ASSUME RowInv, NEW t \in TaskIds, NEW u \in Users, COMPLETE(t, u)
  PROVE  RowInv'
  <1> USE DEF RowInv
  <1> DEFINE st == [status EXCEPT ![t] = "COMPLETED"]
             bs == BatchAfter(t, st)
  <1>1. PICK at \in Stamps : timing' = [timing EXCEPT ![t] = completed_times(timing[t], at)]
    BY DEF COMPLETE
  <1>2. at \in Nat /\ at <= now /\ at >= now - MaxSkew /\ now \in Nat /\ timing[t] \in Timing
    BY StampsAreNat DEF TypeOK
  <1>3. /\ status[t] = "IN_PROGRESS" /\ claimed_by[t] # NULL
        /\ timing[t].active_from \in Nat /\ timing[t].active_from <= now
        /\ timing[t].completed = NULL
        /\ UNCHANGED <<job, assigned_to, verified, availability, grants, now>>
    BY <1>2 DEF COMPLETE, RowsAgree, ClocksAgree, Timing, Stamp, TERMINAL, ACTIVE_STATUSES
  <1>4. /\ timing'[t] = completed_times(timing[t], at)
        /\ \A s \in TaskIds \ {t} : timing'[s] = timing[s]
    BY <1>1, <1>3 DEF TypeOK
  <1>5. /\ timing'[t] \in Timing
        /\ timing'[t].started = timing[t].started /\ timing'[t].completed = at
        /\ timing'[t].active_from = NULL /\ timing'[t].paused_from = NULL
        /\ timing'[t].active = timing[t].active + Greatest0(at - timing[t].active_from)
        /\ timing'[t].paused = timing[t].paused
    BY <1>2, <1>3, <1>4, CompletedTimes
  <1>6. /\ st \in [TaskIds -> Statuses \cup {"NONE"}]
        /\ bs \in [Batches -> {"NONE", "OPEN", "IN_PROGRESS", "COMPLETED"}]
    BY DEF TypeOK, Statuses, BatchAfter
  <1>7. /\ status' \in [TaskIds -> Statuses \cup {"NONE"}]
        /\ claimed_by' \in [TaskIds -> Users \cup {NULL}]
        /\ batch_status' \in [Batches -> {"NONE", "OPEN", "IN_PROGRESS", "COMPLETED"}]
        /\ \A s \in TaskIds : \/ status'[s] = st[s] /\ claimed_by'[s] = claimed_by[s]
                              \/ ClaimedRow(s, u, st)
    <2>1. CASE status' = st /\ batch_status' = bs /\ UNCHANGED claimed_by
      BY <1>6, <2>1 DEF TypeOK
    <2>2. ASSUME NEW types, claim_next_task(u, types, st, bs)
          PROVE  <1>7!1 /\ <1>7!2 /\ <1>7!3 /\ <1>7!4
      <3> HIDE DEF st, bs
      <3> QED
        BY <1>6, <2>2, ClaimRows DEF TypeOK
    <2> QED
      BY <2>1, <2>2 DEF COMPLETE
  <1>8. /\ status'[t] = "COMPLETED" /\ claimed_by'[t] = claimed_by[t]
        /\ \A s \in TaskIds \ {t} :
             \/ status'[s] = status[s] /\ claimed_by'[s] = claimed_by[s]
             \/ ClaimedRow(s, u, status)
    BY <1>7 DEF ClaimedRow, TypeOK
  <1>9. TypeOK'
    BY <1>1, <1>3, <1>4, <1>5, <1>7 DEF TypeOK
  <1>10. /\ RowsAgree' /\ ClocksAgree' /\ AssigneesOnDuty' /\ ScanGate'
    <2>1. RowsAgree'
      BY <1>2, <1>3, <1>4, <1>5, <1>8, NullAssumption
      DEF RowsAgree, ACTIVE_STATUSES, ClaimedRow, Users
    <2>2. ClocksAgree'
      BY <1>2, <1>3, <1>4, <1>5, <1>8, NullAssumption DEF ClocksAgree, TERMINAL, ClaimedRow
    <2>3. AssigneesOnDuty'
      BY <1>3, <1>8 DEF AssigneesOnDuty, RowsAgree, ClaimedRow
    <2>4. ScanGate'
      BY <1>3, <1>4, <1>5 DEF ScanGate
    <2> QED
      BY <2>1, <2>2, <2>3, <2>4
  <1>11. TimeAccounting'
    <2>1. CASE timing[t].started = NULL
      BY <1>4, <1>5, <2>1 DEF TimeAccounting, Accounted, LastStamp
    <2>2. CASE timing[t].started # NULL
      <3> DEFINE from == timing[t].active_from
                 spent == Greatest0(at - from)
      <3>1. /\ timing[t].active \in Nat /\ timing[t].paused \in Nat /\ timing[t].started \in Nat
        BY <1>2, <2>2 DEF Timing, Stamp
      <3>2. /\ from \in Nat /\ from <= now /\ LastStamp(t) = from
        BY <1>3, NullAssumption DEF LastStamp
      <3>3. /\ spent \in Nat /\ spent >= at - from
            /\ MaxSkew = 0 => spent = at - from
        <4> HIDE DEF from
        <4> QED
          BY <1>2, <3>2, GreatestNat
      <3>4. /\ timing[t].active + timing[t].paused >= from - timing[t].started
            /\ MaxSkew = 0 => timing[t].active + timing[t].paused = from - timing[t].started
        BY <2>2, <3>2 DEF TimeAccounting, Accounted
      <3>5. LastStamp(t)' = at
        BY <1>2, <1>4, <1>5, NullAssumption DEF LastStamp
      <3>6. Accounted(t)' = timing[t].active + timing[t].paused + spent
        BY <1>2, <1>5, <3>1, <3>3 DEF Accounted
      <3>7. /\ Accounted(t)' >= LastStamp(t)' - timing'[t].started
            /\ MaxSkew = 0 => Accounted(t)' = LastStamp(t)' - timing'[t].started
            /\ LastStamp(t)' # NULL
        <4> HIDE DEF spent, from
        <4> QED
          BY <1>2, <1>5, <3>1, <3>2, <3>3, <3>4, <3>5, <3>6, NullAssumption
      <3>8. \A s \in TaskIds \ {t} : LastStamp(s)' = LastStamp(s) /\ Accounted(s)' = Accounted(s)
        BY <1>4 DEF LastStamp, Accounted
      <3> QED
        BY <1>4, <3>7, <3>8 DEF TimeAccounting
    <2> QED
      BY <2>1, <2>2
  <1> QED
    BY <1>9, <1>10, <1>11

\* CANCEL keeps the row invariant from whichever status the task had.
LEMMA RowInvCancel ==
  ASSUME RowInv, NEW t \in TaskIds, NEW u \in Users, CANCEL(t, u)
  PROVE  RowInv'
  <1> USE DEF RowInv
  <1> DEFINE st == [status EXCEPT ![t] = "CANCELLED"]
  <1>1. PICK at \in Stamps :
          timing' = [timing EXCEPT ![t] = cancelled_times(timing[t], at, status[t])]
    BY DEF CANCEL
  <1>2. at \in Nat /\ at <= now /\ at >= now - MaxSkew /\ now \in Nat /\ timing[t] \in Timing
    BY StampsAreNat DEF TypeOK
  <1>3. /\ status[t] \in OPEN_STATUSES /\ status' = st
        /\ batch_status' = BatchAfter(t, st)
        /\ timing[t].completed = NULL
        /\ status[t] = "IN_PROGRESS" => timing[t].active_from \in Nat
        /\ status[t] = "PAUSED" => timing[t].paused_from \in Nat
        /\ UNCHANGED <<job, assigned_to, claimed_by, verified, availability, grants, now>>
    BY <1>2 DEF CANCEL, ClocksAgree, Timing, Stamp, OPEN_STATUSES
  <1>4. /\ timing'[t] = cancelled_times(timing[t], at, status[t])
        /\ \A s \in TaskIds \ {t} : timing'[s] = timing[s]
        /\ status'[t] = "CANCELLED"
        /\ \A s \in TaskIds \ {t} : status'[s] = status[s]
    BY <1>1, <1>3 DEF TypeOK
  <1>5. /\ timing'[t] \in Timing
        /\ timing'[t].started = timing[t].started /\ timing'[t].completed = at
        /\ timing'[t].active_from = NULL /\ timing'[t].paused_from = NULL
        /\ timing'[t].active = timing[t].active +
             (IF status[t] = "IN_PROGRESS" THEN Greatest0(at - timing[t].active_from) ELSE 0)
        /\ timing'[t].paused = timing[t].paused +
             (IF status[t] = "PAUSED" THEN Greatest0(at - timing[t].paused_from) ELSE 0)
    BY <1>2, <1>3, <1>4, CancelledTimes
  <1>6. batch_status' \in [Batches -> {"NONE", "OPEN", "IN_PROGRESS", "COMPLETED"}]
    BY <1>3 DEF TypeOK, BatchAfter
  <1>9. TypeOK'
    BY <1>1, <1>3, <1>4, <1>5, <1>6 DEF TypeOK, Statuses
  <1>10. /\ RowsAgree' /\ ClocksAgree' /\ AssigneesOnDuty' /\ ScanGate'
    <2>1. RowsAgree'
      BY <1>2, <1>3, <1>4, <1>5, NullAssumption DEF RowsAgree, ACTIVE_STATUSES
    <2>2. ClocksAgree'
      BY <1>2, <1>3, <1>4, <1>5, NullAssumption DEF ClocksAgree, TERMINAL
    <2>3. AssigneesOnDuty'
      BY <1>3, <1>4 DEF AssigneesOnDuty
    <2>4. ScanGate'
      BY <1>3, <1>4, <1>5 DEF ScanGate
    <2> QED
      BY <2>1, <2>2, <2>3, <2>4
  <1>11. TimeAccounting'
    <2>1. CASE timing[t].started = NULL
      BY <1>4, <1>5, <2>1 DEF TimeAccounting, Accounted, LastStamp
    <2>2. CASE timing[t].started # NULL
      <3> DEFINE from == IF status[t] = "IN_PROGRESS" THEN timing[t].active_from
                         ELSE timing[t].paused_from
                 spent == Greatest0(at - from)
      <3>1. /\ timing[t].active \in Nat /\ timing[t].paused \in Nat /\ timing[t].started \in Nat
        BY <1>2, <2>2 DEF Timing, Stamp
      <3>2. /\ from \in Nat /\ from <= now /\ LastStamp(t) = from
        <4>1. status[t] \in {"IN_PROGRESS", "PAUSED"}
          BY <1>3, <2>2 DEF RowsAgree, NoTiming, OPEN_STATUSES, Statuses, TERMINAL
        <4>2. /\ status[t] = "IN_PROGRESS" => timing[t].active_from <= now
              /\ status[t] = "PAUSED" => timing[t].paused_from <= now
          BY <1>3, NullAssumption DEF RowsAgree
        <4> QED
          BY <1>3, <4>1, <4>2, NullAssumption DEF LastStamp, ClocksAgree
      <3>3. /\ spent \in Nat /\ spent >= at - from
            /\ MaxSkew = 0 => spent = at - from
        <4> HIDE DEF from
        <4> QED
          BY <1>2, <3>2, GreatestNat
      <3>4. /\ timing[t].active + timing[t].paused >= from - timing[t].started
            /\ MaxSkew = 0 => timing[t].active + timing[t].paused = from - timing[t].started
        BY <2>2, <3>2 DEF TimeAccounting, Accounted
      <3>5. LastStamp(t)' = at
        BY <1>2, <1>4, <1>5, NullAssumption DEF LastStamp
      <3>6. Accounted(t)' = timing[t].active + timing[t].paused + spent
        <4>1. status[t] \in {"IN_PROGRESS", "PAUSED"}
          BY <1>3, <2>2 DEF RowsAgree, NoTiming, OPEN_STATUSES, Statuses, TERMINAL
        <4>2. Accounted(t)' = timing'[t].active + timing'[t].paused
          BY DEF Accounted
        <4> QED
          BY <1>2, <1>5, <3>1, <3>2, <3>3, <4>1, <4>2
      <3>7. /\ Accounted(t)' >= LastStamp(t)' - timing'[t].started
            /\ MaxSkew = 0 => Accounted(t)' = LastStamp(t)' - timing'[t].started
            /\ LastStamp(t)' # NULL
        <4> HIDE DEF spent, from
        <4> QED
          BY <1>2, <1>5, <3>1, <3>2, <3>3, <3>4, <3>5, <3>6, NullAssumption
      <3>8. \A s \in TaskIds \ {t} : LastStamp(s)' = LastStamp(s) /\ Accounted(s)' = Accounted(s)
        BY <1>4 DEF LastStamp, Accounted
      <3> QED
        BY <1>4, <3>7, <3>8 DEF TimeAccounting
    <2> QED
      BY <2>1, <2>2
  <1> QED
    BY <1>9, <1>10, <1>11

\* POST /tasks/claim-next keeps the row invariant.
LEMMA RowInvClaim ==
  ASSUME RowInv, NEW u \in Users, claim_next(u)
  PROVE  RowInv'
  <1> USE DEF RowInv
  <1>1. PICK types : claim_next_task(u, types, status, batch_status)
    BY DEF claim_next
  <1>2. UNCHANGED <<job, assigned_to, timing, verified, availability, grants, now>>
    BY DEF claim_next
  <1>3. /\ status' \in [TaskIds -> Statuses \cup {"NONE"}]
        /\ claimed_by' \in [TaskIds -> Users \cup {NULL}]
        /\ batch_status' \in [Batches -> {"NONE", "OPEN", "IN_PROGRESS", "COMPLETED"}]
        /\ \A t \in TaskIds : \/ status'[t] = status[t] /\ claimed_by'[t] = claimed_by[t]
                              \/ ClaimedRow(t, u, status)
    BY <1>1, ClaimRows DEF TypeOK
  <1>4. TypeOK'
    BY <1>2, <1>3 DEF TypeOK
  <1>5. RowsAgree'
    BY <1>2, <1>3, NullAssumption DEF RowsAgree, ACTIVE_STATUSES, ClaimedRow, Users
  <1>6. ClocksAgree'
    BY <1>2, <1>3 DEF ClocksAgree, RowsAgree, TERMINAL, ClaimedRow, NoTiming
  <1>7. AssigneesOnDuty'
    BY <1>2, <1>3 DEF AssigneesOnDuty, ClaimedRow
  <1>8. ScanGate' /\ TimeAccounting'
    BY <1>2 DEF ScanGate, TimeAccounting, LastStamp, Accounted
  <1> QED
    BY <1>4, <1>5, <1>6, <1>7, <1>8

\* Every step keeps the row invariant.
LEMMA RowInvNext ==
  ASSUME RowInv, [Next]_vars
  PROVE  RowInv'
  <1>1. ASSUME NEW t \in TaskIds, NEW u \in Users, verify_task_scan(t, u)
        PROVE  RowInv'
    BY <1>1, SMTT(30) DEF verify_task_scan, RowInv, TypeOK, RowsAgree, ClocksAgree, AssigneesOnDuty,
              ScanGate, TimeAccounting, LastStamp, Accounted
  <1>2. CASE Tick
    <2>1. now' = now + 1 /\ now \in Nat
      BY <1>2 DEF Tick, RowInv, TypeOK
    <2>2. RowsAgree'
      BY <1>2, <2>1 DEF Tick, RowInv, RowsAgree, TypeOK, Timing, Stamp
    <2> QED
      BY <1>2, <2>1, <2>2 DEF Tick, RowInv, TypeOK, ClocksAgree, AssigneesOnDuty,
                ScanGate, TimeAccounting, LastStamp, Accounted
  <1>3. CASE UNCHANGED vars
    BY <1>3 DEF vars, RowInv, TypeOK, RowsAgree, ClocksAgree, AssigneesOnDuty,
                ScanGate, TimeAccounting, LastStamp, Accounted
  <1> QED
    BY <1>1, <1>2, <1>3, RowInvSupervise, RowInvClaim, RowInvStart, RowInvPause,
       RowInvResume, RowInvComplete, RowInvCancel DEF Next, Work

-----------------------------------------------------------------------------
(***************************************************************************)
(* One active task per employee                                            *)
(***************************************************************************)

\* claim_next_task looks for a current task first, so a claim never gives its
\* user a second one.
LEMMA ClaimOneActive ==
  ASSUME NEW u \in Users, NEW types, NEW st \in [TaskIds -> Statuses \cup {"NONE"}], NEW bs,
         claimed_by \in [TaskIds -> Users \cup {NULL}],
         \A s, t \in TaskIds :
           (/\ st[s] \in ACTIVE_STATUSES /\ st[t] \in ACTIVE_STATUSES
            /\ claimed_by[s] = claimed_by[t]) => s = t,
         claim_next_task(u, types, st, bs)
  PROVE  OneActivePerWorker'
  <1>1. CASE status' = st /\ claimed_by' = claimed_by
    BY <1>1 DEF OneActivePerWorker
  <1>2. CASE /\ ~HasCurrent(u, st)
             /\ \E t \in TaskIds :
                  /\ status' = [st EXCEPT ![t] = "CLAIMED"]
                  /\ claimed_by' = [claimed_by EXCEPT ![t] = u]
    BY <1>2 DEF OneActivePerWorker, HasCurrent
  <1> QED
    BY <1>1, <1>2, ClaimStep

\* Every step keeps one active task per employee: only a claim makes a task active.
LEMMA OneActiveNext ==
  ASSUME RowInv, OneActivePerWorker, [Next]_vars
  PROVE  OneActivePerWorker'
  <1> USE DEF RowInv
  <1>1. CASE Supervise
    BY <1>1, SuperviseRows
    DEF OneActivePerWorker, SameRow, Requeued, Waiting, ACTIVE_STATUSES
  <1>2. ASSUME NEW u \in Users, claim_next(u)
        PROVE  OneActivePerWorker'
    <2>1. PICK types : claim_next_task(u, types, status, batch_status)
      BY <1>2 DEF claim_next
    <2> QED
      BY <2>1, ClaimOneActive DEF TypeOK, OneActivePerWorker
  <1>3. ASSUME NEW t \in TaskIds, NEW u \in Users, COMPLETE(t, u)
        PROVE  OneActivePerWorker'
    <2> DEFINE st == [status EXCEPT ![t] = "COMPLETED"]
    <2>1. /\ st \in [TaskIds -> Statuses \cup {"NONE"}]
          /\ \A r, s \in TaskIds :
               (/\ st[r] \in ACTIVE_STATUSES /\ st[s] \in ACTIVE_STATUSES
                /\ claimed_by[r] = claimed_by[s]) => r = s
      BY DEF OneActivePerWorker, TypeOK, Statuses, ACTIVE_STATUSES
    <2>2. CASE status' = st /\ UNCHANGED claimed_by
      BY <2>1, <2>2 DEF OneActivePerWorker
    <2>3. ASSUME NEW types, NEW bs, claim_next_task(u, types, st, bs)
          PROVE  OneActivePerWorker'
      <3> HIDE DEF st
      <3> QED
        BY <2>1, <2>3, ClaimOneActive DEF TypeOK
    <2> QED
      BY <1>3, <2>2, <2>3 DEF COMPLETE
  <1>4. ASSUME NEW t \in TaskIds, NEW u \in Users,
               \/ verify_task_scan(t, u) \/ START(t, u) \/ PAUSE(t, u)
               \/ RESUME(t, u) \/ CANCEL(t, u)
        PROVE  OneActivePerWorker'
    <2>1. /\ claimed_by' = claimed_by
          /\ \A s \in TaskIds : status'[s] \in ACTIVE_STATUSES => status[s] \in ACTIVE_STATUSES
      BY <1>4 DEF verify_task_scan, START, PAUSE, RESUME, CANCEL, TypeOK, ACTIVE_STATUSES
    <2> QED
      BY <2>1 DEF OneActivePerWorker
  <1>5. CASE Tick \/ UNCHANGED vars
    BY <1>5 DEF Tick, vars, OneActivePerWorker
  <1> QED
    BY <1>1, <1>2, <1>3, <1>4, <1>5 DEF Next, Work

-----------------------------------------------------------------------------
(***************************************************************************)
(* The cross-check of picker and packer                                    *)
(***************************************************************************)

CrossCheckOn(as, jb) ==
  \A s, t \in TaskIds :
    Counterpart(s, t, jb) /\ Owner(t, as) # NULL => Owner(s, as) # Owner(t, as)

\* The loop of auto_dispatch keeps the stages of a Pack Note apart: of two tasks it
\* assigns, the later one sees the earlier one's worker among the counterparts.
LEMMA DispatchCrossCheck ==
  ASSUME NEW st \in [TaskIds -> Statuses \cup {"NONE"}],
         NEW as \in [TaskIds -> Users \cup {NULL}],
         NEW jb \in [TaskIds -> Job], NEW av,
         \A t \in TaskIds : st[t] = "QUEUED" => claimed_by[t] = NULL,
         CrossCheckOn(as, jb),
         auto_dispatch(st, as, jb, av)
  PROVE  CrossCheckOn(assigned_to', jb)
  <1>1. PICK f \in [Unowned(st, as) -> Workers \cup {NULL}] :
          /\ IsDispatch(f, st, as, jb, av)
          /\ assigned_to' = [t \in TaskIds |-> IF t \in DOMAIN f THEN f[t] ELSE as[t]]
    BY DEF auto_dispatch
  <1>2. DOMAIN f = Unowned(st, as) /\ Unowned(st, as) \subseteq TaskIds
    BY DEF Unowned
  <1>3. \A t \in DOMAIN f : /\ claimed_by[t] = NULL
                            /\ Owner(t, as) = NULL
                            /\ Owner(t, assigned_to') = f[t]
    BY <1>1, <1>2 DEF Unowned, Owner
  <1>4. \A t \in TaskIds \ DOMAIN f : Owner(t, assigned_to') = Owner(t, as)
    BY <1>1 DEF Owner
  <1>5. ASSUME NEW s \in TaskIds, NEW t \in DOMAIN f, Counterpart(s, t, jb), f[t] # NULL
        PROVE  /\ Owner(s, as) # f[t]
               /\ s \in DOMAIN f /\ Before(s, t, jb) => f[s] # f[t]
    <2>1. f[t] \in DispatchCandidates(t, f, as, jb, av)
      BY <1>1, <1>5, Zenon DEF IsDispatch
    <2>2. f[t] \notin CounterpartWorkers(t, f, as, jb)
      BY <2>1, <1>5 DEF DispatchCandidates, Counterpart
    <2> QED
      BY <2>2, <1>5 DEF CounterpartWorkers, Counterpart
  <1>6. ASSUME NEW s \in TaskIds, NEW t \in TaskIds, Counterpart(s, t, jb),
               Owner(t, assigned_to') # NULL
        PROVE  Owner(s, assigned_to') # Owner(t, assigned_to')
    <2>1. CASE s \notin DOMAIN f /\ t \notin DOMAIN f
      BY <1>4, <1>6, <2>1 DEF CrossCheckOn
    <2>2. CASE s \notin DOMAIN f /\ t \in DOMAIN f
      BY <1>3, <1>4, <1>5, <1>6, <2>2
    <2>3. CASE s \in DOMAIN f /\ t \notin DOMAIN f
      <3>1. Counterpart(t, s, jb)
        BY <1>6 DEF Counterpart
      <3> QED
        BY <1>3, <1>4, <1>5, <1>6, <2>3, <3>1
    <2>4. CASE s \in DOMAIN f /\ t \in DOMAIN f
      <3>1. Counterpart(t, s, jb) /\ s # t
        BY <1>6 DEF Counterpart
      <3>2. Before(s, t, jb) \/ Before(t, s, jb)
        BY <3>1, BoundsAssumption DEF Before, Job, TaskIds
      <3> QED
        BY <1>3, <1>5, <1>6, <2>4, <3>1, <3>2
    <2> QED
      BY <2>1, <2>2, <2>3, <2>4
  <1> QED
    BY <1>6 DEF CrossCheckOn

\* A supervisor's action keeps picker and packer apart, by the loop of auto_dispatch
\* or by the checks of assign_task.
LEMMA SuperviseCrossCheck ==
  ASSUME RowInv, CrossCheck, Supervise
  PROVE  CrossCheck'
  <1> USE DEF RowInv
  <1>0. /\ claimed_by' = claimed_by /\ TypeOK'
        /\ CrossCheckOn(assigned_to, job)
        /\ CrossCheckOn(assigned_to', job') => CrossCheck'
    BY SuperviseRows, SuperviseTypeOK DEF CrossCheck, CrossCheckOn, Owner, Counterpart
  <1>1. ASSUME NEW b \in Batches, NEW l \in BatchTypeLists, NEW p \in Priorities,
               create_batch(b, l, p)
        PROVE  CrossCheck'
    <2> DEFINE new(t) == t..(t + Len(l) - 1)
               jb(t)  == [s \in TaskIds |-> IF s \in new(t)
                          THEN [type |-> l[s - t + 1], batch |-> b, priority |-> p]
                          ELSE job[s]]
               st(t)  == [s \in TaskIds |-> IF s \in new(t) THEN "QUEUED" ELSE status[s]]
    <2>1. PICK t \in TaskIds :
            /\ FirstFree(t) /\ new(t) \subseteq TaskIds
            /\ job' = jb(t)
            /\ auto_dispatch(st(t), assigned_to, jb(t), availability)
      BY <1>1 DEF create_batch
    <2>2. /\ st(t) \in [TaskIds -> Statuses \cup {"NONE"}]
          /\ jb(t) \in [TaskIds -> Job]
      BY <1>0, <2>1 DEF TypeOK, Statuses
    <2>3. \A s \in new(t) : status[s] = "NONE"
      BY <2>1 DEF FirstFree, TaskIds
    <2>4. \A s \in TaskIds : st(t)[s] = "QUEUED" => claimed_by[s] = NULL
      BY <2>3 DEF RowsAgree
    <2>5. \A s \in new(t) : Owner(s, assigned_to) = NULL
      BY <2>1, <2>3 DEF RowsAgree, Owner
    <2>6. \A s \in TaskIds \ new(t) : jb(t)[s] = job[s]
      OBVIOUS
    <2>7. CrossCheckOn(assigned_to, jb(t))
      <3> HIDE DEF jb, new
      <3> QED
        BY <1>0, <2>5, <2>6 DEF CrossCheckOn, Counterpart
    <2> HIDE DEF st, jb
    <2> QED
      BY <1>0, <2>1, <2>2, <2>4, <2>7, DispatchCrossCheck DEF TypeOK
  <1>2. ASSUME NEW type \in LooseTypes, NEW b \in Batches \cup {NULL}, NEW p \in Priorities,
               NEW w \in Workers \cup {NULL}, create_task(type, b, p, w)
        PROVE  CrossCheck'
    <2> DEFINE jb(t) == [job EXCEPT ![t] = [type |-> type, batch |-> b, priority |-> p]]
               st(t) == [status EXCEPT ![t] = "QUEUED"]
    <2>1. PICK t \in TaskIds :
            /\ FirstFree(t)
            /\ job' = jb(t)
            /\ \/ /\ w = NULL
                  /\ auto_dispatch(st(t), assigned_to, jb(t), availability)
               \/ /\ w # NULL
                  /\ MayBeAssigned(w, t, jb(t))
                  /\ status' = [st(t) EXCEPT ![t] = "ASSIGNED"]
                  /\ assigned_to' = [assigned_to EXCEPT ![t] = w]
      BY <1>2 DEF create_task
    <2>2. /\ st(t) \in [TaskIds -> Statuses \cup {"NONE"}]
          /\ jb(t) \in [TaskIds -> Job]
      BY <1>0, <2>1 DEF TypeOK, Statuses
    <2>3. status[t] = "NONE" /\ claimed_by[t] = NULL /\ Owner(t, assigned_to) = NULL
      BY <2>1 DEF FirstFree, TaskIds, RowsAgree, Owner, TypeOK
    <2>4. \A s \in TaskIds : st(t)[s] = "QUEUED" => claimed_by[s] = NULL
      BY <2>3 DEF RowsAgree, TypeOK
    <2>5. \A s \in TaskIds \ {t} : jb(t)[s] = job[s]
      BY DEF TypeOK
    <2>6. CrossCheckOn(assigned_to, jb(t))
      <3> HIDE DEF jb
      <3> QED
        BY <1>0, <2>3, <2>5 DEF CrossCheckOn, Counterpart
    <2>7. CASE auto_dispatch(st(t), assigned_to, jb(t), availability)
      <3> HIDE DEF st, jb
      <3> QED
        BY <1>0, <2>1, <2>2, <2>4, <2>6, <2>7, DispatchCrossCheck DEF TypeOK
    <2>8. CASE /\ w # NULL
               /\ MayBeAssigned(w, t, jb(t))
               /\ assigned_to' = [assigned_to EXCEPT ![t] = w]
      <3>1. /\ Owner(t, assigned_to') = w
            /\ \A s \in TaskIds \ {t} : Owner(s, assigned_to') = Owner(s, assigned_to)
        BY <2>3, <2>8 DEF Owner, TypeOK
      <3>2. \A s \in TaskIds : Counterpart(s, t, jb(t)) => Owner(s, assigned_to) # w
        BY <2>8 DEF MayBeAssigned
      <3>3. CrossCheckOn(assigned_to', jb(t))
        <4> HIDE DEF jb
        <4> QED
          BY <2>6, <3>1, <3>2 DEF CrossCheckOn, Counterpart
      <3> QED
        BY <1>0, <2>1, <3>3
    <2> QED
      BY <2>1, <2>7, <2>8
  <1>3. CASE run_dispatch
    BY <1>0, <1>3, DispatchCrossCheck DEF run_dispatch, TypeOK, RowsAgree
  <1>4. ASSUME NEW w \in Workers, NEW av \in AvailabilityChoices, set_worker_availability(w, av)
        PROVE  CrossCheck'
    <2> DEFINE released == {t \in TaskIds : /\ av # "AVAILABLE"
                                            /\ assigned_to[t] = w
                                            /\ claimed_by[t] = NULL
                                            /\ status[t] = "ASSIGNED"}
               st == [t \in TaskIds |-> IF t \in released THEN "QUEUED" ELSE status[t]]
               as == [t \in TaskIds |-> IF t \in released THEN NULL ELSE assigned_to[t]]
    <2>1. /\ st \in [TaskIds -> Statuses \cup {"NONE"}]
          /\ as \in [TaskIds -> Users \cup {NULL}]
          /\ \A t \in TaskIds : st[t] = "QUEUED" => claimed_by[t] = NULL
      BY DEF TypeOK, RowsAgree, Statuses
    <2>2. /\ auto_dispatch(st, as, job, availability')
          /\ job' = job
      BY <1>4 DEF set_worker_availability
    <2>3. \A t \in TaskIds : Owner(t, as) \in {NULL, Owner(t, assigned_to)}
      BY DEF Owner
    <2>4. CrossCheckOn(as, job)
      <3> HIDE DEF as
      <3> QED
        BY <1>0, <2>3 DEF CrossCheckOn, Counterpart
    <2> HIDE DEF st, as
    <2> QED
      BY <1>0, <2>1, <2>2, <2>4, DispatchCrossCheck DEF TypeOK
  <1>5. ASSUME NEW t \in TaskIds, NEW w \in Workers \cup {NULL}, assign_task(t, w)
        PROVE  CrossCheck'
    <2> DEFINE st == [status EXCEPT ![t] = "QUEUED"]
               as == [assigned_to EXCEPT ![t] = NULL]
    <2>1. /\ st \in [TaskIds -> Statuses \cup {"NONE"}]
          /\ as \in [TaskIds -> Users \cup {NULL}]
          /\ \A s \in TaskIds : st[s] = "QUEUED" => claimed_by[s] = NULL
          /\ job' = job /\ claimed_by[t] = NULL
      BY <1>5 DEF TypeOK, RowsAgree, Statuses, assign_task
    <2>2. CASE auto_dispatch(st, as, job, availability)
      <3>1. \A s \in TaskIds : Owner(s, as) \in {NULL, Owner(s, assigned_to)}
        BY DEF Owner, TypeOK
      <3>2. CrossCheckOn(as, job)
        <4> HIDE DEF as
        <4> QED
          BY <1>0, <3>1 DEF CrossCheckOn, Counterpart
      <3> HIDE DEF st, as
      <3> QED
        BY <1>0, <2>1, <2>2, <3>2, DispatchCrossCheck DEF TypeOK
    <2>3. CASE /\ w # NULL
               /\ MayBeAssigned(w, t, job)
               /\ assigned_to' = [assigned_to EXCEPT ![t] = w]
      <3>1. /\ Owner(t, assigned_to') = w
            /\ \A s \in TaskIds \ {t} : Owner(s, assigned_to') = Owner(s, assigned_to)
        BY <2>1, <2>3 DEF Owner, TypeOK
      <3>2. \A s \in TaskIds : Counterpart(s, t, job) => Owner(s, assigned_to) # w
        BY <2>3 DEF MayBeAssigned
      <3>3. CrossCheckOn(assigned_to', job)
        BY <1>0, <3>1, <3>2 DEF CrossCheckOn, Counterpart
      <3> QED
        BY <1>0, <2>1, <3>3
    <2> QED
      BY <1>5, <2>2, <2>3 DEF assign_task
  <1>6. CASE new_work_day \/ \E w \in Workers : update_user(w)
    BY <1>0, <1>6 DEF new_work_day, update_user
  <1> QED
    BY <1>1, <1>2, <1>3, <1>4, <1>5, <1>6 DEF Supervise

\* claim_next_task passes over a stage whose counterpart is the claimer's.
LEMMA ClaimCrossCheck ==
  ASSUME TypeOK, RowsAgree, CrossCheck, NEW u \in Users, NEW types,
         NEW st \in [TaskIds -> Statuses \cup {"NONE"}],
         \A t \in TaskIds : st[t] = "NONE" => status[t] = "NONE",
         NEW bs, claim_next_task(u, types, st, bs),
         UNCHANGED <<job, assigned_to>>
  PROVE  CrossCheck'
  <1>1. CASE claimed_by' = claimed_by
    BY <1>1 DEF CrossCheck, Owner, Counterpart
  <1>2. CASE \E t \in TaskIds :
               /\ t \in Claimable(u, types, st)
               /\ claimed_by' = [claimed_by EXCEPT ![t] = u]
    <2>1. PICK t \in TaskIds :
            /\ t \in Claimable(u, types, st)
            /\ claimed_by' = [claimed_by EXCEPT ![t] = u]
      BY <1>2
    <2>2. \A s \in TaskIds : Counterpart(s, t, job) => Owner(s, assigned_to) # u
      BY <2>1 DEF Claimable, Counterpart, RowsAgree
    <2>3. /\ Owner(t, assigned_to)' = u
          /\ \A s \in TaskIds \ {t} : Owner(s, assigned_to)' = Owner(s, assigned_to)
      BY <2>1, NullAssumption DEF Owner, TypeOK
    <2>4. \A r, s \in TaskIds : Counterpart(r, s, job)' <=> Counterpart(r, s, job)
      BY DEF Counterpart
    <2> QED
      BY <2>2, <2>3, <2>4 DEF CrossCheck, Counterpart
  <1> QED
    BY <1>1, <1>2, ClaimStep

\* Every step keeps picker and packer apart.
LEMMA CrossCheckNext ==
  ASSUME RowInv, CrossCheck, [Next]_vars
  PROVE  CrossCheck'
  <1> USE DEF RowInv
  <1>1. ASSUME NEW u \in Users, claim_next(u)
        PROVE  CrossCheck'
    <2>1. PICK types : claim_next_task(u, types, status, batch_status)
      BY <1>1 DEF claim_next
    <2> QED
      BY <1>1, <2>1, ClaimCrossCheck DEF TypeOK, claim_next
  <1>2. ASSUME NEW t \in TaskIds, NEW u \in Users, COMPLETE(t, u)
        PROVE  CrossCheck'
    <2> DEFINE st == [status EXCEPT ![t] = "COMPLETED"]
    <2>1. /\ st \in [TaskIds -> Statuses \cup {"NONE"}]
          /\ \A s \in TaskIds : st[s] = "NONE" => status[s] = "NONE"
          /\ UNCHANGED <<job, assigned_to>>
      BY <1>2 DEF TypeOK, Statuses, COMPLETE
    <2>2. CASE UNCHANGED claimed_by
      BY <2>1, <2>2 DEF CrossCheck, Owner, Counterpart
    <2>3. ASSUME NEW types, NEW bs, claim_next_task(u, types, st, bs)
          PROVE  CrossCheck'
      <3> HIDE DEF st
      <3> QED
        BY <2>1, <2>3, ClaimCrossCheck
    <2> QED
      BY <1>2, <2>2, <2>3 DEF COMPLETE
  <1>3. ASSUME NEW t \in TaskIds, NEW u \in Users,
               \/ verify_task_scan(t, u) \/ START(t, u) \/ PAUSE(t, u)
               \/ RESUME(t, u) \/ CANCEL(t, u)
        PROVE  CrossCheck'
    <2>1. UNCHANGED <<job, assigned_to, claimed_by>>
      BY <1>3 DEF verify_task_scan, START, PAUSE, RESUME, CANCEL
    <2> QED
      BY <2>1 DEF CrossCheck, Owner, Counterpart
  <1>4. CASE Tick \/ UNCHANGED vars
    BY <1>4 DEF Tick, vars, CrossCheck, Owner, Counterpart
  <1> QED
    BY <1>1, <1>2, <1>3, <1>4, SuperviseCrossCheck DEF Next, Work

-----------------------------------------------------------------------------
(***************************************************************************)
(* Pack Note status                                                        *)
(***************************************************************************)

BatchAgreesOn(st, bs) ==
  \A b \in Batches :
    /\ bs[b] = "NONE" => \A t \in TaskIds : job[t].batch # b
    /\ bs[b] = "OPEN" => \A t \in TaskIds : job[t].batch = b => claimed_by[t] = NULL
    /\ bs[b] \in {"OPEN", "IN_PROGRESS"} =>
         \E t \in TaskIds : job[t].batch = b /\ st[t] \in OPEN_STATUSES

\* A row that belongs to a Pack Note exists.
LEMMA BatchAgreesForm ==
  ASSUME RowsAgree
  PROVE  BatchAgrees <=> BatchAgreesOn(status, batch_status)
  <1>1. \A b \in Batches, t \in TaskIds : job[t].batch = b => Exists(t)
    BY NullAssumption DEF RowsAgree, Exists
  <1>2. \A b \in Batches, t \in TaskIds :
          t \in {s \in TaskIds : Exists(s) /\ job[s].batch = b} <=> job[t].batch = b
    BY <1>1
  <1> QED
    BY <1>2 DEF BatchAgrees, BatchAgreesOn

\* The same of the rows a step leaves behind.
LEMMA BatchAgreesFormPrime ==
  ASSUME RowsAgree', BatchAgreesOn(status, batch_status)'
  PROVE  BatchAgrees'
  <1>1. \A b \in Batches, t \in TaskIds : job'[t].batch = b => Exists(t)'
    BY NullAssumption DEF RowsAgree, Exists
  <1>2. ASSUME NEW b \in Batches
        PROVE  LET tasks == {t \in TaskIds : Exists(t)' /\ job'[t].batch = b}
               IN  /\ batch_status'[b] = "NONE" => tasks = {}
                   /\ batch_status'[b] = "OPEN" => \A t \in tasks : claimed_by'[t] = NULL
                   /\ batch_status'[b] \in {"OPEN", "IN_PROGRESS"} =>
                        \E t \in tasks : status'[t] \in OPEN_STATUSES
    BY <1>1 DEF BatchAgreesOn
  <1> QED
    BY <1>2 DEF BatchAgrees

\* A supervisor's action opens at most one Pack Note, together with its tasks.
LEMMA SuperviseBatches ==
  ASSUME RowInv, Supervise
  PROVE  /\ \A b \in Batches :
              \/ batch_status'[b] = batch_status[b]
              \/ /\ batch_status[b] = "NONE" /\ batch_status'[b] = "OPEN"
                 /\ \E t \in TaskIds : job'[t].batch = b /\ status'[t] \in OPEN_STATUSES
         /\ \A t \in TaskIds : job'[t] # job[t] =>
              /\ status[t] = "NONE"
              /\ \A b \in Batches : job'[t].batch = b => batch_status'[b] # "NONE"
  <1> USE DEF RowInv
  <1>1. ASSUME NEW b \in Batches, NEW l \in BatchTypeLists, NEW p \in Priorities,
               create_batch(b, l, p)
        PROVE  /\ batch_status[b] = "NONE"
               /\ batch_status' = [batch_status EXCEPT ![b] = "OPEN"]
               /\ \E t \in TaskIds : job'[t].batch = b /\ status'[t] \in OPEN_STATUSES
               /\ \A t \in TaskIds : job'[t] # job[t] =>
                    status[t] = "NONE" /\ job'[t].batch = b
    <2> DEFINE new(t) == t..(t + Len(l) - 1)
    <2>1. PICK t \in TaskIds :
            /\ FirstFree(t) /\ new(t) \subseteq TaskIds
            /\ job' = [s \in TaskIds |-> IF s \in new(t)
                          THEN [type |-> l[s - t + 1], batch |-> b, priority |-> p]
                          ELSE job[s]]
      BY <1>1 DEF create_batch
    <2>2. t \in new(t) /\ Len(l) \in Nat
      BY InputsAssumption DEF TaskIds
    <2>3. \A s \in new(t) : status[s] = "NONE" /\ job'[s].batch = b
      BY <2>1 DEF FirstFree, TaskIds
    <2>4. Requeued(t)
      BY <1>1, <2>2, <2>3, SuperviseRows, NullAssumption DEF Supervise, SameRow, RowsAgree
    <2>5. status'[t] \in OPEN_STATUSES
      BY <2>4 DEF Requeued, Waiting, OPEN_STATUSES, Statuses, TERMINAL
    <2> QED
      BY <1>1, <2>1, <2>2, <2>3, <2>5 DEF create_batch
  <1>2. ASSUME NEW type \in LooseTypes, NEW b \in Batches \cup {NULL}, NEW p \in Priorities,
               NEW w \in Workers \cup {NULL}, create_task(type, b, p, w)
        PROVE  /\ batch_status' = batch_status
               /\ \A t \in TaskIds : job'[t] # job[t] =>
                    /\ status[t] = "NONE" /\ job'[t].batch = b
                    /\ b # NULL => batch_status[b] # "NONE"
    <2>1. PICK t \in TaskIds :
            /\ FirstFree(t)
            /\ job' = [job EXCEPT ![t] = [type |-> type, batch |-> b, priority |-> p]]
            /\ b # NULL => batch_status[b] # "NONE"
      BY <1>2 DEF create_task
    <2> QED
      BY <1>2, <2>1 DEF create_task, FirstFree, TaskIds, TypeOK
  <1>3. ASSUME \/ run_dispatch \/ new_work_day
               \/ \E w \in Workers, av \in AvailabilityChoices : set_worker_availability(w, av)
               \/ \E t \in TaskIds, w \in Workers \cup {NULL} : assign_task(t, w)
               \/ \E w \in Workers : update_user(w)
        PROVE  UNCHANGED <<job, batch_status>>
    BY <1>3 DEF run_dispatch, new_work_day, set_worker_availability, assign_task, update_user
  <1>4. CASE \E b \in Batches, l \in BatchTypeLists, p \in Priorities : create_batch(b, l, p)
    BY <1>1, <1>4 DEF TypeOK
  <1>5. CASE \E type \in LooseTypes, b \in Batches \cup {NULL}, p \in Priorities,
               w \in Workers \cup {NULL} : create_task(type, b, p, w)
    BY <1>2, <1>5, NullAssumption
  <1>6. CASE UNCHANGED <<job, batch_status>>
    BY <1>6
  <1> QED
    BY <1>3, <1>4, <1>5, <1>6 DEF Supervise

\* A supervisor's action keeps Pack Note statuses in agreement with their tasks.
LEMMA SuperviseBatchAgrees ==
  ASSUME RowInv, BatchAgrees, Supervise
  PROVE  BatchAgrees'
  <1> USE DEF RowInv
  <1>1. BatchAgreesOn(status, batch_status)
    BY BatchAgreesForm
  <1>c. claimed_by' = claimed_by
    BY SuperviseRows
  <1>2. \A t \in TaskIds : /\ status[t] \in OPEN_STATUSES => status'[t] \in OPEN_STATUSES
                           /\ status[t] = "NONE" => claimed_by[t] = NULL
    BY SuperviseRows DEF SameRow, Requeued, Waiting, OPEN_STATUSES, Statuses, TERMINAL, RowsAgree
  <1>3. ASSUME NEW b \in Batches
        PROVE  /\ batch_status'[b] = "NONE" => \A t \in TaskIds : job'[t].batch # b
               /\ batch_status'[b] = "OPEN" =>
                    \A t \in TaskIds : job'[t].batch = b => claimed_by'[t] = NULL
               /\ batch_status'[b] \in {"OPEN", "IN_PROGRESS"} =>
                    \E t \in TaskIds : job'[t].batch = b /\ status'[t] \in OPEN_STATUSES
    <2>1. \A t \in TaskIds : job'[t] # job[t] =>
            status[t] = "NONE" /\ (job'[t].batch = b => batch_status'[b] # "NONE")
      BY SuperviseBatches
    <2>2. \A t \in TaskIds : status[t] \in OPEN_STATUSES => job'[t] = job[t]
      BY <2>1 DEF OPEN_STATUSES, Statuses
    <2>3. CASE batch_status'[b] = batch_status[b]
      <3>1. ASSUME batch_status'[b] \in {"OPEN", "IN_PROGRESS"}
            PROVE  \E t \in TaskIds : job'[t].batch = b /\ status'[t] \in OPEN_STATUSES
        <4>1. PICK t \in TaskIds : job[t].batch = b /\ status[t] \in OPEN_STATUSES
          BY <1>1, <2>3, <3>1 DEF BatchAgreesOn
        <4> QED
          BY <1>2, <2>2, <4>1
      <3>2. ASSUME batch_status'[b] = "NONE", NEW t \in TaskIds
            PROVE  job'[t].batch # b
        BY <1>1, <2>1, <2>3, <3>2 DEF BatchAgreesOn
      <3>3. ASSUME batch_status'[b] = "OPEN", NEW t \in TaskIds, job'[t].batch = b
            PROVE  claimed_by'[t] = NULL
        BY <1>1, <1>c, <1>2, <2>1, <2>3, <3>3 DEF BatchAgreesOn
      <3> QED
        BY <3>1, <3>2, <3>3
    <2>4. CASE /\ batch_status[b] = "NONE" /\ batch_status'[b] = "OPEN"
               /\ \E t \in TaskIds : job'[t].batch = b /\ status'[t] \in OPEN_STATUSES
      <3>1. ASSUME NEW t \in TaskIds, job'[t].batch = b
            PROVE  claimed_by'[t] = NULL
        <4>1. job[t].batch # b
          BY <1>1, <2>4 DEF BatchAgreesOn
        <4> QED
          BY <1>c, <1>2, <2>1, <3>1, <4>1
      <3> QED
        BY <2>4, <3>1
    <2> QED
      BY <2>3, <2>4, SuperviseBatches
  <1>4. BatchAgreesOn(status, batch_status)'
    BY <1>3 DEF BatchAgreesOn
  <1> QED
    BY <1>4, RowInvSupervise, BatchAgreesFormPrime

\* claim_next_task takes the Pack Note of the claimed task out of OPEN.
LEMMA ClaimBatchAgrees ==
  ASSUME NEW u \in Users, NEW types, NEW st \in [TaskIds -> Statuses \cup {"NONE"}],
         NEW bs \in [Batches -> {"NONE", "OPEN", "IN_PROGRESS", "COMPLETED"}],
         claimed_by \in [TaskIds -> Users \cup {NULL}],
         BatchAgreesOn(st, bs), claim_next_task(u, types, st, bs), job' = job
  PROVE  BatchAgreesOn(status, batch_status)'
  <1>1. CASE status' = st /\ batch_status' = bs /\ claimed_by' = claimed_by
    BY <1>1 DEF BatchAgreesOn
  <1>2. CASE \E t \in TaskIds :
               /\ t \in Claimable(u, types, st)
               /\ status' = [st EXCEPT ![t] = "CLAIMED"]
               /\ claimed_by' = [claimed_by EXCEPT ![t] = u]
               /\ batch_status' = [b \in Batches |->
                    IF b = job[t].batch /\ bs[b] = "OPEN" THEN "IN_PROGRESS" ELSE bs[b]]
    BY <1>2 DEF BatchAgreesOn, OPEN_STATUSES, Statuses, TERMINAL
  <1> QED
    BY <1>1, <1>2, ClaimStep

\* When the last open task of a Pack Note ends, transition_task completes it.
LEMMA EndBatchAgrees ==
  ASSUME RowInv, BatchAgrees, NEW t \in TaskIds, NEW e \in TERMINAL,
         status[t] # "NONE",
         e = "COMPLETED" => claimed_by[t] # NULL
  PROVE  LET st == [status EXCEPT ![t] = e]
         IN  BatchAgreesOn(st, BatchAfter(t, st))
  <1> USE DEF RowInv
  <1> DEFINE st == [status EXCEPT ![t] = e]
             bs == BatchAfter(t, st)
  <1>1. BatchAgreesOn(status, batch_status)
    BY BatchAgreesForm
  <1>2. \A s \in TaskIds : /\ s # t => st[s] = status[s]
                           /\ st[s] \in Statuses \cup {"NONE"}
                           /\ st[s] = "NONE" => status[s] = "NONE"
    BY DEF TypeOK, Statuses, TERMINAL
  <1>3. ASSUME NEW b \in Batches
        PROVE  /\ bs[b] = "NONE" => \A s \in TaskIds : job[s].batch # b
               /\ bs[b] = "OPEN" => \A s \in TaskIds : job[s].batch = b => claimed_by[s] = NULL
               /\ bs[b] \in {"OPEN", "IN_PROGRESS"} =>
                    \E s \in TaskIds : job[s].batch = b /\ st[s] \in OPEN_STATUSES
    <2>1. CASE b # job[t].batch
      <3>1. bs[b] = batch_status[b]
        BY <2>1 DEF BatchAfter
      <3>2. /\ bs[b] = "NONE" => \A s \in TaskIds : job[s].batch # b
            /\ bs[b] = "OPEN" => \A s \in TaskIds : job[s].batch = b => claimed_by[s] = NULL
        BY <1>1, <3>1 DEF BatchAgreesOn
      <3>3. ASSUME bs[b] \in {"OPEN", "IN_PROGRESS"}
            PROVE  \E s \in TaskIds : job[s].batch = b /\ st[s] \in OPEN_STATUSES
        <4>1. PICK s \in TaskIds : job[s].batch = b /\ status[s] \in OPEN_STATUSES
          BY <1>1, <3>1, <3>3 DEF BatchAgreesOn
        <4>2. st[s] = status[s]
          BY <1>2, <2>1, <4>1
        <4> QED
          BY <4>1, <4>2
      <3> QED
        BY <3>2, <3>3
    <2>2. CASE b = job[t].batch /\ \A s \in TaskIds : job[s].batch = b => st[s] \in TERMINAL
      <3>1. bs[b] = "COMPLETED"
        BY <2>2 DEF BatchAfter
      <3> QED
        BY <3>1
    <2>3. CASE b = job[t].batch /\ \E s \in TaskIds : job[s].batch = b /\ st[s] \notin TERMINAL
      <3>1. bs[b] = batch_status[b]
        BY <2>3 DEF BatchAfter
      <3>2. \E s \in TaskIds : job[s].batch = b /\ st[s] \in OPEN_STATUSES
        <4>1. PICK s \in TaskIds : job[s].batch = b /\ st[s] \notin TERMINAL
          BY <2>3
        <4>2. status[s] # "NONE"
          BY <4>1, NullAssumption DEF RowsAgree
        <4>3. st[s] \in Statuses
          BY <1>2, <4>2
        <4> QED
          BY <4>1, <4>3 DEF OPEN_STATUSES
      <3> HIDE DEF bs, st
      <3> QED
        BY <1>1, <3>1, <3>2 DEF BatchAgreesOn
    <2> QED
      BY <2>1, <2>2, <2>3
  <1> QED
    BY <1>3 DEF BatchAgreesOn

\* Every step keeps Pack Note statuses in agreement with their tasks.
LEMMA BatchAgreesNext ==
  ASSUME RowInv, BatchAgrees, [Next]_vars
  PROVE  BatchAgrees'
  <1> USE DEF RowInv
  <1>1. ASSUME BatchAgreesOn(status, batch_status)'
        PROVE  BatchAgrees'
    BY <1>1, RowInvNext, BatchAgreesFormPrime
  <1>2. ASSUME NEW u \in Users, claim_next(u)
        PROVE  BatchAgrees'
    <2>1. PICK types : claim_next_task(u, types, status, batch_status)
      BY <1>2 DEF claim_next
    <2> QED
      BY <1>1, <1>2, <2>1, ClaimBatchAgrees, BatchAgreesForm DEF TypeOK, claim_next
  <1>3. ASSUME NEW t \in TaskIds, NEW u \in Users, COMPLETE(t, u)
        PROVE  BatchAgrees'
    <2> DEFINE st == [status EXCEPT ![t] = "COMPLETED"]
               bs == BatchAfter(t, st)
    <2>1. /\ st \in [TaskIds -> Statuses \cup {"NONE"}]
          /\ bs \in [Batches -> {"NONE", "OPEN", "IN_PROGRESS", "COMPLETED"}]
          /\ job' = job
      BY <1>3 DEF TypeOK, Statuses, COMPLETE, BatchAfter
    <2>2. BatchAgreesOn(st, bs)
      BY <1>3, EndBatchAgrees DEF COMPLETE, RowsAgree, ACTIVE_STATUSES, TERMINAL
    <2>3. CASE status' = st /\ batch_status' = bs /\ UNCHANGED claimed_by
      BY <1>1, <2>1, <2>2, <2>3 DEF BatchAgreesOn
    <2>4. ASSUME NEW types, claim_next_task(u, types, st, bs)
          PROVE  BatchAgrees'
      <3> HIDE DEF st, bs
      <3> QED
        BY <1>1, <2>1, <2>2, <2>4, ClaimBatchAgrees DEF TypeOK
    <2> QED
      BY <1>3, <2>3, <2>4 DEF COMPLETE
  <1>4. ASSUME NEW t \in TaskIds, NEW u \in Users, CANCEL(t, u)
        PROVE  BatchAgrees'
    <2> DEFINE st == [status EXCEPT ![t] = "CANCELLED"]
    <2>1. BatchAgreesOn(st, BatchAfter(t, st))
      BY <1>4, EndBatchAgrees DEF CANCEL, OPEN_STATUSES, Statuses, TERMINAL
    <2> QED
      BY <1>1, <1>4, <2>1 DEF CANCEL, BatchAgreesOn
  <1>5. ASSUME NEW t \in TaskIds, NEW u \in Users,
               verify_task_scan(t, u) \/ START(t, u) \/ PAUSE(t, u) \/ RESUME(t, u)
        PROVE  BatchAgrees'
    <2>1. /\ UNCHANGED <<job, claimed_by, batch_status>>
          /\ \A s \in TaskIds : status[s] \in OPEN_STATUSES => status'[s] \in OPEN_STATUSES
      BY <1>5 DEF verify_task_scan, START, PAUSE, RESUME, TypeOK, OPEN_STATUSES, Statuses, TERMINAL
    <2> QED
      BY <1>1, <2>1, BatchAgreesForm DEF BatchAgreesOn
  <1>6. CASE Tick \/ UNCHANGED vars
    BY <1>6 DEF Tick, vars, BatchAgrees, Exists
  <1> QED
    BY <1>2, <1>3, <1>4, <1>5, <1>6, SuperviseBatchAgrees DEF Next, Work

-----------------------------------------------------------------------------
(***************************************************************************)
(* Attribution                                                             *)
(***************************************************************************)

StableRow(t) ==
  /\ claimed_by[t] # NULL => claimed_by'[t] = claimed_by[t]
  /\ status[t] \in TERMINAL =>
       /\ status'[t] = status[t]
       /\ timing'[t] = timing[t]
       /\ assigned_to'[t] = assigned_to[t]
       /\ claimed_by'[t] = claimed_by[t]

\* Every step leaves claims in place and ended tasks alone.
LEMMA AttributionStep ==
  ASSUME RowInv, [Next]_vars
  PROVE  \A t \in TaskIds : StableRow(t)
  <1> USE DEF RowInv
  <1>1. CASE Supervise
    BY <1>1, SuperviseRows DEF StableRow, SameRow, Requeued, RowsAgree, TERMINAL
  <1>2. ASSUME NEW u \in Users, claim_next(u)
        PROVE  \A t \in TaskIds : StableRow(t)
    <2>1. PICK types : claim_next_task(u, types, status, batch_status)
      BY <1>2 DEF claim_next
    <2>2. \A t \in TaskIds : \/ status'[t] = status[t] /\ claimed_by'[t] = claimed_by[t]
                            \/ ClaimedRow(t, u, status)
      BY <2>1, ClaimRows DEF TypeOK
    <2> QED
      BY <1>2, <2>2 DEF claim_next, StableRow, ClaimedRow, RowsAgree, TERMINAL
  <1>3. ASSUME NEW t \in TaskIds, NEW u \in Users, COMPLETE(t, u)
        PROVE  \A s \in TaskIds : StableRow(s)
    <2> DEFINE st == [status EXCEPT ![t] = "COMPLETED"]
               bs == BatchAfter(t, st)
    <2>1. /\ st \in [TaskIds -> Statuses \cup {"NONE"}]
          /\ bs \in [Batches -> {"NONE", "OPEN", "IN_PROGRESS", "COMPLETED"}]
      BY DEF TypeOK, Statuses, BatchAfter
    <2>2. \A s \in TaskIds : \/ status'[s] = st[s] /\ claimed_by'[s] = claimed_by[s]
                            \/ ClaimedRow(s, u, st)
      <3>1. CASE status' = st /\ UNCHANGED claimed_by
        BY <3>1
      <3>2. ASSUME NEW types, claim_next_task(u, types, st, bs)
            PROVE  <2>2
        <4> HIDE DEF st, bs
        <4> QED
          BY <2>1, <3>2, ClaimRows DEF TypeOK
      <3> QED
        BY <1>3, <3>1, <3>2 DEF COMPLETE
    <2>3. /\ status[t] = "IN_PROGRESS" /\ UNCHANGED assigned_to
          /\ \A s \in TaskIds \ {t} : timing'[s] = timing[s] /\ st[s] = status[s]
      BY <1>3 DEF COMPLETE, TypeOK
    <2> QED
      BY <2>2, <2>3 DEF StableRow, ClaimedRow, RowsAgree, TERMINAL, TypeOK
  <1>4. ASSUME NEW t \in TaskIds, NEW u \in Users,
               \/ START(t, u) \/ PAUSE(t, u) \/ RESUME(t, u) \/ CANCEL(t, u)
        PROVE  \A s \in TaskIds : StableRow(s)
    <2>1. /\ status[t] \notin TERMINAL /\ UNCHANGED <<assigned_to, claimed_by>>
          /\ \A s \in TaskIds \ {t} : timing'[s] = timing[s] /\ status'[s] = status[s]
      BY <1>4 DEF START, PAUSE, RESUME, CANCEL, TypeOK, TERMINAL, OPEN_STATUSES
    <2> QED
      BY <2>1 DEF StableRow
  <1>5. CASE Tick \/ UNCHANGED vars \/ \E t \in TaskIds, u \in Users : verify_task_scan(t, u)
    BY <1>5 DEF Tick, vars, verify_task_scan, StableRow
  <1> QED
    BY <1>1, <1>2, <1>3, <1>4, <1>5 DEF Next, Work

-----------------------------------------------------------------------------
(***************************************************************************)
(* The promise to the handhelds: WorkTasks implements ClaimOnce            *)
(***************************************************************************)

\* A task in somebody's hands, in the sense of ClaimOnce, is one get_current_task
\* finds.
LEMMA InHandIsCurrent ==
  ASSUME RowInv, NEW u \in Users, NEW t \in Promise!InHand(u)
  PROVE  t \in TaskIds /\ claimed_by[t] = u /\ status[t] \in ACTIVE_STATUSES
  BY NullAssumption
  DEF Promise!InHand, Ended, RowInv, RowsAgree, TypeOK, Statuses, ACTIVE_STATUSES, TERMINAL

\* Every step takes at most one task, which nobody has, for somebody who has none
\* but the one the same step ends.
LEMMA PromiseStep ==
  ASSUME RowInv, [Next]_vars
  PROVE  [Promise!Next]_<<claimed_by, Ended>>
  <1>1. CASE Supervise
    <2>1. /\ UNCHANGED claimed_by
          /\ \A t \in TaskIds : SameRow(t) \/ Requeued(t)
      BY <1>1, SuperviseRows DEF RowInv
    <2>2. Ended' = Ended
      BY <2>1 DEF Ended, SameRow, Requeued, Waiting, TERMINAL
    <2> QED
      BY <2>1, <2>2
  <1>2. ASSUME NEW u \in Users, claim_next(u)
        PROVE  [Promise!Next]_<<claimed_by, Ended>>
    <2>1. PICK types : claim_next_task(u, types, status, batch_status)
      BY <1>2 DEF claim_next
    <2>2. CASE status' = status /\ claimed_by' = claimed_by
      BY <2>2 DEF Ended
    <2>3. ASSUME ~HasCurrent(u, status),
                 NEW t \in TaskIds, t \in Claimable(u, types, status),
                 status' = [status EXCEPT ![t] = "CLAIMED"],
                 claimed_by' = [claimed_by EXCEPT ![t] = u]
          PROVE  Promise!Next
      <3>1. Promise!InHand(u) = {}
        BY <2>3, InHandIsCurrent DEF HasCurrent
      <3>2. t \notin Ended /\ claimed_by[t] = NULL
        BY <2>3 DEF Claimable, Ended, TERMINAL, RowInv, RowsAgree
      <3>3. Ended' = Ended
        BY <2>3, <3>2 DEF Ended, RowInv, TypeOK, TERMINAL
      <3> QED
        BY <2>3, <3>1, <3>2, <3>3 DEF Promise!Next, Promise!Take
    <2> QED
      BY <2>1, <2>2, <2>3, ClaimStep
  <1>3. ASSUME NEW t \in TaskIds, NEW u \in Users, COMPLETE(t, u)
        PROVE  Promise!Next
    <2> DEFINE st == [status EXCEPT ![t] = "COMPLETED"]
    <2>1. t \notin Ended /\ Ended \cup {t} = {s \in TaskIds : st[s] \in TERMINAL}
      BY <1>3 DEF COMPLETE, Ended, TERMINAL, RowInv, TypeOK
    <2>2. CASE status' = st /\ UNCHANGED claimed_by
      BY <2>1, <2>2 DEF Promise!Next, Promise!Finish, Ended
    <2>3. ASSUME ~HasCurrent(u, st), NEW types,
                 NEW s \in TaskIds, s \in Claimable(u, types, st),
                 status' = [st EXCEPT ![s] = "CLAIMED"],
                 claimed_by' = [claimed_by EXCEPT ![s] = u]
          PROVE  Promise!Next
      <3>1. Promise!InHand(u) \subseteq {t}
        BY <2>3, InHandIsCurrent DEF HasCurrent, RowInv, TypeOK
      <3>2. st[s] \in {"QUEUED", "ASSIGNED"}
        BY <2>3 DEF Claimable
      <3>3. s # t /\ st[s] = status[s]
        BY <3>2 DEF RowInv, TypeOK
      <3>4. s \notin Ended \cup {t} /\ claimed_by[s] = NULL
        BY <3>2, <3>3 DEF Ended, TERMINAL, RowInv, RowsAgree
      <3>5. Ended' = Ended \cup {t}
        BY <2>1, <2>3, <3>2, <3>4 DEF Ended, RowInv, TypeOK, TERMINAL
      <3> QED
        BY <2>1, <2>3, <3>1, <3>4, <3>5 DEF Promise!Next, Promise!FinishAndTake
    <2>4. ASSUME NEW types, NEW bs, claim_next_task(u, types, st, bs)
          PROVE  Promise!Next
      <3> HIDE DEF st
      <3> QED
        BY <2>2, <2>3, <2>4, ClaimStep
    <2> QED
      BY <1>3, <2>2, <2>4 DEF COMPLETE
  <1>4. ASSUME NEW t \in TaskIds, NEW u \in Users, CANCEL(t, u)
        PROVE  Promise!Next
    <2>1. t \notin Ended /\ Ended' = Ended \cup {t} /\ claimed_by' = claimed_by
      BY <1>4 DEF CANCEL, Ended, OPEN_STATUSES, TERMINAL, RowInv, TypeOK
    <2> QED
      BY <2>1 DEF Promise!Next, Promise!Finish
  <1>5. ASSUME NEW t \in TaskIds, NEW u \in Users,
               \/ verify_task_scan(t, u) \/ START(t, u) \/ PAUSE(t, u) \/ RESUME(t, u)
        PROVE  UNCHANGED <<claimed_by, Ended>>
    BY <1>5 DEF verify_task_scan, START, PAUSE, RESUME, Ended, TERMINAL, RowInv, TypeOK
  <1>6. CASE Tick \/ UNCHANGED vars
    BY <1>6 DEF Tick, vars, Ended
  <1> QED
    BY <1>1, <1>2, <1>3, <1>4, <1>5, <1>6 DEF Next, Work

-----------------------------------------------------------------------------
(***************************************************************************)
(* Function grants are enforced where work is claimed                      *)
(***************************************************************************)

\* What ClaimsGranted says of the claim that takes t
GrantedRow(t) ==
  claimed_by[t] = NULL /\ claimed_by'[t] \in Workers /\ job[t].type \notin grants[claimed_by'[t]]
    => /\ grants[claimed_by'[t]] = {} \/ {} \in TypeRequests
       /\ \E s \in TaskIds : /\ claimed_by[s] = claimed_by'[t]
                              /\ status[s] = "IN_PROGRESS"
                              /\ status'[s] = "COMPLETED"

\* The list claim_next hands to claim_next_task filters, and an employee's list holds
\* only what is granted to him.
LEMMA AuthorizedFilter ==
  ASSUME TypeOK, NEW u \in Workers, NEW requested,
         TypesGranted(u, requested), AuthorizedTypes(u, requested) # {}
  PROVE  TypeFilter(AuthorizedTypes(u, requested)) \subseteq grants[u]
  <1>1. CASE requested = NULL
    <2>1. grants[u] \in SUBSET TaskTypes
      BY DEF TypeOK, Grantable
    <2> QED
      BY <1>1, <2>1, InputsAssumption DEF AuthorizedTypes, TypeFilter
  <1>2. CASE requested # NULL
    BY <1>2 DEF AuthorizedTypes, TypesGranted, TypeFilter
  <1> QED
    BY <1>1, <1>2

\* A claim takes at most one task, and one its types let through.
LEMMA ClaimedTypes ==
  ASSUME NEW u, NEW types, NEW st, NEW bs, claim_next_task(u, types, st, bs),
         claimed_by \in [TaskIds -> Users \cup {NULL}]
  PROVE  \A s \in TaskIds :
           claimed_by'[s] # claimed_by[s]
             => claimed_by'[s] = u /\ job[s].type \in TypeFilter(types)
  <1>1. CASE claimed_by' = claimed_by
    BY <1>1
  <1>2. CASE \E t \in TaskIds : /\ t \in Claimable(u, types, st)
                               /\ claimed_by' = [claimed_by EXCEPT ![t] = u]
    BY <1>2 DEF Claimable
  <1> QED
    BY <1>1, <1>2, ClaimStep

\* Every step keeps to the grants: claim_next by its filter, and a completion
\* claims for the employee whose task it completes, or for an administrator, by a
\* filter of its own unless its list of types is empty.
LEMMA GrantedStep ==
  ASSUME RowInv, [Next]_vars
  PROVE  \A t \in TaskIds : GrantedRow(t)
  <1> USE DEF RowInv
  <1>1. ASSUME UNCHANGED claimed_by
        PROVE  \A t \in TaskIds : GrantedRow(t)
    BY <1>1, NullAssumption DEF GrantedRow, Users
  <1>2. ASSUME NEW u \in Users, claim_next(u)
        PROVE  \A t \in TaskIds : GrantedRow(t)
    <2>1. PICK requested \in TypeRequests :
            /\ TypesGranted(u, requested)
            /\ AuthorizedTypes(u, requested) # {}
            /\ claim_next_task(u, AuthorizedTypes(u, requested), status, batch_status)
      BY <1>2 DEF claim_next
    <2>2. CASE claimed_by' = claimed_by
      BY <1>1, <2>2
    <2>3. ASSUME NEW t \in TaskIds, t \in Claimable(u, AuthorizedTypes(u, requested), status),
                 claimed_by' = [claimed_by EXCEPT ![t] = u]
          PROVE  \A s \in TaskIds : GrantedRow(s)
      <3>1. job[t].type \in TypeFilter(AuthorizedTypes(u, requested))
        BY <2>3 DEF Claimable
      <3>2. u \in Workers => job[t].type \in grants[u]
        BY <2>1, <3>1, AuthorizedFilter
      <3> QED
        BY <2>3, <3>2, NullAssumption DEF GrantedRow, TypeOK, Users
    <2> QED
      BY <2>1, <2>2, <2>3, ClaimStep
  <1>3. ASSUME NEW t \in TaskIds, NEW u \in Users, COMPLETE(t, u)
        PROVE  \A s \in TaskIds : GrantedRow(s)
    <2> DEFINE st == [status EXCEPT ![t] = "COMPLETED"]
               bs == BatchAfter(t, st)
    <2>1. /\ st \in [TaskIds -> Statuses \cup {"NONE"}]
          /\ bs \in [Batches -> {"NONE", "OPEN", "IN_PROGRESS", "COMPLETED"}]
          /\ st[t] = "COMPLETED"
      BY DEF TypeOK, Statuses, BatchAfter
    <2>2. CASE UNCHANGED claimed_by
      BY <1>1, <2>2
    <2>3. ASSUME NEW requested \in TypeRequests, TypesGranted(u, requested),
                 claim_next_task(u, AuthorizedTypes(u, requested), st, bs)
          PROVE  \A s \in TaskIds : GrantedRow(s)
      <3> DEFINE types == AuthorizedTypes(u, requested)
      <3>1. \A s \in TaskIds : \/ status'[s] = st[s] /\ claimed_by'[s] = claimed_by[s]
                              \/ ClaimedRow(s, u, st)
        <4> HIDE DEF st, bs, types
        <4> QED
          BY <2>1, <2>3, ClaimRows DEF TypeOK
      <3>2. status[t] = "IN_PROGRESS" /\ status'[t] = "COMPLETED"
        BY <1>3, <2>1, <3>1 DEF COMPLETE, ClaimedRow
      <3>3. u \in Workers => claimed_by[t] = u
        BY <1>3, UsersAssumption DEF COMPLETE, MayTransition
      <3>4. \A s \in TaskIds :
              claimed_by'[s] # claimed_by[s]
                => claimed_by'[s] = u /\ job[s].type \in TypeFilter(types)
        <4> HIDE DEF st, bs
        <4> QED
          BY <2>1, <2>3, ClaimedTypes DEF TypeOK
      <3>5. CASE types # {}
        <4>1. u \in Workers => TypeFilter(types) \subseteq grants[u]
          BY <2>3, <3>5, AuthorizedFilter
        <4> QED
          BY <3>4, <4>1, NullAssumption DEF GrantedRow, Users
      <3>6. CASE u \in Workers /\ types = {}
        <4>1. grants[u] = {} \/ {} \in TypeRequests
          BY <3>6 DEF AuthorizedTypes
        <4> HIDE DEF types
        <4> QED
          BY <3>2, <3>3, <3>4, <3>6, <4>1, NullAssumption DEF GrantedRow, Users
      <3>7. CASE u \notin Workers
        BY <3>4, <3>7, NullAssumption DEF GrantedRow, Users
      <3> QED
        BY <3>5, <3>6, <3>7
    <2> QED
      BY <1>3, <2>2, <2>3 DEF COMPLETE
  <1>4. CASE Supervise
    BY <1>1, <1>4, SuperviseRows
  <1>5. ASSUME NEW t \in TaskIds, NEW u \in Users,
               \/ verify_task_scan(t, u) \/ START(t, u) \/ PAUSE(t, u)
               \/ RESUME(t, u) \/ CANCEL(t, u)
        PROVE  UNCHANGED claimed_by
    BY <1>5 DEF verify_task_scan, START, PAUSE, RESUME, CANCEL
  <1>6. CASE Tick \/ UNCHANGED vars
    BY <1>1, <1>6 DEF Tick, vars
  <1> QED
    BY <1>1, <1>2, <1>3, <1>4, <1>5, <1>6 DEF Next, Work

-----------------------------------------------------------------------------
(***************************************************************************)
(* The theorems                                                            *)
(***************************************************************************)

\* The columns of every row keep to what they promise: types, statuses and owners,
\* running clocks, waiting assignments, scans and accounted time.
THEOREM RowCorrect == Spec => []RowInv
  <1>1. RowInv /\ [Next]_vars => RowInv'
    BY RowInvNext
  <1> QED
    BY <1>1, RowInvInit, PTL DEF Spec

\* Every column of the work-control tables stays in its domain.
THEOREM TypeCorrect == Spec => []TypeOK
  <1>1. RowInv => TypeOK
    BY DEF RowInv
  <1> QED
    BY <1>1, RowCorrect, PTL

\* A waiting assignment names an employee on duty, and a claim keeps to it.
THEOREM WaitingAssignmentsKept == Spec => []AssigneesOnDuty
  <1>1. RowInv => AssigneesOnDuty
    BY DEF RowInv
  <1> QED
    BY <1>1, RowCorrect, PTL

\* No picking or packing starts before a barcode of its Pack Note was scanned.
THEOREM ScanGateHolds == Spec => []ScanGate
  <1>1. RowInv => ScanGate
    BY DEF RowInv
  <1> QED
    BY <1>1, RowCorrect, PTL

\* Active and paused seconds cover the time since the start of a task.
THEOREM TimeAccounted == Spec => []TimeAccounting
  <1>1. RowInv => TimeAccounting
    BY DEF RowInv
  <1> QED
    BY <1>1, RowCorrect, PTL

\* The running clock of a task is the one of its status.
THEOREM ClocksCorrect == Spec => []ClocksAgree
  <1>1. RowInv => ClocksAgree
    BY DEF RowInv
  <1> QED
    BY <1>1, RowCorrect, PTL

\* Nobody ever holds two active tasks.
THEOREM OneActive == Spec => []OneActivePerWorker
  <1>1. Init => OneActivePerWorker
    BY DEF Init, OneActivePerWorker, ACTIVE_STATUSES
  <1>2. RowInv /\ OneActivePerWorker /\ [Next]_vars => OneActivePerWorker'
    BY OneActiveNext
  <1> QED
    BY <1>1, <1>2, RowCorrect, PTL DEF Spec

\* The picker and the packer of a Pack Note are never the same employee.
THEOREM CrossChecked == Spec => []CrossCheck
  <1>1. Init => CrossCheck
    BY DEF Init, CrossCheck, Counterpart
  <1>2. RowInv /\ CrossCheck /\ [Next]_vars => CrossCheck'
    BY CrossCheckNext
  <1> QED
    BY <1>1, <1>2, RowCorrect, PTL DEF Spec

\* The status of a Pack Note agrees with its tasks.
THEOREM BatchCorrect == Spec => []BatchAgrees
  <1>1. Init => BatchAgrees
    BY DEF Init, BatchAgrees, Exists
  <1>2. RowInv /\ BatchAgrees /\ [Next]_vars => BatchAgrees'
    BY BatchAgreesNext
  <1> QED
    BY <1>1, <1>2, RowCorrect, PTL DEF Spec

\* A claim is never taken away, and an ended task never changes.
THEOREM AttributionHolds == Spec => AttributionStable
  <1>1. RowInv /\ [Next]_vars =>
          [\A t \in TaskIds :
             /\ claimed_by[t] # NULL => claimed_by'[t] = claimed_by[t]
             /\ status[t] \in TERMINAL =>
                  /\ status'[t] = status[t]
                  /\ timing'[t] = timing[t]
                  /\ assigned_to'[t] = assigned_to[t]
                  /\ claimed_by'[t] = claimed_by[t]]_vars
    BY AttributionStep DEF StableRow
  <1> QED
    BY <1>1, RowCorrect, PTL DEF Spec, AttributionStable

\* The task queue implements the promise ClaimOnce makes to the handhelds: a task is
\* taken once and for good, by an employee with nothing else in hand.
THEOREM ClaimsKept == Spec => ClaimsOnce
  <1>1. Init => Promise!Init
    BY NullAssumption DEF Init, Promise!Init, Promise!InHand, Ended, TERMINAL
  <1>2. RowInv /\ [Next]_vars => [Promise!Next]_<<claimed_by, Ended>>
    BY PromiseStep
  <1> QED
    BY <1>1, <1>2, RowCorrect, PTL DEF Spec, ClaimsOnce, Promise!Spec

\* Nobody claims a type of work that is not granted to him at that moment, except
\* by a completion with an empty list of types, which filters nothing: that of an
\* employee without any grants, or of a request that sends an empty list.
THEOREM GrantsEnforced == Spec => ClaimsGranted
  <1>1. RowInv /\ [Next]_vars =>
          [\A t \in TaskIds :
             LET w == claimed_by'[t]
             IN  claimed_by[t] = NULL /\ w \in Workers /\ job[t].type \notin grants[w]
                   => /\ grants[w] = {} \/ {} \in TypeRequests
                      /\ \E s \in TaskIds : /\ claimed_by[s] = w
                                             /\ status[s] = "IN_PROGRESS"
                                             /\ status'[s] = "COMPLETED"]_vars
    BY GrantedStep DEF GrantedRow
  <1> QED
    BY <1>1, RowCorrect, PTL DEF Spec, ClaimsGranted

=============================================================================
