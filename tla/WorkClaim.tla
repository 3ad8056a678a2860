------------------------------ MODULE WorkClaim ------------------------------
(***************************************************************************)
(* The transactions of the work queue, statement by statement.             *)
(*                                                                         *)
(* WorkTasks.tla takes every request as one atomic step.  PostgreSQL runs  *)
(* them READ COMMITTED (api/models/database.py keeps the default): each statement sees  *)
(* what is committed when it starts, plus the transaction's own writes;    *)
(* rows are locked until commit.  Here each request of a fixed set is a    *)
(* transaction whose statements interleave with those of the others, over  *)
(* rows that exist from the start (an INSERT is invisible until commit).   *)
(*                                                                         *)
(* Three locks make requests wait: rows (FOR UPDATE, UPDATE), the unique   *)
(* index ux_work_tasks_one_active_per_worker (a conflicting write waits    *)
(* for the transaction that wrote first), and the audit chain: the trigger *)
(* of migration 047 locks audit_log_chain_head from the first audit row of *)
(* a transaction to its commit.  PostgreSQL aborts one transaction of      *)
(* every deadlock; no code sets a lock timeout here.                       *)
(*                                                                         *)
(* Which of the candidates auto_dispatch prefers is WorkDispatch's matter: *)
(* here it is any of them.                                                 *)
(***************************************************************************)
EXTENDS Integers, Sequences, FiniteSets, SequencesExt

CONSTANTS
  Workers,     \* employees
  Tasks,       \* task ids, in queue order
  TaskType,    \* TaskType[t]
  TaskBatch,   \* TaskBatch[t]: the Pack Note of t, or NULL
  Requests,    \* the requests that overlap
  Programs,    \* what a request may ask for
  AUDIT,       \* the lock of the audit chain
  NULL

PickPack == {"PICKING", "PACKING"}
WAITING  == {"QUEUED", "ASSIGNED"}
ACTIVE   == {"CLAIMED", "IN_PROGRESS"}   \* PAUSED behaves as IN_PROGRESS here
TERMINAL == {"COMPLETED", "CANCELLED"}
Batches  == {TaskBatch[t] : t \in Tasks} \ {NULL}
AvailabilityStatuses == {"AVAILABLE", "BREAK", "OFF_DUTY"}

Row == [status : WAITING \cup ACTIVE \cup TERMINAL,
        assigned_to : Workers \cup {NULL}, claimed_by : Workers \cup {NULL}]
Lockable == Tasks \cup Batches \cup Workers \cup {AUDIT}

ASSUME TasksAssumption ==
  /\ Tasks \subseteq Nat
  /\ IsFiniteSet(Tasks)
  /\ \A t \in Tasks : TaskType[t] \in PickPack => TaskBatch[t] # NULL

\* rows of different tables are different rows
ASSUME NamesAssumption ==
  /\ NULL \notin Workers \cup Requests
  /\ Tasks \cap (Batches \cup Workers \cup {AUDIT}) = {}
  /\ Batches \cap (Workers \cup {AUDIT}) = {}
  /\ AUDIT \notin Workers

\* what the routes have checked before a service function runs
ASSUME ProgramsAssumption ==
  \A p \in Programs :
    /\ p.kind \in {"claim_next", "complete", "complete_claim", "cancel",
                   "run_dispatch", "availability", "assign", "unassign"}
    /\ p.kind \in {"claim_next", "complete", "complete_claim", "availability", "assign"} =>
         p.user \in Workers
    /\ p.kind \in {"complete", "complete_claim", "cancel", "assign", "unassign"} =>
         p.task \in Tasks
    /\ p.kind = "availability" => p.status \in AvailabilityStatuses

VARIABLES
  db,       \* the committed work_tasks rows, work_batches.status, availability
  draft,    \* the same with the writes of the transactions that lock the rows
  holder,   \* holder[x]: the transaction that locks x, or NULL
  prog,     \* prog[r]: what request r asks for
  todo,     \* todo[r]: the statements r has still to run
  memo      \* memo[r]: what r has read and still needs

vars == <<db, draft, holder, prog, todo, memo>>

(***************************************************************************)
(* The statements of each handler, in the order of the code.               *)
(***************************************************************************)

ClaimNext == <<"get_current_task", "availability", "candidates", "lock_candidate",
               "claim", "batch_in_progress", "audit">>
AutoDispatch == <<"eligible_workers", "open_tasks", "lock_rows", "auto_assign", "audit">>
\* wrong variant: the remaining tasks are counted before the audit row is written
TransitionCountsFirst ==
  <<"task_for_update", "end", "count_remaining", "batch_completed", "audit">>
Transition == <<"task_for_update", "end", "audit", "count_remaining", "batch_completed">>

Statements(p) ==
  CASE p.kind = "claim_next"     -> ClaimNext \o <<"commit">>
    [] p.kind = "complete"       -> Transition \o <<"commit">>
    [] p.kind = "complete_claim" -> Transition \o ClaimNext \o <<"commit">>
    [] p.kind = "cancel"         -> Transition \o <<"commit">>
    [] p.kind = "run_dispatch"   -> AutoDispatch \o <<"commit">>
    [] p.kind = "availability"   ->
         <<"upsert_status", "assigned_tasks", "lock_rows", "release", "audit">>
         \o AutoDispatch \o <<"commit">>
    [] p.kind = "assign"         ->
         <<"task_for_update", "eligible", "counterpart", "assign", "audit", "commit">>
    [] p.kind = "unassign"       ->
         <<"task_for_update", "assign", "audit">> \o AutoDispatch \o <<"commit">>

\* rows a running warehouse may hold: nobody has two tasks in hand, no one picks
\* and packs one Pack Note (the invariants of WorkTasks)
StartRows ==
  {rows \in [Tasks -> [status : {"QUEUED"}, assigned_to : {NULL}, claimed_by : {NULL}]
                      \cup [status : {"ASSIGNED"}, assigned_to : Workers, claimed_by : {NULL}]
                      \cup [status : {"IN_PROGRESS", "COMPLETED"},
                            assigned_to : {NULL}, claimed_by : Workers]] :
     \A s, t \in Tasks : s # t =>
       /\ ~ /\ rows[s].status = "IN_PROGRESS" /\ rows[t].status = "IN_PROGRESS"
            /\ rows[s].claimed_by = rows[t].claimed_by
       /\ ~ /\ TaskBatch[s] = TaskBatch[t] /\ TaskBatch[s] # NULL
            /\ \E w \in Workers : /\ w \in {rows[s].claimed_by, rows[s].assigned_to}
                                  /\ w \in {rows[t].claimed_by, rows[t].assigned_to}}

Init ==
  /\ \E rows \in StartRows :
       db = [rows    |-> rows,
             batches |-> [b \in Batches |->
               CASE \A t \in Tasks : TaskBatch[t] = b => rows[t].status = "COMPLETED" ->
                      "COMPLETED"
                 [] \A t \in Tasks : TaskBatch[t] = b => rows[t].claimed_by = NULL -> "OPEN"
                 [] OTHER -> "IN_PROGRESS"],
             duty    |-> [w \in Workers |-> "AVAILABLE"]]
  /\ draft = db
  /\ holder = [x \in Lockable |-> NULL]
  /\ prog \in [Requests -> Programs]
  /\ todo = [r \in Requests |-> Statements(prog[r])]
  /\ memo = [r \in Requests |-> [queue |-> <<>>, locked |-> {}, on_duty |-> {}]]

-----------------------------------------------------------------------------
(***************************************************************************)
(* What a statement of r sees, waits for and may be refused.               *)
(***************************************************************************)

View(r) ==
  [rows    |-> [t \in Tasks |-> IF holder[t] = r THEN draft.rows[t] ELSE db.rows[t]],
   batches |-> [b \in Batches |-> IF holder[b] = r THEN draft.batches[b] ELSE db.batches[b]],
   duty    |-> [w \in Workers |-> IF holder[w] = r THEN draft.duty[w] ELSE db.duty[w]]]

OwnerOf(row) == IF row.claimed_by # NULL THEN row.claimed_by ELSE row.assigned_to
HeldBy(row, u) == row.claimed_by = u /\ row.status \in ACTIVE
Stages(s, t) ==
  /\ TaskBatch[s] = TaskBatch[t] /\ TaskBatch[t] # NULL
  /\ {TaskType[s], TaskType[t]} = PickPack

At(r, statement) == todo[r] # <<>> /\ Head(todo[r]) = statement
Others(r, x) == {holder[x]} \ {r, NULL}
Batch(r) == TaskBatch[IF At(r, "batch_in_progress") THEN Head(memo[r].queue)
                      ELSE prog[r].task]

\* the rows another transaction has rewritten whose index entry, old or new, is u's
IndexWaits(r) ==
  LET u == prog[r].user
  IN  UNION {Others(r, t) : t \in {s \in Tasks :
        /\ draft.rows[s] # db.rows[s]
        /\ HeldBy(draft.rows[s], u) \/ HeldBy(db.rows[s], u)}}

\* the transactions the next statement of r has to wait for
WaitsFor(r) ==
  CASE At(r, "task_for_update")   -> Others(r, prog[r].task)
    [] At(r, "upsert_status")     -> Others(r, prog[r].user)
    [] At(r, "lock_rows") /\ memo[r].queue # <<>> -> Others(r, Head(memo[r].queue))
    [] At(r, "claim")             -> IndexWaits(r)
    [] At(r, "batch_in_progress") ->
         IF Batch(r) # NULL /\ View(r).batches[Batch(r)] = "OPEN"
           THEN Others(r, Batch(r)) ELSE {}
    [] At(r, "batch_completed")   -> Others(r, Batch(r))
    [] At(r, "audit")             -> Others(r, AUDIT)
    [] OTHER                      -> {}

\* transition_task's and assign_task's checks of the locked row
MayProceed(p, row) ==
  CASE p.kind \in {"complete", "complete_claim"} ->
         row.status = "IN_PROGRESS" /\ row.claimed_by = p.user
    [] p.kind = "cancel" -> row.status \notin TERMINAL
    [] OTHER -> row.status \in WAITING /\ row.claimed_by = NULL

\* wrong variant: no unique index on the active tasks of an employee
RefusedWithoutIndex(r) ==
  \/ At(r, "task_for_update") /\ ~MayProceed(prog[r], View(r).rows[prog[r].task])
  \/ At(r, "eligible") /\ View(r).duty[prog[r].user] # "AVAILABLE"

\* the statements that raise: the checks above, an ineligible assignee, the other
\* stage in the assignee's hands, a violation of the unique index
Refused(r) ==
  \/ At(r, "task_for_update") /\ ~MayProceed(prog[r], View(r).rows[prog[r].task])
  \/ At(r, "eligible") /\ View(r).duty[prog[r].user] # "AVAILABLE"
  \/ /\ At(r, "counterpart")
     /\ \E s \in Tasks : /\ Stages(s, prog[r].task)
                         /\ OwnerOf(View(r).rows[s]) = prog[r].user
  \/ At(r, "claim") /\ \E s \in Tasks : HeldBy(View(r).rows[s], prog[r].user)

Runs(r, statement) == At(r, statement) /\ WaitsFor(r) = {} /\ ~Refused(r)

Goto(r, statements) == todo' = [todo EXCEPT ![r] = statements]
Proceed(r) == Goto(r, Tail(todo[r]))
Skip(r) == Goto(r, Tail(Tail(todo[r])))
Commit(r) == Goto(r, <<"commit">>)
Lock(r, x) == holder' = [holder EXCEPT ![x] = r]

\* ORDER BY: the rows of S, of two rows the one that goes first before the other
Queues(S, First(_, _)) ==
  {q \in SetToSeqs(S) : \A i, j \in DOMAIN q : i < j => First(q[i], q[j])}

-----------------------------------------------------------------------------
(***************************************************************************)
(* claim_next_task.  The candidate query sorts the rows its snapshot shows *)
(* and only then locks: SKIP LOCKED passes over locked rows, and a row     *)
(* rewritten since the snapshot is checked again.                          *)
(***************************************************************************)

get_current_task(r) ==
  /\ Runs(r, "get_current_task")
  /\ IF \E t \in Tasks : HeldBy(View(r).rows[t], prog[r].user)
       THEN Commit(r) ELSE Proceed(r)
  /\ UNCHANGED <<db, draft, holder, prog, memo>>

check_availability(r) ==
  /\ Runs(r, "availability")
  /\ IF View(r).duty[prog[r].user] # "AVAILABLE" THEN Commit(r) ELSE Proceed(r)
  /\ UNCHANGED <<db, draft, holder, prog, memo>>

OpenTo(row, u) == row.status \in WAITING /\ row.assigned_to \in {NULL, u}

Candidates(r) ==
  LET rows == View(r).rows
      u    == prog[r].user
  IN  {t \in Tasks :
         /\ OpenTo(rows[t], u)
         /\ TaskType[t] \in prog[r].types
         /\ ~ \E s \in Tasks : Stages(s, t) /\ OwnerOf(rows[s]) = u}

select_candidates(r) ==
  LET rows == View(r).rows
      First(s, t) == LET mine == rows[s].assigned_to = prog[r].user
                     IN  IF mine <=> rows[t].assigned_to = prog[r].user
                           THEN s < t ELSE mine
  IN  /\ Runs(r, "candidates")
      /\ \E queue \in Queues(Candidates(r), First) : memo' = [memo EXCEPT ![r].queue = queue]
      /\ Proceed(r)
      /\ UNCHANGED <<db, draft, holder, prog>>

\* wrong variant: the candidate is not locked
lock_candidate_unlocked(r) ==
  /\ Runs(r, "lock_candidate")
  /\ \/ memo[r].queue = <<>> /\ Commit(r) /\ UNCHANGED holder
     \/ memo[r].queue # <<>> /\ Lock(r, Head(memo[r].queue)) /\ Proceed(r)
  /\ UNCHANGED <<db, draft, prog, memo>>

lock_candidate(r) ==
  LET queue == memo[r].queue
      Free(t) == Others(r, t) = {} /\ OpenTo(View(r).rows[t], prog[r].user)
      free == {i \in DOMAIN queue : Free(queue[i])}
  IN  /\ Runs(r, "lock_candidate")
      /\ \/ free = {} /\ Commit(r) /\ UNCHANGED <<holder, memo>>
         \/ \E i \in free :
              /\ \A j \in free : i <= j
              /\ Lock(r, queue[i])
              /\ memo' = [memo EXCEPT ![r].queue = <<queue[i]>>]
              /\ Proceed(r)
      /\ UNCHANGED <<db, draft, prog>>

claim(r) ==
  LET t == Head(memo[r].queue)
  IN  /\ Runs(r, "claim")
      /\ draft' = [draft EXCEPT !.rows[t].status = "CLAIMED",
                                !.rows[t].claimed_by = prog[r].user]
      /\ Proceed(r)
      /\ UNCHANGED <<db, holder, prog, memo>>

\* UPDATE work_batches SET status = 'IN_PROGRESS' ... AND status = 'OPEN'
batch_in_progress(r) ==
  /\ Runs(r, "batch_in_progress")
  /\ IF Batch(r) # NULL /\ View(r).batches[Batch(r)] = "OPEN"
       THEN /\ Lock(r, Batch(r))
            /\ draft' = [draft EXCEPT !.batches[Batch(r)] = "IN_PROGRESS"]
       ELSE UNCHANGED <<holder, draft>>
  /\ Proceed(r)
  /\ UNCHANGED <<db, prog, memo>>

-----------------------------------------------------------------------------
(***************************************************************************)
(* transition_task: COMPLETE and CANCEL, up to the batch they may finish   *)
(***************************************************************************)

task_for_update(r) ==
  /\ Runs(r, "task_for_update")
  /\ Lock(r, prog[r].task)
  /\ Proceed(r)
  /\ UNCHANGED <<db, draft, prog, memo>>

end_task(r) ==
  /\ Runs(r, "end")
  /\ draft' = [draft EXCEPT !.rows[prog[r].task].status =
                  IF prog[r].kind = "cancel" THEN "CANCELLED" ELSE "COMPLETED"]
  /\ Proceed(r)
  /\ UNCHANGED <<db, holder, prog, memo>>

\* write_audit_log: the first one of a transaction takes the chain until commit
write_audit_log(r) ==
  /\ Runs(r, "audit")
  /\ Lock(r, AUDIT)
  /\ Proceed(r)
  /\ UNCHANGED <<db, draft, prog, memo>>

Remaining(r) ==
  {t \in Tasks : TaskBatch[t] = TaskBatch[prog[r].task] /\ View(r).rows[t].status \notin TERMINAL}

count_remaining(r) ==
  /\ Runs(r, "count_remaining")
  /\ IF TaskBatch[prog[r].task] # NULL /\ Remaining(r) = {} THEN Proceed(r) ELSE Skip(r)
  /\ UNCHANGED <<db, draft, holder, prog, memo>>

batch_completed(r) ==
  /\ Runs(r, "batch_completed")
  /\ Lock(r, Batch(r))
  /\ draft' = [draft EXCEPT !.batches[Batch(r)] = "COMPLETED"]
  /\ Proceed(r)
  /\ UNCHANGED <<db, prog, memo>>

-----------------------------------------------------------------------------
(***************************************************************************)
(* auto_dispatch, set_worker_availability and assign_task                  *)
(***************************************************************************)

eligible_workers(r) ==
  /\ Runs(r, "eligible_workers")
  /\ memo' = [memo EXCEPT ![r].on_duty = {w \in Workers : View(r).duty[w] = "AVAILABLE"}]
  /\ Proceed(r)
  /\ UNCHANGED <<db, draft, holder, prog>>

\* wrong variant: no ORDER BY
open_tasks_unordered(r) ==
  /\ Runs(r, "open_tasks")
  /\ \E queue \in SetToSeqs({t \in Tasks : View(r).rows[t].status \notin TERMINAL}) :
       memo' = [memo EXCEPT ![r].queue = queue]
  /\ Proceed(r)
  /\ UNCHANGED <<db, draft, holder, prog>>

\* _open_tasks: the rows to lock, in queue order
open_tasks(r) ==
  /\ Runs(r, "open_tasks")
  /\ \E queue \in Queues({t \in Tasks : View(r).rows[t].status \notin TERMINAL},
                        LAMBDA s, t : s < t) :
       memo' = [memo EXCEPT ![r].queue = queue]
  /\ Proceed(r)
  /\ UNCHANGED <<db, draft, holder, prog>>

\* FOR UPDATE: one row after the other; what no longer matches stays locked but is
\* not returned (the statements below look at the rows again)
lock_rows(r) ==
  /\ Runs(r, "lock_rows")
  /\ \/ memo[r].queue = <<>> /\ Proceed(r) /\ UNCHANGED <<holder, memo>>
     \/ /\ memo[r].queue # <<>>
        /\ Lock(r, Head(memo[r].queue))
        /\ memo' = [memo EXCEPT ![r].queue = Tail(@),
                                ![r].locked = @ \cup {Head(memo[r].queue)}]
        /\ UNCHANGED todo
  /\ UNCHANGED <<db, draft, prog>>

\* _counterpart_workers and the loop of auto_dispatch, whose rows are all locked
auto_assign(r) ==
  LET rows   == View(r).rows
      unowned == {t \in memo[r].locked : rows[t].status = "QUEUED" /\ rows[t].assigned_to = NULL}
      Allowed(t, f) ==
        {w \in memo[r].on_duty :
           TaskType[t] \in PickPack =>
             ~ \E s \in Tasks : /\ TaskBatch[s] = TaskBatch[t]
                                /\ \/ TaskType[s] \in PickPack /\ OwnerOf(rows[s]) = w
                                   \/ s \in unowned /\ s < t /\ f[s] = w}
  IN  /\ Runs(r, "auto_assign")
      /\ \E f \in [unowned -> Workers \cup {NULL}] :
           /\ \A t \in unowned : IF Allowed(t, f) = {} THEN f[t] = NULL ELSE f[t] \in Allowed(t, f)
           /\ draft' = [draft EXCEPT !.rows = [t \in Tasks |->
                 IF t \in unowned /\ f[t] # NULL
                   THEN [status |-> "ASSIGNED", assigned_to |-> f[t], claimed_by |-> NULL]
                   ELSE draft.rows[t]]]
           /\ IF \E t \in unowned : f[t] # NULL THEN Proceed(r) ELSE Skip(r)
      /\ UNCHANGED <<db, holder, prog, memo>>

\* INSERT INTO work_worker_status ... ON CONFLICT DO UPDATE
upsert_status(r) ==
  LET w == prog[r].user
  IN  /\ Runs(r, "upsert_status")
      /\ Lock(r, w)
      /\ draft' = [draft EXCEPT !.duty[w] = prog[r].status]
      /\ Proceed(r)
      /\ UNCHANGED <<db, prog, memo>>

Releasable(row, w) == row.status = "ASSIGNED" /\ row.assigned_to = w /\ row.claimed_by = NULL

\* the waiting assignments of w, locked in no particular order
assigned_tasks(r) ==
  LET found == {t \in Tasks : /\ prog[r].status # "AVAILABLE"
                              /\ Releasable(View(r).rows[t], prog[r].user)}
  IN  /\ Runs(r, "assigned_tasks")
      /\ \E queue \in SetToSeqs(found) : memo' = [memo EXCEPT ![r].queue = queue]
      /\ Proceed(r)
      /\ UNCHANGED <<db, draft, holder, prog>>

release(r) ==
  LET rows == View(r).rows
  IN  /\ Runs(r, "release")
      /\ draft' = [draft EXCEPT !.rows = [t \in Tasks |->
            IF t \in memo[r].locked /\ Releasable(rows[t], prog[r].user)
              THEN [rows[t] EXCEPT !.status = "QUEUED", !.assigned_to = NULL]
              ELSE draft.rows[t]]]
      /\ Proceed(r)
      /\ UNCHANGED <<db, holder, prog, memo>>

\* assign_task's two reads; Refused says when they raise
check_assignee(r) ==
  /\ Runs(r, "eligible") \/ Runs(r, "counterpart")
  /\ Proceed(r)
  /\ UNCHANGED <<db, draft, holder, prog, memo>>

assign(r) ==
  LET w == IF prog[r].kind = "assign" THEN prog[r].user ELSE NULL
  IN  /\ Runs(r, "assign")
      /\ draft' = [draft EXCEPT !.rows[prog[r].task] =
                     [status |-> IF w = NULL THEN "QUEUED" ELSE "ASSIGNED",
                      assigned_to |-> w, claimed_by |-> NULL]]
      /\ Proceed(r)
      /\ UNCHANGED <<db, holder, prog, memo>>

-----------------------------------------------------------------------------
(***************************************************************************)
(* The end of a transaction                                                *)
(***************************************************************************)

Unlock(r) == holder' = [x \in Lockable |-> IF holder[x] = r THEN NULL ELSE holder[x]]

commit(r) ==
  /\ Runs(r, "commit")
  /\ db' = View(r)
  /\ Unlock(r)
  /\ Goto(r, <<>>)
  /\ UNCHANGED <<draft, prog, memo>>

\* wrong variant: the error path forgets the transaction
RollbackForgotten(r) ==
  /\ Goto(r, <<>>)
  /\ UNCHANGED <<db, draft, holder, prog, memo>>

\* with_db: an error leaves the handler without a commit, and the session rolls back
Rollback(r) ==
  /\ draft' =
       [rows    |-> [t \in Tasks |-> IF holder[t] = r THEN db.rows[t] ELSE draft.rows[t]],
        batches |-> [b \in Batches |-> IF holder[b] = r THEN db.batches[b] ELSE draft.batches[b]],
        duty    |-> [w \in Workers |-> IF holder[w] = r THEN db.duty[w] ELSE draft.duty[w]]]
  /\ Unlock(r)
  /\ Goto(r, <<>>)
  /\ UNCHANGED <<db, prog, memo>>

refuse(r) == Refused(r) /\ WaitsFor(r) = {} /\ Rollback(r)

\* a set of transactions each of which waits for one of the others
Cycle(S) ==
  /\ S # {}
  /\ \A r \in S : WaitsFor(r) \cap S # {} /\ \E x \in S : r \in WaitsFor(x)

\* PostgreSQL's deadlock detector aborts one of them
deadlock_detected(r) ==
  /\ \E S \in SUBSET Requests : r \in S /\ Cycle(S)
  /\ Rollback(r)

Statement(r) ==
  \/ get_current_task(r)
  \/ check_availability(r)
  \/ select_candidates(r)
  \/ lock_candidate(r)
  \/ claim(r)
  \/ batch_in_progress(r)
  \/ task_for_update(r)
  \/ end_task(r)
  \/ write_audit_log(r)
  \/ count_remaining(r)
  \/ batch_completed(r)
  \/ eligible_workers(r)
  \/ open_tasks(r)
  \/ lock_rows(r)
  \/ auto_assign(r)
  \/ upsert_status(r)
  \/ assigned_tasks(r)
  \/ release(r)
  \/ check_assignee(r)
  \/ assign(r)
  \/ commit(r)
  \/ refuse(r)
  \/ deadlock_detected(r)

AllAnswered == \A r \in Requests : todo[r] = <<>>

Next ==
  \/ \E r \in Requests : Statement(r)
  \/ AllAnswered /\ UNCHANGED vars

\* the server runs the next statement of a request that is not waiting, and the
\* detector looks at every wait after deadlock_timeout
Fairness == \A r \in Requests : WF_vars(Statement(r))

Spec == Init /\ [][Next]_vars /\ Fairness

-----------------------------------------------------------------------------
(***************************************************************************)
(* Properties                                                              *)
(***************************************************************************)

\* "many handhelds ask for work at once without ever assigning the same task
\* twice" (claim_next_task), and the one-active index: what is committed implements
\* ClaimOnce, however the statements of claims, completions that claim, dispatch
\* and reassignment interleave and whichever of them are rolled back.
Promise == INSTANCE ClaimOnce WITH
  Users <- Workers, Nobody <- NULL,
  taken_by <- [t \in Tasks |-> db.rows[t].claimed_by],
  finished <- {t \in Tasks : db.rows[t].status \in TERMINAL}
ClaimsOnce == Promise!Spec

\* Two requests that end the last two tasks of a Pack Note at the same time do not
\* each take the other's task for unfinished: once every task is over the Pack
\* Note is COMPLETED, and not before.
LastTaskCompletesBatch ==
  \A b \in Batches :
    db.batches[b] = "COMPLETED"
      <=> \A t \in Tasks : TaskBatch[t] = b => db.rows[t].status \in TERMINAL

\* Rows are locked in compatible orders: transactions deadlock only when one of
\* them goes on to lock rows after its audit row (a dispatch or a claim that follows
\* another write), or is releasing the assignments of an employee, the one query
\* that locks several rows in no particular order.
Releasing(r) == prog[r].kind = "availability" /\ holder[AUDIT] # r
DeadlocksExplained ==
  \A S \in SUBSET Requests : Cycle(S) =>
    holder[AUDIT] \in S \/ \E r \in S : Releasing(r)

\* Every request is answered: no interleaving of row locks, index waits and the
\* audit lock makes requests wait for each other for ever.
EveryRequestAnswered == <>AllAnswered

\* assign_task refuses an employee who holds the other stage: "Picker and packer
\* for one Pack Note must be different employees" (work_dispatch_service.py).
StagesApart ==
  \A s, t \in Tasks :
    Stages(s, t) /\ OwnerOf(db.rows[t]) # NULL => OwnerOf(db.rows[s]) # OwnerOf(db.rows[t])

\* docs/me-warehouse-control.md, Automatic dispatch: when a worker goes on BREAK,
\* "unclaimed assignments are then released and rebalanced".
NoAssignmentOffDuty ==
  \A t \in Tasks :
    db.rows[t].status = "ASSIGNED" => db.duty[db.rows[t].assigned_to] = "AVAILABLE"

=============================================================================
