-------------------------- MODULE WorkClaimProofs --------------------------
(***************************************************************************)
(* Theorems about WorkClaim for every set of employees, tasks, Pack Notes  *)
(* and overlapping requests: however the statements of the transactions    *)
(* interleave, what is committed is a behaviour of ClaimOnce, a Pack Note  *)
(* is completed exactly when its last task ends, and only the known        *)
(* deadlocks occur.                                                        *)
(***************************************************************************)
EXTENDS WorkClaim, FiniteSetTheorems, SequenceTheorems, WellFoundedInduction, TLAPS

-----------------------------------------------------------------------------
(***************************************************************************)
(* Where a request is: the statements of its kind, and how many are left.  *)
(***************************************************************************)
StatementNames ==
  {"get_current_task", "availability", "candidates", "lock_candidate", "claim",
   "batch_in_progress", "audit", "commit", "task_for_update", "end", "count_remaining",
   "batch_completed", "eligible_workers", "open_tasks", "lock_rows", "auto_assign",
   "upsert_status", "assigned_tasks", "release", "eligible", "counterpart", "assign"}
Scripts == Seq(StatementNames)

Script(kind) ==
  CASE kind = "claim_next" ->
         <<"get_current_task", "availability", "candidates", "lock_candidate",
           "claim", "batch_in_progress", "audit", "commit">>
    [] kind \in {"complete", "cancel"} ->
         <<"task_for_update", "end", "audit", "count_remaining", "batch_completed", "commit">>
    [] kind = "complete_claim" ->
         <<"task_for_update", "end", "audit", "count_remaining", "batch_completed",
           "get_current_task", "availability", "candidates", "lock_candidate",
           "claim", "batch_in_progress", "audit", "commit">>
    [] kind = "run_dispatch" ->
         <<"eligible_workers", "open_tasks", "lock_rows", "auto_assign", "audit", "commit">>
    [] kind = "availability" ->
         <<"upsert_status", "assigned_tasks", "lock_rows", "release", "audit",
           "eligible_workers", "open_tasks", "lock_rows", "auto_assign", "audit", "commit">>
    [] kind = "assign" ->
         <<"task_for_update", "eligible", "counterpart", "assign", "audit", "commit">>
    [] kind = "unassign" ->
         <<"task_for_update", "assign", "audit",
           "eligible_workers", "open_tasks", "lock_rows", "auto_assign", "audit", "commit">>
Length(kind) ==
  CASE kind = "claim_next" -> 8
    [] kind \in {"complete", "cancel", "run_dispatch", "assign"} -> 6
    [] kind = "complete_claim" -> 13
    [] kind = "availability" -> 11
    [] kind = "unassign" -> 9

Kind(r) == prog[r].kind
Left(r) == Len(todo[r])
\* r is before the statement with n left of one of the kinds
Before(r, kinds, numbers) == Kind(r) \in kinds /\ Left(r) \in numbers

OnScript(kind, s) ==
  /\ s \in Scripts
  /\ Len(s) <= Length(kind)
  /\ \A i \in 1 .. Len(s) : s[i] = Script(kind)[Length(kind) - Len(s) + i]
Placed == /\ todo = [r \in Requests |-> todo[r]]
          /\ \A r \in Requests : OnScript(Kind(r), todo[r])

-----------------------------------------------------------------------------
(***************************************************************************)
(* The rows, committed and drafted, and who holds them                     *)
(***************************************************************************)
BatchStatuses == {"OPEN", "IN_PROGRESS", "COMPLETED"}
GoodRow == {row \in Row : /\ row.status \in WAITING => row.claimed_by = NULL
                          /\ row.status \in ACTIVE => row.claimed_by # NULL}
Tables == [rows : [Tasks -> GoodRow], batches : [Batches -> BatchStatuses],
           duty : [Workers -> AvailabilityStatuses]]

Typed ==
  /\ db \in Tables /\ draft \in Tables
  /\ holder \in [Lockable -> Requests \cup {NULL}]
  /\ prog \in [Requests -> Programs]
  /\ memo \in [Requests -> [queue : Seq(Tasks), locked : SUBSET Tasks, on_duty : SUBSET Workers]]

\* what nobody holds has no draft of its own
Clean ==
  /\ \A t \in Tasks : holder[t] = NULL => draft.rows[t] = db.rows[t]
  /\ \A b \in Batches : holder[b] = NULL => draft.batches[b] = db.batches[b]

\* the entries of the index, old and new
Entry(t, u) == HeldBy(draft.rows[t], u) \/ HeldBy(db.rows[t], u)
OneInHand ==
  \A u \in Workers, s, t \in Tasks : s # t =>
    /\ ~ (HeldBy(draft.rows[s], u) /\ HeldBy(draft.rows[t], u))
    /\ ~ (HeldBy(db.rows[s], u) /\ HeldBy(db.rows[t], u))
    /\ Entry(s, u) /\ Entry(t, u) => holder[s] = holder[t] /\ holder[s] # NULL

\* what a transaction does to a row it holds
Over(row) == row.status \in TERMINAL
Enders == {"complete", "complete_claim", "cancel"}
Same(t) == /\ draft.rows[t].claimed_by = db.rows[t].claimed_by
           /\ Over(draft.rows[t]) <=> Over(db.rows[t])
Taken(t, r) ==
  /\ draft.rows[t].status = "CLAIMED"
  /\ prog[r].user \in Workers /\ draft.rows[t].claimed_by = prog[r].user
  /\ db.rows[t].status \in WAITING /\ db.rows[t].claimed_by = NULL
Ended(t, r) ==
  /\ Kind(r) \in Enders /\ t = prog[r].task
  /\ Over(draft.rows[t]) /\ ~Over(db.rows[t])
  /\ draft.rows[t].claimed_by = db.rows[t].claimed_by
Changes ==
  \A t \in Tasks, r \in Requests : holder[t] = r => Same(t) \/ Taken(t, r) \/ Ended(t, r)

\* what a request knows of the rows it has locked, by the statement it is at
Task(r) == prog[r].task
Fresh(r) ==
  \/ Before(r, {"complete", "cancel", "assign"}, {6}) \/ Before(r, {"complete_claim"}, {13})
  \/ Before(r, {"unassign"}, {9}) \/ Before(r, {"run_dispatch"}, {5, 6})
ToEnd(r)   == Before(r, {"complete", "cancel"}, {5}) \/ Before(r, {"complete_claim"}, {12})
ToClaim(r) == Before(r, {"claim_next", "complete_claim"}, {4})
ToAssign(r) == Before(r, {"assign"}, 3 .. 5) \/ Before(r, {"unassign"}, {8})
ToMark(r)   == Before(r, {"claim_next", "complete_claim"}, {3})
ToComplete(r) == Before(r, {"complete", "cancel"}, {2}) \/ Before(r, {"complete_claim"}, {9})
Knows(r) ==
  /\ Fresh(r) => \A x \in Lockable : holder[x] # r
  /\ ToEnd(r) => /\ holder[Task(r)] = r
                 /\ draft.rows[Task(r)] = db.rows[Task(r)]
                 /\ ~Over(draft.rows[Task(r)])
  /\ ToClaim(r) => /\ memo[r].queue # <<>>
                   /\ holder[Head(memo[r].queue)] = r
                   /\ draft.rows[Head(memo[r].queue)].status \in WAITING
  /\ ToAssign(r) => /\ holder[Task(r)] = r
                    /\ draft.rows[Task(r)].status \in WAITING
  /\ ToMark(r) => memo[r].queue # <<>>
  /\ ToComplete(r) => TaskBatch[Task(r)] \in Batches
  /\ Left(r) > 0 => \A t \in memo[r].locked : holder[t] = r
\* a request with nothing to know but which rows it has locked
Idle(r) ==
  /\ ~Fresh(r) /\ ~ToEnd(r) /\ ~ToClaim(r) /\ ~ToAssign(r)
  /\ ToMark(r) => memo[r].queue # <<>>
  /\ ToComplete(r) => TaskBatch[Task(r)] \in Batches

RowsInv == Typed /\ Placed /\ Clean /\ OneInHand /\ Changes /\ \A r \in Requests : Knows(r)

-----------------------------------------------------------------------------
(***************************************************************************)
(* The Pack Notes                                                          *)
(***************************************************************************)
\* the tasks of b are over
Done(v, b) == \A t \in Tasks : TaskBatch[t] = b => Over(v.rows[t])
Settled(v) == \A b \in Batches : v.batches[b] = "COMPLETED" <=> Done(v, b)

Audited(r) == Before(r, {"complete", "cancel"}, 1 .. 3) \/ Before(r, {"complete_claim"}, 1 .. 10)
              \/ Before(r, {"unassign"}, 1 .. 6)
Unbatched(r) == Before(r, {"complete", "cancel"}, 3 .. 6) \/ Before(r, {"complete_claim"}, 10 .. 13)
Counted(r) == Before(r, {"complete", "cancel"}, {1}) \/ Before(r, {"complete_claim"}, 1 .. 8)
BatchKnows(r) ==
  /\ Audited(r) => holder[AUDIT] = r
  /\ Unbatched(r) => \A b \in Batches : holder[b] # r
  /\ ToComplete(r) => /\ Done(View(r), TaskBatch[Task(r)])
                      /\ \A b \in Batches \ {TaskBatch[Task(r)]} :
                           View(r).batches[b] = "COMPLETED" <=> Done(View(r), b)
  /\ Counted(r) => Settled(View(r))
  /\ Kind(r) \notin Enders =>
       \A b \in Batches : holder[b] = r =>
         (draft.batches[b] = "COMPLETED" <=> db.batches[b] = "COMPLETED")
BatchInv == Settled(db) /\ \A r \in Requests : BatchKnows(r)

-----------------------------------------------------------------------------
(***************************************************************************)
(* Who waits for whom                                                      *)
(***************************************************************************)
\* a claim or an end on its way to its audit row
ToAudit(r) ==
  \/ Before(r, {"claim_next"}, {2, 3}) \/ Before(r, {"complete", "cancel"}, {4})
  \/ Before(r, {"complete_claim"}, {11}) \/ Before(r, {"run_dispatch", "assign"}, {2})
  \/ Before(r, {"unassign"}, {7})
Waits(r) ==
  /\ \A b \in Batches : holder[b] = r =>
       holder[AUDIT] = r \/ Before(r, {"claim_next"}, {2})
  /\ \A t \in Tasks : holder[t] = r /\ draft.rows[t] # db.rows[t] =>
       holder[AUDIT] = r \/ ToAudit(r) \/ Kind(r) = "availability"
  /\ Before(r, {"run_dispatch"}, {4}) =>
       /\ \A i, j \in DOMAIN memo[r].queue : i < j => memo[r].queue[i] < memo[r].queue[j]
       /\ \A x \in Lockable : holder[x] = r =>
            x \in Tasks /\ \A i \in DOMAIN memo[r].queue : x < memo[r].queue[i]
WaitsInv == \A r \in Requests : Waits(r)

-----------------------------------------------------------------------------
(* The scripts *)

Kinds == {"claim_next", "complete", "complete_claim", "cancel",
          "run_dispatch", "availability", "assign", "unassign"}

LEMMA Joined ==
  ASSUME NEW s \in Scripts, NEW t \in Scripts, NEW u \in Scripts,
         Len(u) = Len(s) + Len(t),
         \A i \in 1 .. Len(s) : u[i] = s[i],
         \A i \in 1 .. Len(t) : u[Len(s) + i] = t[i]
  PROVE  s \o t = u
<1>1. s \o t \in Scripts /\ Len(s \o t) = Len(u)
  BY ConcatProperties DEF Scripts
<1>2. \A i \in 1 .. Len(u) : (s \o t)[i] = u[i]
  <2> SUFFICES ASSUME NEW i \in 1 .. Len(u) PROVE (s \o t)[i] = u[i]
    OBVIOUS
  <2>1. CASE i <= Len(s)
    BY <2>1, ConcatProperties DEF Scripts
  <2>2. CASE i > Len(s)
    <3>1. i - Len(s) \in 1 .. Len(t) /\ i = Len(s) + (i - Len(s))
      BY <2>2 DEF Scripts
    <3> QED BY <2>2, <3>1, ConcatProperties DEF Scripts
  <2> QED BY <2>1, <2>2 DEF Scripts
<1> QED BY <1>1, <1>2, SeqEqual DEF Scripts

LEMMA Claiming1 == ClaimNext \o <<"commit">> = <<"get_current_task", "availability", "candidates", "lock_candidate", "claim", "batch_in_progress", "audit", "commit">>
<1> DEFINE s == ClaimNext
           t == <<"commit">>
           u == <<"get_current_task", "availability", "candidates", "lock_candidate", "claim", "batch_in_progress", "audit", "commit">>
<1>1. s \in Scripts /\ t \in Scripts /\ u \in Scripts
  BY DEF Scripts, StatementNames, ClaimNext
<1>2. Len(s) = 7 /\ Len(t) = 1 /\ Len(u) = 8
  BY DEF ClaimNext
<1>3. \A i \in 1 .. Len(s) : u[i] = s[i]
  BY <1>2 DEF ClaimNext
<1>4. \A i \in 1 .. Len(t) : u[Len(s) + i] = t[i]
  BY <1>2 DEF Scripts
<1>5. Len(u) = Len(s) + Len(t)
  BY <1>2
<1> HIDE DEF s, t, u
<1>6. s \o t = u
  BY <1>1, <1>3, <1>4, <1>5, Joined
<1> QED
  BY <1>6 DEF s, t, u

LEMMA Ending1 == Transition \o <<"commit">> = <<"task_for_update", "end", "audit", "count_remaining", "batch_completed", "commit">>
<1> DEFINE s == Transition
           t == <<"commit">>
           u == <<"task_for_update", "end", "audit", "count_remaining", "batch_completed", "commit">>
<1>1. s \in Scripts /\ t \in Scripts /\ u \in Scripts
  BY DEF Scripts, StatementNames, Transition
<1>2. Len(s) = 5 /\ Len(t) = 1 /\ Len(u) = 6
  BY DEF Transition
<1>3. \A i \in 1 .. Len(s) : u[i] = s[i]
  BY <1>2 DEF Transition
<1>4. \A i \in 1 .. Len(t) : u[Len(s) + i] = t[i]
  BY <1>2 DEF Scripts
<1>5. Len(u) = Len(s) + Len(t)
  BY <1>2
<1> HIDE DEF s, t, u
<1>6. s \o t = u
  BY <1>1, <1>3, <1>4, <1>5, Joined
<1> QED
  BY <1>6 DEF s, t, u

LEMMA EndingClaiming1 == Transition \o ClaimNext = <<"task_for_update", "end", "audit", "count_remaining", "batch_completed", "get_current_task", "availability", "candidates", "lock_candidate", "claim", "batch_in_progress", "audit">>
<1> DEFINE s == Transition
           t == ClaimNext
           u == <<"task_for_update", "end", "audit", "count_remaining", "batch_completed", "get_current_task", "availability", "candidates", "lock_candidate", "claim", "batch_in_progress", "audit">>
<1>1. s \in Scripts /\ t \in Scripts /\ u \in Scripts
  BY DEF Scripts, StatementNames, Transition, ClaimNext
<1>2. Len(s) = 5 /\ Len(t) = 7 /\ Len(u) = 12
  BY DEF Transition, ClaimNext
<1>3. \A i \in 1 .. Len(s) : u[i] = s[i]
  BY <1>2 DEF Transition
<1>4. \A i \in 1 .. Len(t) : u[Len(s) + i] = t[i]
  BY <1>2 DEF ClaimNext
<1>5. Len(u) = Len(s) + Len(t)
  BY <1>2
<1> HIDE DEF s, t, u
<1>6. s \o t = u
  BY <1>1, <1>3, <1>4, <1>5, Joined
<1> QED
  BY <1>6 DEF s, t, u

LEMMA EndingClaiming2 == <<"task_for_update", "end", "audit", "count_remaining", "batch_completed", "get_current_task", "availability", "candidates", "lock_candidate", "claim", "batch_in_progress", "audit">> \o <<"commit">> = <<"task_for_update", "end", "audit", "count_remaining", "batch_completed", "get_current_task", "availability", "candidates", "lock_candidate", "claim", "batch_in_progress", "audit", "commit">>
<1> DEFINE s == <<"task_for_update", "end", "audit", "count_remaining", "batch_completed", "get_current_task", "availability", "candidates", "lock_candidate", "claim", "batch_in_progress", "audit">>
           t == <<"commit">>
           u == <<"task_for_update", "end", "audit", "count_remaining", "batch_completed", "get_current_task", "availability", "candidates", "lock_candidate", "claim", "batch_in_progress", "audit", "commit">>
<1>1. s \in Scripts /\ t \in Scripts /\ u \in Scripts
  BY DEF Scripts, StatementNames
<1>2. Len(s) = 12 /\ Len(t) = 1 /\ Len(u) = 13
  BY DEF Scripts
<1>3. \A i \in 1 .. Len(s) : u[i] = s[i]
  BY <1>2 DEF Scripts
<1>4. \A i \in 1 .. Len(t) : u[Len(s) + i] = t[i]
  BY <1>2 DEF Scripts
<1>5. Len(u) = Len(s) + Len(t)
  BY <1>2
<1> HIDE DEF s, t, u
<1>6. s \o t = u
  BY <1>1, <1>3, <1>4, <1>5, Joined
<1> QED
  BY <1>6 DEF s, t, u

LEMMA Dispatching1 == AutoDispatch \o <<"commit">> = <<"eligible_workers", "open_tasks", "lock_rows", "auto_assign", "audit", "commit">>
<1> DEFINE s == AutoDispatch
           t == <<"commit">>
           u == <<"eligible_workers", "open_tasks", "lock_rows", "auto_assign", "audit", "commit">>
<1>1. s \in Scripts /\ t \in Scripts /\ u \in Scripts
  BY DEF Scripts, StatementNames, AutoDispatch
<1>2. Len(s) = 5 /\ Len(t) = 1 /\ Len(u) = 6
  BY DEF AutoDispatch
<1>3. \A i \in 1 .. Len(s) : u[i] = s[i]
  BY <1>2 DEF AutoDispatch
<1>4. \A i \in 1 .. Len(t) : u[Len(s) + i] = t[i]
  BY <1>2 DEF Scripts
<1>5. Len(u) = Len(s) + Len(t)
  BY <1>2
<1> HIDE DEF s, t, u
<1>6. s \o t = u
  BY <1>1, <1>3, <1>4, <1>5, Joined
<1> QED
  BY <1>6 DEF s, t, u

LEMMA Availability1 == <<"upsert_status", "assigned_tasks", "lock_rows", "release", "audit">> \o AutoDispatch = <<"upsert_status", "assigned_tasks", "lock_rows", "release", "audit", "eligible_workers", "open_tasks", "lock_rows", "auto_assign", "audit">>
<1> DEFINE s == <<"upsert_status", "assigned_tasks", "lock_rows", "release", "audit">>
           t == AutoDispatch
           u == <<"upsert_status", "assigned_tasks", "lock_rows", "release", "audit", "eligible_workers", "open_tasks", "lock_rows", "auto_assign", "audit">>
<1>1. s \in Scripts /\ t \in Scripts /\ u \in Scripts
  BY DEF Scripts, StatementNames, AutoDispatch
<1>2. Len(s) = 5 /\ Len(t) = 5 /\ Len(u) = 10
  BY DEF AutoDispatch
<1>3. \A i \in 1 .. Len(s) : u[i] = s[i]
  BY <1>2 DEF Scripts
<1>4. \A i \in 1 .. Len(t) : u[Len(s) + i] = t[i]
  BY <1>2 DEF AutoDispatch
<1>5. Len(u) = Len(s) + Len(t)
  BY <1>2
<1> HIDE DEF s, t, u
<1>6. s \o t = u
  BY <1>1, <1>3, <1>4, <1>5, Joined
<1> QED
  BY <1>6 DEF s, t, u

LEMMA Availability2 == <<"upsert_status", "assigned_tasks", "lock_rows", "release", "audit", "eligible_workers", "open_tasks", "lock_rows", "auto_assign", "audit">> \o <<"commit">> = <<"upsert_status", "assigned_tasks", "lock_rows", "release", "audit", "eligible_workers", "open_tasks", "lock_rows", "auto_assign", "audit", "commit">>
<1> DEFINE s == <<"upsert_status", "assigned_tasks", "lock_rows", "release", "audit", "eligible_workers", "open_tasks", "lock_rows", "auto_assign", "audit">>
           t == <<"commit">>
           u == <<"upsert_status", "assigned_tasks", "lock_rows", "release", "audit", "eligible_workers", "open_tasks", "lock_rows", "auto_assign", "audit", "commit">>
<1>1. s \in Scripts /\ t \in Scripts /\ u \in Scripts
  BY DEF Scripts, StatementNames
<1>2. Len(s) = 10 /\ Len(t) = 1 /\ Len(u) = 11
  BY DEF Scripts
<1>3. \A i \in 1 .. Len(s) : u[i] = s[i]
  BY <1>2 DEF Scripts
<1>4. \A i \in 1 .. Len(t) : u[Len(s) + i] = t[i]
  BY <1>2 DEF Scripts
<1>5. Len(u) = Len(s) + Len(t)
  BY <1>2
<1> HIDE DEF s, t, u
<1>6. s \o t = u
  BY <1>1, <1>3, <1>4, <1>5, Joined
<1> QED
  BY <1>6 DEF s, t, u

LEMMA Returning1 == <<"task_for_update", "assign", "audit">> \o AutoDispatch = <<"task_for_update", "assign", "audit", "eligible_workers", "open_tasks", "lock_rows", "auto_assign", "audit">>
<1> DEFINE s == <<"task_for_update", "assign", "audit">>
           t == AutoDispatch
           u == <<"task_for_update", "assign", "audit", "eligible_workers", "open_tasks", "lock_rows", "auto_assign", "audit">>
<1>1. s \in Scripts /\ t \in Scripts /\ u \in Scripts
  BY DEF Scripts, StatementNames, AutoDispatch
<1>2. Len(s) = 3 /\ Len(t) = 5 /\ Len(u) = 8
  BY DEF AutoDispatch
<1>3. \A i \in 1 .. Len(s) : u[i] = s[i]
  BY <1>2 DEF Scripts
<1>4. \A i \in 1 .. Len(t) : u[Len(s) + i] = t[i]
  BY <1>2 DEF AutoDispatch
<1>5. Len(u) = Len(s) + Len(t)
  BY <1>2
<1> HIDE DEF s, t, u
<1>6. s \o t = u
  BY <1>1, <1>3, <1>4, <1>5, Joined
<1> QED
  BY <1>6 DEF s, t, u

LEMMA Returning2 == <<"task_for_update", "assign", "audit", "eligible_workers", "open_tasks", "lock_rows", "auto_assign", "audit">> \o <<"commit">> = <<"task_for_update", "assign", "audit", "eligible_workers", "open_tasks", "lock_rows", "auto_assign", "audit", "commit">>
<1> DEFINE s == <<"task_for_update", "assign", "audit", "eligible_workers", "open_tasks", "lock_rows", "auto_assign", "audit">>
           t == <<"commit">>
           u == <<"task_for_update", "assign", "audit", "eligible_workers", "open_tasks", "lock_rows", "auto_assign", "audit", "commit">>
<1>1. s \in Scripts /\ t \in Scripts /\ u \in Scripts
  BY DEF Scripts, StatementNames
<1>2. Len(s) = 8 /\ Len(t) = 1 /\ Len(u) = 9
  BY DEF Scripts
<1>3. \A i \in 1 .. Len(s) : u[i] = s[i]
  BY <1>2 DEF Scripts
<1>4. \A i \in 1 .. Len(t) : u[Len(s) + i] = t[i]
  BY <1>2 DEF Scripts
<1>5. Len(u) = Len(s) + Len(t)
  BY <1>2
<1> HIDE DEF s, t, u
<1>6. s \o t = u
  BY <1>1, <1>3, <1>4, <1>5, Joined
<1> QED
  BY <1>6 DEF s, t, u

LEMMA ScriptIs ==
  ASSUME NEW p \in Programs
  PROVE  Statements(p) = Script(p.kind)
<1>1. p.kind \in Kinds
  BY ProgramsAssumption DEF Kinds
<1>2. CASE p.kind = "claim_next"
  BY <1>2, Claiming1 DEF Statements, Script
<1>3. CASE p.kind \in {"complete", "cancel"}
  BY <1>3, Ending1 DEF Statements, Script
<1>4. CASE p.kind = "complete_claim"
  BY <1>4, EndingClaiming1, EndingClaiming2 DEF Statements, Script
<1>5. CASE p.kind = "run_dispatch"
  BY <1>5, Dispatching1 DEF Statements, Script
<1>6. CASE p.kind = "availability"
  BY <1>6, Availability1, Availability2 DEF Statements, Script
<1>7. CASE p.kind = "assign"
  BY <1>7 DEF Statements, Script
<1>8. CASE p.kind = "unassign"
  BY <1>8, Returning1, Returning2 DEF Statements, Script
<1> QED BY <1>1, <1>2, <1>3, <1>4, <1>5, <1>6, <1>7, <1>8 DEF Kinds

LEMMA ScriptType ==
  ASSUME NEW k \in Kinds
  PROVE  Script(k) \in Scripts /\ Length(k) \in 6 .. 13 /\ Len(Script(k)) = Length(k)
         /\ Script(k)[Length(k)] = "commit"
<1>1. CASE k = "claim_next"
  BY <1>1 DEF Script, Length, Scripts, StatementNames
<1>2. CASE k = "complete"
  BY <1>2 DEF Script, Length, Scripts, StatementNames
<1>3. CASE k = "complete_claim"
  BY <1>3 DEF Script, Length, Scripts, StatementNames
<1>4. CASE k = "cancel"
  BY <1>4 DEF Script, Length, Scripts, StatementNames
<1>5. CASE k = "run_dispatch"
  BY <1>5 DEF Script, Length, Scripts, StatementNames
<1>6. CASE k = "availability"
  BY <1>6 DEF Script, Length, Scripts, StatementNames
<1>7. CASE k = "assign"
  BY <1>7 DEF Script, Length, Scripts, StatementNames
<1>8. CASE k = "unassign"
  BY <1>8 DEF Script, Length, Scripts, StatementNames
<1> QED BY <1>1, <1>2, <1>3, <1>4, <1>5, <1>6, <1>7, <1>8 DEF Kinds

\* where on a script a statement stands, counted from the end
LEMMA ScriptPlaces ==
  ASSUME NEW k \in Kinds, NEW n \in 1 .. Length(k)
  PROVE  LET s == Script(k)[Length(k) - n + 1] IN
    /\ s = "get_current_task" =>
         \/ k \in {"claim_next", "complete_claim"} /\ n \in {8}
    /\ s = "availability" =>
         \/ k \in {"claim_next", "complete_claim"} /\ n \in {7}
    /\ s = "candidates" =>
         \/ k \in {"claim_next", "complete_claim"} /\ n \in {6}
    /\ s = "lock_candidate" =>
         \/ k \in {"claim_next", "complete_claim"} /\ n \in {5}
    /\ s = "claim" =>
         \/ k \in {"claim_next", "complete_claim"} /\ n \in {4}
    /\ s = "batch_in_progress" =>
         \/ k \in {"claim_next", "complete_claim"} /\ n \in {3}
    /\ s = "audit" =>
         \/ k \in {"claim_next", "run_dispatch", "assign"} /\ n \in {2}
         \/ k \in {"complete", "cancel"} /\ n \in {4}
         \/ k \in {"complete_claim"} /\ n \in {2, 11}
         \/ k \in {"availability", "unassign"} /\ n \in {2, 7}
    /\ s = "commit" =>
         \/ n = 1
    /\ s = "task_for_update" =>
         \/ k \in {"complete", "cancel", "assign"} /\ n \in {6}
         \/ k \in {"complete_claim"} /\ n \in {13}
         \/ k \in {"unassign"} /\ n \in {9}
    /\ s = "end" =>
         \/ k \in {"complete", "cancel"} /\ n \in {5}
         \/ k \in {"complete_claim"} /\ n \in {12}
    /\ s = "count_remaining" =>
         \/ k \in {"complete", "cancel"} /\ n \in {3}
         \/ k \in {"complete_claim"} /\ n \in {10}
    /\ s = "batch_completed" =>
         \/ k \in {"complete", "cancel"} /\ n \in {2}
         \/ k \in {"complete_claim"} /\ n \in {9}
    /\ s = "eligible_workers" =>
         \/ k \in {"run_dispatch", "availability", "unassign"} /\ n \in {6}
    /\ s = "open_tasks" =>
         \/ k \in {"run_dispatch", "availability", "unassign"} /\ n \in {5}
    /\ s = "lock_rows" =>
         \/ k \in {"run_dispatch", "unassign"} /\ n \in {4}
         \/ k \in {"availability"} /\ n \in {4, 9}
    /\ s = "auto_assign" =>
         \/ k \in {"run_dispatch", "availability", "unassign"} /\ n \in {3}
    /\ s = "upsert_status" =>
         \/ k \in {"availability"} /\ n \in {11}
    /\ s = "assigned_tasks" =>
         \/ k \in {"availability"} /\ n \in {10}
    /\ s = "release" =>
         \/ k \in {"availability"} /\ n \in {8}
    /\ s = "eligible" =>
         \/ k \in {"assign"} /\ n \in {5}
    /\ s = "counterpart" =>
         \/ k \in {"assign"} /\ n \in {4}
    /\ s = "assign" =>
         \/ k \in {"assign"} /\ n \in {3}
         \/ k \in {"unassign"} /\ n \in {8}
<1>1. CASE k = "claim_next"
  BY <1>1 DEF Script, Length
<1>2. CASE k = "complete"
  BY <1>2 DEF Script, Length
<1>3. CASE k = "complete_claim"
  BY <1>3 DEF Script, Length
<1>4. CASE k = "cancel"
  BY <1>4 DEF Script, Length
<1>5. CASE k = "run_dispatch"
  BY <1>5 DEF Script, Length
<1>6. CASE k = "availability"
  BY <1>6 DEF Script, Length
<1>7. CASE k = "assign"
  BY <1>7 DEF Script, Length
<1>8. CASE k = "unassign"
  BY <1>8 DEF Script, Length
<1> QED BY <1>1, <1>2, <1>3, <1>4, <1>5, <1>6, <1>7, <1>8 DEF Kinds

LEMMA KindIs ==
  ASSUME prog \in [Requests -> Programs], NEW r \in Requests
  PROVE  prog[r] \in Programs /\ Kind(r) \in Kinds
  BY ProgramsAssumption DEF Kind, Kinds

LEMMA HeadIs ==
  ASSUME prog \in [Requests -> Programs], Placed, NEW r \in Requests, todo[r] # <<>>
  PROVE  /\ Left(r) \in 1 .. Length(Kind(r))
         /\ Head(todo[r]) = Script(Kind(r))[Length(Kind(r)) - Left(r) + 1]
<1>1. todo[r] \in Scripts /\ Len(todo[r]) \in Nat \ {0}
  BY EmptySeq DEF Placed, OnScript, Scripts
<1>2. Head(todo[r]) = todo[r][1]
  BY <1>1 DEF Scripts
<1>3. Length(Kind(r)) \in Nat
  BY KindIs, ScriptType
<1>4. Len(todo[r]) <= Length(Kind(r))
  BY DEF Placed, OnScript
<1>5. todo[r][1] = Script(Kind(r))[Length(Kind(r)) - Len(todo[r]) + 1]
  BY <1>1 DEF Placed, OnScript
<1> QED BY <1>1, <1>2, <1>3, <1>4, <1>5 DEF Left

\* where a request is when it is at a statement
LEMMA Places ==
  ASSUME prog \in [Requests -> Programs], Placed, NEW r \in Requests
  PROVE
    /\ At(r, "get_current_task") =>
         \/ Before(r, {"claim_next", "complete_claim"}, {8})
    /\ At(r, "availability") =>
         \/ Before(r, {"claim_next", "complete_claim"}, {7})
    /\ At(r, "candidates") =>
         \/ Before(r, {"claim_next", "complete_claim"}, {6})
    /\ At(r, "lock_candidate") =>
         \/ Before(r, {"claim_next", "complete_claim"}, {5})
    /\ At(r, "claim") =>
         \/ Before(r, {"claim_next", "complete_claim"}, {4})
    /\ At(r, "batch_in_progress") =>
         \/ Before(r, {"claim_next", "complete_claim"}, {3})
    /\ At(r, "audit") =>
         \/ Before(r, {"claim_next", "run_dispatch", "assign"}, {2})
         \/ Before(r, {"complete", "cancel"}, {4})
         \/ Before(r, {"complete_claim"}, {2, 11})
         \/ Before(r, {"availability", "unassign"}, {2, 7})
    /\ At(r, "commit") =>
         \/ Left(r) = 1
    /\ At(r, "task_for_update") =>
         \/ Before(r, {"complete", "cancel", "assign"}, {6})
         \/ Before(r, {"complete_claim"}, {13})
         \/ Before(r, {"unassign"}, {9})
    /\ At(r, "end") =>
         \/ Before(r, {"complete", "cancel"}, {5})
         \/ Before(r, {"complete_claim"}, {12})
    /\ At(r, "count_remaining") =>
         \/ Before(r, {"complete", "cancel"}, {3})
         \/ Before(r, {"complete_claim"}, {10})
    /\ At(r, "batch_completed") =>
         \/ Before(r, {"complete", "cancel"}, {2})
         \/ Before(r, {"complete_claim"}, {9})
    /\ At(r, "eligible_workers") =>
         \/ Before(r, {"run_dispatch", "availability", "unassign"}, {6})
    /\ At(r, "open_tasks") =>
         \/ Before(r, {"run_dispatch", "availability", "unassign"}, {5})
    /\ At(r, "lock_rows") =>
         \/ Before(r, {"run_dispatch", "unassign"}, {4})
         \/ Before(r, {"availability"}, {4, 9})
    /\ At(r, "auto_assign") =>
         \/ Before(r, {"run_dispatch", "availability", "unassign"}, {3})
    /\ At(r, "upsert_status") =>
         \/ Before(r, {"availability"}, {11})
    /\ At(r, "assigned_tasks") =>
         \/ Before(r, {"availability"}, {10})
    /\ At(r, "release") =>
         \/ Before(r, {"availability"}, {8})
    /\ At(r, "eligible") =>
         \/ Before(r, {"assign"}, {5})
    /\ At(r, "counterpart") =>
         \/ Before(r, {"assign"}, {4})
    /\ At(r, "assign") =>
         \/ Before(r, {"assign"}, {3})
         \/ Before(r, {"unassign"}, {8})
<1> SUFFICES ASSUME todo[r] # <<>> PROVE
    /\ Head(todo[r]) = "get_current_task" =>
         \/ Before(r, {"claim_next", "complete_claim"}, {8})
    /\ Head(todo[r]) = "availability" =>
         \/ Before(r, {"claim_next", "complete_claim"}, {7})
    /\ Head(todo[r]) = "candidates" =>
         \/ Before(r, {"claim_next", "complete_claim"}, {6})
    /\ Head(todo[r]) = "lock_candidate" =>
         \/ Before(r, {"claim_next", "complete_claim"}, {5})
    /\ Head(todo[r]) = "claim" =>
         \/ Before(r, {"claim_next", "complete_claim"}, {4})
    /\ Head(todo[r]) = "batch_in_progress" =>
         \/ Before(r, {"claim_next", "complete_claim"}, {3})
    /\ Head(todo[r]) = "audit" =>
         \/ Before(r, {"claim_next", "run_dispatch", "assign"}, {2})
         \/ Before(r, {"complete", "cancel"}, {4})
         \/ Before(r, {"complete_claim"}, {2, 11})
         \/ Before(r, {"availability", "unassign"}, {2, 7})
    /\ Head(todo[r]) = "commit" =>
         \/ Left(r) = 1
    /\ Head(todo[r]) = "task_for_update" =>
         \/ Before(r, {"complete", "cancel", "assign"}, {6})
         \/ Before(r, {"complete_claim"}, {13})
         \/ Before(r, {"unassign"}, {9})
    /\ Head(todo[r]) = "end" =>
         \/ Before(r, {"complete", "cancel"}, {5})
         \/ Before(r, {"complete_claim"}, {12})
    /\ Head(todo[r]) = "count_remaining" =>
         \/ Before(r, {"complete", "cancel"}, {3})
         \/ Before(r, {"complete_claim"}, {10})
    /\ Head(todo[r]) = "batch_completed" =>
         \/ Before(r, {"complete", "cancel"}, {2})
         \/ Before(r, {"complete_claim"}, {9})
    /\ Head(todo[r]) = "eligible_workers" =>
         \/ Before(r, {"run_dispatch", "availability", "unassign"}, {6})
    /\ Head(todo[r]) = "open_tasks" =>
         \/ Before(r, {"run_dispatch", "availability", "unassign"}, {5})
    /\ Head(todo[r]) = "lock_rows" =>
         \/ Before(r, {"run_dispatch", "unassign"}, {4})
         \/ Before(r, {"availability"}, {4, 9})
    /\ Head(todo[r]) = "auto_assign" =>
         \/ Before(r, {"run_dispatch", "availability", "unassign"}, {3})
    /\ Head(todo[r]) = "upsert_status" =>
         \/ Before(r, {"availability"}, {11})
    /\ Head(todo[r]) = "assigned_tasks" =>
         \/ Before(r, {"availability"}, {10})
    /\ Head(todo[r]) = "release" =>
         \/ Before(r, {"availability"}, {8})
    /\ Head(todo[r]) = "eligible" =>
         \/ Before(r, {"assign"}, {5})
    /\ Head(todo[r]) = "counterpart" =>
         \/ Before(r, {"assign"}, {4})
    /\ Head(todo[r]) = "assign" =>
         \/ Before(r, {"assign"}, {3})
         \/ Before(r, {"unassign"}, {8})
  BY DEF At
<1>1. Left(r) \in 1 .. Length(Kind(r)) /\ Kind(r) \in Kinds
  BY HeadIs, KindIs
<1>2. Head(todo[r]) = Script(Kind(r))[Length(Kind(r)) - Left(r) + 1]
  BY HeadIs
<1> QED BY <1>1, <1>2, ScriptPlaces DEF Before

\* the rest of a script is on the script
LEMMA TailOnScript ==
  ASSUME NEW k \in Kinds, NEW s, OnScript(k, s), s # <<>>
  PROVE  OnScript(k, Tail(s)) /\ Len(Tail(s)) = Len(s) - 1
<1>1. /\ s \in Scripts /\ Tail(s) \in Scripts
      /\ Len(Tail(s)) = Len(s) - 1 /\ Len(s) \in Nat
      /\ \A i \in 1 .. Len(Tail(s)) : Tail(s)[i] = s[i + 1]
  BY HeadTailProperties DEF OnScript, Scripts
<1>2. Length(k) \in Nat
  BY ScriptType
<1>3. \A i \in 1 .. Len(Tail(s)) :
        Tail(s)[i] = Script(k)[Length(k) - Len(Tail(s)) + i]
  <2> SUFFICES ASSUME NEW i \in 1 .. Len(Tail(s))
               PROVE  Tail(s)[i] = Script(k)[Length(k) - Len(Tail(s)) + i]
    OBVIOUS
  <2>1. i + 1 \in 1 .. Len(s)
    BY <1>1
  <2>2. s[i + 1] = Script(k)[Length(k) - Len(s) + (i + 1)]
    BY <2>1 DEF OnScript
  <2>3. Length(k) - Len(s) + (i + 1) = Length(k) - Len(Tail(s)) + i
    BY <1>1, <1>2
  <2> QED BY <1>1, <2>2, <2>3
<1> QED BY <1>1, <1>2, <1>3 DEF OnScript

LEMMA EndsOnScript ==
  ASSUME NEW k \in Kinds
  PROVE  /\ OnScript(k, <<"commit">>) /\ Len(<<"commit">>) = 1
         /\ OnScript(k, <<>>) /\ Len(<<>>) = 0
         /\ OnScript(k, Script(k))
  BY ScriptType, EmptySeq DEF OnScript, Scripts, StatementNames

LEMMA Moves ==
  ASSUME prog \in [Requests -> Programs], Placed, NEW r \in Requests, UNCHANGED prog
  PROVE  /\ Proceed(r) /\ todo[r] # <<>> => Placed' /\ Left(r)' = Left(r) - 1
         /\ Skip(r) /\ todo[r] # <<>> /\ Left(r) >= 2 => Placed' /\ Left(r)' = Left(r) - 2
         /\ Commit(r) => Placed' /\ Left(r)' = 1
         /\ Goto(r, <<>>) => Placed' /\ Left(r)' = 0
         /\ \A s : Goto(r, s) => \A q \in Requests \ {r} : Left(q)' = Left(q)
         /\ \A q \in Requests : Kind(q)' = Kind(q)
<1>1. Kind(r) \in Kinds /\ \A q \in Requests : Kind(q)' = Kind(q)
  BY KindIs DEF Kind
<1>2. ASSUME NEW s, OnScript(Kind(r), s), Goto(r, s)
      PROVE  Placed' /\ Left(r)' = Len(s)
  <2>1. /\ todo' = [q \in Requests |-> todo'[q]]
        /\ todo'[r] = s /\ \A q \in Requests \ {r} : todo'[q] = todo[q]
    BY <1>2 DEF Placed, Goto
  <2>2. \A q \in Requests : OnScript(Kind(q), todo'[q])
    BY <1>2, <2>1 DEF Placed
  <2>3. \A q \in Requests : OnScript(Kind(q), todo[q])'
    BY <1>1, <2>2 DEF OnScript
  <2> QED BY <2>1, <2>3 DEF Placed, Left
<1>3. OnScript(Kind(r), todo[r])
  BY DEF Placed
<1>4. ASSUME Proceed(r), todo[r] # <<>>
      PROVE  Placed' /\ Left(r)' = Left(r) - 1
  <2> DEFINE s == Tail(todo[r])
  <2>1. OnScript(Kind(r), s) /\ Len(s) = Left(r) - 1 /\ Goto(r, s)
    BY <1>1, <1>3, <1>4, TailOnScript DEF Left, Proceed
  <2> HIDE DEF s
  <2>2. Placed' /\ Left(r)' = Len(s)
    BY <1>2, <2>1
  <2> QED BY <2>1, <2>2
<1>5. ASSUME Skip(r), todo[r] # <<>>, Left(r) >= 2
      PROVE  Placed' /\ Left(r)' = Left(r) - 2
  <2> DEFINE s == Tail(todo[r])
           t == Tail(s)
  <2>1. OnScript(Kind(r), s) /\ Len(s) = Left(r) - 1 /\ Goto(r, t)
    BY <1>1, <1>3, <1>5, TailOnScript DEF Left, Skip
  <2>2. Left(r) \in Nat
    BY <1>3 DEF Left, OnScript, Scripts
  <2> HIDE DEF s
  <2>3. s # <<>>
    BY <1>1, <1>5, <2>1, <2>2, EndsOnScript
  <2>4. OnScript(Kind(r), t) /\ Len(t) = Left(r) - 2
    BY <1>1, <2>1, <2>2, <2>3, TailOnScript
  <2> HIDE DEF t
  <2>5. Placed' /\ Left(r)' = Len(t)
    BY <1>2, <2>1, <2>4
  <2> QED BY <2>4, <2>5
<1>6. Commit(r) => Placed' /\ Left(r)' = 1
  BY <1>1, <1>2, EndsOnScript DEF Commit
<1>7. Goto(r, <<>>) => Placed' /\ Left(r)' = 0
  BY <1>1, <1>2, EndsOnScript
<1>8. \A s : Goto(r, s) => \A q \in Requests \ {r} : Left(q)' = Left(q)
  BY DEF Goto, Left, Placed
<1> QED BY <1>1, <1>4, <1>5, <1>6, <1>7, <1>8

LEMMA PlacedInit == Init => Placed
<1> SUFFICES ASSUME Init PROVE Placed
  OBVIOUS
<1>1. prog \in [Requests -> Programs] /\ todo = [r \in Requests |-> Statements(prog[r])]
  BY DEF Init
<1>2. \A r \in Requests : todo[r] = Script(Kind(r))
  BY <1>1, ScriptIs DEF Kind
<1> QED BY <1>1, <1>2, KindIs, EndsOnScript DEF Placed

-----------------------------------------------------------------------------
(***************************************************************************)
(* What a step of one request leaves alone                                 *)
(***************************************************************************)
LEMMA LockableParts ==
  /\ Tasks \subseteq Lockable /\ Batches \subseteq Lockable /\ Workers \subseteq Lockable
  /\ AUDIT \in Lockable
  /\ \A t \in Tasks : t \notin Batches /\ t \notin Workers /\ t # AUDIT
  /\ \A b \in Batches : b \notin Workers /\ b # AUDIT
  /\ AUDIT \notin Workers
  /\ \A r \in Requests : r # NULL
  /\ \A w \in Workers : w # NULL
  BY NamesAssumption DEF Lockable

LEMMA OthersFree ==
  ASSUME Typed, NEW r \in Requests, NEW x \in Lockable
  PROVE  Others(r, x) = {} <=> holder[x] \in {r, NULL}
  BY DEF Others

LEMMA ViewIs ==
  ASSUME Typed, NEW r \in Requests
  PROVE  /\ View(r) \in Tables
         /\ \A t \in Tasks : View(r).rows[t] = IF holder[t] = r THEN draft.rows[t] ELSE db.rows[t]
         /\ \A b \in Batches :
              View(r).batches[b] = IF holder[b] = r THEN draft.batches[b] ELSE db.batches[b]
  BY DEF Typed, View, Tables

\* the part of RowsInv that is about rows and locks
RowData == Clean /\ OneInHand /\ Changes

\* r is the only request that moves
Alone(r) ==
  /\ UNCHANGED prog
  /\ Placed'
  /\ \A q \in Requests \ {r} : Left(q)' = Left(q) /\ memo'[q] = memo[q]
  /\ \A q \in Requests : Kind(q)' = Kind(q)

\* what the others hold stays as it is
Apart(r) ==
  /\ \A x \in Lockable, q \in Requests \ {r} : holder'[x] = q <=> holder[x] = q
  /\ \A t \in Tasks : holder[t] \notin {r, NULL} =>
       draft'.rows[t] = draft.rows[t] /\ db'.rows[t] = db.rows[t]

LEMMA OthersKnow ==
  ASSUME RowsInv, NEW r \in Requests, Alone(r), Apart(r), NEW q \in Requests \ {r}
  PROVE  Knows(q)'
<1> DEFINE h == Head(memo[q].queue)
<1>1. /\ Left(q)' = Left(q) /\ Kind(q)' = Kind(q) /\ memo'[q] = memo[q] /\ Task(q)' = Task(q)
      /\ prog[q] \in Programs /\ prog[q]' = prog[q]
  BY DEF Alone, Task, RowsInv, Typed
<1>2. \A t \in Tasks : holder[t] = q =>
        holder'[t] = q /\ draft'.rows[t] = draft.rows[t] /\ db'.rows[t] = db.rows[t]
  BY LockableParts DEF Apart
<1>3. Fresh(q)' => \A x \in Lockable : holder'[x] # q
  BY <1>1 DEF Fresh, Before, Apart, Knows, RowsInv
<1>4. ToEnd(q)' => /\ holder'[Task(q)] = q
                   /\ draft'.rows[Task(q)] = db'.rows[Task(q)]
                   /\ ~Over(draft'.rows[Task(q)])
  <2>1. ToEnd(q)' => ToEnd(q) /\ Task(q) \in Tasks
    BY <1>1, ProgramsAssumption DEF ToEnd, Before, Kind, Task
  <2> QED BY <1>2, <2>1 DEF Knows, RowsInv, Over
<1>5. ToClaim(q)' => /\ memo'[q].queue # <<>>
                     /\ holder'[h] = q
                     /\ draft'.rows[h].status \in WAITING
  <2>1. ToClaim(q)' => ToClaim(q)
    BY <1>1 DEF ToClaim, Before
  <2>2. memo[q].queue \in Seq(Tasks)
    BY DEF RowsInv, Typed
  <2>3. memo[q].queue # <<>> => h \in Tasks
    BY <2>2
  <2> QED BY <1>1, <1>2, <2>1, <2>3 DEF Knows, RowsInv
<1>6. ToAssign(q)' => /\ holder'[Task(q)] = q
                      /\ draft'.rows[Task(q)].status \in WAITING
  <2>1. ToAssign(q)' => ToAssign(q) /\ Task(q) \in Tasks
    BY <1>1, ProgramsAssumption DEF ToAssign, ToMark, ToComplete, Before, Kind, Task
  <2> QED BY <1>2, <2>1 DEF Knows, RowsInv
<1>9. ToMark(q)' => memo'[q].queue # <<>>
  BY <1>1 DEF ToMark, Before, Knows, RowsInv
<1>10. ToComplete(q)' => TaskBatch[Task(q)] \in Batches
  BY <1>1 DEF ToComplete, Before, Knows, RowsInv
<1>7. Left(q)' > 0 => \A t \in memo'[q].locked : holder'[t] = q
  <2>1. \A t \in memo[q].locked : t \in Tasks
    BY DEF RowsInv, Typed
  <2> QED BY <1>1, <1>2, <2>1 DEF Knows, RowsInv
<1>8. (Task(q) = Task(q)') /\ h' = h
  BY <1>1
<1> QED BY <1>1, <1>3, <1>4, <1>5, <1>6, <1>7, <1>8, <1>9, <1>10 DEF Knows, Over

TypedRows == db \in Tables /\ draft \in Tables /\ holder \in [Lockable -> Requests \cup {NULL}]

\* rows that nobody else holds, and that keep their entries in the index
LEMMA LockData ==
  ASSUME RowsInv, NEW r \in Requests, NEW x \in Lockable, holder[x] \in {r, NULL},
         Lock(r, x), UNCHANGED <<db, draft, prog>>
  PROVE  RowData' /\ Apart(r) /\ TypedRows'
<1>1. /\ holder' \in [Lockable -> Requests \cup {NULL}]
      /\ holder'[x] = r
      /\ \A y \in Lockable \ {x} : holder'[y] = holder[y]
  BY DEF Lock, RowsInv, Typed
<1>2. Clean'
  BY <1>1, LockableParts DEF RowsInv, Clean
<1>3. OneInHand'
  <2> SUFFICES ASSUME NEW u \in Workers, NEW s \in Tasks, NEW t \in Tasks, s # t
               PROVE  /\ ~ (HeldBy(draft.rows[s], u) /\ HeldBy(draft.rows[t], u))
                      /\ ~ (HeldBy(db.rows[s], u) /\ HeldBy(db.rows[t], u))
                      /\ Entry(s, u) /\ Entry(t, u) => holder'[s] = holder'[t] /\ holder'[s] # NULL
    BY DEF OneInHand, Entry
  <2>1. Entry(s, u) /\ Entry(t, u) => holder[s] = holder[t] /\ holder[s] # NULL
    BY DEF RowsInv, OneInHand
  <2> QED BY <1>1, <2>1, LockableParts DEF RowsInv, OneInHand
<1>4. Changes'
  <2> SUFFICES ASSUME NEW t \in Tasks, NEW q \in Requests, holder'[t] = q
               PROVE  (Same(t) \/ Taken(t, q) \/ Ended(t, q))'
    BY DEF Changes
  <2>1. CASE t = x /\ holder[x] = NULL
    BY <2>1 DEF RowsInv, Clean, Same
  <2>2. CASE holder[t] = q
    BY <2>2 DEF RowsInv, Changes, Same, Taken, Ended, Kind
  <2> QED BY <1>1, <2>1, <2>2, LockableParts
<1>5. Apart(r)
  BY <1>1, LockableParts DEF Apart
<1> QED BY <1>1, <1>2, <1>3, <1>4, <1>5 DEF RowData, TypedRows, RowsInv, Typed

\* nothing written, nothing locked
LEMMA ReadData ==
  ASSUME RowsInv, NEW r \in Requests, UNCHANGED <<db, draft, holder, prog>>
  PROVE  RowData' /\ Apart(r) /\ TypedRows'
  BY DEF RowsInv, RowData, Apart, TypedRows, Typed, Clean, OneInHand, Entry, Changes, Same,
         Taken, Ended, Kind

\* the drafts a request may write
WritesOwn(r) ==
  /\ UNCHANGED <<db, prog>>
  /\ draft' \in Tables
  /\ holder' \in [Lockable -> Requests \cup {NULL}]
  /\ \A x \in Lockable : holder'[x] = holder[x] \/ (holder[x] = NULL /\ holder'[x] = r)
  /\ \A t \in Tasks : holder[t] # r => draft'.rows[t] = draft.rows[t]
  /\ \A b \in Batches : holder'[b] # r => draft'.batches[b] = draft.batches[b]

LEMMA WriteApart ==
  ASSUME RowsInv, NEW r \in Requests, WritesOwn(r)
  PROVE  Apart(r) /\ Clean' /\ TypedRows'
<1>1. Apart(r)
  BY LockableParts DEF Apart, WritesOwn
<1>2. Clean'
  BY LockableParts DEF Clean, WritesOwn, RowsInv
<1> QED BY <1>1, <1>2 DEF TypedRows, WritesOwn, RowsInv, Typed

\* rows that wait before and after, and Pack Notes
LEMMA WaitingWrite ==
  ASSUME RowsInv, NEW r \in Requests, WritesOwn(r),
         \A t \in Tasks : \/ draft'.rows[t] = draft.rows[t]
                          \/ /\ draft.rows[t].status \in WAITING
                             /\ draft'.rows[t].status \in WAITING
                             /\ holder[t] = r
  PROVE  RowData'
<1>1. \A t \in Tasks : /\ draft.rows[t] \in GoodRow /\ draft'.rows[t] \in GoodRow
                       /\ db.rows[t] \in GoodRow
  BY DEF RowsInv, Typed, Tables, WritesOwn
<1>2. \A t \in Tasks : /\ draft'.rows[t].claimed_by = draft.rows[t].claimed_by
                       /\ Over(draft'.rows[t]) <=> Over(draft.rows[t])
                       /\ \A u \in Workers : HeldBy(draft'.rows[t], u) <=> HeldBy(draft.rows[t], u)
  BY <1>1 DEF GoodRow, Row, Over, HeldBy, WAITING, TERMINAL, ACTIVE
<1>3. OneInHand'
  <2> SUFFICES ASSUME NEW u \in Workers, NEW s \in Tasks, NEW t \in Tasks, s # t
               PROVE  /\ ~ (HeldBy(draft'.rows[s], u) /\ HeldBy(draft'.rows[t], u))
                      /\ ~ (HeldBy(db'.rows[s], u) /\ HeldBy(db'.rows[t], u))
                      /\ Entry(s, u)' /\ Entry(t, u)' => holder'[s] = holder'[t] /\ holder'[s] # NULL
    BY DEF OneInHand
  <2>1. Entry(s, u) /\ Entry(t, u) => holder[s] = holder[t] /\ holder[s] # NULL
    BY DEF RowsInv, OneInHand
  <2>2. (Entry(s, u)' <=> Entry(s, u)) /\ (Entry(t, u)' <=> Entry(t, u))
    BY <1>2 DEF Entry, WritesOwn
  <2> QED BY <1>2, <2>1, <2>2, LockableParts DEF RowsInv, OneInHand, WritesOwn
<1>4. Changes'
  <2> SUFFICES ASSUME NEW t \in Tasks, NEW q \in Requests, holder'[t] = q
               PROVE  (Same(t) \/ Taken(t, q) \/ Ended(t, q))'
    BY DEF Changes
  <2>1. CASE holder[t] = NULL
    <3>1. draft.rows[t] = db.rows[t] /\ draft'.rows[t] = draft.rows[t]
      BY <2>1, LockableParts DEF RowsInv, Clean
    <3> QED BY <3>1 DEF Same, WritesOwn
  <2>2. CASE holder[t] = q
    <3>1. Same(t) \/ Taken(t, q) \/ Ended(t, q)
      BY <2>2 DEF RowsInv, Changes
    <3>2. CASE draft'.rows[t] = draft.rows[t]
      BY <3>1, <3>2 DEF WritesOwn, Same, Taken, Ended, Kind
    <3>3. CASE draft.rows[t].status \in WAITING
      <4>1. Same(t)
        BY <3>1, <3>3 DEF Taken, Ended, Over, WAITING, TERMINAL
      <4> QED BY <1>2, <4>1 DEF Same, WritesOwn
    <3> QED BY <3>2, <3>3
  <2> QED BY <2>1, <2>2, LockableParts DEF WritesOwn
<1> QED BY <1>3, <1>4, WriteApart DEF RowData

\* the claim of a waiting row: the index has let it through
LEMMA ClaimWrite ==
  ASSUME RowsInv, NEW r \in Requests, WritesOwn(r), UNCHANGED holder,
         NEW t \in Tasks, holder[t] = r, prog[r].user \in Workers,
         draft.rows[t].status \in WAITING,
         draft'.rows[t].status = "CLAIMED", draft'.rows[t].claimed_by = prog[r].user,
         \A s \in Tasks \ {t} : draft'.rows[s] = draft.rows[s],
         IndexWaits(r) = {}, \A s \in Tasks : ~HeldBy(View(r).rows[s], prog[r].user)
  PROVE  RowData'
<1> DEFINE v == prog[r].user
<1>1. \A s \in Tasks : /\ draft.rows[s] \in GoodRow /\ db.rows[s] \in GoodRow
  BY DEF RowsInv, Typed, Tables
<1>2. draft.rows[t].claimed_by = NULL /\ Same(t) /\ db.rows[t].claimed_by = NULL
      /\ db.rows[t].status \in WAITING \cup TERMINAL \cup ACTIVE /\ ~Over(db.rows[t])
  <2>1. draft.rows[t].claimed_by = NULL
    BY <1>1 DEF GoodRow
  <2>2. Same(t)
    <3>1. Same(t) \/ Taken(t, r) \/ Ended(t, r)
      BY DEF RowsInv, Changes
    <3> QED BY <3>1 DEF Taken, Ended, Over, WAITING, TERMINAL
  <2> QED BY <1>1, <2>1, <2>2 DEF Same, GoodRow, Row, Over, WAITING, TERMINAL
<1>3. db.rows[t].status \in WAITING
  BY <1>1, <1>2 DEF Over, GoodRow
<1>4. \A s \in Tasks \ {t} : ~HeldBy(draft.rows[s], v) /\ (HeldBy(db.rows[s], v) => holder[s] = r)
  <2> SUFFICES ASSUME NEW s \in Tasks \ {t}
               PROVE  ~HeldBy(draft.rows[s], v) /\ (HeldBy(db.rows[s], v) => holder[s] = r)
    OBVIOUS
  <2>1. CASE holder[s] = r
    BY <2>1, ViewIs DEF RowsInv
  <2>2. CASE holder[s] # r
    <3>1. ~HeldBy(db.rows[s], v)
      BY <2>2, ViewIs DEF RowsInv
    <3>2. CASE draft.rows[s] = db.rows[s]
      BY <3>1, <3>2
    <3>3. CASE draft.rows[s] # db.rows[s] /\ HeldBy(draft.rows[s], v)
      <4>1. Others(r, s) \subseteq IndexWaits(r)
        BY <3>3 DEF IndexWaits
      <4>2. holder[s] \in {r, NULL}
        BY <4>1, OthersFree, LockableParts DEF RowsInv
      <4> QED BY <2>2, <3>3, <4>2 DEF RowsInv, Clean
    <3> QED BY <3>1, <3>2, <3>3
  <2> QED BY <2>1, <2>2
<1>5. ~HeldBy(draft.rows[t], v) /\ ~HeldBy(db.rows[t], v)
  BY <1>2, LockableParts DEF HeldBy
<1>6. \A u \in Workers : HeldBy(draft'.rows[t], u) <=> u = v
  BY DEF HeldBy, ACTIVE
<1>7. \A u \in Workers : ~HeldBy(db.rows[t], u) /\ ~HeldBy(draft.rows[t], u)
  BY <1>2, LockableParts DEF HeldBy
<1>8. OneInHand'
  <2> SUFFICES ASSUME NEW u \in Workers, NEW x \in Tasks, NEW y \in Tasks, x # y
               PROVE  /\ ~ (HeldBy(draft'.rows[x], u) /\ HeldBy(draft'.rows[y], u))
                      /\ ~ (HeldBy(db'.rows[x], u) /\ HeldBy(db'.rows[y], u))
                      /\ Entry(x, u)' /\ Entry(y, u)' => holder'[x] = holder'[y] /\ holder'[x] # NULL
    BY DEF OneInHand
  <2>1. /\ ~ (HeldBy(draft.rows[x], u) /\ HeldBy(draft.rows[y], u))
        /\ ~ (HeldBy(db.rows[x], u) /\ HeldBy(db.rows[y], u))
        /\ Entry(x, u) /\ Entry(y, u) => holder[x] = holder[y] /\ holder[x] # NULL
    BY DEF RowsInv, OneInHand
  <2>2. db' = db /\ holder' = holder
    BY DEF WritesOwn
  <2>3. CASE x # t /\ y # t
    BY <2>1, <2>2, <2>3 DEF Entry
  <2>4. CASE x = t
    BY <1>4, <1>6, <1>7, <2>2, <2>4, LockableParts DEF Entry
  <2>5. CASE y = t
    BY <1>4, <1>6, <1>7, <2>2, <2>5, LockableParts DEF Entry
  <2> QED BY <2>3, <2>4, <2>5
<1>9. Changes'
  <2> SUFFICES ASSUME NEW s \in Tasks, NEW q \in Requests, holder[s] = q
               PROVE  (Same(s) \/ Taken(s, q) \/ Ended(s, q))'
    BY DEF Changes
  <2>1. CASE s = t
    <3>1. q = r /\ db' = db /\ prog' = prog
      BY <2>1 DEF WritesOwn
    <3> QED BY <1>2, <1>3, <2>1, <3>1 DEF Taken
  <2>2. CASE s # t
    BY <2>2 DEF RowsInv, Changes, WritesOwn, Same, Taken, Ended, Kind
  <2> QED BY <2>1, <2>2
<1> QED BY <1>8, <1>9, WriteApart DEF RowData

\* the end of a task
LEMMA EndWrite ==
  ASSUME RowsInv, NEW r \in Requests, WritesOwn(r), UNCHANGED holder, Kind(r) \in Enders,
         NEW t \in Tasks, t = Task(r), holder[t] = r,
         draft.rows[t] = db.rows[t], ~Over(draft.rows[t]),
         Over(draft'.rows[t]), draft'.rows[t].claimed_by = draft.rows[t].claimed_by,
         \A s \in Tasks \ {t} : draft'.rows[s] = draft.rows[s]
  PROVE  RowData'
<1>1. \A u \in Workers : ~HeldBy(draft'.rows[t], u)
  BY DEF HeldBy, Over, TERMINAL, ACTIVE
<1>2. OneInHand'
  <2> SUFFICES ASSUME NEW u \in Workers, NEW x \in Tasks, NEW y \in Tasks, x # y
               PROVE  /\ ~ (HeldBy(draft'.rows[x], u) /\ HeldBy(draft'.rows[y], u))
                      /\ ~ (HeldBy(db'.rows[x], u) /\ HeldBy(db'.rows[y], u))
                      /\ Entry(x, u)' /\ Entry(y, u)' => holder'[x] = holder'[y] /\ holder'[x] # NULL
    BY DEF OneInHand
  <2>1. /\ ~ (HeldBy(draft.rows[x], u) /\ HeldBy(draft.rows[y], u))
        /\ ~ (HeldBy(db.rows[x], u) /\ HeldBy(db.rows[y], u))
        /\ Entry(x, u) /\ Entry(y, u) => holder[x] = holder[y] /\ holder[x] # NULL
    BY DEF RowsInv, OneInHand
  <2>2. db' = db /\ holder' = holder
    BY DEF WritesOwn
  <2>3. \A z \in {x, y} : /\ HeldBy(draft'.rows[z], u) => HeldBy(draft.rows[z], u)
                          /\ Entry(z, u)' => Entry(z, u)
    BY <1>1, <2>2 DEF Entry
  <2> QED BY <2>1, <2>2, <2>3
<1>3. Changes'
  <2> SUFFICES ASSUME NEW s \in Tasks, NEW q \in Requests, holder[s] = q
               PROVE  (Same(s) \/ Taken(s, q) \/ Ended(s, q))'
    BY DEF Changes
  <2>1. CASE s = t
    <3>1. q = r /\ db' = db /\ prog' = prog
      BY <2>1 DEF WritesOwn
    <3> QED BY <2>1, <3>1 DEF Ended, Kind, Task
  <2>2. CASE s # t
    BY <2>2 DEF RowsInv, Changes, WritesOwn, Same, Taken, Ended, Kind
  <2> QED BY <2>1, <2>2
<1> QED BY <1>2, <1>3, WriteApart DEF RowData

\* the locks a transaction gives back
Releases(r) ==
  /\ UNCHANGED prog
  /\ holder' = [x \in Lockable |-> IF holder[x] = r THEN NULL ELSE holder[x]]

LEMMA CommitData ==
  ASSUME RowsInv, NEW r \in Requests, Releases(r), db' = View(r), UNCHANGED draft
  PROVE  RowData' /\ Apart(r) /\ TypedRows'
<1>1. /\ db' \in Tables
      /\ \A t \in Tasks : db'.rows[t] = IF holder[t] = r THEN draft.rows[t] ELSE db.rows[t]
      /\ \A b \in Batches : db'.batches[b] = IF holder[b] = r THEN draft.batches[b] ELSE db.batches[b]
  BY ViewIs DEF RowsInv
<1>2. /\ holder' \in [Lockable -> Requests \cup {NULL}]
      /\ \A x \in Lockable : holder'[x] = IF holder[x] = r THEN NULL ELSE holder[x]
  BY DEF Releases, RowsInv, Typed
<1>3. Apart(r)
  BY <1>1, <1>2, LockableParts DEF Apart
<1>4. Clean'
  BY <1>1, <1>2, LockableParts DEF RowsInv, Clean
<1>5. OneInHand'
  <2> SUFFICES ASSUME NEW u \in Workers, NEW s \in Tasks, NEW t \in Tasks, s # t
               PROVE  /\ ~ (HeldBy(draft.rows[s], u) /\ HeldBy(draft.rows[t], u))
                      /\ ~ (HeldBy(db'.rows[s], u) /\ HeldBy(db'.rows[t], u))
                      /\ Entry(s, u)' /\ Entry(t, u)' => holder'[s] = holder'[t] /\ holder'[s] # NULL
    BY DEF OneInHand
  <2>1. /\ ~ (HeldBy(draft.rows[s], u) /\ HeldBy(draft.rows[t], u))
        /\ ~ (HeldBy(db.rows[s], u) /\ HeldBy(db.rows[t], u))
        /\ Entry(s, u) /\ Entry(t, u) => holder[s] = holder[t] /\ holder[s] # NULL
    BY DEF RowsInv, OneInHand
  <2>2. \A z \in {s, t} : /\ Entry(z, u)' => Entry(z, u)
                          /\ holder[z] = r /\ Entry(z, u)' => HeldBy(draft.rows[z], u)
                          /\ HeldBy(db'.rows[z], u) => Entry(z, u)
    BY <1>1 DEF Entry
  <2>3. ~ (HeldBy(db'.rows[s], u) /\ HeldBy(db'.rows[t], u))
    BY <1>1, <2>1, <2>2
  <2> QED BY <1>2, <2>1, <2>2, <2>3, LockableParts
<1>6. Changes'
  <2> SUFFICES ASSUME NEW s \in Tasks, NEW q \in Requests, holder'[s] = q
               PROVE  (Same(s) \/ Taken(s, q) \/ Ended(s, q))'
    BY DEF Changes
  <2>1. holder[s] = q /\ q # r /\ db'.rows[s] = db.rows[s] /\ prog' = prog
    BY <1>1, <1>2, LockableParts DEF Releases
  <2> QED BY <2>1 DEF RowsInv, Changes, Same, Taken, Ended, Kind
<1> QED BY <1>1, <1>2, <1>3, <1>4, <1>5, <1>6 DEF RowData, TypedRows, RowsInv, Typed

LEMMA RollbackData ==
  ASSUME RowsInv, NEW r \in Requests, Rollback(r)
  PROVE  RowData' /\ Apart(r) /\ TypedRows'
<1>1. /\ draft' \in Tables /\ db' = db /\ prog' = prog
      /\ \A t \in Tasks : draft'.rows[t] = IF holder[t] = r THEN db.rows[t] ELSE draft.rows[t]
      /\ \A b \in Batches : draft'.batches[b] = IF holder[b] = r THEN db.batches[b] ELSE draft.batches[b]
  BY DEF RowsInv, Typed, Tables, Rollback
<1>2. /\ holder' \in [Lockable -> Requests \cup {NULL}]
      /\ \A x \in Lockable : holder'[x] = IF holder[x] = r THEN NULL ELSE holder[x]
  BY DEF Rollback, Unlock, RowsInv, Typed
<1>3. Apart(r)
  BY <1>1, <1>2, LockableParts DEF Apart
<1>4. Clean'
  BY <1>1, <1>2, LockableParts DEF RowsInv, Clean
<1>5. OneInHand'
  <2> SUFFICES ASSUME NEW u \in Workers, NEW s \in Tasks, NEW t \in Tasks, s # t
               PROVE  /\ ~ (HeldBy(draft'.rows[s], u) /\ HeldBy(draft'.rows[t], u))
                      /\ ~ (HeldBy(db'.rows[s], u) /\ HeldBy(db'.rows[t], u))
                      /\ Entry(s, u)' /\ Entry(t, u)' => holder'[s] = holder'[t] /\ holder'[s] # NULL
    BY DEF OneInHand
  <2>1. /\ ~ (HeldBy(draft.rows[s], u) /\ HeldBy(draft.rows[t], u))
        /\ ~ (HeldBy(db.rows[s], u) /\ HeldBy(db.rows[t], u))
        /\ Entry(s, u) /\ Entry(t, u) => holder[s] = holder[t] /\ holder[s] # NULL
    BY DEF RowsInv, OneInHand
  <2>2. \A z \in {s, t} : /\ Entry(z, u)' => Entry(z, u)
                          /\ holder[z] = r /\ Entry(z, u)' => HeldBy(db.rows[z], u)
                          /\ HeldBy(draft'.rows[z], u) => Entry(z, u)
    BY <1>1 DEF Entry
  <2>3. ~ (HeldBy(draft'.rows[s], u) /\ HeldBy(draft'.rows[t], u))
    BY <1>1, <2>1, <2>2
  <2> QED BY <1>1, <1>2, <2>1, <2>2, <2>3, LockableParts
<1>6. Changes'
  <2> SUFFICES ASSUME NEW s \in Tasks, NEW q \in Requests, holder'[s] = q
               PROVE  (Same(s) \/ Taken(s, q) \/ Ended(s, q))'
    BY DEF Changes
  <2>1. holder[s] = q /\ q # r /\ draft'.rows[s] = draft.rows[s]
    BY <1>1, <1>2, LockableParts
  <2> QED BY <1>1, <2>1 DEF RowsInv, Changes, Same, Taken, Ended, Kind
<1> QED BY <1>1, <1>2, <1>3, <1>4, <1>5, <1>6 DEF RowData, TypedRows, RowsInv, Typed

MemoRow == [queue : Seq(Tasks), locked : SUBSET Tasks, on_duty : SUBSET Workers]
Memos == memo \in [Requests -> MemoRow]

LEMMA Assemble ==
  ASSUME RowsInv, NEW r \in Requests, RowData', Apart(r), TypedRows', Alone(r), Memos', Knows(r)'
  PROVE  RowsInv'
<1>1. \A q \in Requests : Knows(q)'
  BY OthersKnow
<1>2. Typed'
  BY DEF Typed, TypedRows, Memos, MemoRow, RowsInv, Alone
<1> QED BY <1>1, <1>2 DEF RowsInv, RowData, Alone

\* the other requests do not move
LEMMA AloneMoves ==
  ASSUME RowsInv, NEW r \in Requests, UNCHANGED prog,
         \A q \in Requests \ {r} : memo'[q] = memo[q]
  PROVE  /\ Proceed(r) /\ todo[r] # <<>> => Alone(r) /\ Left(r)' = Left(r) - 1
         /\ Skip(r) /\ todo[r] # <<>> /\ Left(r) >= 2 => Alone(r) /\ Left(r)' = Left(r) - 2
         /\ Commit(r) => Alone(r) /\ Left(r)' = 1
         /\ Goto(r, <<>>) => Alone(r) /\ Left(r)' = 0
<1>1. prog \in [Requests -> Programs] /\ Placed
  BY DEF RowsInv, Typed
<1>2. \A s : Goto(r, s) => \A q \in Requests \ {r} : Left(q)' = Left(q)
  BY <1>1, Moves
<1>3. \A q \in Requests : Kind(q)' = Kind(q)
  BY DEF Kind
<1>4. \A s : Goto(r, s) /\ Placed' => Alone(r)
  BY <1>2, <1>3 DEF Alone
<1>5. Proceed(r) \/ Skip(r) \/ Commit(r) => \E s : Goto(r, s)
  BY DEF Proceed, Skip, Commit
<1> QED BY <1>1, <1>4, <1>5, Moves

\* a request that knows nothing but which rows it has locked
LEMMA KnowsLocked ==
  ASSUME NEW r \in Requests, Idle(r)',
         \/ Left(r)' = 0
         \/ \A t \in memo'[r].locked : holder'[t] = r
  PROVE  Knows(r)'
  BY DEF Knows, Idle

PlacesOf(r) == /\ Left(r) \in 0 .. 13 /\ Kind(r) \in Kinds /\ prog[r] \in Programs
               /\ Kind(r) = prog[r].kind

LEMMA PlacedHere ==
  ASSUME RowsInv, NEW r \in Requests
  PROVE  /\ PlacesOf(r)
         /\ \A s : At(r, s) => todo[r] # <<>> /\ Left(r) >= 1
         /\ Left(r) > 0 => \A t \in memo[r].locked : holder[t] = r
         /\ memo[r] \in MemoRow
<1>1. prog \in [Requests -> Programs] /\ Placed /\ memo \in [Requests -> MemoRow]
  BY DEF RowsInv, Typed, MemoRow
<1>2. Kind(r) \in Kinds /\ prog[r] \in Programs
  BY <1>1, KindIs
<1>3. Length(Kind(r)) \in 6 .. 13
  BY <1>2, ScriptType
<1>4. Left(r) \in Nat /\ Left(r) <= Length(Kind(r))
  BY <1>1 DEF Placed, OnScript, Left, Scripts
<1>5. Left(r) \in 0 .. 13
  BY <1>3, <1>4
<1>6. \A s : At(r, s) => todo[r] # <<>> /\ Left(r) >= 1
  BY <1>1, HeadIs DEF At
<1> QED BY <1>1, <1>2, <1>5, <1>6 DEF PlacesOf, Kind, Knows, RowsInv

\* the statements after a count that finds nothing left are not those after any other
LEMMA CountGoesOn ==
  ASSUME RowsInv, NEW r \in Requests, count_remaining(r), Proceed(r)
  PROVE  TaskBatch[prog[r].task] # NULL /\ Remaining(r) = {}
<1>1. At(r, "count_remaining")
  BY DEF count_remaining, Runs, At
<1>2. /\ Left(r) \in 0 .. 13 /\ todo[r] # <<>> /\ Placed /\ prog \in [Requests -> Programs]
      /\ UNCHANGED <<prog, memo>>
  BY <1>1, PlacedHere DEF PlacesOf, RowsInv, Typed, count_remaining
<1>3. Left(r) >= 2
  BY <1>1, <1>2, Places DEF Before
<1>4. Left(r)' = Left(r) - 1
  BY <1>2, AloneMoves
<1>5. ~Skip(r)
  BY <1>2, <1>3, <1>4, AloneMoves
<1> QED BY <1>5 DEF count_remaining

\* the statements that only read
LEMMA ReadStep ==
  ASSUME RowsInv, NEW r \in Requests,
         \/ get_current_task(r) \/ check_availability(r) \/ select_candidates(r)
         \/ count_remaining(r) \/ eligible_workers(r) \/ open_tasks(r)
         \/ assigned_tasks(r) \/ check_assignee(r)
  PROVE  RowsInv'
<1>1. UNCHANGED <<db, draft, holder, prog>>
  BY DEF get_current_task, check_availability, select_candidates, count_remaining,
         eligible_workers, open_tasks, assigned_tasks, check_assignee
<1>2. RowData' /\ Apart(r) /\ TypedRows'
  BY <1>1, ReadData
<1>3. Memos' /\ memo'[r].locked = memo[r].locked /\ \A q \in Requests \ {r} : memo'[q] = memo[q]
  <2>1. memo \in [Requests -> MemoRow]
    BY DEF RowsInv, Typed, MemoRow
  <2>2. ASSUME NEW S, S \subseteq Tasks, NEW queue \in SetToSeqs(S)
        PROVE  queue \in Seq(Tasks)
    <3>1. IsFiniteSet(S)
      BY <2>2, FS_Subset, TasksAssumption
    <3>2. Cardinality(S) \in Nat
      BY <3>1, FS_CardinalityType
    <3> QED BY <2>2, <3>2 DEF SetToSeqs
  <2>3. ASSUME NEW queue \in Seq(Tasks), memo' = [memo EXCEPT ![r].queue = queue]
        PROVE  Memos' /\ memo'[r].locked = memo[r].locked
               /\ \A q \in Requests \ {r} : memo'[q] = memo[q]
    BY <2>1, <2>3 DEF Memos, MemoRow
  <2>4. CASE UNCHANGED memo
    BY <2>1, <2>4 DEF Memos
  <2>5. CASE select_candidates(r)
    <3>1. Candidates(r) \subseteq Tasks
      BY DEF Candidates
    <3>2. \E queue \in SetToSeqs(Candidates(r)) : memo' = [memo EXCEPT ![r].queue = queue]
      BY <2>5 DEF select_candidates, Queues
    <3> QED BY <2>2, <2>3, <3>1, <3>2
  <2>6. CASE open_tasks(r)
    <3> DEFINE S == {t \in Tasks : View(r).rows[t].status \notin TERMINAL}
    <3>1. S \subseteq Tasks /\ \E queue \in SetToSeqs(S) : memo' = [memo EXCEPT ![r].queue = queue]
      BY <2>6 DEF open_tasks, Queues
    <3> HIDE DEF S
    <3> QED BY <2>2, <2>3, <3>1
  <2>7. CASE assigned_tasks(r)
    <3> DEFINE S == {t \in Tasks : /\ prog[r].status # "AVAILABLE"
                                   /\ Releasable(View(r).rows[t], prog[r].user)}
    <3>1. S \subseteq Tasks /\ \E queue \in SetToSeqs(S) : memo' = [memo EXCEPT ![r].queue = queue]
      BY <2>7 DEF assigned_tasks
    <3> HIDE DEF S
    <3> QED BY <2>2, <2>3, <3>1
  <2>8. CASE eligible_workers(r)
    BY <2>1, <2>8 DEF eligible_workers, Memos, MemoRow
  <2> QED BY <2>4, <2>5, <2>6, <2>7, <2>8
       DEF get_current_task, check_availability, count_remaining, check_assignee
<1>4. Alone(r) /\ Knows(r)'
  <2>1. todo[r] # <<>> /\ Left(r) >= 1 /\ PlacesOf(r)
    BY PlacedHere
    DEF get_current_task, check_availability, select_candidates, count_remaining,
        eligible_workers, open_tasks, assigned_tasks, check_assignee, Runs
  <2>2. prog \in [Requests -> Programs] /\ Placed /\ Knows(r)
    BY DEF RowsInv, Typed
  <2>3. \A t \in memo'[r].locked : holder'[t] = r
    <3>1. Left(r) > 0
      BY <2>1 DEF PlacesOf
    <3> QED
      BY <1>1, <1>3, <3>1, PlacedHere
  <2>4. ASSUME Alone(r), Idle(r)'
        PROVE  Alone(r) /\ Knows(r)'
    BY <2>3, <2>4, KnowsLocked
  <2>5. CASE get_current_task(r)
    <3>1. Before(r, {"claim_next", "complete_claim"}, {8}) /\ (Commit(r) \/ Proceed(r))
      BY <2>2, <2>5, Places DEF get_current_task, Runs
    <3>2. Alone(r) /\ Left(r)' \in {1, 7}
      BY <1>1, <1>3, <2>1, <3>1, AloneMoves DEF Before
    <3> QED
      BY <2>4, <3>1, <3>2 DEF Before, Alone, Fresh, ToEnd, ToClaim, ToAssign, ToMark, ToComplete, Idle
  <2>6. CASE check_availability(r)
    <3>1. Before(r, {"claim_next", "complete_claim"}, {7}) /\ (Commit(r) \/ Proceed(r))
      BY <2>2, <2>6, Places DEF check_availability, Runs
    <3>2. Alone(r) /\ Left(r)' \in {1, 6}
      BY <1>1, <1>3, <2>1, <3>1, AloneMoves DEF Before
    <3> QED
      BY <2>4, <3>1, <3>2 DEF Before, Alone, Fresh, ToEnd, ToClaim, ToAssign, ToMark, ToComplete, Idle
  <2>7. CASE select_candidates(r)
    <3>1. Before(r, {"claim_next", "complete_claim"}, {6}) /\ Proceed(r)
      BY <2>2, <2>7, Places DEF select_candidates, Runs
    <3>2. Alone(r) /\ Left(r)' = 5
      BY <1>1, <1>3, <2>1, <3>1, AloneMoves DEF Before
    <3> QED
      BY <2>4, <3>1, <3>2 DEF Before, Alone, Fresh, ToEnd, ToClaim, ToAssign, ToMark, ToComplete, Idle
  <2>8. CASE count_remaining(r)
    <3>1. /\ \/ Before(r, {"complete", "cancel"}, {3})
             \/ Before(r, {"complete_claim"}, {10})
          /\ (Proceed(r) \/ Skip(r))
      BY <2>2, <2>8, Places DEF count_remaining, Runs
    <3>2. Alone(r) /\ ((Left(r)' = Left(r) - 1 /\ Proceed(r)) \/ Left(r)' = Left(r) - 2)
      BY <1>1, <1>3, <2>1, <3>1, AloneMoves DEF Before
    <3>3. Proceed(r) => TaskBatch[Task(r)] \in Batches
      <4>1. Task(r) \in Tasks
        BY <2>1, <3>1, ProgramsAssumption DEF Before, PlacesOf, Task
      <4>2. Proceed(r) => TaskBatch[Task(r)] # NULL
        BY <2>8, CountGoesOn DEF Task
      <4> QED BY <4>1, <4>2 DEF Batches
    <3>4. Task(r)' = Task(r)
      BY <1>1 DEF Task
    <3> QED
      BY <2>4, <3>1, <3>2, <3>3, <3>4 DEF Before, Alone, Fresh, ToEnd, ToClaim, ToAssign, ToMark, ToComplete, Idle
  <2>9. CASE eligible_workers(r)
    <3>1. Before(r, {"run_dispatch", "availability", "unassign"}, {6}) /\ Proceed(r)
      BY <2>2, <2>9, Places DEF eligible_workers, Runs, Before
    <3>2. Alone(r) /\ Left(r)' = 5
      BY <1>1, <1>3, <2>1, <3>1, AloneMoves DEF Before
    <3>3. Fresh(r)' => Fresh(r)
      BY <3>1, <3>2 DEF Before, Alone, Fresh
    <3>4. Fresh(r)' => \A x \in Lockable : holder'[x] # r
      BY <1>1, <2>2, <3>3 DEF Knows
    <3>5. ~ToEnd(r)' /\ ~ToClaim(r)' /\ ~ToAssign(r)' /\ ~ToMark(r)' /\ ~ToComplete(r)'
      BY <3>1, <3>2 DEF Before, Alone, ToEnd, ToClaim, ToAssign, ToMark, ToComplete, Idle
    <3> QED
      BY <2>3, <3>2, <3>4, <3>5 DEF Knows
  <2>10. CASE open_tasks(r)
    <3>1. Before(r, {"run_dispatch", "availability", "unassign"}, {5}) /\ Proceed(r)
      BY <2>2, <2>10, Places DEF open_tasks, Runs, Before
    <3>2. Alone(r) /\ Left(r)' = 4
      BY <1>1, <1>3, <2>1, <3>1, AloneMoves DEF Before
    <3> QED
      BY <2>4, <3>1, <3>2 DEF Before, Alone, Fresh, ToEnd, ToClaim, ToAssign, ToMark, ToComplete, Idle
  <2>11. CASE assigned_tasks(r)
    <3>1. Before(r, {"availability"}, {10}) /\ Proceed(r)
      BY <2>2, <2>11, Places DEF assigned_tasks, Runs
    <3>2. Alone(r) /\ Left(r)' = 9
      BY <1>1, <1>3, <2>1, <3>1, AloneMoves DEF Before
    <3> QED
      BY <2>4, <3>1, <3>2 DEF Before, Alone, Fresh, ToEnd, ToClaim, ToAssign, ToMark, ToComplete, Idle
  <2>12. CASE check_assignee(r)
    <3>1. Before(r, {"assign"}, {4, 5}) /\ Proceed(r)
      BY <2>2, <2>12, Places DEF check_assignee, Runs, Before
    <3>2. Alone(r) /\ Left(r)' \in {3, 4}
      BY <1>1, <1>3, <2>1, <3>1, AloneMoves DEF Before
    <3>3. ToAssign(r)
      BY <3>1 DEF ToAssign, ToMark, ToComplete, Before
    <3>4. ~Fresh(r)' /\ ~ToEnd(r)' /\ ~ToClaim(r)' /\ ~ToMark(r)' /\ ~ToComplete(r)'
      BY <3>1, <3>2 DEF Before, Alone, Fresh, ToEnd, ToClaim, ToMark, ToComplete, Idle
    <3>5. ToAssign(r)' => /\ holder'[Task(r)'] = r
                          /\ draft'.rows[Task(r)'].status \in WAITING
      BY <1>1, <2>2, <3>3 DEF Knows, Task
    <3> QED
      BY <2>3, <3>2, <3>4, <3>5 DEF Knows
  <2> QED
    BY <2>5, <2>6, <2>7, <2>8, <2>9, <2>10, <2>11, <2>12
<1> QED BY <1>2, <1>3, <1>4, Assemble

\* claim_next_task locks the first candidate that is free and still open to it
LEMMA LockCandidateStep ==
  ASSUME RowsInv, NEW r \in Requests, lock_candidate(r)
  PROVE  RowsInv'
<1> DEFINE queue == memo[r].queue
<1>1. /\ todo[r] # <<>> /\ Left(r) >= 1 /\ PlacesOf(r) /\ UNCHANGED <<db, draft, prog>>
      /\ Before(r, {"claim_next", "complete_claim"}, {5})
      /\ prog \in [Requests -> Programs] /\ Placed /\ Knows(r) /\ memo[r] \in MemoRow
      /\ memo \in [Requests -> MemoRow]
  BY PlacedHere, Places DEF lock_candidate, Runs, RowsInv, Typed, MemoRow
<1>2. CASE Commit(r) /\ UNCHANGED <<holder, memo>>
  <2>1. RowData' /\ Apart(r) /\ TypedRows'
    BY <1>1, <1>2, ReadData
  <2>2. Memos' /\ \A q \in Requests \ {r} : memo'[q] = memo[q]
    BY <1>1, <1>2 DEF Memos
  <2>3. Alone(r) /\ Left(r)' = 1
    BY <1>1, <1>2, <2>2, AloneMoves
  <2>4. Idle(r)'
    BY <1>1, <2>3 DEF Before, Alone, Fresh, ToEnd, ToClaim, ToAssign, ToMark, ToComplete, Idle
  <2>5. \A t \in memo'[r].locked : holder'[t] = r
    BY <1>1, <1>2 DEF Knows, PlacesOf
  <2> QED
    BY <2>1, <2>2, <2>3, <2>4, <2>5, KnowsLocked, Assemble
<1>3. ASSUME NEW i \in DOMAIN queue, Others(r, queue[i]) = {},
             OpenTo(View(r).rows[queue[i]], prog[r].user), Lock(r, queue[i]), Proceed(r),
             memo' = [memo EXCEPT ![r].queue = <<queue[i]>>]
      PROVE  RowsInv'
  <2> DEFINE t == queue[i]
  <2>1. t \in Tasks /\ t \in Lockable
    BY <1>1, LockableParts DEF MemoRow
  <2>2. holder[t] \in {r, NULL}
    BY <1>3, <2>1, OthersFree DEF RowsInv
  <2>3. RowData' /\ Apart(r) /\ TypedRows'
    BY <1>1, <1>3, <2>1, <2>2, LockData
  <2>4. /\ Memos' /\ memo'[r].locked = memo[r].locked /\ memo'[r].queue = <<t>>
        /\ \A q \in Requests \ {r} : memo'[q] = memo[q]
    <3> DEFINE one == <<t>>
    <3>1. one \in Seq(Tasks)
      BY <2>1
    <3>2. memo' = [memo EXCEPT ![r].queue = one]
      BY <1>3
    <3> HIDE DEF one
    <3>3. /\ memo' \in [Requests -> MemoRow]
          /\ memo'[r].locked = memo[r].locked /\ memo'[r].queue = one
          /\ \A q \in Requests \ {r} : memo'[q] = memo[q]
      BY <1>1, <3>1, <3>2 DEF MemoRow
    <3> QED BY <3>3 DEF Memos, one
  <2>5. Alone(r) /\ Left(r)' = 4
    BY <1>1, <1>3, <2>4, AloneMoves DEF Before
  <2>6. ~Fresh(r)' /\ ~ToEnd(r)' /\ ~ToAssign(r)' /\ ~ToMark(r)' /\ ~ToComplete(r)'
    BY <1>1, <2>5 DEF Before, Alone, Fresh, ToEnd, ToAssign, ToMark, ToComplete, Idle
  <2>7. holder'[t] = r /\ \A x \in Lockable : holder[x] = r => holder'[x] = r
    BY <1>3, <2>1 DEF Lock, RowsInv, Typed
  <2>8. draft'.rows[t].status \in WAITING
    <3>1. View(r).rows[t] = draft.rows[t]
      BY <2>1, <2>2, ViewIs DEF RowsInv, Clean
    <3> QED BY <1>1, <1>3, <3>1 DEF OpenTo
  <2>9. \A s \in memo'[r].locked : holder'[s] = r
    BY <1>1, <2>4, <2>7, LockableParts DEF Knows, MemoRow, PlacesOf
  <2>10. Head(memo'[r].queue) = t /\ memo'[r].queue # <<>>
    BY <2>4
  <2>11. Knows(r)'
    BY <2>6, <2>7, <2>8, <2>9, <2>10 DEF Knows
  <2> QED
    BY <2>3, <2>4, <2>5, <2>11, Assemble
<1> QED
  BY <1>2, <1>3 DEF lock_candidate

\* get_task: SELECT ... FOR UPDATE, refused unless the row is as the request needs it
LEMMA TaskForUpdateStep ==
  ASSUME RowsInv, NEW r \in Requests, task_for_update(r)
  PROVE  RowsInv'
<1> DEFINE t == Task(r)
<1>1. /\ todo[r] # <<>> /\ Left(r) >= 1 /\ PlacesOf(r) /\ UNCHANGED <<db, draft, prog, memo>>
      /\ Fresh(r) /\ Kind(r) \in Enders \cup {"assign", "unassign"}
      /\ prog \in [Requests -> Programs] /\ Placed /\ Knows(r) /\ memo[r] \in MemoRow
      /\ memo \in [Requests -> MemoRow]
  BY PlacedHere, Places DEF task_for_update, Runs, RowsInv, Typed, MemoRow, Fresh, Before, Enders
<1>2. t \in Tasks /\ t \in Lockable
  BY <1>1, ProgramsAssumption, LockableParts DEF Task, PlacesOf, Enders
<1>3. At(r, "task_for_update") /\ Others(r, t) = {} /\ MayProceed(prog[r], View(r).rows[t])
  BY DEF task_for_update, Runs, Refused, WaitsFor, Task, At
<1>4. holder[t] = NULL /\ draft.rows[t] = db.rows[t] /\ View(r).rows[t] = db.rows[t]
  BY <1>1, <1>2, <1>3, OthersFree, ViewIs DEF Knows, RowsInv, Clean
<1>5. RowData' /\ Apart(r) /\ TypedRows'
  BY <1>1, <1>2, <1>4, LockData DEF task_for_update, Task
<1>6. Memos' /\ \A q \in Requests \ {r} : memo'[q] = memo[q]
  BY <1>1 DEF Memos
<1>7. Alone(r) /\ Left(r)' = Left(r) - 1
  BY <1>1, <1>6, AloneMoves DEF task_for_update
<1>8. /\ ~Fresh(r)' /\ ~ToClaim(r)' /\ ~ToMark(r)' /\ ~ToComplete(r)'
      /\ ToEnd(r)' => Kind(r) \in Enders
      /\ ToAssign(r)' => Kind(r) \in {"assign", "unassign"}
  BY <1>1, <1>7, Places DEF task_for_update, Runs, Before, Alone, Fresh, ToEnd, ToClaim, ToAssign, ToMark, ToComplete, Idle, Enders, PlacesOf
<1>9. holder'[t] = r /\ \A x \in Lockable : holder[x] = r => holder'[x] = r
  BY <1>2 DEF task_for_update, Lock, Task, RowsInv, Typed
<1>10. Kind(r) \in Enders => ~Over(db.rows[t])
  BY <1>3, <1>4 DEF MayProceed, Kind, Enders, Over, TERMINAL
<1>11. Kind(r) \in {"assign", "unassign"} => db.rows[t].status \in WAITING
  BY <1>3, <1>4 DEF MayProceed, Kind
<1>12. \A s \in memo'[r].locked : holder'[s] = r
  BY <1>1, <1>9, LockableParts DEF Knows, MemoRow, PlacesOf
<1>13. t' = t /\ db' = db /\ draft' = draft
  BY <1>1 DEF Task
<1>14. Knows(r)'
  BY <1>4, <1>8, <1>9, <1>10, <1>11, <1>12, <1>13 DEF Knows, Over
<1> QED
  BY <1>5, <1>6, <1>7, <1>14, Assemble

\* the first audit row of a transaction takes the chain
LEMMA AuditStep ==
  ASSUME RowsInv, NEW r \in Requests, write_audit_log(r)
  PROVE  RowsInv'
<1>1. /\ todo[r] # <<>> /\ Left(r) >= 1 /\ PlacesOf(r) /\ UNCHANGED <<db, draft, prog, memo>>
      /\ prog \in [Requests -> Programs] /\ Placed /\ Knows(r) /\ memo[r] \in MemoRow
      /\ memo \in [Requests -> MemoRow]
  BY PlacedHere, Places DEF write_audit_log, Runs, RowsInv, Typed, MemoRow
<1>2. At(r, "audit") /\ Others(r, AUDIT) = {}
  BY DEF write_audit_log, Runs, WaitsFor, At
<1>3. AUDIT \in Lockable /\ holder[AUDIT] \in {r, NULL}
  BY <1>2, OthersFree, LockableParts DEF RowsInv
<1>4. RowData' /\ Apart(r) /\ TypedRows'
  BY <1>1, <1>3, LockData DEF write_audit_log
<1>5. Memos' /\ \A q \in Requests \ {r} : memo'[q] = memo[q]
  BY <1>1 DEF Memos
<1>6. Alone(r) /\ Left(r)' = Left(r) - 1
  BY <1>1, <1>5, AloneMoves DEF write_audit_log
<1>7. Idle(r)'
  BY <1>1, <1>2, <1>6, Places DEF Before, Alone, Fresh, ToEnd, ToClaim, ToAssign, ToMark, ToComplete, Idle
<1>8. \A x \in Lockable : holder[x] = r => holder'[x] = r
  BY <1>3 DEF write_audit_log, Lock, RowsInv, Typed
<1>9. \A s \in memo'[r].locked : holder'[s] = r
  BY <1>1, <1>8, LockableParts DEF Knows, MemoRow, PlacesOf
<1> QED
  BY <1>4, <1>5, <1>6, <1>7, <1>9, KnowsLocked, Assemble

\* FOR UPDATE of _open_tasks and set_worker_availability: one row after the other
LEMMA LockRowsStep ==
  ASSUME RowsInv, NEW r \in Requests, lock_rows(r)
  PROVE  RowsInv'
<1> DEFINE t == Head(memo[r].queue)
<1>1. /\ todo[r] # <<>> /\ Left(r) >= 1 /\ PlacesOf(r) /\ UNCHANGED <<db, draft, prog>>
      /\ Before(r, {"run_dispatch", "availability", "unassign"}, {4, 9})
      /\ Before(r, {"unassign"}, {9}) => FALSE
      /\ prog \in [Requests -> Programs] /\ Placed /\ Knows(r) /\ memo[r] \in MemoRow
      /\ memo \in [Requests -> MemoRow]
  BY PlacedHere, Places DEF lock_rows, Runs, RowsInv, Typed, MemoRow, Before
<1>2. CASE Proceed(r) /\ UNCHANGED <<holder, memo>>
  <2>1. RowData' /\ Apart(r) /\ TypedRows'
    BY <1>1, <1>2, ReadData
  <2>2. Memos' /\ \A q \in Requests \ {r} : memo'[q] = memo[q]
    BY <1>1, <1>2 DEF Memos
  <2>3. Alone(r) /\ Left(r)' = Left(r) - 1
    BY <1>1, <1>2, <2>2, AloneMoves
  <2>4. Idle(r)'
    BY <1>1, <2>3, Places DEF lock_rows, Runs, Before, Alone, Fresh, ToEnd, ToClaim, ToAssign, ToMark, ToComplete, Idle
  <2>5. \A s \in memo'[r].locked : holder'[s] = r
    BY <1>1, <1>2 DEF Knows, PlacesOf
  <2> QED
    BY <2>1, <2>2, <2>3, <2>4, <2>5, KnowsLocked, Assemble
<1>3. CASE /\ memo[r].queue # <<>> /\ Lock(r, t) /\ UNCHANGED todo
           /\ memo' = [memo EXCEPT ![r].queue = Tail(@), ![r].locked = @ \cup {t}]
  <2>1. t \in Tasks /\ t \in Lockable /\ Tail(memo[r].queue) \in Seq(Tasks)
    BY <1>1, <1>3, LockableParts, HeadTailProperties DEF MemoRow
  <2>2. holder[t] \in {r, NULL}
    <3>1. At(r, "lock_rows") /\ Others(r, t) = {}
      BY <1>3 DEF lock_rows, Runs, WaitsFor, At
    <3> QED BY <2>1, <3>1, OthersFree DEF RowsInv
  <2>3. RowData' /\ Apart(r) /\ TypedRows'
    BY <1>1, <1>3, <2>1, <2>2, LockData
  <2>4. /\ Memos' /\ memo'[r].locked = memo[r].locked \cup {t}
        /\ \A q \in Requests \ {r} : memo'[q] = memo[q]
    BY <1>1, <1>3, <2>1 DEF Memos, MemoRow
  <2>5. Alone(r) /\ Left(r)' = Left(r)
    BY <1>1, <1>3, <2>4 DEF Alone, Left, Kind, Placed
  <2>6. Idle(r)'
    BY <1>1, <2>5, Places DEF lock_rows, Runs, Before, Alone, Fresh, ToEnd, ToClaim, ToAssign, ToMark, ToComplete, Idle
  <2>7. holder'[t] = r /\ \A x \in Lockable : holder[x] = r => holder'[x] = r
    BY <1>3, <2>1 DEF Lock, RowsInv, Typed
  <2>8. \A s \in memo'[r].locked : holder'[s] = r
    BY <1>1, <2>4, <2>7, LockableParts DEF Knows, MemoRow, PlacesOf
  <2> QED
    BY <2>3, <2>4, <2>5, <2>6, <2>8, KnowsLocked, Assemble
<1> QED
  BY <1>2, <1>3 DEF lock_rows

\* what every statement starts from
Ready(r) ==
  /\ todo[r] # <<>> /\ Left(r) >= 1 /\ PlacesOf(r)
  /\ prog \in [Requests -> Programs] /\ Placed /\ Knows(r)
  /\ memo \in [Requests -> MemoRow] /\ memo[r] \in MemoRow
  /\ \A t \in memo[r].locked : t \in Tasks /\ holder[t] = r

LEMMA ReadyAt ==
  ASSUME RowsInv, NEW r \in Requests, NEW s, At(r, s)
  PROVE  Ready(r)
<1>1. /\ todo[r] # <<>> /\ Left(r) >= 1 /\ PlacesOf(r) /\ memo[r] \in MemoRow
      /\ Left(r) > 0 => \A t \in memo[r].locked : holder[t] = r
  BY PlacedHere
<1>2. Left(r) > 0
  BY <1>1 DEF PlacesOf
<1> QED BY <1>1, <1>2 DEF Ready, RowsInv, Typed, MemoRow

\* a statement that writes, goes on and keeps what it has locked
LEMMA WriteStep ==
  ASSUME RowsInv, NEW r \in Requests, Ready(r), RowData', WritesOwn(r), Proceed(r), UNCHANGED memo,
         Left(r)' = Left(r) - 1 /\ Alone(r) =>
           Idle(r)'
  PROVE  RowsInv'
<1>1. Apart(r) /\ TypedRows'
  BY WriteApart
<1>2. Memos' /\ \A q \in Requests \ {r} : memo'[q] = memo[q]
  BY DEF Ready, Memos
<1>3. Alone(r) /\ Left(r)' = Left(r) - 1
  BY <1>2, AloneMoves DEF WritesOwn, Ready
<1>4. \A s \in memo'[r].locked : holder'[s] = r
  BY LockableParts DEF Ready, WritesOwn
<1> QED
  BY <1>1, <1>2, <1>3, <1>4, KnowsLocked, Assemble

LEMMA ClaimEffect ==
  ASSUME RowsInv, NEW r \in Requests, claim(r)
  PROVE  LET t == Head(memo[r].queue) IN
         /\ At(r, "claim") /\ IndexWaits(r) = {} /\ ~Refused(r)
         /\ Ready(r) /\ ToClaim(r)
         /\ t \in Tasks /\ holder[t] = r /\ draft.rows[t].status \in WAITING
         /\ prog[r].user \in Workers
         /\ draft'.rows[t].status = "CLAIMED" /\ draft'.rows[t].claimed_by = prog[r].user
         /\ \A s \in Tasks \ {t} : draft'.rows[s] = draft.rows[s]
         /\ draft'.batches = draft.batches
         /\ WritesOwn(r) /\ UNCHANGED <<holder, memo>> /\ Proceed(r)
<1> DEFINE t == Head(memo[r].queue)
<1>1. At(r, "claim") /\ IndexWaits(r) = {} /\ ~Refused(r)
  BY DEF claim, Runs, WaitsFor, At
<1>2. Ready(r) /\ ToClaim(r)
  BY <1>1, ReadyAt, Places DEF Ready, ToClaim, Before
<1>3. /\ t \in Tasks /\ holder[t] = r /\ draft.rows[t].status \in WAITING
  BY <1>2 DEF Ready, Knows, MemoRow
<1>4. prog[r].user \in Workers
  BY <1>2, ProgramsAssumption DEF ToClaim, Before, Ready, PlacesOf
<1>5. /\ draft' \in Tables
      /\ draft'.rows[t].status = "CLAIMED" /\ draft'.rows[t].claimed_by = prog[r].user
      /\ \A s \in Tasks \ {t} : draft'.rows[s] = draft.rows[s]
      /\ draft'.batches = draft.batches
  <2> DEFINE row == [draft.rows[t] EXCEPT !.status = "CLAIMED", !.claimed_by = prog[r].user]
  <2>1. draft \in Tables /\ draft.rows[t] \in GoodRow
    BY <1>3 DEF RowsInv, Typed, Tables
  <2>2. row \in GoodRow /\ row.status = "CLAIMED" /\ row.claimed_by = prog[r].user
    BY <1>4, <2>1, LockableParts DEF GoodRow, Row, ACTIVE, WAITING
  <2>3. draft' = [draft EXCEPT !.rows[t] = row]
    BY <1>3, <2>1 DEF claim, Tables, GoodRow, Row
  <2> HIDE DEF row
  <2> QED BY <1>3, <2>1, <2>2, <2>3 DEF Tables
<1>6. WritesOwn(r) /\ UNCHANGED <<holder, memo>> /\ Proceed(r)
  BY <1>3, <1>5 DEF claim, WritesOwn, RowsInv, Typed
<1> QED
  BY <1>1, <1>2, <1>3, <1>4, <1>5, <1>6

LEMMA ClaimStep ==
  ASSUME RowsInv, NEW r \in Requests, claim(r)
  PROVE  RowsInv'
<1> DEFINE t == Head(memo[r].queue)
<1>1. /\ At(r, "claim") /\ IndexWaits(r) = {} /\ ~Refused(r)
      /\ Ready(r) /\ ToClaim(r)
      /\ t \in Tasks /\ holder[t] = r /\ draft.rows[t].status \in WAITING
      /\ prog[r].user \in Workers
      /\ draft'.rows[t].status = "CLAIMED" /\ draft'.rows[t].claimed_by = prog[r].user
      /\ \A s \in Tasks \ {t} : draft'.rows[s] = draft.rows[s]
      /\ WritesOwn(r) /\ UNCHANGED <<holder, memo>> /\ Proceed(r)
  BY ClaimEffect
<1> HIDE DEF t
<1>7. \A s \in Tasks : ~HeldBy(View(r).rows[s], prog[r].user)
  BY <1>1 DEF Refused
<1>8. RowData'
  BY <1>1, <1>7, ClaimWrite
<1>9. Left(r)' = Left(r) - 1 /\ Alone(r) =>
        Idle(r)'
  <2>1. memo'[r].queue # <<>>
    BY <1>1 DEF Ready, Knows
  <2> QED
    BY <1>1, <2>1 DEF ToClaim, Before, Alone, Fresh, ToEnd, ToAssign, ToMark, ToComplete, Idle
<1> QED
  BY <1>1, <1>8, <1>9, WriteStep

LEMMA EndEffect ==
  ASSUME RowsInv, NEW r \in Requests, end_task(r)
  PROVE  LET t == Task(r) IN
         /\ Ready(r) /\ ToEnd(r) /\ Kind(r) \in Enders /\ t \in Tasks
         /\ holder[t] = r /\ draft.rows[t] = db.rows[t] /\ ~Over(draft.rows[t])
         /\ Over(draft'.rows[t]) /\ draft'.rows[t].claimed_by = draft.rows[t].claimed_by
         /\ \A s \in Tasks \ {t} : draft'.rows[s] = draft.rows[s]
         /\ draft'.batches = draft.batches
         /\ WritesOwn(r) /\ UNCHANGED <<holder, memo>> /\ Proceed(r)
<1> DEFINE t == Task(r)
<1>1. At(r, "end")
  BY DEF end_task, Runs, At
<1>2. Ready(r) /\ ToEnd(r)
  BY <1>1, ReadyAt, Places DEF Ready, ToEnd, Before
<1>3. Kind(r) \in Enders /\ t \in Tasks
  BY <1>2, ProgramsAssumption DEF ToEnd, Before, Ready, PlacesOf, Enders, Task
<1>4. holder[t] = r /\ draft.rows[t] = db.rows[t] /\ ~Over(draft.rows[t])
  BY <1>2 DEF Ready, Knows
<1>5. /\ draft' \in Tables
      /\ Over(draft'.rows[t]) /\ draft'.rows[t].claimed_by = draft.rows[t].claimed_by
      /\ \A s \in Tasks \ {t} : draft'.rows[s] = draft.rows[s]
      /\ draft'.batches = draft.batches
  <2> DEFINE st == IF prog[r].kind = "cancel" THEN "CANCELLED" ELSE "COMPLETED"
             row == [draft.rows[t] EXCEPT !.status = st]
  <2>1. draft \in Tables /\ draft.rows[t] \in GoodRow
    BY <1>3 DEF RowsInv, Typed, Tables
  <2>2. row \in GoodRow /\ Over(row) /\ row.claimed_by = draft.rows[t].claimed_by
    BY <2>1 DEF GoodRow, Row, ACTIVE, WAITING, TERMINAL, Over
  <2>3. draft' = [draft EXCEPT !.rows[t] = row]
    BY <1>3, <2>1 DEF end_task, Tables, GoodRow, Row, Task
  <2> HIDE DEF row
  <2> QED BY <1>3, <2>1, <2>2, <2>3 DEF Tables
<1>6. WritesOwn(r) /\ UNCHANGED <<holder, memo>> /\ Proceed(r)
  BY <1>3, <1>4, <1>5 DEF end_task, WritesOwn, RowsInv, Typed
<1> QED
  BY <1>2, <1>3, <1>4, <1>5, <1>6

LEMMA EndTaskStep ==
  ASSUME RowsInv, NEW r \in Requests, end_task(r)
  PROVE  RowsInv'
<1> DEFINE t == Task(r)
<1>2. /\ Ready(r) /\ ToEnd(r) /\ Kind(r) \in Enders /\ t \in Tasks
      /\ holder[t] = r /\ draft.rows[t] = db.rows[t] /\ ~Over(draft.rows[t])
      /\ Over(draft'.rows[t]) /\ draft'.rows[t].claimed_by = draft.rows[t].claimed_by
      /\ \A s \in Tasks \ {t} : draft'.rows[s] = draft.rows[s]
      /\ WritesOwn(r) /\ UNCHANGED <<holder, memo>> /\ Proceed(r)
  BY EndEffect
<1>8. RowData'
  BY <1>2, EndWrite
<1>9. Left(r)' = Left(r) - 1 /\ Alone(r) =>
        Idle(r)'
  BY <1>2 DEF ToEnd, Before, Alone, Fresh, ToClaim, ToAssign, ToMark, ToComplete, Idle
<1> QED
  BY <1>2, <1>8, <1>9, WriteStep

\* rows of r's own that wait before and after
Rewaits(r) ==
  /\ WritesOwn(r) /\ UNCHANGED memo
  /\ \A t \in Tasks : \/ draft'.rows[t] = draft.rows[t]
                      \/ /\ draft.rows[t].status \in WAITING
                         /\ draft'.rows[t].status \in WAITING
                         /\ holder[t] = r

LEMMA RewaitStep ==
  ASSUME RowsInv, NEW r \in Requests, Ready(r), Rewaits(r),
         Proceed(r) \/ (Skip(r) /\ Left(r) >= 2),
         Left(r)' \in {Left(r) - 1, Left(r) - 2} /\ Alone(r) =>
           Idle(r)'
  PROVE  RowsInv'
<1>1. Apart(r) /\ TypedRows' /\ RowData'
  BY WriteApart, WaitingWrite DEF Rewaits
<1>2. Memos' /\ \A q \in Requests \ {r} : memo'[q] = memo[q]
  BY DEF Ready, Memos, Rewaits
<1>3. Alone(r) /\ Left(r)' \in {Left(r) - 1, Left(r) - 2}
  BY <1>2, AloneMoves DEF WritesOwn, Ready, Rewaits
<1>4. \A s \in memo'[r].locked : holder'[s] = r
  BY LockableParts DEF Ready, WritesOwn, Rewaits
<1> QED
  BY <1>1, <1>2, <1>3, <1>4, KnowsLocked, Assemble

LEMMA AutoAssignEffect ==
  ASSUME RowsInv, NEW r \in Requests, auto_assign(r)
  PROVE  /\ Ready(r) /\ Rewaits(r) /\ draft'.batches = draft.batches /\ UNCHANGED holder
         /\ Before(r, {"run_dispatch", "availability", "unassign"}, {3})
         /\ \/ Proceed(r)
            \/ Skip(r) /\ \A t \in Tasks : draft'.rows[t] = draft.rows[t]
<1>1. At(r, "auto_assign")
  BY DEF auto_assign, Runs, At
<1>2. Ready(r) /\ Before(r, {"run_dispatch", "availability", "unassign"}, {3})
  BY <1>1, ReadyAt, Places DEF Ready, Before
<1> DEFINE rows == View(r).rows
           unowned == {t \in memo[r].locked : rows[t].status = "QUEUED" /\ rows[t].assigned_to = NULL}
           new(f) == [t \in Tasks |->
                        IF t \in unowned /\ f[t] # NULL
                          THEN [status |-> "ASSIGNED", assigned_to |-> f[t], claimed_by |-> NULL]
                          ELSE draft.rows[t]]
<1>3. PICK f \in [unowned -> Workers \cup {NULL}] :
        /\ draft' = [draft EXCEPT !.rows = new(f)]
        /\ IF \E t \in unowned : f[t] # NULL THEN Proceed(r) ELSE Skip(r)
  BY DEF auto_assign
<1>4. \A t \in unowned : t \in Tasks /\ holder[t] = r /\ draft.rows[t].status \in WAITING
  BY <1>2, ViewIs DEF Ready, RowsInv, WAITING
<1>5. draft \in Tables /\ UNCHANGED <<db, holder, prog, memo>>
  BY DEF RowsInv, Typed, auto_assign
<1> HIDE DEF unowned
<1>6. \A t \in Tasks : draft.rows[t] \in GoodRow
  BY <1>5 DEF Tables
<1>7. new(f) \in [Tasks -> GoodRow]
  <2>1. \A w \in Workers : [status |-> "ASSIGNED", assigned_to |-> w, claimed_by |-> NULL] \in GoodRow
    BY DEF GoodRow, Row, WAITING, ACTIVE, TERMINAL
  <2> QED BY <1>6, <2>1
<1>8. draft' \in Tables /\ draft'.rows = new(f) /\ draft'.batches = draft.batches
  BY <1>3, <1>5, <1>7 DEF Tables
<1>9. \A t \in Tasks : \/ draft'.rows[t] = draft.rows[t]
                       \/ /\ draft.rows[t].status \in WAITING
                          /\ draft'.rows[t].status \in WAITING
                          /\ holder[t] = r
  BY <1>4, <1>8 DEF WAITING
<1>10. WritesOwn(r)
  <2>1. \A t \in Tasks : holder[t] # r => draft'.rows[t] = draft.rows[t]
    BY <1>4, <1>8
  <2> QED BY <1>5, <1>8, <2>1 DEF WritesOwn, RowsInv, Typed
<1>11. (\A t \in unowned : f[t] = NULL) => \A t \in Tasks : draft'.rows[t] = draft.rows[t]
  BY <1>8
<1> QED
  BY <1>2, <1>3, <1>5, <1>8, <1>9, <1>10, <1>11 DEF Rewaits

LEMMA AutoAssignStep ==
  ASSUME RowsInv, NEW r \in Requests, auto_assign(r)
  PROVE  RowsInv'
<1>1. /\ Ready(r) /\ Rewaits(r) /\ (Proceed(r) \/ Skip(r))
      /\ Before(r, {"run_dispatch", "availability", "unassign"}, {3})
  BY AutoAssignEffect
<1>2. Left(r)' \in {Left(r) - 1, Left(r) - 2} /\ Alone(r) =>
        Idle(r)'
  BY <1>1 DEF Before, Alone, Fresh, ToEnd, ToClaim, ToAssign, ToMark, ToComplete, Idle
<1>3. Left(r) >= 2
  BY <1>1 DEF Before
<1> QED
  BY <1>1, <1>2, <1>3, RewaitStep

LEMMA ReleaseEffect ==
  ASSUME RowsInv, NEW r \in Requests, release(r)
  PROVE  /\ Ready(r) /\ Rewaits(r) /\ draft'.batches = draft.batches /\ UNCHANGED holder
         /\ Before(r, {"availability"}, {8}) /\ Proceed(r)
<1>1. At(r, "release")
  BY DEF release, Runs, At
<1>2. Ready(r) /\ Before(r, {"availability"}, {8})
  BY <1>1, ReadyAt, Places DEF Ready, Before
<1> DEFINE rows == View(r).rows
           freed == {t \in memo[r].locked : Releasable(rows[t], prog[r].user)}
           new == [t \in Tasks |-> IF t \in freed
                     THEN [rows[t] EXCEPT !.status = "QUEUED", !.assigned_to = NULL]
                     ELSE draft.rows[t]]
<1>3. draft' = [draft EXCEPT !.rows = new]
  BY DEF release
<1>4. \A t \in freed : /\ t \in Tasks /\ holder[t] = r /\ draft.rows[t].status \in WAITING
                       /\ rows[t] = draft.rows[t]
  BY <1>2, ViewIs DEF Ready, RowsInv, WAITING, Releasable
<1>5. draft \in Tables /\ UNCHANGED <<db, holder, prog, memo>>
  BY DEF RowsInv, Typed, release
<1>6. \A t \in Tasks : draft.rows[t] \in GoodRow
  BY <1>5 DEF Tables
<1> HIDE DEF freed
<1>7. new \in [Tasks -> GoodRow] /\ \A t \in freed : new[t].status \in WAITING
  <2>1. \A row \in GoodRow : row.status \in WAITING =>
           [row EXCEPT !.status = "QUEUED", !.assigned_to = NULL] \in GoodRow
    BY DEF GoodRow, Row, WAITING, ACTIVE, TERMINAL
  <2>2. \A row \in GoodRow : [row EXCEPT !.status = "QUEUED", !.assigned_to = NULL].status = "QUEUED"
    BY DEF GoodRow, Row
  <2> QED BY <1>4, <1>6, <2>1, <2>2 DEF WAITING
<1> HIDE DEF new
<1>8. draft' \in Tables /\ draft'.rows = new /\ draft'.batches = draft.batches
  BY <1>3, <1>5, <1>7 DEF Tables
<1>9. \A t \in Tasks \ freed : draft'.rows[t] = draft.rows[t]
  BY <1>8 DEF new
<1>10. WritesOwn(r)
  <2>1. \A t \in Tasks : holder[t] # r => draft'.rows[t] = draft.rows[t]
    BY <1>4, <1>9
  <2> QED BY <1>5, <1>8, <2>1 DEF WritesOwn, RowsInv, Typed
<1>11. Proceed(r)
  BY DEF release
<1>12. \A t \in freed : draft'.rows[t].status \in WAITING
  BY <1>7, <1>8
<1> QED
  BY <1>2, <1>4, <1>5, <1>8, <1>9, <1>10, <1>11, <1>12 DEF Rewaits

LEMMA ReleaseStep ==
  ASSUME RowsInv, NEW r \in Requests, release(r)
  PROVE  RowsInv'
<1>1. /\ Ready(r) /\ Rewaits(r) /\ Proceed(r) /\ Before(r, {"availability"}, {8})
  BY ReleaseEffect
<1>2. Left(r)' \in {Left(r) - 1, Left(r) - 2} /\ Alone(r) =>
        Idle(r)'
  BY <1>1 DEF Before, Alone, Fresh, ToEnd, ToClaim, ToAssign, ToMark, ToComplete, Idle
<1> QED
  BY <1>1, <1>2, RewaitStep

LEMMA AssignEffect ==
  ASSUME RowsInv, NEW r \in Requests, assign(r)
  PROVE  /\ Ready(r) /\ Rewaits(r) /\ draft'.batches = draft.batches /\ UNCHANGED holder
         /\ Before(r, {"assign"}, {3}) \/ Before(r, {"unassign"}, {8})
         /\ Proceed(r)
<1> DEFINE t == Task(r)
           w == IF prog[r].kind = "assign" THEN prog[r].user ELSE NULL
           row == [status |-> IF w = NULL THEN "QUEUED" ELSE "ASSIGNED",
                   assigned_to |-> w, claimed_by |-> NULL]
<1>1. At(r, "assign")
  BY DEF assign, Runs, At
<1>2. Ready(r) /\ (Before(r, {"assign"}, {3}) \/ Before(r, {"unassign"}, {8}))
  BY <1>1, ReadyAt, Places DEF Ready, Before
<1>3. ToAssign(r)
  BY <1>2 DEF Before, ToAssign, ToMark, ToComplete
<1>4. t \in Tasks /\ w \in Workers \cup {NULL}
  BY <1>2, ProgramsAssumption DEF Before, Ready, PlacesOf, Task
<1>5. holder[t] = r /\ draft.rows[t].status \in WAITING
  BY <1>2, <1>3 DEF Ready, Knows
<1>6. draft \in Tables /\ UNCHANGED <<db, holder, prog, memo>> /\ Proceed(r)
  BY DEF RowsInv, Typed, assign
<1>7. row \in GoodRow /\ row.status \in WAITING
  BY <1>4 DEF GoodRow, Row, WAITING, ACTIVE, TERMINAL
<1>8. draft' = [draft EXCEPT !.rows[t] = row]
  BY DEF assign, Task
<1> HIDE DEF row, w
<1>9. /\ draft' \in Tables /\ draft'.batches = draft.batches /\ draft'.rows[t] = row
      /\ \A s \in Tasks \ {t} : draft'.rows[s] = draft.rows[s]
  BY <1>4, <1>6, <1>7, <1>8 DEF Tables
<1>10. WritesOwn(r)
  BY <1>5, <1>6, <1>9 DEF WritesOwn, RowsInv, Typed
<1> QED
  BY <1>2, <1>5, <1>6, <1>7, <1>9, <1>10 DEF Rewaits

LEMMA AssignStep ==
  ASSUME RowsInv, NEW r \in Requests, assign(r)
  PROVE  RowsInv'
<1>1. /\ Ready(r) /\ Rewaits(r) /\ Proceed(r)
      /\ Before(r, {"assign"}, {3}) \/ Before(r, {"unassign"}, {8})
  BY AssignEffect
<1>2. Left(r)' \in {Left(r) - 1, Left(r) - 2} /\ Alone(r) =>
        Idle(r)'
  BY <1>1 DEF Before, Alone, Fresh, ToEnd, ToClaim, ToAssign, ToMark, ToComplete, Idle
<1> QED
  BY <1>1, <1>2, RewaitStep

\* a Pack Note or an availability row: taken, then written
TakesAndWrites(r, x) ==
  /\ x \in Lockable \ Tasks /\ holder[x] \in {r, NULL}
  /\ WritesOwn(r) /\ UNCHANGED memo
  /\ holder' = [holder EXCEPT ![x] = r] \/ UNCHANGED holder
  /\ \A t \in Tasks : draft'.rows[t] = draft.rows[t]

LEMMA BatchWriteStep ==
  ASSUME RowsInv, NEW r \in Requests, Ready(r), NEW x, TakesAndWrites(r, x), Proceed(r),
         Left(r)' = Left(r) - 1 /\ Alone(r) =>
           Idle(r)'
  PROVE  RowsInv'
<1>1. RowData'
  BY WaitingWrite DEF TakesAndWrites
<1> QED
  BY <1>1, WriteStep DEF TakesAndWrites

LEMMA BatchInProgressEffect ==
  ASSUME RowsInv, NEW r \in Requests, batch_in_progress(r)
  PROVE  /\ Ready(r) /\ Before(r, {"claim_next", "complete_claim"}, {3}) /\ Proceed(r)
         /\ \/ UNCHANGED <<db, draft, holder, prog, memo>>
            \/ /\ Batch(r) \in Batches /\ TakesAndWrites(r, Batch(r))
               /\ holder' = [holder EXCEPT ![Batch(r)] = r]
               /\ View(r).batches[Batch(r)] = "OPEN"
               /\ draft'.batches = [draft.batches EXCEPT ![Batch(r)] = "IN_PROGRESS"]
<1>1. At(r, "batch_in_progress")
  BY DEF batch_in_progress, Runs, At
<1>2. Ready(r) /\ Before(r, {"claim_next", "complete_claim"}, {3})
  BY <1>1, ReadyAt, Places DEF Ready, Before
<1> DEFINE b == Batch(r)
<1>3. Proceed(r) /\ UNCHANGED <<db, prog, memo>>
  BY DEF batch_in_progress
<1>4. CASE b # NULL /\ View(r).batches[b] = "OPEN"
  <2>1. b \in Batches
    <3>1. ToMark(r) /\ memo[r].queue # <<>> /\ memo[r].queue \in Seq(Tasks)
      BY <1>2 DEF ToMark, Ready, Knows, MemoRow
    <3>2. Head(memo[r].queue) \in Tasks
      BY <3>1
    <3>3. b = TaskBatch[Head(memo[r].queue)]
      BY <1>1 DEF Batch
    <3> QED BY <1>4, <3>2, <3>3 DEF Batches
  <2>2. Others(r, b) = {}
    BY <1>1, <1>4 DEF batch_in_progress, Runs, WaitsFor, At
  <2>3. b \in Lockable \ Tasks /\ holder[b] \in {r, NULL}
    BY <2>1, <2>2, OthersFree, LockableParts DEF RowsInv
  <2>4. Lock(r, b) /\ draft' = [draft EXCEPT !.batches[b] = "IN_PROGRESS"]
    BY <1>4 DEF batch_in_progress
  <2>5. /\ draft' \in Tables /\ draft'.rows = draft.rows
        /\ draft'.batches = [draft.batches EXCEPT ![b] = "IN_PROGRESS"]
    BY <2>1, <2>4 DEF RowsInv, Typed, Tables, BatchStatuses
  <2>6. /\ holder' \in [Lockable -> Requests \cup {NULL}]
        /\ holder'[b] = r /\ \A x \in Lockable \ {b} : holder'[x] = holder[x]
    BY <2>3, <2>4 DEF Lock, RowsInv, Typed
  <2>7. \A c \in Batches \ {b} : draft'.batches[c] = draft.batches[c]
    BY <2>5 DEF RowsInv, Typed, Tables
  <2>8. WritesOwn(r)
    BY <1>3, <2>3, <2>5, <2>6, <2>7 DEF WritesOwn
  <2> QED
    BY <1>2, <1>3, <1>4, <2>1, <2>3, <2>4, <2>5, <2>8 DEF TakesAndWrites, Lock
<1>5. CASE ~(b # NULL /\ View(r).batches[b] = "OPEN")
  BY <1>2, <1>3, <1>5 DEF batch_in_progress
<1> QED BY <1>4, <1>5

LEMMA BatchInProgressStep ==
  ASSUME RowsInv, NEW r \in Requests, batch_in_progress(r)
  PROVE  RowsInv'
<1>1. /\ Ready(r) /\ Before(r, {"claim_next", "complete_claim"}, {3}) /\ Proceed(r)
  BY BatchInProgressEffect
<1>2. Left(r)' = Left(r) - 1 /\ Alone(r) =>
        Idle(r)'
  BY <1>1 DEF Before, Alone, Fresh, ToEnd, ToClaim, ToAssign, ToMark, ToComplete, Idle
<1>3. CASE UNCHANGED <<db, draft, holder, prog, memo>>
  <2>1. RowData' /\ Apart(r) /\ TypedRows'
    BY <1>3, ReadData
  <2>2. Memos' /\ \A q \in Requests \ {r} : memo'[q] = memo[q]
    BY <1>1, <1>3 DEF Memos, Ready
  <2>3. Alone(r) /\ Left(r)' = Left(r) - 1
    BY <1>1, <1>3, <2>2, AloneMoves DEF Ready
  <2>4. \A t \in memo'[r].locked : holder'[t] = r
    BY <1>1, <1>3 DEF Ready
  <2> QED BY <1>2, <2>1, <2>2, <2>3, <2>4, KnowsLocked, Assemble
<1>4. CASE TakesAndWrites(r, Batch(r))
  BY <1>1, <1>2, <1>4, BatchWriteStep
<1> QED BY <1>3, <1>4, BatchInProgressEffect

LEMMA BatchCompletedEffect ==
  ASSUME RowsInv, NEW r \in Requests, batch_completed(r)
  PROVE  LET b == TaskBatch[Task(r)] IN
         /\ b \in Batches /\ Ready(r) /\ ToComplete(r) /\ Proceed(r)
         /\ TakesAndWrites(r, b)
         /\ holder' = [holder EXCEPT ![b] = r]
         /\ draft'.batches = [draft.batches EXCEPT ![b] = "COMPLETED"]
<1> DEFINE b == TaskBatch[Task(r)]
<1>1. At(r, "batch_completed")
  BY DEF batch_completed, Runs, At
<1>2. Ready(r) /\ ToComplete(r) /\ b \in Batches
  BY <1>1, ReadyAt, Places DEF Ready, Before, ToComplete, Knows
<1>3. Proceed(r) /\ UNCHANGED <<db, prog, memo>> /\ Batch(r) = b
  BY <1>1 DEF batch_completed, Batch, At, Task
<1>4. Others(r, b) = {}
  BY <1>1, <1>3 DEF batch_completed, Runs, WaitsFor, At
<1>5. b \in Lockable \ Tasks /\ holder[b] \in {r, NULL}
  BY <1>2, <1>4, OthersFree, LockableParts DEF RowsInv
<1>6. Lock(r, b) /\ draft' = [draft EXCEPT !.batches[b] = "COMPLETED"]
  BY <1>3 DEF batch_completed
<1>7. /\ draft' \in Tables /\ draft'.rows = draft.rows
      /\ draft'.batches = [draft.batches EXCEPT ![b] = "COMPLETED"]
  BY <1>2, <1>6 DEF RowsInv, Typed, Tables, BatchStatuses
<1>8. /\ holder' \in [Lockable -> Requests \cup {NULL}]
      /\ holder'[b] = r /\ \A x \in Lockable \ {b} : holder'[x] = holder[x]
  BY <1>5, <1>6 DEF Lock, RowsInv, Typed
<1>9. \A c \in Batches \ {b} : draft'.batches[c] = draft.batches[c]
  BY <1>7 DEF RowsInv, Typed, Tables
<1>10. WritesOwn(r)
  BY <1>3, <1>5, <1>7, <1>8, <1>9 DEF WritesOwn
<1> QED
  BY <1>2, <1>3, <1>5, <1>6, <1>7, <1>10 DEF TakesAndWrites, Lock

LEMMA BatchCompletedStep ==
  ASSUME RowsInv, NEW r \in Requests, batch_completed(r)
  PROVE  RowsInv'
<1>1. /\ Ready(r) /\ ToComplete(r) /\ Proceed(r) /\ TakesAndWrites(r, TaskBatch[Task(r)])
  BY BatchCompletedEffect
<1>2. Left(r)' = Left(r) - 1 /\ Alone(r) =>
        Idle(r)'
  BY <1>1 DEF ToComplete, Idle, Before, Alone, Fresh, ToEnd, ToClaim, ToAssign, ToMark, ToComplete, Idle
<1> QED
  BY <1>1, <1>2, BatchWriteStep

LEMMA UpsertEffect ==
  ASSUME RowsInv, NEW r \in Requests, upsert_status(r)
  PROVE  LET w == prog[r].user IN
         /\ Ready(r) /\ Before(r, {"availability"}, {11}) /\ Proceed(r)
         /\ w \in Workers /\ TakesAndWrites(r, w)
         /\ holder' = [holder EXCEPT ![w] = r]
         /\ draft'.batches = draft.batches
<1> DEFINE w == prog[r].user
<1>1. At(r, "upsert_status")
  BY DEF upsert_status, Runs, At
<1>2. Ready(r) /\ Before(r, {"availability"}, {11})
  BY <1>1, ReadyAt, Places DEF Ready, Before
<1>3. Proceed(r) /\ UNCHANGED <<db, prog, memo>>
  BY DEF upsert_status
<1>4. Others(r, w) = {}
  BY <1>1 DEF upsert_status, Runs, WaitsFor, At
<1>5. w \in Workers /\ prog[r].status \in AvailabilityStatuses
  BY <1>2, ProgramsAssumption DEF Before, Ready, PlacesOf
<1>6. w \in Lockable \ Tasks /\ holder[w] \in {r, NULL}
  BY <1>4, <1>5, OthersFree, LockableParts DEF RowsInv
<1>7. Lock(r, w) /\ draft' = [draft EXCEPT !.duty[w] = prog[r].status]
  BY DEF upsert_status
<1>8. draft' \in Tables /\ draft'.rows = draft.rows /\ draft'.batches = draft.batches
  BY <1>5, <1>7 DEF RowsInv, Typed, Tables
<1>9. /\ holder' \in [Lockable -> Requests \cup {NULL}]
      /\ holder'[w] = r /\ \A x \in Lockable \ {w} : holder'[x] = holder[x]
  BY <1>6, <1>7 DEF Lock, RowsInv, Typed
<1>10. WritesOwn(r)
  BY <1>3, <1>6, <1>8, <1>9 DEF WritesOwn
<1> QED
  BY <1>2, <1>3, <1>5, <1>6, <1>7, <1>8, <1>10 DEF TakesAndWrites, Lock

LEMMA UpsertStep ==
  ASSUME RowsInv, NEW r \in Requests, upsert_status(r)
  PROVE  RowsInv'
<1>1. /\ Ready(r) /\ Before(r, {"availability"}, {11}) /\ Proceed(r)
      /\ TakesAndWrites(r, prog[r].user)
  BY UpsertEffect
<1>2. Left(r)' = Left(r) - 1 /\ Alone(r) =>
        Idle(r)'
  BY <1>1 DEF Before, Alone, Fresh, ToEnd, ToClaim, ToAssign, ToMark, ToComplete, Idle
<1> QED
  BY <1>1, <1>2, BatchWriteStep

\* the end of a transaction: a request that is over knows nothing
LEMMA OverStep ==
  ASSUME RowsInv, NEW r \in Requests, RowData', Apart(r), TypedRows', Goto(r, <<>>),
         UNCHANGED <<prog, memo>>
  PROVE  RowsInv'
<1>1. Alone(r) /\ Left(r)' = 0
  BY AloneMoves
<1>2. Memos'
  BY DEF Memos, MemoRow, RowsInv, Typed
<1>3. Idle(r)'
  BY <1>1 DEF Before, Fresh, ToEnd, ToClaim, ToAssign, ToMark, ToComplete, Idle
<1> QED
  BY <1>1, <1>2, <1>3, KnowsLocked, Assemble

LEMMA EndingStep ==
  ASSUME RowsInv, NEW r \in Requests, commit(r) \/ refuse(r) \/ deadlock_detected(r)
  PROVE  RowsInv'
<1>1. CASE commit(r)
  <2>1. Releases(r) /\ db' = View(r) /\ Goto(r, <<>>) /\ UNCHANGED <<draft, prog, memo>>
    BY <1>1 DEF commit, Releases, Unlock
  <2> QED BY <2>1, CommitData, OverStep
<1>2. CASE Rollback(r)
  <2>1. Goto(r, <<>>) /\ UNCHANGED <<prog, memo>>
    BY <1>2 DEF Rollback
  <2> QED BY <1>2, <2>1, RollbackData, OverStep
<1> QED BY <1>1, <1>2 DEF refuse, deadlock_detected

LEMMA RowsInvStep ==
  ASSUME RowsInv, NEW r \in Requests, Statement(r)
  PROVE  RowsInv'
  BY ReadStep, LockCandidateStep, ClaimStep, BatchInProgressStep, TaskForUpdateStep, EndTaskStep,
     AuditStep, BatchCompletedStep, LockRowsStep, AutoAssignStep, UpsertStep, ReleaseStep,
     AssignStep, EndingStep
  DEF Statement

LEMMA RowsInvNext == RowsInv /\ [Next]_vars => RowsInv'
<1> SUFFICES ASSUME RowsInv, [Next]_vars PROVE RowsInv'
  OBVIOUS
<1>1. CASE UNCHANGED vars
  <2>1. UNCHANGED <<db, draft, holder, prog, memo, todo>>
    BY <1>1 DEF vars
  <2>2. RowsInv'
    BY <2>1 DEF RowsInv, Typed, Placed, OnScript, Clean, OneInHand, Entry, Changes, Same, Taken,
       Ended, Knows, Fresh, ToEnd, ToClaim, ToAssign, ToMark, ToComplete, Before, Kind, Left, Task
  <2> QED BY <2>2
<1> QED BY <1>1, RowsInvStep DEF Next

LEMMA StartIs ==
  ASSUME Init
  PROVE  /\ db \in Tables /\ draft = db
         /\ \A t \in Tasks : db.rows[t].status \in {"QUEUED", "ASSIGNED", "IN_PROGRESS", "COMPLETED"}
         /\ \A t \in Tasks : db.rows[t].status \in WAITING => db.rows[t].claimed_by = NULL
         /\ \A u \in Workers, s, t \in Tasks : s # t =>
              ~ (HeldBy(db.rows[s], u) /\ HeldBy(db.rows[t], u))
         /\ \A b \in Batches :
              db.batches[b] = "COMPLETED" <=>
                \A t \in Tasks : TaskBatch[t] = b => db.rows[t].status = "COMPLETED"
<1>1. PICK rows \in StartRows :
        db = [rows    |-> rows,
              batches |-> [b \in Batches |->
                CASE \A t \in Tasks : TaskBatch[t] = b => rows[t].status = "COMPLETED" ->
                       "COMPLETED"
                  [] \A t \in Tasks : TaskBatch[t] = b => rows[t].claimed_by = NULL -> "OPEN"
                  [] OTHER -> "IN_PROGRESS"],
              duty    |-> [w \in Workers |-> "AVAILABLE"]]
  BY DEF Init
<1> DEFINE Q == [status : {"QUEUED"}, assigned_to : {NULL}, claimed_by : {NULL}]
           A == [status : {"ASSIGNED"}, assigned_to : Workers, claimed_by : {NULL}]
           C == [status : {"IN_PROGRESS", "COMPLETED"}, assigned_to : {NULL}, claimed_by : Workers]
           batches == [b \in Batches |->
                CASE \A t \in Tasks : TaskBatch[t] = b => rows[t].status = "COMPLETED" ->
                       "COMPLETED"
                  [] \A t \in Tasks : TaskBatch[t] = b => rows[t].claimed_by = NULL -> "OPEN"
                  [] OTHER -> "IN_PROGRESS"]
<1>2. /\ rows \in [Tasks -> Q \cup A \cup C]
      /\ \A s, t \in Tasks : s # t =>
           ~ /\ rows[s].status = "IN_PROGRESS" /\ rows[t].status = "IN_PROGRESS"
             /\ rows[s].claimed_by = rows[t].claimed_by
  BY DEF StartRows
<1>3. \A row \in Q \cup A \cup C :
         /\ row \in GoodRow
         /\ row.status \in {"QUEUED", "ASSIGNED", "IN_PROGRESS", "COMPLETED"}
         /\ row.status \in WAITING => row.claimed_by = NULL
  BY LockableParts DEF GoodRow, Row, WAITING, ACTIVE, TERMINAL
<1> HIDE DEF Q, A, C
<1>4. rows \in [Tasks -> GoodRow] /\ \A t \in Tasks : rows[t] \in Q \cup A \cup C
  BY <1>2, <1>3
<1>5. /\ batches \in [Batches -> BatchStatuses]
      /\ \A b \in Batches :
           batches[b] = "COMPLETED" <=>
             \A t \in Tasks : TaskBatch[t] = b => rows[t].status = "COMPLETED"
  <2> SUFFICES ASSUME NEW b \in Batches
               PROVE  /\ batches[b] \in BatchStatuses
                      /\ batches[b] = "COMPLETED" <=>
                           \A t \in Tasks : TaskBatch[t] = b => rows[t].status = "COMPLETED"
    BY DEF batches
  <2> DEFINE ended  == \A t \in Tasks : TaskBatch[t] = b => rows[t].status = "COMPLETED"
             untouched == \A t \in Tasks : TaskBatch[t] = b => rows[t].claimed_by = NULL
  <2>1. \A row \in Q \cup A \cup C : row.status = "COMPLETED" => row.claimed_by # NULL
    BY LockableParts DEF Q, A, C
  <2>2. ~(ended /\ untouched)
    <3>1. PICK t \in Tasks : TaskBatch[t] = b
      BY DEF Batches
    <3> QED BY <1>4, <2>1, <3>1
  <2>3. batches[b] = CASE ended -> "COMPLETED" [] untouched -> "OPEN" [] OTHER -> "IN_PROGRESS"
    BY DEF batches
  <2> HIDE DEF ended, untouched, batches
  <2>4. CASE ended
    <3>1. batches[b] = "COMPLETED"
      BY <2>2, <2>3, <2>4
    <3> QED BY <2>4, <3>1 DEF BatchStatuses, ended
  <2>5. CASE ~ended /\ untouched
    <3>1. batches[b] = "OPEN"
      BY <2>3, <2>5
    <3> QED BY <2>5, <3>1 DEF BatchStatuses, ended
  <2>6. CASE ~ended /\ ~untouched
    <3>1. batches[b] = "IN_PROGRESS"
      BY <2>3, <2>6
    <3> QED BY <2>6, <3>1 DEF BatchStatuses, ended
  <2> QED BY <2>4, <2>5, <2>6
<1> HIDE DEF batches
<1>6. db = [rows |-> rows, batches |-> batches, duty |-> [w \in Workers |-> "AVAILABLE"]]
  BY <1>1 DEF batches
<1>7. db.rows = rows /\ db.batches = batches /\ db \in Tables /\ draft = db
  BY <1>4, <1>5, <1>6 DEF Tables, AvailabilityStatuses, Init
<1>8. \A u \in Workers, s, t \in Tasks : s # t =>
        ~ (HeldBy(rows[s], u) /\ HeldBy(rows[t], u))
  BY <1>2, <1>3, <1>4 DEF HeldBy, ACTIVE
<1> QED BY <1>3, <1>4, <1>5, <1>7, <1>8

LEMMA RowsInvInit == Init => RowsInv
<1> SUFFICES ASSUME Init PROVE RowsInv
  OBVIOUS
<1>1. /\ holder = [x \in Lockable |-> NULL]
      /\ prog \in [Requests -> Programs]
      /\ memo = [r \in Requests |-> [queue |-> <<>>, locked |-> {}, on_duty |-> {}]]
      /\ todo = [r \in Requests |-> Statements(prog[r])]
  BY DEF Init
<1>2. Typed
  BY <1>1, StartIs DEF Typed
<1>3. Placed
  BY PlacedInit
<1>4. Clean
  BY StartIs DEF Clean
<1>5. OneInHand
  BY StartIs DEF OneInHand, Entry
<1>6. Changes
  BY <1>1, LockableParts DEF Changes
<1>7. ASSUME NEW r \in Requests PROVE Knows(r)
  <2>1. Left(r) = Length(Kind(r)) /\ Kind(r) \in Kinds
    BY <1>1, ScriptIs, ScriptType, KindIs DEF Left, Kind
  <2>2. ~ToEnd(r) /\ ~ToClaim(r) /\ ~ToAssign(r) /\ ~ToMark(r) /\ ~ToComplete(r)
    BY <2>1 DEF ToEnd, ToClaim, ToAssign, ToMark, ToComplete, Before, Length
  <2>3. (\A x \in Lockable : holder[x] # r) /\ memo[r].locked = {}
    BY <1>1, LockableParts
  <2> QED BY <2>2, <2>3 DEF Knows
<1> QED BY <1>2, <1>3, <1>4, <1>5, <1>6, <1>7 DEF RowsInv

-----------------------------------------------------------------------------
(***************************************************************************)
(* What is committed is a behaviour of ClaimOnce                           *)
(***************************************************************************)
Claimants == [t \in Tasks |-> db.rows[t].claimed_by]
Finished == {t \in Tasks : db.rows[t].status \in TERMINAL}

\* only a commit changes the committed rows
LEMMA OnlyCommits ==
  ASSUME RowsInv, NEW r \in Requests, Statement(r), ~commit(r)
  PROVE  UNCHANGED db
  BY DEF Statement, get_current_task, check_availability, select_candidates, lock_candidate, claim,
     batch_in_progress, task_for_update, end_task, write_audit_log, count_remaining,
     batch_completed, eligible_workers, open_tasks, lock_rows, auto_assign, upsert_status,
     assigned_tasks, release, check_assignee, assign, refuse, deadlock_detected, Rollback

LEMMA CommitPromise ==
  ASSUME RowsInv, NEW r \in Requests, commit(r)
  PROVE  [Promise!Next]_<<Claimants, Finished>>
<1>1. \A t \in Tasks : db'.rows[t] = IF holder[t] = r THEN draft.rows[t] ELSE db.rows[t]
  BY ViewIs DEF commit, RowsInv
<1>2. \A t \in Tasks : holder[t] = r => Same(t) \/ Taken(t, r) \/ Ended(t, r)
  BY DEF RowsInv, Changes
<1> DEFINE took(t) == holder[t] = r /\ Taken(t, r)
           ended(t) == holder[t] = r /\ Ended(t, r)
           u == prog[r].user
<1>3. \A t \in Tasks : ~took(t) =>
         db'.rows[t].claimed_by = db.rows[t].claimed_by
  BY <1>1, <1>2 DEF Same, Ended
<1>4. \A t \in Tasks : ~ended(t) => (t \in Finished' <=> t \in Finished)
  BY <1>1, <1>2 DEF Same, Taken, Finished, Over, WAITING, TERMINAL
<1>5. \A t \in Tasks : ended(t) => t \notin Finished /\ t \in Finished' /\ ~took(t)
  BY <1>1 DEF Ended, Taken, Finished, Over, TERMINAL
<1>6. \A s, t \in Tasks : ended(s) /\ ended(t) => s = t
  BY DEF Ended
<1>7. \A t \in Tasks : took(t) =>
        /\ u \in Workers /\ Claimants[t] = NULL /\ Claimants'[t] = u /\ t \notin Finished
        /\ HeldBy(draft.rows[t], u)
  BY <1>1 DEF Taken, Claimants, Finished, HeldBy, ACTIVE, WAITING, TERMINAL
<1>8. \A s, t \in Tasks : took(s) /\ took(t) => s = t
  BY <1>7 DEF RowsInv, OneInHand
<1>9. ASSUME NEW t \in Tasks, took(t), NEW s \in Promise!InHand(u)
      PROVE  ended(s)
  <2>1. s \in Tasks /\ HeldBy(db.rows[s], u)
    <3>1. /\ s \in Tasks \ {x \in Tasks : db.rows[x].status \in TERMINAL}
          /\ [x \in Tasks |-> db.rows[x].claimed_by][s] = u
      BY <1>9 DEF Promise!InHand
    <3>2. u # NULL /\ db.rows[s] \in GoodRow
      BY <1>7, <1>9, <3>1, LockableParts DEF RowsInv, Typed, Tables
    <3> QED BY <3>1, <3>2 DEF GoodRow, Row, HeldBy
  <2>2. s # t
    BY <1>7, <1>9, <2>1, LockableParts DEF HeldBy, Claimants
  <2>3. holder[s] = r /\ ~HeldBy(draft.rows[s], u)
    BY <1>7, <1>9, <2>1, <2>2 DEF RowsInv, OneInHand, Entry
  <2>4. ~Same(s) /\ ~Taken(s, r)
    <3>1. db.rows[s].claimed_by = u /\ db.rows[s].status \in ACTIVE /\ u # NULL
      BY <1>7, <1>9, <2>1, LockableParts DEF HeldBy
    <3>2. ~Taken(s, r)
      BY <3>1 DEF Taken
    <3>3. draft.rows[s] \in GoodRow
      BY <2>1 DEF RowsInv, Typed, Tables
    <3>4. ~Same(s)
      BY <2>3, <3>1, <3>3 DEF Same, HeldBy, GoodRow, Row, Over, ACTIVE, WAITING, TERMINAL
    <3> QED BY <3>2, <3>4
  <2> QED BY <1>2, <2>1, <2>3, <2>4
<1> HIDE DEF took, ended, u
<1>10. CASE (\A t \in Tasks : ~took(t)) /\ (\A t \in Tasks : ~ended(t))
  <2>1. Claimants' = Claimants /\ Finished' = Finished
    BY <1>3, <1>4, <1>10 DEF Claimants, Finished
  <2> QED BY <2>1
<1>11. ASSUME \A t \in Tasks : ~took(t), NEW s \in Tasks, ended(s)
       PROVE  Promise!Finish(s)
  <2>1. Claimants' = Claimants
    BY <1>3, <1>11 DEF Claimants
  <2>2. s \notin Finished /\ Finished' = Finished \cup {s}
    BY <1>4, <1>5, <1>6, <1>11 DEF Finished
  <2> QED BY <2>1, <2>2 DEF Promise!Finish, Claimants, Finished
<1>12. ASSUME \A s \in Tasks : ~ended(s), NEW t \in Tasks, took(t)
       PROVE  u \in Workers /\ Promise!Take(u, t)
  <2>1. Finished' = Finished
    BY <1>4, <1>12 DEF Finished
  <2>2. Claimants' = [Claimants EXCEPT ![t] = u]
    BY <1>3, <1>7, <1>8, <1>12 DEF Claimants
  <2>3. Promise!InHand(u) = {} /\ u \in Workers /\ t \notin Finished /\ Claimants[t] = NULL
    <3>1. \A s \in Promise!InHand(u) : s \in Tasks
      BY DEF Promise!InHand
    <3> QED BY <1>7, <1>9, <1>12, <3>1
  <2> QED BY <2>1, <2>2, <2>3 DEF Promise!Take, Claimants, Finished
<1>13. ASSUME NEW s \in Tasks, ended(s), NEW t \in Tasks, took(t)
       PROVE  u \in Workers /\ Promise!FinishAndTake(s, u, t)
  <2>1. s \notin Finished /\ Finished' = Finished \cup {s}
    BY <1>4, <1>5, <1>6, <1>13 DEF Finished
  <2>2. Claimants' = [Claimants EXCEPT ![t] = u]
    BY <1>3, <1>7, <1>8, <1>13 DEF Claimants
  <2>3. Promise!InHand(u) \subseteq {s} /\ u \in Workers /\ t \notin Finished /\ Claimants[t] = NULL
    <3>1. \A x \in Promise!InHand(u) : x \in Tasks
      BY DEF Promise!InHand
    <3> QED BY <1>6, <1>7, <1>9, <1>13, <3>1
  <2>4. t # s
    BY <1>5, <1>13
  <2> QED BY <2>1, <2>2, <2>3, <2>4 DEF Promise!FinishAndTake, Claimants, Finished
<1> QED
  BY <1>10, <1>11, <1>12, <1>13 DEF Promise!Next

LEMMA StepPromise ==
  ASSUME RowsInv, [Next]_vars
  PROVE  [Promise!Next]_<<Claimants, Finished>>
<1>1. CASE UNCHANGED db
  BY <1>1 DEF Claimants, Finished
<1>2. ASSUME NEW r \in Requests, Statement(r) PROVE [Promise!Next]_<<Claimants, Finished>>
  BY <1>1, <1>2, OnlyCommits, CommitPromise
<1> QED BY <1>1, <1>2 DEF Next, vars

LEMMA StartPromise ==
  ASSUME Init
  PROVE  Promise!Init
<1>1. /\ db \in Tables
      /\ \A t \in Tasks : db.rows[t].status \in {"QUEUED", "ASSIGNED", "IN_PROGRESS", "COMPLETED"}
      /\ \A u \in Workers, s, t \in Tasks : s # t =>
           ~ (HeldBy(db.rows[s], u) /\ HeldBy(db.rows[t], u))
  BY StartIs
<1>2. \A t \in Tasks : db.rows[t] \in GoodRow
  BY <1>1 DEF Tables
<1>3. Claimants \in [Tasks -> Workers \cup {NULL}]
  BY <1>2 DEF Claimants, GoodRow, Row
<1>4. ASSUME NEW u \in Workers, NEW s \in Promise!InHand(u)
      PROVE  s \in Tasks /\ HeldBy(db.rows[s], u)
  <2>1. s \in Tasks \ Finished /\ Claimants[s] = u
    BY <1>4 DEF Promise!InHand, Claimants, Finished
  <2> QED
    BY <1>1, <1>2, <2>1, LockableParts DEF Claimants, Finished, GoodRow, Row, HeldBy, WAITING, ACTIVE, TERMINAL
<1>5. \A u \in Workers : \A s, t \in Promise!InHand(u) : s = t
  BY <1>1, <1>4
<1> QED BY <1>3, <1>5 DEF Promise!Init, Claimants

\* Whatever the interleaving of the statements, nobody but a row's holder has written
\* to it, an employee is in one active row at most (the unique index as the claims
\* see it), and a request finds what it locked as it left it.
THEOREM RowsKept == Spec => []RowsInv
<1> QED BY RowsInvInit, RowsInvNext, PTL DEF Spec

\* "many handhelds ask for work at once without ever assigning the same task twice":
\* the commits of claims, completions that claim, dispatch and reassignment, in any
\* order and with any rollbacks, are steps of ClaimOnce.
THEOREM ClaimsKept == Spec => ClaimsOnce
<1>1. Init => Promise!Init
  BY StartPromise
<1>2. RowsInv /\ [Next]_vars
        => [Promise!Next]_<<[t \in Tasks |-> db.rows[t].claimed_by],
                            {t \in Tasks : db.rows[t].status \in TERMINAL}>>
  BY StepPromise DEF Claimants, Finished
<1> QED
  BY <1>1, <1>2, RowsKept, PTL DEF Spec, ClaimsOnce, Promise!Spec

\* the statements before the end of a transaction
Running(r) == Statement(r) /\ ~commit(r) /\ ~refuse(r) /\ ~deadlock_detected(r)

\* r runs statement s and goes on
Passes(r, s) ==
  /\ At(r, s) /\ Ready(r) /\ Alone(r)
  /\ \/ Left(r)' = Left(r) - 1
     \/ s \in {"auto_assign", "count_remaining"} /\ Left(r)' = Left(r) - 2
     \/ s \in {"get_current_task", "availability", "lock_candidate"} /\ Left(r)' = 1
     \/ s = "lock_rows" /\ Left(r)' = Left(r)

LEMMA MovesBy ==
  ASSUME RowsInv, NEW r \in Requests, NEW s, At(r, s), UNCHANGED prog,
         \A q \in Requests \ {r} : memo'[q] = memo[q],
         \/ Proceed(r)
         \/ s \in {"auto_assign", "count_remaining"} /\ Skip(r)
         \/ s \in {"get_current_task", "availability", "lock_candidate"} /\ Commit(r)
         \/ s = "lock_rows" /\ UNCHANGED todo
  PROVE  Passes(r, s)
<1>1. Ready(r)
  BY ReadyAt
<1>2. CASE Proceed(r)
  BY <1>1, <1>2, AloneMoves DEF Passes, Ready
<1>3. CASE s \in {"auto_assign", "count_remaining"} /\ Skip(r)
  <2>1. Left(r) >= 2
    BY <1>1, <1>3, Places DEF Ready, Before
  <2> QED BY <1>1, <1>3, <2>1, AloneMoves DEF Passes, Ready
<1>4. CASE s \in {"get_current_task", "availability", "lock_candidate"} /\ Commit(r)
  BY <1>1, <1>4, AloneMoves DEF Passes, Ready
<1>5. CASE s = "lock_rows" /\ UNCHANGED todo
  <2>1. Placed'
    BY <1>1, <1>5 DEF Ready, Placed, OnScript, Kind
  <2>2. \A q \in Requests : Left(q)' = Left(q) /\ Kind(q)' = Kind(q)
    BY <1>5 DEF Left, Kind
  <2> QED BY <1>1, <1>5, <2>1, <2>2 DEF Passes, Alone
<1> QED BY <1>2, <1>3, <1>4, <1>5

LEMMA StepMoves ==
  ASSUME RowsInv, NEW r \in Requests
  PROVE
    /\ get_current_task(r) => Passes(r, "get_current_task")
    /\ check_availability(r) => Passes(r, "availability")
    /\ select_candidates(r) => Passes(r, "candidates")
    /\ lock_candidate(r) => Passes(r, "lock_candidate")
    /\ claim(r) => Passes(r, "claim")
    /\ batch_in_progress(r) => Passes(r, "batch_in_progress")
    /\ task_for_update(r) => Passes(r, "task_for_update")
    /\ end_task(r) => Passes(r, "end")
    /\ write_audit_log(r) => Passes(r, "audit")
    /\ count_remaining(r) => Passes(r, "count_remaining")
    /\ batch_completed(r) => Passes(r, "batch_completed")
    /\ eligible_workers(r) => Passes(r, "eligible_workers")
    /\ open_tasks(r) => Passes(r, "open_tasks")
    /\ lock_rows(r) => Passes(r, "lock_rows")
    /\ auto_assign(r) => Passes(r, "auto_assign")
    /\ upsert_status(r) => Passes(r, "upsert_status")
    /\ assigned_tasks(r) => Passes(r, "assigned_tasks")
    /\ release(r) => Passes(r, "release")
    /\ check_assignee(r) => \E s \in {"eligible", "counterpart"} : Passes(r, s)
    /\ assign(r) => Passes(r, "assign")
<1>1. memo \in [Requests -> MemoRow]
  BY DEF RowsInv, Typed, MemoRow
<1>2. get_current_task(r) => Passes(r, "get_current_task")
  BY MovesBy DEF get_current_task, Runs
<1>3. check_availability(r) => Passes(r, "availability")
  BY MovesBy DEF check_availability, Runs
<1>4. select_candidates(r) => Passes(r, "candidates")
  BY <1>1, MovesBy DEF select_candidates, Runs, MemoRow
<1>5. lock_candidate(r) => Passes(r, "lock_candidate")
  BY <1>1, MovesBy DEF lock_candidate, Runs, MemoRow
<1>6. claim(r) => Passes(r, "claim")
  BY MovesBy DEF claim, Runs
<1>7. batch_in_progress(r) => Passes(r, "batch_in_progress")
  BY MovesBy DEF batch_in_progress, Runs
<1>8. task_for_update(r) => Passes(r, "task_for_update")
  BY MovesBy DEF task_for_update, Runs
<1>9. end_task(r) => Passes(r, "end")
  BY MovesBy DEF end_task, Runs
<1>10. write_audit_log(r) => Passes(r, "audit")
  BY MovesBy DEF write_audit_log, Runs
<1>11. count_remaining(r) => Passes(r, "count_remaining")
  BY MovesBy DEF count_remaining, Runs
<1>12. batch_completed(r) => Passes(r, "batch_completed")
  BY MovesBy DEF batch_completed, Runs
<1>13. eligible_workers(r) => Passes(r, "eligible_workers")
  BY <1>1, MovesBy DEF eligible_workers, Runs, MemoRow
<1>14. open_tasks(r) => Passes(r, "open_tasks")
  BY <1>1, MovesBy DEF open_tasks, Runs, MemoRow
<1>15. lock_rows(r) => Passes(r, "lock_rows")
  BY <1>1, MovesBy DEF lock_rows, Runs, MemoRow
<1>16. auto_assign(r) => Passes(r, "auto_assign")
  BY MovesBy DEF auto_assign, Runs
<1>17. upsert_status(r) => Passes(r, "upsert_status")
  BY MovesBy DEF upsert_status, Runs
<1>18. assigned_tasks(r) => Passes(r, "assigned_tasks")
  BY <1>1, MovesBy DEF assigned_tasks, Runs, MemoRow
<1>19. release(r) => Passes(r, "release")
  BY MovesBy DEF release, Runs
<1>20. check_assignee(r) => \E s \in {"eligible", "counterpart"} : Passes(r, s)
  BY MovesBy DEF check_assignee, Runs
<1>21. assign(r) => Passes(r, "assign")
  BY MovesBy DEF assign, Runs
<1> QED
  BY <1>2, <1>3, <1>4, <1>5, <1>6, <1>7, <1>8, <1>9, <1>10, <1>11, <1>12, <1>13, <1>14,
     <1>15, <1>16, <1>17, <1>18, <1>19, <1>20, <1>21

-----------------------------------------------------------------------------
(***************************************************************************)
(* A Pack Note is completed with its last task                             *)
(***************************************************************************)
\* where on its way to completing a Pack Note a statement brings r
LEMMA BatchPath ==
  ASSUME RowsInv, NEW r \in Requests, NEW s, Passes(r, s)
  PROVE  /\ Audited(r)' /\ s # "audit" => Audited(r)
         /\ Unbatched(r)' =>
              Unbatched(r) /\ s \in {"task_for_update", "end", "audit"}
         /\ ToComplete(r)' => s = "count_remaining"
         /\ Counted(r)' /\ s \notin {"count_remaining", "batch_completed"} =>
              Counted(r) /\ s # "end"
         /\ ToComplete(r) => Audited(r)
         /\ Counted(r) => Audited(r)
<1>1. At(r, s) /\ Ready(r) /\ Kind(r)' = Kind(r) /\ Left(r) \in 0 .. 13
  BY DEF Passes, Alone, Ready, PlacesOf
<1>2. prog \in [Requests -> Programs] /\ Placed
  BY <1>1 DEF Ready
<1>3. ToComplete(r) => Audited(r)
  BY DEF ToComplete, Audited, Before
<1>4. Counted(r) => Audited(r)
  BY DEF Counted, Audited, Before
<1>5. Kind(r) \in Kinds /\ Script(Kind(r))[Length(Kind(r)) - Left(r) + 1] = s
      /\ Left(r) \in 1 .. Length(Kind(r))
  BY <1>1, <1>2, HeadIs, KindIs DEF At
<1>6. CASE Kind(r) \notin Enders \cup {"unassign"}
  BY <1>1, <1>3, <1>4, <1>6 DEF Audited, Unbatched, ToComplete, Counted, Before, Enders
<1>7. CASE Kind(r) = "unassign"
  <2>1. Left(r) \in 1 .. 9
    BY <1>5, <1>7 DEF Length
  <2>2. Left(r) = 7 => s = "audit"
    BY <1>5, <1>7 DEF Length, Script
  <2>3. Left(r) = 8 => s = "assign"
    BY <1>5, <1>7 DEF Length, Script
  <2>4. Left(r) = 9 => s = "task_for_update"
    BY <1>5, <1>7 DEF Length, Script
  <2> QED
    BY <1>1, <1>3, <1>4, <1>7, <2>1, <2>2, <2>3, <2>4
    DEF Passes, Audited, Unbatched, ToComplete, Counted, Before
<1>8. CASE Kind(r) \in {"complete", "cancel"}
  <2>1. Left(r) \in 1 .. 6 /\ Left(r) > 0
    BY <1>5, <1>8 DEF Length
  <2>2. s = <<"task_for_update", "end", "audit", "count_remaining", "batch_completed", "commit">>[7 - Left(r)]
    BY <1>5, <1>8 DEF Length, Script
  <2>3. /\ Left(r) = 6 => s = "task_for_update"
        /\ Left(r) = 5 => s = "end"
        /\ Left(r) = 4 => s = "audit"
        /\ Left(r) = 3 => s = "count_remaining"
        /\ Left(r) = 2 => s = "batch_completed"
        /\ Left(r) = 1 => s = "commit"
    BY <2>2
  <2> QED
    BY <1>1, <1>3, <1>4, <1>8, <2>1, <2>3
    DEF Passes, Audited, Unbatched, ToComplete, Counted, Before
<1>9. CASE Kind(r) = "complete_claim"
  <2>1. Left(r) \in 1 .. 13
    BY <1>5, <1>9 DEF Length
  <2>2. s = <<"task_for_update", "end", "audit", "count_remaining", "batch_completed",
              "get_current_task", "availability", "candidates", "lock_candidate",
              "claim", "batch_in_progress", "audit", "commit">>[14 - Left(r)]
    BY <1>5, <1>9 DEF Length, Script
  <2>3. /\ Left(r) = 13 => s = "task_for_update"
        /\ Left(r) = 12 => s = "end"
        /\ Left(r) = 11 => s = "audit"
        /\ Left(r) = 10 => s = "count_remaining"
        /\ Left(r) = 9 => s = "batch_completed"
        /\ Left(r) < 9 => s \notin {"task_for_update", "end", "count_remaining", "batch_completed"}
    BY <2>1, <2>2
  <2> QED
    BY <1>1, <1>3, <1>4, <1>9, <2>1, <2>3
    DEF Passes, Audited, Unbatched, ToComplete, Counted, Before
<1> QED BY <1>5, <1>6, <1>7, <1>8, <1>9 DEF Enders

LEMMA ViewThen ==
  ASSUME Typed', NEW r \in Requests
  PROVE  /\ \A t \in Tasks : View(r)'.rows[t] = IF holder'[t] = r THEN draft'.rows[t] ELSE db'.rows[t]
         /\ \A b \in Batches :
              View(r)'.batches[b] = IF holder'[b] = r THEN draft'.batches[b] ELSE db'.batches[b]
  BY DEF Typed, View, Tables

\* what the Pack Notes of a view depend on
Completed(v, b) == v.batches[b] = "COMPLETED"
Alike(v, w) ==
  /\ \A t \in Tasks : Over(v.rows[t]) <=> Over(w.rows[t])
  /\ \A b \in Batches : Completed(v, b) <=> Completed(w, b)

LEMMA AlikeSettled ==
  ASSUME NEW v, NEW w, Alike(v, w)
  PROVE  /\ Settled(v) <=> Settled(w)
         /\ \A b \in Batches : (Completed(v, b) <=> Done(v, b)) <=> (Completed(w, b) <=> Done(w, b))
         /\ \A b \in Batches : Done(v, b) <=> Done(w, b)
<1>1. \A b \in Batches : Done(v, b) <=> Done(w, b)
  BY DEF Alike, Done
<1> QED BY <1>1 DEF Alike, Settled, Completed

\* a step that shows others the same tables is nothing to them
LEMMA OthersBatches ==
  ASSUME RowsInv, RowsInv', BatchInv, NEW r \in Requests, Alone(r), Apart(r),
         \A b \in Batches : holder[b] \notin {r, NULL} => draft'.batches[b] = draft.batches[b],
         Alike(db, db') \/ holder[AUDIT] = r,
         \A b \in Batches : holder[b] # r => db'.batches[b] = db.batches[b],
         NEW q \in Requests \ {r}
  PROVE  BatchKnows(q)'
<1>1. /\ Left(q)' = Left(q) /\ Kind(q)' = Kind(q) /\ Task(q)' = Task(q)
      /\ BatchKnows(q) /\ Typed /\ Typed'
  BY DEF Alone, Task, RowsInv, BatchInv
<1>2. \A x \in Lockable : holder'[x] = q <=> holder[x] = q
  BY DEF Apart
<1>3. Audited(q)' => holder'[AUDIT] = q
  BY <1>1, <1>2, LockableParts DEF Audited, Before, BatchKnows
<1>4. Unbatched(q)' => \A b \in Batches : holder'[b] # q
  BY <1>1, <1>2, LockableParts DEF Unbatched, Before, BatchKnows
<1>5. ToComplete(q)' \/ Counted(q)' => Alike(View(q), View(q)')
  <2> SUFFICES ASSUME ToComplete(q)' \/ Counted(q)' PROVE Alike(View(q), View(q)')
    OBVIOUS
  <2>1. Audited(q)
    BY <1>1 DEF ToComplete, Counted, Audited, Before
  <2>2. Alike(db, db')
    BY <1>1, <2>1 DEF BatchKnows
  <2>3. \A t \in Tasks : Over(View(q).rows[t]) <=> Over(View(q)'.rows[t])
    BY <1>1, <1>2, <2>2, ViewIs, ViewThen, LockableParts DEF Alike, Apart
  <2>4. \A b \in Batches : Completed(View(q), b) <=> Completed(View(q)', b)
    BY <1>1, <1>2, <2>2, ViewIs, ViewThen, LockableParts DEF Alike, Apart, Completed
  <2> QED BY <2>3, <2>4 DEF Alike
<1>6. ToComplete(q)' =>
        /\ Done(View(q)', TaskBatch[Task(q)])
        /\ \A b \in Batches \ {TaskBatch[Task(q)]} : Completed(View(q)', b) <=> Done(View(q)', b)
  <2>1. ToComplete(q)' => ToComplete(q) /\ TaskBatch[Task(q)] \in Batches
    BY <1>1 DEF ToComplete, Before, RowsInv, Knows
  <2> QED BY <1>1, <1>5, <2>1, AlikeSettled DEF BatchKnows, Completed
<1>7. Counted(q)' => Settled(View(q)')
  <2>1. Counted(q)' => Counted(q)
    BY <1>1 DEF Counted, Before
  <2> QED BY <1>1, <1>5, <2>1, AlikeSettled DEF BatchKnows
<1>8. Kind(q) \notin Enders =>
        \A b \in Batches : holder'[b] = q =>
          (draft'.batches[b] = "COMPLETED" <=> db'.batches[b] = "COMPLETED")
  BY <1>1, <1>2, LockableParts DEF BatchKnows
<1> QED BY <1>1, <1>3, <1>4, <1>6, <1>7, <1>8 DEF BatchKnows, Completed

\* a statement that shows its own transaction the same Pack Notes
LEMMA OwnBatches ==
  ASSUME RowsInv, RowsInv', BatchInv, NEW r \in Requests, NEW s, Passes(r, s), UNCHANGED <<db, prog>>,
         s \notin {"count_remaining", "batch_completed"},
         s = "end" \/ Alike(View(r), View(r)'),
         s # "end" \/ draft'.batches = draft.batches,
         holder'[AUDIT] = IF s = "audit" THEN r ELSE holder[AUDIT],
         s = "batch_in_progress" \/ \A b \in Batches : holder'[b] = holder[b]
  PROVE  BatchKnows(r)'
<1>1. /\ Kind(r)' = Kind(r) /\ Task(r)' = Task(r)
      /\ BatchKnows(r) /\ Typed /\ Typed'
  BY DEF Passes, Alone, Task, RowsInv, BatchInv
<1>2. Audited(r)' => holder'[AUDIT] = r
  BY <1>1, BatchPath DEF BatchKnows
<1>3. Unbatched(r)' => \A b \in Batches : holder'[b] # r
  BY <1>1, BatchPath DEF BatchKnows
<1>4. ~ToComplete(r)'
  BY BatchPath
<1>5. Counted(r)' => Settled(View(r)')
  <2>1. Counted(r)' => Counted(r) /\ s # "end"
    BY BatchPath
  <2> QED BY <1>1, <2>1, AlikeSettled DEF BatchKnows
<1>6. ASSUME Kind(r) \notin Enders, NEW b \in Batches, holder'[b] = r
      PROVE  draft'.batches[b] = "COMPLETED" <=> db'.batches[b] = "COMPLETED"
  <2>1. (holder[b] = r => (draft.batches[b] = "COMPLETED" <=> db.batches[b] = "COMPLETED"))
        /\ db' = db
    BY <1>1, <1>6 DEF BatchKnows
  <2>2. CASE Alike(View(r), View(r)')
    BY <1>1, <1>6, <2>1, <2>2, ViewIs, ViewThen DEF Alike, Completed
  <2>3. CASE s = "end"
    BY <1>6, <2>1, <2>3
  <2> QED BY <2>2, <2>3
<1> QED BY <1>1, <1>2, <1>3, <1>4, <1>5, <1>6 DEF BatchKnows

\* a statement that only takes locks on rows nobody else holds
LEMMA LocksOnly ==
  ASSUME RowsInv, RowsInv', BatchInv, NEW r \in Requests, NEW s, Passes(r, s), UNCHANGED <<db, draft, prog>>,
         s \notin {"count_remaining", "batch_completed", "batch_in_progress", "end"},
         NEW x \in Tasks \cup {AUDIT}, holder[x] \in {r, NULL},
         Lock(r, x) \/ UNCHANGED holder, s = "audit" <=> x = AUDIT, s = "audit" => Lock(r, x)
  PROVE  BatchInv'
<1>1. Typed /\ Typed' /\ Clean /\ Alone(r) /\ x \in Lockable
  BY LockableParts DEF RowsInv, Passes
<1>2. holder' = [holder EXCEPT ![x] = r] \/ UNCHANGED holder
  BY DEF Lock
<1>3. \A y \in Lockable \ {x} : holder'[y] = holder[y]
  BY <1>1, <1>2 DEF Typed
<1>4. holder'[x] = r \/ holder'[x] = holder[x]
  BY <1>1, <1>2 DEF Typed
<1>5. Apart(r)
  BY <1>1, <1>3, <1>4, LockableParts DEF Apart
<1>6. \A b \in Batches : holder'[b] = holder[b]
  BY <1>3, LockableParts
<1>7. Alike(View(r), View(r)')
  <2>1. \A t \in Tasks : View(r)'.rows[t] = View(r).rows[t]
    BY <1>1, <1>3, <1>4, ViewIs, ViewThen, LockableParts DEF Clean
  <2>2. \A b \in Batches : View(r)'.batches[b] = View(r).batches[b]
    BY <1>1, <1>6, ViewIs, ViewThen
  <2> QED BY <2>1, <2>2 DEF Alike, Completed
<1>8. holder'[AUDIT] = IF s = "audit" THEN r ELSE holder[AUDIT]
  <2>1. CASE s = "audit"
    BY <1>1, <2>1 DEF Typed, Lock
  <2>2. CASE s # "audit"
    BY <1>3, <2>2, LockableParts
  <2> QED BY <2>1, <2>2
<1>9. BatchKnows(r)'
  BY <1>6, <1>7, <1>8, OwnBatches
<1>10. \A q \in Requests \ {r} : BatchKnows(q)'
  BY <1>1, <1>5, OthersBatches DEF Alike, Completed
<1>11. Settled(db)'
  BY DEF BatchInv, Settled, Done
<1> QED BY <1>9, <1>10, <1>11 DEF BatchInv

LEMMA ReadsOnly ==
  ASSUME RowsInv, RowsInv', BatchInv, NEW r \in Requests, NEW s, Passes(r, s), UNCHANGED <<db, draft, holder, prog>>,
         s \notin {"count_remaining", "batch_completed", "batch_in_progress", "end", "audit"}
  PROVE  BatchInv'
<1>1. Typed /\ Typed' /\ Alone(r) /\ Apart(r)
  BY DEF RowsInv, Passes, Apart
<1>2. Alike(View(r), View(r)')
  BY <1>1, ViewIs, ViewThen DEF Alike, Completed
<1>3. BatchKnows(r)'
  BY <1>2, OwnBatches
<1>4. \A q \in Requests \ {r} : BatchKnows(q)'
  BY <1>1, OthersBatches DEF Alike, Completed
<1>5. Settled(db)'
  BY DEF BatchInv, Settled, Done
<1> QED BY <1>3, <1>4, <1>5 DEF BatchInv

\* a statement that writes rows r holds
LEMMA WritesRows ==
  ASSUME RowsInv, RowsInv', BatchInv, NEW r \in Requests, NEW s, Passes(r, s), WritesOwn(r),
         draft'.batches = draft.batches,
         s \notin {"count_remaining", "batch_completed", "batch_in_progress", "audit"},
         \A b \in Batches : holder'[b] = holder[b], \A t \in Tasks : holder'[t] = holder[t],
         holder'[AUDIT] = holder[AUDIT],
         s = "end" \/ \A t \in Tasks : Over(draft'.rows[t]) <=> Over(draft.rows[t])
  PROVE  BatchInv'
<1>1. Typed /\ Typed' /\ Alone(r) /\ Apart(r) /\ UNCHANGED <<db, prog>>
  BY WriteApart DEF RowsInv, Passes, WritesOwn
<1>2. s = "end" \/ Alike(View(r), View(r)')
  BY <1>1, ViewIs, ViewThen DEF Alike, Completed
<1>3. BatchKnows(r)'
  BY <1>1, <1>2, OwnBatches
<1>4. \A q \in Requests \ {r} : BatchKnows(q)'
  BY <1>1, OthersBatches DEF Alike, Completed
<1>5. Settled(db)'
  BY <1>1 DEF BatchInv, Settled, Done
<1> QED BY <1>3, <1>4, <1>5 DEF BatchInv

LEMMA CountBatch ==
  ASSUME RowsInv, RowsInv', BatchInv, NEW r \in Requests, count_remaining(r)
  PROVE  BatchInv'
<1> DEFINE b == TaskBatch[Task(r)]
<1>1. /\ Passes(r, "count_remaining") /\ UNCHANGED <<db, draft, holder, prog, memo>>
      /\ At(r, "count_remaining")
  BY StepMoves DEF count_remaining, Passes
<1>2. /\ Typed /\ Typed' /\ Alone(r) /\ Apart(r) /\ BatchKnows(r) /\ Placed
      /\ Task(r)' = Task(r) /\ Kind(r)' = Kind(r) /\ Ready(r)
      /\ prog \in [Requests -> Programs]
  BY <1>1 DEF RowsInv, Passes, Apart, BatchInv, Task, Alone, Ready
<1>3. Unbatched(r) /\ Audited(r) /\ Kind(r) \in Enders
      /\ (Before(r, {"complete", "cancel"}, {3}) \/ Before(r, {"complete_claim"}, {10}))
  BY <1>1, <1>2, Places DEF Unbatched, Audited, Before, Enders
<1>4. Task(r) \in Tasks
  BY <1>2, <1>3, ProgramsAssumption DEF Ready, PlacesOf, Enders, Task
<1>5. View(r)' = View(r)
  BY <1>1 DEF View
<1>6. \A c \in Batches : View(r).batches[c] = db.batches[c]
  BY <1>2, <1>3, ViewIs DEF BatchKnows
<1>7. \A t \in Tasks \ {Task(r)} : Over(View(r).rows[t]) <=> Over(db.rows[t])
  BY <1>2, ViewIs DEF RowsInv, Changes, Same, Taken, Ended, Task, Over, WAITING, TERMINAL
<1>8. Over(db.rows[Task(r)]) => Over(View(r).rows[Task(r)])
  BY <1>2, <1>4, ViewIs DEF RowsInv, Changes, Same, Taken, Ended, Over, WAITING, TERMINAL
<1>9. \A c \in Batches \ {b} : Completed(View(r), c) <=> Done(View(r), c)
  <2> SUFFICES ASSUME NEW c \in Batches \ {b} PROVE Completed(View(r), c) <=> Done(View(r), c)
    OBVIOUS
  <2>1. Done(View(r), c) <=> Done(db, c)
    BY <1>7 DEF Done
  <2> QED BY <1>6, <2>1 DEF BatchInv, Settled, Completed
<1>10. ASSUME b # NULL, Remaining(r) = {} PROVE BatchKnows(r)'
  <2>1. Proceed(r) /\ Left(r)' = Left(r) - 1
    <3>1. Proceed(r)
      BY <1>10 DEF count_remaining, Task
    <3> QED BY <1>1, <1>2, <3>1, AloneMoves DEF Ready
  <2>2. Done(View(r), b)
    BY <1>10 DEF Remaining, Done, Over, Task
  <2>3. ~Unbatched(r)' /\ ~Counted(r)' /\ (Audited(r)' => Audited(r))
    BY <1>2, <1>3, <2>1 DEF Unbatched, Counted, Audited, Before, Ready, PlacesOf
  <2>4. BatchKnows(r)'
    BY <1>1, <1>2, <1>3, <1>5, <1>9, <2>2, <2>3 DEF BatchKnows, Completed
  <2> QED
    BY <2>4
<1>11. ASSUME ~(b # NULL /\ Remaining(r) = {}) PROVE BatchKnows(r)'
  <2>1. Skip(r) /\ Left(r)' = Left(r) - 2
    <3>1. Skip(r)
      BY <1>11 DEF count_remaining, Task
    <3>2. Left(r) >= 2
      BY <1>3 DEF Before
    <3> QED BY <1>1, <1>2, <3>1, <3>2, AloneMoves DEF Ready
  <2>2. ~Unbatched(r)' /\ ~ToComplete(r)' /\ (Audited(r)' => Audited(r))
    BY <1>2, <1>3, <2>1 DEF Unbatched, ToComplete, Audited, Before, Ready, PlacesOf
  <2>3. b \in Batches => (Completed(View(r), b) <=> Done(View(r), b))
    <3> SUFFICES ASSUME b \in Batches PROVE Completed(View(r), b) <=> Done(View(r), b)
      OBVIOUS
    <3>1. b # NULL
      BY DEF Batches
    <3>2. ~Done(View(r), b)
      BY <1>11, <3>1 DEF Remaining, Done, Over, Task
    <3>3. Done(db, b) => Done(View(r), b)
      BY <1>7, <1>8 DEF Done
    <3> QED BY <1>6, <3>2, <3>3 DEF BatchInv, Settled, Completed
  <2>4. Settled(View(r))
    BY <1>9, <2>3 DEF Settled, Completed
  <2>5. BatchKnows(r)'
    BY <1>1, <1>2, <1>3, <1>5, <2>2, <2>4 DEF BatchKnows
  <2> QED
    BY <2>5
<1>12. BatchKnows(r)'
  BY <1>10, <1>11
<1>13. \A q \in Requests \ {r} : BatchKnows(q)'
  BY <1>1, <1>2, OthersBatches DEF Alike, Completed
<1>14. Settled(db)'
  BY <1>1 DEF BatchInv, Settled, Done
<1> QED BY <1>12, <1>13, <1>14 DEF BatchInv

LEMMA CompleteBatch ==
  ASSUME RowsInv, RowsInv', BatchInv, NEW r \in Requests, batch_completed(r)
  PROVE  BatchInv'
<1> DEFINE b == TaskBatch[Task(r)]
<1>1. /\ b \in Batches /\ Ready(r) /\ ToComplete(r) /\ TakesAndWrites(r, b)
      /\ holder' = [holder EXCEPT ![b] = r]
      /\ draft'.batches = [draft.batches EXCEPT ![b] = "COMPLETED"]
  BY BatchCompletedEffect
<1>2. Passes(r, "batch_completed") /\ UNCHANGED <<db, prog>> /\ WritesOwn(r)
  BY <1>1, StepMoves DEF TakesAndWrites, WritesOwn
<1>3. /\ Typed /\ Typed' /\ Alone(r) /\ Apart(r) /\ BatchKnows(r) /\ Clean
      /\ Task(r)' = Task(r) /\ Kind(r)' = Kind(r)
  BY <1>2, WriteApart DEF RowsInv, Passes, BatchInv, Task, Alone
<1>4. /\ \A t \in Tasks : holder'[t] = holder[t] /\ draft'.rows[t] = draft.rows[t]
      /\ \A c \in Batches \ {b} : holder'[c] = holder[c] /\ draft'.batches[c] = draft.batches[c]
      /\ holder'[AUDIT] = holder[AUDIT] /\ holder'[b] = r /\ draft'.batches[b] = "COMPLETED"
  BY <1>1, <1>3, LockableParts DEF Typed, Tables, TakesAndWrites
<1>5. \A t \in Tasks : View(r)'.rows[t] = View(r).rows[t]
  BY <1>2, <1>3, <1>4, ViewIs, ViewThen
<1>6. /\ \A c \in Batches \ {b} : View(r)'.batches[c] = View(r).batches[c]
      /\ View(r)'.batches[b] = "COMPLETED"
  BY <1>1, <1>2, <1>3, <1>4, ViewIs, ViewThen
<1>7. \A c \in Batches : Done(View(r)', c) <=> Done(View(r), c)
  BY <1>5 DEF Done
<1>8. Settled(View(r)')
  <2>1. Done(View(r), b) /\ \A c \in Batches \ {b} : Completed(View(r), c) <=> Done(View(r), c)
    BY <1>1, <1>3 DEF BatchKnows, Completed
  <2> QED BY <1>6, <1>7, <2>1 DEF Settled, Completed
<1>9. Audited(r)' => holder'[AUDIT] = r
  BY <1>2, <1>3, <1>4, BatchPath DEF BatchKnows
<1>10. Kind(r) \in Enders
  BY <1>1 DEF ToComplete, Before, Enders
<1>11. ~Unbatched(r)' /\ ~ToComplete(r)'
  BY <1>2, BatchPath
<1>12. BatchKnows(r)'
  BY <1>3, <1>8, <1>9, <1>10, <1>11 DEF BatchKnows
<1>13. \A q \in Requests \ {r} : BatchKnows(q)'
  <2>1. \A c \in Batches : holder[c] \notin {r, NULL} => draft'.batches[c] = draft.batches[c]
    BY <1>1, <1>4 DEF TakesAndWrites
  <2> QED BY <1>2, <1>3, <2>1, OthersBatches DEF Alike, Completed
<1>14. Settled(db)'
  BY <1>2 DEF BatchInv, Settled, Done
<1> QED BY <1>12, <1>13, <1>14 DEF BatchInv

LEMMA MarkBatch ==
  ASSUME RowsInv, RowsInv', BatchInv, NEW r \in Requests, batch_in_progress(r)
  PROVE  BatchInv'
<1>1. Passes(r, "batch_in_progress")
  BY StepMoves
<1>2. Typed /\ Typed' /\ Alone(r) /\ BatchKnows(r) /\ Clean
  BY <1>1 DEF RowsInv, Passes, BatchInv
<1>3. CASE UNCHANGED <<db, draft, holder, prog, memo>>
  <2>1. Alike(View(r), View(r)') /\ Apart(r)
    BY <1>2, <1>3, ViewIs, ViewThen DEF Alike, Completed, Apart
  <2>2. BatchKnows(r)'
    BY <1>1, <1>3, <2>1, OwnBatches
  <2>3. \A q \in Requests \ {r} : BatchKnows(q)'
    BY <1>2, <1>3, <2>1, OthersBatches DEF Alike, Completed
  <2>4. Settled(db)'
    BY <1>3 DEF BatchInv, Settled, Done
  <2> QED BY <2>2, <2>3, <2>4 DEF BatchInv
<1> DEFINE b == Batch(r)
<1>4. CASE /\ b \in Batches /\ TakesAndWrites(r, b)
           /\ holder' = [holder EXCEPT ![b] = r]
           /\ View(r).batches[b] = "OPEN"
           /\ draft'.batches = [draft.batches EXCEPT ![b] = "IN_PROGRESS"]
  <2>1. WritesOwn(r) /\ UNCHANGED <<db, prog>> /\ Apart(r)
    BY <1>4, WriteApart DEF TakesAndWrites, WritesOwn
  <2> HIDE DEF b
  <2>2. /\ \A t \in Tasks : holder'[t] = holder[t] /\ draft'.rows[t] = draft.rows[t]
        /\ \A c \in Batches \ {b} : holder'[c] = holder[c] /\ draft'.batches[c] = draft.batches[c]
        /\ holder'[AUDIT] = holder[AUDIT] /\ holder'[b] = r /\ draft'.batches[b] = "IN_PROGRESS"
    BY <1>2, <1>4, LockableParts DEF Typed, Tables, TakesAndWrites
  <2>3. Alike(View(r), View(r)')
    <3>1. \A t \in Tasks : View(r)'.rows[t] = View(r).rows[t]
      BY <1>2, <2>1, <2>2, ViewIs, ViewThen
    <3>2. \A c \in Batches \ {b} : View(r)'.batches[c] = View(r).batches[c]
      BY <1>2, <2>1, <2>2, ViewIs, ViewThen
    <3>3. View(r)'.batches[b] = "IN_PROGRESS" /\ View(r).batches[b] = "OPEN"
      BY <1>2, <1>4, <2>2, ViewThen
    <3> QED BY <3>1, <3>2, <3>3 DEF Alike, Completed
  <2>4. BatchKnows(r)'
    BY <1>1, <2>1, <2>2, <2>3, OwnBatches
  <2>5. \A q \in Requests \ {r} : BatchKnows(q)'
    <3>1. \A c \in Batches : holder[c] \notin {r, NULL} => draft'.batches[c] = draft.batches[c]
      BY <1>4, <2>2 DEF TakesAndWrites
    <3> QED BY <1>2, <2>1, <3>1, OthersBatches DEF Alike, Completed
  <2>6. Settled(db)'
    BY <2>1 DEF BatchInv, Settled, Done
  <2> QED BY <2>4, <2>5, <2>6 DEF BatchInv
<1> QED BY <1>3, <1>4, BatchInProgressEffect

\* the end of a transaction: only one that has the audit chain has ended a task or
\* completed a Pack Note
LEMMA EndBatches ==
  ASSUME RowsInv, RowsInv', BatchInv, NEW r \in Requests, commit(r) \/ refuse(r) \/ deadlock_detected(r)
  PROVE  BatchInv'
<1>1. Typed /\ Typed' /\ BatchKnows(r) /\ Clean /\ Placed
  BY DEF RowsInv, BatchInv
<1>2. Goto(r, <<>>) /\ UNCHANGED <<prog, memo>> /\ holder' = [x \in Lockable |-> IF holder[x] = r THEN NULL ELSE holder[x]]
  BY DEF commit, refuse, deadlock_detected, Rollback, Unlock
<1>3. Alone(r) /\ Left(r)' = 0
  BY <1>2, AloneMoves
<1>4. \A x \in Lockable : holder'[x] = IF holder[x] = r THEN NULL ELSE holder[x]
  BY <1>2
<1>5. BatchKnows(r)'
  <2>1. ~Audited(r)' /\ ~Unbatched(r)' /\ ~ToComplete(r)' /\ ~Counted(r)'
    BY <1>3 DEF Audited, Unbatched, ToComplete, Counted, Before
  <2>2. \A b \in Batches : holder'[b] # r
    BY <1>4, LockableParts
  <2> QED BY <2>1, <2>2 DEF BatchKnows
<1>6. CASE commit(r)
  <2>1. /\ db' = View(r) /\ draft' = draft /\ At(r, "commit")
    BY <1>6 DEF commit, Runs
  <2>2. Apart(r)
    BY <1>2, <2>1, CommitData, <1>6 DEF Releases
  <2>3. Left(r) = 1
    BY <1>1, <2>1, Places DEF Typed
  <2>4. CASE Kind(r) \in Enders
    <3>1. Audited(r) /\ Counted(r)
      BY <2>3, <2>4 DEF Audited, Counted, Before, Enders
    <3>2. holder[AUDIT] = r /\ Settled(db')
      BY <1>1, <2>1, <3>1 DEF BatchKnows
    <3>3. \A b \in Batches : holder[b] # r => db'.batches[b] = db.batches[b]
      BY <1>1, <2>1, ViewIs
    <3>4. \A q \in Requests \ {r} : BatchKnows(q)'
      BY <1>3, <2>1, <2>2, <3>2, <3>3, OthersBatches
    <3> QED BY <1>5, <3>2, <3>4 DEF BatchInv
  <2>5. CASE Kind(r) \notin Enders
    <3>1. \A b \in Batches : holder[b] # r => db'.batches[b] = db.batches[b]
      BY <1>1, <2>1, ViewIs
    <3>2. Alike(db, db')
      <4>1. \A t \in Tasks : Over(db.rows[t]) <=> Over(db'.rows[t])
        BY <1>1, <2>1, <2>5, ViewIs
        DEF RowsInv, Changes, Same, Taken, Ended, Over, WAITING, TERMINAL
      <4>2. \A b \in Batches : Completed(db, b) <=> Completed(db', b)
        BY <1>1, <2>1, <2>5, ViewIs DEF BatchKnows, Completed
      <4> QED BY <4>1, <4>2 DEF Alike
    <3>3. \A q \in Requests \ {r} : BatchKnows(q)'
      BY <1>3, <2>1, <2>2, <3>1, <3>2, OthersBatches
    <3>4. Settled(db')
      BY <3>2, AlikeSettled DEF BatchInv
    <3> QED BY <1>5, <3>3, <3>4 DEF BatchInv
  <2> QED BY <2>4, <2>5
<1>7. CASE Rollback(r)
  <2>1. Apart(r) /\ db' = db
    BY <1>7, RollbackData DEF Rollback
  <2>2. \A b \in Batches : holder[b] \notin {r, NULL} => draft'.batches[b] = draft.batches[b]
    BY <1>7 DEF Rollback
  <2>3. \A q \in Requests \ {r} : BatchKnows(q)'
    BY <1>3, <2>1, <2>2, OthersBatches DEF Alike, Completed
  <2>4. Settled(db)'
    BY <2>1 DEF BatchInv, Settled, Done
  <2> QED BY <1>5, <2>3, <2>4 DEF BatchInv
<1> QED BY <1>6, <1>7 DEF refuse, deadlock_detected

LEMMA BatchInvStep ==
  ASSUME RowsInv, RowsInv', BatchInv, NEW r \in Requests, Statement(r)
  PROVE  BatchInv'
<1>1. Clean /\ Typed /\ (\A x \in Lockable : Others(r, x) = {} => holder[x] \in {r, NULL})
  BY OthersFree DEF RowsInv
<1>2. CASE \/ get_current_task(r) \/ check_availability(r) \/ select_candidates(r)
           \/ eligible_workers(r) \/ open_tasks(r) \/ assigned_tasks(r) \/ check_assignee(r)
  <2>1. UNCHANGED <<db, draft, holder, prog>>
    BY <1>2 DEF get_current_task, check_availability, select_candidates,
         eligible_workers, open_tasks, assigned_tasks, check_assignee
  <2>2. \E s \in {"get_current_task", "availability", "candidates", "eligible_workers",
                  "open_tasks", "assigned_tasks", "eligible", "counterpart"} : Passes(r, s)
    BY <1>2, StepMoves
  <2> QED BY <2>1, <2>2, ReadsOnly
<1>3. CASE lock_candidate(r)
  <2>1. Passes(r, "lock_candidate") /\ UNCHANGED <<db, draft, prog>> /\ Ready(r)
    BY <1>3, StepMoves DEF lock_candidate, Passes
  <2>2. CASE UNCHANGED holder
    BY <2>1, <2>2, ReadsOnly
  <2>3. ASSUME NEW i \in DOMAIN memo[r].queue, Others(r, memo[r].queue[i]) = {},
               Lock(r, memo[r].queue[i])
        PROVE  BatchInv'
    <3> DEFINE t == memo[r].queue[i]
    <3>1. t \in Tasks
      BY <2>1 DEF Ready, MemoRow
    <3>2. holder[t] \in {r, NULL} /\ t # AUDIT
      BY <1>1, <2>3, <3>1, LockableParts
    <3> HIDE DEF t
    <3>3. Lock(r, t)
      BY <2>3 DEF t
    <3> QED BY <2>1, <3>1, <3>2, <3>3, LocksOnly
  <2> QED BY <1>3, <2>2, <2>3 DEF lock_candidate
<1>4. CASE task_for_update(r)
  <2>1. Passes(r, "task_for_update") /\ UNCHANGED <<db, draft, prog>> /\ Lock(r, Task(r))
        /\ Ready(r) /\ Others(r, Task(r)) = {} /\ Kind(r) \in Enders \cup {"assign", "unassign"}
    BY <1>4, StepMoves, Places
    DEF task_for_update, Task, Passes, Runs, WaitsFor, At, Ready, Before, Enders
  <2>2. Task(r) \in Tasks
    BY <2>1, ProgramsAssumption DEF Ready, PlacesOf, Enders, Task
  <2>3. holder[Task(r)] \in {r, NULL} /\ Task(r) # AUDIT
    BY <1>1, <2>1, <2>2, LockableParts
  <2> QED BY <2>1, <2>2, <2>3, LocksOnly
<1>5. CASE write_audit_log(r)
  <2>1. Passes(r, "audit") /\ UNCHANGED <<db, draft, prog>> /\ Lock(r, AUDIT) /\ Others(r, AUDIT) = {}
    BY <1>5, StepMoves DEF write_audit_log, Passes, Runs, WaitsFor, At
  <2>2. holder[AUDIT] \in {r, NULL}
    BY <1>1, <2>1, LockableParts
  <2> QED BY <2>1, <2>2, LocksOnly
<1>6. CASE lock_rows(r)
  <2>1. Passes(r, "lock_rows") /\ UNCHANGED <<db, draft, prog>> /\ Ready(r)
    BY <1>6, StepMoves DEF lock_rows, Passes
  <2>2. CASE UNCHANGED holder
    BY <2>1, <2>2, ReadsOnly
  <2>3. CASE memo[r].queue # <<>> /\ Lock(r, Head(memo[r].queue))
    <3> DEFINE t == Head(memo[r].queue)
    <3>1. t \in Tasks
      BY <2>1, <2>3 DEF Ready, MemoRow
    <3>2. Others(r, t) = {}
      BY <1>6, <2>3 DEF lock_rows, Runs, WaitsFor, At
    <3>3. holder[t] \in {r, NULL} /\ t # AUDIT
      BY <1>1, <3>1, <3>2, LockableParts
    <3> HIDE DEF t
    <3>4. Lock(r, t)
      BY <2>3 DEF t
    <3> QED BY <2>1, <3>1, <3>3, <3>4, LocksOnly
  <2> QED BY <1>6, <2>2, <2>3 DEF lock_rows
<1>7. CASE claim(r)
  <2>1. /\ Passes(r, "claim") /\ WritesOwn(r) /\ UNCHANGED holder /\ draft'.batches = draft.batches
        /\ \A t \in Tasks : Over(draft'.rows[t]) <=> Over(draft.rows[t])
    BY <1>7, StepMoves, ClaimEffect DEF Over, WAITING, TERMINAL
  <2> QED BY <2>1, WritesRows
<1>8. CASE end_task(r)
  <2>1. /\ Passes(r, "end") /\ WritesOwn(r) /\ UNCHANGED holder /\ draft'.batches = draft.batches
    BY <1>8, StepMoves, EndEffect
  <2> QED BY <2>1, WritesRows
<1>9. CASE auto_assign(r) \/ release(r) \/ assign(r)
  <2>1. /\ \E s \in {"auto_assign", "release", "assign"} : Passes(r, s)
        /\ Rewaits(r) /\ UNCHANGED holder /\ draft'.batches = draft.batches
    BY <1>9, StepMoves, AutoAssignEffect, ReleaseEffect, AssignEffect
  <2>2. \A t \in Tasks : Over(draft'.rows[t]) <=> Over(draft.rows[t])
    BY <2>1 DEF Rewaits, Over, WAITING, TERMINAL
  <2> QED BY <2>1, <2>2, WritesRows DEF Rewaits
<1>10. CASE upsert_status(r)
  <2> DEFINE w == prog[r].user
  <2>1. /\ Passes(r, "upsert_status") /\ TakesAndWrites(r, w) /\ draft'.batches = draft.batches
        /\ w \in Workers /\ holder' = [holder EXCEPT ![w] = r]
    BY <1>10, StepMoves, UpsertEffect
  <2> HIDE DEF w
  <2>2. /\ \A b \in Batches : holder'[b] = holder[b] /\ \A t \in Tasks : holder'[t] = holder[t]
        /\ holder'[AUDIT] = holder[AUDIT]
    BY <1>1, <2>1, LockableParts DEF Typed
  <2>3. \A t \in Tasks : holder'[t] = holder[t]
    BY <1>1, <2>1, LockableParts DEF Typed
  <2> QED BY <2>1, <2>2, <2>3, WritesRows DEF TakesAndWrites
<1> QED
  BY <1>2, <1>3, <1>4, <1>5, <1>6, <1>7, <1>8, <1>9, <1>10, CountBatch, CompleteBatch, MarkBatch,
     EndBatches DEF Statement

LEMMA BatchInvNext == RowsInv /\ RowsInv' /\ BatchInv /\ [Next]_vars => BatchInv'
<1> SUFFICES ASSUME RowsInv, RowsInv', BatchInv, [Next]_vars PROVE BatchInv'
  OBVIOUS
<1>1. CASE UNCHANGED vars
  <2>1. UNCHANGED <<db, draft, holder, prog, memo, todo>>
    BY <1>1 DEF vars
  <2> QED BY <2>1 DEF BatchInv, BatchKnows, Settled, Done, Audited, Unbatched, ToComplete, Counted,
       Before, Kind, Left, Task, View
<1> QED BY <1>1, BatchInvStep DEF Next

LEMMA BatchInvInit == Init => BatchInv
<1> SUFFICES ASSUME Init PROVE BatchInv
  OBVIOUS
<1>1. Settled(db)
  <2>1. \A t \in Tasks : Over(db.rows[t]) <=> db.rows[t].status = "COMPLETED"
    BY StartIs DEF Over, TERMINAL
  <2> QED BY <2>1, StartIs DEF Settled, Done
<1>2. ASSUME NEW r \in Requests PROVE BatchKnows(r)
  <2>1. /\ prog \in [Requests -> Programs] /\ holder = [x \in Lockable |-> NULL]
        /\ todo = [q \in Requests |-> Statements(prog[q])]
    BY DEF Init
  <2>2. Left(r) = Length(Kind(r)) /\ Kind(r) \in Kinds
    BY <2>1, ScriptIs, ScriptType, KindIs DEF Left, Kind
  <2>3. ~Audited(r) /\ ~ToComplete(r) /\ ~Counted(r)
    BY <2>2 DEF Audited, ToComplete, Counted, Before, Length
  <2>4. \A b \in Batches : holder[b] # r
    BY <2>1, LockableParts
  <2> QED BY <2>3, <2>4 DEF BatchKnows
<1> QED BY <1>1, <1>2 DEF BatchInv

\* Two requests that end the last two tasks of a Pack Note cannot each miss the other:
\* whoever counts the remaining tasks holds the audit chain, and nobody can commit the
\* end of a task without it, so the count is still true when it is committed.
THEOREM BatchesSettled == Spec => []LastTaskCompletesBatch
<1>1. BatchInv => LastTaskCompletesBatch
  BY DEF BatchInv, Settled, Done, Over, LastTaskCompletesBatch
<1> QED BY <1>1, BatchInvInit, BatchInvNext, RowsKept, PTL DEF Spec

-----------------------------------------------------------------------------
(***************************************************************************)
(* Which transactions wait for each other                                  *)
(***************************************************************************)
\* the three parts of Waits
NotesHeld(r) ==
  \A b \in Batches : holder[b] = r => holder[AUDIT] = r \/ Before(r, {"claim_next"}, {2})
RowsWritten(r) ==
  \A t \in Tasks : holder[t] = r /\ draft.rows[t] # db.rows[t] =>
    holder[AUDIT] = r \/ ToAudit(r) \/ Kind(r) = "availability"
Ascending(r) ==
  Before(r, {"run_dispatch"}, {4}) =>
    /\ \A i, j \in DOMAIN memo[r].queue : i < j => memo[r].queue[i] < memo[r].queue[j]
    /\ \A x \in Lockable : holder[x] = r =>
         x \in Tasks /\ \A i \in DOMAIN memo[r].queue : x < memo[r].queue[i]

LEMMA WaitsParts ==
  ASSUME NEW r
  PROVE  /\ Waits(r) <=> NotesHeld(r) /\ RowsWritten(r) /\ Ascending(r)
         /\ Waits(r)' <=> NotesHeld(r)' /\ RowsWritten(r)' /\ Ascending(r)'
<1>1. Waits(r) <=> NotesHeld(r) /\ RowsWritten(r) /\ Ascending(r)
  BY DEF Waits, NotesHeld, RowsWritten, Ascending
<1>2. Waits(r)' <=> NotesHeld(r)' /\ RowsWritten(r)' /\ Ascending(r)'
  BY DEF Waits, NotesHeld, RowsWritten, Ascending
<1> QED BY <1>1, <1>2

\* where on its way to its audit row a statement brings r
LEMMA AuditPath ==
  ASSUME RowsInv, NEW r \in Requests, NEW s, Passes(r, s)
  PROVE  /\ Before(r, {"claim_next"}, {2}) => s = "audit"
         /\ ToAudit(r) => s = "audit" \/ (s = "batch_in_progress" /\ ToAudit(r)')
         /\ s = "claim" => Audited(r) \/ ToAudit(r)'
         /\ s \in {"end", "assign"} => ToAudit(r)'
         /\ s = "auto_assign" =>
              Audited(r) \/ Kind(r) = "availability" \/ (Left(r)' = Left(r) - 1 => ToAudit(r)')
         /\ s = "release" => Kind(r) = "availability"
         /\ s = "batch_in_progress" => Audited(r) \/ Before(r, {"claim_next"}, {2})'
         /\ s = "batch_completed" => Audited(r)
         /\ Before(r, {"run_dispatch"}, {4})' =>
              \/ s = "open_tasks" /\ Fresh(r)
              \/ s = "lock_rows" /\ Before(r, {"run_dispatch"}, {4}) /\ Left(r)' = Left(r)
<1>1. /\ At(r, s) /\ Ready(r) /\ Kind(r)' = Kind(r) /\ Left(r) \in 0 .. 13
      /\ prog \in [Requests -> Programs] /\ Placed
  BY DEF Passes, Alone, Ready, PlacesOf
<1>2. /\ Kind(r) \in Kinds /\ Left(r) \in 1 .. Length(Kind(r))
      /\ Script(Kind(r))[Length(Kind(r)) - Left(r) + 1] = s
  BY <1>1, HeadIs, KindIs DEF At
<1>3. CASE Kind(r) \in {"complete", "cancel"}
  <2>1. Left(r) \in 1 .. 6
    BY <1>2, <1>3 DEF Length
  <2>2. s = <<"task_for_update", "end", "audit", "count_remaining", "batch_completed", "commit">>[7 - Left(r)]
    BY <1>2, <1>3 DEF Length, Script
  <2>3. /\ Left(r) = 6 => s = "task_for_update"
        /\ Left(r) = 5 => s = "end"
        /\ Left(r) = 4 => s = "audit"
        /\ Left(r) = 3 => s = "count_remaining"
        /\ Left(r) = 2 => s = "batch_completed"
        /\ Left(r) = 1 => s = "commit"
    BY <2>2
  <2> QED
    BY <1>1, <1>3, <2>1, <2>3 DEF Passes, Before, Audited, ToAudit, Fresh
<1>4. CASE Kind(r) = "complete_claim"
  <2>1. Left(r) \in 1 .. 13
    BY <1>2, <1>4 DEF Length
  <2>2. s = <<"task_for_update", "end", "audit", "count_remaining", "batch_completed",
              "get_current_task", "availability", "candidates", "lock_candidate",
              "claim", "batch_in_progress", "audit", "commit">>[14 - Left(r)]
    BY <1>2, <1>4 DEF Length, Script
  <2>3. /\ Left(r) = 13 => s = "task_for_update"
        /\ Left(r) = 12 => s = "end"
        /\ Left(r) = 11 => s = "audit"
        /\ Left(r) <= 10 => s \notin {"end", "assign"}
        /\ s \notin {"auto_assign", "release", "open_tasks", "lock_rows"}
        /\ s \in {"batch_in_progress", "batch_completed", "claim"} => Left(r) <= 10
    BY <2>1, <2>2
  <2> QED
    BY <1>1, <1>4, <2>1, <2>3 DEF Passes, Before, Audited, ToAudit, Fresh
<1>5. CASE Kind(r) = "claim_next"
  <2>1. Left(r) \in 1 .. 8
    BY <1>2, <1>5 DEF Length
  <2>2. s = <<"get_current_task", "availability", "candidates", "lock_candidate",
              "claim", "batch_in_progress", "audit", "commit">>[9 - Left(r)]
    BY <1>2, <1>5 DEF Length, Script
  <2>3. /\ Left(r) = 4 => s = "claim"
        /\ Left(r) = 3 => s = "batch_in_progress"
        /\ Left(r) = 2 => s = "audit"
        /\ Left(r) = 1 => s = "commit"
        /\ Left(r) > 4 => s \in {"get_current_task", "availability", "candidates", "lock_candidate"}
    BY <2>1, <2>2
  <2> QED
    BY <1>1, <1>5, <2>1, <2>3 DEF Passes, Before, Audited, ToAudit, Fresh
<1>6. CASE Kind(r) = "run_dispatch"
  <2>1. Left(r) \in 1 .. 6
    BY <1>2, <1>6 DEF Length
  <2>2. s = <<"eligible_workers", "open_tasks", "lock_rows", "auto_assign", "audit", "commit">>[7 - Left(r)]
    BY <1>2, <1>6 DEF Length, Script
  <2>3. /\ Left(r) = 6 => s = "eligible_workers"
        /\ Left(r) = 5 => s = "open_tasks"
        /\ Left(r) = 4 => s = "lock_rows"
        /\ Left(r) = 3 => s = "auto_assign"
        /\ Left(r) = 2 => s = "audit"
        /\ Left(r) = 1 => s = "commit"
    BY <2>2
  <2> QED
    BY <1>1, <1>6, <2>1, <2>3 DEF Passes, Before, Audited, ToAudit, Fresh
<1>7. CASE Kind(r) = "assign"
  <2>1. Left(r) \in 1 .. 6
    BY <1>2, <1>7 DEF Length
  <2>2. s = <<"task_for_update", "eligible", "counterpart", "assign", "audit", "commit">>[7 - Left(r)]
    BY <1>2, <1>7 DEF Length, Script
  <2>3. /\ Left(r) = 6 => s = "task_for_update"
        /\ Left(r) = 5 => s = "eligible"
        /\ Left(r) = 4 => s = "counterpart"
        /\ Left(r) = 3 => s = "assign"
        /\ Left(r) = 2 => s = "audit"
        /\ Left(r) = 1 => s = "commit"
    BY <2>2
  <2> QED
    BY <1>1, <1>7, <2>1, <2>3 DEF Passes, Before, Audited, ToAudit, Fresh
<1>8. CASE Kind(r) = "unassign"
  <2>1. Left(r) \in 1 .. 9
    BY <1>2, <1>8 DEF Length
  <2>2. s = <<"task_for_update", "assign", "audit",
              "eligible_workers", "open_tasks", "lock_rows", "auto_assign", "audit", "commit">>[10 - Left(r)]
    BY <1>2, <1>8 DEF Length, Script
  <2>3. /\ Left(r) = 9 => s = "task_for_update"
        /\ Left(r) = 8 => s = "assign"
        /\ Left(r) = 7 => s = "audit"
        /\ Left(r) <= 6 => s \notin {"assign", "end", "claim", "release", "batch_in_progress", "batch_completed"}
    BY <2>1, <2>2
  <2> QED
    BY <1>1, <1>8, <2>1, <2>3 DEF Passes, Before, Audited, ToAudit, Fresh
<1>9. CASE Kind(r) = "availability"
  <2>1. s \notin {"claim", "end", "assign", "batch_in_progress", "batch_completed"}
    BY <1>1, <1>9, Places DEF Before
  <2> QED
    BY <1>1, <1>9, <2>1 DEF Passes, Before, Audited, ToAudit, Fresh
<1> QED BY <1>2, <1>3, <1>4, <1>5, <1>6, <1>7, <1>8, <1>9 DEF Kinds

LEMMA OthersWait ==
  ASSUME RowsInv, NEW r \in Requests, Alone(r), Apart(r), WaitsInv, NEW q \in Requests \ {r}
  PROVE  Waits(q)'
<1>1. /\ Left(q)' = Left(q) /\ Kind(q)' = Kind(q) /\ memo'[q] = memo[q]
      /\ NotesHeld(q) /\ RowsWritten(q) /\ Ascending(q)
  BY WaitsParts DEF Alone, WaitsInv
<1>2. \A x \in Lockable : holder'[x] = q <=> holder[x] = q
  BY DEF Apart
<1>3. NotesHeld(q)'
  BY <1>1, <1>2, LockableParts DEF NotesHeld, Before
<1>4. RowsWritten(q)'
  <2>1. \A t \in Tasks : holder[t] = q => draft'.rows[t] = draft.rows[t] /\ db'.rows[t] = db.rows[t]
    BY LockableParts DEF Apart
  <2>2. ToAudit(q) => ToAudit(q)'
    BY <1>1 DEF ToAudit, Before
  <2> QED BY <1>1, <1>2, <2>1, <2>2, LockableParts DEF RowsWritten
<1>5. Ascending(q)'
  BY <1>1, <1>2 DEF Ascending, Before
<1> QED BY <1>3, <1>4, <1>5, WaitsParts

\* the locks a statement takes and the rows it writes
OwnLocks(r, s) ==
  /\ holder[AUDIT] = r \/ s = "audit" => holder'[AUDIT] = r
  /\ \A b \in Batches : holder'[b] = r =>
       holder[b] = r \/ s \in {"batch_in_progress", "batch_completed"}
  /\ \A t \in Tasks : holder'[t] = r /\ draft'.rows[t] # db'.rows[t] =>
       \/ holder[t] = r /\ draft.rows[t] # db.rows[t]
       \/ s \in {"claim", "end", "assign", "release"}
       \/ s = "auto_assign" /\ Left(r)' = Left(r) - 1

LEMMA OwnWaits ==
  ASSUME RowsInv, BatchInv, WaitsInv, NEW r \in Requests, NEW s, Passes(r, s), OwnLocks(r, s),
         Apart(r), Ascending(r)'
  PROVE  WaitsInv'
<1>1. Alone(r) /\ NotesHeld(r) /\ RowsWritten(r) /\ BatchKnows(r) /\ Kind(r)' = Kind(r)
  BY WaitsParts DEF Passes, WaitsInv, BatchInv, Alone
<1>2. (Audited(r) => holder'[AUDIT] = r) /\ (s = "audit" => holder'[AUDIT] = r)
  BY <1>1 DEF OwnLocks, BatchKnows
<1>3. NotesHeld(r)'
  <2> SUFFICES ASSUME NEW b \in Batches, holder'[b] = r
               PROVE  holder'[AUDIT] = r \/ Before(r, {"claim_next"}, {2})'
    BY DEF NotesHeld
  <2>1. CASE holder[b] = r
    BY <1>1, <1>2, <2>1, AuditPath DEF NotesHeld, OwnLocks
  <2>2. CASE s \in {"batch_in_progress", "batch_completed"}
    BY <1>2, <2>2, AuditPath
  <2> QED BY <2>1, <2>2 DEF OwnLocks
<1>4. RowsWritten(r)'
  <2> SUFFICES ASSUME NEW t \in Tasks, holder'[t] = r, draft'.rows[t] # db'.rows[t]
               PROVE  holder'[AUDIT] = r \/ ToAudit(r)' \/ Kind(r)' = "availability"
    BY DEF RowsWritten
  <2>1. CASE holder[t] = r /\ draft.rows[t] # db.rows[t]
    BY <1>1, <1>2, <2>1, AuditPath DEF RowsWritten, OwnLocks
  <2>2. CASE s \in {"claim", "end", "assign", "release"} \/ (s = "auto_assign" /\ Left(r)' = Left(r) - 1)
    BY <1>1, <1>2, <2>2, AuditPath
  <2> QED BY <2>1, <2>2 DEF OwnLocks
<1>5. Waits(r)'
  BY <1>3, <1>4, WaitsParts
<1> QED BY <1>1, <1>5, OthersWait DEF WaitsInv

\* a statement that leaves the queue of a dispatch alone
LEMMA OwnWaitsElsewhere ==
  ASSUME RowsInv, BatchInv, WaitsInv, NEW r \in Requests, NEW s, Passes(r, s), OwnLocks(r, s),
         Apart(r), s \notin {"open_tasks", "lock_rows"}
  PROVE  WaitsInv'
<1>1. Ascending(r)'
  BY AuditPath DEF Ascending
<1> QED BY <1>1, OwnWaits

LEMMA LockWaits ==
  ASSUME RowsInv, NEW r \in Requests, NEW s, UNCHANGED <<db, draft>>,
         NEW x \in Lockable \ Batches, holder[x] \in {r, NULL}, Lock(r, x) \/ UNCHANGED holder,
         s = "audit" => Lock(r, AUDIT)
  PROVE  OwnLocks(r, s) /\ Apart(r) /\ \A y \in Lockable : holder'[y] = r => y = x \/ holder[y] = r
<1>1. /\ \A y \in Lockable \ {x} : holder'[y] = holder[y]
      /\ holder'[x] = r \/ holder'[x] = holder[x]
  BY DEF Lock, RowsInv, Typed
<1>2. s = "audit" => holder'[AUDIT] = r
  BY LockableParts DEF Lock, RowsInv, Typed
<1>3. Apart(r)
  BY <1>1, LockableParts DEF Apart
<1>4. \A t \in Tasks : holder'[t] = r /\ draft'.rows[t] # db'.rows[t] =>
         holder[t] = r /\ draft.rows[t] # db.rows[t]
  BY <1>1, LockableParts DEF RowsInv, Clean
<1>5. holder[AUDIT] = r => holder'[AUDIT] = r
  BY <1>1, LockableParts
<1>6. \A b \in Batches : holder'[b] = r => holder[b] = r
  BY <1>1, LockableParts
<1> QED BY <1>1, <1>2, <1>3, <1>4, <1>5, <1>6 DEF OwnLocks

LEMMA OpenTasksWaits ==
  ASSUME RowsInv, BatchInv, WaitsInv, NEW r \in Requests, open_tasks(r)
  PROVE  WaitsInv'
<1>1. /\ Passes(r, "open_tasks") /\ UNCHANGED <<db, draft, holder>>
      /\ Ready(r) /\ Knows(r)
  BY StepMoves DEF open_tasks, Passes, Ready
<1>2. OwnLocks(r, "open_tasks") /\ Apart(r)
  BY <1>1 DEF OwnLocks, Apart
<1>7. Before(r, {"run_dispatch"}, {4})' => Fresh(r)
  <2>1. Passes(r, "open_tasks")
    BY <1>1
  <2>2. "open_tasks" # "lock_rows"
    OBVIOUS
  <2> QED BY <2>1, <2>2, AuditPath
<1> DEFINE S == {t \in Tasks : View(r).rows[t].status \notin TERMINAL}
<1>3. PICK queue \in Queues(S, LAMBDA s, t : s < t) : memo' = [memo EXCEPT ![r].queue = queue]
  BY DEF open_tasks
<1>4. \A i, j \in DOMAIN queue : i < j => queue[i] < queue[j]
  BY <1>3 DEF Queues
<1>5. memo'[r].queue = queue
  BY <1>1, <1>3 DEF Ready, MemoRow
<1>6. Ascending(r)'
  <2> QED BY <1>1, <1>4, <1>5, <1>7 DEF Ascending, Knows
<1> QED BY <1>1, <1>2, <1>6, OwnWaits

LEMMA LockRowsWaits ==
  ASSUME RowsInv, BatchInv, WaitsInv, NEW r \in Requests, lock_rows(r)
  PROVE  WaitsInv'
<1>1. /\ Passes(r, "lock_rows") /\ UNCHANGED <<db, draft>>
      /\ Ready(r) /\ At(r, "lock_rows") /\ Ascending(r)
  BY StepMoves, WaitsParts DEF lock_rows, Passes, WaitsInv
<1> DEFINE queue == memo[r].queue
           t == Head(queue)
<1>2. CASE queue = <<>>
  <2>1. Proceed(r) /\ UNCHANGED holder
    BY <1>2 DEF lock_rows
  <2>2. Left(r)' = Left(r) - 1 /\ Left(r) \in 0 .. 13
    <3>1. UNCHANGED <<prog, memo>>
      BY <1>2 DEF lock_rows
    <3> QED BY <1>1, <2>1, <3>1, AloneMoves DEF Ready, PlacesOf
  <2>3. Ascending(r)'
    BY <1>1, <2>2, AuditPath DEF Ascending
  <2>4. OwnLocks(r, "lock_rows") /\ Apart(r)
    BY <1>1, <2>1 DEF OwnLocks, Apart
  <2> QED BY <1>1, <2>3, <2>4, OwnWaits
<1>3. CASE queue # <<>>
  <2>1. Lock(r, t) /\ memo' = [memo EXCEPT ![r].queue = Tail(@), ![r].locked = @ \cup {t}]
    BY <1>3 DEF lock_rows
  <2>2. queue \in Seq(Tasks)
    BY <1>1 DEF Ready, MemoRow
  <2>3. t \in Tasks /\ t = queue[1] /\ Len(queue) \in Nat \ {0} /\ DOMAIN queue = 1 .. Len(queue)
    BY <1>3, <2>2, EmptySeq
  <2> DEFINE rest == Tail(queue)
  <2>4. /\ DOMAIN rest = 1 .. Len(queue) - 1
        /\ \A i \in DOMAIN rest : rest[i] = queue[i + 1] /\ i + 1 \in DOMAIN queue
    BY <1>3, <2>2, <2>3, HeadTailProperties
  <2>5. memo'[r].queue = rest
    BY <1>1, <2>1 DEF Ready, MemoRow
  <2>6. Others(r, t) = {}
    BY <1>1, <1>3 DEF lock_rows, Runs, WaitsFor, At
  <2>7. t \in Lockable \ Batches /\ holder[t] \in {r, NULL}
    BY <2>3, <2>6, OthersFree, LockableParts DEF RowsInv
  <2> HIDE DEF rest, t
  <2>8. /\ OwnLocks(r, "lock_rows") /\ Apart(r)
        /\ \A y \in Lockable : holder'[y] = r => y = t \/ holder[y] = r
    BY <1>1, <2>1, <2>7, LockWaits
  <2>9. Ascending(r)'
    <3> SUFFICES ASSUME Before(r, {"run_dispatch"}, {4})'
                 PROVE  /\ \A i, j \in DOMAIN rest : i < j => rest[i] < rest[j]
                        /\ \A x \in Lockable : holder'[x] = r =>
                             x \in Tasks /\ \A i \in DOMAIN rest : x < rest[i]
      BY <2>5 DEF Ascending
    <3>1. /\ \A i, j \in DOMAIN queue : i < j => queue[i] < queue[j]
          /\ \A x \in Lockable : holder[x] = r =>
               x \in Tasks /\ \A i \in DOMAIN queue : x < queue[i]
      BY <1>1, AuditPath DEF Ascending
    <3> HIDE DEF queue
    <3>2. \A i, j \in DOMAIN rest : i < j => rest[i] < rest[j]
      <4> SUFFICES ASSUME NEW i \in DOMAIN rest, NEW j \in DOMAIN rest, i < j
                   PROVE  rest[i] < rest[j]
        OBVIOUS
      <4>1. i \in Int /\ j \in Int /\ i + 1 < j + 1
        BY <2>4
      <4> QED BY <2>4, <3>1, <4>1
    <3>3. \A i \in DOMAIN rest : t < rest[i]
      <4> SUFFICES ASSUME NEW i \in DOMAIN rest PROVE t < rest[i]
        OBVIOUS
      <4>1. 1 \in DOMAIN queue /\ 1 < i + 1
        BY <2>3, <2>4
      <4> QED BY <2>3, <2>4, <3>1, <4>1
    <3>4. \A x \in Lockable : holder[x] = r => x \in Tasks /\ \A i \in DOMAIN rest : x < rest[i]
      BY <2>4, <3>1
    <3> QED BY <2>3, <2>8, <3>2, <3>3, <3>4
  <2> QED BY <1>1, <2>8, <2>9, OwnWaits
<1> QED BY <1>2, <1>3

LEMMA WaitsInvStep ==
  ASSUME RowsInv, BatchInv, WaitsInv, NEW r \in Requests, Statement(r)
  PROVE  WaitsInv'
<1>1. \A x \in Lockable : Others(r, x) = {} => holder[x] \in {r, NULL}
  BY OthersFree DEF RowsInv
<1>2. CASE \/ get_current_task(r) \/ check_availability(r) \/ select_candidates(r)
           \/ eligible_workers(r) \/ count_remaining(r) \/ assigned_tasks(r) \/ check_assignee(r)
  <2>1. UNCHANGED <<db, draft, holder>>
    BY <1>2 DEF get_current_task, check_availability, select_candidates,
         eligible_workers, count_remaining, assigned_tasks, check_assignee
  <2>2. PICK s \in {"get_current_task", "availability", "candidates", "eligible_workers",
                    "count_remaining", "assigned_tasks", "eligible", "counterpart"} : Passes(r, s)
    BY <1>2, StepMoves
  <2>3. OwnLocks(r, s) /\ Apart(r)
    BY <2>1 DEF OwnLocks, Apart
  <2> QED BY <2>2, <2>3, OwnWaitsElsewhere
<1>3. CASE lock_candidate(r)
  <2>1. Passes(r, "lock_candidate") /\ UNCHANGED <<db, draft, prog>> /\ Ready(r)
    BY <1>3, StepMoves DEF lock_candidate, Passes
  <2>2. CASE UNCHANGED holder
    <3>1. OwnLocks(r, "lock_candidate") /\ Apart(r)
      BY <2>1, <2>2 DEF OwnLocks, Apart
    <3> QED BY <2>1, <3>1, OwnWaitsElsewhere
  <2>3. ASSUME NEW i \in DOMAIN memo[r].queue, Others(r, memo[r].queue[i]) = {},
               Lock(r, memo[r].queue[i])
        PROVE  WaitsInv'
    <3> DEFINE t == memo[r].queue[i]
    <3>1. t \in Tasks
      BY <2>1 DEF Ready, MemoRow
    <3>2. holder[t] \in {r, NULL} /\ t \in Lockable \ Batches
      BY <1>1, <2>3, <3>1, LockableParts
    <3> HIDE DEF t
    <3>3. Lock(r, t)
      BY <2>3 DEF t
    <3>4. OwnLocks(r, "lock_candidate") /\ Apart(r)
      BY <2>1, <3>2, <3>3, LockWaits
    <3> QED BY <2>1, <3>4, OwnWaitsElsewhere
  <2> QED BY <1>3, <2>2, <2>3 DEF lock_candidate
<1>4. CASE task_for_update(r)
  <2>1. Passes(r, "task_for_update") /\ UNCHANGED <<db, draft, prog>> /\ Lock(r, Task(r))
        /\ Ready(r) /\ Others(r, Task(r)) = {} /\ Kind(r) \in Enders \cup {"assign", "unassign"}
    BY <1>4, StepMoves, Places
    DEF task_for_update, Task, Passes, Runs, WaitsFor, At, Ready, Before, Enders
  <2>2. Task(r) \in Tasks
    BY <2>1, ProgramsAssumption DEF Ready, PlacesOf, Enders, Task
  <2>3. holder[Task(r)] \in {r, NULL} /\ Task(r) \in Lockable \ Batches
    BY <1>1, <2>1, <2>2, LockableParts
  <2>4. OwnLocks(r, "task_for_update") /\ Apart(r)
    BY <2>1, <2>3, LockWaits
  <2> QED BY <2>1, <2>4, OwnWaitsElsewhere
<1>5. CASE write_audit_log(r)
  <2>1. Passes(r, "audit") /\ UNCHANGED <<db, draft, prog>> /\ Lock(r, AUDIT) /\ Others(r, AUDIT) = {}
    BY <1>5, StepMoves DEF write_audit_log, Passes, Runs, WaitsFor, At
  <2>2. holder[AUDIT] \in {r, NULL} /\ AUDIT \in Lockable \ Batches
    BY <1>1, <2>1, LockableParts
  <2>3. OwnLocks(r, "audit") /\ Apart(r)
    BY <2>1, <2>2, LockWaits
  <2> QED BY <2>1, <2>3, OwnWaitsElsewhere
<1>6. CASE claim(r) \/ end_task(r)
  <2>1. PICK s \in {"claim", "end"} : Passes(r, s)
    BY <1>6, StepMoves
  <2>2. WritesOwn(r) /\ UNCHANGED holder
    BY <1>6, ClaimEffect, EndEffect
  <2>3. OwnLocks(r, s) /\ Apart(r)
    BY <2>1, <2>2, WriteApart DEF OwnLocks
  <2> QED BY <2>1, <2>3, OwnWaitsElsewhere
<1>7. CASE release(r) \/ assign(r)
  <2>1. PICK s \in {"release", "assign"} : Passes(r, s)
    BY <1>7, StepMoves
  <2>2. WritesOwn(r) /\ UNCHANGED holder
    BY <1>7, ReleaseEffect, AssignEffect DEF Rewaits
  <2>3. OwnLocks(r, s) /\ Apart(r)
    BY <2>1, <2>2, WriteApart DEF OwnLocks
  <2> QED BY <2>1, <2>3, OwnWaitsElsewhere
<1>8. CASE auto_assign(r)
  <2>1. /\ Passes(r, "auto_assign") /\ Rewaits(r) /\ UNCHANGED holder
        /\ \/ Proceed(r)
           \/ Skip(r) /\ \A t \in Tasks : draft'.rows[t] = draft.rows[t]
    BY <1>8, StepMoves, AutoAssignEffect
  <2>2. WritesOwn(r) /\ Apart(r) /\ UNCHANGED <<db, prog, memo>> /\ Ready(r)
    BY <2>1, WriteApart DEF Rewaits, WritesOwn, Passes
  <2>3. Proceed(r) => Left(r)' = Left(r) - 1
    BY <2>2, AloneMoves DEF Ready
  <2>4. OwnLocks(r, "auto_assign")
    BY <2>1, <2>2, <2>3 DEF OwnLocks
  <2> QED BY <2>1, <2>2, <2>4, OwnWaitsElsewhere
<1>9. CASE upsert_status(r)
  <2> DEFINE w == prog[r].user
  <2>1. /\ Passes(r, "upsert_status") /\ TakesAndWrites(r, w)
        /\ w \in Workers /\ holder' = [holder EXCEPT ![w] = r]
    BY <1>9, StepMoves, UpsertEffect
  <2> HIDE DEF w
  <2>2. /\ \A b \in Batches : holder'[b] = holder[b]
        /\ \A t \in Tasks : holder'[t] = holder[t]
        /\ holder'[AUDIT] = holder[AUDIT]
    BY <2>1, LockableParts DEF RowsInv, Typed
  <2>3. OwnLocks(r, "upsert_status") /\ Apart(r)
    BY <2>1, <2>2, WriteApart DEF OwnLocks, TakesAndWrites, WritesOwn
  <2> QED BY <2>1, <2>3, OwnWaitsElsewhere
<1>10. CASE batch_in_progress(r) \/ batch_completed(r)
  <2>1. PICK s \in {"batch_in_progress", "batch_completed"} : Passes(r, s)
    BY <1>10, StepMoves
  <2>2. CASE UNCHANGED <<db, draft, holder, prog, memo>>
    <3>1. OwnLocks(r, s) /\ Apart(r)
      BY <2>1, <2>2 DEF OwnLocks, Apart
    <3> QED BY <2>1, <3>1, OwnWaitsElsewhere
  <2>3. ASSUME NEW b \in Batches, TakesAndWrites(r, b), holder' = [holder EXCEPT ![b] = r]
        PROVE  WaitsInv'
    <3>1. (\A t \in Tasks : holder'[t] = holder[t]) /\ holder'[AUDIT] = holder[AUDIT]
      BY <2>3, LockableParts DEF RowsInv, Typed
    <3>2. OwnLocks(r, s) /\ Apart(r)
      BY <2>1, <2>3, <3>1, WriteApart DEF OwnLocks, TakesAndWrites, WritesOwn
    <3> QED BY <2>1, <3>2, OwnWaitsElsewhere
  <2> QED BY <1>10, <2>2, <2>3, BatchInProgressEffect, BatchCompletedEffect
<1>11. CASE commit(r) \/ refuse(r) \/ deadlock_detected(r)
  <2>1. Goto(r, <<>>) /\ UNCHANGED <<prog, memo>>
        /\ holder' = [x \in Lockable |-> IF holder[x] = r THEN NULL ELSE holder[x]]
    BY <1>11 DEF commit, refuse, deadlock_detected, Rollback, Unlock
  <2>2. Apart(r) /\ Alone(r)
    <3>1. Alone(r)
      BY <2>1, AloneMoves
    <3>2. Apart(r)
      BY <1>11, <2>1, CommitData, RollbackData DEF commit, refuse, deadlock_detected, Releases
    <3> QED BY <3>1, <3>2
  <2>3. \A x \in Lockable : holder'[x] # r
    BY <2>1, LockableParts
  <2>4. Left(r)' = 0
    BY <2>1, AloneMoves
  <2>5. Waits(r)'
    BY <2>3, <2>4, LockableParts DEF Waits, Before
  <2> QED BY <2>2, <2>5, OthersWait DEF WaitsInv
<1> QED
  BY <1>2, <1>3, <1>4, <1>5, <1>6, <1>7, <1>8, <1>9, <1>10, <1>11, OpenTasksWaits, LockRowsWaits
  DEF Statement

LEMMA WaitsInvNext == RowsInv /\ BatchInv /\ WaitsInv /\ [Next]_vars => WaitsInv'
<1> SUFFICES ASSUME RowsInv, BatchInv, WaitsInv, [Next]_vars PROVE WaitsInv'
  OBVIOUS
<1>1. CASE UNCHANGED vars
  BY <1>1 DEF vars, WaitsInv, Waits, ToAudit, Before, Kind, Left
<1> QED BY <1>1, WaitsInvStep DEF Next

LEMMA WaitsInvInit == Init => WaitsInv
<1> SUFFICES ASSUME Init, NEW r \in Requests PROVE Waits(r)
  BY DEF WaitsInv
<1>1. /\ prog \in [Requests -> Programs] /\ holder = [x \in Lockable |-> NULL]
      /\ todo = [q \in Requests |-> Statements(prog[q])]
  BY DEF Init
<1>2. Left(r) = Length(Kind(r)) /\ Kind(r) \in Kinds
  BY <1>1, ScriptIs, ScriptType, KindIs DEF Left, Kind
<1>3. ~Before(r, {"run_dispatch"}, {4})
  BY <1>2 DEF Before, Length
<1>4. \A x \in Lockable : holder[x] # r
  BY <1>1, LockableParts
<1> QED BY <1>3, <1>4, LockableParts DEF Waits

\* whom a request waits for, and at which statement
LEMMA WaitingAt ==
  ASSUME RowsInv, NEW r \in Requests, NEW q \in WaitsFor(r)
  PROVE  /\ q \in Requests
         /\ \E x \in Lockable : holder[x] = q
         /\ \/ At(r, "task_for_update") /\ Fresh(r)
            \/ At(r, "upsert_status") /\ Kind(r) = "availability"
            \/ /\ At(r, "lock_rows") /\ memo[r].queue \in Seq(Tasks) /\ memo[r].queue # <<>>
               /\ holder[Head(memo[r].queue)] = q
            \/ /\ At(r, "claim")
               /\ \E t \in Tasks : holder[t] = q /\ draft.rows[t] # db.rows[t]
            \/ At(r, "batch_in_progress") /\ \E b \in Batches : holder[b] = q
            \/ At(r, "batch_completed") /\ Audited(r)
            \/ At(r, "audit") /\ holder[AUDIT] = q
<1>1. ASSUME NEW x, q \in Others(r, x)
      PROVE  holder[x] = q
  BY <1>1 DEF Others
<1>2. ASSUME NEW x \in Lockable, holder[x] = q, q # NULL
      PROVE  q \in Requests /\ \E y \in Lockable : holder[y] = q
  BY <1>2 DEF RowsInv, Typed
<1>3. q # NULL
  BY DEF WaitsFor, IndexWaits, Others
<1>4. \A s : At(r, s) => Ready(r)
  BY ReadyAt
<1>5. CASE At(r, "task_for_update")
  <2>1. q \in Others(r, Task(r))
    BY <1>5 DEF WaitsFor, At, Task
  <2>2. Fresh(r) /\ Kind(r) \in Enders \cup {"assign", "unassign"} /\ Ready(r)
    BY <1>4, <1>5, Places DEF Ready, Before, Fresh, Enders
  <2>3. Task(r) \in Lockable
    BY <2>2, ProgramsAssumption, LockableParts DEF Ready, PlacesOf, Enders, Task
  <2> QED BY <1>1, <1>2, <1>3, <1>5, <2>1, <2>2, <2>3
<1>6. CASE At(r, "upsert_status")
  <2>1. q \in Others(r, prog[r].user)
    BY <1>6 DEF WaitsFor, At
  <2>2. Kind(r) = "availability" /\ Ready(r)
    BY <1>4, <1>6, Places DEF Ready, Before
  <2>3. prog[r].user \in Lockable
    BY <2>2, ProgramsAssumption, LockableParts DEF Ready, PlacesOf
  <2> QED BY <1>1, <1>2, <1>3, <1>6, <2>1, <2>2, <2>3
<1>7. CASE At(r, "lock_rows")
  <2>1. memo[r].queue # <<>> /\ q \in Others(r, Head(memo[r].queue))
    BY <1>7 DEF WaitsFor, At
  <2>2. memo[r].queue \in Seq(Tasks)
    BY <1>4, <1>7 DEF Ready, MemoRow
  <2>3. Head(memo[r].queue) \in Lockable
    BY <2>1, <2>2, LockableParts
  <2> QED BY <1>1, <1>2, <1>3, <1>7, <2>1, <2>2, <2>3
<1>8. CASE At(r, "claim")
  <2>1. q \in IndexWaits(r)
    BY <1>8 DEF WaitsFor, At
  <2>2. PICK t \in Tasks : draft.rows[t] # db.rows[t] /\ q \in Others(r, t)
    BY <2>1 DEF IndexWaits
  <2> QED BY <1>1, <1>2, <1>3, <1>8, <2>2, LockableParts
<1>9. CASE At(r, "batch_in_progress")
  <2>1. q \in Others(r, Batch(r)) /\ Batch(r) # NULL
    BY <1>9 DEF WaitsFor, At
  <2>2. Batch(r) \in Batches
    <3>1. Ready(r) /\ ToMark(r)
      BY <1>4, <1>9, Places DEF Ready, Before, ToMark
    <3>2. memo[r].queue # <<>> /\ memo[r].queue \in Seq(Tasks)
      BY <3>1 DEF ToMark, Ready, Knows, MemoRow
    <3>3. Head(memo[r].queue) \in Tasks
      BY <3>2
    <3>4. Batch(r) = TaskBatch[Head(memo[r].queue)]
      BY <1>9 DEF Batch
    <3> QED BY <2>1, <3>3, <3>4 DEF Batches
  <2> QED BY <1>1, <1>2, <1>3, <1>9, <2>1, <2>2, LockableParts
<1>10. CASE At(r, "batch_completed")
  <2>1. q \in Others(r, Batch(r))
    BY <1>10 DEF WaitsFor, At
  <2>2. Ready(r) /\ ToComplete(r) /\ Audited(r)
    BY <1>4, <1>10, Places DEF Ready, Before, ToComplete, Audited
  <2>3. Batch(r) = TaskBatch[Task(r)] /\ TaskBatch[Task(r)] \in Batches
    BY <1>10, <2>2 DEF Batch, At, Task, Ready, Knows
  <2> QED BY <1>1, <1>2, <1>3, <1>10, <2>1, <2>2, <2>3, LockableParts
<1>11. CASE At(r, "audit")
  <2>1. q \in Others(r, AUDIT)
    BY <1>11 DEF WaitsFor, At
  <2> QED BY <1>1, <1>2, <1>3, <1>11, <2>1, LockableParts
<1> QED
  BY <1>5, <1>6, <1>7, <1>8, <1>9, <1>10, <1>11 DEF WaitsFor

LEMMA OnTheWay ==
  ASSUME RowsInv, NEW r \in Requests
  PROVE  /\ Before(r, {"claim_next"}, {2}) => At(r, "audit")
         /\ ToAudit(r) => At(r, "audit") \/ At(r, "batch_in_progress")
<1>1. prog \in [Requests -> Programs] /\ Placed
  BY DEF RowsInv, Typed
<1>2. Left(r) > 0 =>
        /\ todo[r] # <<>>
        /\ Head(todo[r]) = Script(Kind(r))[Length(Kind(r)) - Left(r) + 1]
  <2>1. Left(r) > 0 => todo[r] # <<>>
    BY EmptySeq DEF Left
  <2> QED BY <1>1, <2>1, HeadIs
<1> SUFFICES ASSUME ToAudit(r)
             PROVE  /\ Before(r, {"claim_next"}, {2}) => At(r, "audit")
                    /\ At(r, "audit") \/ At(r, "batch_in_progress")
  BY DEF ToAudit, Before
<1>3. CASE Before(r, {"claim_next"}, {2})
  BY <1>2, <1>3 DEF Before, Script, Length, At
<1>4. CASE Before(r, {"claim_next"}, {3})
  BY <1>2, <1>4 DEF Before, Script, Length, At
<1>5. CASE Before(r, {"complete", "cancel"}, {4})
  BY <1>2, <1>5 DEF Before, Script, Length, At
<1>6. CASE Before(r, {"complete_claim"}, {11})
  BY <1>2, <1>6 DEF Before, Script, Length, At
<1>7. CASE Before(r, {"run_dispatch", "assign"}, {2})
  BY <1>2, <1>7 DEF Before, Script, Length, At
<1>8. CASE Before(r, {"unassign"}, {7})
  BY <1>2, <1>8 DEF Before, Script, Length, At
<1>9. \/ Before(r, {"claim_next"}, {2}) \/ Before(r, {"claim_next"}, {3})
      \/ Before(r, {"complete", "cancel"}, {4})
      \/ Before(r, {"complete_claim"}, {11}) \/ Before(r, {"run_dispatch", "assign"}, {2})
      \/ Before(r, {"unassign"}, {7})
  BY DEF ToAudit, Before
<1> QED BY <1>3, <1>4, <1>5, <1>6, <1>7, <1>8, <1>9

\* of some tasks one has the fewest behind it in the queue
Behind(t) == Cardinality({s \in Tasks : s > t})
LEMMA LastOf ==
  ASSUME NEW S \in SUBSET Tasks, S # {}
  PROVE  \E t \in S : \A s \in S : s <= t
<1>1. \A t \in Tasks : t \in Nat
  BY TasksAssumption
<1>2. \A t \in Tasks : IsFiniteSet({s \in Tasks : s > t}) /\ Behind(t) \in Nat
  BY TasksAssumption, FS_Subset, FS_CardinalityType DEF Behind
<1> DEFINE N == {Behind(t) : t \in S}
<1>3. N \subseteq Nat /\ N # {}
  BY <1>2
<1>4. PICK n \in N : \A m \in N : <<m, n>> \notin OpToRel(<, Nat)
  BY <1>3, NatLessThanWellFounded, WFMin
<1>5. PICK t \in S : n = Behind(t)
  BY <1>4
<1>6. \A s \in S : s <= t
  <2> SUFFICES ASSUME NEW s \in S, s > t PROVE FALSE
    BY <1>1
  <2> DEFINE A == {x \in Tasks : x > s}
             B == {x \in Tasks : x > t}
  <2>1. A \subseteq B /\ s \in B /\ s \notin A
    BY <1>1
  <2>2. IsFiniteSet(B) /\ A # B
    BY <1>2, <2>1
  <2>3. Cardinality(A) < Cardinality(B)
    <3> HIDE DEF A, B
    <3> QED BY <2>1, <2>2, FS_Subset, FS_CardinalityType
  <2>4. Behind(s) < Behind(t) /\ Behind(s) \in N
    BY <2>3 DEF Behind
  <2>5. <<Behind(s), Behind(t)>> \in OpToRel(<, Nat)
    BY <1>2, <2>4 DEF OpToRel
  <2> QED BY <1>4, <1>5, <2>4, <2>5
<1> QED BY <1>6

LEMMA CyclesExplained ==
  ASSUME RowsInv, BatchInv, WaitsInv, NEW S \in SUBSET Requests, Cycle(S),
         holder[AUDIT] \notin S
  PROVE  \E r \in S : Releasing(r)
<1> SUFFICES ASSUME \A r \in S : Kind(r) # "availability" PROVE FALSE
  BY DEF Releasing, Kind
<1>1. \A r \in S : r \in Requests /\ BatchKnows(r) /\ Waits(r) /\ Knows(r) /\ ~Audited(r)
  BY DEF BatchInv, WaitsInv, RowsInv, BatchKnows
<1>2. ASSUME NEW r \in S
      PROVE  (\E q \in S : q \in WaitsFor(r)) /\ (\E x \in Lockable : holder[x] = r) /\ ~Fresh(r)
  <2>1. (\E q \in S : q \in WaitsFor(r)) /\ \E q \in S : r \in WaitsFor(q)
    BY <1>2 DEF Cycle
  <2>2. \E x \in Lockable : holder[x] = r
    BY <1>1, <2>1, WaitingAt
  <2> QED BY <1>1, <2>1, <2>2 DEF Knows
<1>3. \A r \in S : ~At(r, "audit")
  BY <1>1, <1>2, WaitingAt DEF At
<1>4. \A r \in S : ~At(r, "batch_in_progress")
  <2> SUFFICES ASSUME NEW r \in S, At(r, "batch_in_progress") PROVE FALSE
    OBVIOUS
  <2>1. PICK q \in S : \E b \in Batches : holder[b] = q
    BY <1>1, <1>2, WaitingAt DEF At
  <2>2. Before(q, {"claim_next"}, {2})
    BY <1>1, <2>1 DEF Waits
  <2>3. At(q, "audit")
    BY <1>1, <2>2, OnTheWay
  <2> QED BY <1>3, <2>3
<1>5. \A r \in S : ~At(r, "claim")
  <2> SUFFICES ASSUME NEW r \in S, At(r, "claim") PROVE FALSE
    OBVIOUS
  <2>1. PICK q \in S : \E t \in Tasks : holder[t] = q /\ draft.rows[t] # db.rows[t]
    BY <1>1, <1>2, WaitingAt DEF At
  <2>2. ToAudit(q)
    BY <1>1, <2>1 DEF Waits
  <2>3. At(q, "audit") \/ At(q, "batch_in_progress")
    BY <1>1, <2>2, OnTheWay
  <2> QED BY <1>3, <1>4, <2>3
<1>6. ASSUME NEW r \in S
      PROVE  /\ memo[r].queue \in Seq(Tasks) /\ memo[r].queue # <<>>
             /\ Before(r, {"run_dispatch"}, {4})
             /\ \E q \in S : holder[Head(memo[r].queue)] = q
  <2>1. PICK q \in S : q \in WaitsFor(r)
    BY <1>2
  <2>2. /\ At(r, "lock_rows") /\ memo[r].queue \in Seq(Tasks) /\ memo[r].queue # <<>>
        /\ holder[Head(memo[r].queue)] = q
    BY <1>1, <1>2, <1>3, <1>4, <1>5, <2>1, WaitingAt
  <2>3. Before(r, {"run_dispatch"}, {4})
    <3>1. prog \in [Requests -> Programs] /\ Placed
      BY DEF RowsInv, Typed
    <3>2. Before(r, {"run_dispatch", "unassign"}, {4})
      BY <1>1, <2>2, <3>1, Places DEF Before
    <3> QED BY <1>1, <3>2 DEF Before, Audited
  <2> QED BY <2>2, <2>3
<1> DEFINE first(r) == Head(memo[r].queue)
           heads == {first(r) : r \in S}
<1>7. \A r \in S : first(r) \in Tasks /\ memo[r].queue[1] = first(r) /\ 1 \in DOMAIN memo[r].queue
  BY <1>6, EmptySeq
<1>8. PICK r \in S : \A q \in S : first(q) <= first(r)
  <2>1. heads \in SUBSET Tasks /\ heads # {}
    BY <1>7 DEF Cycle
  <2> HIDE DEF heads
  <2>2. PICK t \in heads : \A s \in heads : s <= t
    BY <2>1, LastOf
  <2> QED BY <2>2 DEF heads
<1>9. PICK q \in S : holder[first(r)] = q
  BY <1>6
<1>10. first(r) < memo[q].queue[1]
  BY <1>1, <1>6, <1>7, <1>9, LockableParts DEF Waits
<1> QED BY <1>7, <1>8, <1>10, TasksAssumption

\* Row locks are taken in compatible orders: a claim waits for nobody but requests on
\* their way to their audit row, those hold nothing a claim could want next, and
\* dispatches lock the tasks in queue order; what remains are requests that lock rows
\* after their audit row, and the release of an employee's assignments.
THEOREM OnlyKnownDeadlocks == Spec => []DeadlocksExplained
<1>1. RowsInv /\ BatchInv /\ WaitsInv => DeadlocksExplained
  BY CyclesExplained DEF DeadlocksExplained
<1> QED
  BY <1>1, RowsInvInit, RowsInvNext, BatchInvInit, BatchInvNext, WaitsInvInit, WaitsInvNext, PTL
  DEF Spec

=============================================================================
