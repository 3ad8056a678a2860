---------------------------- MODULE WorkDispatch ----------------------------
(***************************************************************************)
(* auto_dispatch of api/services/work_dispatch_service.py as the loop it   *)
(* is: one pass over the open tasks that sums what every owner already     *)
(* has, then one pass over the unowned tasks that keeps the running totals *)
(* and the counterpart sets.  WorkTasks.tla specifies the result of that   *)
(* loop without the loop; the properties below tie the two together in     *)
(* every state the tasks can reach, and say what a dispatch achieves.      *)
(***************************************************************************)
EXTENDS WorkTasks

\* _open_tasks: ORDER BY priority DESC, available_at, task_id; n - 1 rows come before the
\* n-th one
Open     == {t \in TaskIds : status[t] \in OPEN_STATUSES}
Ahead(t) == {s \in Open : Before(s, t, job)}
OpenTasks ==
  [n \in 1 .. Cardinality(Open) |-> CHOOSE t \in Open : Cardinality(Ahead(t)) = n - 1]

NoTotals == [minutes |-> [u \in Users |-> 0], count |-> [u \in Users |-> 0]]

\* the first pass: projected and assigned_counts
AddOwned(totals, t) ==
  LET u == Owner(t, assigned_to)
  IN  IF u = NULL THEN totals
      ELSE [minutes |-> [totals.minutes EXCEPT ![u] = @ + RemainingMinutes(t, status, job)],
            count   |-> [totals.count EXCEPT ![u] = @ + 1]]

OwnedTotals ==
  LET tasks == OpenTasks
      totals[n \in 0 .. Cardinality(Open)] ==
        IF n = 0 THEN NoTotals ELSE AddOwned(totals[n - 1], tasks[n])
  IN  totals[Cardinality(Open)]

\* _counterpart_workers
PickPackWorkers ==
  [b \in Batches |->
     {Owner(t, assigned_to) : t \in {s \in TaskIds : /\ Exists(s)
                                                     /\ job[s].batch = b
                                                     /\ job[s].type \in PickPack}} \ {NULL}]

\* min over the candidates by (projected, assigned_counts, name)
Least(candidates, totals) ==
  CHOOSE v \in candidates : \A w \in candidates \ {v} :
    \/ totals.minutes[v] < totals.minutes[w]
    \/ /\ totals.minutes[v] = totals.minutes[w]
       /\ \/ totals.count[v] < totals.count[w]
          \/ totals.count[v] = totals.count[w] /\ Rank[v] < Rank[w]

\* wrong variant: only the least loaded of all the employees is considered
GiveTaskToLeast(acc, t) ==
  LET chosen == Least(Workers, acc.totals)
  IN  IF \/ status[t] # "QUEUED" \/ assigned_to[t] # NULL
         \/ availability[chosen] # "AVAILABLE" \/ job[t].type \notin grants[chosen]
        THEN acc ELSE [acc EXCEPT !.given[t] = chosen]

\* one turn of the second loop
GiveTask(acc, t) ==
  LET candidates ==
        {w \in Workers :
           /\ availability[w] = "AVAILABLE"
           /\ job[t].type \in grants[w]
           /\ ~ /\ job[t].batch # NULL
                /\ job[t].type \in PickPack
                /\ w \in acc.counterparts[job[t].batch]}
      chosen == Least(candidates, acc.totals)
  IN  IF status[t] # "QUEUED" \/ assigned_to[t] # NULL \/ candidates = {} THEN acc
      ELSE [given  |-> [acc.given EXCEPT ![t] = chosen],
            totals |-> [minutes |-> [acc.totals.minutes EXCEPT
                                       ![chosen] = @ + EstimatedMinutes[job[t].type]],
                        count   |-> [acc.totals.count EXCEPT ![chosen] = @ + 1]],
            counterparts |-> [b \in Batches |->
              IF b = job[t].batch THEN acc.counterparts[b] \cup {chosen}
              ELSE acc.counterparts[b]]]

NothingGiven == [given        |-> [t \in Unowned(status, assigned_to) |-> NULL],
                 totals       |-> OwnedTotals,
                 counterparts |-> PickPackWorkers]

DispatchLoop ==
  LET tasks == OpenTasks
      acc[n \in 0 .. Cardinality(Open)] ==
        IF n = 0 THEN NothingGiven ELSE GiveTask(acc[n - 1], tasks[n])
  IN  acc[Cardinality(Open)].given

Dispatches ==
  {f \in [Unowned(status, assigned_to) -> Workers \cup {NULL}] :
     IsDispatch(f, status, assigned_to, job, availability)}

\* The rule of WorkTasks (each task goes to the best candidate given the choices
\* before it) has exactly one solution in every reachable state, and it is what the
\* loop of auto_dispatch computes with its running totals.
DispatchIsLoop == Dispatches = {DispatchLoop}

\* A dispatch leaves no task waiting that somebody could take: when the loop is
\* over, every available employee who is granted the type of a task left in the
\* queue has another task of the same Pack Note.
DispatchExhaustive ==
  LET f == DispatchLoop
      Holder(s) == IF s \in DOMAIN f THEN f[s] ELSE Owner(s, assigned_to)
  IN  \A t \in DOMAIN f : f[t] = NULL =>
        \A w \in Workers :
          \/ availability[w] # "AVAILABLE"
          \/ job[t].type \notin grants[w]
          \/ \E s \in TaskIds : /\ job[t].batch # NULL
                                /\ job[s].batch = job[t].batch
                                /\ Holder(s) = w

=============================================================================
