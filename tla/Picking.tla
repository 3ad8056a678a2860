------------------------------ MODULE Picking ------------------------------
(***************************************************************************)
(* Pick batches and waves: api/services/picking_service.py behind          *)
(* api/routes/picking.py and admin_pick_batches.py, sales orders only (the *)
(* transfer-order branches are in TransferOrders).                         *)
(*                                                                         *)
(* Requests interleave where the code reads without a lock: a create looks *)
(* at the orders before it waits for the inventory rows, a wave looks at   *)
(* them again when it holds the rows and commits later, confirm and short  *)
(* load their task before they update it.  request[r] is what such a       *)
(* request has read; everything else is one transaction and one step.      *)
(***************************************************************************)
EXTENDS Orders

CONSTANT Requests

VARIABLE request

Idle == [op |-> "none"]
MaxOf2(m, n) == IF m > n THEN m ELSE n

-----------------------------------------------------------------------------
(***************************************************************************)
(* _normalize_so_reservations: what the lines of the orders hold beyond    *)
(* what is picked is released, from the item's rows in inventory_id order. *)
(* `standing` is what the unlocked SELECT saw.                             *)
(***************************************************************************)
Standing(db, O) ==
  [l \in {m \in LiveLines(db) : m[1] \in O /\ db.line[m].allocated > db.line[m].picked}
     |-> db.line[l].allocated - db.line[l].picked]

_normalize_so_reservations(db, standing) ==
  LET held(i) == SumOver(LAMBDA l : standing[l],
                               {l \in DOMAIN standing : l[2] = i})
      freed == [i \in Items |-> ReleaseWalk(db.inv, i, held(i))]
  IN  [db EXCEPT !.inv  = [r \in Rows |-> freed[r[1]][r]],
                 !.line = [l \in Lines |-> IF l \in DOMAIN standing
                                           THEN [@[l] EXCEPT !.allocated = db.line[l].picked]
                                           ELSE @[l]]]

\* lines with quantity_ordered > quantity_allocated, and how much they need
Needs(db, O) ==
  [l \in {m \in LiveLines(db) : m[1] \in O /\ db.line[m].ordered > db.line[m].allocated}
     |-> db.line[l].ordered - db.line[l].allocated]

NeedOf(need, i) == Total(need, {l \in DOMAIN need : l[2] = i})

\* _plan_coverage: nobody is unpickable, when the pickable stock covers every contributor
_plan_coverage(db, need) ==
  \A i \in Items : NeedOf(need, i) <= PickableStock(db.inv, i)

(***************************************************************************)
(* The allocation loops walk the contributors, and for each the bins in    *)
(* pick_sequence order.  Laid end to end, the needs and the bins' free     *)
(* stock are intervals, and a line takes from a bin where they overlap.    *)
(***************************************************************************)
Taken(db, need, l, b) ==
  LET lineStart == Total(need, {m \in DOMAIN need : m[2] = l[2] /\ m[1] < l[1]})
      free(c)   == AtLeast0(Available(db.inv, l[2], c))
      binStart  == SumOver(free, {c \in Pickable : c < b})
      upTo      == Least(lineStart + need[l], binStart + free(b))
  IN  AtLeast0(upTo - MaxOf2(lineStart, binStart))

Allocation(db, need) == [x \in (DOMAIN need) \X Pickable |-> Taken(db, need, x[1], x[2])]

Reserve(db, taken, newTasks, b, u, O) ==
  LET ofLine(l)     == Total(taken, {x \in DOMAIN taken : x[1] = l})
      fromBin(i, c) == Total(taken, {x \in DOMAIN taken : x[1][2] = i /\ x[2] = c})
  IN  [db EXCEPT
         !.inv   = [r \in Rows |-> [db.inv[r] EXCEPT !.allocated = @ + fromBin(r[1], r[2])]],
         !.line  = [l \in Lines |-> [db.line[l] EXCEPT !.allocated = @ + ofLine(l)]],
         !.batch[b] = [status |-> "OPEN", by |-> u, orders |-> O],
         !.task  = @ \cup newTasks]

\* create_pick_batch: a task for each line and bin
LineTasks(taken, b) ==
  {NewTask(b, x[1][1], x[1][2], x[2], taken[x], NoShare) :
     x \in {y \in DOMAIN taken : taken[y] > 0}}

\* wave_create: a task for each item and bin, in the name of the first contributor
Contributors(taken, i) == {x[1][1] : x \in {y \in DOMAIN taken : y[1][2] = i}}
WaveTask(taken, b, i, c) ==
  LET share == [o \in {p \in Contributors(taken, i) : taken[<< <<p, i>>, c>>] > 0} |-> taken[<< <<o, i>>, c>>]]
  IN  NewTask(b, Min(Contributors(taken, i)), i, c, Total(share, DOMAIN share), share)
WaveTasks(taken, b) ==
  {WaveTask(taken, b, x[1][2], x[2]) : x \in {y \in DOMAIN taken : taken[y] > 0}}

-----------------------------------------------------------------------------
(***************************************************************************)
(* full_revert_batch over a set of batches: units picked go back to the    *)
(* bin of their task, pending reservations are freed, and the line the     *)
(* task points at loses both (the shares of a wave task do not).           *)
(***************************************************************************)
Undone(t) == CASE t.status = "PICKED"              -> [t EXCEPT !.status = "RELEASED"]
               [] t.status \in {"PENDING", "SHORT"} -> [t EXCEPT !.status = "SKIPPED"]
               [] OTHER                            -> t

full_revert_batch(db, B) ==
  LET T == {t \in db.task : /\ t.batch \in B /\ db.batch[t.batch].status = "OPEN"
                            /\ t.status \in {"PENDING", "PICKED", "SHORT"}}
      at(r)      == {t \in T : t.item = r[1] /\ t.bin = r[2]}
      pending(r) == Quantity({t \in at(r) : t.status = "PENDING"})
      ofLine(l)  == {t \in T : t.line = l}
  IN  [db EXCEPT
         !.inv   = [r \in Rows |-> [on_hand   |-> db.inv[r].on_hand + Picked(at(r)),
                                    allocated |-> IF pending(r) = 0 THEN db.inv[r].allocated
                                                  ELSE AtLeast0(db.inv[r].allocated - pending(r))]],
         !.line  = [l \in Lines |-> [db.line[l] EXCEPT
                                      !.picked    = AtLeast0(@ - Picked(ofLine(l))),
                                      !.allocated = AtLeast0(@ - Quantity(ofLine(l)))]],
         !.batch = [b \in Batches |-> IF b \in B /\ db.batch[b].status = "OPEN"
                                      THEN [db.batch[b] EXCEPT !.status = "CANCELLED"]
                                      ELSE db.batch[b]],
         !.task  = {IF t \in T THEN Undone(t) ELSE t : t \in db.task}]

\* cancel_prior_user_batches: a new session drops what the same picker left open
PriorOf(u) == {b \in Batches : batch[b].status = "OPEN" /\ batch[b].by = u}
cancel_prior_user_batches(db, u) == full_revert_batch(db, PriorOf(u))

-----------------------------------------------------------------------------
(***************************************************************************)
(* create_pick_batch and wave_create.  What a create reads before it waits *)
(* for rows: the guards, the standing reservations and, when there are     *)
(* none to release, the needs.  A wave that has the rows plans and looks   *)
(* a second time, and commits in a later step.  With batches of his own to *)
(* revert a picker's create holds their rows from the start, and its parts *)
(* are one step.                                                           *)
(***************************************************************************)
OrderIsFree(db, o) == /\ db.order[o].status = "OPEN"
                      /\ ActiveBatchesOf(db, o) = {}
CreateGuards(db, op, O) ==
  /\ O # {}
  /\ \A o \in O : OrderIsFree(db, o)
  /\ op = "wave" => \A o \in O : LinesIn(db, o) # {}

Plan(db, op, u, O) ==
  [op |-> op, by |-> u, orders |-> O, standing |-> Standing(db, O),
   needs |-> IF DOMAIN Standing(db, O) = {} THEN Needs(db, O) ELSE NULL, planned |-> FALSE]

Normalised(db, plan) == _normalize_so_reservations(db, plan.standing)
PlannedNeeds(db, plan) ==
  IF ~plan.planned /\ plan.needs = NULL THEN Needs(Normalised(db, plan), plan.orders) ELSE plan.needs

Covered(db, plan) == _plan_coverage(Normalised(db, plan), PlannedNeeds(db, plan))

(***************************************************************************)
(* The rows a wave holds from its plan to its commit: the inventory of the *)
(* items it takes or releases (rows without units, which the code does not *)
(* lock, among them: what happens to these may as well happen after the    *)
(* commit) and the lines it has normalised.  A wave of orders that need    *)
(* nothing holds none.                                                     *)
(***************************************************************************)
ItemsOf(db, plan) == {l[2] : l \in DOMAIN plan.standing \cup DOMAIN PlannedNeeds(db, plan)}
Planning(r)  == request[r].op = "wave" /\ request[r].planned
Held == UNION {ItemsOf(Db, request[s]) : s \in {r \in Requests : Planning(r)}}
RowsFree(db, plan) == ItemsOf(db, plan) \cap Held = {}
\* nobody writes what a wave holds, until it ends
PlannedRowsKept ==
  \A r \in Requests : Planning(r) /\ request'[r] = request[r] =>
    /\ \A s \in Rows : s[1] \in ItemsOf(Db, request[r]) => inventory'[s] = inventory[s]
    /\ \A l \in DOMAIN request[r].standing : line'[l] = line[l]

\* wrong variant: no second look
WaveRecheckSkipped(db, plan) == TRUE
\* the second look of wave_create: batches that committed before it had the rows
WaveRecheck(db, plan) ==
  plan.op = "wave" => \A o \in plan.orders : ActiveBatchesOf(db, o) = {}

\* a line of the map that was deleted meanwhile fails the foreign key of its task
LinesThere(db, plan) == plan.op = "wave" => DOMAIN PlannedNeeds(db, plan) \subseteq LiveLines(db)

\* create_pick_batch reads its lines again for the allocation, wave_create keeps its map
Create(db, plan, b) ==
  \E db1 \in {Normalised(db, plan)} :
  \E need \in {IF plan.op = "wave" THEN PlannedNeeds(db, plan) ELSE Needs(db1, plan.orders)} :
  \E taken \in {Allocation(db1, need)} :
    Commit(Reserve(db1, taken, IF plan.op = "wave" THEN WaveTasks(taken, b) ELSE LineTasks(taken, b),
                   b, plan.by, plan.orders))

FreshBatch(b) == /\ batch[b].status = "NONE"
                 /\ \A c \in Batches : batch[c].status = "NONE" => b <= c

BeginCreate(r, op, u, O) ==
  /\ request[r] = Idle
  /\ PriorOf(u) = {}
  /\ CreateGuards(Db, op, O)
  /\ request' = [request EXCEPT ![r] = Plan(Db, op, u, O)]
  /\ Unchanged

PlanWave(r) ==
  LET plan == request[r] IN
  /\ plan.op = "wave" /\ ~plan.planned
  /\ RowsFree(Db, plan)
  /\ Covered(Db, plan) /\ WaveRecheck(Db, plan)
  /\ request' = [request EXCEPT ![r] = [op |-> "wave", by |-> plan.by, orders |-> plan.orders,
                    standing |-> plan.standing, needs |-> PlannedNeeds(Db, plan), planned |-> TRUE]]
  /\ Unchanged

\* create_pick_batch waits for the rows too, and has no second look
FinishCreate(r) ==
  LET plan == request[r] IN
  /\ Planning(r) \/ (plan.op = "batch" /\ RowsFree(Db, plan))
  /\ LinesThere(Db, plan) /\ Covered(Db, plan)
  /\ \E b \in Batches : FreshBatch(b) /\ Create(Db, plan, b)
  /\ request' = [request EXCEPT ![r] = Idle]

\* no prior batch is cancelled when the create is refused: the transaction rolls back
CreateOverPrior(op, u, O) ==
  /\ PriorOf(u) # {}
  /\ \E db \in {cancel_prior_user_batches(Db, u)} : \E plan \in {Plan(db, op, u, O)} :
       /\ CreateGuards(db, op, O)
       /\ RowsFree(db, plan)
       /\ LinesThere(db, plan) /\ Covered(db, plan)
       /\ \E b \in Batches : FreshBatch(b) /\ Create(db, plan, b)
  /\ UNCHANGED request

\* cancel_stale_self_batch: his own OPEN batch that nobody has picked from
IsStaleSelf(db, b, u) == /\ db.batch[b].status = "OPEN"
                         /\ db.batch[b].by = u
                         /\ \A t \in TasksOf(db, b) : t.status = "PENDING" /\ t.picked = 0

\* 409: not covered, or a batch got there first; a wave that met the picker's own
\* abandoned batch reverts it and starts again; a line that is gone fails the commit
RefuseCreate(r) ==
  LET plan == request[r]
      met == UNION {ActiveBatchesOf(Db, o) : o \in plan.orders}
      stale == {b \in met : IsStaleSelf(Db, b, plan.by)}
  IN
  /\ plan.op \in {"wave", "batch"}
  /\ IF plan.planned THEN ~LinesThere(Db, plan) ELSE ~(Covered(Db, plan) /\ WaveRecheck(Db, plan))
  /\ IF plan.op = "wave" /\ ~plan.planned /\ stale # {} /\ Covered(Db, plan)
     THEN \E b \in stale : Commit(full_revert_batch(Db, {b}))
     ELSE Unchanged
  /\ request' = [request EXCEPT ![r] = Idle]

-----------------------------------------------------------------------------
(* confirm_pick and short_pick: the task is loaded without a lock, and the *)
(* updates that follow use the fields that were read.                      *)

LoadTask(r, op, t, q) ==
  /\ request[r] = Idle
  /\ t \in task
  /\ t.status = "PENDING"
  /\ q \in (IF op = "confirm" THEN 1 .. t.qty ELSE 0 .. t.qty)
  /\ request' = [request EXCEPT ![r] = [op |-> op, task |-> t, q |-> q]]
  /\ Unchanged

\* the rows an UPDATE by key finds: none, when the task or the line is gone
WriteTask(db, t, new) == {IF s.id = t.id THEN [s EXCEPT !.status = new.status, !.picked = new.picked,
                                                        !.shorted = @ \cup new.shorted]
                          ELSE s : s \in db.task}
AddPicked(db, gain) ==
  [l \in Lines |-> IF l \in DOMAIN gain /\ db.line[l].row = "live"
                   THEN [db.line[l] EXCEPT !.picked = @ + gain[l]] ELSE db.line[l]]
WithLine(db, t) == DOMAIN t.share \ UNION {s.lost : s \in {x \in db.task : x.id = t.id}}
Shared(db, t, share) == [l \in {<<o, t.item>> : o \in WithLine(db, t)} |-> share[l[1]]]
TakeFromShelf(db, t, q) ==
  release_floored(take_floored(db.inv, t.item, t.bin, q), t.item, t.bin, t.qty)

\* the breakdown is read after the task was written: whole shares, whatever was scanned
confirm_pick(db, t, q) ==
  [db EXCEPT !.inv  = TakeFromShelf(db, t, q),
             !.line = AddPicked(db, IF IsWaveTask(t) THEN Shared(db, t, t.share)
                                    ELSE [l \in {t.line} |-> q]),
             !.task = WriteTask(db, t, [status |-> "PICKED", picked |-> q, shorted |-> {}])]

\* first in, first out by so_id
Given(t, q) == Walk(t.share, q, LAMBDA n, o : n < o)
short_pick(db, t, q) ==
  LET given == Given(t, q)
  IN  [db EXCEPT !.inv  = TakeFromShelf(db, t, q),
                 !.line = AddPicked(db, IF IsWaveTask(t) THEN Shared(db, t, given) ELSE [l \in {t.line} |-> q]),
                 !.task = WriteTask(db, t, [status |-> "SHORT", picked |-> q,
                             shorted |-> {o \in WithLine(db, t) : given[o] < t.share[o]}])]

ApplyPick(r) ==
  /\ request[r].op \in {"confirm", "short"}
  /\ Commit(IF request[r].op = "confirm" THEN confirm_pick(Db, request[r].task, request[r].q)
                                         ELSE short_pick(Db, request[r].task, request[r].q))
  /\ request' = [request EXCEPT ![r] = Idle]

-----------------------------------------------------------------------------
(* complete_batch looks at the tasks and the lines, and at no status *)

\* wrong variant: a line that was picked at all is not short
SilentlyShortUnpicked(db, O) == {l \in LiveLines(db) : /\ l[1] \in O
                                                        /\ db.line[l].picked = 0
                                                        /\ ~ShortMarked(db, l)}
SilentlyShort(db, O) == {l \in LiveLines(db) : /\ l[1] \in O
                                                /\ db.line[l].picked < db.line[l].ordered
                                                /\ ~ShortMarked(db, l)}

MayComplete(b) ==
  /\ batch[b].status # "NONE"
  /\ \A t \in TasksOf(Db, b) : t.status # "PENDING"
  /\ SilentlyShort(Db, batch[b].orders) = {}

complete_batch(b) ==
  /\ MayComplete(b)
  /\ batch' = [batch EXCEPT ![b].status = "COMPLETED"]
  /\ order' = [o \in Orders |-> IF o \in batch[b].orders
                                THEN [order[o] EXCEPT !.status = "PICKED"] ELSE order[o]]
  /\ UNCHANGED <<inventory, line, task, request>>

\* cancel_batch of the handheld and delete_pick_batch of the admin screen
cancel_batch(b) ==
  /\ batch[b].status = "OPEN"
  /\ Commit(full_revert_batch(Db, {b}))
  /\ UNCHANGED request

=============================================================================
