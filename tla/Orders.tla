------------------------------- MODULE Orders -------------------------------
(***************************************************************************)
(* The tables the sales side of the warehouse shares: sales_orders,        *)
(* sales_order_lines, pick_batches (with pick_batch_orders) and pick_tasks *)
(* (with wave_pick_breakdown).                                             *)
(*                                                                         *)
(* Numbers stand for the serial keys, so the order of so_id is the order   *)
(* of the numbers; an order has at most one line for an item, and the line *)
(* is <<order, item>>.  A service function takes the database session `db` *)
(* as a record of the tables and returns it changed; an action commits one.*)
(***************************************************************************)
EXTENDS Stock

CONSTANTS Orders, Batches, Users

\* a foreign key that is NULL points at no line
ASSUME OrdersAssumption ==
  /\ Orders \subseteq Nat /\ IsFiniteSet(Orders)
  /\ NULL \notin Orders \X Items

VARIABLES
  order,   \* sales_orders
  line,    \* sales_order_lines
  batch,   \* pick_batches and the orders in pick_batch_orders
  task     \* pick_tasks: a set of rows

Lines == Orders \X Items

LiveStatus == {"OPEN", "PICKED", "PACKED", "SHIPPED", "WAITING_STOCK", "FRAUD_REVIEW",
               "CANCELLED", "REFUNDED", "PARTIALLY_RECEIVED", "RECEIVED"}
OrderKinds == {"sale", "backorder", "return", "replacement", "exchange"}
OrderRow == [status : LiveStatus \cup {"NONE"}, kind : OrderKinds,
             parent : Orders \cup {NULL}, voided : BOOLEAN]
LineRow == [row : {"none", "live", "gone"}, ordered : Nat, allocated : Nat, picked : Nat,
            packed : Nat, shipped : Nat, received : Nat]
BatchRow == [status : {"NONE", "OPEN", "COMPLETED", "CANCELLED"},
             by : Users \cup {NULL}, orders : SUBSET Orders]

NoOrder == [status |-> "NONE", kind |-> "sale", parent |-> NULL, voided |-> FALSE]
NoLine  == [row |-> "none", ordered |-> 0, allocated |-> 0, picked |-> 0, packed |-> 0,
            shipped |-> 0, received |-> 0]
GoneLine   == [NoLine EXCEPT !.row = "gone"]
NewLine(q) == [NoLine EXCEPT !.row = "live", !.ordered = q]
NoBatch == [status |-> "NONE", by |-> NULL, orders |-> {}]

Db == [inv |-> inventory, order |-> order, line |-> line, batch |-> batch, task |-> task]
Commit(new) == \E db \in {new} :    \* evaluated once
  /\ inventory' = db.inv
  /\ order' = db.order
  /\ line' = db.line
  /\ batch' = db.batch
  /\ task' = db.task
Unchanged == UNCHANGED <<inventory, order, line, batch, task>>

LiveLines(db)   == {l \in Lines : db.line[l].row = "live"}
LinesIn(db, o)  == {l \in LiveLines(db) : l[1] = o}
Unborn          == {o \in Orders : order[o].status = "NONE"}
FreshOrder(o)   == o \in Unborn /\ \A p \in Unborn : o <= p

-----------------------------------------------------------------------------
(* A task of create_pick_batch picks for one line, and its share is empty; a task *)
(* of wave_create picks an item for the orders of its wave_pick_breakdown; those  *)
(* left short, and those whose line is gone, are kept beside it.                  *)

NoShare == [o \in {} |-> 0]
NewTask(b, o, i, bin, q, share) ==
  [id |-> <<b, o, i, bin>>, batch |-> b, order |-> o, line |-> <<o, i>>, item |-> i,
   bin |-> bin, qty |-> q, picked |-> 0, status |-> "PENDING", share |-> share,
   shorted |-> {}, lost |-> {}]

TasksOf(db, b)  == {t \in db.task : t.batch = b}
IsWaveTask(t)   == DOMAIN t.share # {}
Quantity(T)     == SumOver(LAMBDA t : t.qty, T)
Picked(T)       == SumOver(LAMBDA t : t.picked, T)

\* the active pick batches of an order: _active_batch_by_so and its copies
ActiveBatchesOf(db, o) == {b \in Batches : db.batch[b].status = "OPEN" /\ o \in db.batch[b].orders}

\* the short-close markers of a line: a SHORT task, or a share left short
ShortMarked(db, l) == \E t \in db.task : \/ t.line = l /\ t.status = "SHORT"
                                         \/ t.item = l[2] /\ l[1] \in t.shorted

\* ON DELETE SET NULL of pick_tasks.so_line_id and wave_pick_breakdown.so_line_id: the
\* task, or the share of the order, has no line any more (also when one comes in its place)
Orphaned(t, l) ==
  [t EXCEPT !.line = IF @ = l THEN NULL ELSE @,
            !.shorted = IF t.item = l[2] THEN @ \ {l[1]} ELSE @,
            !.lost = IF t.item = l[2] /\ l[1] \in DOMAIN t.share THEN @ \cup {l[1]} ELSE @]
DeleteLine(db, l) ==
  [db EXCEPT !.line[l] = GoneLine,
             !.task = {Orphaned(t, l) : t \in @}]

=============================================================================
