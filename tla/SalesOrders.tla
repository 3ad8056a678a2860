---------------------------- MODULE SalesOrders ----------------------------
(***************************************************************************)
(* Sales orders outside the pick walk: api/services/sales_order_service.py *)
(* and the sales-order half of api/routes/admin/admin_orders.py.  Creation *)
(* with its reservation, allocation and line edits, cancel, revert, admin  *)
(* pick, partial fulfilment with its backorder, and returns.  Every        *)
(* handler here locks its sales_orders row first and is one step, except   *)
(* receive_rma, which locks nothing.                                       *)
(***************************************************************************)
EXTENDS Picking

CONSTANTS Keys, MaxOrdered

ASSUME OrderedAssumption == MaxOrdered \in Nat

VARIABLES
  adjustment,  \* inventory_adjustments: net units written for each item
  receipt      \* item_receipts of returns: order, item, external_id, quantity

orderVars == <<order, line, batch, task>>
Quantities == 1 .. MaxOrdered
Outbound(o) == order[o].kind # "return"     \* order_type_allows_fulfillment_ops

-----------------------------------------------------------------------------
(***************************************************************************)
(* create_sales_order: each line reserves what it can, fullest bin first,  *)
(* and the order is taken even when nothing is left to reserve.            *)
(***************************************************************************)
Entered(db, o, cart) ==
  [db EXCEPT
     !.order[o] = [NoOrder EXCEPT !.status = "OPEN"],
     !.line = [l \in Lines |->
                 IF l[1] = o /\ l[2] \in DOMAIN cart
                 THEN [NewLine(cart[l[2]]) EXCEPT !.allocated = Reserved(db.inv, l[2], cart[l[2]])]
                 ELSE db.line[l]],
     !.inv = [r \in Rows |-> IF r[1] \in DOMAIN cart
                             THEN ReserveWalk(db.inv, r[1], cart[r[1]])[r] ELSE db.inv[r]]]

create_sales_order(o, cart) ==
  /\ FreshOrder(o)
  /\ DOMAIN cart # {}
  /\ Commit(Entered(Db, o, cart))
  /\ UNCHANGED <<request, adjustment, receipt>>

\* adjust_sales_order_line_allocation: between picked and ordered, as far as stock goes
adjust_sales_order_line_allocation(l, delta) ==
  LET row    == line[l]
      wanted == MaxOf2(row.picked, Least(row.ordered, row.allocated + delta))
      target == IF wanted > row.allocated
                THEN row.allocated + Reserved(inventory, l[2], wanted - row.allocated)
                ELSE wanted
  IN  /\ row.row = "live"
      /\ target # row.allocated
      /\ inventory' = IF target > row.allocated
                      THEN ReserveWalk(inventory, l[2], target - row.allocated)
                      ELSE ReleaseWalk(inventory, l[2], row.allocated - target)
      /\ line' = [line EXCEPT ![l].allocated = target]
      /\ UNCHANGED <<order, batch, task, request, adjustment, receipt>>

push_sales_order_to_queue(o) ==
  /\ order[o].status = "FRAUD_REVIEW"
  /\ order' = [order EXCEPT ![o].status = "OPEN"]
  /\ UNCHANGED <<inventory, line, batch, task, request, adjustment, receipt>>

\* update_sales_order, apart from a ship: an ADMIN writes the status he likes
update_sales_order(o, status) ==
  /\ order[o].status \notin {"NONE", status}
  /\ status # "SHIPPED"
  /\ order' = [order EXCEPT ![o].status = status]
  /\ UNCHANGED <<inventory, line, batch, task, request, adjustment, receipt>>

-----------------------------------------------------------------------------
(* Cancellation *)

\* only the reservations of PENDING tasks are given back; every task row goes
_unwind_allocated(db, o) ==
  LET pending(r) == {t \in db.task : /\ t.status = "PENDING" /\ t.bin = r[2]
                                     /\ t.line = <<o, r[1]>>
                                     /\ db.line[<<o, r[1]>>].allocated > 0}
  IN  [db EXCEPT
         !.inv   = [r \in Rows |-> [db.inv[r] EXCEPT !.allocated = @ - Quantity(pending(r))]],
         !.line  = [l \in Lines |-> IF l[1] = o THEN [db.line[l] EXCEPT !.allocated = 0]
                                    ELSE db.line[l]],
         !.task  = {t \in db.task : t.order # o},
         !.batch = [b \in Batches |-> [db.batch[b] EXCEPT !.orders = @ \ {o}]]]

\* wrong variant: packed units are written off the line and stay where they are
_unwind_picked_only(db, o) ==
  [db EXCEPT
     !.line  = [l \in Lines |-> IF l[1] = o /\ db.line[l].picked > 0
                                THEN [db.line[l] EXCEPT !.picked = 0, !.packed = 0]
                                ELSE db.line[l]],
     !.batch = [b \in Batches |-> [db.batch[b] EXCEPT !.orders = @ \ {o}]]]
\* the units come back to the default receiving bin; the PICKED tasks stay
_unwind_picked_or_packed(db, o) ==
  [db EXCEPT
     !.inv   = [r \in Rows |-> IF r[2] = ReceivingBin
                               THEN [db.inv[r] EXCEPT !.on_hand = @ + db.line[<<o, r[1]>>].picked]
                               ELSE db.inv[r]],
     !.line  = [l \in Lines |-> IF l[1] = o /\ db.line[l].picked > 0
                                THEN [db.line[l] EXCEPT !.picked = 0, !.packed = 0]
                                ELSE db.line[l]],
     !.batch = [b \in Batches |-> [db.batch[b] EXCEPT !.orders = @ \ {o}]]]

CancelOne(db, o) ==
  LET unwound == CASE db.order[o].status = "OPEN"                -> _unwind_allocated(db, o)
                   [] db.order[o].status \in {"PICKED", "PACKED"} -> _unwind_picked_or_packed(db, o)
                   [] OTHER                                      -> db
  IN  [unwound EXCEPT !.order[o].status = "CANCELLED"]

BackordersOf(db, o) == {c \in Orders : /\ db.order[c].parent = o
                                       /\ db.order[c].kind = "backorder"
                                       /\ db.order[c].status \notin {"CANCELLED", "SHIPPED"}}

\* the rows of a wave breakdown keep their task from being deleted: the cancel fails
CanUnwind(db, o) == db.order[o].status = "OPEN" =>
                      ~ \E t \in db.task : t.order = o /\ IsWaveTask(t)

\* an order takes its live backorders with it (there is at most one: its number is unique)
Cancelled(db, o) ==
  LET parent == CancelOne(db, o)
      below  == IF db.order[o].kind = "backorder" THEN {} ELSE BackordersOf(parent, o)
  IN  IF below = {} THEN parent ELSE CancelOne(parent, Min(below))
CanCancel(db, o) == /\ db.order[o].status \notin {"NONE", "SHIPPED", "CANCELLED"}
                    /\ \A c \in {o} \cup BackordersOf(db, o) : CanUnwind(db, c)

cancel_sales_order(o) ==
  /\ CanCancel(Db, o)
  /\ Commit(Cancelled(Db, o))
  /\ UNCHANGED <<request, adjustment, receipt>>

\* the reason REFUNDED relabels the cancelled backorder
cancel_backorder(o, refunded) ==
  /\ order[o].kind = "backorder"
  /\ CanCancel(Db, o)
  /\ Commit(IF refunded THEN [Cancelled(Db, o) EXCEPT !.order[o].status = "REFUNDED"]
            ELSE Cancelled(Db, o))
  /\ UNCHANGED <<request, adjustment, receipt>>

-----------------------------------------------------------------------------
(***************************************************************************)
(* revert_sales_order_status: backwards, or in place to release picks.     *)
(* Tasks chosen for release give their units back to their bins.           *)
(***************************************************************************)
Rank(s) == CASE s = "OPEN" -> 0 [] s = "PICKED" -> 1 [] s = "PACKED" -> 2 [] s = "SHIPPED" -> 3
Ladder  == {"OPEN", "PICKED", "PACKED", "SHIPPED"}

ReleasePicks(db, T) ==
  LET at(r)     == {t \in T : t.item = r[1] /\ t.bin = r[2]}
      ofLine(l) == {t \in T : t.line = l}
  IN  [db EXCEPT
         !.inv  = [r \in Rows |-> [db.inv[r] EXCEPT !.on_hand = @ + Picked(at(r))]],
         !.line = [l \in Lines |-> [db.line[l] EXCEPT
                                      !.picked    = AtLeast0(@ - Picked(ofLine(l))),
                                      !.allocated = AtLeast0(@ - Quantity(ofLine(l)))]],
         !.task = {IF t \in T THEN [t EXCEPT !.status = "RELEASED"] ELSE t : t \in db.task}]

PickedTasks(o) == {t \in task : t.order = o /\ t.status = "PICKED"}

MayRevert(o, target) ==
  /\ Outbound(o)
  /\ order[o].status \in Ladder
  /\ Rank(target) <= Rank(order[o].status)

revert_sales_order_status(o, target, T) ==
  LET db       == ReleasePicks(Db, T)
      unpacks  == Rank(order[o].status) >= Rank("PACKED") /\ Rank(target) < Rank("PACKED")
      unpacked == [l \in Lines |-> IF unpacks /\ l[1] = o THEN [db.line[l] EXCEPT !.packed = 0]
                                   ELSE db.line[l]]
  IN  /\ MayRevert(o, target)
      /\ T \subseteq PickedTasks(o)
      /\ target # order[o].status \/ T # {}
      /\ target = "OPEN" => \A l \in LinesIn(db, o) : db.line[l].picked = 0
      /\ Commit([db EXCEPT !.line = unpacked, !.order[o].status = target])
      /\ UNCHANGED <<request, adjustment, receipt>>

-----------------------------------------------------------------------------
(***************************************************************************)
(* record_admin_pick and maybe_promote_so_to_picked: a pick entered at the *)
(* desk, with a COMPLETED batch of its own, from a bin with free stock.    *)
(***************************************************************************)
record_admin_pick(db, l, bin, q, b, u) ==
  LET row == db.line[l]
  IN  [db EXCEPT
         !.inv[<<l[2], bin>>].on_hand = @ - q,
         !.line[l] = [row EXCEPT !.picked = @ + q,
                                 !.allocated = MaxOf2(@, row.picked + q)],
         !.batch[b] = [status |-> "COMPLETED", by |-> u, orders |-> {l[1]}],
         !.task = @ \cup {[NewTask(b, l[1], l[2], bin, q, NoShare)
                            EXCEPT !.status = "PICKED", !.picked = q]}]

maybe_promote_so_to_picked(db, o) ==
  IF /\ \A l \in LinesIn(db, o) : db.line[l].picked >= db.line[l].ordered
     /\ db.order[o].status = "OPEN"
  THEN [db EXCEPT !.order[o].status = "PICKED"] ELSE db

admin_pick_sales_order(l, bin, q, u) ==
  /\ Outbound(l[1])
  /\ order[l[1]].status = "OPEN"
  /\ line[l].row = "live"
  /\ q <= line[l].ordered - line[l].picked
  /\ Available(inventory, l[2], bin) >= q
  /\ \E b \in Batches :
       /\ FreshBatch(b)
       /\ Commit(maybe_promote_so_to_picked(record_admin_pick(Db, l, bin, q, b, u), l[1]))
  /\ UNCHANGED <<request, adjustment, receipt>>

-----------------------------------------------------------------------------
(***************************************************************************)
(* partial_fulfill_sales_order: the short part of a line moves to a new    *)
(* order <number>-BO that waits for stock, and up to that many units of    *)
(* the fullest bin are written off.  The line keeps its allocation.        *)
(***************************************************************************)
FullestBin(i) == CHOOSE b \in Bins : \A c \in Bins :
                    \/ Available(inventory, i, b) > Available(inventory, i, c)
                    \/ Available(inventory, i, b) = Available(inventory, i, c) /\ b <= c

\* _write_short_adjustment
WrittenOff(i, short) == AtLeast0(Least(Available(inventory, i, FullestBin(i)), short))

MayShortClose(l, short) ==
  /\ order[l[1]].status \in {"OPEN", "PICKED"}
  /\ Outbound(l[1]) /\ order[l[1]].kind # "backorder"
  /\ line[l].row = "live"
  /\ short <= line[l].ordered - line[l].picked

\* the new order and its line
WithBackorderFor(db, l, short, bo) ==
  [db EXCEPT
     !.order[bo] = [NoOrder EXCEPT !.status = "WAITING_STOCK", !.kind = "backorder", !.parent = l[1]],
     !.line[<<bo, l[2]>>] = NewLine(short)]

partial_fulfill_sales_order(l, short, bo) ==
  LET lost == WrittenOff(l[2], short)
      left == line[l].ordered - short
      db1  == IF left = 0 THEN DeleteLine(Db, l) ELSE [Db EXCEPT !.line[l].ordered = left]
  IN  /\ MayShortClose(l, short)
      /\ FreshOrder(bo)
      /\ ~ \E c \in Orders : order[c].parent = l[1] /\ order[c].kind = "backorder"
      /\ Commit(WithBackorderFor([db1 EXCEPT !.inv = take_floored(@, l[2], FullestBin(l[2]), lost)],
                                 l, short, bo))
      /\ adjustment' = [adjustment EXCEPT ![l[2]] = @ - lost]
      /\ UNCHANGED <<request, receipt>>

\* release_satisfiable_backorders: those that wait for the item and whose every line the
\* pickable stock covers; an order that is found is opened, whatever became of it
Satisfiable(db, o) == /\ LinesIn(db, o) # {}
                      /\ \A l \in LinesIn(db, o) :
                           PickableStock(db.inv, l[2]) >= db.line[l].ordered
SatisfiableBackorders(db, i) == {o \in Orders : /\ db.order[o].status = "WAITING_STOCK"
                                                /\ <<o, i>> \in LinesIn(db, o)
                                                /\ Satisfiable(db, o)}
Released(O) == [o \in Orders |-> IF o \in O /\ order[o].status # "NONE"
                                 THEN [order[o] EXCEPT !.status = "OPEN"] ELSE order[o]]

-----------------------------------------------------------------------------
(* Line edits, up to the SHIPPED and CANCELLED statuses *)

_so_line_edit_gate(o) == order[o].status \notin {"NONE", "SHIPPED", "CANCELLED"}

\* PENDING tasks of the line are deleted with their reservations; a reservation
\* that no task stands for is forgotten
HasShares(l) == \E t \in task : t.line = l /\ t.status = "PENDING" /\ IsWaveTask(t)
_release_so_line_allocation(db, l) ==
  LET pending == {t \in db.task : t.line = l /\ t.status = "PENDING"}
      held(b) == Quantity({t \in pending : t.bin = b})
  IN  IF db.line[l].allocated = 0 THEN db
      ELSE [db EXCEPT
              !.inv = [r \in Rows |-> IF r[1] = l[2] /\ held(r[2]) > 0
                                      THEN [db.inv[r] EXCEPT !.allocated = AtLeast0(@ - held(r[2]))]
                                      ELSE db.inv[r]],
              !.line[l].allocated = 0,
              !.task = @ \ pending]

add_sales_order_line(l, q) ==
  /\ _so_line_edit_gate(l[1])
  /\ line[l].row = "none"
  /\ line' = [line EXCEPT ![l] = NewLine(q)]
  /\ UNCHANGED <<inventory, order, batch, task, request, adjustment, receipt>>

update_sales_order_line(l, q) ==
  LET releases == q < line[l].allocated
      db1 == IF releases THEN _release_so_line_allocation(Db, l) ELSE Db
  IN  /\ _so_line_edit_gate(l[1])
      /\ line[l].row = "live"
      /\ q # line[l].ordered
      /\ q >= MaxOf2(line[l].picked, line[l].packed) /\ q >= line[l].shipped
      /\ releases => ~HasShares(l)
      /\ Commit([db1 EXCEPT !.line[l].ordered = q])
      /\ UNCHANGED <<request, adjustment, receipt>>

delete_sales_order_line(l) ==
  /\ _so_line_edit_gate(l[1])
  /\ line[l].row = "live"
  /\ line[l].picked = 0 /\ line[l].packed = 0 /\ line[l].shipped = 0
  /\ line[l].allocated > 0 => ~HasShares(l)
  /\ Commit(DeleteLine(_release_so_line_allocation(Db, l), l))
  /\ UNCHANGED <<request, adjustment, receipt>>

-----------------------------------------------------------------------------
(* Returns *)

ReturnRow(of) == [NoOrder EXCEPT !.status = "OPEN", !.kind = "return", !.parent = of]
create_rma(o, l, q) ==
  /\ order[l[1]].status # "NONE"
  /\ FreshOrder(o)
  /\ order' = [order EXCEPT ![o] = ReturnRow(l[1])]
  /\ line' = [line EXCEPT ![<<o, l[2]>>] = NewLine(q)]
  /\ UNCHANGED <<inventory, batch, task, request, adjustment, receipt>>

\* receive_rma reads the line and the prior receipt of its key without a lock...
BeginReceive(r, l, q, key) ==
  /\ request[r] = Idle
  /\ order[l[1]].kind = "return"
  /\ line[l].row = "live"
  /\ ~ \E x \in receipt : x.key = key
  /\ q <= line[l].ordered - line[l].received
  /\ request' = [request EXCEPT ![r] = [op |-> "receive", line |-> l, q |-> q, key |-> key]]
  /\ UNCHANGED <<inventory, order, line, batch, task, adjustment, receipt>>

\* ... and writes; the key is UNIQUE in item_receipts, so a twin fails there
FinishReceive(r, bin) ==
  LET m == request[r]
      l == m.line
      received == [line EXCEPT ![l].received = @ + m.q]
      done == \A k \in LinesIn(Db, l[1]) : received[k].received >= received[k].ordered
  IN  /\ m.op = "receive"
      /\ request' = [request EXCEPT ![r] = Idle]
      /\ IF \E x \in receipt : x.key = m.key
         THEN UNCHANGED <<inventory, order, line, receipt>>
         ELSE /\ receipt' = receipt \cup {[line |-> l, key |-> m.key, q |-> m.q]}
              /\ inventory' = add_inventory(inventory, l[2], bin, m.q)
              /\ line' = received
              /\ order' = [order EXCEPT ![l[1]].status = IF done THEN "RECEIVED"
                                                         ELSE "PARTIALLY_RECEIVED"]
      /\ UNCHANGED <<batch, task, adjustment>>

void_return_order(o) ==
  /\ order[o].kind = "return" /\ order[o].status = "OPEN" /\ ~order[o].voided
  /\ ~ \E x \in receipt : x.line[1] = o
  /\ order' = [order EXCEPT ![o].voided = TRUE]
  /\ UNCHANGED <<inventory, line, batch, task, request, adjustment, receipt>>

=============================================================================
