----------------------------- MODULE Warehouse -----------------------------
(***************************************************************************)
(* The outbound side of the warehouse put together: the desks that enter,  *)
(* pick, pack, ship, change and take back sales orders work on the same    *)
(* tables.  `desk` is one working day: the operations that happen, the     *)
(* orders already entered, the stock on the shelves, the people who pick   *)
(* and the requests that may be in flight at once.  Which days are         *)
(* explored is the choice of the model that checks it.                     *)
(***************************************************************************)
EXTENDS Shipping, PointOfSale

CONSTANTS Desks, MaxAllocationStep

\* a day begins with units on the shelves and orders for units
ASSUME DesksAssumption ==
  /\ MaxAllocationStep \in Nat
  /\ \A d \in Desks : /\ d.shelf \in [Rows -> Nat]
                      /\ d.carts \in Seq([Items -> Nat])

VARIABLE desk

vars == <<inventory, order, line, batch, task, request, adjustment, receipt,
          shipment, announced, dockd, sale, refunds, desk>>

ledgers == <<adjustment, receipt>>

EmptyShop == [inv   |-> [r \in Rows |-> [on_hand |-> desk.shelf[r], allocated |-> 0]],
              order |-> [o \in Orders |-> NoOrder],
              line  |-> [l \in Lines |-> NoLine],
              batch |-> [b \in Batches |-> NoBatch],
              task  |-> {}]
Morning == LET entered[n \in 0 .. Len(desk.carts)] ==
                 IF n = 0 THEN EmptyShop ELSE Entered(entered[n - 1], n, desk.carts[n])
           IN  entered[Len(desk.carts)]

Init ==
  /\ desk \in Desks
  /\ inventory = Morning.inv
  /\ order = Morning.order
  /\ line = Morning.line
  /\ batch = [b \in Batches |-> NoBatch]
  /\ task = {}
  /\ request = [r \in Requests |-> Idle]
  /\ adjustment = [i \in Items |-> 0]
  /\ receipt = {}
  /\ shipment = [o \in Orders |-> <<>>]
  /\ announced = [o \in Orders |-> 0]
  /\ dockd = [k \in DockKeys |-> NULL]
  /\ sale = [o \in Orders |-> NULL]
  /\ refunds = {}

Carts == UNION {[I -> Quantities] : I \in (SUBSET Items) \ {{}}}
Does(op) == op \in desk.ops
BatchesLeft == Cardinality({b \in Batches : batch[b].status # "NONE"}) < desk.batches
Batchable == (SUBSET {o \in Orders : order[o].status = "OPEN"}) \ {{}}
HandFree == Cardinality({r \in Requests : request[r] # Idle}) < desk.hands

Kinds == desk.ops \cap {"batch", "wave"}
PickWork ==
  /\ \/ /\ Kinds # {} /\ BatchesLeft
        /\ \E u \in desk.users, O \in Batchable, kind \in Kinds :
             \/ HandFree /\ \E r \in Requests : BeginCreate(r, kind, u, O)
             \/ CreateOverPrior(kind, u, O)
     \/ \E r \in Requests : PlanWave(r) \/ (BatchesLeft /\ FinishCreate(r)) \/ RefuseCreate(r)
     \/ HandFree /\ \E r \in Requests, t \in task, op \in desk.ops \cap {"confirm", "short"} :
          \E q \in 0 .. t.qty : LoadTask(r, op, t, q)
     \/ \E r \in Requests : ApplyPick(r)
     \/ \E b \in Batches : \/ Does("complete") /\ complete_batch(b)
                           \/ Does("cancel_batch") /\ cancel_batch(b)
  /\ UNCHANGED ledgers

NewOrder == {o \in Orders : FreshOrder(o)}
Born     == Orders \ Unborn
OrderDesk ==
  \/ Does("create") /\ \E o \in NewOrder, cart \in Carts : create_sales_order(o, cart)
  \/ Does("allocate") /\ \E l \in Lines, d \in (-MaxAllocationStep .. MaxAllocationStep) \ {0} :
       adjust_sales_order_line_allocation(l, d)
  \/ Does("status") /\ \E o \in Born : \/ update_sales_order(o, "FRAUD_REVIEW")
                                      \/ update_sales_order(o, "OPEN")
                                      \/ push_sales_order_to_queue(o)
  \/ Does("cancel") /\ \E o \in Born : \/ cancel_sales_order(o)
                                      \/ \E refunded \in BOOLEAN : cancel_backorder(o, refunded)
  \/ Does("revert") /\ \E o \in Born, target \in Ladder : \E T \in SUBSET PickedTasks(o) :
       revert_sales_order_status(o, target, T)
  \/ Does("admin_pick") /\ BatchesLeft /\ \E l \in Lines, q \in Quantities, b \in Bins, u \in desk.users :
       admin_pick_sales_order(l, b, q, u)
  \/ Does("partial") /\ \E l \in Lines, q \in Quantities, bo \in NewOrder :
       partial_fulfill_sales_order(l, q, bo)
  \/ Does("line") /\ \E l \in Lines, q \in Quantities :
       add_sales_order_line(l, q) \/ update_sales_order_line(l, q)
  \/ Does("line") /\ \E l \in Lines : delete_sales_order_line(l)

ReturnsDesk ==
  \/ Does("return") /\ \E o \in NewOrder, l \in Lines, q \in Quantities : create_rma(o, l, q)
  \/ Does("return") /\ HandFree /\ \E r \in Requests, l \in Lines, q \in Quantities, k \in Keys :
       BeginReceive(r, l, q, k)
  \/ \E r \in Requests : FinishReceive(r, ReceivingBin)
  \/ Does("void_return") /\ \E o \in Born : void_return_order(o)

ShippingDesk ==
  \/ Does("pack") /\ HandFree /\ \E r \in Requests, l \in Lines, q \in Quantities : BeginVerify(r, l, q)
  \/ \E r \in Requests : FinishVerify(r)
  \/ \E o \in Born :
       \/ Does("pack") /\ complete_packing(o)
       \/ Does("fulfill") /\ fulfill(o)
       \/ Does("edit_ship") /\ edit_to_shipped(o)
       \/ Does("admin_ship") /\ \E acknowledged \in BOOLEAN : record_admin_ship(o, acknowledged)
       \/ Does("dock") /\ \E k \in DockKeys : ship_order(k, o) \/ void_ship(k, o)

\* a till sells one item at a time, replaces and exchanges it, and takes it back
TillCarts == {[i \in {j} |-> [bin |-> b, q |-> n]] : j \in Items, b \in Pickable, n \in Quantities}
\* the NULL of an order that no till sold is no sale
ASSUME SaleAssumption == \A cart \in TillCarts : Sale("reference", NULL, cart) # NULL
Whole == [kind |-> "sale", of |-> NULL]
\* a till draws a new key for a call, or repeats one; keys are numbered as they are drawn
UsedKeys == {k \in TillKeys : KeyUsed(k)}
Drawn == {k \in TillKeys : \A j \in 1 .. (k - 1) : j \in UsedKeys}
Till ==
  \/ Does("counter") /\ \E k \in Drawn, o \in NewOrder, cart \in TillCarts :
       checkout(k, o, "counter", Whole, cart, NULL, NULL)
  \/ Does("phone") /\ \E k \in Drawn, o \in NewOrder, cart \in TillCarts :
       checkout(k, o, "phone", Whole, cart, NULL, NULL)
  \/ Does("exchange") /\ \E k \in Drawn, o \in NewOrder, cart \in TillCarts :
       \/ checkout(k, o, "backorder", Whole, cart, NULL, NULL)
       \/ \E p \in Born, kind \in {"replacement", "exchange"} :
            checkout(k, o, "phone", [kind |-> kind, of |-> p], cart, NULL, NULL)
       \/ \E p \in Born, rma \in Unborn, i \in Items, n \in Quantities :
            checkout(k, o, "counter", [kind |-> "exchange", of |-> p], cart, rma, [item |-> i, q |-> n])
       \/ reference_orders(o, cart)
  \/ Does("refund") /\ \E k \in Drawn, o \in Born, j \in Items, n \in Quantities :
       refund(k, o, [i \in {j} |-> n])

Next == /\ \/ PickWork /\ ShippingUnchanged /\ UNCHANGED tillVars
           \/ OrderDesk /\ ShippingUnchanged /\ UNCHANGED tillVars
           \/ ReturnsDesk /\ ShippingUnchanged /\ UNCHANGED tillVars
           \/ ShippingDesk /\ UNCHANGED tillVars
           \/ Till /\ ShippingUnchanged
        /\ PlannedRowsKept
        /\ UNCHANGED desk
Spec == Init /\ [][Next]_vars

-----------------------------------------------------------------------------
(***************************************************************************)
(* Properties.  Some leave out days with an operation that is known to     *)
(* break them; README.md says how.                                         *)
(***************************************************************************)

\* An order's cancel takes what its pending tasks say off the reservations of a row, and
\* a pick at the desk or a sale at the counter takes free units off it, both without a
\* floor: reservations released elsewhere meanwhile can then go below zero, count as
\* free stock and let the row itself go below zero.
MayDip    == Does("cancel") /\ Kinds # {}
TakesFree == Does("admin_pick") \/ Does("counter") \/ Does("exchange")
Unfloored == MayDip /\ TakesFree

PickedOn(i)  == SumOver(LAMBDA o : line[<<o, i>>].picked, Orders)
TakenBack(i) == SumOver(LAMBDA x : x.part[i], {x \in refunds : i \in DOMAIN x.part})
Returned(i)  == SumOver(LAMBDA x : x.q, {x \in receipt : x.line[2] = i})
Opening(i)   == SumOver(LAMBDA b : desk.shelf[<<i, b>>], Bins)
\* the units of sales the old system had made, which are on lines but were never here
SoldBefore(i) == SumOver(LAMBDA o : sale[o].cart[i].q,
                         {o \in Orders : /\ sale[o] # NULL /\ sale[o].source = "reference"
                                         /\ i \in DOMAIN sale[o].cart})

HandheldPicks == Does("confirm") \/ Does("short")

\* A pick that is being confirmed for a line that is deleted meanwhile is on no line.
PicksAstray == HandheldPicks /\ \E l \in Lines : line[l].row = "gone"

\* The books balance exactly but where two confirms of one task count its units twice
\* (confirm_pick updates the task it loaded, whatever became of it), where a cancelled
\* order goes on, so that a revert can give back its picks a second time, and where a
\* write-off takes free units that are not there.
Exact == /\ ~HandheldPicks
         /\ ~(Does("cancel") /\ Does("revert") /\ (Does("status") \/ Does("complete")))
         /\ ~(MayDip /\ Does("partial"))

\* No workflow loses units: what left the shelves is on the lines that picked it, was
\* written off, or came back with a return or a refund, whatever is cancelled, reverted
\* or voided in between.
UnitsAccounted ==
  ~Unfloored /\ ~PicksAstray =>
    \A i \in Items :
      LET accounted == OnHand(inventory, i) + PickedOn(i)
          expected  == Opening(i) + SoldBefore(i) + Returned(i) + TakenBack(i) + adjustment[i]
      IN  accounted >= expected /\ (Exact => accounted = expected)

\* No row promises more units than it holds, and none holds fewer than none:
\* reservations are made under the lock of the row, by order entry, by both kinds of
\* batch and by allocation at the desk, and picks and write-offs take no unit that is
\* promised to somebody else.
NeverOverReserved ==
  ~Unfloored => \A r \in Rows : /\ 0 <= inventory[r].on_hand
                                /\ inventory[r].allocated <= inventory[r].on_hand

\* "double-allocated stock and two pick walks for the same units" (wave_create): no two
\* open waves pick for the same line, whatever is planned, picked, cancelled and edited
\* at the same time.  The second look comes before the commit, and what keeps two waves
\* apart in between are the inventory rows both would take from.  (An order that needs
\* nothing more can be in two open waves: it is in the way of nobody's rows.)
\* create_pick_batch has no second look, and days with it are left out.
OpenWalks(l) == {b \in ActiveBatchesOf(Db, l[1]) :
                   \E t \in TasksOf(Db, b) : t.item = l[2] /\ l[1] \in DOMAIN t.share}
OneWalkPerLine == ~Does("batch") => \A l \in Lines : Cardinality(OpenWalks(l)) <= 1

\* "silently short" (shipping_service.py): an order ships with every line whole or
\* marked short by a picker, whichever door it leaves by and whoever is still picking for
\* it; and while it counts as shipped, no desk and no late request rewrites what it
\* ordered and what it shipped.  The marker itself does not last: the next session of the
\* picker turns it off.  An administrator may acknowledge the shortage, and ship again
\* what has shipped, so days with his corrections are left out.
AsItLeft(l) == /\ line'[l].row = line[l].row
               /\ line'[l].ordered = line[l].ordered
               /\ line'[l].shipped = line[l].shipped
ShippedWhole ==
  [][~Does("admin_ship") => \A o \in Orders : order'[o].status = "SHIPPED" =>
       /\ order[o].status \notin {"NONE", "SHIPPED"} =>
            \A l \in LinesIn(Db, o)' : line'[l].shipped >= line'[l].ordered \/ ShortMarked(Db, l)'
       /\ order[o].status = "SHIPPED" => \A i \in Items : AsItLeft(<<o, i>>)]_vars

\* dockd_idempotency: a dock station that repeats its request, also after the order
\* was voided and packed again, never makes a second shipment with the same key.
DockdShipsOnce ==
  \A k \in DockKeys :
     Cardinality({x \in Orders \X (1 .. MaxShipments) :
                    x[2] \in DOMAIN shipment[x[1]] /\ shipment[x[1]][x[2]].key = k}) <= 1

\* "the cumulative refunded quantity per item never exceeds what shipped" (schemas/pos.py),
\* over partial refunds with keys of their own; every key stands for one call; and an
\* order is settled when all of it came back, not before.  What can be refunded is what
\* was sold, and an order may be short of it, or its shipment undone, by five operations
\* that do not know the till: days with these keep to what was sold.
ShipsAsSold == desk.ops \cap {"short", "admin_ship", "partial", "line", "dock"} = {}
RefundsAddUp ==
  /\ \A o \in Orders : sale[o] # NULL =>
       /\ \A i \in DOMAIN sale[o].cart :
            /\ Refunded(o, i) <= sale[o].cart[i].q
            /\ ShipsAsSold => Refunded(o, i) <= line[<<o, i>>].shipped
       /\ sale[o].refunded <=> /\ DOMAIN sale[o].cart # {}
                               /\ \A i \in DOMAIN sale[o].cart : Refunded(o, i) = sale[o].cart[i].q
  /\ \A k \in TillKeys :
       Cardinality({o \in Orders : sale[o] # NULL /\ sale[o].key = k})
         + Cardinality({x \in refunds : x.key = k}) <= 1

=============================================================================
