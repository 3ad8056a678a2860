----------------------------- MODULE Stockyard -----------------------------
(***************************************************************************)
(* The inbound side put together: receipts, put-away, moves, counts,       *)
(* adjustments, transfer orders and the documents an upstream system posts *)
(* on one inventory table, with the sales orders and backorders that wait  *)
(* for its stock.  As in Warehouse, `desk` is one working day.             *)
(***************************************************************************)
EXTENDS TransferOrders, InboundDocuments

CONSTANTS Desks, MaxChange, MaxStock

\* the desks handle items and bins of the warehouse, and a day begins with a shelf from
\* which nothing has been taken that was not there (CHECK quantity_on_hand >= 0)
ASSUME DesksAssumption == \A d \in Desks :
  /\ d.items \subseteq Items /\ d.docks \subseteq Bins
  /\ d.shelf \in [Rows -> Nat]
  /\ \A i \in DOMAIN d.cart : d.cart[i] \in Nat
  /\ \A i \in DOMAIN d.waiting : d.waiting[i] \in Nat

VARIABLE desk

vars == <<inventory, order, line, batch, task, request, adjustment, receipt,
          purchase, poline, goods, count, review, landing, transferVars, inboundVars, desk>>

Does(op) == op \in desk.ops
\* a transaction that lands stock takes a hand, unless its request has one
Hands == {r \in Requests : request[r] # Idle} \cup {x \in landing : x.op \in {"receive", "adjust", "sync"}}
HandFree == Cardinality(Hands) < desk.hands

EmptyYard == [inv   |-> [r \in Rows |-> [on_hand |-> desk.shelf[r], allocated |-> 0]],
              order |-> [o \in Orders |-> NoOrder],
              line  |-> [l \in Lines |-> NoLine],
              batch |-> [b \in Batches |-> NoBatch],
              task  |-> {}]

\* an order of the day and, when it could not be filled, its backorder
WithBackorder(db) ==
  [db EXCEPT !.order[2] = [NoOrder EXCEPT !.status = "WAITING_STOCK", !.kind = "backorder", !.parent = 1],
             !.line = [l \in Lines |-> IF l[1] = 2 /\ l[2] \in DOMAIN desk.waiting
                                       THEN NewLine(desk.waiting[l[2]]) ELSE @[l]]]
Morning == LET entered == Entered(EmptyYard, 1, desk.cart)
           IN  IF DOMAIN desk.cart = {} THEN EmptyYard
               ELSE IF DOMAIN desk.waiting = {} THEN entered ELSE WithBackorder(entered)

Init ==
  /\ desk \in Desks
  /\ inventory = Morning.inv
  /\ order = Morning.order
  /\ line = Morning.line
  /\ batch = Morning.batch
  /\ task = Morning.task
  /\ request = [r \in Requests |-> Idle]
  /\ adjustment = [i \in Items |-> 0]
  /\ receipt = {}
  /\ purchase = [p \in Purchases |-> NULL]
  /\ poline = [k \in Purchases \X Items |-> NULL]
  /\ goods = {}
  /\ count = [c \in Counts |-> NULL]
  /\ review = {}
  /\ landing = {}
  /\ transfer = [t \in Transfers |-> NULL]
  /\ toline = [l \in ToLines |-> NoToLine]
  /\ approval = {}
  /\ totask = {}
  /\ tobatch = <<>>
  /\ handheld = [h \in Handhelds |-> Free]
  /\ arrived = [i \in Items |-> 0]
  /\ inbound = {}
  /\ canonical = [d \in Docs |-> NULL]

Carts == UNION {[I -> Quantities] : I \in (SUBSET desk.items) \ {{}}}

Purchasing == SalesUnchanged /\ (
  \/ \E p \in Purchases, cart \in Carts : Does("order") /\ create_purchase_order(p, cart)
  \/ \E p \in Purchases :
       \/ Does("close") /\ close_purchase_order(p)
       \/ Does("close") /\ reopen_purchase_order(p)
       \/ Does("close") /\ update_purchase_order(p, "ARCHIVED")
  \/ \E p \in Purchases, i \in desk.items, q \in Quantities :
       \/ Does("edit") /\ add_purchase_order_line(p, i, q)
       \/ Does("edit") /\ update_purchase_order_line(p, i, q)
  \/ \E p \in Purchases, i \in desk.items : Does("edit") /\ delete_purchase_order_line(p, i))

Receiving ==
  \/ \E p \in Purchases, i \in desk.items, q \in Quantities, b \in desk.docks :
       Does("receive") /\ ((HandFree /\ BeginReceipt(p, i, q, b)) \/ receive_items(p, i, q, b))
  \/ \E r \in Requests, g \in goods : HandFree /\ Does("cancel_receiving") /\ BeginCancelReceiving(r, g)
  \/ \E r \in Requests : FinishCancelReceiving(r)
  \/ \E g \in goods : Does("unreceive") /\ record_unreceive(g)

Shelving ==
  \/ \E i \in desk.items, from \in Bins, to \in Bins, q \in Quantities :
       from # to /\ Does("move") /\ move(i, from, to, q)
  \/ \E r \in Requests, i \in desk.items, from \in Bins, to \in Bins, q \in Quantities :
       from # to /\ HandFree /\ OnHand(inventory, i) + q <= MaxStock /\ Does("transfer") /\ BeginTransfer(r, i, from, to, q)
  \/ \E r \in Requests : LandTransfer(r) \/ FinishTransfer(r)
  \/ \E i \in desk.items, b \in desk.docks, change \in (-MaxChange .. MaxChange) \ {0} :
       /\ Does("adjust") /\ OnHand(inventory, i) + change <= MaxStock
       /\ (HandFree /\ BeginAdjustment(i, b, change)) \/ direct_adjustment(i, b, change)
  \/ \E c \in Counts, b \in desk.docks : Does("count") /\ create_cycle_count(c, b)
  \/ \E c \in Counts, n \in 0 .. MaxOrdered + 1 :
       Does("count") /\ submit_cycle_count(c, [i \in desk.items |-> n])
  \/ \E r \in Requests, a \in review : HandFree /\ Does("count") /\ BeginReview(r, a)
  \/ \E r \in Requests : LandReview(r) \/ FinishReview(r)
  \/ \E a \in review : Does("count") /\ reject_adjustment(a)

\* a desk that changes an order waits for a post that has written it
SalesDesk ==
  \/ \E o \in Orders, cart \in Carts : Does("sell") /\ create_sales_order(o, cart)
  \/ \E l \in Lines, q \in Quantities, bo \in Orders :
       Does("partial") /\ ~HeaderHeld(l[1]) /\ partial_fulfill_sales_order(l, q, bo)
  \/ \E o \in Orders : Does("cancel") /\ ~HeaderHeld(o) /\ cancel_sales_order(o)

Pickers ==
  /\ \/ \E r \in Requests, u \in Users, O \in (SUBSET Orders) \ {{}} :
          Does("wave") /\ HandFree /\ BeginCreate(r, "wave", u, O)
     \/ \E r \in Requests : PlanWave(r) \/ FinishCreate(r) \/ RefuseCreate(r) \/ ApplyPick(r)
     \/ \E r \in Requests, t \in task : \E q \in 0 .. t.qty :
          Does("confirm") /\ HandFree /\ LoadTask(r, "confirm", t, q)
     \/ \E b \in Batches : \/ Does("confirm") /\ (\A o \in batch[b].orders : ~HeaderHeld(o)) /\ complete_batch(b)
                           \/ Does("cancel") /\ cancel_batch(b)
  /\ UNCHANGED <<adjustment, receipt>>

\* what the upstream system posts; FRAUD_REVIEW is the heuristic's choice
Messages == [status : {NULL, "OPEN"}, cart : Carts \cup {[i \in {} |-> 0]}]
Cancellations == [status : {"CANCELLED"}, cart : {[i \in {} |-> 0]} \cup Carts]
Upstream ==
  \/ /\ HandFree /\ desk.ops \cap {"feed", "feed_po"} # {}
     /\ \E r \in Requests, v \in Versions, m \in Messages \cup Cancellations :
          \/ \E d \in SalesDocs : Does("feed") /\ BeginPost(r, d, v, m)
          \/ \E d \in PurchaseDocs : Does("feed_po") /\ m.status # "CANCELLED" /\ BeginPost(r, d, v, m)
  \/ \E r \in Requests : (\E held \in BOOLEAN : FinishSalesPost(r, held)) \/ FinishPurchasePost(r)
  \/ \E d \in SalesDocs, v \in Versions, m \in Cancellations : Does("feed") /\ PostCancellation(d, v, m)
  \/ \E i \in desk.items, b \in desk.docks, n \in 0 .. MaxStock :
       Does("sync") /\ ((HandFree /\ BeginUpdate(i, b, n)) \/ inventory_update(i, b, n))
TransferDesk ==
  \/ \E t \in Transfers, cart \in Carts : Does("import") /\ import_transfer_order(t, cart)
  \/ \E t \in Transfers : \/ Does("import") /\ cancel_transfer_order(t)
                          \/ Does("import") /\ delete_transfer_order(t)
                          \/ Does("to_pick") /\ start_to_picking(t)
                          \/ Does("submit") /\ submit_transfer_order_picks(t)
  \/ \E l \in ToLines : Does("short_close") /\ short_close_to_line(l)
  \/ \E h \in Handhelds, k \in totask : \E q \in 0 .. k.qty :
       \/ Does("to_pick") /\ LoadToTask(h, "confirm", k, q)
       \/ Does("to_short") /\ LoadToTask(h, "short", k, q)
  \/ \E h \in Handhelds : confirm_to_pick(h) \/ short_to_pick(h)
  \/ \E n \in DOMAIN tobatch : \/ Does("submit") /\ complete_to_batch(n)
                               \/ Does("to_short") /\ cancel_to_batch(n)
  \/ \E a \in approval : \/ Does("submit") /\ approve_transfer_order_approval(a)
                         \/ Does("submit") /\ reject_transfer_order_approval(a)

Next == /\ \/ (Purchasing \/ Receiving \/ Shelving) /\ UNCHANGED <<transferVars, inboundVars>>
           \/ (SalesDesk \/ Pickers) /\ UNCHANGED <<stockroomVars, transferVars, inboundVars>>
           \/ /\ TransferDesk
              /\ UNCHANGED <<order, line, batch, task, request, adjustment, receipt, stockroomVars, inboundVars>>
           \/ Upstream /\ UNCHANGED transferVars
        /\ PlannedRowsKept /\ LandingRowsKept
        /\ UNCHANGED desk
Spec == Init /\ [][Next]_vars

-----------------------------------------------------------------------------
(***************************************************************************)
(* Properties.  Some leave out days with an operation that is known to     *)
(* break them; README.md says how.                                         *)
(***************************************************************************)

PickedOn(i) == SumOver(LAMBDA l : line[l].picked, {l \in LiveLines(Db) : l[2] = i /\ Outbound(l[1])})
Opening(i)  == SumOver(LAMBDA b : desk.shelf[<<i, b>>], Bins)
ReceiptsOf(p, i) == SumOver(LAMBDA g : g.q, {g \in goods : g.live /\ g.po = p /\ g.item = i})
Goods(i)    == SumOver(LAMBDA g : g.q, {g \in goods : g.live /\ g.item = i})

\* A purchase order never claims more than its standing receipts: receiving, striking
\* a receipt from the handheld or the desk and editing lines keep the two in step.
\* (Less it may claim: a receipt can be struck twice.)
ReceivedIsReceipted ==
  \A p \in Purchases, i \in Items :
    poline[<<p, i>>] # NULL => poline[<<p, i>>].received <= ReceiptsOf(p, i)

\* No stock disappears between the dock, the bins, the orders and the other warehouse:
\* every unit that came in is on a shelf, picked, transferred, or written off by an
\* adjustment, whatever order receipts, moves, reservations and transfers happen in.
\* Days on which a handler writes a quantity it read before (inter-warehouse
\* transfers, reviews of counts), on which a receipt can be struck twice, or on which
\* a transfer order is picked short are left out.
Careful == /\ desk.ops \cap {"transfer", "count", "to_short"} = {}
           /\ desk.hands = 1 \/ ~Does("cancel_receiving")
           /\ ~Does("cancel_receiving") \/ ~Does("unreceive")
StockAccounted ==
  Careful =>
    \A i \in Items : OnHand(inventory, i) + PickedOn(i) + arrived[i] >= Opening(i) + Goods(i) + adjustment[i]

\* "Backorders release on any inventory increase, not just a PO receipt" (migration
\* 081): no backorder waits that the pickable stock could fill, all its items together,
\* after receipts, adjustments, approved counts, posted quantities and inter-warehouse
\* transfers in any order, one landing at a time: of two landings that overlap, neither
\* sees the units of the other, and the backorder waits on.  A put-away or a move
\* releases nothing, a write-off from another bin leaves stock, and a cancelled
\* reservation frees stock nobody looks at; these are left out.
NoBackorderOverlooked ==
  desk.hands = 1 /\ desk.ops \cap {"move", "partial", "import"} = {} =>
  \A o \in Orders : order[o].status = "WAITING_STOCK" => ~Satisfiable(Db, o)

\* A transfer order is CLOSED only when everything picked for it was approved or its
\* line was given up, and no approval is left to decide (evaluate_to_closure).
ClosedIsSettled ==
  \A t \in Transfers : transfer[t] = "CLOSED" =>
    /\ \A l \in LinesOfTO(t) : toline[l].status = "SHORT_CLOSED" \/ toline[l].approved = toline[l].picked
    /\ ApprovalsOf(t, {"PENDING"}) = {}

\* The other warehouse is credited what the lines count as approved, also when the
\* same units were submitted, or asked to be approved, twice.
ArrivedAsApproved ==
  \A i \in Items :
    arrived[i] = SumOver(LAMBDA l : toline[l].approved, {l \in ToLines : l[2] = i})

\* "A newer version exists for this external_id" (inbound_service.py): however the
\* versions of a document are reordered and repeated, the one row in force is the newest
\* that was taken...
OneInForce ==
  \A d \in Docs : RowsOf(d) # {} =>
    \E x \in RowsOf(d) : Applied(d) = {x} /\ \A y \in RowsOf(d) : y.version <= x.version

\* ... and the order holds the lines of the newest version that had any, unless the
\* lines of posted orders are edited by hand.
LinesLeftAlone == ~(Does("feed") /\ Does("partial")) /\ ~(Does("feed_po") /\ Does("edit"))
NewestApplied ==
  /\ OneInForce
  /\ LinesLeftAlone => \A d \in Docs :
       LET lined == {x \in RowsOf(d) : DOMAIN x.message.cart # {}}
       IN  \A x \in lined : (\A y \in lined : y.version <= x.version) =>
             IF d \in SalesDocs
             THEN x.message.cart = [i \in {l[2] : l \in LinesIn(Db, canonical[d])} |-> line[<<canonical[d], i>>].ordered]
             ELSE x.message.cart = [i \in LinesOfPO(poline, canonical[d]) |-> poline[<<canonical[d], i>>].ordered]

=============================================================================
