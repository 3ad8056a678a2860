----------------------------- MODULE Stockroom -----------------------------
(***************************************************************************)
(* Stock that arrives, moves and is counted: purchase orders and their     *)
(* receipts (admin_orders.py, routes/receiving.py, receiving_service.py),  *)
(* put-away and moves (putaway.py, transfers.py, admin_warehouse.py),      *)
(* cycle counts and adjustments (inventory.py, admin_users.py,             *)
(* admin_items.py).  Stock that lands by a receipt, an adjustment or an    *)
(* inter-warehouse transfer releases the backorders it satisfies: those    *)
(* that it sees satisfied, with its own units and what others committed,   *)
(* before it commits.                                                      *)
(*                                                                         *)
(* A request handles one receipt, one adjustment or one item.  What is     *)
(* read without a lock and used later is kept in request[r], and in        *)
(* landing for stock on its way to a shelf.                                *)
(***************************************************************************)
EXTENDS SalesOrders

CONSTANTS Purchases, Receipts, Counts, AllowOverReceipt

ASSUME ReceiptsAssumption == Receipts \subseteq Nat

\* the row of a purchase order line, and a status, are never mistaken for no row
ASSUME PurchasesAssumption ==
  NULL \notin [ordered : Nat, received : Nat] \cup {"OPEN", "PARTIAL", "RECEIVED", "CLOSED", "ARCHIVED"}

VARIABLES
  purchase,  \* purchase[p]: status of the purchase order, NULL before it exists
  poline,    \* poline[p, i]: ordered and received, or NULL
  goods,     \* item_receipts of purchase orders
  count,     \* count[c]: cycle_counts with the expected quantities, or NULL
  review,    \* inventory_adjustments of counts: PENDING, APPROVED or REJECTED
  landing    \* transactions that have put units on a shelf and looked for backorders

desksVars     == <<purchase, poline, goods, count, review>>
stockroomVars == <<desksVars, landing>>
SalesUnchanged == UNCHANGED <<batch, task, receipt>>

Shelve(inv) == inventory' = inv /\ UNCHANGED <<order, line, landing>>

(***************************************************************************)
(* Landing stock.  A transaction that puts units on a shelf holds the rows *)
(* it writes (add_inventory: an advisory lock on the item and the bin), a  *)
(* receipt its purchase order as well.  The look reads all pickable bins   *)
(* without a lock, and the audit log, which lets one transaction at a time *)
(* through to its commit, is written later or not at all: landings in      *)
(* different bins do not see each other's units.                           *)
(***************************************************************************)
LookForBackorders(op, by, i, rows, q, inv) ==
  /\ \A x \in landing : x.rows \cap rows = {}
  /\ landing' = landing \cup {[op |-> op, by |-> by, rows |-> rows, q |-> q,
                               found |-> SatisfiableBackorders([Db EXCEPT !.inv = inv], i)]}
  /\ SalesUnchanged
  /\ UNCHANGED <<inventory, order, line, request, adjustment, desksVars>>

\* wrong variant: only the shelves
LandQuietly(op, by, rows, q, inv) ==
  \E x \in landing : /\ x.op = op /\ x.by = by /\ x.rows = rows /\ x.q = q
                     /\ inventory' = inv /\ landing' = landing \ {x}
                     /\ UNCHANGED <<order, line>>
\* the commit: the shelves, and the orders that the look has found, in whatever status
Land(op, by, rows, q, inv) ==
  \E x \in landing : /\ x.op = op /\ x.by = by /\ x.rows = rows /\ x.q = q
                     /\ inventory' = inv /\ landing' = landing \ {x}
                     /\ order' = Released(x.found)
                     /\ UNCHANGED line

\* nobody writes the rows of a landing, or the purchase order, until it commits
LandingRowsKept ==
  \A x \in landing \cap landing' :
    /\ \A s \in x.rows : inventory'[s] = inventory[s]
    /\ x.op = "receive" => /\ purchase'[x.by] = purchase[x.by]
                           /\ \A i \in Items : poline'[<<x.by, i>>] = poline[<<x.by, i>>]

-----------------------------------------------------------------------------
(* Purchase orders *)

LinesOfPO(f, p) == {i \in Items : f[<<p, i>>] # NULL}

\* recompute_po_status, without its lines: a line's status follows its quantities
StatusOf(f, p) ==
  CASE LinesOfPO(f, p) # {} /\ \A i \in LinesOfPO(f, p) : f[<<p, i>>].received >= f[<<p, i>>].ordered -> "RECEIVED"
    [] \E i \in LinesOfPO(f, p) : f[<<p, i>>].received > 0 -> "PARTIAL"
    [] OTHER -> "OPEN"
recompute_po_status(f, p) == purchase' = [purchase EXCEPT ![p] = StatusOf(f, p)]

POUnchanged == UNCHANGED <<inventory, order, line, request, adjustment, goods, count, review, landing>>

create_purchase_order(p, cart) ==
  /\ purchase[p] = NULL
  /\ purchase' = [purchase EXCEPT ![p] = "OPEN"]
  /\ poline' = [k \in DOMAIN poline |-> IF k[1] = p /\ k[2] \in DOMAIN cart
                                        THEN [ordered |-> cart[k[2]], received |-> 0] ELSE poline[k]]
  /\ POUnchanged

\* update_purchase_order, close_ and reopen_: only ARCHIVED asks for a status first
update_purchase_order(p, status) ==
  /\ purchase[p] \notin {NULL, status}
  /\ status = "ARCHIVED" => purchase[p] = "CLOSED"
  /\ purchase' = [purchase EXCEPT ![p] = status]
  /\ UNCHANGED poline
  /\ POUnchanged
close_purchase_order(p)  == update_purchase_order(p, "CLOSED")
reopen_purchase_order(p) == purchase[p] = "CLOSED" /\ update_purchase_order(p, "OPEN")

Editable(p) == purchase[p] \notin {NULL, "CLOSED", "ARCHIVED"}

edit_purchase_order_line(p, i, new) ==
  /\ Editable(p)
  /\ poline' = [poline EXCEPT ![<<p, i>>] = new]
  /\ recompute_po_status(poline', p)
  /\ POUnchanged
add_purchase_order_line(p, i, q) ==
  poline[<<p, i>>] = NULL /\ edit_purchase_order_line(p, i, [ordered |-> q, received |-> 0])
update_purchase_order_line(p, i, q) ==
  /\ poline[<<p, i>>] # NULL
  /\ q >= poline[<<p, i>>].received
  /\ edit_purchase_order_line(p, i, [poline[<<p, i>>] EXCEPT !.ordered = q])
\* a standing receipt keeps its line from being deleted
Received(p, i) == \E g \in goods : g.live /\ g.po = p /\ g.item = i
delete_purchase_order_line(p, i) ==
  /\ poline[<<p, i>>] # NULL /\ poline[<<p, i>>].received = 0
  /\ ~Received(p, i)
  /\ edit_purchase_order_line(p, i, NULL)

-----------------------------------------------------------------------------
(* Receipts *)

MayBeReceived(p, i, q) ==
  /\ purchase[p] \in {"OPEN", "PARTIAL"}
  /\ poline[<<p, i>>] # NULL
  /\ AllowOverReceipt \/ q <= poline[<<p, i>>].ordered - poline[<<p, i>>].received

\* the purchase order is locked from the first look at it
BeginReceipt(p, i, q, bin) ==
  /\ MayBeReceived(p, i, q)
  /\ ~ \E x \in landing : x.op = "receive" /\ x.by = p
  /\ LookForBackorders("receive", p, i, {<<i, bin>>}, q, add_inventory(inventory, i, bin, q))

receive_items(p, i, q, bin) ==
  /\ MayBeReceived(p, i, q)
  /\ \E n \in Receipts :
       /\ \A g \in goods : g.id < n
       /\ goods' = goods \cup {[id |-> n, po |-> p, item |-> i, bin |-> bin, q |-> q, live |-> TRUE]}
  /\ poline' = [poline EXCEPT ![<<p, i>>].received = @ + q]
  /\ purchase' = [purchase EXCEPT ![p] = IF StatusOf(poline', p) = "RECEIVED" THEN "RECEIVED" ELSE "PARTIAL"]
  /\ Land("receive", p, {<<i, bin>>}, q, add_inventory(inventory, i, bin, q))
  /\ SalesUnchanged
  /\ UNCHANGED <<request, adjustment, count, review>>

\* take the receipt's units from its line and strike the receipt out; a handler that
\* finds the row deleted by another still does the rest
Struck(g) == [g EXCEPT !.live = FALSE]
\* wrong variant: the line keeps what it received
StrikeReceiptOnly(g) ==
  /\ goods' = (goods \ {g}) \cup {Struck(g)}
  /\ UNCHANGED poline
  /\ recompute_po_status(poline', g.po)
StrikeReceipt(g) ==
  /\ goods' = (goods \ {g}) \cup {Struck(g)}
  /\ poline' = IF poline[<<g.po, g.item>>] = NULL THEN poline
               ELSE [poline EXCEPT ![<<g.po, g.item>>].received = AtLeast0(@ - g.q)]
  /\ recompute_po_status(poline', g.po)

\* cancel_receiving reads its receipt without a lock...
BeginCancelReceiving(r, g) ==
  /\ request[r] = Idle
  /\ g \in goods /\ g.live
  /\ request' = [request EXCEPT ![r] = [op |-> "cancel_receiving", goods |-> g]]
  /\ Shelve(inventory)
  /\ SalesUnchanged
  /\ UNCHANGED <<adjustment, stockroomVars>>

\* ... and takes the units from the bin they came to, wherever they are now
FinishCancelReceiving(r) ==
  LET g == request[r].goods IN
  /\ request[r].op = "cancel_receiving"
  /\ Shelve(take_floored(inventory, g.item, g.bin, g.q))
  /\ StrikeReceipt(IF g \in goods THEN g ELSE Struck(g))
  /\ request' = [request EXCEPT ![r] = Idle]
  /\ SalesUnchanged
  /\ UNCHANGED <<adjustment, count, review>>

\* record_unreceive locks the receipt and takes free units only: from its bin first,
\* then from the fullest bins
UnreceiveTaken(g) ==
  LET cap == [b \in Bins |-> AtLeast0(Available(inventory, g.item, b))]
  IN  Walk(cap, g.q, LAMBDA c, b : \/ c = g.bin
                                   \/ b # g.bin /\ (cap[c] > cap[b] \/ (cap[c] = cap[b] /\ c < b)))
record_unreceive(g) ==
  /\ g \in goods /\ g.live
  /\ Total(UnreceiveTaken(g), Bins) = g.q
  /\ Shelve([s \in Rows |-> IF s[1] = g.item THEN [inventory[s] EXCEPT !.on_hand = @ - UnreceiveTaken(g)[s[2]]]
                            ELSE inventory[s]])
  /\ StrikeReceipt(g)
  /\ SalesUnchanged
  /\ UNCHANGED <<request, adjustment, count, review>>

-----------------------------------------------------------------------------
(* Moves *)

\* confirm_putaway and move: the source row is locked, reserved units move too, and
\* nobody looks for the backorders that the new bin satisfies
move(i, from, to, q) ==
  /\ CanMove(inventory, i, from, q)
  /\ Shelve(move_inventory(inventory, i, from, to, q))
  /\ SalesUnchanged
  /\ UNCHANGED <<request, adjustment, stockroomVars>>

\* create_inter_warehouse_transfer reads the source without a lock and writes what is left
BeginTransfer(r, i, from, to, q) ==
  /\ request[r] = Idle
  /\ inventory[<<i, from>>].on_hand >= q
  /\ request' = [request EXCEPT ![r] = [op |-> "transfer", item |-> i, from |-> from, to |-> to,
                                        left |-> inventory[<<i, from>>].on_hand - q, q |-> q]]
  /\ Shelve(inventory)
  /\ SalesUnchanged
  /\ UNCHANGED <<adjustment, stockroomVars>>
Moved(m) == add_inventory([inventory EXCEPT ![<<m.item, m.from>>].on_hand = m.left], m.item, m.to, m.q)
BothEnds(m) == {<<m.item, m.from>>, <<m.item, m.to>>}
LandTransfer(r) ==
  LET m == request[r] IN
  /\ m.op = "transfer"
  /\ LookForBackorders("transfer", r, m.item, BothEnds(m), m.q, Moved(m))
FinishTransfer(r) ==
  LET m == request[r] IN
  /\ m.op = "transfer"
  /\ Land("transfer", r, BothEnds(m), m.q, Moved(m))
  /\ request' = [request EXCEPT ![r] = Idle]
  /\ SalesUnchanged
  /\ UNCHANGED <<adjustment, desksVars>>

-----------------------------------------------------------------------------
(* Adjustments and cycle counts *)

\* direct_adjustment and _import_inventory_adjustment: a removal may take reserved units
BeginAdjustment(i, bin, change) ==
  /\ change > 0
  /\ LookForBackorders("adjust", NULL, i, {<<i, bin>>}, change, add_inventory(inventory, i, bin, change))

direct_adjustment(i, bin, change) ==
  /\ inventory[<<i, bin>>].on_hand + change >= 0
  /\ IF change > 0 THEN Land("adjust", NULL, {<<i, bin>>}, change, add_inventory(inventory, i, bin, change))
                   ELSE Shelve(add_inventory(inventory, i, bin, change))
  /\ adjustment' = [adjustment EXCEPT ![i] = @ + change]
  /\ SalesUnchanged
  /\ UNCHANGED <<request, desksVars>>

\* the snapshot holds what the bin holds, and only the items it holds
create_cycle_count(c, bin) ==
  /\ count[c] = NULL
  /\ count' = [count EXCEPT ![c] = [status |-> "PENDING", bin |-> bin,
                 expected |-> [i \in {j \in Items : inventory[<<j, bin>>].on_hand > 0}
                                 |-> inventory[<<i, bin>>].on_hand]]]
  /\ Shelve(inventory)
  /\ SalesUnchanged
  /\ UNCHANGED <<request, adjustment, purchase, poline, goods, review>>

\* an item that the snapshot lacks is unexpected; variances wait for a review
Expected(c, i) == IF i \in DOMAIN count[c].expected THEN count[c].expected[i] ELSE 0
Variances(c, counted) == {i \in DOMAIN counted : counted[i] # Expected(c, i)}

submit_cycle_count(c, counted) ==
  LET off == Variances(c, counted)
  IN  /\ count[c] # NULL
      /\ count[c].status = "PENDING"
      /\ DOMAIN count[c].expected \subseteq DOMAIN counted
      /\ count' = [count EXCEPT ![c].status = IF off = {} THEN "COMPLETED" ELSE "VARIANCE"]
      /\ review' = review \cup {[count |-> c, item |-> i, bin |-> count[c].bin,
                                 change |-> counted[i] - Expected(c, i), status |-> "PENDING"] : i \in off}
      /\ Shelve(inventory)
      /\ SalesUnchanged
      /\ UNCHANGED <<request, adjustment, purchase, poline, goods>>

\* review_adjustments locks the adjustment, not the shelf it reads...
Reviewing == {request[r].row : r \in {s \in Requests : request[s].op = "review"}}
BeginReview(r, a) ==
  /\ request[r] = Idle
  /\ a \in review \ Reviewing
  /\ a.status = "PENDING"
  /\ request' = [request EXCEPT ![r] = [op |-> "review", row |-> a,
                   new |-> AtLeast0(inventory[<<a.item, a.bin>>].on_hand + a.change)]]
  /\ Shelve(inventory)
  /\ SalesUnchanged
  /\ UNCHANGED <<adjustment, stockroomVars>>

Reviewed(a, status) == review' = (review \ {a}) \cup {[a EXCEPT !.status = status]}

\* ... and writes the sum of what it read and the change
Counted(m) == [inventory EXCEPT ![<<m.row.item, m.row.bin>>].on_hand = m.new]
LandReview(r) ==
  LET a == request[r].row IN
  /\ request[r].op = "review" /\ a.change > 0
  /\ LookForBackorders("review", r, a.item, {<<a.item, a.bin>>}, a.change, Counted(request[r]))
FinishReview(r) ==
  LET a == request[r].row
      inv == Counted(request[r])
  IN  /\ request[r].op = "review"
      /\ IF a.change > 0 THEN Land("review", r, {<<a.item, a.bin>>}, a.change, inv) ELSE Shelve(inv)
      /\ adjustment' = [adjustment EXCEPT ![a.item] = @ + a.change]
      /\ Reviewed(a, "APPROVED")
      /\ request' = [request EXCEPT ![r] = Idle]
      /\ SalesUnchanged
      /\ UNCHANGED <<purchase, poline, goods, count>>

reject_adjustment(a) ==
  /\ a \in review \ Reviewing
  /\ a.status = "PENDING"
  /\ Reviewed(a, "REJECTED")
  /\ Shelve(inventory)
  /\ SalesUnchanged
  /\ UNCHANGED <<request, adjustment, purchase, poline, goods, count>>

=============================================================================
