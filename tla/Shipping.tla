------------------------------ MODULE Shipping ------------------------------
(***************************************************************************)
(* Packing and shipping: api/routes/packing.py, shipping.py, dockd.py and  *)
(* api/services/shipping_service.py.  A shipment is a row of               *)
(* item_fulfillments; four doors lead to it (the handheld, the dock        *)
(* station, the order edit and the admin correction) and two undo it.      *)
(* All lock the order first and are one step; only verify_item reads its   *)
(* line without a lock and writes what it computed.                        *)
(***************************************************************************)
EXTENDS SalesOrders

CONSTANTS PackingRequired, DockKeys, MaxShipments

\* the NULL of an unanswered key is no key and no answer
ASSUME DockAssumption ==
  /\ NULL \notin DockKeys
  /\ \A e \in {"ship", "void"}, o \in Orders : [endpoint |-> e, order |-> o] # NULL
  /\ MaxShipments \in Nat

VARIABLES
  shipment,   \* shipment[o]: the item_fulfillments rows of o, oldest first
  announced,  \* announced[o]: ship.confirmed events emitted for o
  dockd       \* dockd_idempotency: the answered request of each key, or NULL

ShippingUnchanged == UNCHANGED <<shipment, announced, dockd>>

-----------------------------------------------------------------------------
\* verify_item: quantity_packed is written as the value read plus the scan
BeginVerify(r, l, q) ==
  /\ request[r] = Idle
  /\ order[l[1]].status = "PICKED"
  /\ line[l].row = "live"
  /\ q <= line[l].picked - line[l].packed
  /\ request' = [request EXCEPT ![r] = [op |-> "verify", line |-> l, packed |-> line[l].packed + q]]
  /\ UNCHANGED <<inventory, orderVars, adjustment, receipt, shipment, announced, dockd>>

FinishVerify(r) ==
  /\ request[r].op = "verify"
  /\ line' = IF line[request[r].line].row = "live"
             THEN [line EXCEPT ![request[r].line].packed = request[r].packed] ELSE line
  /\ request' = [request EXCEPT ![r] = Idle]
  /\ UNCHANGED <<inventory, order, batch, task, adjustment, receipt, shipment, announced, dockd>>

Verified(o) == \A l \in LinesIn(Db, o) : line[l].packed >= line[l].picked

complete_packing(o) ==
  /\ order[o].status = "PICKED"
  /\ Verified(o)
  /\ SilentlyShort(Db, {o}) = {}
  /\ order' = [order EXCEPT ![o].status = "PACKED"]
  /\ UNCHANGED <<inventory, line, batch, task, request, adjustment, receipt, shipment, announced, dockd>>

-----------------------------------------------------------------------------
(***************************************************************************)
(* record_ship: refuses a line that is silently short, and ships what each *)
(* line has picked.  `pre` is the status a void goes back to.              *)
(***************************************************************************)
ShipLines(o) ==
  [l \in Lines |-> IF l[1] = o /\ line[l].row = "live" /\ line[l].picked > 0
                   THEN [line[l] EXCEPT !.shipped = line[l].picked] ELSE line[l]]

\* _emit_ship_confirmed: one outbox row, in the same transaction
Announced(o) == [announced EXCEPT ![o] = @ + 1]

record_ship(o, pre, key) ==
  /\ SilentlyShort(Db, {o}) = {}
  /\ Len(shipment[o]) < MaxShipments
  /\ shipment'  = [shipment EXCEPT ![o] = Append(@, [live |-> TRUE, pre |-> pre, key |-> key])]
  /\ announced' = Announced(o)
  /\ line'  = ShipLines(o)
  /\ order' = [order EXCEPT ![o].status = "SHIPPED"]
  /\ UNCHANGED <<inventory, batch, task, request, adjustment, receipt>>

MayShip(o) == order[o].status \in (IF PackingRequired THEN {"PACKED"} ELSE {"PICKED", "PACKED"})

\* the handheld does not say what the status was
fulfill(o) ==
  /\ MayShip(o)
  /\ record_ship(o, NULL, NULL)
  /\ UNCHANGED dockd

\* update_sales_order with a tracking number or a pickup: not held to be packed
edit_to_shipped(o) ==
  /\ order[o].status \in {"PICKED", "PACKED"}
  /\ record_ship(o, order[o].status, NULL)
  /\ UNCHANGED dockd

\* the sentinel row of the key is claimed in the same transaction as the shipment: a
\* twin waits for it and replays the answer, and a refusal rolls the claim back
NotAnswered(k) == dockd[k] = NULL
Answered(k, endpoint, o) == [dockd EXCEPT ![k] = [endpoint |-> endpoint, order |-> o]]

\* wrong variant: the key is not looked up first
ship_order_again(k, o) ==
  /\ MayShip(o)
  /\ record_ship(o, order[o].status, k)
  /\ dockd' = Answered(k, "ship", o)
ship_order(k, o) ==
  /\ NotAnswered(k)
  /\ MayShip(o)
  /\ record_ship(o, order[o].status, k)
  /\ dockd' = Answered(k, "ship", o)

-----------------------------------------------------------------------------
(***************************************************************************)
(* record_admin_ship writes the fulfilment an order lacks; it is announced *)
(* unless the order already was SHIPPED.                                   *)
(***************************************************************************)
LiveShipments(o) == {n \in DOMAIN shipment[o] : shipment[o][n].live}

MayAdminShip(o, acknowledged) ==
  /\ Outbound(o)
  /\ order[o].status \in {"PICKED", "PACKED", "SHIPPED"}
  /\ LiveShipments(o) = {}
  /\ acknowledged \/ SilentlyShort(Db, {o}) = {}
  /\ \E l \in LinesIn(Db, o) : line[l].picked > line[l].shipped
ShipTheRest(o) ==
  [l \in Lines |-> IF l[1] = o /\ line[l].row = "live" /\ line[l].picked > line[l].shipped
                   THEN [line[l] EXCEPT !.shipped = line[l].picked] ELSE line[l]]

record_admin_ship(o, acknowledged) ==
  /\ MayAdminShip(o, acknowledged)
  /\ Len(shipment[o]) < MaxShipments
  /\ shipment' = [shipment EXCEPT ![o] =
                    Append(@, [live |-> TRUE, pre |-> order[o].status, key |-> NULL])]
  /\ announced' = IF order[o].status = "SHIPPED" THEN announced ELSE Announced(o)
  /\ line'  = ShipTheRest(o)
  /\ order' = [order EXCEPT ![o].status = "SHIPPED"]
  /\ UNCHANGED <<inventory, batch, task, request, adjustment, receipt, dockd>>

\* record_void_ship: a NULL pre_ship_status fails the NOT NULL of sales_orders.status
record_void_ship(o, n) ==
  /\ shipment[o][n].pre # NULL
  /\ shipment' = [shipment EXCEPT ![o][n].live = FALSE]
  /\ line' = [l \in Lines |-> IF l[1] = o THEN [line[l] EXCEPT !.shipped = 0] ELSE line[l]]
  /\ order' = [order EXCEPT ![o].status = shipment[o][n].pre]
  /\ UNCHANGED <<inventory, batch, task, request, adjustment, receipt, announced>>

void_ship(k, o) ==
  /\ NotAnswered(k)
  /\ order[o].status = "SHIPPED"
  /\ LiveShipments(o) # {}
  /\ record_void_ship(o, Max(LiveShipments(o)))
  /\ dockd' = Answered(k, "void", o)

=============================================================================
