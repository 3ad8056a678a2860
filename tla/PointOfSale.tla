---------------------------- MODULE PointOfSale ----------------------------
(***************************************************************************)
(* The till: api/routes/pos.py.  A checkout enters a sales order that is   *)
(* shipped on the spot (counter), reserved for a picker (phone) or waits   *)
(* for stock (backorder); a refund is a sales order of its own with        *)
(* negative lines, here a row of `refunds`.                                *)
(*                                                                         *)
(* A till retries with the same idempotency_key.  sales_orders has one key *)
(* column for checkouts and refunds, the INSERT leaves a key that is there *)
(* alone, and the order, the stock and the cached answer are committed     *)
(* together: a call is one step, and a repeated key changes nothing.  A    *)
(* cart has at most one line for an item.                                  *)
(***************************************************************************)
EXTENDS SalesOrders

CONSTANT TillKeys

\* keys are numbered in the order they are drawn, and a missing key is none
ASSUME TillAssumption == TillKeys \subseteq Nat /\ NULL \notin TillKeys

VARIABLES
  sale,     \* sale[o]: key and cart of the checkout (its audit row), source, refunded_at
  refunds   \* the refund orders: key, original, quantities

tillVars == <<sale, refunds>>
TillOnly == UNCHANGED <<batch, task, request, adjustment, receipt>>

KeyUsed(k) == \/ \E o \in Orders : sale[o] # NULL /\ sale[o].key = k
              \/ \E x \in refunds : x.key = k

Sale(source, key, cart) == [source |-> source, key |-> key, cart |-> cart, refunded |-> FALSE]
WithLines(o, rows) ==
  [l \in Lines |-> IF l[1] = o /\ l[2] \in DOMAIN rows THEN rows[l[2]] ELSE line[l]]

-----------------------------------------------------------------------------
(* checkout *)

HandedOver(q) == [NewLine(q) EXCEPT !.picked = q, !.packed = q, !.shipped = q]
Promised(q)   == [NewLine(q) EXCEPT !.allocated = q]

InStock(cart) == \A i \in DOMAIN cart : Available(inventory, i, cart[i].bin) >= cart[i].q
\* the rows the cart's lines are sold from, changed: units on the shelf and reserved
Taking(cart, shelf, reserved) ==
  [r \in Rows |-> IF r[1] \in DOMAIN cart /\ cart[r[1]].bin = r[2]
                  THEN [on_hand   |-> inventory[r].on_hand + shelf * cart[r[1]].q,
                        allocated |-> inventory[r].allocated + reserved * cart[r[1]].q]
                  ELSE inventory[r]]

SaleStatus(how) == CASE how = "counter"   -> "SHIPPED"
                     [] how = "phone"     -> "OPEN"
                     [] how = "backorder" -> "WAITING_STOCK"
\* a replacement or an exchange names its parent, an order that exists
HasParent(child) == child.kind # "sale" => order[child.of].status # "NONE"
SaleRow(how, child) ==
  [NoOrder EXCEPT !.status = SaleStatus(how), !.kind = child.kind, !.parent = child.of]
\* an exchange may open a return of units of the parent, the next order entered
MayReturn(child, o, rma, back) ==
  /\ child.kind = "exchange"
  /\ line[<<child.of, back.item>>].row = "live"
  /\ rma \in Unborn \ {o} /\ \A p \in Unborn \ {o} : rma <= p

checkout(k, o, how, child, cart, rma, back) ==
  /\ ~KeyUsed(k)
  /\ FreshOrder(o)
  /\ HasParent(child)
  /\ rma # NULL => MayReturn(child, o, rma, back)
  /\ how # "backorder" => InStock(cart)
  /\ inventory' = CASE how = "counter"   -> Taking(cart, -1, 0)
                    [] how = "phone"     -> Taking(cart, 0, 1)
                    [] how = "backorder" -> inventory
  /\ \E sold \in {WithLines(o, [i \in DOMAIN cart |->
                      CASE how = "counter"   -> HandedOver(cart[i].q)
                        [] how = "phone"     -> Promised(cart[i].q)
                        [] how = "backorder" -> NewLine(cart[i].q)])} :
       line' = IF rma = NULL THEN sold ELSE [sold EXCEPT ![<<rma, back.item>>] = NewLine(back.q)]
  /\ \E entered \in {[order EXCEPT ![o] = SaleRow(how, child)]} :
       order' = IF rma = NULL THEN entered ELSE [entered EXCEPT ![rma] = ReturnRow(child.of)]
  /\ sale' = [sale EXCEPT ![o] = Sale("pos", k, IF how = "backorder" THEN <<>> ELSE cart)]
  /\ UNCHANGED refunds
  /\ TillOnly

-----------------------------------------------------------------------------
(***************************************************************************)
(* refund, under the lock of the original.  What was sold is read from the *)
(* audit row of the checkout, so that a phone order is refunded as it was  *)
(* ordered; the locations of a backorder are not known and it is refused.  *)
(* The units go back to the bins they were sold from, and no backorder is  *)
(* looked for.                                                             *)
(***************************************************************************)
Refunded(o, i) == SumOver(LAMBDA x : x.part[i], {x \in refunds : x.of = o /\ i \in DOMAIN x.part})

\* wrong variant: a partial refund does not count towards the next
RefundableEach(o, part) == \A i \in DOMAIN part : part[i] <= sale[o].cart[i].q
Refundable(o, part) == \A i \in DOMAIN part : Refunded(o, i) + part[i] <= sale[o].cart[i].q

MayRefund(o) ==
  /\ sale[o] # NULL /\ sale[o].source = "pos" /\ order[o].kind = "sale"
  /\ ~sale[o].refunded
  /\ order[o].status = "SHIPPED"
FullyRefunded(o, part) ==
  \A i \in DOMAIN sale[o].cart :
    Refunded(o, i) + (IF i \in DOMAIN part THEN part[i] ELSE 0) = sale[o].cart[i].q
RefundRow(k, o, part) == [key |-> k, of |-> o, part |-> part]

refund(k, o, part) ==
  LET cart  == sale[o].cart
      units == [i \in DOMAIN part |-> [bin |-> cart[i].bin, q |-> part[i]]]
  IN
  /\ ~KeyUsed(k)
  /\ MayRefund(o)
  /\ DOMAIN part # {} /\ DOMAIN part \subseteq DOMAIN cart
  /\ Refundable(o, part)
  /\ refunds' = refunds \cup {RefundRow(k, o, part)}
  /\ inventory' = Taking(units, 1, 0)
  /\ \E fully \in {FullyRefunded(o, part)} :
       /\ sale'  = [sale EXCEPT ![o].refunded = fully]
       /\ order' = IF fully THEN [order EXCEPT ![o].status = "REFUNDED"] ELSE order
  /\ UNCHANGED line
  /\ TillOnly

-----------------------------------------------------------------------------
\* reference_orders: a sale of the old system, shipped long ago, that took no stock
\* here; its number is unique, so a repeated ingest changes nothing
reference_orders(o, cart) ==
  /\ FreshOrder(o)
  /\ order' = [order EXCEPT ![o] = [NoOrder EXCEPT !.status = "SHIPPED"]]
  /\ line'  = WithLines(o, [i \in DOMAIN cart |-> HandedOver(cart[i].q)])
  /\ sale'  = [sale EXCEPT ![o] = Sale("reference", NULL, cart)]
  /\ UNCHANGED <<inventory, refunds>>
  /\ TillOnly

=============================================================================
