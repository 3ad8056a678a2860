-------------------------- MODULE InboundDocuments --------------------------
(***************************************************************************)
(* The inbound interface (api/routes/inbound.py, inbound_service.py): an   *)
(* upstream system posts versions of its sales orders and purchase orders, *)
(* in any order and more than once, and sets quantities of bins.  A post   *)
(* is applied to the order the document stands for in                      *)
(* cross_system_mappings, and recorded in an append-only table whose row   *)
(* in force has the status applied.                                        *)
(*                                                                         *)
(* A post holds an advisory lock on its document to the end, and the order *)
(* row once it has written the header; the lines are looked at without a   *)
(* lock before they are replaced, so a post is two steps.  Items and other *)
(* documents without lines do the same to rows nothing here depends on.    *)
(***************************************************************************)
EXTENDS Stockroom

CONSTANTS SalesDocs, PurchaseDocs, MaxVersion

ASSUME VersionAssumption == MaxVersion \in Nat

\* a document is of one type, and a mapping that is there points at a row
ASSUME DocsAssumption == SalesDocs \cap PurchaseDocs = {} /\ NULL \notin Orders \cup Purchases

VARIABLES
  inbound,    \* inbound_sales_orders, inbound_purchase_orders
  canonical   \* cross_system_mappings: the order of a document, or NULL

inboundVars == <<inbound, canonical>>
Docs     == SalesDocs \cup PurchaseDocs
Versions == 1 .. MaxVersion

InboundRow(d, v, m) == [doc |-> d, version |-> v, message |-> m, status |-> "applied"]
RowsOf(d)  == {x \in inbound : x.doc = d}
Applied(d) == {x \in RowsOf(d) : x.status = "applied"}
Superseded(d) == {IF x \in Applied(d) THEN [x EXCEPT !.status = "superseded"] ELSE x : x \in inbound}

\* the advisory lock, and the lock of the order's row
Posting(d)    == {r \in Requests : request[r].op = "post" /\ request[r].doc = d}
HeaderHeld(o) == \E d \in SalesDocs : canonical[d] = o /\ Posting(d) # {}

\* wrong variant: reservations are not work
InFlightPicked(db, d) ==
  IF d \in SalesDocs THEN \E l \in LinesIn(db, canonical[d]) :
                            db.line[l].picked > 0 \/ db.line[l].packed > 0 \/ db.line[l].shipped > 0
  ELSE \E i \in LinesOfPO(poline, canonical[d]) : poline[<<canonical[d], i>>].received > 0
\* _LINE_RESOURCE_SPECS: lines somebody has worked on are not replaced
InFlight(db, d) ==
  IF d \in SalesDocs THEN \E l \in LinesIn(db, canonical[d]) :
                            \/ db.line[l].allocated > 0 \/ db.line[l].picked > 0
                            \/ db.line[l].packed > 0    \/ db.line[l].shipped > 0
  ELSE \E i \in LinesOfPO(poline, canonical[d]) : poline[<<canonical[d], i>>].received > 0

\* wrong variant: any version is news
NewsToAny(d, v) == TRUE
\* neither posted before (answered 200), nor older than the version in force (409)
NewsTo(d, v) == /\ ~ \E x \in RowsOf(d) : x.version = v
                /\ ~ \E x \in Applied(d) : x.version > v

-----------------------------------------------------------------------------
(***************************************************************************)
(* handle_inbound.  A message is the status it maps, or NULL, and the      *)
(* lines it carries, or none: then the lines there are stay.               *)
(***************************************************************************)
IsCancellation(d, m) == d \in SalesDocs /\ m.status = "CANCELLED" /\ canonical[d] # NULL
                        /\ order[canonical[d]].status # "CANCELLED"
BeginPost(r, d, v, m) ==
  /\ request[r] = Idle
  /\ Posting(d) = {}
  /\ NewsTo(d, v)
  /\ ~IsCancellation(d, m)
  /\ canonical[d] # NULL /\ DOMAIN m.cart # {} => ~InFlight(Db, d)
  /\ request' = [request EXCEPT ![r] = [op |-> "post", doc |-> d, version |-> v, message |-> m]]
  /\ UNCHANGED <<inventory, orderVars, adjustment, receipt, stockroomVars, inboundVars>>

Recorded(d, v, m) == inbound' = Superseded(d) \cup {InboundRow(d, v, m)}

\* DELETE and INSERT of the lines: the tasks of the old ones lose their line
Relined(db, o, cart) ==
  IF DOMAIN cart = {} THEN db
  ELSE [db EXCEPT
    !.line = [l \in Lines |-> CASE l[1] = o /\ l[2] \in DOMAIN cart -> NewLine(cart[l[2]])
                                [] l \in LinesIn(db, o) /\ l[2] \notin DOMAIN cart -> GoneLine
                                [] OTHER -> db.line[l]],
    !.task = {IF <<o, t.item>> \in LinesIn(db, o) THEN Orphaned(t, <<o, t.item>>) ELSE t : t \in @}]

NewHeader(m, held) ==
  [NoOrder EXCEPT !.status = IF held THEN "FRAUD_REVIEW" ELSE IF m.status = NULL THEN "OPEN" ELSE m.status]
Headed(db, o, status) == IF status = NULL THEN db ELSE [db EXCEPT !.order[o].status = status]

\* a new order is OPEN unless mapped; with the fraud heuristic on it may be held back
FinishSalesPost(r, held) ==
  LET m == request[r].message
      d == request[r].doc
  IN  /\ request[r].op = "post" /\ d \in SalesDocs
      /\ Recorded(d, request[r].version, m)
      /\ \/ /\ canonical[d] # NULL /\ ~held
            /\ Commit(Relined(Headed(Db, canonical[d], m.status), canonical[d], m.cart))
            /\ UNCHANGED canonical
         \/ /\ canonical[d] = NULL
            /\ \E o \in Orders :
                 /\ FreshOrder(o)
                 /\ Commit(Relined([Db EXCEPT !.order[o] = NewHeader(m, held)], o, m.cart))
                 /\ canonical' = [canonical EXCEPT ![d] = o]
      /\ request' = [request EXCEPT ![r] = Idle]
      /\ UNCHANGED <<adjustment, receipt, stockroomVars>>

\* a standing receipt keeps its line from being deleted, and the post fails
FinishPurchasePost(r) ==
  LET m == request[r].message
      d == request[r].doc
      lined(p) == IF DOMAIN m.cart = {} THEN poline
                  ELSE [k \in DOMAIN poline |-> IF k[1] # p THEN poline[k]
                          ELSE IF k[2] \in DOMAIN m.cart THEN [ordered |-> m.cart[k[2]], received |-> 0]
                          ELSE NULL]
  IN  /\ request[r].op = "post" /\ d \in PurchaseDocs
      /\ \/ /\ canonical[d] # NULL
            /\ IF DOMAIN m.cart # {} /\ \E i \in Items : Received(canonical[d], i)
               THEN UNCHANGED <<purchase, poline, inbound>>
               ELSE /\ Recorded(d, request[r].version, m)
                    /\ poline' = lined(canonical[d])
                    /\ purchase' = IF m.status = NULL THEN purchase
                                   ELSE [purchase EXCEPT ![canonical[d]] = m.status]
            /\ UNCHANGED canonical
         \/ /\ canonical[d] = NULL
            /\ \E p \in Purchases :
                 /\ purchase[p] = NULL
                 /\ Recorded(d, request[r].version, m)
                 /\ poline' = lined(p)
                 /\ purchase' = [purchase EXCEPT ![p] = IF m.status = NULL THEN "OPEN" ELSE m.status]
                 /\ canonical' = [canonical EXCEPT ![d] = p]
      /\ request' = [request EXCEPT ![r] = Idle]
      /\ UNCHANGED <<inventory, orderVars, adjustment, receipt, goods, count, review, landing>>

\* a CANCELLED for an order that is not goes through cancel_sales_order, before the
\* lines are looked at; for a SHIPPED order the post fails, every time it is repeated
PostCancellation(d, v, m) ==
  LET o  == canonical[d]
      db == Cancelled(Db, o)
  IN  /\ Posting(d) = {}
      /\ NewsTo(d, v)
      /\ IsCancellation(d, m)
      /\ CanCancel(Db, o)
      /\ DOMAIN m.cart # {} => ~InFlight(db, d)
      /\ Commit(Relined(db, o, m.cart))
      /\ Recorded(d, v, m)
      /\ UNCHANGED <<request, adjustment, receipt, stockroomVars, canonical>>

-----------------------------------------------------------------------------
\* _inventory_update_post: the row is locked, and what it lacks or has too much is an
\* approved adjustment; no version is looked at
Lacking(i, b, target) == target - inventory[<<i, b>>].on_hand
BeginUpdate(i, b, target) ==
  /\ Lacking(i, b, target) > 0
  /\ LookForBackorders("sync", NULL, i, {<<i, b>>}, Lacking(i, b, target),
                       add_inventory(inventory, i, b, Lacking(i, b, target)))
  /\ UNCHANGED inboundVars

inventory_update(i, b, target) ==
  LET change == Lacking(i, b, target)
  IN  /\ change # 0
      /\ IF change > 0 THEN Land("sync", NULL, {<<i, b>>}, change, add_inventory(inventory, i, b, change))
                       ELSE Shelve([inventory EXCEPT ![<<i, b>>].on_hand = target])
      /\ adjustment' = [adjustment EXCEPT ![i] = @ + change]
      /\ SalesUnchanged
      /\ UNCHANGED <<request, desksVars, inboundVars>>

=============================================================================
