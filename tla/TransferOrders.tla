--------------------------- MODULE TransferOrders ---------------------------
(***************************************************************************)
(* Transfers of stock to another warehouse: admin_transfer_orders.py,      *)
(* transfer_order_service.py and the transfer-order branches of            *)
(* picking_service.py.  Importing reserves stock, picking counts units on  *)
(* the lines without moving any, a submit asks for an approval, and the    *)
(* approval moves the stock.  A line is <<transfer order, item>>.          *)
(***************************************************************************)
EXTENDS Stock

CONSTANTS Transfers, Handhelds, MaxTasks, MaxApprovals

ASSUME TransfersAssumption == IsFiniteSet(Transfers)

VARIABLES
  transfer,  \* transfer_orders.status, NULL before the import and after a delete
  toline,    \* transfer_order_lines; the status NONE before the import and after a delete
  approval,  \* transfer_order_approvals, with what each snapshot asks for
  totask,    \* pick_tasks of transfer orders
  tobatch,   \* status of the pick batch of each start-picking, oldest first
  handheld,  \* the task a confirm or a short of a handheld has loaded
  arrived    \* units credited to the destination's staging bin

transferVars == <<transfer, toline, approval, totask, tobatch, handheld, arrived>>
Free == [op |-> "none"]
ToLines == Transfers \X Items
LinesOfTO(t) == {l \in ToLines : l[1] = t /\ toline[l].status # "NONE"}
Open(t)      == {l \in LinesOfTO(t) : toline[l].status \in {"PENDING", "PARTIALLY_PICKED"}}

ToLineRow == [committed : Nat, picked : Nat, approved : Nat,
              status : {"NONE", "PENDING", "PARTIALLY_PICKED", "PICKED", "APPROVED", "SHORT_CLOSED"}]
NoToLine == [committed |-> 0, picked |-> 0, approved |-> 0, status |-> "NONE"]
TypeOKTransfers ==
  /\ transfer \in [Transfers -> {NULL, "OPEN", "PARTIALLY_PICKED", "AWAITING_APPROVAL", "CLOSED", "CANCELLED"}]
  /\ toline \in [ToLines -> ToLineRow]
  /\ \A l \in ToLines : toline[l].approved <= toline[l].picked /\ toline[l].picked <= toline[l].committed

-----------------------------------------------------------------------------
\* import_transfer_order: each line commits what is free, walking inventory_id
FreeOf(i) == [b \in Bins |-> AtLeast0(Available(inventory, i, b))]
CommitWalk(i, q) == Walk(FreeOf(i), q, LAMBDA c, b : c < b)
import_transfer_order(t, cart) ==
  LET committed(i) == Total(CommitWalk(i, cart[i]), Bins) IN
  /\ transfer[t] = NULL
  /\ LinesOfTO(t) = {}
  /\ transfer' = [transfer EXCEPT ![t] = "OPEN"]
  /\ inventory' = [r \in Rows |-> IF r[1] \in DOMAIN cart
                                  THEN [inventory[r] EXCEPT !.allocated = @ + CommitWalk(r[1], cart[r[1]])[r[2]]]
                                  ELSE inventory[r]]
  /\ toline' = [l \in ToLines |-> IF l[1] = t /\ l[2] \in DOMAIN cart
                  THEN [committed |-> committed(l[2]), picked |-> 0, approved |-> 0,
                        status |-> IF committed(l[2]) > 0 THEN "PENDING" ELSE "SHORT_CLOSED"]
                  ELSE toline[l]]
  /\ UNCHANGED <<approval, totask, tobatch, handheld, arrived>>

\* _release_reservations: whatever the status, all that is committed and not approved
Outstanding(l) == toline[l].committed - toline[l].approved
_release_reservations(t) ==
  inventory' = [r \in Rows |-> IF <<t, r[1]>> \in LinesOfTO(t)
                               THEN ReleaseWalk(inventory, r[1], Outstanding(<<t, r[1]>>))[r]
                               ELSE inventory[r]]

ApprovalsOf(t, S) == {a \in approval : a.to = t /\ a.status \in S}

cancel_transfer_order(t) ==
  /\ transfer[t] \in {"OPEN", "PARTIALLY_PICKED"}
  /\ ApprovalsOf(t, {"APPROVED", "REJECTED"}) = {}
  /\ _release_reservations(t)
  /\ transfer' = [transfer EXCEPT ![t] = "CANCELLED"]
  /\ UNCHANGED <<toline, approval, totask, tobatch, handheld, arrived>>

\* not even started: a pick task keeps its transfer order from being deleted
delete_transfer_order(t) ==
  /\ transfer[t] # NULL
  /\ \A l \in LinesOfTO(t) : toline[l].picked = 0
  /\ ApprovalsOf(t, {"PENDING", "APPROVED", "REJECTED"}) = {}
  /\ ~ \E k \in totask : k.line[1] = t
  /\ _release_reservations(t)
  /\ transfer' = [transfer EXCEPT ![t] = NULL]
  /\ toline' = [l \in ToLines |-> IF l[1] = t THEN NoToLine ELSE toline[l]]
  /\ UNCHANGED <<approval, totask, tobatch, handheld, arrived>>

\* what was picked and not yet approved is released with the rest
short_close_to_line(l) ==
  /\ toline[l].status \notin {"NONE", "APPROVED", "SHORT_CLOSED"}
  /\ inventory' = ReleaseWalk(inventory, l[2], AtLeast0(Outstanding(l)))
  /\ toline' = [toline EXCEPT ![l].status = "SHORT_CLOSED"]
  /\ UNCHANGED <<transfer, approval, totask, tobatch, handheld, arrived>>

-----------------------------------------------------------------------------
(* Picking *)

\* start_to_picking plans on the units that are there, reserved by whomever
PlanWalk(l) == Walk([b \in Bins |-> AtLeast0(inventory[<<l[2], b>>].on_hand)],
                    toline[l].committed - toline[l].picked, LAMBDA c, b : c < b)
start_to_picking(t) ==
  LET todo == {l \in Open(t) : toline[l].committed > toline[l].picked}
      n    == Len(tobatch) + 1
      new  == {[id |-> <<n, x>>, batch |-> n, line |-> x[1], bin |-> x[2], qty |-> PlanWalk(x[1])[x[2]],
                status |-> "PENDING"] : x \in {y \in todo \X Bins : PlanWalk(y[1])[y[2]] > 0}}
  IN  /\ transfer[t] \in {"OPEN", "PARTIALLY_PICKED"}
      /\ todo # {}
      /\ \A l \in todo : Total(PlanWalk(l), Bins) = toline[l].committed - toline[l].picked
      /\ Cardinality(totask \cup new) <= MaxTasks
      /\ totask' = totask \cup new
      /\ tobatch' = Append(tobatch, "OPEN")
      /\ UNCHANGED <<inventory, transfer, toline, approval, handheld, arrived>>

LoadToTask(h, op, k, q) ==
  /\ handheld[h] = Free
  /\ k \in totask
  /\ k.status = "PENDING"
  /\ q <= k.qty /\ (op = "confirm" => q > 0)
  /\ handheld' = [handheld EXCEPT ![h] = [op |-> op, task |-> k, q |-> q]]
  /\ UNCHANGED <<inventory, transfer, toline, approval, totask, tobatch, arrived>>

EndTask(k, status) == totask' = {IF j.id = k.id THEN [j EXCEPT !.status = status] ELSE j : j \in totask}

\* wrong variant: the quantity is checked when the task is loaded, not when it is written
CanPickLoaded(l, q) == toline[l].status \in {"PENDING", "PARTIALLY_PICKED"} /\ q > 0
\* update_transfer_order_line_picked: one guarded UPDATE, else the confirm rolls back
CanPick(l, q) == /\ toline[l].status \in {"PENDING", "PARTIALLY_PICKED"}
                 /\ toline[l].picked + q <= toline[l].committed
confirm_to_pick(h) ==
  LET k == handheld[h].task
      q == handheld[h].q
  IN  /\ handheld[h].op = "confirm"
      /\ handheld' = [handheld EXCEPT ![h] = Free]
      /\ IF CanPick(k.line, q)
         THEN /\ EndTask(k, "PICKED")
              /\ toline' = [toline EXCEPT ![k.line].picked = @ + q,
                                          ![k.line].status = IF toline[k.line].picked + q = toline[k.line].committed
                                                             THEN "PICKED" ELSE "PARTIALLY_PICKED"]
              /\ transfer' = [transfer EXCEPT ![k.line[1]] = IF @ = "OPEN" THEN "PARTIALLY_PICKED" ELSE @]
         ELSE UNCHANGED <<totask, toline, transfer>>
      /\ UNCHANGED <<inventory, approval, tobatch, arrived>>

\* short_pick knows sales orders only: the units leave the shelf and no line counts them
short_to_pick(h) ==
  LET k == handheld[h].task IN
  /\ handheld[h].op = "short"
  /\ handheld' = [handheld EXCEPT ![h] = Free]
  /\ EndTask(k, "SHORT")
  /\ inventory' = release_floored(take_floored(inventory, k.line[2], k.bin, handheld[h].q), k.line[2], k.bin, k.qty)
  /\ UNCHANGED <<transfer, toline, approval, tobatch, arrived>>

-----------------------------------------------------------------------------
(* Approval *)

\* submit_picks, of the picker or of complete_batch: everything not yet approved
Snapshot(t) == [l \in {m \in LinesOfTO(t) : toline[m].picked > toline[m].approved}
                  |-> toline[l].picked - toline[l].approved]
CanSubmit(t) == /\ transfer[t] \in {"PARTIALLY_PICKED", "AWAITING_APPROVAL"}
                /\ DOMAIN Snapshot(t) # {}
submit_picks(t) ==
  /\ CanSubmit(t)
  /\ Cardinality(approval) < MaxApprovals
  /\ approval' = approval \cup {[id |-> Cardinality(approval) + 1, to |-> t, lines |-> Snapshot(t),
                                 status |-> "PENDING"]}
  /\ transfer' = [transfer EXCEPT ![t] = IF Open(t) = {} THEN "AWAITING_APPROVAL" ELSE "PARTIALLY_PICKED"]
submit_transfer_order_picks(t) ==
  submit_picks(t) /\ UNCHANGED <<inventory, toline, totask, tobatch, handheld, arrived>>

\* complete_batch submits the transfer order of the batch, if there is anything to submit
complete_to_batch(n) ==
  LET tasks == {k \in totask : k.batch = n}
      t     == (CHOOSE k \in tasks : TRUE).line[1]
  IN  /\ n \in DOMAIN tobatch
      /\ \A k \in tasks : k.status # "PENDING"
      /\ tobatch' = [tobatch EXCEPT ![n] = "COMPLETED"]
      /\ IF CanSubmit(t) THEN submit_picks(t) ELSE UNCHANGED <<approval, transfer>>
      /\ UNCHANGED <<inventory, toline, totask, handheld, arrived>>

\* full_revert_batch finds no sales order line: the tasks stay open
cancel_to_batch(n) ==
  /\ n \in DOMAIN tobatch /\ tobatch[n] = "OPEN"
  /\ tobatch' = [tobatch EXCEPT ![n] = "CANCELLED"]
  /\ UNCHANGED <<inventory, transfer, toline, approval, totask, handheld, arrived>>

Resolve(a, status) == approval' = (approval \ {a}) \cup {[a EXCEPT !.status = status]}

\* _decrement_source_inventory: reserved units, whoever they are reserved for
SourceTaken(i, q) == Walk([b \in Bins |-> AtLeast0(Least(inventory[<<i, b>>].allocated, inventory[<<i, b>>].on_hand))],
                          q, LAMBDA c, b : c < b)
\* wrong variant: all that the line has picked
AskedWhole(a, i) == IF <<a.to, i>> \in DOMAIN a.lines THEN toline[<<a.to, i>>].picked ELSE 0
Asked(a, i) == IF <<a.to, i>> \in DOMAIN a.lines THEN a.lines[<<a.to, i>>] ELSE 0

\* wrong variant: a picked line needs no approval
is_header_closeable_picked(f, t) ==
  \A l \in {m \in ToLines : m[1] = t /\ f[m].status # "NONE"} :
     f[l].status \in {"PICKED", "APPROVED", "SHORT_CLOSED"}
is_header_closeable(f, t) ==
  \A l \in {m \in ToLines : m[1] = t /\ f[m].status # "NONE"} :
     f[l].status = "SHORT_CLOSED" \/ (f[l].status = "APPROVED" /\ f[l].approved = f[l].picked)
evaluate_to_closure(t) ==
  /\ is_header_closeable(toline', t)
  /\ ~ \E a \in approval' : a.to = t /\ a.status = "PENDING"

\* the table's CHECK (approved_qty <= picked_qty) fails a snapshot approved twice
approve_transfer_order_approval(a) ==
  /\ a \in approval /\ a.status = "PENDING"
  /\ \A l \in DOMAIN a.lines : /\ toline[l].approved + a.lines[l] <= toline[l].picked
                               /\ Total(SourceTaken(l[2], a.lines[l]), Bins) = a.lines[l]
  /\ toline' = [l \in ToLines |->
       IF l \notin DOMAIN a.lines THEN toline[l]
       ELSE [toline[l] EXCEPT !.approved = @ + a.lines[l],
                              !.status = IF toline[l].approved + a.lines[l] = toline[l].picked
                                            /\ toline[l].picked = toline[l].committed
                                         THEN "APPROVED" ELSE @]]
  /\ inventory' = [r \in Rows |->
       LET taken == SourceTaken(r[1], Asked(a, r[1]))[r[2]]
       IN  [on_hand |-> inventory[r].on_hand - taken, allocated |-> inventory[r].allocated - taken]]
  /\ arrived' = [i \in Items |-> arrived[i] + Asked(a, i)]
  /\ Resolve(a, "APPROVED")
  /\ transfer' = [transfer EXCEPT ![a.to] = IF evaluate_to_closure(a.to) THEN "CLOSED" ELSE @]
  /\ UNCHANGED <<totask, tobatch, handheld>>

reject_transfer_order_approval(a) ==
  /\ a \in approval /\ a.status = "PENDING"
  /\ Resolve(a, "REJECTED")
  /\ UNCHANGED <<inventory, transfer, toline, totask, tobatch, handheld, arrived>>

=============================================================================
