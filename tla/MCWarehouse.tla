---------------------------- MODULE MCWarehouse ----------------------------
(***************************************************************************)
(* Days at the outbound desks, small enough for TLC: which operations      *)
(* happen, the quantities of the orders entered in the morning, what is on *)
(* the shelf in the two pickable bins, how many requests are in flight at  *)
(* once, who picks, and how many batches there may be.                     *)
(***************************************************************************)
EXTENDS Warehouse, TLC

CONSTANTS i1, d1, r1, r2

OneItem == {i1}

Day(ops, carts, bin2, bin3, hands, users, batches) ==
  [ops |-> ops, hands |-> hands, users |-> users, batches |-> batches,
   carts |-> [n \in DOMAIN carts |-> [i \in Items |-> carts[n]]],
   shelf |-> [r \in Rows |-> CASE r[2] = 2 -> bin2 [] r[2] = 3 -> bin3 [] OTHER -> 0]]

\* two pickers' requests overlap on two orders
Waves       == Day({"wave", "confirm", "short", "complete"}, <<1, 1>>, 2, 0, 2, {1}, 2)
TwoPickers  == Day({"wave", "confirm", "short", "cancel_batch"}, <<1, 1>>, 2, 0, 1, {1, 2}, 2)
Overlapping == Day({"wave", "confirm", "cancel_batch"}, <<1, 1>>, 2, 0, 2, {1}, 3)
Racing      == Day({"batch", "wave"}, <<1, 1>>, 2, 0, 2, {1, 2}, 2)
PickAndPack == Day({"batch", "confirm", "complete", "pack"}, <<2>>, 2, 0, 2, {1}, 2)
Abandoned   == Day({"batch", "wave", "confirm", "cancel_batch"}, <<1, 1>>, 2, 0, 2, {1}, 2)

\* one order through every door, from two bins
Outbounds   == Day({"batch", "confirm", "short", "complete", "pack", "fulfill", "dock"}, <<2>>, 1, 1, 1, {1}, 2)
ByHand      == Day({"admin_pick", "admin_ship", "dock", "edit_ship", "revert", "cancel"}, <<2>>, 4, 0, 1, {1}, 3)
ShortOrders == Day({"batch", "confirm", "short", "complete", "edit_ship", "revert"}, <<2>>, 2, 0, 1, {1}, 2)
Partly      == Day({"admin_pick", "partial", "dock", "edit_ship", "revert"}, <<2>>, 4, 0, 1, {1}, 3)

\* orders that change under the pickers
Changes     == Day({"create", "cancel", "admin_pick", "allocate"}, <<1>>, 2, 1, 1, {1}, 2)
Backorders  == Day({"partial", "batch", "confirm", "complete", "cancel", "create"}, <<2>>, 1, 0, 1, {1}, 3)
LineEdits   == Day({"line", "batch", "confirm", "cancel_batch"}, <<1>>, 2, 0, 1, {1}, 3)
Returns     == Day({"return", "void_return"}, <<2>>, 2, 0, 2, {1}, 2)
Undoing     == Day({"batch", "confirm", "status", "cancel", "revert", "cancel_batch"}, <<1, 1>>, 2, 0, 1, {1}, 2)

\* the till: sales over the counter and on the phone, refunds in parts
Counter     == Day({"counter", "refund", "revert", "cancel"}, <<>>, 3, 1, 1, {1}, 1)
Phone       == Day({"phone", "refund", "wave", "confirm", "complete", "edit_ship", "cancel"}, <<1>>, 2, 1, 1, {1}, 1)
PhoneShort  == Day({"phone", "refund", "batch", "confirm", "short", "complete", "edit_ship"}, <<>>, 2, 0, 1, {1}, 1)
Exchanges   == Day({"counter", "exchange", "return", "refund"}, <<>>, 2, 0, 1, {1}, 1)

\* a sale over the counter is taken back to be sent, at a dock station that repeats itself
SentOn      == Day({"counter", "revert", "dock"}, <<>>, 2, 0, 1, {1}, 1)

AllDays == {SentOn, Counter, Phone, PhoneShort, Exchanges, Waves, TwoPickers, Overlapping, Racing, PickAndPack, Abandoned, Outbounds, ByHand, ShortOrders,
            Partly, Changes, Backorders, LineEdits, Returns, Undoing}

Alike == Permutations(Requests)
=============================================================================
