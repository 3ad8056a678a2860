---------------------------- MODULE MCStockyard ----------------------------
(***************************************************************************)
(* Days at the inbound desks, small enough for TLC: which operations       *)
(* happen, the items handled, the order and the backorder that wait, what  *)
(* is on the shelf, the bins worked on, and how many requests are in       *)
(* flight at once.                                                         *)
(***************************************************************************)
EXTENDS Stockyard, TLC

CONSTANTS i1, i2, r1, r2, h1, h2

TwoItems == {i1, i2}

\* i1 in bins 2 and 3, i2 in bin 2
Shelf(a, b, c) == [r \in Rows |-> CASE r = <<i1, 2>> -> a [] r = <<i1, 3>> -> b
                                    [] r = <<i2, 2>> -> c [] OTHER -> 0]
Nothing == [i \in {} |-> 0]
Only(q) == [i \in {i1} |-> q]
Both(q) == [i \in {i1, i2} |-> q]

Day(ops, items, cart, waiting, shelf, docks, hands) ==
  [ops |-> ops, items |-> items, cart |-> cart, waiting |-> waiting, shelf |-> shelf,
   docks |-> docks, hands |-> hands]

\* purchase orders: two handhelds and the desk strike receipts; lines are edited
Strikes   == Day({"order", "receive", "unreceive", "cancel_receiving", "move"}, {i1}, Nothing, Nothing, Shelf(0, 0, 0), {1}, 2)
OneByOne  == Day({"order", "receive", "cancel_receiving", "move"}, {i1}, Nothing, Nothing, Shelf(0, 0, 0), {1}, 1)
POEdits   == Day({"order", "receive", "close", "edit", "unreceive"}, {i1}, Nothing, Nothing, Shelf(0, 0, 0), {1}, 1)

\* an order, and a backorder that waits for stock, of two items on one of the days
Arrivals  == Day({"order", "receive", "adjust"}, {i1}, Only(1), Only(2), Shelf(1, 0, 0), {1, 2}, 1)
Overlap   == Day({"order", "receive", "adjust"}, {i1}, Only(1), Only(2), Shelf(1, 0, 0), {2, 3}, 2)
Together  == Day({"adjust", "sell"}, {i1, i2}, Only(1), Both(1), Shelf(1, 0, 0), {2}, 1)
Between   == Day({"transfer"}, {i1}, Only(1), Only(2), Shelf(1, 1, 0), {1}, 1)
Recounted == Day({"count", "adjust"}, {i1}, Only(1), Only(1), Shelf(1, 0, 0), {2}, 1)
Counting  == Day({"count", "move"}, {i1}, Nothing, Nothing, Shelf(1, 0, 0), {2}, 2)
Selling   == Day({"sell", "partial", "cancel", "adjust"}, {i1}, Only(2), Nothing, Shelf(1, 0, 0), {2}, 1)

\* transfer orders
Transferred == Day({"import", "to_pick", "submit", "short_close"}, {i1}, Nothing, Nothing, Shelf(1, 1, 1), {1}, 1)
TwoLines    == Day({"import", "to_pick", "submit", "short_close"}, {i1, i2}, Nothing, Nothing, Shelf(1, 0, 1), {1}, 1)
PickedShort == Day({"import", "to_pick", "to_short"}, {i1}, Nothing, Nothing, Shelf(1, 0, 0), {1}, 1)
PickedTwice == Day({"import", "to_pick"}, {i1}, Nothing, Nothing, Shelf(2, 0, 0), {1}, 1)

\* posts of an upstream system: a sales order that is picked meanwhile, a purchase
\* order that is received meanwhile, and quantities of a bin a backorder waits for
Feed        == Day({"feed", "wave", "confirm", "cancel"}, {i1}, Nothing, Nothing, Shelf(2, 0, 0), {1}, 1)
FeedPO      == Day({"feed_po", "receive", "unreceive"}, {i1}, Nothing, Nothing, Shelf(0, 0, 0), {1}, 1)
Sync        == Day({"sync", "adjust"}, {i1}, Only(1), Only(2), Shelf(1, 0, 0), {2, 3}, 1)

AllDays == {Strikes, OneByOne, POEdits, Arrivals, Overlap, Together, Between, Recounted, Counting, Selling,
            Transferred, TwoLines, PickedShort, PickedTwice, Feed, FeedPO, Sync}

Alike == Permutations(Requests) \cup Permutations(Handhelds)
=============================================================================
