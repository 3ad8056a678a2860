------------------------------- MODULE Stock -------------------------------
(***************************************************************************)
(* The inventory table of one warehouse and the functions every workflow   *)
(* moves stock with (api/services/inventory_service.py).                   *)
(*                                                                         *)
(* A row is (item, bin); lots are left out, and a row that was never       *)
(* inserted is a row of zeros (every reader sums or floors).  Bins are     *)
(* numbered in the order of pick_sequence, which is the order of           *)
(* inventory_id here.  The functions take the table and return it changed, *)
(* so that a handler that calls several of them is one step.               *)
(***************************************************************************)
EXTENDS Sums, Sequences, FiniteSetsExt

CONSTANTS
  Items,
  Bins,           \* numbers, in pick_sequence order
  Pickable,       \* the bins of type Pickable and PickableStaging
  ReceivingBin,   \* app_settings.default_receiving_bin
  NULL

ASSUME BinsAssumption ==
  /\ Pickable \subseteq Bins /\ Bins \subseteq Nat /\ ReceivingBin \in Bins
  /\ IsFiniteSet(Bins) /\ IsFiniteSet(Items)

VARIABLE inventory   \* inventory[i, b]: quantity_on_hand and quantity_allocated

Rows == Items \X Bins
InventoryType == [Rows -> [on_hand : Int, allocated : Int]]

Least(m, n)    == IF m < n THEN m ELSE n
AtLeast0(n)    == IF n < 0 THEN 0 ELSE n

Available(inv, i, b) == inv[<<i, b>>].on_hand - inv[<<i, b>>].allocated
OnHand(inv, i)       == SumOver(LAMBDA b : inv[<<i, b>>].on_hand, Bins)

\* what release_satisfiable_backorders and the pickers count as available
PickableStock(inv, i) == SumOver(LAMBDA b : AtLeast0(Available(inv, i, b)), Pickable)

-----------------------------------------------------------------------------
add_inventory(inv, i, b, q) == [inv EXCEPT ![<<i, b>>].on_hand = @ + q]

\* SET quantity_on_hand = GREATEST(0, quantity_on_hand - :q)
take_floored(inv, i, b, q) == [inv EXCEPT ![<<i, b>>].on_hand = AtLeast0(@ - q)]
release_floored(inv, i, b, q) == [inv EXCEPT ![<<i, b>>].allocated = AtLeast0(@ - q)]

\* move_inventory looks at the units on the shelf, reserved or not
CanMove(inv, i, from, q) == inv[<<i, from>>].on_hand >= q
move_inventory(inv, i, from, to, q) ==
  add_inventory([inv EXCEPT ![<<i, from>>].on_hand = @ - q], i, to, q)

-----------------------------------------------------------------------------
(***************************************************************************)
(* Walking the rows of an item in an order, taking up to cap[b] from each, *)
(* until need is met: what is taken from b is what the bins before it left.*)
(***************************************************************************)
Walk(cap, need, Before(_, _)) ==
  [b \in DOMAIN cap |->
     LET left == need - Total(cap, {c \in DOMAIN cap : c # b /\ Before(c, b)})
     IN  Least(cap[b], AtLeast0(left))]

\* ORDER BY inventory_id, FOR UPDATE: release need units wherever they are reserved
ReleaseWalk(inv, i, need) ==
  LET taken == Walk([b \in Bins |-> AtLeast0(inv[<<i, b>>].allocated)], need, LAMBDA c, b : c < b)
  IN  [r \in Rows |-> IF r[1] = i THEN [inv[r] EXCEPT !.allocated = @ - taken[r[2]]]
                                  ELSE inv[r]]

\* wrong variant: units on the shelf count as free
ReserveTakenOnHand(inv, i, need) ==
  Walk([b \in Bins |-> inv[<<i, b>>].on_hand], need, LAMBDA c, b : c < b)

\* ORDER BY available DESC, inventory_id, FOR UPDATE: reserve up to need units
ReserveTaken(inv, i, need) ==
  LET cap == [b \in Bins |-> AtLeast0(Available(inv, i, b))]
  IN  Walk(cap, need, LAMBDA c, b : cap[c] > cap[b] \/ (cap[c] = cap[b] /\ c < b))
ReserveWalk(inv, i, need) ==
  LET taken == ReserveTaken(inv, i, need)
  IN  [r \in Rows |-> IF r[1] = i THEN [inv[r] EXCEPT !.allocated = @ + taken[r[2]]]
                                  ELSE inv[r]]
Reserved(inv, i, need) == Total(ReserveTaken(inv, i, need), Bins)

=============================================================================
