-------------------------- MODULE WarehouseProofs --------------------------
(***************************************************************************)
(* Theorems about Warehouse for every set of days, orders, batches, dock   *)
(* keys, tills and requests: shipments of a dock station, waves of an      *)
(* order, the reservations of its tasks, refunds of a sale, and what an    *)
(* order has shipped when it leaves.                                       *)
(***************************************************************************)
EXTENDS Warehouse, RowFacts, FiniteSetTheorems, SequenceTheorems, WellFoundedInduction, TLAPS

-----------------------------------------------------------------------------
(***************************************************************************)
(* Dock stations: a key with a shipment is answered, and has one shipment. *)
(***************************************************************************)
ShipmentRow(P) == [live : BOOLEAN, pre : P, key : DockKeys \cup {NULL}]
ShipmentRows == \E P : shipment \in [Orders -> Seq(ShipmentRow(P))]

Keyed(o, n, k) == n \in DOMAIN shipment[o] /\ shipment[o][n].key = k
KeyedIsAnswered == \A k \in DockKeys, o \in Orders, n \in Nat : Keyed(o, n, k) => dockd[k] # NULL
KeyedOnce ==
  \A k \in DockKeys, o, p \in Orders, n, m \in Nat :
    Keyed(o, n, k) /\ Keyed(p, m, k) => o = p /\ n = m

DockInv == ShipmentRows /\ DOMAIN dockd = DockKeys /\ KeyedIsAnswered /\ KeyedOnce

LEMMA DockInvInit == Init => DockInv
  BY DEF Init, DockInv, ShipmentRows, ShipmentRow, Keyed, KeyedIsAnswered, KeyedOnce

\* record_ship appends; with a key of its own only when the key has no answer yet, and
\* the key is answered in the same step
Appended(o, pre, key) ==
  shipment' = [shipment EXCEPT ![o] = Append(@, [live |-> TRUE, pre |-> pre, key |-> key])]

LEMMA AppendKeys ==
  ASSUME ShipmentRows, NEW o \in Orders, NEW pre, NEW key \in DockKeys \cup {NULL},
         Appended(o, pre, key)
  PROVE  /\ ShipmentRows'
         /\ \A p \in Orders, n \in Nat, k \in DockKeys :
              Keyed(p, n, k)' <=> Keyed(p, n, k) \/ (p = o /\ n = Len(shipment[o]) + 1 /\ k = key)
<1>1. PICK P : shipment \in [Orders -> Seq(ShipmentRow(P))]
  BY DEF ShipmentRows
<1> DEFINE Q == P \cup {pre}
           row == [live |-> TRUE, pre |-> pre, key |-> key]
<1>2. row \in ShipmentRow(Q) /\ ShipmentRow(P) \subseteq ShipmentRow(Q)
  BY DEF ShipmentRow
<1>3. shipment \in [Orders -> Seq(ShipmentRow(Q))]
  BY <1>1, <1>2, SeqMonotonic
<1> HIDE DEF Q, row
<1>4. /\ Append(shipment[o], row) \in Seq(ShipmentRow(Q))
      /\ Len(Append(shipment[o], row)) = Len(shipment[o]) + 1
      /\ \A i \in 1 .. Len(shipment[o]) : Append(shipment[o], row)[i] = shipment[o][i]
      /\ Append(shipment[o], row)[Len(shipment[o]) + 1] = row
  <2>1. shipment[o] \in Seq(ShipmentRow(Q))
    BY <1>3
  <2> QED BY <1>2, <2>1, AppendProperties
<1>5. shipment' = [shipment EXCEPT ![o] = Append(shipment[o], row)]
  BY DEF Appended, row
<1>6. shipment' \in [Orders -> Seq(ShipmentRow(Q))]
  BY <1>3, <1>4, <1>5
<1>7. ShipmentRows'
  BY <1>6 DEF ShipmentRows, ShipmentRow
<1>8. ASSUME NEW p \in Orders, NEW n \in Nat, NEW k \in DockKeys
      PROVE  Keyed(p, n, k)' <=> Keyed(p, n, k) \/ (p = o /\ n = Len(shipment[o]) + 1 /\ k = key)
  <2>1. CASE p # o
    BY <2>1, <1>3, <1>5 DEF Keyed
  <2>2. CASE p = o
    <3>1. /\ Len(shipment[o]) \in Nat
          /\ DOMAIN shipment[o] = 1 .. Len(shipment[o])
          /\ DOMAIN Append(shipment[o], row) = 1 .. Len(shipment[o]) + 1
      BY <1>3, <1>4, LenProperties
    <3>2. shipment'[o] = Append(shipment[o], row)
      BY <1>3, <1>5
    <3>3. CASE n = Len(shipment[o]) + 1
      BY <2>2, <3>1, <3>2, <3>3, <1>4 DEF Keyed, row
    <3>4. CASE n # Len(shipment[o]) + 1
      BY <2>2, <3>1, <3>2, <3>4, <1>4 DEF Keyed
    <3> QED BY <3>3, <3>4
  <2> QED BY <2>1, <2>2
<1> QED BY <1>7, <1>8

\* no key is added, and what a key had answered stays answered
LEMMA KeysKept ==
  ASSUME DockInv, ShipmentRows', DOMAIN dockd' = DockKeys,
         \A p \in Orders, n \in Nat, k \in DockKeys : Keyed(p, n, k)' => Keyed(p, n, k),
         \A k \in DockKeys : dockd[k] # NULL => dockd'[k] # NULL
  PROVE  DockInv'
  BY DEF DockInv, KeyedIsAnswered, KeyedOnce

LEMMA AppendUnkeyed ==
  ASSUME DockInv, NEW o \in Orders, NEW pre, Appended(o, pre, NULL), UNCHANGED dockd
  PROVE  DockInv'
<1>1. ShipmentRows' /\ \A p \in Orders, n \in Nat, k \in DockKeys : Keyed(p, n, k)' => Keyed(p, n, k)
  BY AppendKeys, DockAssumption DEF DockInv
<1> QED BY <1>1, KeysKept DEF DockInv

LEMMA AppendKeyed ==
  ASSUME DockInv, NEW o \in Orders, NEW pre, NEW k \in DockKeys, Appended(o, pre, k),
         NotAnswered(k), dockd' = Answered(k, "ship", o)
  PROVE  DockInv'
<1>1. /\ ShipmentRows'
      /\ \A p \in Orders, n \in Nat, j \in DockKeys :
           Keyed(p, n, j)' <=> Keyed(p, n, j) \/ (p = o /\ n = Len(shipment[o]) + 1 /\ j = k)
  BY AppendKeys DEF DockInv
<1>2. /\ DOMAIN dockd' = DockKeys
      /\ \A j \in DockKeys : dockd[j] # NULL \/ j = k => dockd'[j] # NULL
  BY DockAssumption DEF DockInv, Answered
<1>3. \A p \in Orders, n \in Nat : ~Keyed(p, n, k)
  BY DEF DockInv, KeyedIsAnswered, NotAnswered
<1>4. KeyedIsAnswered'
  BY <1>1, <1>2 DEF DockInv, KeyedIsAnswered
<1>5. KeyedOnce'
  BY <1>1, <1>3 DEF DockInv, KeyedOnce
<1> QED BY <1>1, <1>2, <1>4, <1>5 DEF DockInv

\* record_void_ship turns a row off and keeps its key
LEMMA VoidKeys ==
  ASSUME DockInv, NEW o \in Orders, NEW n \in DOMAIN shipment[o],
         shipment' = [shipment EXCEPT ![o][n].live = FALSE],
         NEW k \in DockKeys, dockd' = Answered(k, "void", o)
  PROVE  DockInv'
<1>1. PICK P : shipment \in [Orders -> Seq(ShipmentRow(P))]
  BY DEF DockInv, ShipmentRows
<1>2. /\ shipment[o] \in Seq(ShipmentRow(P))
      /\ DOMAIN shipment[o] = 1 .. Len(shipment[o])
      /\ shipment[o][n] \in ShipmentRow(P)
  BY <1>1, ElementOfSeq, LenProperties
<1> DEFINE off == [shipment[o][n] EXCEPT !.live = FALSE]
<1>3. off \in ShipmentRow(P) /\ off.key = shipment[o][n].key
  BY <1>2 DEF ShipmentRow
<1> HIDE DEF off
<1>4. [shipment[o] EXCEPT ![n] = off] \in Seq(ShipmentRow(P))
  BY <1>2, <1>3, ExceptSeq
<1>5. shipment' = [shipment EXCEPT ![o] = [shipment[o] EXCEPT ![n] = off]]
  BY DEF off
<1>6. shipment' \in [Orders -> Seq(ShipmentRow(P))]
  BY <1>1, <1>4, <1>5
<1>7. ShipmentRows'
  BY <1>6 DEF ShipmentRows, ShipmentRow
<1>8. \A p \in Orders, m \in Nat, j \in DockKeys : Keyed(p, m, j)' => Keyed(p, m, j)
  BY <1>1, <1>2, <1>3, <1>5 DEF Keyed
<1>9. /\ DOMAIN dockd' = DockKeys
      /\ \A j \in DockKeys : dockd[j] # NULL => dockd'[j] # NULL
  BY DockAssumption DEF DockInv, Answered
<1> QED BY <1>7, <1>8, <1>9, KeysKept

LEMMA DockUnchanged == DockInv /\ UNCHANGED <<shipment, dockd>> => DockInv'
  BY DEF DockInv, ShipmentRows, ShipmentRow, Keyed, KeyedIsAnswered, KeyedOnce

LEMMA DockInvNext == DockInv /\ [Next]_vars => DockInv'
<1> SUFFICES ASSUME DockInv, [Next]_vars PROVE DockInv'
  OBVIOUS
<1>1. CASE PickWork /\ ShippingUnchanged
  BY <1>1, DockUnchanged DEF ShippingUnchanged
<1>2. CASE (OrderDesk \/ ReturnsDesk \/ Till) /\ ShippingUnchanged
  BY <1>2, DockUnchanged DEF ShippingUnchanged
<1>3. CASE ShippingDesk
  <2>1. ASSUME NEW r \in Requests, NEW l \in Lines, NEW q \in Quantities, BeginVerify(r, l, q)
        PROVE  DockInv'
    BY <2>1, DockUnchanged DEF BeginVerify
  <2>2. ASSUME NEW r \in Requests, FinishVerify(r) PROVE DockInv'
    BY <2>2, DockUnchanged DEF FinishVerify
  <2>3. ASSUME NEW o \in Born, complete_packing(o) PROVE DockInv'
    BY <2>3, DockUnchanged DEF complete_packing
  <2>4. Born \subseteq Orders
    BY DEF Born
  <2>5. ASSUME NEW o \in Born, fulfill(o) PROVE DockInv'
    BY <2>4, <2>5, AppendUnkeyed DEF fulfill, record_ship, Appended
  <2>6. ASSUME NEW o \in Born, edit_to_shipped(o) PROVE DockInv'
    BY <2>4, <2>6, AppendUnkeyed DEF edit_to_shipped, record_ship, Appended
  <2>7. ASSUME NEW o \in Born, NEW acknowledged \in BOOLEAN, record_admin_ship(o, acknowledged)
        PROVE  DockInv'
    BY <2>4, <2>7, AppendUnkeyed DEF record_admin_ship, Appended
  <2>8. ASSUME NEW o \in Born, NEW k \in DockKeys, ship_order(k, o) PROVE DockInv'
    BY <2>4, <2>8, AppendKeyed DEF ship_order, record_ship, Appended
  <2>9. ASSUME NEW o \in Born, NEW k \in DockKeys, void_ship(k, o) PROVE DockInv'
    <3> DEFINE n == Max(LiveShipments(o))
    <3>1. PICK P : shipment \in [Orders -> Seq(ShipmentRow(P))]
      BY DEF DockInv, ShipmentRows
    <3>2. Len(shipment[o]) \in Nat /\ DOMAIN shipment[o] = 1 .. Len(shipment[o])
      BY <2>4, <3>1, LenProperties
    <3>3. LiveShipments(o) \subseteq DOMAIN shipment[o]
      BY DEF LiveShipments
    <3>4. LiveShipments(o) # {} /\ record_void_ship(o, n)
      BY <2>9 DEF void_ship
    <3>5. n \in DOMAIN shipment[o]
      BY <3>2, <3>3, <3>4, MaxOfRows
    <3> HIDE DEF n
    <3> QED BY <2>4, <2>9, <3>4, <3>5, VoidKeys DEF void_ship, record_void_ship
  <2> QED BY <1>3, <2>1, <2>2, <2>3, <2>5, <2>6, <2>7, <2>8, <2>9 DEF ShippingDesk
<1>4. CASE UNCHANGED vars
  BY <1>4, DockUnchanged DEF vars
<1> QED BY <1>1, <1>2, <1>3, <1>4 DEF Next

\* at most one pair of order and row has the key
LEMMA DockInvShipsOnce == DockInv => DockdShipsOnce
<1> SUFFICES ASSUME DockInv, NEW k \in DockKeys
             PROVE  Cardinality({x \in Orders \X (1 .. MaxShipments) :
                       x[2] \in DOMAIN shipment[x[1]] /\ shipment[x[1]][x[2]].key = k}) <= 1
  BY DEF DockdShipsOnce
<1> DEFINE S == {x \in Orders \X (1 .. MaxShipments) :
                   x[2] \in DOMAIN shipment[x[1]] /\ shipment[x[1]][x[2]].key = k}
<1>1. \A x, y \in S : x = y
  BY DockAssumption DEF DockInv, KeyedOnce, Keyed
<1>2. S = {} \/ \E x : S = {x}
  BY <1>1
<1> HIDE DEF S
<1>3. Cardinality(S) \in {0, 1}
  BY <1>2, FS_EmptySet, FS_Singleton
<1> QED BY <1>3 DEF S

\* dockd_idempotency: a request that a dock station repeats, whatever happened to the
\* order since, never makes a second shipment with its key.
THEOREM ShipsOnce == Spec => []DockdShipsOnce
<1>1. Init => DockInv
  BY DockInvInit
<1>2. DockInv /\ [Next]_vars => DockInv'
  BY DockInvNext
<1>3. DockInv => DockdShipsOnce
  BY DockInvShipsOnce
<1> QED BY <1>1, <1>2, <1>3, PTL DEF Spec

-----------------------------------------------------------------------------
(***************************************************************************)
(* Waves: only the creation of a batch opens one, for lines no open batch  *)
(* and no planned wave takes units for; every other step closes batches or *)
(* takes orders out of them, and leaves the shares of the tasks alone.     *)
(***************************************************************************)
Session(db) == DOMAIN db = {"inv", "order", "line", "batch", "task"}
BatchTable(bt) == DOMAIN bt = Batches /\ \A b \in Batches : DOMAIN bt[b] = {"status", "by", "orders"}
Shareable(tk) == \A t \in tk : {"batch", "item", "share"} \subseteq DOMAIN t

\* batch b is open, has the order o, and a task of it takes item i for o
Walks(bt, tk, b, o, i) ==
  /\ bt[b].status = "OPEN" /\ o \in bt[b].orders
  /\ \E t \in tk : t.batch = b /\ t.item = i /\ o \in DOMAIN t.share

WalkedOnce(bt, tk) ==
  \A o \in Orders, i \in Items, b, c \in Batches : Walks(bt, tk, b, o, i) /\ Walks(bt, tk, c, o, i) => b = c

\* a batch that was never created has no task with shares
NoneBefore(bt, tk) ==
  \A t \in tk : DOMAIN t.share # {} => t.batch \in Batches /\ bt[t.batch].status # "NONE"

Narrows(old, new) ==
  /\ BatchTable(new)
  /\ \A b \in Batches : new[b].status = "OPEN" =>
       old[b].status = "OPEN" /\ new[b].orders \subseteq old[b].orders
  /\ \A b \in Batches : old[b].status # "NONE" => new[b].status # "NONE"

Thins(old, new) ==
  Shareable(old) =>
    /\ Shareable(new)
    /\ \A t \in new : \/ DOMAIN t.share = {}
                      \/ \E s \in old : s.batch = t.batch /\ s.item = t.item /\ s.share = t.share

\* a step that works on the tables and leaves the batches as they are, or narrows them
Keeps(db, new)   == Session(new) /\ new.batch = db.batch /\ Thins(db.task, new.task)
Narrowed(db, new) == Session(new) /\ Narrows(db.batch, new.batch) /\ Thins(db.task, new.task)
Narrowing == Narrows(batch, batch') /\ Thins(task, task')

LEMMA NarrowWalks ==
  ASSUME NEW bt, NEW tk, NEW bt2, NEW tk2, Narrows(bt, bt2), Thins(tk, tk2), Shareable(tk)
  PROVE  /\ \A b \in Batches : \A o, i : Walks(bt2, tk2, b, o, i) => Walks(bt, tk, b, o, i)
         /\ NoneBefore(bt, tk) => NoneBefore(bt2, tk2)
         /\ WalkedOnce(bt, tk) => WalkedOnce(bt2, tk2)
         /\ BatchTable(bt2) /\ Shareable(tk2)
<1>1. \A b \in Batches : \A o, i : Walks(bt2, tk2, b, o, i) => Walks(bt, tk, b, o, i)
  <2> SUFFICES ASSUME NEW b \in Batches, NEW o, NEW i, Walks(bt2, tk2, b, o, i)
               PROVE  Walks(bt, tk, b, o, i)
    OBVIOUS
  <2>1. bt[b].status = "OPEN" /\ o \in bt[b].orders
    BY DEF Walks, Narrows
  <2>2. PICK t \in tk2 : t.batch = b /\ t.item = i /\ o \in DOMAIN t.share
    BY DEF Walks
  <2>3. PICK s \in tk : s.batch = t.batch /\ s.item = t.item /\ s.share = t.share
    BY <2>2 DEF Thins
  <2> QED BY <2>1, <2>2, <2>3 DEF Walks
<1>2. NoneBefore(bt, tk) => NoneBefore(bt2, tk2)
  BY DEF NoneBefore, Thins, Narrows
<1>3. WalkedOnce(bt, tk) => WalkedOnce(bt2, tk2)
  BY <1>1 DEF WalkedOnce
<1> QED BY <1>1, <1>2, <1>3 DEF Narrows, Thins

LEMMA SameNarrows == \A bt : BatchTable(bt) => Narrows(bt, bt)
  BY DEF Narrows

LEMMA SameThins == \A tk : Thins(tk, tk)
  BY DEF Thins

LEMMA FewerThins == \A tk, tk2 : tk2 \subseteq tk => Thins(tk, tk2)
  BY DEF Thins, Shareable

LEMMA NarrowTwice ==
  ASSUME NEW a, NEW b, NEW c, Narrows(a, b), Narrows(b, c)
  PROVE  Narrows(a, c)
  BY DEF Narrows

LEMMA ThinTwice ==
  ASSUME NEW a, NEW b, NEW c, Thins(a, b), Thins(b, c)
  PROVE  Thins(a, c)
  BY DEF Thins

LEMMA DbIsSession == Session(Db) /\ Db.batch = batch /\ Db.task = task
  BY DEF Session, Db

LEMMA CommitBatch == \A new : Commit(new) => batch' = new.batch /\ task' = new.task
  BY DEF Commit

-----------------------------------------------------------------------------
(* What each service function does to the batches *)

LEMMA NormaliseKeeps ==
  ASSUME NEW db, Session(db), NEW standing
  PROVE  Keeps(db, _normalize_so_reservations(db, standing))
  BY SameThins DEF Keeps, Session, _normalize_so_reservations, SumOver

\* a task that is written keeps its batch, its item and its shares
LEMMA WriteThins ==
  ASSUME NEW db, NEW t, NEW new
  PROVE  Thins(db.task, WriteTask(db, t, new))
<1> SUFFICES ASSUME Shareable(db.task), NEW x \in WriteTask(db, t, new)
             PROVE  /\ {"batch", "item", "share"} \subseteq DOMAIN x
                    /\ \E s \in db.task : s.batch = x.batch /\ s.item = x.item /\ s.share = x.share
  BY DEF Thins, Shareable
<1>1. PICK s \in db.task : x = IF s.id = t.id THEN [s EXCEPT !.status = new.status, !.picked = new.picked,
                                                   !.shorted = @ \cup new.shorted]
                              ELSE s
  BY DEF WriteTask
<1>2. {"batch", "item", "share"} \subseteq DOMAIN s
  BY DEF Shareable
<1> QED BY <1>1, <1>2

LEMMA PicksKeep ==
  ASSUME NEW db, Session(db), NEW t, NEW q
  PROVE  Keeps(db, confirm_pick(db, t, q)) /\ Keeps(db, short_pick(db, t, q))
<1>1. Keeps(db, confirm_pick(db, t, q))
  BY WriteThins DEF Keeps, Session, confirm_pick
<1>2. Keeps(db, short_pick(db, t, q))
  BY WriteThins DEF Keeps, Session, short_pick
<1> QED BY <1>1, <1>2

LEMMA RevertNarrows ==
  ASSUME NEW db, Session(db), BatchTable(db.batch), NEW B
  PROVE  Narrowed(db, full_revert_batch(db, B))
<1> DEFINE new == full_revert_batch(db, B)
<1>1. Session(new)
  BY DEF Session, full_revert_batch
<1>2. Narrows(db.batch, new.batch)
  BY DEF Narrows, BatchTable, Session, full_revert_batch
<1>3. PICK T : new.task = {IF t \in T THEN Undone(t) ELSE t : t \in db.task}
  BY DEF full_revert_batch, Session
<1> HIDE DEF new
<1>4. Thins(db.task, new.task)
  BY <1>3 DEF Thins, Shareable, Undone
<1> QED BY <1>1, <1>2, <1>4 DEF Narrowed, new

LEMMA UnwindNarrows ==
  ASSUME NEW db, Session(db), BatchTable(db.batch), NEW o
  PROVE  /\ Narrowed(db, _unwind_allocated(db, o))
         /\ Narrowed(db, _unwind_picked_or_packed(db, o))
<1>1. /\ Session(_unwind_allocated(db, o))
      /\ Narrows(db.batch, _unwind_allocated(db, o).batch)
      /\ _unwind_allocated(db, o).task \subseteq db.task
  BY DEF Narrows, BatchTable, Session, _unwind_allocated
<1>2. /\ Session(_unwind_picked_or_packed(db, o))
      /\ Narrows(db.batch, _unwind_picked_or_packed(db, o).batch)
      /\ _unwind_picked_or_packed(db, o).task \subseteq db.task
  BY DEF Narrows, BatchTable, Session, _unwind_picked_or_packed
<1> QED BY <1>1, <1>2, FewerThins DEF Narrowed

LEMMA CancelOneNarrows ==
  ASSUME NEW db, Session(db), BatchTable(db.batch), NEW o
  PROVE  Narrowed(db, CancelOne(db, o))
<1> DEFINE unwound == CASE db.order[o].status = "OPEN"                -> _unwind_allocated(db, o)
                        [] db.order[o].status \in {"PICKED", "PACKED"} -> _unwind_picked_or_packed(db, o)
                        [] OTHER                                      -> db
<1>1. Narrowed(db, unwound)
  BY UnwindNarrows, SameNarrows, SameThins DEF Narrowed
<1>2. CancelOne(db, o) = [unwound EXCEPT !.order[o].status = "CANCELLED"]
  BY DEF CancelOne
<1> HIDE DEF unwound
<1>3. /\ Session(CancelOne(db, o)) /\ CancelOne(db, o).batch = unwound.batch
      /\ CancelOne(db, o).task = unwound.task
  BY <1>1, <1>2 DEF Narrowed, Session
<1> QED BY <1>1, <1>3 DEF Narrowed

LEMMA CancelledNarrows ==
  ASSUME NEW db, Session(db), BatchTable(db.batch), NEW o
  PROVE  Narrowed(db, Cancelled(db, o))
<1> DEFINE parent == CancelOne(db, o)
           c == Min(BackordersOf(parent, o))
<1>1. Narrowed(db, parent)
  BY CancelOneNarrows
<1>2. Session(parent) /\ BatchTable(parent.batch)
  BY <1>1 DEF Narrowed, Narrows
<1>3. Narrowed(parent, CancelOne(parent, c))
  <2> HIDE DEF parent, c
  <2> QED BY <1>2, CancelOneNarrows
<1>4. Narrowed(db, CancelOne(parent, c))
  <2> HIDE DEF parent, c
  <2> QED BY <1>1, <1>3, NarrowTwice, ThinTwice DEF Narrowed
<1>5. Cancelled(db, o) = parent \/ Cancelled(db, o) = CancelOne(parent, c)
  BY DEF Cancelled
<1> QED BY <1>1, <1>4, <1>5

LEMMA EntryKeeps ==
  ASSUME NEW db, Session(db), NEW o, NEW cart
  PROVE  Keeps(db, Entered(db, o, cart))
  BY SameThins DEF Keeps, Session, Entered

LEMMA ReleaseKeeps ==
  ASSUME NEW db, Session(db), NEW T
  PROVE  Keeps(db, ReleasePicks(db, T))
<1> DEFINE new == ReleasePicks(db, T)
<1>1. /\ Session(new) /\ new.batch = db.batch
      /\ new.task = {IF t \in T THEN [t EXCEPT !.status = "RELEASED"] ELSE t : t \in db.task}
  BY DEF Session, ReleasePicks
<1> HIDE DEF new
<1>2. Thins(db.task, new.task)
  BY <1>1 DEF Thins, Shareable
<1> QED BY <1>1, <1>2 DEF Keeps, new

LEMMA OrphanThins ==
  ASSUME NEW tk, NEW l
  PROVE  Thins(tk, {Orphaned(t, l) : t \in tk})
<1> SUFFICES ASSUME Shareable(tk), NEW s \in tk
             PROVE  /\ {"batch", "item", "share"} \subseteq DOMAIN Orphaned(s, l)
                    /\ Orphaned(s, l).batch = s.batch /\ Orphaned(s, l).item = s.item
                    /\ Orphaned(s, l).share = s.share
  BY DEF Thins, Shareable
<1>1. {"batch", "item", "share"} \subseteq DOMAIN s
  BY DEF Shareable
<1> QED BY <1>1 DEF Orphaned

LEMMA LineEditsKeep ==
  ASSUME NEW db, Session(db), NEW l
  PROVE  Keeps(db, DeleteLine(db, l)) /\ Keeps(db, _release_so_line_allocation(db, l))
<1>1. Keeps(db, DeleteLine(db, l))
  BY OrphanThins DEF Keeps, Session, DeleteLine
<1>2. /\ Session(_release_so_line_allocation(db, l))
      /\ _release_so_line_allocation(db, l).batch = db.batch
      /\ _release_so_line_allocation(db, l).task \subseteq db.task
  BY DEF Session, _release_so_line_allocation
<1> QED BY <1>1, <1>2, FewerThins DEF Keeps

LEMMA BackorderKeeps ==
  ASSUME NEW db, Session(db), NEW l, NEW short, NEW bo
  PROVE  Keeps(db, WithBackorderFor(db, l, short, bo))
  BY SameThins DEF Keeps, Session, WithBackorderFor

LEMMA AdminPickNarrows ==
  ASSUME NEW db, Session(db), BatchTable(db.batch), NEW l, NEW bin, NEW q, NEW b \in Batches, NEW u, NEW o
  PROVE  Narrowed(db, maybe_promote_so_to_picked(record_admin_pick(db, l, bin, q, b, u), o))
<1> DEFINE pick == [NewTask(b, l[1], l[2], bin, q, NoShare) EXCEPT !.status = "PICKED", !.picked = q]
           new == record_admin_pick(db, l, bin, q, b, u)
<1>1. Session(new) /\ Narrows(db.batch, new.batch) /\ new.task = db.task \cup {pick}
  BY DEF Narrows, BatchTable, Session, record_admin_pick
<1>2. {"batch", "item", "share"} \subseteq DOMAIN pick /\ DOMAIN pick.share = {}
  BY DEF NewTask, NoShare
<1> HIDE DEF pick, new
<1>3. Thins(db.task, new.task)
  BY <1>1, <1>2 DEF Thins, Shareable
<1>4. /\ Session(maybe_promote_so_to_picked(new, o))
      /\ maybe_promote_so_to_picked(new, o).batch = new.batch
      /\ maybe_promote_so_to_picked(new, o).task = new.task
  BY <1>1 DEF Session, maybe_promote_so_to_picked
<1> QED BY <1>1, <1>3, <1>4 DEF Narrowed, new

-----------------------------------------------------------------------------
(* The steps *)

\* without the operation "batch" no request creates a batch that is not a wave, and a
\* wave takes units for its own orders
LinesOf(O) == {l \in Lines : l[1] \in O}
OwnNeeds(m) == m.op = "wave" => (m.planned \/ m.needs # NULL => DOMAIN m.needs \subseteq LinesOf(m.orders))
Asks == DOMAIN request = Requests /\ \A r \in Requests : request[r].op # "batch" /\ OwnNeeds(request[r])

\* planned waves hold different items, and no open batch takes units for their lines
PlansApart == \A r, s \in Requests : Planning(r) /\ Planning(s) /\ r # s =>
                ItemsOf(Db, request[r]) \cap ItemsOf(Db, request[s]) = {}
PlansFree == \A r \in Requests : Planning(r) =>
               \A l \in DOMAIN request[r].needs, b \in Batches : ~Walks(batch, task, b, l[1], l[2])

WaveInv == /\ BatchTable(batch) /\ Shareable(task) /\ NoneBefore(batch, task) /\ WalkedOnce(batch, task)
           /\ Asks /\ PlansApart /\ PlansFree

\* what every step but PlanWave does to the requests: no wave becomes a planned one
AsksOn == Asks' /\ \A r \in Requests : Planning(r)' => Planning(r) /\ request'[r] = request[r]

\* a planned wave holds what it has read, whatever the tables say
LEMMA PlannedItems ==
  \A db, m : m.planned => ItemsOf(db, m) = {l[2] : l \in DOMAIN m.standing \cup DOMAIN m.needs}
  BY DEF ItemsOf, PlannedNeeds

LEMMA AskStep ==
  ASSUME Asks, NEW r \in Requests, NEW x, x.op # "batch", OwnNeeds(x), x.op = "wave" => ~x.planned,
         request' = [request EXCEPT ![r] = x]
  PROVE  AsksOn
<1>1. request'[r] = x /\ \A s \in Requests \ {r} : request'[s] = request[s]
  BY DEF Asks
<1>2. Asks'
  BY <1>1 DEF Asks, OwnNeeds
<1> QED BY <1>1, <1>2 DEF AsksOn, Planning

LEMMA OtherAsk ==
  ASSUME Asks, NEW r \in Requests, NEW x, x.op \notin {"batch", "wave"},
         request' = [request EXCEPT ![r] = x]
  PROVE  AsksOn
  BY AskStep DEF OwnNeeds

LEMMA IdleAsks ==
  ASSUME Asks, NEW r \in Requests, request' = [request EXCEPT ![r] = Idle]
  PROVE  AsksOn
  BY OtherAsk DEF Idle

LEMMA SameAsks == Asks /\ UNCHANGED request => AsksOn
  BY DEF Asks, AsksOn, OwnNeeds, Planning

LEMMA PlansKept ==
  ASSUME PlansApart, AsksOn
  PROVE  PlansApart'
<1> SUFFICES ASSUME NEW r \in Requests, NEW s \in Requests, Planning(r)', Planning(s)', r # s
             PROVE  ItemsOf(Db, request[r])' \cap ItemsOf(Db, request[s])' = {}
  BY DEF PlansApart
<1>1. /\ Planning(r) /\ Planning(s) /\ request'[r] = request[r] /\ request'[s] = request[s]
  BY DEF AsksOn
<1>2. ItemsOf(Db, request[r]) \cap ItemsOf(Db, request[s]) = {}
  BY <1>1 DEF PlansApart
<1>3. request[r].planned /\ request[s].planned
  BY <1>1 DEF Planning
<1>4. /\ ItemsOf(Db', request'[r]) = ItemsOf(Db, request[r])
      /\ ItemsOf(Db', request'[s]) = ItemsOf(Db, request[s])
  BY <1>1, <1>3, PlannedItems
<1> QED BY <1>2, <1>4

LEMMA NarrowStep ==
  ASSUME WaveInv, Narrowing, AsksOn
  PROVE  WaveInv'
<1>1. /\ \A b \in Batches : \A o, i : Walks(batch', task', b, o, i) => Walks(batch, task, b, o, i)
      /\ NoneBefore(batch', task') /\ WalkedOnce(batch', task') /\ BatchTable(batch') /\ Shareable(task')
  BY NarrowWalks DEF WaveInv, Narrowing
<1>2. PlansFree'
  BY <1>1 DEF PlansFree, AsksOn, WaveInv
<1>3. PlansApart'
  BY PlansKept DEF WaveInv
<1> QED BY <1>1, <1>2, <1>3 DEF WaveInv, AsksOn

LEMMA StillBatches ==
  ASSUME WaveInv, UNCHANGED <<batch, task>>
  PROVE  Narrowing
  BY SameNarrows, SameThins DEF WaveInv, Narrowing

LEMMA CommitNarrows ==
  ASSUME NEW new, Narrowed(Db, new), Commit(new)
  PROVE  Narrowing
  BY DbIsSession, CommitBatch DEF Narrowed, Narrowing

LEMMA CommitKeeps ==
  ASSUME WaveInv, NEW new, Keeps(Db, new), Commit(new)
  PROVE  Narrowing
  BY DbIsSession, CommitBatch, SameNarrows DEF Keeps, WaveInv, Narrowing

LEMMA OrderDeskNarrows ==
  ASSUME WaveInv, OrderDesk
  PROVE  Narrowing /\ UNCHANGED request
<1>1. Session(Db) /\ BatchTable(Db.batch)
  BY DbIsSession DEF WaveInv
<1>2. ASSUME NEW o, NEW cart, create_sales_order(o, cart)
      PROVE  Narrowing /\ UNCHANGED request
  BY <1>1, <1>2, EntryKeeps, CommitKeeps DEF create_sales_order
<1>3. ASSUME NEW l, NEW d, adjust_sales_order_line_allocation(l, d)
      PROVE  Narrowing /\ UNCHANGED request
  BY <1>3, StillBatches DEF adjust_sales_order_line_allocation
<1>4. ASSUME NEW o, NEW status, update_sales_order(o, status) \/ push_sales_order_to_queue(o)
      PROVE  Narrowing /\ UNCHANGED request
  BY <1>4, StillBatches DEF update_sales_order, push_sales_order_to_queue
<1>5. ASSUME NEW o, cancel_sales_order(o)
      PROVE  Narrowing /\ UNCHANGED request
  BY <1>1, <1>5, CancelledNarrows, CommitNarrows DEF cancel_sales_order
<1>6. ASSUME NEW o, NEW refunded, cancel_backorder(o, refunded)
      PROVE  Narrowing /\ UNCHANGED request
  <2> DEFINE done == Cancelled(Db, o)
             new  == IF refunded THEN [done EXCEPT !.order[o].status = "REFUNDED"] ELSE done
  <2>1. Narrowed(Db, done)
    BY <1>1, CancelledNarrows
  <2>2. Narrowed(Db, new)
    <3> HIDE DEF done
    <3> QED BY <2>1 DEF Narrowed, Session
  <2>3. Commit(new) /\ UNCHANGED request
    BY <1>6 DEF cancel_backorder
  <2> HIDE DEF new
  <2> QED BY <2>2, <2>3, CommitNarrows
<1>7. ASSUME NEW o, NEW target, NEW T, revert_sales_order_status(o, target, T)
      PROVE  Narrowing /\ UNCHANGED request
  <2> DEFINE db == ReleasePicks(Db, T)
  <2>1. Keeps(Db, db)
    BY <1>1, ReleaseKeeps
  <2>2. PICK lines : Commit([db EXCEPT !.line = lines, !.order[o].status = target]) /\ UNCHANGED request
    BY <1>7 DEF revert_sales_order_status
  <2> HIDE DEF db
  <2>3. Keeps(Db, [db EXCEPT !.line = lines, !.order[o].status = target])
    BY <2>1 DEF Keeps, Session
  <2> QED BY <2>2, <2>3, CommitKeeps
<1>8. ASSUME NEW l, NEW bin, NEW q, NEW u, admin_pick_sales_order(l, bin, q, u)
      PROVE  Narrowing /\ UNCHANGED request
  BY <1>1, <1>8, AdminPickNarrows, CommitNarrows DEF admin_pick_sales_order
<1>9. ASSUME NEW l, NEW q, NEW bo, partial_fulfill_sales_order(l, q, bo)
      PROVE  Narrowing /\ UNCHANGED request
  <2> DEFINE left == line[l].ordered - q
             db1 == IF left = 0 THEN DeleteLine(Db, l) ELSE [Db EXCEPT !.line[l].ordered = left]
             db2 == [db1 EXCEPT !.inv = take_floored(@, l[2], FullestBin(l[2]), WrittenOff(l[2], q))]
  <2>1. Keeps(Db, db1)
    BY <1>1, LineEditsKeep, SameThins DEF Keeps, Session
  <2>2. Keeps(Db, db2) /\ Session(db2)
    <3> HIDE DEF db1
    <3> QED BY <2>1 DEF Keeps, Session
  <2>3. Commit(WithBackorderFor(db2, l, q, bo)) /\ UNCHANGED request
    BY <1>9 DEF partial_fulfill_sales_order
  <2> HIDE DEF db2
  <2>4. Keeps(Db, WithBackorderFor(db2, l, q, bo))
    BY <2>2, BackorderKeeps, ThinTwice DEF Keeps
  <2> QED BY <2>3, <2>4, CommitKeeps
<1>10. ASSUME NEW l, NEW q, add_sales_order_line(l, q)
       PROVE  Narrowing /\ UNCHANGED request
  BY <1>10, StillBatches DEF add_sales_order_line
<1>11. ASSUME NEW l, NEW q, update_sales_order_line(l, q)
       PROVE  Narrowing /\ UNCHANGED request
  <2> DEFINE db1 == IF q < line[l].allocated THEN _release_so_line_allocation(Db, l) ELSE Db
  <2>1. Keeps(Db, db1)
    BY <1>1, LineEditsKeep, SameThins DEF Keeps
  <2>2. Commit([db1 EXCEPT !.line[l].ordered = q]) /\ UNCHANGED request
    BY <1>11 DEF update_sales_order_line
  <2> HIDE DEF db1
  <2>3. Keeps(Db, [db1 EXCEPT !.line[l].ordered = q])
    BY <2>1 DEF Keeps, Session
  <2> QED BY <2>2, <2>3, CommitKeeps
<1>12. ASSUME NEW l, delete_sales_order_line(l)
       PROVE  Narrowing /\ UNCHANGED request
  <2> DEFINE db1 == _release_so_line_allocation(Db, l)
  <2>1. Keeps(Db, db1) /\ Session(db1)
    BY <1>1, LineEditsKeep DEF Keeps
  <2>2. Commit(DeleteLine(db1, l)) /\ UNCHANGED request
    BY <1>12 DEF delete_sales_order_line
  <2> HIDE DEF db1
  <2>3. Keeps(Db, DeleteLine(db1, l))
    BY <2>1, LineEditsKeep, ThinTwice DEF Keeps
  <2> QED BY <2>2, <2>3, CommitKeeps
<1> QED BY <1>2, <1>3, <1>4, <1>5, <1>6, <1>7, <1>8, <1>9, <1>10, <1>11, <1>12 DEF OrderDesk

LEMMA ReturnsDeskNarrows ==
  ASSUME WaveInv, ReturnsDesk
  PROVE  Narrowing /\ AsksOn
<1>1. ASSUME NEW o, NEW l, NEW q, create_rma(o, l, q)
      PROVE  Narrowing /\ AsksOn
  BY <1>1, StillBatches, SameAsks DEF create_rma, WaveInv
<1>2. ASSUME NEW r \in Requests, NEW l, NEW q, NEW k, BeginReceive(r, l, q, k)
      PROVE  Narrowing /\ AsksOn
  <2>1. UNCHANGED <<batch, task>>
    BY <1>2 DEF BeginReceive
  <2>2. PICK m : m.op = "receive" /\ request' = [request EXCEPT ![r] = m]
    BY <1>2 DEF BeginReceive
  <2> QED BY <2>1, <2>2, StillBatches, OtherAsk DEF WaveInv
<1>3. ASSUME NEW r \in Requests, FinishReceive(r, ReceivingBin)
      PROVE  Narrowing /\ AsksOn
  BY <1>3, StillBatches, IdleAsks DEF FinishReceive, WaveInv
<1>4. ASSUME NEW o, void_return_order(o)
      PROVE  Narrowing /\ AsksOn
  BY <1>4, StillBatches, SameAsks DEF void_return_order, WaveInv
<1> QED BY <1>1, <1>2, <1>3, <1>4 DEF ReturnsDesk

LEMMA ShippingDeskNarrows ==
  ASSUME WaveInv, ShippingDesk
  PROVE  Narrowing /\ AsksOn
<1>1. ASSUME NEW r \in Requests, NEW l, NEW q, BeginVerify(r, l, q)
      PROVE  Narrowing /\ AsksOn
  <2>1. UNCHANGED <<batch, task>>
    BY <1>1 DEF BeginVerify, orderVars
  <2>2. PICK m : m.op = "verify" /\ request' = [request EXCEPT ![r] = m]
    BY <1>1 DEF BeginVerify
  <2> QED BY <2>1, <2>2, StillBatches, OtherAsk DEF WaveInv
<1>2. ASSUME NEW r \in Requests, FinishVerify(r)
      PROVE  Narrowing /\ AsksOn
  BY <1>2, StillBatches, IdleAsks DEF FinishVerify, WaveInv
<1>3. ASSUME NEW o, \/ complete_packing(o) \/ fulfill(o) \/ edit_to_shipped(o)
                   \/ \E acknowledged \in BOOLEAN : record_admin_ship(o, acknowledged)
                   \/ \E k \in DockKeys : ship_order(k, o) \/ void_ship(k, o)
      PROVE  Narrowing /\ AsksOn
  <2>1. UNCHANGED <<batch, task, request>>
    BY <1>3 DEF complete_packing, fulfill, edit_to_shipped, record_ship, record_admin_ship,
                ship_order, void_ship, record_void_ship
  <2> QED BY <2>1, StillBatches, SameAsks DEF WaveInv
<1> QED BY <1>1, <1>2, <1>3 DEF ShippingDesk

LEMMA TillNarrows ==
  ASSUME WaveInv, Till
  PROVE  Narrowing /\ AsksOn
<1>1. UNCHANGED <<batch, task, request>>
  <2>1. \A k, o, how, child, cart, rma, back :
          checkout(k, o, how, child, cart, rma, back) => UNCHANGED <<batch, task, request>>
    BY DEF checkout, TillOnly
  <2>2. \A k, o, part : refund(k, o, part) => UNCHANGED <<batch, task, request>>
    BY DEF refund, TillOnly
  <2>3. \A o, cart : reference_orders(o, cart) => UNCHANGED <<batch, task, request>>
    BY DEF reference_orders, TillOnly
  <2> QED BY <2>1, <2>2, <2>3 DEF Till
<1> QED BY <1>1, StillBatches, SameAsks DEF WaveInv

-----------------------------------------------------------------------------
\* a plan keeps its operation and its orders
LEMMA PlanFields ==
  \A db, op, u, O : Plan(db, op, u, O).op = op /\ Plan(db, op, u, O).orders = O
  BY DEF Plan

\* the tasks of tk2 with shares are those of tk, or take units for lines of L in batch b
OnlyAdds(tk, tk2, b, L) ==
  \A t \in tk2 :
    \/ DOMAIN t.share = {}
    \/ \E s \in tk : s.batch = t.batch /\ s.item = t.item /\ s.share = t.share
    \/ t.batch = b /\ \A o \in DOMAIN t.share : <<o, t.item>> \in L

NoWalkFor(bt, tk, L) == \A l \in L, c \in Batches : ~Walks(bt, tk, c, l[1], l[2])

\* What a wave commits: the tasks there were, and tasks that take units for the lines
\* of its plan
LEMMA WaveOpens ==
  ASSUME NEW db, Session(db), BatchTable(db.batch), Shareable(db.task), NEW plan, plan.op = "wave",
         DOMAIN PlannedNeeds(db, plan) \subseteq Lines, NEW b \in Batches, Create(db, plan, b)
  PROVE  /\ batch' = [db.batch EXCEPT ![b] = [status |-> "OPEN", by |-> plan.by, orders |-> plan.orders]]
         /\ Shareable(task') /\ OnlyAdds(db.task, task', b, DOMAIN PlannedNeeds(db, plan))
<1> DEFINE db1 == Normalised(db, plan)
           need == PlannedNeeds(db, plan)
           taken == Allocation(db1, need)
           T == WaveTasks(taken, b)
           new == Reserve(db1, taken, T, b, plan.by, plan.orders)
<1>1. Keeps(db, db1)
  BY NormaliseKeeps DEF Normalised
<1>2. Commit(new)
  BY DEF Create
<1>3. DOMAIN taken = (DOMAIN need) \X Pickable
  BY DEF Allocation
<1>4. \A t \in T : /\ {"batch", "item", "share"} \subseteq DOMAIN t
                   /\ t.batch = b
                   /\ \A o \in DOMAIN t.share : <<o, t.item>> \in DOMAIN need
  <2> HIDE DEF need, taken, db1
  <2> SUFFICES ASSUME NEW x \in DOMAIN taken
               PROVE  LET t == WaveTask(taken, b, x[1][2], x[2])
                      IN  /\ {"batch", "item", "share"} \subseteq DOMAIN t
                          /\ t.batch = b
                          /\ \A o \in DOMAIN t.share : <<o, t.item>> \in DOMAIN need
    BY DEF WaveTasks
  <2>1. \A o \in Contributors(taken, x[1][2]) : <<o, x[1][2]>> \in DOMAIN need
    <3> SUFFICES ASSUME NEW y \in DOMAIN taken, y[1][2] = x[1][2] PROVE <<y[1][1], x[1][2]>> \in DOMAIN need
      BY DEF Contributors
    <3>1. y[1] \in DOMAIN need /\ y[1] \in Lines
      BY <1>3 DEF need
    <3>2. y[1] = <<y[1][1], y[1][2]>>
      BY <3>1 DEF Lines
    <3> QED BY <3>1, <3>2
  <2> DEFINE share == [o \in {p \in Contributors(taken, x[1][2]) : taken[<< <<p, x[1][2]>>, x[2]>>] > 0}
                         |-> taken[<< <<o, x[1][2]>>, x[2]>>]]
             t == WaveTask(taken, b, x[1][2], x[2])
  <2>2. /\ {"batch", "item", "share"} \subseteq DOMAIN t
        /\ t.batch = b /\ t.item = x[1][2] /\ t.share = share
    BY DEF WaveTask, NewTask
  <2>3. DOMAIN share \subseteq Contributors(taken, x[1][2])
    OBVIOUS
  <2> HIDE DEF t, share
  <2>4. \A o \in DOMAIN t.share : <<o, t.item>> \in DOMAIN need
    BY <2>1, <2>2, <2>3
  <2> QED BY <2>2, <2>4 DEF t
<1> HIDE DEF db1, taken, T, need
<1>5. Session(db1) /\ db1.batch = db.batch /\ BatchTable(db1.batch) /\ Thins(db.task, db1.task)
  BY <1>1 DEF Keeps
<1>6. /\ new.batch = [db1.batch EXCEPT ![b] = [status |-> "OPEN", by |-> plan.by, orders |-> plan.orders]]
      /\ new.task = db1.task \cup T
  <2>1. Reserve(db1, taken, T, b, plan.by, plan.orders).batch
          = [db1.batch EXCEPT ![b] = [status |-> "OPEN", by |-> plan.by, orders |-> plan.orders]]
    BY <1>5 DEF Session, Reserve
  <2>2. Reserve(db1, taken, T, b, plan.by, plan.orders).task = db1.task \cup T
    BY <1>5 DEF Session, Reserve
  <2> QED BY <2>1, <2>2
<1>7. batch' = new.batch /\ task' = new.task
  BY <1>2, CommitBatch
<1> HIDE DEF new
<1>8. /\ Shareable(db1.task)
      /\ \A t \in db1.task : \/ DOMAIN t.share = {}
                             \/ \E s \in db.task : s.batch = t.batch /\ s.item = t.item /\ s.share = t.share
  BY <1>5 DEF Thins
<1>9. Shareable(task')
  BY <1>4, <1>6, <1>7, <1>8 DEF Shareable
<1>10. ASSUME NEW t \in task'
       PROVE  \/ DOMAIN t.share = {}
              \/ \E s \in db.task : s.batch = t.batch /\ s.item = t.item /\ s.share = t.share
              \/ /\ t.batch = b
                 /\ \A o \in DOMAIN t.share : <<o, t.item>> \in DOMAIN need
  BY <1>4, <1>6, <1>7, <1>8, <1>10
<1> QED BY <1>5, <1>6, <1>7, <1>9, <1>10 DEF need, OnlyAdds

\* A new batch for lines nobody takes units for.
LEMMA OpensApart ==
  ASSUME NEW bt, NEW tk, NoneBefore(bt, tk), WalkedOnce(bt, tk),
         NEW b \in Batches, bt[b].status = "NONE", NEW L, NoWalkFor(bt, tk, L),
         NEW bt2, BatchTable(bt2), bt2[b].status = "OPEN", \A c \in Batches \ {b} : bt2[c] = bt[c],
         NEW tk2, OnlyAdds(tk, tk2, b, L)
  PROVE  /\ NoneBefore(bt2, tk2) /\ WalkedOnce(bt2, tk2)
         /\ \A c \in Batches : \A o, i : Walks(bt2, tk2, c, o, i) => <<o, i>> \in L \/ Walks(bt, tk, c, o, i)
<1> USE DEF NoWalkFor, OnlyAdds
<1>2. NoneBefore(bt2, tk2)
  BY DEF NoneBefore
<1>3. \A o, i : Walks(bt2, tk2, b, o, i) => <<o, i>> \in L
  <2> SUFFICES ASSUME NEW o, NEW i, NEW t \in tk2, t.batch = b, t.item = i, o \in DOMAIN t.share
               PROVE  <<o, i>> \in L
    BY DEF Walks
  <2>1. ~ \E s \in tk : s.batch = b /\ s.share = t.share
    BY DEF NoneBefore
  <2> QED BY <2>1
<1>4. \A c \in Batches \ {b} : \A o, i : Walks(bt2, tk2, c, o, i) => Walks(bt, tk, c, o, i)
  <2> SUFFICES ASSUME NEW c \in Batches \ {b}, NEW o, NEW i, Walks(bt2, tk2, c, o, i)
               PROVE  Walks(bt, tk, c, o, i)
    OBVIOUS
  <2>1. bt[c].status = "OPEN" /\ o \in bt[c].orders
    BY DEF Walks
  <2>2. PICK t \in tk2 : t.batch = c /\ t.item = i /\ o \in DOMAIN t.share
    BY DEF Walks
  <2>3. PICK s \in tk : s.batch = t.batch /\ s.item = t.item /\ s.share = t.share
    BY <2>2
  <2> QED BY <2>1, <2>2, <2>3 DEF Walks
<1>5. \A l \in L, c \in Batches \ {b} : ~Walks(bt2, tk2, c, l[1], l[2])
  BY <1>4
<1>6. WalkedOnce(bt2, tk2)
  <2> SUFFICES ASSUME NEW o \in Orders, NEW i \in Items, NEW c \in Batches, NEW d \in Batches,
                      Walks(bt2, tk2, c, o, i), Walks(bt2, tk2, d, o, i), c # d
               PROVE  FALSE
    BY DEF WalkedOnce
  <2>1. CASE c # b /\ d # b
    BY <2>1, <1>4 DEF WalkedOnce
  <2>2. CASE c = b \/ d = b
    <3>1. <<o, i>> \in L
      BY <2>2, <1>3
    <3>2. \A e \in Batches \ {b} : ~Walks(bt2, tk2, e, o, i)
      BY <3>1, <1>5
    <3> QED BY <2>2, <3>2
  <2> QED BY <2>1, <2>2
<1> QED BY <1>2, <1>3, <1>4, <1>6

\* The lines a plan takes units for are those of its orders.
LEMMA PlannedAreOwn ==
  ASSUME NEW db, NEW m, m.op = "wave", OwnNeeds(m)
  PROVE  DOMAIN PlannedNeeds(db, m) \subseteq LinesOf(m.orders)
  BY DEF PlannedNeeds, OwnNeeds, Needs, LiveLines, LinesOf

\* The second look: nobody takes units for a line of orders that no open batch has.
LEMMA FreeOrdersFree ==
  ASSUME NEW db, NEW tk, NEW O, \A o \in O : ActiveBatchesOf(db, o) = {}
  PROVE  \A l \in LinesOf(O), b \in Batches : ~Walks(db.batch, tk, b, l[1], l[2])
  BY DEF ActiveBatchesOf, LinesOf, Walks

\* A wave commits for lines that nobody walks for and whose items no other planned wave
\* holds.
LEMMA WaveCreated ==
  ASSUME WaveInv, NEW db, Session(db), Narrows(batch, db.batch), Thins(task, db.task),
         NEW plan, plan.op = "wave", OwnNeeds(plan), NEW b \in Batches, db.batch[b].status = "NONE",
         NoWalkFor(db.batch, db.task, DOMAIN PlannedNeeds(db, plan)), Create(db, plan, b), AsksOn,
         \A r \in Requests : Planning(r)' => ItemsOf(db, plan) \cap ItemsOf(Db, request[r]) = {}
  PROVE  WaveInv'
<1> DEFINE L == DOMAIN PlannedNeeds(db, plan)
<1>1. L \subseteq Lines
  BY PlannedAreOwn DEF LinesOf
<1>2. /\ \A c \in Batches : \A o, i : Walks(db.batch, db.task, c, o, i) => Walks(batch, task, c, o, i)
      /\ NoneBefore(db.batch, db.task) /\ WalkedOnce(db.batch, db.task)
      /\ BatchTable(db.batch) /\ Shareable(db.task)
  BY NarrowWalks DEF WaveInv
<1>3. /\ batch' = [db.batch EXCEPT ![b] = [status |-> "OPEN", by |-> plan.by, orders |-> plan.orders]]
      /\ Shareable(task') /\ OnlyAdds(db.task, task', b, L)
  BY <1>1, <1>2, WaveOpens
<1> HIDE DEF L
<1>4. /\ NoWalkFor(db.batch, db.task, L)
      /\ BatchTable(batch') /\ batch'[b].status = "OPEN"
      /\ \A c \in Batches \ {b} : batch'[c] = db.batch[c]
  BY <1>2, <1>3 DEF L, BatchTable
<1>5. /\ NoneBefore(batch', task') /\ WalkedOnce(batch', task')
      /\ \A c \in Batches : \A o, i :
           Walks(batch', task', c, o, i) => <<o, i>> \in L \/ Walks(db.batch, db.task, c, o, i)
  <2>1. ASSUME NEW bt, NEW tk, NEW bt2, NEW tk2, bt = db.batch, tk = db.task, bt2 = batch', tk2 = task'
        PROVE  /\ NoneBefore(bt2, tk2) /\ WalkedOnce(bt2, tk2)
               /\ \A c \in Batches : \A o, i : Walks(bt2, tk2, c, o, i) => <<o, i>> \in L \/ Walks(bt, tk, c, o, i)
    <3>1. NoneBefore(bt, tk) /\ WalkedOnce(bt, tk)
      BY <1>2, <2>1
    <3>2. bt[b].status = "NONE" /\ NoWalkFor(bt, tk, L)
      BY <1>4, <2>1
    <3>3. BatchTable(bt2) /\ bt2[b].status = "OPEN" /\ \A c \in Batches \ {b} : bt2[c] = bt[c]
      BY <1>4, <2>1
    <3>4. OnlyAdds(tk, tk2, b, L)
      BY <1>3, <2>1
    <3> QED BY <3>1, <3>2, <3>3, <3>4, OpensApart
  <2> QED BY <2>1
<1>6. PlansFree'
  <2> SUFFICES ASSUME NEW r \in Requests, Planning(r)', NEW l \in DOMAIN request'[r].needs, NEW c \in Batches,
                      Walks(batch', task', c, l[1], l[2])
               PROVE  FALSE
    BY DEF PlansFree
  <2>1. Planning(r) /\ request'[r] = request[r] /\ request[r].planned
    BY DEF AsksOn, Planning
  <2>2. ~Walks(batch, task, c, l[1], l[2])
    BY <2>1 DEF WaveInv, PlansFree
  <2>3. <<l[1], l[2]>> \in L
    BY <1>2, <1>5, <2>2
  <2>4. l[2] \in ItemsOf(db, plan)
    BY <2>3 DEF L, ItemsOf
  <2>5. l[2] \in ItemsOf(Db, request[r])
    BY <2>1, PlannedItems
  <2> QED BY <2>4, <2>5
<1>7. PlansApart'
  BY PlansKept DEF WaveInv
<1> QED BY <1>3, <1>4, <1>5, <1>6, <1>7 DEF WaveInv, AsksOn

LEMMA HeldByOthers ==
  ASSUME NEW db, NEW plan, RowsFree(db, plan), NEW r \in Requests, Planning(r)
  PROVE  ItemsOf(db, plan) \cap ItemsOf(Db, request[r]) = {}
  BY DEF RowsFree, Held

LEMMA BeginStep ==
  ASSUME WaveInv, NEW r \in Requests, NEW u, NEW O, BeginCreate(r, "wave", u, O)
  PROVE  WaveInv'
<1> DEFINE m == Plan(Db, "wave", u, O)
<1>1. UNCHANGED <<batch, task>> /\ request' = [request EXCEPT ![r] = m]
  BY DEF BeginCreate, Unchanged
<1>2. m.op = "wave" /\ ~m.planned /\ m.orders = O
  BY DEF Plan
<1>3. OwnNeeds(m)
  BY DEF OwnNeeds, Plan, Needs, LiveLines, LinesOf
<1> HIDE DEF m
<1> QED BY <1>1, <1>2, <1>3, AskStep, StillBatches, NarrowStep DEF WaveInv

\* The plan itself: the second look shows that its orders are in no open batch, and its
\* rows are free.
LEMMA PlanStep ==
  ASSUME WaveInv, NEW r \in Requests, PlanWave(r)
  PROVE  WaveInv'
<1> DEFINE plan == request[r]
           full == [op |-> "wave", by |-> plan.by, orders |-> plan.orders, standing |-> plan.standing,
                    needs |-> PlannedNeeds(Db, plan), planned |-> TRUE]
<1>1. /\ plan.op = "wave" /\ RowsFree(Db, plan) /\ WaveRecheck(Db, plan)
      /\ request' = [request EXCEPT ![r] = full]
      /\ UNCHANGED <<batch, task>>
  BY DEF PlanWave, Unchanged
<1>2. OwnNeeds(plan) /\ DOMAIN request = Requests
  BY DEF WaveInv, Asks
<1>3. DOMAIN full.needs \subseteq LinesOf(full.orders) /\ full.op = "wave" /\ full.planned
  BY <1>1, <1>2, PlannedAreOwn
<1>4. \A l \in LinesOf(full.orders), b \in Batches : ~Walks(batch, task, b, l[1], l[2])
  BY <1>1, FreeOrdersFree, DbIsSession DEF WaveRecheck
<1>5. \A db : ItemsOf(db, full) = ItemsOf(Db, plan)
  <2>1. ItemsOf(Db, plan) = {l[2] : l \in DOMAIN plan.standing \cup DOMAIN PlannedNeeds(Db, plan)}
    BY DEF ItemsOf
  <2>2. full.standing = plan.standing /\ full.needs = PlannedNeeds(Db, plan) /\ full.planned
    OBVIOUS
  <2> HIDE DEF full, plan
  <2>3. \A db : ItemsOf(db, full) = {l[2] : l \in DOMAIN full.standing \cup DOMAIN full.needs}
    BY <2>2, PlannedItems
  <2> QED BY <2>1, <2>2, <2>3
<1> HIDE DEF plan, full
<1>6. request'[r] = full /\ \A s \in Requests \ {r} : request'[s] = request[s]
  BY <1>1, <1>2
<1>7. Asks'
  BY <1>1, <1>2, <1>3, <1>6 DEF WaveInv, Asks, OwnNeeds
<1>8. PlansFree'
  BY <1>1, <1>3, <1>4, <1>6 DEF WaveInv, PlansFree, Planning
<1>9. \A s \in Requests \ {r} : Planning(s)' <=> Planning(s)
  BY <1>6 DEF Planning
<1>10. \A s \in Requests \ {r} : Planning(s) => ItemsOf(Db', request'[s]) = ItemsOf(Db, request[s])
  BY <1>6, PlannedItems DEF Planning
<1>11. \A s \in Requests \ {r} : Planning(s)' => ItemsOf(Db', request'[s]) \cap ItemsOf(Db', request'[r]) = {}
  <2> SUFFICES ASSUME NEW s \in Requests \ {r}, Planning(s)
               PROVE  ItemsOf(Db', request'[s]) \cap ItemsOf(Db', request'[r]) = {}
    BY <1>9
  <2>1. ItemsOf(Db, plan) \cap ItemsOf(Db, request[s]) = {}
    BY <1>1, HeldByOthers
  <2> QED BY <1>5, <1>6, <1>10, <2>1
<1>12. PlansApart'
  <2> SUFFICES ASSUME NEW s \in Requests, NEW q \in Requests, Planning(s)', Planning(q)', s # q
               PROVE  ItemsOf(Db', request'[s]) \cap ItemsOf(Db', request'[q]) = {}
    BY DEF PlansApart
  <2>1. CASE s = r \/ q = r
    BY <1>11, <2>1
  <2>2. CASE s # r /\ q # r
    <3>1. ItemsOf(Db, request[s]) \cap ItemsOf(Db, request[q]) = {}
      BY <1>9, <2>2 DEF WaveInv, PlansApart
    <3> QED BY <1>9, <1>10, <2>2, <3>1
  <2> QED BY <2>1, <2>2
<1> QED BY <1>1, <1>7, <1>8, <1>12 DEF WaveInv

LEMMA FinishWaves ==
  ASSUME WaveInv, NEW r \in Requests, FinishCreate(r)
  PROVE  WaveInv'
<1> DEFINE plan == request[r]
<1>1. Planning(r) /\ plan.op = "wave" /\ plan.planned /\ OwnNeeds(plan)
  BY DEF FinishCreate, Planning, WaveInv, Asks
<1>2. PICK b \in Batches : batch[b].status = "NONE" /\ Create(Db, plan, b)
  BY DEF FinishCreate, FreshBatch
<1>3. request' = [request EXCEPT ![r] = Idle]
  BY DEF FinishCreate
<1>4. AsksOn
  BY <1>3, IdleAsks DEF WaveInv
<1>5. ~Planning(r)'
  BY <1>3 DEF Planning, Idle, WaveInv, Asks
<1>6. PlannedNeeds(Db, plan) = plan.needs
  BY <1>1 DEF PlannedNeeds
<1>7. NoWalkFor(batch, task, DOMAIN plan.needs)
  BY <1>1 DEF WaveInv, PlansFree, NoWalkFor
<1>8. \A s \in Requests : Planning(s)' => ItemsOf(Db, plan) \cap ItemsOf(Db, request[s]) = {}
  BY <1>1, <1>4, <1>5 DEF WaveInv, PlansApart, AsksOn
<1>9. /\ Session(Db) /\ Db.batch = batch /\ Db.task = task
      /\ Narrows(batch, Db.batch) /\ Thins(task, Db.task)
  BY DbIsSession, SameNarrows, SameThins DEF WaveInv
<1> HIDE DEF plan
<1> QED BY <1>1, <1>2, <1>4, <1>6, <1>7, <1>8, <1>9, WaveCreated

LEMMA OverPriorWaves ==
  ASSUME WaveInv, NEW u, NEW O, CreateOverPrior("wave", u, O)
  PROVE  WaveInv'
<1> DEFINE db == cancel_prior_user_batches(Db, u)
           plan == Plan(db, "wave", u, O)
<1>1. Narrowed(Db, db)
  BY DbIsSession, RevertNarrows DEF cancel_prior_user_batches, WaveInv
<1>2. plan.op = "wave" /\ ~plan.planned /\ plan.orders = O
  BY DEF Plan
<1>3. OwnNeeds(plan)
  BY DEF OwnNeeds, Plan, Needs, LiveLines, LinesOf
<1>4. /\ CreateGuards(db, "wave", O) /\ RowsFree(db, plan)
      /\ \E b \in Batches : FreshBatch(b) /\ Create(db, plan, b)
      /\ UNCHANGED request
  BY DEF CreateOverPrior
<1> HIDE DEF db, plan
<1>5. PICK b \in Batches : batch[b].status = "NONE" /\ Create(db, plan, b)
  BY <1>4 DEF FreshBatch
<1>6. /\ Session(db) /\ Narrows(batch, db.batch) /\ Thins(task, db.task)
  BY <1>1, DbIsSession DEF Narrowed
<1>7. db.batch[b].status = "NONE"
  BY <1>5 DEF db, cancel_prior_user_batches, full_revert_batch, Db, WaveInv, BatchTable
<1>8. \A o \in O : ActiveBatchesOf(db, o) = {}
  BY <1>4 DEF CreateGuards, OrderIsFree
<1>9. NoWalkFor(db.batch, db.task, DOMAIN PlannedNeeds(db, plan))
  BY <1>2, <1>3, <1>8, FreeOrdersFree, PlannedAreOwn DEF NoWalkFor
<1>10. AsksOn
  BY <1>4, SameAsks DEF WaveInv
<1>11. \A s \in Requests : Planning(s)' => ItemsOf(db, plan) \cap ItemsOf(Db, request[s]) = {}
  BY <1>4, <1>10, HeldByOthers DEF AsksOn
<1> QED BY <1>2, <1>3, <1>5, <1>6, <1>7, <1>9, <1>10, <1>11, WaveCreated

LEMMA PickWorkStep ==
  ASSUME WaveInv, ~Does("batch"), PickWork
  PROVE  WaveInv'
<1>1. Session(Db) /\ BatchTable(Db.batch) /\ Db.batch = batch
  BY DbIsSession DEF WaveInv
<1>2. Kinds \subseteq {"wave"}
  BY DEF Kinds, Does
<1>3. ASSUME NEW r \in Requests, NEW kind \in Kinds, NEW u, NEW O, BeginCreate(r, kind, u, O)
      PROVE  WaveInv'
  BY <1>2, <1>3, BeginStep
<1>4. ASSUME NEW kind \in Kinds, NEW u, NEW O, CreateOverPrior(kind, u, O)
      PROVE  WaveInv'
  BY <1>2, <1>4, OverPriorWaves
<1>5. ASSUME NEW r \in Requests, PlanWave(r) \/ FinishCreate(r)
      PROVE  WaveInv'
  BY <1>5, PlanStep, FinishWaves
<1>6. ASSUME NEW r \in Requests, RefuseCreate(r)
      PROVE  WaveInv'
  <2>1. AsksOn
    BY <1>6, IdleAsks DEF RefuseCreate, WaveInv
  <2>2. Unchanged \/ \E b : Commit(full_revert_batch(Db, {b}))
    BY <1>6 DEF RefuseCreate
  <2>3. Narrowing
    BY <1>1, <2>2, StillBatches, RevertNarrows, CommitNarrows DEF Unchanged
  <2> QED BY <2>1, <2>3, NarrowStep
<1>7. ASSUME NEW r \in Requests, NEW op \in {"confirm", "short"}, NEW t, NEW q, LoadTask(r, op, t, q)
      PROVE  WaveInv'
  <2> DEFINE m == [op |-> op, task |-> t, q |-> q]
  <2>1. UNCHANGED <<batch, task>> /\ request' = [request EXCEPT ![r] = m]
    BY <1>7 DEF LoadTask, Unchanged
  <2>2. m.op \notin {"batch", "wave"}
    OBVIOUS
  <2> HIDE DEF m
  <2> QED BY <2>1, <2>2, OtherAsk, StillBatches, NarrowStep DEF WaveInv
<1>8. ASSUME NEW r \in Requests, ApplyPick(r)
      PROVE  WaveInv'
  <2>1. AsksOn
    BY <1>8, IdleAsks DEF ApplyPick, WaveInv
  <2>2. PICK new : Keeps(Db, new) /\ Commit(new)
    BY <1>1, <1>8, PicksKeep DEF ApplyPick
  <2> QED BY <2>1, <2>2, CommitKeeps, NarrowStep
<1>9. ASSUME NEW b \in Batches, complete_batch(b)
      PROVE  WaveInv'
  <2>1. batch' = [batch EXCEPT ![b].status = "COMPLETED"] /\ UNCHANGED <<task, request>>
    BY <1>9 DEF complete_batch
  <2>2. Narrowing
    BY <2>1, SameThins DEF Narrowing, Narrows, BatchTable, WaveInv
  <2> QED BY <2>1, <2>2, SameAsks, NarrowStep DEF WaveInv
<1>10. ASSUME NEW b \in Batches, cancel_batch(b)
       PROVE  WaveInv'
  <2>1. Narrowing /\ UNCHANGED request
    BY <1>1, <1>10, RevertNarrows, CommitNarrows DEF cancel_batch
  <2> QED BY <2>1, SameAsks, NarrowStep DEF WaveInv
<1> QED BY <1>3, <1>4, <1>5, <1>6, <1>7, <1>8, <1>9, <1>10 DEF PickWork

LEMMA WaveInvInit == Init => WaveInv
  BY DEF Init, WaveInv, BatchTable, Shareable, NoneBefore, WalkedOnce, Walks, Asks, OwnNeeds,
         PlansApart, PlansFree, Planning, NoBatch, Idle

LEMMA WaveInvNext ==
  ASSUME ~Does("batch") => WaveInv, [Next]_vars
  PROVE  (~Does("batch") => WaveInv)'
<1>1. UNCHANGED desk
  BY DEF Next, vars
<1>2. ~Does("batch")' <=> ~Does("batch")
  BY <1>1 DEF Does
<1> SUFFICES ASSUME ~Does("batch") PROVE WaveInv'
  BY <1>2
<1>3. WaveInv
  OBVIOUS
<1>4. CASE PickWork
  BY <1>3, <1>4, PickWorkStep
<1>5. CASE OrderDesk
  BY <1>3, <1>5, OrderDeskNarrows, SameAsks, NarrowStep DEF WaveInv
<1>6. CASE ReturnsDesk
  BY <1>3, <1>6, ReturnsDeskNarrows, NarrowStep
<1>7. CASE ShippingDesk
  BY <1>3, <1>7, ShippingDeskNarrows, NarrowStep
<1>8. CASE Till
  BY <1>3, <1>8, TillNarrows, NarrowStep
<1>9. CASE UNCHANGED vars
  BY <1>3, <1>9, StillBatches, SameAsks, NarrowStep DEF vars, WaveInv
<1> QED BY <1>4, <1>5, <1>6, <1>7, <1>8, <1>9 DEF Next

LEMMA WalkedOnceIsOne ==
  ASSUME WaveInv, NEW l \in Lines
  PROVE  Cardinality(OpenWalks(l)) <= 1
<1> DEFINE S == OpenWalks(l)
<1>1. \A b \in S : b \in Batches /\ Walks(batch, task, b, l[1], l[2])
  BY DbIsSession DEF OpenWalks, ActiveBatchesOf, TasksOf, Walks
<1>2. l[1] \in Orders /\ l[2] \in Items
  BY DEF Lines
<1>3. \A b, c \in S : b = c
  BY <1>1, <1>2 DEF WaveInv, WalkedOnce
<1> HIDE DEF S
<1>4. S = {} \/ \E b : S = {b}
  BY <1>3
<1>5. Cardinality(S) \in {0, 1}
  BY <1>4, FS_EmptySet, FS_Singleton
<1> QED BY <1>5 DEF S

\* The second look of wave_create and the rows a wave holds until its commit suffice:
\* however plans, creations, cancellations, reverts, edits and sales interleave, no line
\* is ever in the shares of the tasks of two open waves.
THEOREM OneWalk == Spec => []OneWalkPerLine
<1>1. Init => (~Does("batch") => WaveInv)
  BY WaveInvInit
<1>2. (~Does("batch") => WaveInv) /\ [Next]_vars => (~Does("batch") => WaveInv)'
  BY WaveInvNext
<1>3. (~Does("batch") => WaveInv) => OneWalkPerLine
  BY WalkedOnceIsOne DEF OneWalkPerLine
<1> QED BY <1>1, <1>2, <1>3, PTL DEF Spec

-----------------------------------------------------------------------------
(***************************************************************************)
(* The shelf: no row promises more than it holds.  The invariant types the *)
(* tables a service function reads quantities from, because what they hold *)
(* decides what is reserved and released.                                  *)
(***************************************************************************)
Shelf(inv) ==
  /\ inv \in InventoryType
  /\ \A r \in Rows : /\ ~Unfloored => 0 <= inv[r].on_hand /\ inv[r].allocated <= inv[r].on_hand
                     /\ ~MayDip => 0 <= inv[r].allocated

LineTable(rows) == rows \in [Lines -> LineRow]

\* quantities for some orders, and for some lines
Shares(s)  == \E O \in SUBSET Orders : s \in [O -> Nat]
Amounts(m) == \E L \in SUBSET Lines : m \in [L -> Nat]

TaskFields == {"id", "batch", "order", "line", "item", "bin", "qty", "picked", "status",
               "share", "shorted", "lost"}
TaskRow(t) == /\ DOMAIN t = TaskFields
              /\ t.qty \in Nat /\ t.picked \in Nat /\ Shares(t.share)
              /\ ~MayDip /\ Does("cancel") => t.status # "PENDING"
TaskTable(T) == IsFiniteSet(T) /\ \A t \in T : TaskRow(t)

\* a database session in which the books are in order
Books(db) == Session(db) /\ Shelf(db.inv) /\ LineTable(db.line) /\ TaskTable(db.task)

-----------------------------------------------------------------------------
(* The inventory functions *)

LEMMA BoundedTake ==
  ASSUME NEW c \in Nat, NEW n \in Int
  PROVE  Least(c, AtLeast0(n)) \in Nat /\ Least(c, AtLeast0(n)) <= c
  BY DEF Least, AtLeast0

LEMMA RowsOfStock ==
  /\ \A i \in Items, b \in Bins : <<i, b>> \in Rows
  /\ \A r \in Rows : r = <<r[1], r[2]>> /\ r[1] \in Items /\ r[2] \in Bins
  /\ IsFiniteSet(Bins) /\ IsFiniteSet(Pickable)
<1>1. Pickable \in SUBSET Bins /\ IsFiniteSet(Bins)
  BY BinsAssumption
<1>2. IsFiniteSet(Pickable)
  BY <1>1, FS_Subset
<1>3. \A r \in Rows : r = <<r[1], r[2]>> /\ r[1] \in Items /\ r[2] \in Bins
  BY DEF Rows
<1>4. \A i \in Items, b \in Bins : <<i, b>> \in Rows
  BY DEF Rows
<1> QED BY <1>1, <1>2, <1>3, <1>4

LEMMA FiniteLines == IsFiniteSet(Lines) /\ \A L \in SUBSET Lines : IsFiniteSet(L)
<1>1. IsFiniteSet(Orders \X Items)
  BY BinsAssumption, OrdersAssumption, FS_Product
<1> QED BY <1>1, FS_Subset DEF Lines

\* what a walk of bins takes from each is between none and what there is
LEMMA WalkOfBins ==
  ASSUME NEW cap \in [Bins -> Nat], NEW need \in Int, NEW b \in Bins, NEW C \in SUBSET Bins
  PROVE  LET n == Least(cap[b], AtLeast0(need - Total(cap, C)))
         IN  n \in Nat /\ n <= cap[b]
<1>1. Total(cap, C) \in Nat
  BY RowsOfStock, TotalSubset DEF NatOn
<1>2. need - Total(cap, C) \in Int
  BY <1>1
<1> QED BY <1>2, BoundedTake

LEMMA ReleaseWalkShelf ==
  ASSUME NEW inv, Shelf(inv), NEW i \in Items, NEW need \in Int
  PROVE  Shelf(ReleaseWalk(inv, i, need))
<1> DEFINE cap == [b \in Bins |-> AtLeast0(inv[<<i, b>>].allocated)]
           taken == [b \in DOMAIN cap |->
                       Least(cap[b], AtLeast0(need - Total(cap, {c \in DOMAIN cap : c # b /\ c < b})))]
           new == [r \in Rows |-> IF r[1] = i THEN [inv[r] EXCEPT !.allocated = @ - taken[r[2]]]
                                  ELSE inv[r]]
<1>1. ReleaseWalk(inv, i, need) = new
  BY DEF ReleaseWalk, Walk
<1>2. cap \in [Bins -> Nat] /\ \A b \in Bins : cap[b] = AtLeast0(inv[<<i, b>>].allocated)
  BY RowsOfStock DEF Shelf, InventoryType, AtLeast0
<1>3. \A b \in Bins : taken[b] \in Nat /\ taken[b] <= cap[b]
  <2> HIDE DEF cap
  <2> SUFFICES ASSUME NEW b \in Bins PROVE taken[b] \in Nat /\ taken[b] <= cap[b]
    OBVIOUS
  <2>1. {c \in DOMAIN cap : c # b /\ c < b} \in SUBSET Bins
    BY <1>2
  <2> QED BY <1>2, <2>1, WalkOfBins
<1> HIDE DEF taken, cap
<1>4. ASSUME NEW r \in Rows
      PROVE  /\ new[r] \in [on_hand : Int, allocated : Int]
             /\ ~Unfloored => 0 <= new[r].on_hand /\ new[r].allocated <= new[r].on_hand
             /\ ~MayDip => 0 <= new[r].allocated
  <2>1. /\ inv[r] \in [on_hand : Int, allocated : Int]
        /\ ~Unfloored => 0 <= inv[r].on_hand /\ inv[r].allocated <= inv[r].on_hand
        /\ ~MayDip => 0 <= inv[r].allocated
    BY DEF Shelf, InventoryType
  <2>2. CASE r[1] = i
    <3>1. r = <<i, r[2]>> /\ r[2] \in Bins
      BY <2>2, RowsOfStock
    <3>2. taken[r[2]] \in Nat /\ taken[r[2]] <= AtLeast0(inv[r].allocated)
      BY <1>2, <1>3, <3>1
    <3> QED BY <2>1, <2>2, <3>2 DEF AtLeast0
  <2>3. CASE r[1] # i
    BY <2>1, <2>3
  <2> QED BY <2>2, <2>3
<1>5. new \in InventoryType
  BY <1>4 DEF InventoryType
<1> HIDE DEF new
<1> QED BY <1>1, <1>4, <1>5 DEF Shelf

\* what an order reserves of an item: of each row no more than is free
LEMMA ReserveBounds ==
  ASSUME NEW inv, Shelf(inv), NEW i \in Items, NEW need \in Int
  PROVE  /\ ReserveTaken(inv, i, need) \in [Bins -> Nat]
         /\ \A b \in Bins : ReserveTaken(inv, i, need)[b] <= AtLeast0(Available(inv, i, b))
         /\ Reserved(inv, i, need) \in Nat
<1> DEFINE cap == [b \in Bins |-> AtLeast0(Available(inv, i, b))]
           taken == [b \in DOMAIN cap |->
                       Least(cap[b], AtLeast0(need - Total(cap,
                               {c \in DOMAIN cap : c # b /\ (cap[c] > cap[b] \/ (cap[c] = cap[b] /\ c < b))})))]
<1>1. ReserveTaken(inv, i, need) = taken
  BY DEF ReserveTaken, Walk
<1>2. ASSUME NEW b \in Bins
      PROVE  AtLeast0(Available(inv, i, b)) \in Nat
  <2>1. <<i, b>> \in Rows
    BY RowsOfStock
  <2>2. inv[<<i, b>>].on_hand \in Int /\ inv[<<i, b>>].allocated \in Int
    BY <2>1 DEF Shelf, InventoryType
  <2> QED BY <2>2 DEF Available, AtLeast0
<1>3. cap \in [Bins -> Nat] /\ \A b \in Bins : cap[b] = AtLeast0(Available(inv, i, b))
  BY <1>2
<1>4. \A b \in Bins : taken[b] \in Nat /\ taken[b] <= cap[b]
  <2> HIDE DEF cap
  <2> SUFFICES ASSUME NEW b \in Bins PROVE taken[b] \in Nat /\ taken[b] <= cap[b]
    OBVIOUS
  <2> DEFINE C == {c \in DOMAIN cap : c # b /\ (cap[c] > cap[b] \/ (cap[c] = cap[b] /\ c < b))}
  <2>1. C \in SUBSET Bins
    BY <1>3
  <2>2. taken[b] = Least(cap[b], AtLeast0(need - Total(cap, C)))
    BY <1>3
  <2> HIDE DEF C
  <2> QED BY <1>3, <2>1, <2>2, WalkOfBins
<1>5. taken \in [Bins -> Nat]
  <2>1. DOMAIN taken = Bins
    BY <1>3
  <2> QED BY <1>4, <2>1
<1>6. Total(taken, Bins) \in Nat
  <2> HIDE DEF taken
  <2> QED BY <1>5, RowsOfStock, UnitsFinite DEF NatOn
<1> HIDE DEF taken, cap
<1> QED BY <1>1, <1>3, <1>4, <1>5, <1>6 DEF Reserved

LEMMA ReserveWalkShelf ==
  ASSUME NEW inv, Shelf(inv), NEW i \in Items, NEW need \in Int
  PROVE  Shelf(ReserveWalk(inv, i, need))
<1> DEFINE taken == ReserveTaken(inv, i, need)
           new == [r \in Rows |-> IF r[1] = i THEN [inv[r] EXCEPT !.allocated = @ + taken[r[2]]]
                                  ELSE inv[r]]
<1>1. ReserveWalk(inv, i, need) = new
  BY DEF ReserveWalk
<1>2. \A b \in Bins : taken[b] \in Nat /\ taken[b] <= AtLeast0(Available(inv, i, b))
  BY ReserveBounds
<1> HIDE DEF taken
<1>3. ASSUME NEW r \in Rows
      PROVE  /\ new[r] \in [on_hand : Int, allocated : Int]
             /\ ~Unfloored => 0 <= new[r].on_hand /\ new[r].allocated <= new[r].on_hand
             /\ ~MayDip => 0 <= new[r].allocated
  <2>1. /\ inv[r] \in [on_hand : Int, allocated : Int]
        /\ ~Unfloored => 0 <= inv[r].on_hand /\ inv[r].allocated <= inv[r].on_hand
        /\ ~MayDip => 0 <= inv[r].allocated
    BY DEF Shelf, InventoryType
  <2>2. CASE r[1] = i
    <3>1. r = <<i, r[2]>> /\ r[2] \in Bins
      BY <2>2, RowsOfStock
    <3>2. taken[r[2]] \in Nat /\ taken[r[2]] <= AtLeast0(inv[r].on_hand - inv[r].allocated)
      BY <1>2, <3>1 DEF Available
    <3> QED BY <2>1, <2>2, <3>2 DEF AtLeast0
  <2>3. CASE r[1] # i
    BY <2>1, <2>3
  <2> QED BY <2>2, <2>3
<1>4. new \in InventoryType
  BY <1>3 DEF InventoryType
<1> HIDE DEF new
<1> QED BY <1>1, <1>3, <1>4 DEF Shelf

\* a table put together from the rows of tables in order is in order
LEMMA ShelfByItem ==
  ASSUME NEW f, \A i \in Items : Shelf(f[i])
  PROVE  Shelf([r \in Rows |-> f[r[1]][r]])
<1>1. \A r \in Rows : Shelf(f[r[1]])
  BY RowsOfStock
<1> QED BY <1>1 DEF Shelf, InventoryType

\* one row is written
LEMMA ShelfRow ==
  ASSUME NEW inv, Shelf(inv), NEW r, NEW row,
         r \in Rows => /\ row \in [on_hand : Int, allocated : Int]
                       /\ ~Unfloored => 0 <= row.on_hand /\ row.allocated <= row.on_hand
                       /\ ~MayDip => 0 <= row.allocated
  PROVE  Shelf([inv EXCEPT ![r] = row])
  BY DEF Shelf, InventoryType

-----------------------------------------------------------------------------
(* What a create works with *)

LEMMA LineRows ==
  ASSUME NEW rows, LineTable(rows), NEW l \in Lines
  PROVE  /\ rows[l] \in LineRow
         /\ rows[l].ordered \in Nat /\ rows[l].allocated \in Nat /\ rows[l].picked \in Nat
  BY DEF LineTable, LineRow

LEMMA StandingAmounts ==
  ASSUME NEW db, LineTable(db.line), NEW O
  PROVE  Amounts(Standing(db, O)) /\ Amounts(Needs(db, O))
<1> DEFINE L == {m \in LiveLines(db) : m[1] \in O /\ db.line[m].allocated > db.line[m].picked}
           M == {m \in LiveLines(db) : m[1] \in O /\ db.line[m].ordered > db.line[m].allocated}
<1>1. L \in SUBSET Lines /\ M \in SUBSET Lines
  BY DEF LiveLines
<1>2. \A l \in L : db.line[l].allocated - db.line[l].picked \in Nat
  BY <1>1, LineRows
<1>3. \A l \in M : db.line[l].ordered - db.line[l].allocated \in Nat
  BY <1>1, LineRows
<1>4. Standing(db, O) \in [L -> Nat]
  BY <1>2 DEF Standing
<1>5. Needs(db, O) \in [M -> Nat]
  BY <1>3 DEF Needs
<1> HIDE DEF L, M
<1> QED BY <1>1, <1>4, <1>5 DEF Amounts

\* the rows of some tasks or lines of which a quantity is summed
LEMMA AmountsTotal ==
  ASSUME NEW m, Amounts(m), NEW L, L \subseteq DOMAIN m
  PROVE  /\ DOMAIN m \in SUBSET Lines /\ IsFiniteSet(DOMAIN m)
         /\ Total(m, L) \in Nat /\ Total([l \in L |-> m[l]], L) \in Nat
<1>1. PICK D \in SUBSET Lines : m \in [D -> Nat]
  BY DEF Amounts
<1>2. DOMAIN m = D /\ IsFiniteSet(D)
  BY <1>1, FiniteLines
<1>3. IsFiniteSet(L)
  <2>1. L \in SUBSET D
    BY <1>2
  <2> QED BY <1>2, <2>1, FS_Subset
<1>4. NatOn(m, L) /\ NatOn([l \in L |-> m[l]], L)
  BY <1>1 DEF NatOn
<1> QED BY <1>1, <1>2, <1>3, <1>4, UnitsFinite

LEMMA NormaliseBooks ==
  ASSUME NEW db, Books(db), NEW standing, Amounts(standing)
  PROVE  Books(_normalize_so_reservations(db, standing))
<1> DEFINE new == _normalize_so_reservations(db, standing)
           held(i) == SumOver(LAMBDA l : standing[l], {l \in DOMAIN standing : l[2] = i})
           freed == [i \in Items |-> ReleaseWalk(db.inv, i, held(i))]
           rows == [l \in Lines |-> IF l \in DOMAIN standing
                                    THEN [db.line[l] EXCEPT !.allocated = db.line[l].picked]
                                    ELSE db.line[l]]
<1>1. /\ Session(new) /\ new.task = db.task
      /\ new.inv = [r \in Rows |-> freed[r[1]][r]]
      /\ new.line = rows
  BY DEF Books, Session, _normalize_so_reservations
<1>2. ASSUME NEW i \in Items PROVE held(i) \in Nat
  <2> DEFINE L == {l \in DOMAIN standing : l[2] = i}
  <2>1. held(i) = Total([l \in L |-> standing[l]], L)
    BY DEF SumOver
  <2>2. L \subseteq DOMAIN standing
    OBVIOUS
  <2> HIDE DEF L
  <2> QED BY <2>1, <2>2, AmountsTotal
<1>3. \A i \in Items : Shelf(freed[i])
  <2> HIDE DEF held
  <2> QED BY <1>2, ReleaseWalkShelf DEF Books
<1>4. Shelf(new.inv)
  <2> HIDE DEF freed, new
  <2> QED BY <1>1, <1>3, ShelfByItem
<1>5. LineTable(rows)
  <2>1. \A l \in Lines : [db.line[l] EXCEPT !.allocated = db.line[l].picked] \in LineRow
    BY LineRows DEF Books, LineRow
  <2> QED BY <2>1, LineRows DEF Books, LineTable
<1>6. Books(new)
  <2> HIDE DEF new, rows
  <2> QED BY <1>1, <1>4, <1>5 DEF Books
<1> QED BY <1>6

-----------------------------------------------------------------------------
(* The walk of the contributors over the bins: from no row more than is free. *)

\* where the bin's free units begin, and where the line's begin, laid end to end
BinStart(db, i, c)  == SumOver(LAMBDA a : AtLeast0(Available(db.inv, i, a)), {a \in Pickable : a < c})
LineStart(need, l) == Total(need, {m \in DOMAIN need : m[2] = l[2] /\ m[1] < l[1]})
FreeIn(db, i, c)    == AtLeast0(Available(db.inv, i, c))

LEMMA FreeBounds ==
  ASSUME NEW db, Shelf(db.inv), NEW i \in Items, NEW c \in Bins
  PROVE  FreeIn(db, i, c) \in Nat /\ BinStart(db, i, c) \in Nat
<1>1. \A a \in Bins : AtLeast0(Available(db.inv, i, a)) \in Nat
  <2> SUFFICES ASSUME NEW a \in Bins
               PROVE  AtLeast0(Available(db.inv, i, a)) \in Nat
    OBVIOUS
  <2>1. <<i, a>> \in Rows
    BY RowsOfStock
  <2>2. db.inv[<<i, a>>].on_hand \in Int /\ db.inv[<<i, a>>].allocated \in Int
    BY <2>1 DEF Shelf, InventoryType
  <2> QED BY <2>2 DEF Available, AtLeast0
<1> DEFINE A == {a \in Pickable : a < c}
           free == [a \in A |-> AtLeast0(Available(db.inv, i, a))]
<1>2. BinStart(db, i, c) = Total(free, A)
  BY DEF BinStart, SumOver
<1>3. A \in SUBSET Bins
  BY BinsAssumption
<1>4. NatOn(free, A)
  BY <1>1, <1>3 DEF NatOn
<1> HIDE DEF A, free
<1>5. IsFiniteSet(A)
  BY <1>3, RowsOfStock, FS_Subset
<1> QED BY <1>1, <1>2, <1>4, <1>5, UnitsFinite DEF FreeIn

LEMMA LineStarts ==
  ASSUME NEW need, Amounts(need), NEW l \in DOMAIN need
  PROVE  /\ LineStart(need, l) \in Nat /\ need[l] \in Nat
         /\ \A m \in DOMAIN need : m[2] = l[2] /\ m[1] < l[1] =>
              LineStart(need, m) + need[m] <= LineStart(need, l)
<1>1. PICK D \in SUBSET Lines : need \in [D -> Nat]
  BY DEF Amounts
<1>2. DOMAIN need = D /\ IsFiniteSet(D)
  BY <1>1, FiniteLines
<1> DEFINE B(k) == {m \in DOMAIN need : m[2] = k[2] /\ m[1] < k[1]}
<1>3. ASSUME NEW k \in DOMAIN need
      PROVE  IsFiniteSet(B(k)) /\ NatOn(need, B(k)) /\ LineStart(need, k) = Total(need, B(k))
  <2>1. B(k) \in SUBSET D
    BY <1>2
  <2>2. IsFiniteSet(B(k))
    BY <1>2, <2>1, FS_Subset
  <2> QED BY <1>1, <2>1, <2>2 DEF NatOn, LineStart
<1>4. LineStart(need, l) \in Nat
  <2> HIDE DEF B
  <2> QED BY <1>3, UnitsFinite
<1>5. ASSUME NEW m \in DOMAIN need, m[2] = l[2], m[1] < l[1]
      PROVE  LineStart(need, m) + need[m] <= LineStart(need, l)
  <2>1. m[1] \in Nat /\ l[1] \in Nat /\ \A k \in DOMAIN need : k[1] \in Nat
    BY <1>2, OrdersAssumption DEF Lines
  <2>2. m \in B(l) /\ B(m) \subseteq B(l) \ {m}
    BY <1>5, <2>1
  <2>3. Total(need, B(l)) = Total(need, B(l) \ {m}) + need[m] /\ Total(need, B(l) \ {m}) \in Nat
    <3> HIDE DEF B
    <3> QED BY <1>3, <2>2, TotalWithout
  <2>4. Total(need, B(m)) <= Total(need, B(l) \ {m}) /\ Total(need, B(m)) \in Nat
    <3>1. IsFiniteSet(B(l) \ {m})
      <4> HIDE DEF B
      <4> QED BY <1>3, FS_RemoveElement
    <3>2. NatOn(need, B(l) \ {m})
      <4> HIDE DEF B
      <4> QED BY <1>3 DEF NatOn
    <3> HIDE DEF B
    <3> QED BY <2>2, <3>1, <3>2, TotalSubset
  <2>5. need[m] \in Nat
    BY <1>1, <1>2
  <2> HIDE DEF B
  <2> QED BY <1>3, <2>3, <2>4, <2>5
<1> QED BY <1>1, <1>2, <1>4, <1>5

\* the units a line takes from a bin are units of the line and units of the bin
LEMMA TakenUnits ==
  ASSUME NEW db, Shelf(db.inv), NEW need, Amounts(need), NEW l \in DOMAIN need, NEW c \in Pickable
  PROVE  /\ Taken(db, need, l, c) \in Nat
         /\ \A k \in 1 .. Taken(db, need, l, c) :
              \E p \in Nat : /\ p = MaxOf2(LineStart(need, l), BinStart(db, l[2], c)) + k
                             /\ LineStart(need, l) < p /\ p <= LineStart(need, l) + need[l]
                             /\ p - BinStart(db, l[2], c) \in 1 .. FreeIn(db, l[2], c)
<1> DEFINE ls == LineStart(need, l)
           bs == BinStart(db, l[2], c)
           fr == FreeIn(db, l[2], c)
           n  == need[l]
<1>1. c \in Bins /\ l[2] \in Items
  <2>1. DOMAIN need \in SUBSET Lines
    BY AmountsTotal
  <2> QED BY <2>1, BinsAssumption DEF Lines
<1>2. ls \in Nat /\ n \in Nat /\ bs \in Nat /\ fr \in Nat
  BY <1>1, FreeBounds, LineStarts
<1>3. Taken(db, need, l, c) = AtLeast0(Least(ls + n, bs + fr) - MaxOf2(ls, bs))
  BY DEF Taken, LineStart, BinStart, FreeIn
<1> HIDE DEF ls, bs, fr, n
<1>4. AtLeast0(Least(ls + n, bs + fr) - MaxOf2(ls, bs)) \in Nat
  BY <1>2 DEF AtLeast0, Least, MaxOf2
<1>5. ASSUME NEW k \in 1 .. AtLeast0(Least(ls + n, bs + fr) - MaxOf2(ls, bs))
      PROVE  /\ MaxOf2(ls, bs) + k \in Nat
             /\ ls < MaxOf2(ls, bs) + k /\ MaxOf2(ls, bs) + k <= ls + n
             /\ (MaxOf2(ls, bs) + k) - bs \in 1 .. fr
  BY <1>2 DEF AtLeast0, Least, MaxOf2
<1> QED BY <1>3, <1>4, <1>5 DEF ls, bs, fr, n

\* _plan_coverage and the loops after it: whoever contributes, a bin gives what it has free
LEMMA TakenFits ==
  ASSUME NEW db, Shelf(db.inv), NEW need, Amounts(need), NEW i \in Items, NEW c \in Bins
  PROVE  LET taken == Allocation(db, need)
             X == {x \in DOMAIN taken : x[1][2] = i /\ x[2] = c}
         IN  Total(taken, X) \in Nat /\ Total(taken, X) <= FreeIn(db, i, c)
<1> DEFINE taken == Allocation(db, need)
           X == {x \in DOMAIN taken : x[1][2] = i /\ x[2] = c}
           start(l) == MaxOf2(LineStart(need, l), BinStart(db, i, c))
           U == Units(taken, X)
           place == [u \in U |-> start(u[1][1]) + u[2] - BinStart(db, i, c)]
           fr == FreeIn(db, i, c)
<1>1. DOMAIN taken = (DOMAIN need) \X Pickable
      /\ \A l \in DOMAIN need, b \in Pickable : taken[<<l, b>>] = Taken(db, need, l, b)
  BY DEF Allocation
<1>2. fr \in Nat /\ fr = FreeIn(db, i, c) /\ BinStart(db, i, c) \in Nat
  BY FreeBounds
<1>3. ASSUME NEW u \in U
      PROVE  \E l \in DOMAIN need, k \in Nat, p \in Nat :
                /\ u = <<<<l, c>>, k>> /\ l[2] = i
                /\ p = start(l) + k /\ place[u] = p - BinStart(db, i, c)
                /\ LineStart(need, l) < p /\ p <= LineStart(need, l) + need[l]
                /\ place[u] \in 1 .. fr
  <2>1. PICK x \in X : \E k \in 1 .. taken[x] : u = <<x, k>>
    <3> HIDE DEF X, taken
    <3> QED BY UnitIn
  <2>2. PICK k \in 1 .. taken[x] : u = <<x, k>>
    BY <2>1
  <2>3. PICK l \in DOMAIN need : x = <<l, c>> /\ l[2] = i /\ c \in Pickable
    BY <1>1
  <2>4. taken[x] = Taken(db, need, l, c)
    BY <1>1, <2>3
  <2> HIDE DEF taken, X, U
  <2>5. taken[x] \in Nat /\ k \in Nat
    BY <2>2, <2>3, <2>4, TakenUnits
  <2>6. PICK p \in Nat : /\ p = MaxOf2(LineStart(need, l), BinStart(db, l[2], c)) + k
                         /\ LineStart(need, l) < p /\ p <= LineStart(need, l) + need[l]
                         /\ p - BinStart(db, l[2], c) \in 1 .. FreeIn(db, l[2], c)
    BY <2>2, <2>3, <2>4, TakenUnits
  <2>7. u[1][1] = l /\ u[2] = k
    BY <2>2, <2>3
  <2>9. p = start(l) + k
    BY <2>3, <2>6
  <2>10. u = <<<<l, c>>, k>> /\ l[2] = i
    BY <2>2, <2>3
  <2>11. place[u] = p - BinStart(db, i, c)
    <3>1. place[u] = start(u[1][1]) + u[2] - BinStart(db, i, c)
      OBVIOUS
    <3>2. place[u] = start(l) + k - BinStart(db, i, c)
      <4> HIDE DEF place, start
      <4> QED BY <2>7, <3>1, Zenon
    <3>3. start(l) + k - BinStart(db, i, c) = p - BinStart(db, i, c)
      <4>1. start(l) \in Nat
        BY <1>2, LineStarts DEF MaxOf2
      <4> HIDE DEF place, start
      <4> QED BY <1>2, <2>5, <2>9, <4>1
    <3> HIDE DEF place, start
    <3> QED BY <3>2, <3>3, Zenon
  <2> HIDE DEF start, place, fr
  <2>12. p - BinStart(db, i, c) \in 1 .. fr
    BY <2>3, <2>6 DEF fr
  <2> QED BY <2>5, <2>6, <2>9, <2>10, <2>11, <2>12
<1>4. ASSUME NEW u \in U, NEW v \in U, place[u] = place[v]
      PROVE  u = v
  <2>1. PICK l \in DOMAIN need, k \in Nat, p \in Nat :
                /\ u = <<<<l, c>>, k>> /\ l[2] = i
                /\ p = start(l) + k /\ place[u] = p - BinStart(db, i, c)
                /\ LineStart(need, l) < p /\ p <= LineStart(need, l) + need[l]
    BY <1>3
  <2>2. PICK m \in DOMAIN need, j \in Nat, q \in Nat :
                /\ v = <<<<m, c>>, j>> /\ m[2] = i
                /\ q = start(m) + j /\ place[v] = q - BinStart(db, i, c)
                /\ LineStart(need, m) < q /\ q <= LineStart(need, m) + need[m]
    BY <1>3
  <2>3. p = q
    BY <1>2, <1>4, <2>1, <2>2
  <2>4. /\ LineStart(need, l) \in Nat /\ need[l] \in Nat
        /\ LineStart(need, m) \in Nat /\ need[m] \in Nat
        /\ m[1] < l[1] => LineStart(need, m) + need[m] <= LineStart(need, l)
        /\ l[1] < m[1] => LineStart(need, l) + need[l] <= LineStart(need, m)
    BY <2>1, <2>2, LineStarts
  <2>5. /\ l \in Lines /\ m \in Lines
        /\ l[1] \in Nat /\ m[1] \in Nat
    <3>1. DOMAIN need \in SUBSET Lines
      BY AmountsTotal
    <3> QED BY <3>1, OrdersAssumption DEF Lines
  <2>6. l[1] = m[1]
    BY <2>1, <2>2, <2>3, <2>4, <2>5
  <2>7. l = m
    BY <2>1, <2>2, <2>5, <2>6 DEF Lines
  <2>8. start(l) \in Nat
    BY <1>2, <2>4 DEF MaxOf2
  <2>9. k = j
    <3> HIDE DEF start
    <3> QED BY <2>1, <2>2, <2>3, <2>7, <2>8
  <2> QED BY <2>1, <2>2, <2>7, <2>9
<1>5. place \in Injection(U, 1 .. fr)
  <2>1. \A u \in U : place[u] \in 1 .. fr
    BY <1>3
  <2>2. place \in [U -> 1 .. fr]
    BY <2>1
  <2> HIDE DEF U, place, fr
  <2> QED BY <1>4, <2>2 DEF Injection, IsInjective
<1>6. IsFiniteSet(1 .. fr) /\ Cardinality(1 .. fr) = fr
  <2> HIDE DEF fr
  <2> QED BY <1>2, IntervalSize
<1>7. IsFiniteSet(U) /\ Cardinality(U) <= fr
  <2> HIDE DEF U, place, fr
  <2> QED BY <1>5, <1>6, FS_Injection
<1>8. Total(taken, X) = Cardinality(U)
  BY DEF Total
<1>9. Cardinality(U) \in Nat
  BY <1>7, FS_CardinalityType
<1> QED BY <1>2, <1>7, <1>8, <1>9

\* the allocation of a create: a quantity for each line and bin
LEMMA AllocationTable ==
  ASSUME NEW db, Shelf(db.inv), NEW need, Amounts(need)
  PROVE  LET taken == Allocation(db, need)
         IN  /\ taken \in [(DOMAIN need) \X Pickable -> Nat]
             /\ IsFiniteSet(DOMAIN taken)
             /\ DOMAIN need \in SUBSET Lines
             /\ \A X \in SUBSET (DOMAIN taken) : Total(taken, X) \in Nat
<1> DEFINE taken == Allocation(db, need)
           D == (DOMAIN need) \X Pickable
<1>1. DOMAIN need \in SUBSET Lines /\ IsFiniteSet(DOMAIN need)
  BY AmountsTotal
<1>2. taken \in [D -> Nat]
  BY TakenUnits DEF Allocation
<1>3. IsFiniteSet(D)
  BY <1>1, RowsOfStock, FS_Product
<1> HIDE DEF taken, D
<1>4. NatOn(taken, D) /\ DOMAIN taken = D
  BY <1>2 DEF NatOn
<1>5. \A X \in SUBSET D : Total(taken, X) \in Nat
  BY <1>3, <1>4, TotalSubset
<1> QED BY <1>1, <1>2, <1>3, <1>4, <1>5 DEF taken, D

\* the rows of a set of tasks written from the rows of a table
LEMMA FiniteRows ==
  ASSUME NEW S, IsFiniteSet(S), NEW f, f = [x \in S |-> f[x]]
  PROVE  IsFiniteSet({f[x] : x \in S})
<1> DEFINE T == {f[x] : x \in S}
<1>1. f \in Surjection(S, T)
  BY DEF Surjection
<1> QED BY <1>1, FS_Surjection

MayPend == ~MayDip => ~Does("cancel")

LEMMA NewTaskRow ==
  ASSUME NEW b, NEW o, NEW i, NEW bin, NEW q \in Nat, NEW share, Shares(share), MayPend
  PROVE  TaskRow(NewTask(b, o, i, bin, q, share))
  BY DEF TaskRow, NewTask, TaskFields, MayPend

LEMMA NoSharesAreShares == Shares(NoShare)
<1>1. NoShare \in [{} -> Nat]
  BY DEF NoShare
<1> QED BY <1>1 DEF Shares

LEMMA LineTasksTable ==
  ASSUME NEW L \in SUBSET Lines, NEW taken \in [L \X Pickable -> Nat],
         IsFiniteSet(DOMAIN taken), NEW b, MayPend
  PROVE  TaskTable(LineTasks(taken, b))
<1> DEFINE S == {y \in DOMAIN taken : taken[y] > 0}
           f == [x \in S |-> NewTask(b, x[1][1], x[1][2], x[2], taken[x], NoShare)]
<1>1. IsFiniteSet(S)
  <2>1. S \in SUBSET (DOMAIN taken)
    OBVIOUS
  <2> QED BY <2>1, FS_Subset
<1>2. LineTasks(taken, b) = {f[x] : x \in S}
  BY DEF LineTasks
<1>3. \A x \in S : TaskRow(f[x])
  BY NewTaskRow, NoSharesAreShares
<1>4. f = [x \in S |-> f[x]]
  OBVIOUS
<1> HIDE DEF f, S
<1> QED BY <1>1, <1>2, <1>3, <1>4, FiniteRows DEF TaskTable

LEMMA WaveTasksTable ==
  ASSUME NEW L \in SUBSET Lines, NEW taken \in [L \X Pickable -> Nat],
         IsFiniteSet(DOMAIN taken), NEW b, MayPend
  PROVE  TaskTable(WaveTasks(taken, b))
<1> DEFINE S == {y \in DOMAIN taken : taken[y] > 0}
           f == [x \in S |-> WaveTask(taken, b, x[1][2], x[2])]
<1>1. IsFiniteSet(S)
  <2>1. S \in SUBSET (DOMAIN taken)
    OBVIOUS
  <2> QED BY <2>1, FS_Subset
<1>2. WaveTasks(taken, b) = {f[x] : x \in S}
  BY DEF WaveTasks
<1>3. ASSUME NEW x \in S PROVE TaskRow(f[x])
  <2> DEFINE i == x[1][2]
             c == x[2]
             O == {p \in Contributors(taken, i) : taken[<< <<p, i>>, c>>] > 0}
             share == [o \in O |-> taken[<< <<o, i>>, c>>]]
  <2>1. x \in L \X Pickable /\ c \in Pickable
    OBVIOUS
  <2>2. \A p \in Contributors(taken, i) : p \in Orders /\ <<p, i>> \in L
    <3> SUFFICES ASSUME NEW y \in DOMAIN taken, y[1][2] = i
                 PROVE  y[1][1] \in Orders /\ <<y[1][1], i>> \in L
      BY DEF Contributors
    <3>1. y[1] \in L /\ y[1] \in Lines
      OBVIOUS
    <3>2. y[1] = <<y[1][1], y[1][2]>> /\ y[1][1] \in Orders
      BY <3>1 DEF Lines
    <3> QED BY <3>1, <3>2
  <2>3. \A o \in O : taken[<< <<o, i>>, c>>] \in Nat
    BY <2>1, <2>2
  <2>4. O \in SUBSET Orders
    BY <2>2
  <2>5. share \in [O -> Nat]
    BY <2>3
  <2> HIDE DEF O
  <2>6. Shares(share)
    BY <2>4, <2>5 DEF Shares
  <2>7. IsFiniteSet(O)
    BY <2>4, OrdersAssumption, FS_Subset
  <2> HIDE DEF share
  <2>8. DOMAIN share = O /\ NatOn(share, O)
    BY <2>5 DEF NatOn
  <2>9. Total(share, DOMAIN share) \in Nat
    BY <2>7, <2>8, UnitsFinite
  <2>10. f[x] = NewTask(b, Min(Contributors(taken, i)), i, c, Total(share, DOMAIN share), share)
    BY DEF WaveTask, share, O
  <2> HIDE DEF f
  <2> QED BY <2>6, <2>9, <2>10, NewTaskRow
<1>4. f = [x \in S |-> f[x]]
  OBVIOUS
<1> HIDE DEF f, S
<1> QED BY <1>1, <1>2, <1>3, <1>4, FiniteRows DEF TaskTable

LEMMA TasksTogether ==
  ASSUME NEW S, TaskTable(S), NEW T, TaskTable(T)
  PROVE  TaskTable(S \cup T)
  BY FS_Union DEF TaskTable

\* a create reserves from each bin no more than it has free
LEMMA ReserveBooks ==
  ASSUME NEW db, Books(db), NEW need, Amounts(need), NEW T, TaskTable(T), NEW b, NEW u, NEW O
  PROVE  Books(Reserve(db, Allocation(db, need), T, b, u, O))
<1> DEFINE taken == Allocation(db, need)
           new == Reserve(db, taken, T, b, u, O)
           ofLine(l)     == Total(taken, {x \in DOMAIN taken : x[1] = l})
           fromBin(i, c) == Total(taken, {x \in DOMAIN taken : x[1][2] = i /\ x[2] = c})
           inv  == [r \in Rows |-> [db.inv[r] EXCEPT !.allocated = @ + fromBin(r[1], r[2])]]
           rows == [l \in Lines |-> [db.line[l] EXCEPT !.allocated = @ + ofLine(l)]]
<1>1. /\ Session(new)
      /\ new.inv = inv /\ new.line = rows /\ new.task = db.task \cup T
  BY DEF Reserve, Books, Session
<1>2. \A r \in Rows : fromBin(r[1], r[2]) \in Nat
                      /\ fromBin(r[1], r[2]) <= AtLeast0(Available(db.inv, r[1], r[2]))
  BY RowsOfStock, TakenFits DEF Books, FreeIn
<1>3. \A l \in Lines : ofLine(l) \in Nat
  BY AllocationTable DEF Books
<1> HIDE DEF fromBin, ofLine
<1>4. Shelf(inv)
  <2>1. ASSUME NEW r \in Rows
        PROVE  /\ inv[r] \in [on_hand : Int, allocated : Int]
               /\ ~Unfloored => 0 <= inv[r].on_hand /\ inv[r].allocated <= inv[r].on_hand
               /\ ~MayDip => 0 <= inv[r].allocated
    <3>1. /\ db.inv[r] \in [on_hand : Int, allocated : Int]
          /\ ~Unfloored => 0 <= db.inv[r].on_hand /\ db.inv[r].allocated <= db.inv[r].on_hand
          /\ ~MayDip => 0 <= db.inv[r].allocated
      BY DEF Books, Shelf, InventoryType
    <3>2. Available(db.inv, r[1], r[2]) = db.inv[r].on_hand - db.inv[r].allocated
      BY RowsOfStock DEF Available
    <3> QED BY <1>2, <3>1, <3>2 DEF AtLeast0
  <2> HIDE DEF inv
  <2>2. inv \in InventoryType
    BY <2>1 DEF InventoryType, inv
  <2> QED BY <2>1, <2>2 DEF Shelf
<1>5. LineTable(rows)
  <2>1. \A l \in Lines : [db.line[l] EXCEPT !.allocated = @ + ofLine(l)] \in LineRow
    BY <1>3, LineRows DEF Books, LineRow
  <2> QED BY <2>1 DEF LineTable
<1>6. Books(new)
  <2> HIDE DEF new, inv, rows
  <2> QED BY <1>1, <1>4, <1>5, TasksTogether DEF Books
<1> QED BY <1>6

\* what a create has read: plans are kept in requests
PlanRow(plan) ==
  /\ plan.op \in {"batch", "wave"} /\ MayPend
  /\ Amounts(plan.standing)
  /\ (plan.needs = NULL /\ ~plan.planned) \/ Amounts(plan.needs)

LEMMA PlanIsPlan ==
  ASSUME NEW db, LineTable(db.line), NEW op \in {"batch", "wave"}, MayPend, NEW u, NEW O
  PROVE  PlanRow(Plan(db, op, u, O))
<1>1. Amounts(Standing(db, O)) /\ Amounts(Needs(db, O))
  BY StandingAmounts
<1> QED BY <1>1 DEF PlanRow, Plan

LEMMA CommitDb ==
  ASSUME NEW new, Session(new), Commit(new)
  PROVE  /\ inventory' = new.inv /\ line' = new.line /\ task' = new.task
         /\ order' = new.order /\ batch' = new.batch
  BY DEF Commit

\* the books at the end of a step
BooksNow == Shelf(inventory) /\ LineTable(line) /\ TaskTable(task)

LEMMA BooksOfDb == BooksNow <=> Books(Db)
  BY DEF BooksNow, Books, Db, Session

LEMMA CommitBooks ==
  ASSUME NEW new, Books(new), Commit(new), UNCHANGED desk
  PROVE  BooksNow'
<1>1. inventory' = new.inv /\ line' = new.line /\ task' = new.task
  BY CommitDb DEF Books
<1>2. Shelf(inventory)'
  BY <1>1 DEF Books, Shelf, Unfloored, TakesFree, MayDip, Kinds, Does
<1>3. LineTable(line)'
  BY <1>1 DEF Books, LineTable
<1>4. TaskTable(task)'
  BY <1>1 DEF Books, TaskTable, TaskRow, Unfloored, TakesFree, MayDip, Kinds, Does
<1> QED BY <1>2, <1>3, <1>4 DEF BooksNow

LEMMA BooksKept ==
  ASSUME BooksNow, UNCHANGED <<inventory, line, task, desk>>
  PROVE  BooksNow'
<1>1. Shelf(inventory)'
  BY DEF BooksNow, Shelf, Unfloored, TakesFree, MayDip, Kinds, Does
<1>2. LineTable(line)' /\ TaskTable(task)'
  BY DEF BooksNow, LineTable, TaskTable, TaskRow, Unfloored, TakesFree, MayDip, Kinds, Does
<1> QED BY <1>1, <1>2 DEF BooksNow

LEMMA TaskSums ==
  ASSUME NEW T, TaskTable(T), NEW S, S \subseteq T
  PROVE  Quantity(S) \in Nat /\ Picked(S) \in Nat
<1>1. IsFiniteSet(S) /\ \A t \in S : t.qty \in Nat /\ t.picked \in Nat
  BY FS_Subset DEF TaskTable, TaskRow
<1>2. NatOn([t \in S |-> t.qty], S) /\ NatOn([t \in S |-> t.picked], S)
  BY <1>1 DEF NatOn
<1>3. Total([t \in S |-> t.qty], S) \in Nat /\ Total([t \in S |-> t.picked], S) \in Nat
  BY <1>1, <1>2, UnitsFinite
<1> QED BY <1>3 DEF Quantity, Picked, SumOver

\* every row of a table of tasks is written, or left as it is
LEMMA TasksWritten ==
  ASSUME NEW T, TaskTable(T), NEW f, f = [t \in T |-> f[t]], \A t \in T : TaskRow(f[t])
  PROVE  TaskTable({f[t] : t \in T})
<1>1. IsFiniteSet({f[t] : t \in T})
  BY FiniteRows DEF TaskTable
<1> QED BY <1>1 DEF TaskTable

LEMMA TasksFewer ==
  ASSUME NEW T, TaskTable(T), NEW S, S \subseteq T
  PROVE  TaskTable(S)
  BY FS_Subset DEF TaskTable

\* a table whose rows are each in order
LEMMA ShelfRows ==
  ASSUME NEW inv, NEW new, new = [r \in Rows |-> new[r]], Shelf(inv),
         \A r \in Rows : /\ new[r] \in [on_hand : Int, allocated : Int]
                         /\ ~Unfloored => 0 <= new[r].on_hand /\ new[r].allocated <= new[r].on_hand
                         /\ ~MayDip => 0 <= new[r].allocated
  PROVE  Shelf(new)
<1>1. new \in InventoryType
  BY DEF InventoryType
<1> QED BY <1>1 DEF Shelf

LEMMA RowOfShelf ==
  ASSUME NEW inv, Shelf(inv), NEW r \in Rows
  PROVE  /\ inv[r] \in [on_hand : Int, allocated : Int]
         /\ inv[r].on_hand \in Int /\ inv[r].allocated \in Int
         /\ ~Unfloored => 0 <= inv[r].on_hand /\ inv[r].allocated <= inv[r].on_hand
         /\ ~MayDip => 0 <= inv[r].allocated
         /\ Available(inv, r[1], r[2]) = inv[r].on_hand - inv[r].allocated
<1>1. r = <<r[1], r[2]>>
  BY RowsOfStock
<1> QED BY <1>1 DEF Shelf, InventoryType, Available

LEMMA LineTableRows ==
  ASSUME NEW new, new = [l \in Lines |-> new[l]], \A l \in Lines : new[l] \in LineRow
  PROVE  LineTable(new)
  BY DEF LineTable

\* full_revert_batch: what comes back is on the shelf, and what was held is freed
LEMMA RevertBooks ==
  ASSUME NEW db, Books(db), NEW B
  PROVE  Books(full_revert_batch(db, B))
<1> DEFINE new == full_revert_batch(db, B)
           T == {t \in db.task : /\ t.batch \in B /\ db.batch[t.batch].status = "OPEN"
                                 /\ t.status \in {"PENDING", "PICKED", "SHORT"}}
           at(r)      == {t \in T : t.item = r[1] /\ t.bin = r[2]}
           pending(r) == Quantity({t \in at(r) : t.status = "PENDING"})
           ofLine(l)  == {t \in T : t.line = l}
           inv == [r \in Rows |-> [on_hand   |-> db.inv[r].on_hand + Picked(at(r)),
                                   allocated |-> IF pending(r) = 0 THEN db.inv[r].allocated
                                                 ELSE AtLeast0(db.inv[r].allocated - pending(r))]]
           rows == [l \in Lines |-> [db.line[l] EXCEPT
                                      !.picked    = AtLeast0(@ - Picked(ofLine(l))),
                                      !.allocated = AtLeast0(@ - Quantity(ofLine(l)))]]
           write == [t \in db.task |-> IF t \in T THEN Undone(t) ELSE t]
<1>1. /\ Session(new)
      /\ new.inv = inv /\ new.line = rows /\ new.task = {write[t] : t \in db.task}
  BY DEF full_revert_batch, Books, Session
<1>2. \A r : pending(r) \in Nat /\ Picked(at(r)) \in Nat
  BY TaskSums DEF Books
<1>3. \A l : Picked(ofLine(l)) \in Nat /\ Quantity(ofLine(l)) \in Nat
  BY TaskSums DEF Books
<1>4. \A t \in db.task : TaskRow(write[t])
  <2> SUFFICES ASSUME NEW t \in db.task PROVE TaskRow(Undone(t)) /\ TaskRow(t)
    BY DEF Undone
  <2>1. TaskRow(t)
    BY DEF Books, TaskTable
  <2> QED BY <2>1 DEF TaskRow, TaskFields, Undone
<1>5. TaskTable({write[t] : t \in db.task})
  <2>1. write = [t \in db.task |-> write[t]]
    OBVIOUS
  <2> HIDE DEF write
  <2> QED BY <1>4, <2>1, TasksWritten DEF Books
<1> HIDE DEF at, pending, ofLine, T, write
<1>6. Shelf(inv)
  <2>1. ASSUME NEW r \in Rows
        PROVE  /\ inv[r] \in [on_hand : Int, allocated : Int]
               /\ ~Unfloored => 0 <= inv[r].on_hand /\ inv[r].allocated <= inv[r].on_hand
               /\ ~MayDip => 0 <= inv[r].allocated
    <3>1. /\ db.inv[r].on_hand \in Int /\ db.inv[r].allocated \in Int
          /\ ~Unfloored => 0 <= db.inv[r].on_hand /\ db.inv[r].allocated <= db.inv[r].on_hand
          /\ ~MayDip => 0 <= db.inv[r].allocated
      BY RowOfShelf DEF Books
    <3>2. pending(r) \in Nat /\ Picked(at(r)) \in Nat
      BY <1>2
    <3> QED BY <3>1, <3>2 DEF AtLeast0
  <2>2. inv = [r \in Rows |-> inv[r]]
    OBVIOUS
  <2> HIDE DEF inv
  <2> QED BY <2>1, <2>2, ShelfRows DEF Books
<1>7. LineTable(rows)
  <2>1. \A l \in Lines : rows[l] \in LineRow
    <3> SUFFICES ASSUME NEW l \in Lines PROVE rows[l] \in LineRow
      OBVIOUS
    <3>1. db.line[l] \in LineRow /\ db.line[l].picked \in Nat /\ db.line[l].allocated \in Nat
      BY LineRows DEF Books
    <3>2. /\ AtLeast0(db.line[l].picked - Picked(ofLine(l))) \in Nat
          /\ AtLeast0(db.line[l].allocated - Quantity(ofLine(l))) \in Nat
      BY <1>3, <3>1 DEF AtLeast0
    <3> QED BY <3>1, <3>2 DEF LineRow
  <2> HIDE DEF rows
  <2> QED BY <2>1, LineTableRows DEF rows
<1>8. Books(new)
  <2> HIDE DEF new, inv, rows
  <2> QED BY <1>1, <1>5, <1>6, <1>7 DEF Books
<1> QED BY <1>8

-----------------------------------------------------------------------------
(* confirm_pick and short_pick *)

\* no more leaves the shelf than was promised to the task
LEMMA ShelfTaken ==
  ASSUME NEW db, Shelf(db.inv), NEW t, TaskRow(t), NEW q \in Nat, q <= t.qty
  PROVE  Shelf(TakeFromShelf(db, t, q))
<1> DEFINE r == <<t.item, t.bin>>
           row == [on_hand |-> AtLeast0(db.inv[r].on_hand - q),
                   allocated |-> AtLeast0(db.inv[r].allocated - t.qty)]
<1>1. CASE r \in Rows
  <2>1. /\ db.inv[r] \in [on_hand : Int, allocated : Int]
        /\ db.inv[r].on_hand \in Int /\ db.inv[r].allocated \in Int
        /\ ~Unfloored => 0 <= db.inv[r].on_hand /\ db.inv[r].allocated <= db.inv[r].on_hand
    BY <1>1, RowOfShelf
  <2>2. t.qty \in Nat
    BY DEF TaskRow
  <2>3. /\ row \in [on_hand : Int, allocated : Int]
        /\ ~Unfloored => 0 <= row.on_hand /\ row.allocated <= row.on_hand
        /\ 0 <= row.allocated
    BY <2>1, <2>2 DEF AtLeast0
  <2>4. DOMAIN db.inv = Rows
    BY DEF Shelf, InventoryType
  <2>5. TakeFromShelf(db, t, q) = [db.inv EXCEPT ![r] = row]
    BY <1>1, <2>1, <2>4 DEF TakeFromShelf, take_floored, release_floored
  <2> HIDE DEF row, r
  <2> QED BY <2>3, <2>5, ShelfRow
<1>2. CASE r \notin Rows
  <2>1. TakeFromShelf(db, t, q) = db.inv
    BY <1>2 DEF TakeFromShelf, take_floored, release_floored, Shelf, InventoryType
  <2> QED BY <2>1
<1> QED BY <1>1, <1>2

LEMMA PickedLines ==
  ASSUME NEW db, LineTable(db.line), NEW gain, \A l \in DOMAIN gain : gain[l] \in Nat
  PROVE  LineTable(AddPicked(db, gain))
<1> DEFINE rows == AddPicked(db, gain)
<1>1. ASSUME NEW l \in Lines PROVE rows[l] \in LineRow
  <2>1. db.line[l] \in LineRow /\ db.line[l].picked \in Nat
    BY LineRows
  <2> QED BY <2>1 DEF AddPicked, LineRow
<1>2. rows = [l \in Lines |-> rows[l]]
  BY DEF AddPicked
<1> HIDE DEF rows
<1> QED BY <1>1, <1>2, LineTableRows DEF rows

LEMMA SharedGain ==
  ASSUME NEW db, NEW t, NEW share, \A o \in DOMAIN t.share : share[o] \in Nat
  PROVE  \A l \in DOMAIN Shared(db, t, share) : Shared(db, t, share)[l] \in Nat
<1>1. WithLine(db, t) \subseteq DOMAIN t.share
  BY DEF WithLine
<1> QED BY <1>1 DEF Shared

LEMMA GivenShares ==
  ASSUME NEW t, TaskRow(t), NEW q \in Nat
  PROVE  \A o \in DOMAIN t.share : Given(t, q)[o] \in Nat
<1>1. PICK O \in SUBSET Orders : t.share \in [O -> Nat]
  BY DEF TaskRow, Shares
<1> SUFFICES ASSUME NEW o \in O PROVE Given(t, q)[o] \in Nat
  BY <1>1
<1> DEFINE P == {c \in DOMAIN t.share : c # o /\ c < o}
<1>2. Given(t, q)[o] = Least(t.share[o], AtLeast0(q - Total(t.share, P)))
  BY <1>1 DEF Given, Walk
<1>3. P \subseteq O /\ IsFiniteSet(O)
  BY <1>1, OrdersAssumption, FS_Subset
<1>4. NatOn(t.share, O)
  BY <1>1 DEF NatOn
<1> HIDE DEF P
<1>5. Total(t.share, P) \in Nat
  BY <1>3, <1>4, TotalSubset
<1>6. q - Total(t.share, P) \in Int /\ t.share[o] \in Nat
  BY <1>1, <1>5
<1> QED BY <1>2, <1>6, BoundedTake

LEMMA TaskWritten ==
  ASSUME NEW db, TaskTable(db.task), NEW t, NEW row, row.status # "PENDING", row.picked \in Nat
  PROVE  TaskTable(WriteTask(db, t, row))
<1> DEFINE write == [s \in db.task |->
                       IF s.id = t.id THEN [s EXCEPT !.status = row.status, !.picked = row.picked,
                                                     !.shorted = @ \cup row.shorted]
                       ELSE s]
<1>1. \A s \in db.task : TaskRow(write[s])
  <2> SUFFICES ASSUME NEW s \in db.task
               PROVE  TaskRow([s EXCEPT !.status = row.status, !.picked = row.picked,
                                        !.shorted = @ \cup row.shorted]) /\ TaskRow(s)
    OBVIOUS
  <2>1. TaskRow(s)
    BY DEF TaskTable
  <2> QED BY <2>1 DEF TaskRow, TaskFields
<1>2. write = [s \in db.task |-> write[s]]
  OBVIOUS
<1>3. WriteTask(db, t, row) = {write[s] : s \in db.task}
  BY DEF WriteTask
<1> HIDE DEF write
<1> QED BY <1>1, <1>2, <1>3, TasksWritten

LEMMA PickBooks ==
  ASSUME NEW db, Books(db), NEW t, TaskRow(t), NEW q \in Nat, q <= t.qty
  PROVE  Books(confirm_pick(db, t, q)) /\ Books(short_pick(db, t, q))
<1>1. Shelf(TakeFromShelf(db, t, q))
  BY ShelfTaken DEF Books
<1> DEFINE one == [l \in {t.line} |-> q]
<1>2. \A l \in DOMAIN one : one[l] \in Nat
  OBVIOUS
<1>3. Books(confirm_pick(db, t, q))
  <2> DEFINE new == confirm_pick(db, t, q)
             gain == IF IsWaveTask(t) THEN Shared(db, t, t.share) ELSE one
             row == [status |-> "PICKED", picked |-> q, shorted |-> {}]
  <2>1. /\ Session(new)
        /\ new.inv = TakeFromShelf(db, t, q)
        /\ new.line = AddPicked(db, gain)
        /\ new.task = WriteTask(db, t, row)
    BY DEF confirm_pick, Books, Session
  <2>2. \A o \in DOMAIN t.share : t.share[o] \in Nat
    BY DEF TaskRow, Shares
  <2>3. \A l \in DOMAIN gain : gain[l] \in Nat
    <3> HIDE DEF one
    <3>1. \A l \in DOMAIN Shared(db, t, t.share) : Shared(db, t, t.share)[l] \in Nat
      BY <2>2, SharedGain
    <3> QED BY <1>2, <3>1
  <2> HIDE DEF new, gain
  <2>4. LineTable(new.line)
    BY <2>1, <2>3, PickedLines DEF Books
  <2>5. TaskTable(new.task)
    <3>1. row.status # "PENDING" /\ row.picked \in Nat
      OBVIOUS
    <3> HIDE DEF row
    <3> QED BY <2>1, <3>1, TaskWritten DEF Books
  <2>6. Books(new)
    BY <1>1, <2>1, <2>4, <2>5 DEF Books
  <2> QED BY <2>6 DEF new
<1>4. Books(short_pick(db, t, q))
  <2> DEFINE new == short_pick(db, t, q)
             gain == IF IsWaveTask(t) THEN Shared(db, t, Given(t, q)) ELSE one
             row == [status |-> "SHORT", picked |-> q,
                     shorted |-> {o \in WithLine(db, t) : Given(t, q)[o] < t.share[o]}]
  <2>1. /\ Session(new)
        /\ new.inv = TakeFromShelf(db, t, q)
        /\ new.line = AddPicked(db, gain)
        /\ new.task = WriteTask(db, t, row)
    BY DEF short_pick, Books, Session
  <2>3. \A l \in DOMAIN gain : gain[l] \in Nat
    <3> HIDE DEF one
    <3>1. \A o \in DOMAIN t.share : Given(t, q)[o] \in Nat
      BY GivenShares
    <3>2. \A l \in DOMAIN Shared(db, t, Given(t, q)) : Shared(db, t, Given(t, q))[l] \in Nat
      BY <3>1, SharedGain
    <3> QED BY <1>2, <3>2
  <2> HIDE DEF new, gain
  <2>4. LineTable(new.line)
    BY <2>1, <2>3, PickedLines DEF Books
  <2>5. TaskTable(new.task)
    <3>1. row.status # "PENDING" /\ row.picked \in Nat
      OBVIOUS
    <3> HIDE DEF row
    <3> QED BY <2>1, <3>1, TaskWritten DEF Books
  <2>6. Books(new)
    BY <1>1, <2>1, <2>4, <2>5 DEF Books
  <2> QED BY <2>6 DEF new
<1> QED BY <1>3, <1>4

\* the quantities of an order, or of a backorder
CartRow(cart) == \A i \in DOMAIN cart : cart[i] \in Nat

LEMMA NewLineRow ==
  /\ \A q \in Nat : NewLine(q) \in LineRow
  /\ GoneLine \in LineRow /\ NoLine \in LineRow
  BY DEF NewLine, GoneLine, NoLine, LineRow

\* create_sales_order: each line reserves what it can
LEMMA EntryBooks ==
  ASSUME NEW db, Books(db), NEW o, NEW cart, CartRow(cart)
  PROVE  Books(Entered(db, o, cart))
<1> DEFINE new == Entered(db, o, cart)
           f == [i \in Items |-> IF i \in DOMAIN cart THEN ReserveWalk(db.inv, i, cart[i]) ELSE db.inv]
           rows == [l \in Lines |->
                 IF l[1] = o /\ l[2] \in DOMAIN cart
                 THEN [NewLine(cart[l[2]]) EXCEPT !.allocated = Reserved(db.inv, l[2], cart[l[2]])]
                 ELSE db.line[l]]
           inv == [r \in Rows |-> IF r[1] \in DOMAIN cart
                             THEN ReserveWalk(db.inv, r[1], cart[r[1]])[r] ELSE db.inv[r]]
<1>1. /\ Session(new)
      /\ new.inv = inv /\ new.line = rows /\ new.task = db.task
  BY DEF Entered, Books, Session
<1>2. Shelf(inv)
  <2>1. \A i \in Items : Shelf(f[i])
    BY ReserveWalkShelf DEF CartRow, Books
  <2>2. inv = [r \in Rows |-> f[r[1]][r]]
    BY RowsOfStock
  <2> HIDE DEF inv, f
  <2> QED BY <2>1, <2>2, ShelfByItem
<1>3. LineTable(rows)
  <2>1. ASSUME NEW l \in Lines PROVE rows[l] \in LineRow
    <3>1. CASE l[1] = o /\ l[2] \in DOMAIN cart
      <4>1. cart[l[2]] \in Nat /\ l[2] \in Items
        BY <3>1 DEF CartRow, Lines
      <4>2. Reserved(db.inv, l[2], cart[l[2]]) \in Nat
        BY <4>1, ReserveBounds DEF Books
      <4>3. NewLine(cart[l[2]]) \in LineRow
        BY <4>1, NewLineRow
      <4> QED BY <3>1, <4>2, <4>3 DEF LineRow
    <3>2. CASE ~(l[1] = o /\ l[2] \in DOMAIN cart)
      BY <3>2, LineRows DEF Books
    <3> QED BY <3>1, <3>2
  <2>2. rows = [l \in Lines |-> rows[l]]
    OBVIOUS
  <2> HIDE DEF rows
  <2> QED BY <2>1, <2>2, LineTableRows
<1>4. Books(new)
  <2> HIDE DEF new, inv, rows
  <2> QED BY <1>1, <1>2, <1>3 DEF Books
<1> QED BY <1>4

\* a cancel takes what is pending off the reservations: with a desk that sells free
\* units, nothing is pending
LEMMA UnwindAllocatedBooks ==
  ASSUME NEW db, Books(db), NEW o, Does("cancel")
  PROVE  Books(_unwind_allocated(db, o))
<1> DEFINE new == _unwind_allocated(db, o)
           pending(r) == {t \in db.task : /\ t.status = "PENDING" /\ t.bin = r[2]
                                          /\ t.line = <<o, r[1]>>
                                          /\ db.line[<<o, r[1]>>].allocated > 0}
           inv == [r \in Rows |-> [db.inv[r] EXCEPT !.allocated = @ - Quantity(pending(r))]]
           rows == [l \in Lines |-> IF l[1] = o THEN [db.line[l] EXCEPT !.allocated = 0]
                                    ELSE db.line[l]]
           T == {t \in db.task : t.order # o}
<1>1. /\ Session(new)
      /\ new.inv = inv /\ new.line = rows /\ new.task = T
  BY DEF _unwind_allocated, Books, Session
<1>2. \A r : Quantity(pending(r)) \in Nat /\ (~MayDip => Quantity(pending(r)) = 0)
  <2>1. \A r : Quantity(pending(r)) \in Nat
    BY TaskSums DEF Books
  <2>2. ASSUME ~MayDip, NEW r PROVE Quantity(pending(r)) = 0
    <3>1. \A t \in db.task : t.status # "PENDING"
      BY <2>2 DEF Books, TaskTable, TaskRow
    <3>2. pending(r) = {}
      BY <3>1
    <3> HIDE DEF pending
    <3>3. Quantity(pending(r)) = Total([t \in {} |-> t.qty], {})
      BY <3>2 DEF Quantity, SumOver
    <3> QED BY <3>3, TotalEmpty
  <2> QED BY <2>1, <2>2
<1>3. TaskTable(T)
  <2>1. T \subseteq db.task
    OBVIOUS
  <2> QED BY <2>1, TasksFewer DEF Books
<1> HIDE DEF pending, T
<1>4. Shelf(inv)
  <2>1. ASSUME NEW r \in Rows
        PROVE  /\ inv[r] \in [on_hand : Int, allocated : Int]
               /\ ~Unfloored => 0 <= inv[r].on_hand /\ inv[r].allocated <= inv[r].on_hand
               /\ ~MayDip => 0 <= inv[r].allocated
    <3>1. /\ db.inv[r] \in [on_hand : Int, allocated : Int]
          /\ db.inv[r].on_hand \in Int /\ db.inv[r].allocated \in Int
          /\ ~Unfloored => 0 <= db.inv[r].on_hand /\ db.inv[r].allocated <= db.inv[r].on_hand
          /\ ~MayDip => 0 <= db.inv[r].allocated
      BY RowOfShelf DEF Books
    <3>2. Quantity(pending(r)) \in Nat /\ (~MayDip => Quantity(pending(r)) = 0)
      BY <1>2
    <3> QED BY <3>1, <3>2
  <2>2. inv = [r \in Rows |-> inv[r]]
    OBVIOUS
  <2> HIDE DEF inv
  <2> QED BY <2>1, <2>2, ShelfRows DEF Books
<1>5. LineTable(rows)
  <2>1. \A l \in Lines : rows[l] \in LineRow
    BY LineRows DEF Books, LineRow
  <2>2. rows = [l \in Lines |-> rows[l]]
    OBVIOUS
  <2> HIDE DEF rows
  <2> QED BY <2>1, <2>2, LineTableRows
<1>6. Books(new)
  <2> HIDE DEF new, inv, rows
  <2> QED BY <1>1, <1>3, <1>4, <1>5 DEF Books
<1> QED BY <1>6

LEMMA UnwindPickedBooks ==
  ASSUME NEW db, Books(db), NEW o \in Orders
  PROVE  Books(_unwind_picked_or_packed(db, o))
<1> DEFINE new == _unwind_picked_or_packed(db, o)
           inv == [r \in Rows |-> IF r[2] = ReceivingBin
                               THEN [db.inv[r] EXCEPT !.on_hand = @ + db.line[<<o, r[1]>>].picked]
                               ELSE db.inv[r]]
           rows == [l \in Lines |-> IF l[1] = o /\ db.line[l].picked > 0
                                THEN [db.line[l] EXCEPT !.picked = 0, !.packed = 0]
                                ELSE db.line[l]]
<1>1. /\ Session(new)
      /\ new.inv = inv /\ new.line = rows /\ new.task = db.task
  BY DEF _unwind_picked_or_packed, Books, Session
<1>2. Shelf(inv)
  <2>1. ASSUME NEW r \in Rows
        PROVE  /\ inv[r] \in [on_hand : Int, allocated : Int]
               /\ ~Unfloored => 0 <= inv[r].on_hand /\ inv[r].allocated <= inv[r].on_hand
               /\ ~MayDip => 0 <= inv[r].allocated
    <3>1. /\ db.inv[r] \in [on_hand : Int, allocated : Int]
          /\ db.inv[r].on_hand \in Int /\ db.inv[r].allocated \in Int
          /\ ~Unfloored => 0 <= db.inv[r].on_hand /\ db.inv[r].allocated <= db.inv[r].on_hand
          /\ ~MayDip => 0 <= db.inv[r].allocated
      BY RowOfShelf DEF Books
    <3>2. <<o, r[1]>> \in Lines
      BY RowsOfStock DEF Lines
    <3>3. db.line[<<o, r[1]>>].picked \in Nat
      BY <3>2, LineRows DEF Books
    <3> QED BY <3>1, <3>3
  <2>2. inv = [r \in Rows |-> inv[r]]
    OBVIOUS
  <2> HIDE DEF inv
  <2> QED BY <2>1, <2>2, ShelfRows DEF Books
<1>3. LineTable(rows)
  <2>1. ASSUME NEW l \in Lines PROVE rows[l] \in LineRow
    <3>1. db.line[l] \in LineRow
      BY LineRows DEF Books
    <3>2. [db.line[l] EXCEPT !.picked = 0, !.packed = 0] \in LineRow
      BY <3>1 DEF LineRow
    <3> QED BY <3>1, <3>2
  <2>2. rows = [l \in Lines |-> rows[l]]
    OBVIOUS
  <2> HIDE DEF rows
  <2> QED BY <2>1, <2>2, LineTableRows
<1>4. Books(new)
  <2> HIDE DEF new, inv, rows
  <2> QED BY <1>1, <1>2, <1>3 DEF Books
<1> QED BY <1>4

\* the tables but the orders' own rows
LEMMA OrderRowBooks ==
  ASSUME NEW db, Books(db), NEW o, NEW row
  PROVE  Books([db EXCEPT !.order[o] = row]) /\ Books([db EXCEPT !.order[o].status = row])
  BY DEF Books, Session

LEMMA CancelOneBooks ==
  ASSUME NEW db, Books(db), NEW o \in Orders, Does("cancel")
  PROVE  Books(CancelOne(db, o))
<1> DEFINE unwound == CASE db.order[o].status = "OPEN"                -> _unwind_allocated(db, o)
                        [] db.order[o].status \in {"PICKED", "PACKED"} -> _unwind_picked_or_packed(db, o)
                        [] OTHER                                      -> db
<1>1. Books(unwound)
  BY UnwindAllocatedBooks, UnwindPickedBooks
<1>2. CancelOne(db, o) = [unwound EXCEPT !.order[o].status = "CANCELLED"]
  BY DEF CancelOne
<1> HIDE DEF unwound
<1>3. Books([unwound EXCEPT !.order[o].status = "CANCELLED"])
  BY <1>1, OrderRowBooks
<1> QED BY <1>2, <1>3

LEMMA CancelledBooks ==
  ASSUME NEW db, Books(db), NEW o \in Orders, Does("cancel")
  PROVE  Books(Cancelled(db, o))
<1> DEFINE parent == CancelOne(db, o)
           below  == IF db.order[o].kind = "backorder" THEN {} ELSE BackordersOf(parent, o)
<1>1. Books(parent)
  BY CancelOneBooks
<1>2. Cancelled(db, o) = IF below = {} THEN parent ELSE CancelOne(parent, Min(below))
  BY DEF Cancelled
<1>3. below \subseteq Orders
  BY DEF BackordersOf
<1> HIDE DEF parent, below
<1>4. CASE below # {}
  <2>1. Min(below) \in Orders
    BY <1>3, <1>4, MinOfRows, OrdersAssumption
  <2> QED BY <1>1, <1>2, <1>4, <2>1, CancelOneBooks
<1> QED BY <1>1, <1>2, <1>4

\* a revert with release: picked units go back to their bins
LEMMA ReleaseBooks ==
  ASSUME NEW db, Books(db), NEW T, T \subseteq db.task
  PROVE  Books(ReleasePicks(db, T))
<1> DEFINE new == ReleasePicks(db, T)
           at(r)     == {t \in T : t.item = r[1] /\ t.bin = r[2]}
           ofLine(l) == {t \in T : t.line = l}
           inv == [r \in Rows |-> [db.inv[r] EXCEPT !.on_hand = @ + Picked(at(r))]]
           rows == [l \in Lines |-> [db.line[l] EXCEPT
                                      !.picked    = AtLeast0(@ - Picked(ofLine(l))),
                                      !.allocated = AtLeast0(@ - Quantity(ofLine(l)))]]
           write == [t \in db.task |-> IF t \in T THEN [t EXCEPT !.status = "RELEASED"] ELSE t]
<1>1. /\ Session(new)
      /\ new.inv = inv /\ new.line = rows /\ new.task = {write[t] : t \in db.task}
  BY DEF ReleasePicks, Books, Session
<1>2. \A r : Picked(at(r)) \in Nat
  BY TaskSums DEF Books
<1>3. \A l : Picked(ofLine(l)) \in Nat /\ Quantity(ofLine(l)) \in Nat
  BY TaskSums DEF Books
<1>4. TaskTable({write[t] : t \in db.task})
  <2>1. \A t \in db.task : TaskRow(write[t])
    <3> SUFFICES ASSUME NEW t \in db.task
                 PROVE  TaskRow([t EXCEPT !.status = "RELEASED"]) /\ TaskRow(t)
      OBVIOUS
    <3>1. TaskRow(t)
      BY DEF Books, TaskTable
    <3> QED BY <3>1 DEF TaskRow, TaskFields
  <2>2. write = [t \in db.task |-> write[t]]
    OBVIOUS
  <2> HIDE DEF write
  <2> QED BY <2>1, <2>2, TasksWritten DEF Books
<1> HIDE DEF at, ofLine, write
<1>5. Shelf(inv)
  <2>1. ASSUME NEW r \in Rows
        PROVE  /\ inv[r] \in [on_hand : Int, allocated : Int]
               /\ ~Unfloored => 0 <= inv[r].on_hand /\ inv[r].allocated <= inv[r].on_hand
               /\ ~MayDip => 0 <= inv[r].allocated
    <3>1. /\ db.inv[r] \in [on_hand : Int, allocated : Int]
          /\ db.inv[r].on_hand \in Int /\ db.inv[r].allocated \in Int
          /\ ~Unfloored => 0 <= db.inv[r].on_hand /\ db.inv[r].allocated <= db.inv[r].on_hand
          /\ ~MayDip => 0 <= db.inv[r].allocated
      BY RowOfShelf DEF Books
    <3> QED BY <3>1, <1>2
  <2>2. inv = [r \in Rows |-> inv[r]]
    OBVIOUS
  <2> HIDE DEF inv
  <2> QED BY <2>1, <2>2, ShelfRows DEF Books
<1>6. LineTable(rows)
  <2>1. \A l \in Lines : rows[l] \in LineRow
    <3> SUFFICES ASSUME NEW l \in Lines PROVE rows[l] \in LineRow
      OBVIOUS
    <3>1. db.line[l] \in LineRow /\ db.line[l].picked \in Nat /\ db.line[l].allocated \in Nat
      BY LineRows DEF Books
    <3>2. /\ AtLeast0(db.line[l].picked - Picked(ofLine(l))) \in Nat
          /\ AtLeast0(db.line[l].allocated - Quantity(ofLine(l))) \in Nat
      BY <1>3, <3>1 DEF AtLeast0
    <3> QED BY <3>1, <3>2 DEF LineRow
  <2> HIDE DEF rows
  <2> QED BY <2>1, LineTableRows DEF rows
<1>7. Books(new)
  <2> HIDE DEF new, inv, rows
  <2> QED BY <1>1, <1>4, <1>5, <1>6 DEF Books
<1> QED BY <1>7

\* the desk picks free units, and only a desk that leaves no reservation below zero
LEMMA AdminPickBooks ==
  ASSUME NEW db, Books(db), NEW l \in Lines, NEW bin \in Bins, NEW q \in Nat, NEW b, NEW u,
         TakesFree, q <= Available(db.inv, l[2], bin)
  PROVE  /\ Books(record_admin_pick(db, l, bin, q, b, u))
         /\ Books(maybe_promote_so_to_picked(record_admin_pick(db, l, bin, q, b, u), l[1]))
<1> DEFINE new == record_admin_pick(db, l, bin, q, b, u)
           r == <<l[2], bin>>
           row == [db.inv[r] EXCEPT !.on_hand = db.inv[r].on_hand - q]
           after == [db.line[l] EXCEPT !.picked = db.line[l].picked + q,
                                       !.allocated = MaxOf2(db.line[l].allocated, db.line[l].picked + q)]
           t == [NewTask(b, l[1], l[2], bin, q, NoShare) EXCEPT !.status = "PICKED", !.picked = q]
<1>1. r \in Rows
  BY RowsOfStock DEF Lines
<1>2. /\ Session(new)
      /\ new.inv = [db.inv EXCEPT ![r] = row]
      /\ new.line = [db.line EXCEPT ![l] = after]
      /\ new.task = db.task \cup {t}
  BY DEF record_admin_pick, Books, Session
<1>3. Shelf(new.inv)
  <2>1. /\ db.inv[r] \in [on_hand : Int, allocated : Int]
        /\ db.inv[r].on_hand \in Int /\ db.inv[r].allocated \in Int
        /\ ~MayDip => 0 <= db.inv[r].allocated
    BY <1>1, RowOfShelf DEF Books
  <2>2. q <= db.inv[r].on_hand - db.inv[r].allocated
    BY DEF Available
  <2>3. /\ row \in [on_hand : Int, allocated : Int]
        /\ ~Unfloored => 0 <= row.on_hand /\ row.allocated <= row.on_hand
        /\ ~MayDip => 0 <= row.allocated
    BY <2>1, <2>2 DEF Unfloored
  <2> HIDE DEF row, r, new
  <2> QED BY <1>2, <2>3, ShelfRow DEF Books
<1>4. LineTable(new.line)
  <2>1. db.line[l] \in LineRow /\ db.line[l].picked \in Nat /\ db.line[l].allocated \in Nat
    BY LineRows DEF Books
  <2>2. MaxOf2(db.line[l].allocated, db.line[l].picked + q) \in Nat /\ db.line[l].picked + q \in Nat
    BY <2>1 DEF MaxOf2
  <2>3. after \in LineRow
    BY <2>1, <2>2 DEF LineRow
  <2> HIDE DEF after, new
  <2> QED BY <1>2, <2>3 DEF Books, LineTable
<1>5. TaskTable(new.task)
  <2>1. DOMAIN NewTask(b, l[1], l[2], bin, q, NoShare) = TaskFields
    BY DEF NewTask, TaskFields
  <2>2. TaskRow(t)
    BY NoSharesAreShares DEF TaskRow, NewTask, TaskFields
  <2> HIDE DEF t, new
  <2>3. TaskTable({t})
    BY <2>2, FS_Singleton DEF TaskTable
  <2> QED BY <1>2, <2>3, TasksTogether DEF Books
<1>6. Books(new)
  <2> HIDE DEF new
  <2> QED BY <1>2, <1>3, <1>4, <1>5 DEF Books
<1> HIDE DEF new
<1>7. Books([new EXCEPT !.order[l[1]].status = "PICKED"])
  BY <1>6, OrderRowBooks
<1> QED BY <1>6, <1>7 DEF maybe_promote_so_to_picked, new

\* one line is written
LEMMA LineRowBooks ==
  ASSUME NEW db, Books(db), NEW l, NEW row, l \in Lines => row \in LineRow
  PROVE  Books([db EXCEPT !.line[l] = row])
<1> DEFINE new == [db EXCEPT !.line[l] = row]
<1>1. /\ Session(new) /\ new.inv = db.inv /\ new.task = db.task
      /\ new.line = [db.line EXCEPT ![l] = row]
  BY DEF Books, Session
<1>2. LineTable([db.line EXCEPT ![l] = row])
  BY DEF Books, LineTable
<1> HIDE DEF new
<1>3. Books(new)
  BY <1>1, <1>2 DEF Books
<1> QED BY <1>3 DEF new

LEMMA DeleteLineBooks ==
  ASSUME NEW db, Books(db), NEW l
  PROVE  Books(DeleteLine(db, l))
<1> DEFINE new == DeleteLine(db, l)
           write == [t \in db.task |-> Orphaned(t, l)]
<1>1. /\ Session(new) /\ new.inv = db.inv
      /\ new.line = [db.line EXCEPT ![l] = GoneLine]
      /\ new.task = {write[t] : t \in db.task}
  BY DEF DeleteLine, Books, Session
<1>2. \A t \in db.task : TaskRow(write[t])
  <2> SUFFICES ASSUME NEW t \in db.task PROVE TaskRow(Orphaned(t, l))
    OBVIOUS
  <2>1. TaskRow(t)
    BY DEF Books, TaskTable
  <2> QED BY <2>1 DEF TaskRow, TaskFields, Orphaned
<1>3. write = [t \in db.task |-> write[t]]
  OBVIOUS
<1> HIDE DEF write, new
<1>4. TaskTable(new.task)
  BY <1>1, <1>2, <1>3, TasksWritten DEF Books
<1>5. LineTable(new.line)
  BY <1>1, NewLineRow DEF Books, LineTable
<1>6. Books(new)
  BY <1>1, <1>4, <1>5 DEF Books
<1> QED BY <1>6 DEF new

LEMMA BackorderBooks ==
  ASSUME NEW db, Books(db), NEW l, NEW short \in Nat, NEW bo
  PROVE  Books(WithBackorderFor(db, l, short, bo))
<1> DEFINE row == [NoOrder EXCEPT !.status = "WAITING_STOCK", !.kind = "backorder", !.parent = l[1]]
           db1 == [db EXCEPT !.order[bo] = row]
<1>1. Books(db1)
  BY OrderRowBooks
<1>2. WithBackorderFor(db, l, short, bo) = [db1 EXCEPT !.line[<<bo, l[2]>>] = NewLine(short)]
  BY DEF WithBackorderFor, Books, Session
<1> HIDE DEF db1
<1>3. Books([db1 EXCEPT !.line[<<bo, l[2]>>] = NewLine(short)])
  BY <1>1, NewLineRow, LineRowBooks
<1> QED BY <1>2, <1>3

\* the write-off of a short line takes no more than is free
LEMMA WriteOffBooks ==
  ASSUME NEW db, Books(db), db.inv = inventory, NEW i, NEW short \in Nat
  PROVE  Books([db EXCEPT !.inv = take_floored(@, i, FullestBin(i), WrittenOff(i, short))])
<1> DEFINE r == <<i, FullestBin(i)>>
           q == WrittenOff(i, short)
           row == [db.inv[r] EXCEPT !.on_hand = AtLeast0(db.inv[r].on_hand - q)]
           new == [db EXCEPT !.inv = [db.inv EXCEPT ![r] = row]]
<1>1. [db EXCEPT !.inv = take_floored(@, i, FullestBin(i), WrittenOff(i, short))] = new
  BY DEF take_floored
<1>2. /\ Session(new) /\ new.line = db.line /\ new.task = db.task
      /\ new.inv = [db.inv EXCEPT ![r] = row]
  BY DEF Books, Session
<1>3. r \in Rows => /\ row \in [on_hand : Int, allocated : Int]
                    /\ ~Unfloored => 0 <= row.on_hand /\ row.allocated <= row.on_hand
                    /\ ~MayDip => 0 <= row.allocated
  <2> SUFFICES ASSUME r \in Rows
               PROVE  /\ row \in [on_hand : Int, allocated : Int]
                      /\ ~Unfloored => 0 <= row.on_hand /\ row.allocated <= row.on_hand
                      /\ ~MayDip => 0 <= row.allocated
    OBVIOUS
  <2>1. /\ db.inv[r] \in [on_hand : Int, allocated : Int]
        /\ db.inv[r].on_hand \in Int /\ db.inv[r].allocated \in Int
        /\ ~Unfloored => 0 <= db.inv[r].on_hand /\ db.inv[r].allocated <= db.inv[r].on_hand
        /\ ~MayDip => 0 <= db.inv[r].allocated
    BY RowOfShelf DEF Books
  <2>2. q = AtLeast0(Least(db.inv[r].on_hand - db.inv[r].allocated, short))
    BY DEF WrittenOff, Available
  <2>3. q \in Nat /\ (~Unfloored => q <= db.inv[r].on_hand - db.inv[r].allocated)
    BY <2>1, <2>2 DEF AtLeast0, Least
  <2> HIDE DEF q
  <2> QED BY <2>1, <2>3 DEF AtLeast0
<1> HIDE DEF row, r, new
<1>4. Shelf(new.inv)
  BY <1>2, <1>3, ShelfRow DEF Books
<1>5. Books(new)
  BY <1>2, <1>4 DEF Books
<1> QED BY <1>1, <1>5

LEMMA LineReleaseBooks ==
  ASSUME NEW db, Books(db), NEW l
  PROVE  Books(_release_so_line_allocation(db, l))
<1> DEFINE pending == {t \in db.task : t.line = l /\ t.status = "PENDING"}
           held(b) == Quantity({t \in pending : t.bin = b})
           inv == [r \in Rows |-> IF r[1] = l[2] /\ held(r[2]) > 0
                                      THEN [db.inv[r] EXCEPT !.allocated = AtLeast0(@ - held(r[2]))]
                                      ELSE db.inv[r]]
           new == [db EXCEPT !.inv = inv, !.line[l].allocated = 0, !.task = @ \ pending]
<1>1. _release_so_line_allocation(db, l) = db \/ _release_so_line_allocation(db, l) = new
  BY DEF _release_so_line_allocation
<1>2. /\ Session(new) /\ new.inv = inv
      /\ new.line = [db.line EXCEPT ![l].allocated = 0]
      /\ new.task = db.task \ pending
  BY DEF Books, Session
<1>3. \A b : held(b) \in Nat
  BY TaskSums DEF Books
<1>4. TaskTable(db.task \ pending)
  <2>1. db.task \ pending \subseteq db.task
    OBVIOUS
  <2> HIDE DEF pending
  <2> QED BY <2>1, TasksFewer DEF Books
<1> HIDE DEF held, pending
<1>5. Shelf(inv)
  <2>1. ASSUME NEW r \in Rows
        PROVE  /\ inv[r] \in [on_hand : Int, allocated : Int]
               /\ ~Unfloored => 0 <= inv[r].on_hand /\ inv[r].allocated <= inv[r].on_hand
               /\ ~MayDip => 0 <= inv[r].allocated
    <3>1. /\ db.inv[r] \in [on_hand : Int, allocated : Int]
          /\ db.inv[r].on_hand \in Int /\ db.inv[r].allocated \in Int
          /\ ~Unfloored => 0 <= db.inv[r].on_hand /\ db.inv[r].allocated <= db.inv[r].on_hand
          /\ ~MayDip => 0 <= db.inv[r].allocated
      BY RowOfShelf DEF Books
    <3>2. held(r[2]) \in Nat
      BY <1>3
    <3> QED BY <3>1, <3>2 DEF AtLeast0
  <2>2. inv = [r \in Rows |-> inv[r]]
    OBVIOUS
  <2> HIDE DEF inv
  <2> QED BY <2>1, <2>2, ShelfRows DEF Books
<1> HIDE DEF inv, new
<1>6. LineTable(new.line)
  <2>1. l \in Lines => [db.line[l] EXCEPT !.allocated = 0] \in LineRow
    BY LineRows DEF Books, LineRow
  <2>2. [db.line EXCEPT ![l].allocated = 0] = [db.line EXCEPT ![l] = [db.line[l] EXCEPT !.allocated = 0]]
    OBVIOUS
  <2> QED BY <1>2, <2>1, <2>2 DEF Books, LineTable
<1>7. Books(new)
  BY <1>2, <1>4, <1>5, <1>6 DEF Books
<1> QED BY <1>1, <1>7

\* what a request has read
Asked(m) ==
  /\ m.op \in {"batch", "wave"} => PlanRow(m)
  /\ m.op \in {"confirm", "short"} => TaskRow(m.task) /\ m.q \in Nat /\ m.q <= m.task.qty
  /\ m.op = "verify" => m.packed \in Nat
  /\ m.op = "receive" => m.q \in Nat
Requested == DOMAIN request = Requests /\ \A r \in Requests : Asked(request[r])

ShelfInv == BooksNow /\ Requested

LEMMA NextShelf ==
  ASSUME BooksNow, UNCHANGED <<task, desk>>,
         NEW inv, Shelf(inv), inventory' = inv, NEW rows, LineTable(rows), line' = rows
  PROVE  BooksNow'
<1>1. Shelf(inventory)'
  BY DEF Shelf, Unfloored, TakesFree, MayDip, Kinds, Does
<1>2. LineTable(line)' /\ TaskTable(task)'
  BY DEF BooksNow, LineTable, TaskTable, TaskRow, Unfloored, TakesFree, MayDip, Kinds, Does
<1> QED BY <1>1, <1>2 DEF BooksNow

\* a request is made, or answered
LEMMA AskKept ==
  ASSUME Requested, UNCHANGED <<request, desk>>
  PROVE  Requested'
  BY DEF Requested, Asked, PlanRow, MayPend, TaskRow, Unfloored, TakesFree, MayDip, Kinds, Does

LEMMA AskMade ==
  ASSUME Requested, UNCHANGED desk, NEW r, NEW m, Asked(m), request' = [request EXCEPT ![r] = m]
  PROVE  Requested'
<1>1. \A k \in Requests : Asked(request'[k])
  BY DEF Requested
<1>2. \A k \in Requests : Asked(request[k])'
  BY <1>1 DEF Asked, PlanRow, MayPend, TaskRow, Unfloored, TakesFree, MayDip, Kinds, Does
<1> QED BY <1>2 DEF Requested

LEMMA AskAnswered ==
  ASSUME Requested, UNCHANGED desk, NEW r, request' = [request EXCEPT ![r] = Idle]
  PROVE  Requested'
<1>1. Asked(Idle)
  BY DEF Asked, Idle
<1> QED BY <1>1, AskMade

LEMMA QuantitiesNat == Quantities \subseteq Nat
  BY OrderedAssumption DEF Quantities

-----------------------------------------------------------------------------
LEMMA AllocateStep ==
  ASSUME BooksNow, UNCHANGED desk, NEW l \in Lines, NEW delta \in Int,
         adjust_sales_order_line_allocation(l, delta)
  PROVE  BooksNow'
<1> DEFINE row    == line[l]
           wanted == MaxOf2(row.picked, Least(row.ordered, row.allocated + delta))
           more   == Reserved(inventory, l[2], wanted - row.allocated)
           target == IF wanted > row.allocated THEN row.allocated + more ELSE wanted
<1>1. /\ inventory' = IF target > row.allocated
                      THEN ReserveWalk(inventory, l[2], target - row.allocated)
                      ELSE ReleaseWalk(inventory, l[2], row.allocated - target)
      /\ line' = [line EXCEPT ![l].allocated = target]
      /\ UNCHANGED task
  BY DEF adjust_sales_order_line_allocation
<1>2. row \in LineRow /\ row.ordered \in Nat /\ row.allocated \in Nat /\ row.picked \in Nat
  BY LineRows DEF BooksNow
<1>3. l[2] \in Items
  BY DEF Lines
<1> HIDE DEF row
<1>4. wanted \in Nat
  BY <1>2 DEF MaxOf2, Least
<1> HIDE DEF wanted
<1>5. more \in Nat
  BY <1>2, <1>3, <1>4, ReserveBounds DEF BooksNow
<1> HIDE DEF more
<1>6. target \in Nat
  BY <1>2, <1>4, <1>5
<1> HIDE DEF target
<1>7. Shelf(inventory')
  <2>1. Shelf(ReserveWalk(inventory, l[2], target - row.allocated))
    BY <1>2, <1>3, <1>6, ReserveWalkShelf DEF BooksNow
  <2>2. Shelf(ReleaseWalk(inventory, l[2], row.allocated - target))
    BY <1>2, <1>3, <1>6, ReleaseWalkShelf DEF BooksNow
  <2> QED BY <1>1, <2>1, <2>2
<1>8. LineTable(line')
  <2>1. [line[l] EXCEPT !.allocated = target] \in LineRow
    BY <1>2, <1>6 DEF LineRow, row
  <2> QED BY <1>1, <2>1 DEF BooksNow, LineTable
<1> QED BY <1>1, <1>7, <1>8, NextShelf

LEMMA OrderDeskShelf ==
  ASSUME BooksNow, OrderDesk, UNCHANGED desk
  PROVE  BooksNow' /\ UNCHANGED request
<1>1. Books(Db)
  BY BooksOfDb
<1>2. ASSUME NEW o, NEW cart \in Carts, create_sales_order(o, cart)
      PROVE  BooksNow' /\ UNCHANGED request
  <2>1. CartRow(cart)
    BY QuantitiesNat DEF Carts, CartRow
  <2>2. Books(Entered(Db, o, cart))
    BY <1>1, <2>1, EntryBooks
  <2> QED BY <1>2, <2>2, CommitBooks DEF create_sales_order
<1>3. ASSUME NEW l \in Lines, NEW d \in (-MaxAllocationStep .. MaxAllocationStep) \ {0},
             adjust_sales_order_line_allocation(l, d)
      PROVE  BooksNow' /\ UNCHANGED request
  <2>1. d \in Int
    BY DesksAssumption
  <2>2. BooksNow'
    BY <1>3, <2>1, AllocateStep
  <2> QED BY <1>3, <2>2 DEF adjust_sales_order_line_allocation
<1>4. ASSUME NEW o, NEW status, update_sales_order(o, status) \/ push_sales_order_to_queue(o)
      PROVE  BooksNow' /\ UNCHANGED request
  BY <1>4, BooksKept DEF update_sales_order, push_sales_order_to_queue
<1>5. ASSUME NEW o \in Born, Does("cancel"), cancel_sales_order(o)
      PROVE  BooksNow' /\ UNCHANGED request
  <2>1. Books(Cancelled(Db, o))
    BY <1>1, <1>5, CancelledBooks DEF Born
  <2> QED BY <1>5, <2>1, CommitBooks DEF cancel_sales_order
<1>6. ASSUME NEW o \in Born, NEW refunded \in BOOLEAN, Does("cancel"), cancel_backorder(o, refunded)
      PROVE  BooksNow' /\ UNCHANGED request
  <2> DEFINE done == Cancelled(Db, o)
             new  == IF refunded THEN [done EXCEPT !.order[o].status = "REFUNDED"] ELSE done
  <2>1. Books(done)
    BY <1>1, <1>6, CancelledBooks DEF Born
  <2>2. Books(new)
    <3> HIDE DEF done
    <3>1. Books([done EXCEPT !.order[o].status = "REFUNDED"])
      BY <2>1, OrderRowBooks
    <3> QED BY <2>1, <3>1
  <2>3. Commit(new) /\ UNCHANGED request
    BY <1>6 DEF cancel_backorder
  <2> HIDE DEF new
  <2> QED BY <2>2, <2>3, CommitBooks
<1>7. ASSUME NEW o, NEW target, NEW T, revert_sales_order_status(o, target, T)
      PROVE  BooksNow' /\ UNCHANGED request
  <2> DEFINE db == ReleasePicks(Db, T)
             unpacks  == Rank(order[o].status) >= Rank("PACKED") /\ Rank(target) < Rank("PACKED")
             unpacked == [l \in Lines |-> IF unpacks /\ l[1] = o THEN [db.line[l] EXCEPT !.packed = 0]
                                   ELSE db.line[l]]
             new == [db EXCEPT !.line = unpacked, !.order[o].status = target]
  <2>1. T \subseteq Db.task
    BY <1>7 DEF revert_sales_order_status, PickedTasks, Db
  <2>2. Books(db)
    BY <1>1, <2>1, ReleaseBooks
  <2>3. Commit(new) /\ UNCHANGED request
    BY <1>7 DEF revert_sales_order_status
  <2> HIDE DEF db, unpacks
  <2>4. LineTable(unpacked)
    <3>1. ASSUME NEW l \in Lines PROVE unpacked[l] \in LineRow
      <4>1. db.line[l] \in LineRow
        BY <2>2, LineRows DEF Books
      <4> QED BY <4>1 DEF LineRow
    <3>2. unpacked = [l \in Lines |-> unpacked[l]]
      OBVIOUS
    <3> HIDE DEF unpacked
    <3> QED BY <3>1, <3>2, LineTableRows
  <2> HIDE DEF unpacked
  <2>5. Session(new) /\ new.inv = db.inv /\ new.task = db.task /\ new.line = unpacked
    BY <2>2 DEF Books, Session
  <2> HIDE DEF new
  <2>6. Books(new)
    BY <2>2, <2>4, <2>5 DEF Books
  <2> QED BY <2>3, <2>6, CommitBooks
<1>8. ASSUME NEW l \in Lines, NEW bin \in Bins, NEW q \in Quantities, NEW u, Does("admin_pick"),
             admin_pick_sales_order(l, bin, q, u)
      PROVE  BooksNow' /\ UNCHANGED request
  <2>1. PICK b \in Batches :
          Commit(maybe_promote_so_to_picked(record_admin_pick(Db, l, bin, q, b, u), l[1]))
    BY <1>8 DEF admin_pick_sales_order
  <2>2. q <= Available(Db.inv, l[2], bin) /\ TakesFree /\ q \in Nat /\ UNCHANGED request
    <3>1. q <= Available(inventory, l[2], bin)
      <4>1. <<l[2], bin>> \in Rows /\ q \in Nat
        BY RowsOfStock, QuantitiesNat DEF Lines
      <4>2. Available(inventory, l[2], bin) \in Int
        BY <4>1, RowOfShelf DEF BooksNow, Available
      <4>3. Available(inventory, l[2], bin) >= q
        BY <1>8 DEF admin_pick_sales_order
      <4> QED BY <4>1, <4>2, <4>3
    <3> QED BY <1>8, <3>1, QuantitiesNat DEF Db, TakesFree, admin_pick_sales_order
  <2>3. Books(maybe_promote_so_to_picked(record_admin_pick(Db, l, bin, q, b, u), l[1]))
    BY <1>1, <2>2, AdminPickBooks
  <2> QED BY <2>1, <2>2, <2>3, CommitBooks
<1>9. ASSUME NEW l \in Lines, NEW q \in Quantities, NEW bo, partial_fulfill_sales_order(l, q, bo)
      PROVE  BooksNow' /\ UNCHANGED request
  <2> DEFINE left == line[l].ordered - q
             db1 == IF left = 0 THEN DeleteLine(Db, l) ELSE [Db EXCEPT !.line[l].ordered = left]
             db2 == [db1 EXCEPT !.inv = take_floored(@, l[2], FullestBin(l[2]), WrittenOff(l[2], q))]
  <2>1. q \in Nat
    BY QuantitiesNat
  <2>2. line[l] \in LineRow /\ line[l].ordered \in Nat /\ line[l].picked \in Nat
    BY LineRows DEF BooksNow
  <2>3. q <= line[l].ordered - line[l].picked /\ UNCHANGED request
        /\ Commit(WithBackorderFor(db2, l, q, bo))
    BY <1>9 DEF partial_fulfill_sales_order, MayShortClose
  <2>4. left \in Nat
    BY <2>1, <2>2, <2>3
  <2>5. Books(db1) /\ db1.inv = inventory
    <3> HIDE DEF left
    <3>1. Books(DeleteLine(Db, l)) /\ DeleteLine(Db, l).inv = inventory
      BY <1>1, DeleteLineBooks DEF DeleteLine, Db
    <3>2. [line[l] EXCEPT !.ordered = left] \in LineRow
      BY <2>2, <2>4 DEF LineRow
    <3>3. [Db EXCEPT !.line[l].ordered = left] = [Db EXCEPT !.line[l] = [line[l] EXCEPT !.ordered = left]]
      BY DEF Db
    <3>4. Books([Db EXCEPT !.line[l] = [line[l] EXCEPT !.ordered = left]])
      BY <1>1, <3>2, LineRowBooks
    <3>5. [Db EXCEPT !.line[l].ordered = left].inv = inventory
      BY DEF Db
    <3> QED BY <3>1, <3>3, <3>4, <3>5
  <2> HIDE DEF db1
  <2>6. Books(db2)
    BY <2>1, <2>5, WriteOffBooks
  <2> HIDE DEF db2
  <2>7. Books(WithBackorderFor(db2, l, q, bo))
    BY <2>1, <2>6, BackorderBooks
  <2> QED BY <2>3, <2>7, CommitBooks
<1>10. ASSUME NEW l \in Lines, NEW q \in Quantities, add_sales_order_line(l, q)
       PROVE  BooksNow' /\ UNCHANGED request
  <2>1. LineTable([line EXCEPT ![l] = NewLine(q)])
    BY QuantitiesNat, NewLineRow DEF BooksNow, LineTable
  <2>2. /\ line' = [line EXCEPT ![l] = NewLine(q)] /\ inventory' = inventory
        /\ UNCHANGED <<task, request>>
    BY <1>10 DEF add_sales_order_line
  <2>3. Shelf(inventory)
    BY DEF BooksNow
  <2> QED BY <2>1, <2>2, <2>3, NextShelf
<1>11. ASSUME NEW l \in Lines, NEW q \in Quantities, update_sales_order_line(l, q)
       PROVE  BooksNow' /\ UNCHANGED request
  <2> DEFINE db1 == IF q < line[l].allocated THEN _release_so_line_allocation(Db, l) ELSE Db
  <2>1. Books(db1)
    BY <1>1, LineReleaseBooks
  <2>2. Commit([db1 EXCEPT !.line[l].ordered = q]) /\ UNCHANGED request
    BY <1>11 DEF update_sales_order_line
  <2> HIDE DEF db1
  <2>3. [db1.line[l] EXCEPT !.ordered = q] \in LineRow
    BY <2>1, LineRows, QuantitiesNat DEF Books, LineRow
  <2>4. [db1 EXCEPT !.line[l].ordered = q] = [db1 EXCEPT !.line[l] = [db1.line[l] EXCEPT !.ordered = q]]
    OBVIOUS
  <2>5. Books([db1 EXCEPT !.line[l] = [db1.line[l] EXCEPT !.ordered = q]])
    BY <2>1, <2>3, LineRowBooks
  <2> QED BY <2>2, <2>4, <2>5, CommitBooks
<1>12. ASSUME NEW l, delete_sales_order_line(l)
       PROVE  BooksNow' /\ UNCHANGED request
  <2> DEFINE db1 == _release_so_line_allocation(Db, l)
  <2>1. Books(db1)
    BY <1>1, LineReleaseBooks
  <2>2. Commit(DeleteLine(db1, l)) /\ UNCHANGED request
    BY <1>12 DEF delete_sales_order_line
  <2> HIDE DEF db1
  <2>3. Books(DeleteLine(db1, l))
    BY <2>1, DeleteLineBooks
  <2> QED BY <2>2, <2>3, CommitBooks
<1> QED BY <1>2, <1>3, <1>4, <1>5, <1>6, <1>7, <1>8, <1>9, <1>10, <1>11, <1>12 DEF OrderDesk

\* what the lines of a plan need, when its reservations are released
LEMMA PlannedAmounts ==
  ASSUME NEW db, Books(db), NEW plan, PlanRow(plan)
  PROVE  Amounts(PlannedNeeds(db, plan))
<1>1. Books(Normalised(db, plan))
  BY NormaliseBooks DEF Normalised, PlanRow
<1>2. Amounts(Needs(Normalised(db, plan), plan.orders))
  BY <1>1, StandingAmounts DEF Books
<1> QED BY <1>2 DEF PlannedNeeds, PlanRow

\* a wave that has its rows keeps what it planned
LEMMA PlanAsks ==
  ASSUME Books(Db), Requested, UNCHANGED desk, NEW r \in Requests, PlanWave(r)
  PROVE  Requested' /\ Unchanged
         /\ \E m : m.op = "wave" /\ request' = [request EXCEPT ![r] = m]
<1> DEFINE plan == request[r]
           full == [op |-> "wave", by |-> plan.by, orders |-> plan.orders, standing |-> plan.standing,
                    needs |-> PlannedNeeds(Db, plan), planned |-> TRUE]
<1>1. plan.op = "wave" /\ request' = [request EXCEPT ![r] = full] /\ Unchanged
  BY DEF PlanWave
<1>2. PlanRow(plan)
  BY <1>1 DEF Requested, Asked
<1>3. Amounts(PlannedNeeds(Db, plan))
  BY <1>2, PlannedAmounts
<1>4. Asked(full) /\ full.op = "wave"
  BY <1>2, <1>3 DEF Asked, PlanRow
<1> HIDE DEF full
<1>5. Requested'
  BY <1>1, <1>4, AskMade
<1> QED BY <1>1, <1>4, <1>5

\* create_pick_batch and wave_create: the plan's reservations are released, and what the
\* lines need is taken from what is free then
LEMMA CreateBooks ==
  ASSUME NEW db, Books(db), NEW plan, PlanRow(plan), NEW b, Create(db, plan, b), UNCHANGED desk
  PROVE  BooksNow'
<1> DEFINE db1 == Normalised(db, plan)
           need == IF plan.op = "wave" THEN PlannedNeeds(db, plan) ELSE Needs(db1, plan.orders)
           taken == Allocation(db1, need)
           T == IF plan.op = "wave" THEN WaveTasks(taken, b) ELSE LineTasks(taken, b)
           new == Reserve(db1, taken, T, b, plan.by, plan.orders)
<1>1. Commit(new)
  BY DEF Create
<1>2. Books(db1)
  BY NormaliseBooks DEF Normalised, PlanRow
<1>3. Amounts(need)
  <2>1. Amounts(Needs(db1, plan.orders))
    BY <1>2, StandingAmounts DEF Books
  <2>2. Amounts(PlannedNeeds(db, plan))
    BY PlannedAmounts
  <2> HIDE DEF db1
  <2> QED BY <2>1, <2>2
<1>4. TaskTable(T)
  <2> HIDE DEF db1, need
  <2>1. /\ taken \in [(DOMAIN need) \X Pickable -> Nat]
        /\ IsFiniteSet(DOMAIN taken)
        /\ DOMAIN need \in SUBSET Lines
    BY <1>2, <1>3, AllocationTable DEF Books
  <2> HIDE DEF taken
  <2>2. TaskTable(WaveTasks(taken, b)) /\ TaskTable(LineTasks(taken, b))
    BY <2>1, LineTasksTable, WaveTasksTable DEF PlanRow
  <2> QED BY <2>2
<1>5. Books(new)
  <2> HIDE DEF db1, need, T
  <2> QED BY <1>2, <1>3, <1>4, ReserveBooks
<1> HIDE DEF new
<1> QED BY <1>1, <1>5, CommitBooks

LEMMA PickWorkShelf ==
  ASSUME ShelfInv, PickWork, UNCHANGED desk
  PROVE  ShelfInv'
<1>1. Books(Db) /\ BooksNow /\ Requested
  BY BooksOfDb DEF ShelfInv
<1>2. \A kind \in Kinds : kind \in {"batch", "wave"} /\ MayPend
  BY DEF Kinds, MayDip, MayPend
<1>3. ASSUME NEW r \in Requests, NEW kind \in Kinds, NEW u, NEW O, BeginCreate(r, kind, u, O)
      PROVE  ShelfInv'
  <2>1. BooksNow'
    BY <1>1, <1>3, BooksKept DEF BeginCreate, Unchanged
  <2>2. request' = [request EXCEPT ![r] = Plan(Db, kind, u, O)]
    BY <1>3 DEF BeginCreate
  <2>3. Asked(Plan(Db, kind, u, O))
    <3>1. PlanRow(Plan(Db, kind, u, O))
      BY <1>1, <1>2, PlanIsPlan DEF Books
    <3> QED BY <3>1 DEF Asked, PlanRow
  <2>4. Requested'
    BY <1>1, <2>2, <2>3, AskMade
  <2> QED BY <2>1, <2>4 DEF ShelfInv
<1>4. ASSUME NEW kind \in Kinds, NEW u, NEW O, CreateOverPrior(kind, u, O)
      PROVE  ShelfInv'
  <2> DEFINE db == cancel_prior_user_batches(Db, u)
             plan == Plan(db, kind, u, O)
  <2>1. Books(db)
    BY <1>1, RevertBooks DEF cancel_prior_user_batches
  <2>2. PICK b \in Batches : Create(db, plan, b)
    BY <1>4 DEF CreateOverPrior
  <2>3. UNCHANGED request
    BY <1>4 DEF CreateOverPrior
  <2> HIDE DEF db
  <2>4. PlanRow(plan)
    BY <1>2, <2>1, PlanIsPlan DEF Books
  <2> HIDE DEF plan
  <2>5. BooksNow'
    BY <2>1, <2>2, <2>4, CreateBooks
  <2> QED BY <1>1, <2>3, <2>5, AskKept DEF ShelfInv
<1>5. ASSUME NEW r \in Requests, FinishCreate(r)
      PROVE  ShelfInv'
  <2>1. PlanRow(request[r])
    BY <1>1, <1>5 DEF FinishCreate, Planning, Requested, Asked
  <2>2. PICK b \in Batches : Create(Db, request[r], b)
    BY <1>5 DEF FinishCreate
  <2>3. BooksNow'
    BY <1>1, <2>1, <2>2, CreateBooks
  <2>4. Requested'
    BY <1>1, <1>5, AskAnswered DEF FinishCreate
  <2> QED BY <2>3, <2>4 DEF ShelfInv
<1>6. ASSUME NEW r \in Requests, RefuseCreate(r)
      PROVE  ShelfInv'
  <2>1. Requested'
    BY <1>1, <1>6, AskAnswered DEF RefuseCreate
  <2>2. Unchanged \/ \E b : Commit(full_revert_batch(Db, {b}))
    BY <1>6 DEF RefuseCreate
  <2>3. BooksNow'
    <3>1. CASE Unchanged
      BY <1>1, <3>1, BooksKept DEF Unchanged
    <3>2. ASSUME NEW b, Commit(full_revert_batch(Db, {b})) PROVE BooksNow'
      BY <1>1, <3>2, RevertBooks, CommitBooks
    <3> QED BY <2>2, <3>1, <3>2
  <2> QED BY <2>1, <2>3 DEF ShelfInv
<1>7. ASSUME NEW r \in Requests, NEW op \in {"confirm", "short"}, NEW t, NEW q, LoadTask(r, op, t, q)
      PROVE  ShelfInv'
  <2> DEFINE m == [op |-> op, task |-> t, q |-> q]
  <2>1. Unchanged /\ request' = [request EXCEPT ![r] = m]
    BY <1>7 DEF LoadTask
  <2>2. TaskRow(t)
    BY <1>1, <1>7 DEF LoadTask, BooksNow, TaskTable
  <2>3. q \in Nat /\ q <= t.qty
    <3>1. q \in 1 .. t.qty \/ q \in 0 .. t.qty
      BY <1>7 DEF LoadTask
    <3>2. t.qty \in Nat
      BY <2>2 DEF TaskRow
    <3> QED BY <3>1, <3>2
  <2>4. Asked(m)
    BY <2>2, <2>3 DEF Asked
  <2> HIDE DEF m
  <2>5. Requested'
    BY <1>1, <2>1, <2>4, AskMade
  <2>6. BooksNow'
    BY <1>1, <2>1, BooksKept DEF Unchanged
  <2> QED BY <2>5, <2>6 DEF ShelfInv
<1>8. ASSUME NEW r \in Requests, ApplyPick(r)
      PROVE  ShelfInv'
  <2>1. Requested'
    BY <1>1, <1>8, AskAnswered DEF ApplyPick
  <2>2. TaskRow(request[r].task) /\ request[r].q \in Nat /\ request[r].q <= request[r].task.qty
    BY <1>1, <1>8 DEF ApplyPick, Requested, Asked
  <2>3. PICK new : Books(new) /\ Commit(new)
    BY <1>1, <1>8, <2>2, PickBooks DEF ApplyPick
  <2> QED BY <2>1, <2>3, CommitBooks DEF ShelfInv
<1>9. ASSUME NEW b, complete_batch(b)
      PROVE  ShelfInv'
  BY <1>1, <1>9, BooksKept, AskKept DEF complete_batch, ShelfInv
<1>10. ASSUME NEW b, cancel_batch(b)
       PROVE  ShelfInv'
  <2>1. Commit(full_revert_batch(Db, {b})) /\ UNCHANGED request
    BY <1>10 DEF cancel_batch
  <2>2. BooksNow'
    BY <1>1, <2>1, RevertBooks, CommitBooks
  <2> QED BY <1>1, <2>1, <2>2, AskKept DEF ShelfInv
<1>11. ASSUME NEW r \in Requests, PlanWave(r)
       PROVE  ShelfInv'
  BY <1>1, <1>11, PlanAsks, BooksKept DEF Unchanged, ShelfInv
<1> QED BY <1>3, <1>4, <1>5, <1>6, <1>7, <1>8, <1>9, <1>10, <1>11 DEF PickWork

-----------------------------------------------------------------------------
\* what a return brings in is new on the shelf
LEMMA ReceivedShelf ==
  ASSUME NEW inv, Shelf(inv), NEW i, NEW b, NEW q \in Nat
  PROVE  Shelf(add_inventory(inv, i, b, q))
<1> DEFINE r == <<i, b>>
           row == [inv[r] EXCEPT !.on_hand = inv[r].on_hand + q]
<1>1. add_inventory(inv, i, b, q) = [inv EXCEPT ![r] = row]
  BY DEF add_inventory
<1>2. r \in Rows => /\ row \in [on_hand : Int, allocated : Int]
                    /\ ~Unfloored => 0 <= row.on_hand /\ row.allocated <= row.on_hand
                    /\ ~MayDip => 0 <= row.allocated
  <2> SUFFICES ASSUME r \in Rows
               PROVE  /\ row \in [on_hand : Int, allocated : Int]
                      /\ ~Unfloored => 0 <= row.on_hand /\ row.allocated <= row.on_hand
                      /\ ~MayDip => 0 <= row.allocated
    OBVIOUS
  <2>1. /\ inv[r] \in [on_hand : Int, allocated : Int]
        /\ inv[r].on_hand \in Int /\ inv[r].allocated \in Int
        /\ ~Unfloored => 0 <= inv[r].on_hand /\ inv[r].allocated <= inv[r].on_hand
        /\ ~MayDip => 0 <= inv[r].allocated
    BY RowOfShelf
  <2> HIDE DEF r
  <2> QED BY <2>1
<1> HIDE DEF row, r
<1>3. Shelf([inv EXCEPT ![r] = row])
  BY <1>2, ShelfRow
<1> QED BY <1>1, <1>3

LEMMA ReturnsDeskShelf ==
  ASSUME ShelfInv, ReturnsDesk, UNCHANGED desk
  PROVE  ShelfInv'
<1>1. BooksNow /\ Requested /\ Shelf(inventory) /\ LineTable(line)
  BY DEF ShelfInv, BooksNow
<1>2. ASSUME NEW o, NEW l, NEW q \in Quantities, create_rma(o, l, q)
      PROVE  ShelfInv'
  <2>1. /\ line' = [line EXCEPT ![<<o, l[2]>>] = NewLine(q)] /\ inventory' = inventory
        /\ UNCHANGED <<task, request>>
    BY <1>2 DEF create_rma
  <2>2. LineTable([line EXCEPT ![<<o, l[2]>>] = NewLine(q)])
    BY <1>1, QuantitiesNat, NewLineRow DEF LineTable
  <2>3. BooksNow'
    BY <1>1, <2>1, <2>2, NextShelf
  <2> QED BY <1>1, <2>1, <2>3, AskKept DEF ShelfInv
<1>3. ASSUME NEW r \in Requests, NEW l, NEW q \in Quantities, NEW k, BeginReceive(r, l, q, k)
      PROVE  ShelfInv'
  <2> DEFINE m == [op |-> "receive", line |-> l, q |-> q, key |-> k]
  <2>1. request' = [request EXCEPT ![r] = m] /\ UNCHANGED <<inventory, line, task>>
    BY <1>3 DEF BeginReceive
  <2>2. Asked(m)
    BY QuantitiesNat DEF Asked
  <2> HIDE DEF m
  <2> QED BY <1>1, <2>1, <2>2, AskMade, BooksKept DEF ShelfInv
<1>4. ASSUME NEW r \in Requests, FinishReceive(r, ReceivingBin)
      PROVE  ShelfInv'
  <2> DEFINE m == request[r]
             l == m.line
             inv == add_inventory(inventory, l[2], ReceivingBin, m.q)
             rows == [line EXCEPT ![l].received = line[l].received + m.q]
  <2>1. m.q \in Nat
    BY <1>1, <1>4 DEF FinishReceive, Requested, Asked
  <2>2. /\ request' = [request EXCEPT ![r] = Idle] /\ UNCHANGED task
        /\ \/ UNCHANGED <<inventory, line>>
           \/ inventory' = inv /\ line' = rows
    BY <1>4 DEF FinishReceive
  <2>3. Shelf(inv)
    BY <1>1, <2>1, ReceivedShelf
  <2>4. LineTable(rows)
    <3> DEFINE q == m.q
    <3>1. l \in Lines => [line[l] EXCEPT !.received = line[l].received + q] \in LineRow
      <4> HIDE DEF m
      <4> QED BY <1>1, <2>1 DEF LineTable, LineRow
    <3>2. rows = [line EXCEPT ![l] = [line[l] EXCEPT !.received = line[l].received + q]]
      OBVIOUS
    <3> HIDE DEF q, m
    <3> QED BY <1>1, <3>1, <3>2 DEF LineTable
  <2> HIDE DEF inv, rows
  <2>5. BooksNow'
    BY <1>1, <2>2, <2>3, <2>4, NextShelf, BooksKept
  <2> QED BY <1>1, <2>2, <2>5, AskAnswered DEF ShelfInv
<1>5. ASSUME NEW o, void_return_order(o)
      PROVE  ShelfInv'
  BY <1>1, <1>5, BooksKept, AskKept DEF void_return_order, ShelfInv
<1> QED BY <1>2, <1>3, <1>4, <1>5 DEF ReturnsDesk

-----------------------------------------------------------------------------
LEMMA ShippingDeskShelf ==
  ASSUME ShelfInv, ShippingDesk, UNCHANGED desk
  PROVE  ShelfInv'
<1>1. BooksNow /\ Requested /\ Shelf(inventory) /\ LineTable(line)
  BY DEF ShelfInv, BooksNow
<1>2. \A l \in Lines : line[l] \in LineRow /\ line[l].picked \in Nat /\ line[l].packed \in Nat
  BY <1>1 DEF LineTable, LineRow
<1>3. ASSUME NEW r \in Requests, NEW l \in Lines, NEW q \in Quantities, BeginVerify(r, l, q)
      PROVE  ShelfInv'
  <2> DEFINE m == [op |-> "verify", line |-> l, packed |-> line[l].packed + q]
  <2>1. request' = [request EXCEPT ![r] = m] /\ UNCHANGED <<inventory, line, task>>
    BY <1>3 DEF BeginVerify, orderVars
  <2>2. line[l].packed + q \in Nat
    BY <1>2, QuantitiesNat
  <2>3. Asked(m)
    BY <2>2 DEF Asked
  <2> HIDE DEF m
  <2> QED BY <1>1, <2>1, <2>3, AskMade, BooksKept DEF ShelfInv
<1>4. ASSUME NEW r \in Requests, FinishVerify(r)
      PROVE  ShelfInv'
  <2> DEFINE l == request[r].line
             n == request[r].packed
             rows == [line EXCEPT ![l] = [line[l] EXCEPT !.packed = n]]
  <2>1. /\ request' = [request EXCEPT ![r] = Idle] /\ UNCHANGED <<task, inventory>>
        /\ line' = line \/ line' = rows
    BY <1>4 DEF FinishVerify
  <2>2. n \in Nat
    BY <1>1, <1>4 DEF FinishVerify, Requested, Asked
  <2> HIDE DEF n, l
  <2>3. LineTable(rows)
    BY <1>1, <2>2 DEF LineTable, LineRow
  <2> HIDE DEF rows
  <2>4. BooksNow'
    BY <1>1, <2>1, <2>3, NextShelf, BooksKept
  <2> QED BY <1>1, <2>1, <2>4, AskAnswered DEF ShelfInv
<1>5. ASSUME NEW o, complete_packing(o)
      PROVE  ShelfInv'
  BY <1>1, <1>5, BooksKept, AskKept DEF complete_packing, ShelfInv
<1> DEFINE Ships(rows) == /\ UNCHANGED <<inventory, task, request>>
                          /\ line' = rows
<1>6. ASSUME NEW rows, LineTable(rows), Ships(rows) PROVE ShelfInv'
  BY <1>1, <1>6, NextShelf, AskKept DEF ShelfInv
<1>7. \A o : LineTable(ShipLines(o)) /\ LineTable(ShipTheRest(o))
  <2> SUFFICES ASSUME NEW o PROVE LineTable(ShipLines(o)) /\ LineTable(ShipTheRest(o))
    OBVIOUS
  <2>1. \A l \in Lines : [line[l] EXCEPT !.shipped = line[l].picked] \in LineRow /\ line[l] \in LineRow
    BY <1>2 DEF LineRow
  <2>2. LineTable(ShipLines(o))
    BY <2>1 DEF ShipLines, LineTable
  <2>3. LineTable(ShipTheRest(o))
    BY <2>1 DEF ShipTheRest, LineTable
  <2> QED BY <2>2, <2>3
<1>8. ASSUME NEW o, \/ fulfill(o) \/ edit_to_shipped(o)
                   \/ \E acknowledged \in BOOLEAN : record_admin_ship(o, acknowledged)
                   \/ \E k \in DockKeys : ship_order(k, o)
      PROVE  ShelfInv'
  <2>1. Ships(ShipLines(o)) \/ Ships(ShipTheRest(o))
    BY <1>8 DEF fulfill, edit_to_shipped, record_ship, record_admin_ship, ship_order
  <2> HIDE DEF Ships
  <2> QED BY <1>6, <1>7, <2>1
<1>9. ASSUME NEW o, NEW k, void_ship(k, o)
      PROVE  ShelfInv'
  <2> DEFINE rows == [l \in Lines |-> IF l[1] = o THEN [line[l] EXCEPT !.shipped = 0] ELSE line[l]]
  <2>1. Ships(rows)
    BY <1>9 DEF void_ship, record_void_ship
  <2>2. LineTable(rows)
    <3>1. \A l \in Lines : [line[l] EXCEPT !.shipped = 0] \in LineRow /\ line[l] \in LineRow
      BY <1>2 DEF LineRow
    <3> QED BY <3>1 DEF LineTable
  <2> HIDE DEF rows, Ships
  <2> QED BY <1>6, <2>1, <2>2
<1> QED BY <1>3, <1>4, <1>5, <1>8, <1>9 DEF ShippingDesk

\* the cart of a till
TillCart(cart) == \A i \in DOMAIN cart : cart[i].q \in Nat

\* a till sells, reserves or takes back: what it takes is free, and none of it is owed
LEMMA TakingShelf ==
  ASSUME Shelf(inventory), NEW cart, TillCart(cart)
  PROVE  /\ InStock(cart) /\ TakesFree => Shelf(Taking(cart, -1, 0))
         /\ InStock(cart) => Shelf(Taking(cart, 0, 1))
         /\ Shelf(Taking(cart, 1, 0))
<1> DEFINE row(r, shelf, reserved) ==
             IF r[1] \in DOMAIN cart /\ cart[r[1]].bin = r[2]
             THEN [on_hand   |-> inventory[r].on_hand + shelf * cart[r[1]].q,
                   allocated |-> inventory[r].allocated + reserved * cart[r[1]].q]
             ELSE inventory[r]
           fine(v) == /\ v \in [on_hand : Int, allocated : Int]
                      /\ ~Unfloored => 0 <= v.on_hand /\ v.allocated <= v.on_hand
                      /\ ~MayDip => 0 <= v.allocated
<1>1. ASSUME NEW r \in Rows
      PROVE  /\ InStock(cart) /\ TakesFree => fine(row(r, -1, 0))
             /\ InStock(cart) => fine(row(r, 0, 1))
             /\ fine(row(r, 1, 0))
  <2>1. /\ inventory[r] \in [on_hand : Int, allocated : Int]
        /\ inventory[r].on_hand \in Int /\ inventory[r].allocated \in Int
        /\ ~Unfloored => 0 <= inventory[r].on_hand /\ inventory[r].allocated <= inventory[r].on_hand
        /\ ~MayDip => 0 <= inventory[r].allocated
    BY RowOfShelf
  <2>2. CASE r[1] \in DOMAIN cart /\ cart[r[1]].bin = r[2]
    <3>1. cart[r[1]].q \in Nat
      BY <2>2 DEF TillCart
    <3>2. r = <<r[1], cart[r[1]].bin>>
      BY <2>2, RowsOfStock
    <3>3. InStock(cart) => inventory[r].on_hand - inventory[r].allocated >= cart[r[1]].q
      BY <2>2, <3>2 DEF InStock, Available
    <3> DEFINE q == cart[r[1]].q
               oh == inventory[r].on_hand
               al == inventory[r].allocated
    <3>4. /\ row(r, -1, 0) = [on_hand |-> oh + (-1) * q, allocated |-> al + 0 * q]
          /\ row(r, 0, 1) = [on_hand |-> oh + 0 * q, allocated |-> al + 1 * q]
          /\ row(r, 1, 0) = [on_hand |-> oh + 1 * q, allocated |-> al + 0 * q]
      BY <2>2
    <3>5. /\ q \in Nat /\ oh \in Int /\ al \in Int
          /\ ~Unfloored => 0 <= oh /\ al <= oh
          /\ ~MayDip => 0 <= al
          /\ InStock(cart) => oh - al >= q
      BY <2>1, <3>1, <3>3
    <3> HIDE DEF q, oh, al, row
    <3>6. /\ oh + (-1) * q = oh - q /\ al + 0 * q = al /\ oh + 0 * q = oh
          /\ al + 1 * q = al + q /\ oh + 1 * q = oh + q
      BY <3>5
    <3> QED BY <3>4, <3>5, <3>6 DEF Unfloored
  <2>3. CASE ~(r[1] \in DOMAIN cart /\ cart[r[1]].bin = r[2])
    BY <2>1, <2>3
  <2> QED BY <2>2, <2>3
<1>2. \A shelf, reserved :
        /\ Taking(cart, shelf, reserved) = [r \in Rows |-> row(r, shelf, reserved)]
  BY DEF Taking
<1> HIDE DEF row
<1>3. ASSUME InStock(cart), TakesFree PROVE Shelf(Taking(cart, -1, 0))
  <2>1. \A r \in Rows : fine(row(r, -1, 0))
    BY <1>1, <1>3
  <2> DEFINE new == [r \in Rows |-> row(r, -1, 0)]
  <2>2. new = [r \in Rows |-> new[r]] /\ \A r \in Rows : new[r] = row(r, -1, 0)
    OBVIOUS
  <2>3. Taking(cart, -1, 0) = new
    BY <1>2
  <2> HIDE DEF new
  <2> QED BY <2>1, <2>2, <2>3, ShelfRows
<1>4. ASSUME InStock(cart) PROVE Shelf(Taking(cart, 0, 1))
  <2>1. \A r \in Rows : fine(row(r, 0, 1))
    BY <1>1, <1>4
  <2> DEFINE new == [r \in Rows |-> row(r, 0, 1)]
  <2>2. new = [r \in Rows |-> new[r]] /\ \A r \in Rows : new[r] = row(r, 0, 1)
    OBVIOUS
  <2>3. Taking(cart, 0, 1) = new
    BY <1>2
  <2> HIDE DEF new
  <2> QED BY <2>1, <2>2, <2>3, ShelfRows
<1>5. Shelf(Taking(cart, 1, 0))
  <2>1. \A r \in Rows : fine(row(r, 1, 0))
    BY <1>1
  <2> DEFINE new == [r \in Rows |-> row(r, 1, 0)]
  <2>2. new = [r \in Rows |-> new[r]] /\ \A r \in Rows : new[r] = row(r, 1, 0)
    OBVIOUS
  <2>3. Taking(cart, 1, 0) = new
    BY <1>2
  <2> HIDE DEF new
  <2> QED BY <2>1, <2>2, <2>3, ShelfRows
<1> QED BY <1>3, <1>4, <1>5

LEMMA TillLines ==
  ASSUME LineTable(line), NEW o, NEW rows, \A i \in DOMAIN rows : rows[i] \in LineRow
  PROVE  LineTable(WithLines(o, rows))
  BY DEF WithLines, LineTable

LEMMA CheckoutStep ==
  ASSUME ShelfInv, UNCHANGED desk, NEW k, NEW o, NEW how \in {"counter", "phone", "backorder"},
         how = "counter" => TakesFree,
         NEW child, NEW cart, TillCart(cart), NEW rma, NEW back, rma # NULL => back.q \in Nat,
         checkout(k, o, how, child, cart, rma, back)
  PROVE  ShelfInv'
<1>1. BooksNow /\ Requested /\ Shelf(inventory) /\ LineTable(line)
  BY DEF ShelfInv, BooksNow
<1> DEFINE rows == [i \in DOMAIN cart |->
                      CASE how = "counter"   -> HandedOver(cart[i].q)
                        [] how = "phone"     -> Promised(cart[i].q)
                        [] how = "backorder" -> NewLine(cart[i].q)]
           sold == WithLines(o, rows)
           inv == CASE how = "counter"   -> Taking(cart, -1, 0)
                    [] how = "phone"     -> Taking(cart, 0, 1)
                    [] how = "backorder" -> inventory
           after == IF rma = NULL THEN sold ELSE [sold EXCEPT ![<<rma, back.item>>] = NewLine(back.q)]
<1>2. /\ inventory' = inv /\ line' = after /\ UNCHANGED <<task, request>>
      /\ how # "backorder" => InStock(cart)
  BY DEF checkout, TillOnly
<1>3. Shelf(inv)
  BY <1>1, <1>2, TakingShelf
<1>4. LineTable(sold)
  <2>1. \A q \in Nat : HandedOver(q) \in LineRow /\ Promised(q) \in LineRow /\ NewLine(q) \in LineRow
    BY DEF HandedOver, Promised, NewLine, NoLine, LineRow
  <2>2. \A i \in DOMAIN rows : rows[i] \in LineRow
    BY <2>1 DEF TillCart
  <2> HIDE DEF rows
  <2> QED BY <1>1, <2>2, TillLines
<1> HIDE DEF sold, inv
<1>5. LineTable(after)
  <2>1. CASE rma = NULL
    BY <1>4, <2>1
  <2>2. CASE rma # NULL
    <3>1. NewLine(back.q) \in LineRow
      BY <2>2, NewLineRow
    <3>2. LineTable([sold EXCEPT ![<<rma, back.item>>] = NewLine(back.q)])
      BY <1>4, <3>1 DEF LineTable
    <3> QED BY <2>2, <3>2
  <2> QED BY <2>1, <2>2
<1> HIDE DEF after
<1>6. BooksNow'
  BY <1>1, <1>2, <1>3, <1>5, NextShelf
<1> QED BY <1>1, <1>2, <1>6, AskKept DEF ShelfInv

LEMMA TillShelf ==
  ASSUME ShelfInv, Till, UNCHANGED desk
  PROVE  ShelfInv'
<1>1. BooksNow /\ Requested /\ Shelf(inventory) /\ LineTable(line)
  BY DEF ShelfInv, BooksNow
<1>2. ASSUME NEW cart \in TillCarts PROVE TillCart(cart)
  <2>1. PICK j \in Items, b \in Pickable, n \in Quantities : cart = [i \in {j} |-> [bin |-> b, q |-> n]]
    BY DEF TillCarts
  <2> QED BY <2>1, QuantitiesNat DEF TillCart
<1>3. ASSUME NEW k, NEW o, NEW cart \in TillCarts, Does("counter"),
             checkout(k, o, "counter", Whole, cart, NULL, NULL)
      PROVE  ShelfInv'
  BY <1>2, <1>3, CheckoutStep DEF TakesFree
<1>4. ASSUME NEW k, NEW o, NEW cart \in TillCarts, checkout(k, o, "phone", Whole, cart, NULL, NULL)
      PROVE  ShelfInv'
  BY <1>2, <1>4, CheckoutStep
<1>5. ASSUME NEW k, NEW o, NEW cart \in TillCarts, checkout(k, o, "backorder", Whole, cart, NULL, NULL)
      PROVE  ShelfInv'
  BY <1>2, <1>5, CheckoutStep
<1>6. ASSUME NEW k, NEW o, NEW cart \in TillCarts, NEW p, NEW kind,
             checkout(k, o, "phone", [kind |-> kind, of |-> p], cart, NULL, NULL)
      PROVE  ShelfInv'
  BY <1>2, <1>6, CheckoutStep
<1>7. ASSUME NEW k, NEW o, NEW cart \in TillCarts, NEW p, NEW rma, NEW i, NEW n \in Quantities,
             Does("exchange"),
             checkout(k, o, "counter", [kind |-> "exchange", of |-> p], cart, rma, [item |-> i, q |-> n])
      PROVE  ShelfInv'
  <2> DEFINE back == [item |-> i, q |-> n]
             child == [kind |-> "exchange", of |-> p]
  <2>1. back.q \in Nat /\ TakesFree /\ TillCart(cart)
    BY <1>2, <1>7, QuantitiesNat DEF TakesFree
  <2>2. checkout(k, o, "counter", child, cart, rma, back)
    BY <1>7
  <2> HIDE DEF back, child
  <2> QED BY <2>1, <2>2, CheckoutStep
<1>8. ASSUME NEW o, NEW cart \in TillCarts, reference_orders(o, cart)
      PROVE  ShelfInv'
  <2> DEFINE rows == [i \in DOMAIN cart |-> HandedOver(cart[i].q)]
  <2>1. /\ line' = WithLines(o, rows) /\ inventory' = inventory /\ UNCHANGED <<task, request>>
    BY <1>8 DEF reference_orders, TillOnly
  <2>2. \A i \in DOMAIN rows : rows[i] \in LineRow
    BY <1>2 DEF TillCart, HandedOver, NewLine, NoLine, LineRow
  <2> HIDE DEF rows
  <2>3. LineTable(WithLines(o, rows))
    BY <1>1, <2>2, TillLines
  <2>4. BooksNow'
    BY <1>1, <2>1, <2>3, NextShelf
  <2> QED BY <1>1, <2>1, <2>4, AskKept DEF ShelfInv
<1>9. ASSUME NEW k, NEW o, NEW part, CartRow(part), refund(k, o, part)
      PROVE  ShelfInv'
  <2> DEFINE units == [i \in DOMAIN part |-> [bin |-> sale[o].cart[i].bin, q |-> part[i]]]
  <2>1. inventory' = Taking(units, 1, 0) /\ UNCHANGED <<line, task, request>>
    BY <1>9 DEF refund, TillOnly
  <2>2. TillCart(units)
    BY <1>9 DEF TillCart, CartRow
  <2> HIDE DEF units
  <2>3. Shelf(Taking(units, 1, 0))
    BY <1>1, <2>2, TakingShelf
  <2>4. BooksNow'
    BY <1>1, <2>1, <2>3, NextShelf
  <2> QED BY <1>1, <2>1, <2>4, AskKept DEF ShelfInv
<1>10. CASE Does("counter") /\ \E k \in Drawn, o \in NewOrder, cart \in TillCarts :
              checkout(k, o, "counter", Whole, cart, NULL, NULL)
  BY <1>3, <1>10
<1>11. CASE Does("phone") /\ \E k \in Drawn, o \in NewOrder, cart \in TillCarts :
              checkout(k, o, "phone", Whole, cart, NULL, NULL)
  BY <1>4, <1>11
<1>12. CASE Does("exchange") /\ \E k \in Drawn, o \in NewOrder, cart \in TillCarts :
       \/ checkout(k, o, "backorder", Whole, cart, NULL, NULL)
       \/ \E p \in Born, kind \in {"replacement", "exchange"} :
            checkout(k, o, "phone", [kind |-> kind, of |-> p], cart, NULL, NULL)
       \/ \E p \in Born, rma \in Unborn, i \in Items, n \in Quantities :
            checkout(k, o, "counter", [kind |-> "exchange", of |-> p], cart, rma, [item |-> i, q |-> n])
       \/ reference_orders(o, cart)
  BY <1>5, <1>6, <1>7, <1>8, <1>12
<1>13. CASE Does("refund") /\ \E k \in Drawn, o \in Born, j \in Items, n \in Quantities :
              refund(k, o, [i \in {j} |-> n])
  <2>1. PICK k \in Drawn, o \in Born, j \in Items, n \in Quantities : refund(k, o, [i \in {j} |-> n])
    BY <1>13
  <2> DEFINE part == [i \in {j} |-> n]
  <2>2. CartRow(part)
    BY QuantitiesNat DEF CartRow
  <2>3. refund(k, o, part)
    BY <2>1
  <2> HIDE DEF part
  <2> QED BY <1>9, <2>2, <2>3
<1> QED BY <1>10, <1>11, <1>12, <1>13 DEF Till

-----------------------------------------------------------------------------
(* The morning: the orders already entered, one after the other *)

EntriesUpTo(n, f) == f = [m \in 0 .. n |-> IF m = 0 THEN EmptyShop
                                          ELSE Entered(f[m - 1], m, desk.carts[m])]

LEMMA EntriesExist ==
  ASSUME NEW n \in Nat
  PROVE  \E f : EntriesUpTo(n, f)
<1> DEFINE Missing == {k \in Nat : ~ \E f : EntriesUpTo(k, f)}
           R == {p \in Nat \X Nat : p[1] < p[2]}
<1> SUFFICES ASSUME Missing # {} PROVE FALSE
  OBVIOUS
<1>1. IsWellFoundedOn(R, Nat)
  BY NatLessThanWellFounded, Zenon DEF OpToRel
<1>2. PICK k \in Missing : \A j \in Missing : ~ (<<j, k>> \in R)
  <2>1. Missing \subseteq Nat
    OBVIOUS
  <2> HIDE DEF R, Missing
  <2> QED BY <1>1, <2>1, WFMin
<1>3. k \in Nat /\ ~ \E f : EntriesUpTo(k, f)
  BY <1>2
<1>4. CASE k = 0
  <2> DEFINE f == [m \in 0 .. 0 |-> EmptyShop]
  <2>1. EntriesUpTo(0, f)
    BY DEF EntriesUpTo
  <2> QED BY <1>3, <1>4, <2>1
<1>5. CASE k # 0
  <2>1. k - 1 \in Nat /\ k - 1 \notin Missing
    <3>1. k - 1 \in Nat /\ k - 1 < k
      BY <1>3, <1>5
    <3>2. <<k - 1, k>> \in R
      BY <1>3, <3>1
    <3> HIDE DEF R, Missing
    <3> QED BY <1>2, <3>1, <3>2
  <2>2. PICK f : EntriesUpTo(k - 1, f)
    BY <2>1
  <2> DEFINE g == [m \in 0 .. k |-> IF m = k THEN Entered(f[k - 1], k, desk.carts[k]) ELSE f[m]]
             h == [m \in 0 .. k |-> IF m = 0 THEN EmptyShop ELSE Entered(g[m - 1], m, desk.carts[m])]
  <2>3. ASSUME NEW m \in 0 .. k PROVE g[m] = h[m]
    <3>1. CASE m = k
      <4>1. g[m - 1] = f[k - 1]
        BY <1>3, <1>5, <3>1
      <4> QED BY <1>5, <3>1, <4>1
    <3>2. CASE m # k
      <4>1. m \in 0 .. (k - 1)
        BY <1>3, <3>2
      <4>2. f[m] = IF m = 0 THEN EmptyShop ELSE Entered(f[m - 1], m, desk.carts[m])
        BY <2>2, <4>1 DEF EntriesUpTo
      <4>3. m # 0 => g[m - 1] = f[m - 1]
        BY <1>3, <4>1
      <4> QED BY <3>2, <4>2, <4>3
    <3> QED BY <3>1, <3>2
  <2>4. g = h
    <3>1. DOMAIN g = 0 .. k /\ DOMAIN h = 0 .. k
      OBVIOUS
    <3> QED BY <2>3
  <2>5. EntriesUpTo(k, g)
    BY <2>4 DEF EntriesUpTo
  <2> QED BY <1>3, <2>5
<1> QED BY <1>4, <1>5

OrderTable(ord) ==
  DOMAIN ord = Orders /\ \A o \in Orders : DOMAIN ord[o] = {"status", "kind", "parent", "voided"}

LEMMA EntryOrders ==
  ASSUME NEW db, Session(db), OrderTable(db.order), NEW o, NEW cart
  PROVE  OrderTable(Entered(db, o, cart).order)
<1>1. Entered(db, o, cart).order = [db.order EXCEPT ![o] = [NoOrder EXCEPT !.status = "OPEN"]]
  BY DEF Entered, Session
<1> QED BY <1>1 DEF OrderTable, NoOrder

LEMMA EmptyBooks ==
  ASSUME desk \in Desks
  PROVE  Books(EmptyShop) /\ OrderTable(EmptyShop.order)
<1>1. desk.shelf \in [Rows -> Nat]
  BY DesksAssumption
<1>2. Session(EmptyShop)
  BY DEF Session, EmptyShop
<1>3. Shelf(EmptyShop.inv)
  BY <1>1 DEF EmptyShop, Shelf, InventoryType
<1>4. LineTable(EmptyShop.line)
  BY NewLineRow DEF EmptyShop, LineTable
<1>5. TaskTable(EmptyShop.task)
  BY FS_EmptySet DEF EmptyShop, TaskTable
<1>6. OrderTable(EmptyShop.order)
  BY DEF EmptyShop, OrderTable, NoOrder
<1> QED BY <1>2, <1>3, <1>4, <1>5, <1>6 DEF Books

LEMMA MorningBooks ==
  ASSUME desk \in Desks
  PROVE  Books(Morning) /\ OrderTable(Morning.order)
<1> DEFINE N == Len(desk.carts)
<1>1. N \in Nat /\ \A n \in 1 .. N : CartRow(desk.carts[n])
  <2>1. desk.carts \in Seq([Items -> Nat])
    BY DesksAssumption
  <2>2. N \in Nat
    BY <2>1, LenProperties
  <2>3. \A n \in 1 .. N : desk.carts[n] \in [Items -> Nat]
    BY <2>1, ElementOfSeq
  <2> QED BY <2>2, <2>3 DEF CartRow
<1>2. \E f : f = [m \in 0 .. N |-> IF m = 0 THEN EmptyShop
                                   ELSE Entered(f[m - 1], m, desk.carts[m])]
  <2> HIDE DEF N
  <2> QED BY <1>1, EntriesExist DEF EntriesUpTo
<1>3. \E e : /\ e = [m \in 0 .. N |-> IF m = 0 THEN EmptyShop
                                   ELSE Entered(e[m - 1], m, desk.carts[m])]
             /\ Morning = e[N]
  BY <1>2 DEF Morning
<1>4. PICK e : EntriesUpTo(N, e) /\ Morning = e[N]
  BY <1>3 DEF EntriesUpTo
<1> DEFINE Wrong == {n \in 0 .. N : ~ (Books(e[n]) /\ OrderTable(e[n].order))}
           R == {p \in Nat \X Nat : p[1] < p[2]}
<1>5. Wrong = {}
  <2> SUFFICES ASSUME Wrong # {} PROVE FALSE
    OBVIOUS
  <2>1. IsWellFoundedOn(R, Nat)
    BY NatLessThanWellFounded, Zenon DEF OpToRel
  <2>2. PICK n \in Wrong : \A j \in Wrong : ~ (<<j, n>> \in R)
    <3>1. Wrong \subseteq Nat
      OBVIOUS
    <3> HIDE DEF R, Wrong
    <3> QED BY <2>1, <3>1, WFMin
  <2> HIDE DEF N
  <2>3. n \in 0 .. N /\ n \in Nat /\ ~ (Books(e[n]) /\ OrderTable(e[n].order))
    BY <1>1, <2>2
  <2>4. e[n] = IF n = 0 THEN EmptyShop ELSE Entered(e[n - 1], n, desk.carts[n])
    BY <1>4, <2>3 DEF EntriesUpTo
  <2>5. n # 0
    BY <2>3, <2>4, EmptyBooks
  <2>6. Books(e[n - 1]) /\ OrderTable(e[n - 1].order)
    <3>1. n - 1 \in 0 .. N /\ n - 1 \in Nat /\ n - 1 < n
      BY <1>1, <2>3, <2>5
    <3>2. <<n - 1, n>> \in R
      BY <2>3, <3>1
    <3>3. n - 1 \notin Wrong
      <4> HIDE DEF R, Wrong
      <4> QED BY <2>2, <3>2
    <3> QED BY <3>1, <3>3
  <2>7. CartRow(desk.carts[n])
    BY <1>1, <2>3, <2>5
  <2>8. LET entered == Entered(e[n - 1], n, desk.carts[n])
        IN  Books(entered) /\ OrderTable(entered.order)
    BY <2>6, <2>7, EntryBooks, EntryOrders DEF Books
  <2> QED BY <2>3, <2>4, <2>5, <2>8
<1>6. Books(e[N]) /\ OrderTable(e[N].order)
  <2> HIDE DEF N
  <2>1. N \in 0 .. N
    BY <1>1
  <2> QED BY <1>5, <2>1
<1> QED BY <1>4, <1>6

LEMMA ShelfInvInit == Init => ShelfInv
<1> SUFFICES ASSUME Init PROVE ShelfInv
  OBVIOUS
<1>1. Books(Morning)
  BY MorningBooks DEF Init
<1>2. inventory = Morning.inv /\ line = Morning.line /\ task = {} /\ request = [r \in Requests |-> Idle]
  BY DEF Init
<1>3. TaskTable({})
  BY FS_EmptySet DEF TaskTable
<1>4. BooksNow
  BY <1>1, <1>2, <1>3 DEF BooksNow, Books
<1>5. Asked(Idle)
  BY DEF Asked, Idle
<1>6. Requested
  BY <1>2, <1>5 DEF Requested
<1> QED BY <1>4, <1>6 DEF ShelfInv

LEMMA ShelfInvNext ==
  ASSUME ShelfInv, [Next]_vars
  PROVE  ShelfInv'
<1>1. UNCHANGED desk
  BY DEF Next, vars
<1>3. BooksNow /\ Requested
  BY DEF ShelfInv
<1>4. CASE PickWork
  BY <1>1, <1>3, <1>4, PickWorkShelf
<1>5. CASE OrderDesk
  BY <1>1, <1>3, <1>5, OrderDeskShelf, AskKept DEF ShelfInv
<1>6. CASE ReturnsDesk
  BY <1>1, <1>3, <1>6, ReturnsDeskShelf
<1>7. CASE ShippingDesk
  BY <1>1, <1>3, <1>7, ShippingDeskShelf
<1>8. CASE Till
  BY <1>1, <1>3, <1>8, TillShelf
<1>9. CASE UNCHANGED vars
  BY <1>3, <1>9, BooksKept, AskKept DEF vars, ShelfInv
<1> QED BY <1>4, <1>5, <1>6, <1>7, <1>8, <1>9 DEF Next

\* Reservations are made under the lock of the row and picks take what was promised to
\* them: whatever interleaves, no row of inventory promises more than it holds or holds
\* fewer than no units.
THEOREM NoOverReservation == Spec => []NeverOverReserved
<1>1. Init => ShelfInv
  BY ShelfInvInit
<1>2. ShelfInv /\ [Next]_vars => ShelfInv'
  BY ShelfInvNext
<1>3. ShelfInv => NeverOverReserved
  BY DEF NeverOverReserved, ShelfInv, BooksNow, Shelf
<1> QED BY <1>1, <1>2, <1>3, PTL DEF Spec

-----------------------------------------------------------------------------
(***************************************************************************)
(* Refunds.  An order that was entered stays entered, so that the number   *)
(* of a sale is never used again; and on the days on which every order     *)
(* ships as it was sold, the desks that do not ship leave what a line      *)
(* ordered and shipped alone.                                              *)
(***************************************************************************)


Lasting(old, new) ==
  /\ OrderTable(new)
  /\ \A o \in Orders : old[o].status # "NONE" => new[o].status # "NONE"

NoneShipped(old, new) ==
  \A o \in Orders : old[o].status # "NONE" /\ new[o].status = "SHIPPED" => old[o].status = "SHIPPED"

\* the lines of the orders entered so far
Alike(new, old) == new.row = old.row /\ new.ordered = old.ordered /\ new.shipped = old.shipped
LinesLast(ord, old, new) == \A l \in Lines : ord[l[1]].status # "NONE" => Alike(new[l], old[l])

Unshorted(T) == \A t \in T : t.status # "SHORT" /\ t.shorted = {}

Quiet(db, new) ==
  /\ Session(new)
  /\ Lasting(db.order, new.order) /\ NoneShipped(db.order, new.order)
  /\ LinesLast(db.order, db.line, new.line)
  /\ Unshorted(db.task) => Unshorted(new.task)

LEMMA QuietTwice ==
  ASSUME NEW a, NEW b, NEW c, Quiet(a, b), Quiet(b, c)
  PROVE  Quiet(a, c)
<1>1. Lasting(a.order, c.order) /\ NoneShipped(a.order, c.order)
  BY DEF Quiet, Lasting, NoneShipped
<1>2. LinesLast(a.order, a.line, c.line)
  <2>1. \A l \in Lines : l[1] \in Orders
    BY DEF Lines
  <2> QED BY <2>1 DEF Quiet, Lasting, LinesLast, Alike
<1> QED BY <1>1, <1>2 DEF Quiet

\* what is written to a line between its entry and its shipment
LEMMA LinesKept ==
  ASSUME NEW old, LineTable(old), NEW l \in Lines
  PROVE  /\ DOMAIN old[l] = {"row", "ordered", "allocated", "picked", "packed", "shipped", "received"}
         /\ Alike(old[l], old[l])
         /\ \A q : Alike([old[l] EXCEPT !.allocated = q], old[l])
         /\ \A q : Alike([old[l] EXCEPT !.picked = q], old[l])
         /\ \A q : Alike([old[l] EXCEPT !.packed = q], old[l])
         /\ \A p, q : Alike([old[l] EXCEPT !.picked = p, !.allocated = q], old[l])
         /\ \A p, q : Alike([old[l] EXCEPT !.picked = p, !.packed = q], old[l])
<1>1. old[l] \in LineRow
  BY DEF LineTable
<1>2. DOMAIN old[l] = {"row", "ordered", "allocated", "picked", "packed", "shipped", "received"}
  BY <1>1 DEF LineRow
<1> QED BY <1>2 DEF Alike

LEMMA SameLasts == \A ord : OrderTable(ord) => Lasting(ord, ord) /\ NoneShipped(ord, ord)
  BY DEF Lasting, NoneShipped

LEMMA NormaliseQuiet ==
  ASSUME NEW db, Books(db), OrderTable(db.order), NEW standing
  PROVE  Quiet(db, _normalize_so_reservations(db, standing))
<1> DEFINE new == _normalize_so_reservations(db, standing)
<1>1. /\ Session(new) /\ new.order = db.order /\ new.task = db.task
      /\ new.line = [l \in Lines |-> IF l \in DOMAIN standing
                                     THEN [db.line[l] EXCEPT !.allocated = db.line[l].picked]
                                     ELSE db.line[l]]
  BY DEF Books, Session, _normalize_so_reservations
<1> HIDE DEF new
<1>2. LinesLast(db.order, db.line, new.line)
  BY <1>1, LinesKept DEF LinesLast, Alike, Books
<1>3. Quiet(db, new)
  BY <1>1, <1>2, SameLasts DEF Quiet
<1> QED BY <1>3 DEF new

LEMMA ReserveQuiet ==
  ASSUME NEW db, Books(db), OrderTable(db.order), NEW taken, NEW T, Unshorted(T), NEW b, NEW u, NEW O
  PROVE  Quiet(db, Reserve(db, taken, T, b, u, O))
<1> DEFINE new == Reserve(db, taken, T, b, u, O)
           ofLine(l) == Total(taken, {x \in DOMAIN taken : x[1] = l})
<1>1. /\ Session(new) /\ new.order = db.order /\ new.task = db.task \cup T
      /\ new.line = [l \in Lines |-> [db.line[l] EXCEPT !.allocated = db.line[l].allocated + ofLine(l)]]
  BY LinesKept DEF Books, Session, Reserve
<1> HIDE DEF new, ofLine
<1>2. LinesLast(db.order, db.line, new.line)
  BY <1>1, LinesKept DEF LinesLast, Alike, Books
<1>3. Quiet(db, new)
  BY <1>1, <1>2, SameLasts DEF Quiet, Unshorted
<1> QED BY <1>3 DEF new

LEMMA NewTasksUnshorted ==
  ASSUME NEW taken, NEW b
  PROVE  Unshorted(LineTasks(taken, b)) /\ Unshorted(WaveTasks(taken, b))
<1>1. \A o, i, bin, q, share : /\ NewTask(b, o, i, bin, q, share).status = "PENDING"
                               /\ NewTask(b, o, i, bin, q, share).shorted = {}
  BY DEF NewTask
<1>2. Unshorted(LineTasks(taken, b))
  BY <1>1 DEF Unshorted, LineTasks
<1>3. \A i, c : /\ WaveTask(taken, b, i, c).status = "PENDING"
                /\ WaveTask(taken, b, i, c).shorted = {}
  BY <1>1 DEF WaveTask
<1>4. Unshorted(WaveTasks(taken, b))
  BY <1>3 DEF Unshorted, WaveTasks
<1> QED BY <1>2, <1>4

\* a task whose status is written, short ones apart, is not short
LEMMA UnshortedRow ==
  ASSUME NEW T, TaskTable(T), NEW t \in T, Unshorted(T)
  PROVE  /\ DOMAIN t = TaskFields /\ t.status # "SHORT" /\ t.shorted = {}
         /\ \A s : LET new == [t EXCEPT !.status = s] IN new.status = s /\ new.shorted = {}
<1>1. DOMAIN t = TaskFields
  BY DEF TaskTable, TaskRow
<1>2. {"status", "shorted"} \subseteq TaskFields
  BY DEF TaskFields
<1> QED BY <1>1, <1>2 DEF Unshorted

LEMMA RevertQuiet ==
  ASSUME NEW db, Books(db), OrderTable(db.order), NEW B
  PROVE  Quiet(db, full_revert_batch(db, B))
<1> DEFINE new == full_revert_batch(db, B)
           T == {t \in db.task : /\ t.batch \in B /\ db.batch[t.batch].status = "OPEN"
                                 /\ t.status \in {"PENDING", "PICKED", "SHORT"}}
           picked(l) == AtLeast0(db.line[l].picked - Picked({t \in T : t.line = l}))
           held(l) == AtLeast0(db.line[l].allocated - Quantity({t \in T : t.line = l}))
<1>1. /\ Session(new) /\ new.order = db.order
      /\ new.task = {IF t \in T THEN Undone(t) ELSE t : t \in db.task}
  BY DEF Books, Session, full_revert_batch
<1>2. new.line = [l \in Lines |-> [db.line[l] EXCEPT !.picked = picked(l), !.allocated = held(l)]]
  BY LinesKept DEF Books, Session, full_revert_batch
<1> HIDE DEF new, picked, held
<1>3. LinesLast(db.order, db.line, new.line)
  <2>1. ASSUME NEW l \in Lines PROVE Alike(new.line[l], db.line[l])
    <3> DEFINE p == picked(l)
               q == held(l)
    <3>1. new.line[l] = [db.line[l] EXCEPT !.picked = p, !.allocated = q]
      BY <1>2
    <3> HIDE DEF p, q
    <3>2. Alike([db.line[l] EXCEPT !.picked = p, !.allocated = q], db.line[l])
      BY LinesKept DEF Books
    <3> QED BY <3>1, <3>2
  <2> QED BY <2>1 DEF LinesLast
<1>4. ASSUME Unshorted(db.task) PROVE Unshorted(new.task)
  <2>1. ASSUME NEW t \in db.task PROVE Undone(t).status # "SHORT" /\ Undone(t).shorted = {}
    BY <1>4, UnshortedRow DEF Undone, Books
  <2> QED BY <1>1, <1>4, <2>1 DEF Unshorted
<1>5. Quiet(db, new)
  BY <1>1, <1>3, <1>4, SameLasts DEF Quiet
<1> QED BY <1>5 DEF new

LEMMA ConfirmQuiet ==
  ASSUME NEW db, Books(db), OrderTable(db.order), NEW t, NEW q
  PROVE  Quiet(db, confirm_pick(db, t, q))
<1> DEFINE new == confirm_pick(db, t, q)
           gain == IF IsWaveTask(t) THEN Shared(db, t, t.share) ELSE [l \in {t.line} |-> q]
           row == [status |-> "PICKED", picked |-> q, shorted |-> {}]
<1>1. /\ Session(new) /\ new.order = db.order
      /\ new.line = AddPicked(db, gain) /\ new.task = WriteTask(db, t, row)
  BY DEF Books, Session, confirm_pick
<1> HIDE DEF new, gain
<1>2. LinesLast(db.order, db.line, new.line)
  BY <1>1, LinesKept DEF LinesLast, Alike, Books, AddPicked
<1>3. ASSUME Unshorted(db.task) PROVE Unshorted(new.task)
  <2>1. ASSUME NEW s \in db.task
        PROVE  LET w == [s EXCEPT !.status = row.status, !.picked = row.picked,
                                  !.shorted = s.shorted \cup row.shorted]
               IN  w.status # "SHORT" /\ w.shorted = {}
    <3>1. {"status", "shorted", "picked"} \subseteq TaskFields
      BY DEF TaskFields
    <3>2. DOMAIN s = TaskFields /\ s.shorted = {}
      BY <1>3, UnshortedRow DEF Books
    <3> QED BY <3>1, <3>2
  <2> QED BY <1>1, <1>3, <2>1 DEF Unshorted, WriteTask
<1>4. Quiet(db, new)
  BY <1>1, <1>2, <1>3, SameLasts DEF Quiet
<1> QED BY <1>4 DEF new

LEMMA UnwindQuiet ==
  ASSUME NEW db, Books(db), OrderTable(db.order), NEW o
  PROVE  Quiet(db, _unwind_allocated(db, o)) /\ Quiet(db, _unwind_picked_or_packed(db, o))
<1>1. Quiet(db, _unwind_allocated(db, o))
  <2> DEFINE new == _unwind_allocated(db, o)
  <2>1. /\ Session(new) /\ new.order = db.order
        /\ new.line = [l \in Lines |-> IF l[1] = o THEN [db.line[l] EXCEPT !.allocated = 0]
                                       ELSE db.line[l]]
        /\ new.task \subseteq db.task
    BY DEF Books, Session, _unwind_allocated
  <2> HIDE DEF new
  <2>2. LinesLast(db.order, db.line, new.line)
    <3>1. ASSUME NEW l \in Lines PROVE Alike(new.line[l], db.line[l])
      <4>1. \A q : Alike([db.line[l] EXCEPT !.allocated = q], db.line[l])
        BY LinesKept DEF Books
      <4>2. Alike(db.line[l], db.line[l])
        BY LinesKept DEF Books
      <4> QED BY <2>1, <4>1, <4>2
    <3> QED BY <3>1 DEF LinesLast
  <2>3. Quiet(db, new)
    BY <2>1, <2>2, SameLasts DEF Quiet, Unshorted
  <2> QED BY <2>3 DEF new
<1>2. Quiet(db, _unwind_picked_or_packed(db, o))
  <2> DEFINE new == _unwind_picked_or_packed(db, o)
  <2>1. /\ Session(new) /\ new.order = db.order /\ new.task = db.task
        /\ new.line = [l \in Lines |-> IF l[1] = o /\ db.line[l].picked > 0
                                       THEN [db.line[l] EXCEPT !.picked = 0, !.packed = 0]
                                       ELSE db.line[l]]
    BY DEF Books, Session, _unwind_picked_or_packed
  <2> HIDE DEF new
  <2>2. LinesLast(db.order, db.line, new.line)
    <3>1. ASSUME NEW l \in Lines PROVE Alike(new.line[l], db.line[l])
      <4>1. \A p, q : Alike([db.line[l] EXCEPT !.picked = p, !.packed = q], db.line[l])
        BY LinesKept DEF Books
      <4>2. Alike(db.line[l], db.line[l])
        BY LinesKept DEF Books
      <4>3. Alike([db.line[l] EXCEPT !.picked = 0, !.packed = 0], db.line[l])
        BY <4>1, Zenon
      <4> QED BY <2>1, <4>2, <4>3
    <3> QED BY <3>1 DEF LinesLast
  <2>3. Quiet(db, new)
    BY <2>1, <2>2, SameLasts DEF Quiet
  <2> QED BY <2>3 DEF new
<1> QED BY <1>1, <1>2

\* the status of an order is written
LEMMA StatusQuiet ==
  ASSUME NEW db, Session(db), OrderTable(db.order), NEW o, NEW s, s # "NONE",
         o \in Orders => s # "SHIPPED" \/ db.order[o].status = "SHIPPED"
  PROVE  Quiet(db, [db EXCEPT !.order[o].status = s])
<1> DEFINE new == [db EXCEPT !.order[o].status = s]
<1>1. /\ Session(new) /\ new.line = db.line /\ new.task = db.task
      /\ new.order = [db.order EXCEPT ![o].status = s]
  BY DEF Session
<1> HIDE DEF new
<1>2. Lasting(db.order, new.order) /\ NoneShipped(db.order, new.order)
  BY <1>1 DEF Lasting, NoneShipped, OrderTable
<1>3. Quiet(db, new)
  BY <1>1, <1>2 DEF Quiet, LinesLast, Alike
<1> QED BY <1>3 DEF new

LEMMA CancelOneQuiet ==
  ASSUME NEW db, Books(db), OrderTable(db.order), NEW o
  PROVE  Quiet(db, CancelOne(db, o))
<1> DEFINE unwound == CASE db.order[o].status = "OPEN"                -> _unwind_allocated(db, o)
                        [] db.order[o].status \in {"PICKED", "PACKED"} -> _unwind_picked_or_packed(db, o)
                        [] OTHER                                      -> db
<1>1. Quiet(db, unwound)
  <2>1. Quiet(db, db)
    BY SameLasts DEF Quiet, Books, LinesLast, Alike
  <2> QED BY <2>1, UnwindQuiet
<1>2. CancelOne(db, o) = [unwound EXCEPT !.order[o].status = "CANCELLED"]
  BY DEF CancelOne
<1> HIDE DEF unwound
<1>3. Session(unwound) /\ OrderTable(unwound.order)
  BY <1>1 DEF Quiet, Lasting
<1>4. Quiet(unwound, [unwound EXCEPT !.order[o].status = "CANCELLED"])
  BY <1>3, StatusQuiet
<1>5. Quiet(db, [unwound EXCEPT !.order[o].status = "CANCELLED"])
  BY <1>1, <1>4, QuietTwice
<1> QED BY <1>2, <1>5

LEMMA CancelledQuiet ==
  ASSUME NEW db, Books(db), OrderTable(db.order), NEW o \in Orders, Does("cancel")
  PROVE  Quiet(db, Cancelled(db, o))
<1> DEFINE parent == CancelOne(db, o)
           c == Min(BackordersOf(parent, o))
<1>1. Quiet(db, parent) /\ Books(parent)
  BY CancelOneQuiet, CancelOneBooks
<1>2. Quiet(parent, CancelOne(parent, c))
  <2> HIDE DEF parent, c
  <2> QED BY <1>1, CancelOneQuiet DEF Quiet, Lasting
<1>3. Quiet(db, CancelOne(parent, c))
  <2> HIDE DEF parent, c
  <2> QED BY <1>1, <1>2, QuietTwice
<1>4. Cancelled(db, o) = parent \/ Cancelled(db, o) = CancelOne(parent, c)
  BY DEF Cancelled
<1> QED BY <1>1, <1>3, <1>4

\* an order is entered
LEMMA EntryQuiet ==
  ASSUME NEW db, Books(db), OrderTable(db.order), NEW o, NEW cart,
         o \in Orders => db.order[o].status = "NONE"
  PROVE  Quiet(db, Entered(db, o, cart))
<1> DEFINE new == Entered(db, o, cart)
           row(l) == [NewLine(cart[l[2]]) EXCEPT !.allocated = Reserved(db.inv, l[2], cart[l[2]])]
<1>1. /\ Session(new) /\ new.task = db.task
      /\ new.order = [db.order EXCEPT ![o] = [NoOrder EXCEPT !.status = "OPEN"]]
      /\ new.line = [l \in Lines |-> IF l[1] = o /\ l[2] \in DOMAIN cart THEN row(l) ELSE db.line[l]]
  BY DEF Books, Session, Entered
<1> HIDE DEF new, row
<1>2. Lasting(db.order, new.order) /\ NoneShipped(db.order, new.order)
  BY <1>1 DEF Lasting, NoneShipped, OrderTable, NoOrder
<1>3. LinesLast(db.order, db.line, new.line)
  <2>1. ASSUME NEW l \in Lines, db.order[l[1]].status # "NONE" PROVE Alike(new.line[l], db.line[l])
    <3>1. l[1] # o
      BY <2>1 DEF Lines
    <3> QED BY <1>1, <3>1, LinesKept DEF Books
  <2> QED BY <2>1 DEF LinesLast
<1>4. Quiet(db, new)
  BY <1>1, <1>2, <1>3 DEF Quiet
<1> QED BY <1>4 DEF new

LEMMA ReleaseQuiet ==
  ASSUME NEW db, Books(db), OrderTable(db.order), NEW T
  PROVE  Quiet(db, ReleasePicks(db, T))
<1> DEFINE new == ReleasePicks(db, T)
           picked(l) == AtLeast0(db.line[l].picked - Picked({t \in T : t.line = l}))
           held(l) == AtLeast0(db.line[l].allocated - Quantity({t \in T : t.line = l}))
<1>1. /\ Session(new) /\ new.order = db.order
      /\ new.task = {IF t \in T THEN [t EXCEPT !.status = "RELEASED"] ELSE t : t \in db.task}
  BY DEF Books, Session, ReleasePicks
<1>2. new.line = [l \in Lines |-> [db.line[l] EXCEPT !.picked = picked(l), !.allocated = held(l)]]
  BY LinesKept DEF Books, Session, ReleasePicks
<1> HIDE DEF new, picked, held
<1>3. LinesLast(db.order, db.line, new.line)
  <2>1. ASSUME NEW l \in Lines PROVE Alike(new.line[l], db.line[l])
    <3> DEFINE p == picked(l)
               q == held(l)
    <3>1. new.line[l] = [db.line[l] EXCEPT !.picked = p, !.allocated = q]
      BY <1>2
    <3> HIDE DEF p, q
    <3>2. Alike([db.line[l] EXCEPT !.picked = p, !.allocated = q], db.line[l])
      BY LinesKept DEF Books
    <3> QED BY <3>1, <3>2
  <2> QED BY <2>1 DEF LinesLast
<1>4. ASSUME Unshorted(db.task) PROVE Unshorted(new.task)
  <2>1. ASSUME NEW t \in db.task
        PROVE  LET w == [t EXCEPT !.status = "RELEASED"] IN w.status # "SHORT" /\ w.shorted = {}
    BY <1>4, UnshortedRow DEF Books
  <2> QED BY <1>1, <1>4, <2>1 DEF Unshorted
<1>5. Quiet(db, new)
  BY <1>1, <1>3, <1>4, SameLasts DEF Quiet
<1> QED BY <1>5 DEF new

LEMMA AdminPickQuiet ==
  ASSUME NEW db, Books(db), OrderTable(db.order), NEW l \in Lines, NEW bin, NEW q, NEW b, NEW u
  PROVE  Quiet(db, maybe_promote_so_to_picked(record_admin_pick(db, l, bin, q, b, u), l[1]))
<1> DEFINE new == record_admin_pick(db, l, bin, q, b, u)
           picked == db.line[l].picked + q
           held == MaxOf2(db.line[l].allocated, db.line[l].picked + q)
           t == [NewTask(b, l[1], l[2], bin, q, NoShare) EXCEPT !.status = "PICKED", !.picked = q]
<1>1. /\ Session(new) /\ new.order = db.order
      /\ new.line = [db.line EXCEPT ![l] = [db.line[l] EXCEPT !.picked = picked, !.allocated = held]]
      /\ new.task = db.task \cup {t}
  BY DEF record_admin_pick, Books, Session
<1>2. t.status # "SHORT" /\ t.shorted = {}
  BY DEF NewTask
<1> HIDE DEF new, picked, held, t
<1>3. LinesLast(db.order, db.line, new.line)
  <2>1. Alike([db.line[l] EXCEPT !.picked = picked, !.allocated = held], db.line[l])
    BY LinesKept DEF Books
  <2>2. ASSUME NEW k \in Lines PROVE Alike(new.line[k], db.line[k])
    <3>1. Alike(db.line[k], db.line[k])
      BY LinesKept DEF Books
    <3> QED BY <1>1, <2>1, <3>1 DEF Books, LineTable
  <2> QED BY <2>2 DEF LinesLast
<1>4. Quiet(db, new)
  BY <1>1, <1>2, <1>3, SameLasts DEF Quiet, Unshorted
<1>5. Quiet(new, [new EXCEPT !.order[l[1]].status = "PICKED"])
  BY <1>1, StatusQuiet
<1>6. Quiet(db, [new EXCEPT !.order[l[1]].status = "PICKED"])
  BY <1>4, <1>5, QuietTwice
<1> QED BY <1>4, <1>6 DEF maybe_promote_so_to_picked, new

-----------------------------------------------------------------------------
(* The steps *)

Calm == /\ NoneShipped(order, order') /\ LinesLast(order, line, line')
        /\ Unshorted(task) => Unshorted(task')

\* on every day: no order leaves, and what has left keeps what it ordered and shipped
Settled == /\ NoneShipped(order, order')
           /\ \A l \in Lines : order[l[1]].status = "SHIPPED" => Alike(line'[l], line[l])

LEMMA CalmSettled == Calm => Settled
  BY DEF Calm, Settled, LinesLast

\* no request is in flight that leaves a task short
NoneAsksShort == \A r \in Requests : request[r].op # "short"

LEMMA CommitQuiet ==
  ASSUME NEW new, Quiet(Db, new), Commit(new)
  PROVE  Lasting(order, order') /\ Calm
<1>1. /\ Db.order = order /\ Db.line = line /\ Db.task = task
      /\ order' = new.order /\ line' = new.line /\ task' = new.task
  BY CommitDb DEF Quiet, Db
<1> QED BY <1>1 DEF Quiet, Calm

LEMMA StillQuiet ==
  ASSUME BooksNow, OrderTable(order), UNCHANGED <<order, line, task>>
  PROVE  Lasting(order, order') /\ Calm
<1>1. \A l \in Lines : Alike(line[l], line[l])
  BY LinesKept DEF BooksNow
<1> QED BY <1>1, SameLasts DEF Calm, LinesLast

\* one line is written, and keeps what it ordered and shipped
LEMMA LineQuiet ==
  ASSUME BooksNow, OrderTable(order), NEW l, NEW row, line' = [line EXCEPT ![l] = row],
         l \in Lines => Alike(row, line[l]), UNCHANGED <<order, task>>
  PROVE  Lasting(order, order') /\ Calm
<1>1. \A k \in Lines : Alike(line[k], line[k])
  BY LinesKept DEF BooksNow
<1>2. \A k \in Lines : Alike(line'[k], line[k])
  BY <1>1 DEF BooksNow, LineTable
<1> QED BY <1>2, SameLasts DEF Calm, LinesLast

\* one order is written, and does not become shipped
LEMMA OrderQuiet ==
  ASSUME BooksNow, OrderTable(order), NEW o, NEW s, s \notin {"NONE", "SHIPPED"},
         order' = [order EXCEPT ![o].status = s], UNCHANGED <<line, task>>
  PROVE  Lasting(order, order') /\ Calm
<1>1. \A k \in Lines : Alike(line[k], line[k])
  BY LinesKept DEF BooksNow
<1>2. Lasting(order, order') /\ NoneShipped(order, order')
  BY DEF Lasting, NoneShipped, OrderTable
<1> QED BY <1>1, <1>2 DEF Calm, LinesLast

\* an order is entered at a desk
LEMMA BirthLasts ==
  ASSUME OrderTable(order), NEW o \in Orders, order[o].status = "NONE", NEW row,
         DOMAIN row = {"status", "kind", "parent", "voided"}, order' = [order EXCEPT ![o] = row]
  PROVE  Lasting(order, order') /\ NoneShipped(order, order')
  BY DEF Lasting, NoneShipped, OrderTable

LEMMA OrderDeskQuiet ==
  ASSUME BooksNow, OrderTable(order), OrderDesk
  PROVE  Lasting(order, order') /\ Settled /\ (ShipsAsSold => Calm)
<1>1. Books(Db) /\ OrderTable(Db.order) /\ Db.order = order
  BY BooksOfDb DEF Db
<1>2. ASSUME NEW o, NEW cart, create_sales_order(o, cart)
      PROVE  Lasting(order, order') /\ Calm
  <2>1. Db.order[o].status = "NONE" /\ Commit(Entered(Db, o, cart))
    BY <1>1, <1>2 DEF create_sales_order, FreshOrder, Unborn
  <2> QED BY <1>1, <2>1, EntryQuiet, CommitQuiet
<1>3. ASSUME NEW l \in Lines, NEW d, adjust_sales_order_line_allocation(l, d)
      PROVE  Lasting(order, order') /\ Calm
  <2>1. PICK q : line' = [line EXCEPT ![l] = [line[l] EXCEPT !.allocated = q]] /\ UNCHANGED <<order, task>>
    BY <1>3 DEF adjust_sales_order_line_allocation
  <2>2. Alike([line[l] EXCEPT !.allocated = q], line[l])
    BY LinesKept DEF BooksNow
  <2> QED BY <2>1, <2>2, LineQuiet
<1>4. ASSUME NEW o, \/ update_sales_order(o, "FRAUD_REVIEW") \/ update_sales_order(o, "OPEN")
                   \/ push_sales_order_to_queue(o)
      PROVE  Lasting(order, order') /\ Calm
  <2>1. PICK s \in {"FRAUD_REVIEW", "OPEN"} :
          order' = [order EXCEPT ![o].status = s] /\ UNCHANGED <<line, task>>
    BY <1>4 DEF update_sales_order, push_sales_order_to_queue
  <2> QED BY <2>1, OrderQuiet
<1>5. ASSUME NEW o \in Born, Does("cancel"), cancel_sales_order(o)
      PROVE  Lasting(order, order') /\ Calm
  BY <1>1, <1>5, CancelledQuiet, CommitQuiet DEF cancel_sales_order, Born
<1>6. ASSUME NEW o \in Born, NEW refunded, Does("cancel"), cancel_backorder(o, refunded)
      PROVE  Lasting(order, order') /\ Calm
  <2> DEFINE done == Cancelled(Db, o)
             new  == [done EXCEPT !.order[o].status = "REFUNDED"]
  <2>1. Quiet(Db, done)
    BY <1>1, <1>6, CancelledQuiet DEF Born
  <2>2. Commit(done) \/ Commit(new)
    BY <1>6 DEF cancel_backorder
  <2> HIDE DEF done
  <2>3. Quiet(done, new)
    BY <2>1, StatusQuiet DEF Quiet, Lasting
  <2>4. Quiet(Db, new)
    BY <2>1, <2>3, QuietTwice
  <2> HIDE DEF new
  <2> QED BY <2>1, <2>2, <2>4, CommitQuiet
<1>7. ASSUME NEW o \in Born, NEW target \in Ladder, NEW T, revert_sales_order_status(o, target, T)
      PROVE  Lasting(order, order') /\ Calm
  <2> DEFINE db == ReleasePicks(Db, T)
             unpacks  == Rank(order[o].status) >= Rank("PACKED") /\ Rank(target) < Rank("PACKED")
             unpacked == [l \in Lines |-> IF unpacks /\ l[1] = o THEN [db.line[l] EXCEPT !.packed = 0]
                                   ELSE db.line[l]]
             mid == [db EXCEPT !.line = unpacked]
             new == [mid EXCEPT !.order[o].status = target]
  <2>1. T \subseteq Db.task /\ MayRevert(o, target)
    BY <1>7 DEF revert_sales_order_status, PickedTasks, Db
  <2>2. Books(db) /\ Quiet(Db, db) /\ db.order = order
    BY <1>1, <2>1, ReleaseBooks, ReleaseQuiet DEF ReleasePicks, Db
  <2>3. Commit([db EXCEPT !.line = unpacked, !.order[o].status = target])
    BY <1>7 DEF revert_sales_order_status
  <2>4. target # "SHIPPED" \/ order[o].status = "SHIPPED"
    BY <2>1 DEF MayRevert, Rank, Ladder
  <2>5. target # "NONE"
    BY DEF Ladder
  <2> HIDE DEF db, unpacks
  <2>6. [db EXCEPT !.line = unpacked, !.order[o].status = target] = new
    BY <2>2 DEF Books, Session
  <2>7. \A l \in Lines : Alike(unpacked[l], db.line[l])
    BY <2>2, LinesKept DEF Books
  <2> HIDE DEF unpacked
  <2>8. Session(mid) /\ mid.order = order /\ mid.task = db.task /\ mid.line = unpacked
    BY <2>2 DEF Books, Session
  <2> HIDE DEF mid
  <2>9. Quiet(db, mid)
    BY <1>1, <2>2, <2>7, <2>8, SameLasts DEF Quiet, LinesLast
  <2>10. Quiet(mid, new)
    BY <1>1, <2>4, <2>5, <2>8, StatusQuiet
  <2>11. Quiet(Db, new)
    BY <2>2, <2>9, <2>10, QuietTwice
  <2> HIDE DEF new
  <2> QED BY <2>3, <2>6, <2>11, CommitQuiet
<1>8. ASSUME NEW l \in Lines, NEW q, NEW bin, NEW u, admin_pick_sales_order(l, bin, q, u)
      PROVE  Lasting(order, order') /\ Calm
  <2>1. PICK b \in Batches :
          Commit(maybe_promote_so_to_picked(record_admin_pick(Db, l, bin, q, b, u), l[1]))
    BY <1>8 DEF admin_pick_sales_order
  <2> QED BY <1>1, <2>1, AdminPickQuiet, CommitQuiet
<1>9. ASSUME NEW l \in Lines, NEW q, NEW bo, partial_fulfill_sales_order(l, q, bo)
      PROVE  Lasting(order, order') /\ Settled
  <2> DEFINE row == [NoOrder EXCEPT !.status = "WAITING_STOCK", !.kind = "backorder", !.parent = l[1]]
  <2>1. /\ bo \in Orders /\ order[bo].status = "NONE" /\ order' = [order EXCEPT ![bo] = row]
        /\ \A k \in Lines : k # l /\ k # <<bo, l[2]>> => line'[k] = line[k]
    <3> DEFINE left == line[l].ordered - q
               db1 == IF left = 0 THEN DeleteLine(Db, l) ELSE [Db EXCEPT !.line[l].ordered = left]
               db2 == [db1 EXCEPT !.inv = take_floored(@, l[2], FullestBin(l[2]), WrittenOff(l[2], q))]
    <3>1. FreshOrder(bo) /\ Commit(WithBackorderFor(db2, l, q, bo))
      BY <1>9 DEF partial_fulfill_sales_order
    <3>2. DeleteLine(Db, l).order = order /\ [Db EXCEPT !.line[l].ordered = left].order = order
          /\ Session(DeleteLine(Db, l)) /\ Session([Db EXCEPT !.line[l].ordered = left])
      BY DEF DeleteLine, Db, Session
    <3>3. db1.order = order /\ Session(db1)
      <4> HIDE DEF left
      <4> QED BY <3>2
    <3>4. \A k \in Lines : k # l => db1.line[k] = line[k]
      <4> HIDE DEF left
      <4>1. \A k \in Lines : k # l => /\ DeleteLine(Db, l).line[k] = line[k]
                                      /\ [Db EXCEPT !.line[l].ordered = left].line[k] = line[k]
        BY <1>1 DEF DeleteLine, Db, Books, LineTable
      <4> QED BY <4>1
    <3>5. DOMAIN db1.line = Lines
      <4> HIDE DEF left
      <4>1. DOMAIN DeleteLine(Db, l).line = Lines /\ DOMAIN [Db EXCEPT !.line[l].ordered = left].line = Lines
        BY <1>1 DEF DeleteLine, Db, Books, LineTable
      <4> QED BY <4>1
    <3> HIDE DEF db1
    <3>6. db2.order = order /\ Session(db2) /\ db2.line = db1.line
      BY <3>3 DEF Session
    <3> HIDE DEF db2
    <3>7. /\ Session(WithBackorderFor(db2, l, q, bo))
          /\ WithBackorderFor(db2, l, q, bo).order = [order EXCEPT ![bo] = row]
          /\ WithBackorderFor(db2, l, q, bo).line = [db2.line EXCEPT ![<<bo, l[2]>>] = NewLine(q)]
      BY <3>6 DEF WithBackorderFor, Session
    <3> QED BY <3>1, <3>4, <3>5, <3>6, <3>7, CommitDb DEF FreshOrder, Unborn
  <2>2. DOMAIN row = {"status", "kind", "parent", "voided"}
    BY DEF NoOrder
  <2>3. order[l[1]].status # "SHIPPED"
    BY <1>9 DEF partial_fulfill_sales_order, MayShortClose
  <2>4. ASSUME NEW k \in Lines, order[k[1]].status = "SHIPPED" PROVE Alike(line'[k], line[k])
    <3>1. k # l /\ k # <<bo, l[2]>>
      BY <2>1, <2>3, <2>4
    <3> QED BY <2>1, <3>1, LinesKept DEF BooksNow
  <2>5. Lasting(order, order') /\ NoneShipped(order, order')
    <3> HIDE DEF row
    <3> QED BY <2>1, <2>2, BirthLasts
  <2> QED BY <2>4, <2>5 DEF Settled
<1>10. ASSUME NEW l \in Lines, NEW q, \/ add_sales_order_line(l, q) \/ update_sales_order_line(l, q)
                                      \/ delete_sales_order_line(l)
       PROVE  Lasting(order, order') /\ Settled
  <2>1. order' = order
    BY <1>10 DEF add_sales_order_line, update_sales_order_line, delete_sales_order_line, Commit,
                 DeleteLine, _release_so_line_allocation, Db
  <2>2. order[l[1]].status # "SHIPPED"
    BY <1>10 DEF add_sales_order_line, update_sales_order_line, delete_sales_order_line, _so_line_edit_gate
  <2>3. ASSUME NEW k \in Lines, k # l PROVE line'[k] = line[k]
    <3> DEFINE db1 == _release_so_line_allocation(Db, l)
    <3>1. /\ Session(db1) /\ DOMAIN db1.line = Lines /\ db1.line[k] = line[k]
          /\ Session(Db) /\ DOMAIN Db.line = Lines /\ Db.line[k] = line[k]
      BY <1>1, <2>3 DEF _release_so_line_allocation, Books, LineTable, Session, Db
    <3>2. CASE add_sales_order_line(l, q)
      BY <2>3, <3>2 DEF add_sales_order_line, BooksNow, LineTable
    <3>3. CASE update_sales_order_line(l, q)
      <4>1. PICK db \in {db1, Db} : Commit([db EXCEPT !.line[l].ordered = q])
        BY <3>3 DEF update_sales_order_line
      <4> HIDE DEF db1
      <4>2. Session(db) /\ DOMAIN db.line = Lines /\ db.line[k] = line[k]
        BY <3>1
      <4>3. Session([db EXCEPT !.line[l].ordered = q]) /\ [db EXCEPT !.line[l].ordered = q].line[k] = line[k]
        BY <2>3, <4>2 DEF Session
      <4> QED BY <4>1, <4>3, CommitDb
    <3>4. CASE delete_sales_order_line(l)
      <4>1. Commit(DeleteLine(db1, l))
        BY <3>4 DEF delete_sales_order_line
      <4> HIDE DEF db1
      <4>2. Session(DeleteLine(db1, l)) /\ DeleteLine(db1, l).line[k] = line[k]
        BY <2>3, <3>1 DEF DeleteLine, Session
      <4> QED BY <4>1, <4>2, CommitDb
    <3> QED BY <1>10, <3>2, <3>3, <3>4
  <2>4. ASSUME NEW k \in Lines, order[k[1]].status = "SHIPPED" PROVE Alike(line'[k], line[k])
    <3>1. line'[k] = line[k]
      BY <2>2, <2>3, <2>4
    <3> QED BY <3>1, LinesKept DEF BooksNow
  <2> QED BY <2>1, <2>4, SameLasts DEF Settled
<1>11. ShipsAsSold => ~Does("partial") /\ ~Does("line")
  BY DEF ShipsAsSold, Does
<1> QED BY <1>2, <1>3, <1>4, <1>5, <1>6, <1>7, <1>8, <1>9, <1>10, <1>11, CalmSettled DEF OrderDesk

\* create_pick_batch and wave_create, from tables that may have lost a batch to a revert
LEMMA CreateQuiet ==
  ASSUME NEW db, Books(db), Quiet(Db, db), NEW plan, PlanRow(plan), NEW b, Create(db, plan, b)
  PROVE  Lasting(order, order') /\ Calm
<1> DEFINE db1 == Normalised(db, plan)
<1>1. PICK taken, T : /\ T = WaveTasks(taken, b) \/ T = LineTasks(taken, b)
                      /\ Commit(Reserve(db1, taken, T, b, plan.by, plan.orders))
  <2> HIDE DEF db1
  <2> QED BY DEF Create, db1
<1>2. Books(db1) /\ Quiet(db, db1)
  BY NormaliseBooks, NormaliseQuiet DEF Normalised, PlanRow, Quiet, Lasting
<1>3. Unshorted(T)
  BY <1>1, NewTasksUnshorted
<1> DEFINE new == Reserve(db1, taken, T, b, plan.by, plan.orders)
<1>4. Quiet(db1, new)
  <2> HIDE DEF db1
  <2> QED BY <1>2, <1>3, ReserveQuiet DEF Quiet, Lasting
<1> HIDE DEF db1, new
<1>5. Quiet(Db, new)
  BY <1>2, <1>4, QuietTwice
<1> QED BY <1>1, <1>5, CommitQuiet DEF new

LEMMA AskUnshort ==
  ASSUME DOMAIN request = Requests, NoneAsksShort, NEW r, NEW m, m.op # "short",
         request' = [request EXCEPT ![r] = m]
  PROVE  NoneAsksShort'
  BY DEF NoneAsksShort

LEMMA IdleUnshort ==
  ASSUME DOMAIN request = Requests, NoneAsksShort, NEW r, request' = [request EXCEPT ![r] = Idle]
  PROVE  NoneAsksShort'
  BY AskUnshort DEF Idle

LEMMA PickWorkQuiet ==
  ASSUME ShelfInv, OrderTable(order), PickWork
  PROVE  /\ Lasting(order, order')
         /\ Settled
         /\ ShipsAsSold /\ NoneAsksShort => Calm /\ NoneAsksShort'
<1>1. /\ Books(Db) /\ BooksNow /\ OrderTable(Db.order) /\ Db.order = order
      /\ DOMAIN request = Requests
  BY BooksOfDb DEF ShelfInv, Db, Requested
<1>2. \A kind \in Kinds : kind \in {"batch", "wave"} /\ MayPend
  BY DEF Kinds, MayDip, MayPend
<1> DEFINE Fine == Lasting(order, order') /\ Calm /\ (NoneAsksShort => NoneAsksShort')
<1>3. ASSUME NEW r \in Requests, NEW kind \in Kinds, NEW u, NEW O, BeginCreate(r, kind, u, O)
      PROVE  Fine
  <2>1. UNCHANGED <<order, line, task>> /\ request' = [request EXCEPT ![r] = Plan(Db, kind, u, O)]
    BY <1>3 DEF BeginCreate, Unchanged
  <2>2. Plan(Db, kind, u, O).op # "short"
    BY <1>2, PlanFields
  <2> QED BY <1>1, <2>1, <2>2, StillQuiet, AskUnshort
<1>4. ASSUME NEW kind \in Kinds, NEW u, NEW O, CreateOverPrior(kind, u, O)
      PROVE  Fine
  <2> DEFINE db == cancel_prior_user_batches(Db, u)
             plan == Plan(db, kind, u, O)
  <2>1. Books(db) /\ Quiet(Db, db)
    BY <1>1, RevertBooks, RevertQuiet DEF cancel_prior_user_batches
  <2>2. PICK b \in Batches : Create(db, plan, b)
    BY <1>4 DEF CreateOverPrior
  <2>3. UNCHANGED request
    BY <1>4 DEF CreateOverPrior
  <2> HIDE DEF db
  <2>4. PlanRow(plan)
    BY <1>2, <2>1, PlanIsPlan DEF Books
  <2> HIDE DEF plan
  <2> QED BY <2>1, <2>2, <2>3, <2>4, CreateQuiet DEF NoneAsksShort
<1>5. ASSUME NEW r \in Requests, FinishCreate(r)
      PROVE  Fine
  <2>1. PlanRow(request[r])
    BY <1>5 DEF FinishCreate, Planning, ShelfInv, Requested, Asked
  <2>2. PICK b \in Batches : Create(Db, request[r], b)
    BY <1>5 DEF FinishCreate
  <2>3. \A l \in Lines : Alike(line[l], line[l])
    BY <1>1, LinesKept DEF BooksNow
  <2>4. Quiet(Db, Db)
    BY <1>1, <2>3, SameLasts DEF Quiet, Books, LinesLast, Db
  <2> QED BY <1>1, <1>5, <2>1, <2>2, <2>4, CreateQuiet, IdleUnshort DEF FinishCreate
<1>6. ASSUME NEW r \in Requests, RefuseCreate(r)
      PROVE  Fine
  <2>1. Unchanged \/ \E b : Commit(full_revert_batch(Db, {b}))
    BY <1>6 DEF RefuseCreate
  <2>2. Lasting(order, order') /\ Calm
    <3>1. CASE Unchanged
      BY <1>1, <3>1, StillQuiet DEF Unchanged
    <3>2. ASSUME NEW b, Commit(full_revert_batch(Db, {b})) PROVE Lasting(order, order') /\ Calm
      BY <1>1, <3>2, RevertQuiet, CommitQuiet
    <3> QED BY <2>1, <3>1, <3>2
  <2> QED BY <1>1, <1>6, <2>2, IdleUnshort DEF RefuseCreate
<1>7. ASSUME NEW r \in Requests, NEW op \in desk.ops \cap {"confirm", "short"}, NEW t, NEW q,
             LoadTask(r, op, t, q)
      PROVE  /\ Lasting(order, order') /\ Settled
             /\ ShipsAsSold /\ NoneAsksShort => Calm /\ NoneAsksShort'
  <2> DEFINE m == [op |-> op, task |-> t, q |-> q]
  <2>1. UNCHANGED <<order, line, task>> /\ request' = [request EXCEPT ![r] = m]
    BY <1>7 DEF LoadTask, Unchanged
  <2>2. ShipsAsSold => m.op # "short"
    BY DEF ShipsAsSold
  <2> HIDE DEF m
  <2> QED BY <1>1, <2>1, <2>2, StillQuiet, AskUnshort, CalmSettled
<1>8. ASSUME NEW r \in Requests, ApplyPick(r)
      PROVE  /\ Lasting(order, order') /\ Settled
             /\ NoneAsksShort => Calm /\ NoneAsksShort'
  <2>1. CASE request[r].op = "confirm"
    <3>1. Commit(confirm_pick(Db, request[r].task, request[r].q))
      BY <1>8, <2>1 DEF ApplyPick
    <3> QED BY <1>1, <1>8, <3>1, ConfirmQuiet, CommitQuiet, IdleUnshort, CalmSettled DEF ApplyPick
  <2>2. CASE request[r].op # "confirm"
    <3>1. Commit(short_pick(Db, request[r].task, request[r].q)) /\ request[r].op = "short"
      BY <1>8, <2>2 DEF ApplyPick
    <3>2. /\ Session(short_pick(Db, request[r].task, request[r].q))
          /\ short_pick(Db, request[r].task, request[r].q).order = order
          /\ \E gain : short_pick(Db, request[r].task, request[r].q).line = AddPicked(Db, gain)
      BY DEF short_pick, Db, Session
    <3>3. order' = order /\ \E gain : line' = AddPicked(Db, gain)
      BY <3>1, <3>2, CommitDb
    <3>4. \A l \in Lines : Alike(line'[l], line[l])
      BY <1>1, <3>3, LinesKept DEF AddPicked, BooksNow, Db, Alike
    <3> QED BY <1>1, <3>1, <3>3, <3>4, SameLasts DEF NoneAsksShort, Settled
  <2> QED BY <2>1, <2>2
<1>9. ASSUME NEW b, complete_batch(b)
      PROVE  Fine
  <2>1. /\ UNCHANGED <<line, task, request>>
        /\ order' = [o \in Orders |-> IF o \in batch[b].orders
                                      THEN [order[o] EXCEPT !.status = "PICKED"] ELSE order[o]]
    BY <1>9 DEF complete_batch
  <2>2. Lasting(order, order') /\ NoneShipped(order, order')
    BY <2>1 DEF Lasting, NoneShipped, OrderTable
  <2>3. \A l \in Lines : Alike(line[l], line[l])
    BY <1>1, LinesKept DEF BooksNow
  <2> QED BY <2>1, <2>2, <2>3 DEF Calm, LinesLast, NoneAsksShort
<1>10. ASSUME NEW b, cancel_batch(b)
       PROVE  Fine
  <2>1. Commit(full_revert_batch(Db, {b})) /\ UNCHANGED request
    BY <1>10 DEF cancel_batch
  <2> QED BY <1>1, <2>1, RevertQuiet, CommitQuiet DEF NoneAsksShort
<1>11. ASSUME NEW r \in Requests, PlanWave(r)
       PROVE  Fine
  <2>1. PICK m : m.op = "wave" /\ request' = [request EXCEPT ![r] = m]
    BY <1>11 DEF PlanWave
  <2>2. UNCHANGED <<order, line, task>>
    BY <1>11 DEF PlanWave, Unchanged
  <2> QED BY <1>1, <2>1, <2>2, StillQuiet, AskUnshort
<1> QED BY <1>3, <1>4, <1>5, <1>6, <1>7, <1>8, <1>9, <1>10, <1>11, CalmSettled DEF PickWork

LEMMA ReturnsDeskQuiet ==
  ASSUME ShelfInv, OrderTable(order), ReturnsDesk
  PROVE  /\ Lasting(order, order') /\ Calm
         /\ NoneAsksShort => NoneAsksShort'
<1>1. BooksNow /\ DOMAIN request = Requests
  BY DEF ShelfInv, Requested
<1>2. ASSUME NEW o, NEW l \in Lines, NEW q, create_rma(o, l, q)
      PROVE  Lasting(order, order') /\ Calm /\ (NoneAsksShort => NoneAsksShort')
  <2>1. /\ o \in Orders /\ order[o].status = "NONE"
        /\ order' = [order EXCEPT ![o] = ReturnRow(l[1])]
        /\ line' = [line EXCEPT ![<<o, l[2]>>] = NewLine(q)] /\ UNCHANGED <<task, request>>
    BY <1>2 DEF create_rma, FreshOrder, Unborn
  <2>2. Lasting(order, order') /\ NoneShipped(order, order')
    BY <2>1, BirthLasts DEF ReturnRow, NoOrder
  <2>3. LinesLast(order, line, line')
    <3>1. ASSUME NEW k \in Lines, order[k[1]].status # "NONE" PROVE Alike(line'[k], line[k])
      <4>1. k # <<o, l[2]>>
        BY <2>1, <3>1
      <4>2. line'[k] = line[k]
        BY <1>1, <2>1, <4>1 DEF BooksNow, LineTable
      <4> QED BY <1>1, <4>2, LinesKept DEF BooksNow
    <3> QED BY <3>1 DEF LinesLast
  <2> QED BY <2>1, <2>2, <2>3 DEF Calm, NoneAsksShort
<1>3. ASSUME NEW r \in Requests, NEW l, NEW q, NEW k, BeginReceive(r, l, q, k)
      PROVE  Lasting(order, order') /\ Calm /\ (NoneAsksShort => NoneAsksShort')
  <2>1. UNCHANGED <<order, line, task>>
    BY <1>3 DEF BeginReceive
  <2>2. PICK m : m.op = "receive" /\ request' = [request EXCEPT ![r] = m]
    BY <1>3 DEF BeginReceive
  <2> QED BY <1>1, <2>1, <2>2, StillQuiet, AskUnshort
<1>4. ASSUME NEW r \in Requests, FinishReceive(r, ReceivingBin)
      PROVE  Lasting(order, order') /\ Calm /\ (NoneAsksShort => NoneAsksShort')
  <2> DEFINE l == request[r].line
             n == line[l].received + request[r].q
             rows == [line EXCEPT ![l] = [line[l] EXCEPT !.received = n]]
  <2>1. \/ UNCHANGED <<order, line, task>>
        \/ /\ \E s \in {"RECEIVED", "PARTIALLY_RECEIVED"} : order' = [order EXCEPT ![l[1]].status = s]
           /\ line' = rows /\ task' = task
    BY <1>4 DEF FinishReceive
  <2>2. \A k \in Lines : Alike(rows[k], line[k])
    <3> HIDE DEF n, l
    <3>1. l \in Lines => Alike([line[l] EXCEPT !.received = n], line[l])
      BY <1>1, LinesKept DEF BooksNow, Alike
    <3> QED BY <1>1, <3>1, LinesKept DEF BooksNow, LineTable
  <2> HIDE DEF rows
  <2>3. Lasting(order, order') /\ NoneShipped(order, order')
    <3> HIDE DEF l
    <3> QED BY <2>1, SameLasts DEF Lasting, NoneShipped, OrderTable
  <2>4. \A k \in Lines : Alike(line[k], line[k])
    BY <1>1, LinesKept DEF BooksNow
  <2>5. request' = [request EXCEPT ![r] = Idle] /\ task' = task
    BY <1>4, <2>1 DEF FinishReceive
  <2> QED BY <1>1, <2>1, <2>2, <2>3, <2>4, <2>5, IdleUnshort DEF Calm, LinesLast
<1>5. ASSUME NEW o, void_return_order(o)
      PROVE  Lasting(order, order') /\ Calm /\ (NoneAsksShort => NoneAsksShort')
  <2>1. order' = [order EXCEPT ![o].voided = TRUE] /\ UNCHANGED <<line, task, request>>
    BY <1>5 DEF void_return_order
  <2>2. Lasting(order, order') /\ NoneShipped(order, order')
    BY <2>1 DEF Lasting, NoneShipped, OrderTable
  <2>3. \A k \in Lines : Alike(line[k], line[k])
    BY <1>1, LinesKept DEF BooksNow
  <2> QED BY <2>1, <2>2, <2>3 DEF Calm, LinesLast, NoneAsksShort
<1> QED BY <1>2, <1>3, <1>4, <1>5 DEF ReturnsDesk

-----------------------------------------------------------------------------
(* Shipments: a void takes an order back to a status it had *)

\* only the admin correction ships what has shipped
Restorable(s) == \/ s = NULL
                 \/ s # "NONE" /\ (s = "SHIPPED" => Does("admin_ship"))
Restores == \A o \in Orders : \A n \in DOMAIN shipment[o] : Restorable(shipment[o][n].pre)

LEMMA SameRestorable == UNCHANGED desk => \A s : Restorable(s)' <=> Restorable(s)
  BY DEF Restorable, Does

LEMMA AppendRestores ==
  ASSUME ShipmentRows, Restores, UNCHANGED desk, NEW o \in Orders, NEW pre, Restorable(pre),
         NEW key, Appended(o, pre, key)
  PROVE  Restores'
<1> DEFINE row == [live |-> TRUE, pre |-> pre, key |-> key]
<1>1. PICK P : shipment \in [Orders -> Seq(ShipmentRow(P))]
  BY DEF ShipmentRows
<1>2. shipment' = [shipment EXCEPT ![o] = Append(shipment[o], row)]
  BY DEF Appended
<1>3. shipment[o] \in Seq(ShipmentRow(P))
  BY <1>1
<1>4. /\ DOMAIN shipment[o] = 1 .. Len(shipment[o]) /\ Len(shipment[o]) \in Nat
      /\ Append(shipment[o], row) = [n \in 1 .. Len(shipment[o]) + 1 |->
           IF n = Len(shipment[o]) + 1 THEN row ELSE shipment[o][n]]
  <2> HIDE DEF row
  <2> QED BY <1>3, LenProperties
<1>5. row.pre = pre
  OBVIOUS
<1> HIDE DEF row
<1>6. ASSUME NEW p \in Orders, NEW n \in DOMAIN shipment'[p]
      PROVE  Restorable(shipment'[p][n].pre)
  <2>1. CASE p = o
    <3>1. shipment'[p] = Append(shipment[o], row)
      BY <1>1, <1>2, <2>1
    <3>2. n \in 1 .. Len(shipment[o]) + 1
      BY <1>4, <3>1
    <3>3. CASE n = Len(shipment[o]) + 1
      BY <1>4, <1>5, <3>1, <3>2, <3>3
    <3>4. CASE n # Len(shipment[o]) + 1
      BY <1>4, <3>1, <3>2, <3>4 DEF Restores
    <3> QED BY <3>3, <3>4
  <2>2. CASE p # o
    BY <1>1, <1>2, <2>2 DEF Restores
  <2> QED BY <2>1, <2>2
<1> QED BY <1>6, SameRestorable DEF Restores

LEMMA ShippingDeskLasts ==
  ASSUME OrderTable(order), DockInv, Restores, UNCHANGED desk, ShippingDesk
  PROVE  Lasting(order, order') /\ Restores'
<1>1. ASSUME NEW r, NEW l, NEW q, BeginVerify(r, l, q) \/ FinishVerify(r)
      PROVE  Lasting(order, order') /\ Restores'
  <2>1. UNCHANGED <<order, shipment>>
    BY <1>1 DEF BeginVerify, FinishVerify, orderVars
  <2> QED BY <2>1, SameLasts, SameRestorable DEF Restores
<1>2. ASSUME NEW o, complete_packing(o)
      PROVE  Lasting(order, order') /\ Restores'
  <2>1. order' = [order EXCEPT ![o].status = "PACKED"] /\ UNCHANGED shipment
    BY <1>2 DEF complete_packing
  <2> QED BY <2>1, SameRestorable DEF Lasting, OrderTable, Restores
<1>3. ASSUME NEW o \in Orders,
             \/ fulfill(o) \/ edit_to_shipped(o)
             \/ Does("admin_ship") /\ \E acknowledged \in BOOLEAN : record_admin_ship(o, acknowledged)
             \/ \E k \in DockKeys : ship_order(k, o)
      PROVE  Lasting(order, order') /\ Restores'
  <2>1. order' = [order EXCEPT ![o].status = "SHIPPED"]
    BY <1>3 DEF fulfill, edit_to_shipped, record_ship, record_admin_ship, ship_order
  <2>2. Lasting(order, order')
    BY <2>1 DEF Lasting, OrderTable
  <2>3. \E pre, key : Appended(o, pre, key) /\ Restorable(pre)
    <3>1. fulfill(o) => Appended(o, NULL, NULL)
      BY DEF fulfill, record_ship, Appended
    <3>2. edit_to_shipped(o) =>
            Appended(o, order[o].status, NULL) /\ order[o].status \in {"PICKED", "PACKED"}
      BY DEF edit_to_shipped, record_ship, Appended
    <3>3. \A a \in BOOLEAN : record_admin_ship(o, a) =>
            Appended(o, order[o].status, NULL) /\ order[o].status # "NONE"
      BY DEF record_admin_ship, MayAdminShip, Appended
    <3>4. \A k \in DockKeys : ship_order(k, o) =>
            Appended(o, order[o].status, k) /\ order[o].status \in {"PICKED", "PACKED"}
      BY DEF ship_order, MayShip, record_ship, Appended
    <3>5. Restorable(NULL) /\ Restorable("PICKED") /\ Restorable("PACKED")
      BY DEF Restorable
    <3>6. ASSUME Does("admin_ship"), NEW s, s # "NONE" PROVE Restorable(s)
      BY <3>6 DEF Restorable
    <3> QED BY <1>3, <3>1, <3>2, <3>3, <3>4, <3>5, <3>6
  <2> QED BY <2>2, <2>3, AppendRestores DEF DockInv
<1>4. ASSUME NEW o \in Orders, NEW k, void_ship(k, o)
      PROVE  Lasting(order, order') /\ Restores'
  <2> DEFINE n == Max(LiveShipments(o))
  <2>1. PICK P : shipment \in [Orders -> Seq(ShipmentRow(P))]
    BY DEF DockInv, ShipmentRows
  <2>2. Len(shipment[o]) \in Nat /\ DOMAIN shipment[o] = 1 .. Len(shipment[o])
    BY <2>1, LenProperties
  <2>3. LiveShipments(o) # {} /\ record_void_ship(o, n)
    BY <1>4 DEF void_ship
  <2>4. n \in DOMAIN shipment[o]
    BY <2>2, <2>3, MaxOfRows DEF LiveShipments
  <2> HIDE DEF n
  <2>5. shipment[o][n] \in ShipmentRow(P)
    BY <2>1, <2>4, ElementOfSeq, <2>2
  <2>6. /\ shipment[o][n].pre # NULL /\ order' = [order EXCEPT ![o].status = shipment[o][n].pre]
        /\ shipment' = [shipment EXCEPT ![o][n].live = FALSE]
    BY <2>3 DEF record_void_ship
  <2>7. Lasting(order, order')
    BY <2>4, <2>6 DEF Lasting, OrderTable, Restores, Restorable
  <2>8. \A p \in Orders : /\ DOMAIN shipment'[p] = DOMAIN shipment[p]
                          /\ \A m \in DOMAIN shipment[p] : shipment'[p][m].pre = shipment[p][m].pre
    BY <2>1, <2>4, <2>5, <2>6 DEF ShipmentRow
  <2> QED BY <2>7, <2>8, SameRestorable DEF Restores
<1>5. Born \subseteq Orders
  BY DEF Born
<1> QED BY <1>1, <1>2, <1>3, <1>4, <1>5 DEF ShippingDesk

-----------------------------------------------------------------------------
(***************************************************************************)
(* The till, on every day: what a sale says was sold, what came back of    *)
(* it, and that every key stands for one call.                             *)
(***************************************************************************)
CartFits(cart) == \A i \in DOMAIN cart : i \in Items /\ cart[i].q \in Nat \ {0}
SaleFits(o) ==
  /\ order[o].status # "NONE"
  /\ DOMAIN sale[o] = {"source", "key", "cart", "refunded"}
  /\ sale[o].key \in TillKeys \cup {NULL}
  /\ CartFits(sale[o].cart)
SaleTable == DOMAIN sale = Orders /\ \A o \in Orders : sale[o] # NULL => SaleFits(o)

RefundFits(x) == /\ x.key \in TillKeys /\ x.of \in Orders /\ order[x.of].status # "NONE"
                 /\ \A i \in DOMAIN x.part : x.part[i] \in Nat
RefundTable == IsFiniteSet(refunds) /\ \A x \in refunds : RefundFits(x)

\* of a sale no more comes back than was sold, and it is settled when all of it has
Balances(o) ==
  /\ \A i \in DOMAIN sale[o].cart : Refunded(o, i) <= sale[o].cart[i].q
  /\ sale[o].refunded <=> /\ DOMAIN sale[o].cart # {}
                          /\ \A i \in DOMAIN sale[o].cart : Refunded(o, i) = sale[o].cart[i].q

SoldWith(o, k) == sale[o] # NULL /\ sale[o].key = k
OneCall(k) ==
  /\ \A o, p \in Orders : SoldWith(o, k) /\ SoldWith(p, k) => o = p
  /\ \A x, y \in refunds : x.key = k /\ y.key = k => x = y
  /\ \A o \in Orders, x \in refunds : ~ (SoldWith(o, k) /\ x.key = k)

TillInv ==
  /\ OrderTable(order) /\ SaleTable /\ RefundTable
  /\ \A o \in Orders : sale[o] # NULL => Balances(o)
  /\ \A k \in TillKeys : OneCall(k)

LEMMA TillKept ==
  ASSUME TillInv, Lasting(order, order'), UNCHANGED tillVars
  PROVE  TillInv'
<1>1. SaleTable'
  BY DEF TillInv, SaleTable, SaleFits, CartFits, Lasting, tillVars
<1>2. RefundTable'
  BY DEF TillInv, RefundTable, RefundFits, Lasting, tillVars
<1>3. \A o, i : Refunded(o, i)' = Refunded(o, i)
  BY DEF Refunded, SumOver, tillVars
<1>4. \A o \in Orders : sale'[o] # NULL => Balances(o)'
  BY <1>3 DEF TillInv, Balances, tillVars
<1>5. \A k \in TillKeys : OneCall(k)'
  BY DEF TillInv, OneCall, SoldWith, tillVars
<1> QED BY <1>1, <1>2, <1>4, <1>5 DEF TillInv, Lasting

\* the refunds of an item of an order
RefundsOf(R, o, i) == {x \in R : x.of = o /\ i \in DOMAIN x.part}
Parts(R, o, i) == [x \in RefundsOf(R, o, i) |-> x.part[i]]

LEMMA RefundedUnits ==
  ASSUME RefundTable, NEW o, NEW i
  PROVE  /\ IsFiniteSet(RefundsOf(refunds, o, i)) /\ NatOn(Parts(refunds, o, i), RefundsOf(refunds, o, i))
         /\ Refunded(o, i) = Total(Parts(refunds, o, i), RefundsOf(refunds, o, i))
         /\ Refunded(o, i) \in Nat
<1> DEFINE S == RefundsOf(refunds, o, i)
           f == Parts(refunds, o, i)
<1>1. IsFiniteSet(S)
  BY FS_Subset DEF RefundsOf, RefundTable
<1>2. NatOn(f, S)
  BY DEF NatOn, Parts, RefundsOf, RefundTable, RefundFits
<1>3. Refunded(o, i) = Total(f, S)
  BY DEF Refunded, SumOver, Parts, RefundsOf
<1> HIDE DEF f, S
<1>4. Total(f, S) \in Nat
  BY <1>1, <1>2, UnitsFinite
<1> QED BY <1>1, <1>2, <1>3, <1>4 DEF f, S

LEMMA NotYetRefunded ==
  ASSUME RefundTable, NEW o, order[o].status = "NONE", NEW i
  PROVE  Refunded(o, i) = 0
<1>1. RefundsOf(refunds, o, i) = {}
  BY DEF RefundsOf, RefundTable, RefundFits
<1> QED BY <1>1, RefundedUnits, TotalEmpty

\* one more refund
LEMMA RefundedMore ==
  ASSUME RefundTable, NEW x, x \notin refunds, refunds' = refunds \cup {x},
         \A i \in DOMAIN x.part : x.part[i] \in Nat, NEW o, NEW i
  PROVE  Refunded(o, i)' = Refunded(o, i) + IF o = x.of /\ i \in DOMAIN x.part THEN x.part[i] ELSE 0
<1> DEFINE S == RefundsOf(refunds, o, i)
           f == Parts(refunds, o, i)
           T == RefundsOf(refunds', o, i)
           g == Parts(refunds', o, i)
<1>1. IsFiniteSet(S) /\ NatOn(f, S) /\ Refunded(o, i) = Total(f, S) /\ Refunded(o, i) \in Nat
  BY RefundedUnits
<1>2. Refunded(o, i)' = Total(g, T)
  BY DEF Refunded, SumOver, Parts, RefundsOf
<1>3. CASE o = x.of /\ i \in DOMAIN x.part
  <2>1. T = S \cup {x} /\ x \notin S
    BY <1>3 DEF RefundsOf
  <2>2. \A y \in S : g[y] = f[y]
    BY <2>1 DEF Parts, RefundsOf
  <2>3. g[x] = x.part[i] /\ x.part[i] \in Nat
    BY <1>3, <2>1 DEF Parts
  <2> HIDE DEF S, T, f, g
  <2>4. IsFiniteSet(T) /\ NatOn(g, T) /\ x \in T /\ T \ {x} = S
    <3>1. IsFiniteSet(T)
      BY <1>1, <2>1, FS_AddElement
    <3> QED BY <1>1, <2>1, <2>2, <2>3, <3>1 DEF NatOn
  <2>5. Total(g, T) = Total(g, S) + g[x]
    BY <2>4, TotalWithout
  <2>6. Total(g, S) = Total(f, S)
    BY <2>2, TotalSame
  <2> QED BY <1>1, <1>2, <1>3, <2>3, <2>5, <2>6
<1>4. CASE ~ (o = x.of /\ i \in DOMAIN x.part)
  <2>1. T = S
    BY <1>4 DEF RefundsOf
  <2>2. g = f
    BY <2>1 DEF Parts
  <2> HIDE DEF S, T, f, g
  <2> QED BY <1>1, <1>2, <1>4, <2>1, <2>2
<1> QED BY <1>3, <1>4

\* a sale of a new order, and with a new key when it has one
LEMMA SaleMade ==
  ASSUME TillInv, NEW o \in Orders, order[o].status = "NONE",
         NEW source, NEW key \in TillKeys \cup {NULL}, key \in TillKeys => ~KeyUsed(key),
         NEW cart, CartFits(cart), sale' = [sale EXCEPT ![o] = Sale(source, key, cart)],
         UNCHANGED refunds, Lasting(order, order'), order'[o].status # "NONE"
  PROVE  TillInv'
<1> DEFINE s == Sale(source, key, cart)
<1>1. /\ DOMAIN s = {"source", "key", "cart", "refunded"} /\ s.key = key /\ s.cart = cart
      /\ s.refunded = FALSE
  BY DEF Sale
<1> HIDE DEF s
<1>2. /\ OrderTable(order) /\ SaleTable /\ RefundTable /\ DOMAIN sale = Orders
      /\ \A p \in Orders : sale[p] # NULL => Balances(p)
      /\ \A k \in TillKeys : OneCall(k)
  BY DEF TillInv, SaleTable
<1>3. sale[o] = NULL
  BY <1>2 DEF SaleTable, SaleFits
<1>4. /\ DOMAIN sale' = Orders /\ sale'[o] = s
      /\ \A p \in Orders \ {o} : sale'[p] = sale[p]
  BY <1>2 DEF s
<1>5. SaleTable'
  <2>1. ASSUME NEW p \in Orders, sale'[p] # NULL PROVE SaleFits(p)'
    <3>1. CASE p = o
      BY <1>1, <1>4, <3>1 DEF SaleFits, CartFits
    <3>2. CASE p # o
      <4>1. sale'[p] = sale[p] /\ SaleFits(p)
        BY <1>2, <1>4, <2>1, <3>2 DEF SaleTable
      <4> QED BY <4>1 DEF SaleFits, CartFits, Lasting
    <3> QED BY <3>1, <3>2
  <2> QED BY <1>4, <2>1 DEF SaleTable
<1>6. RefundTable'
  <2>1. ASSUME NEW x \in refunds PROVE RefundFits(x)'
    <3>1. RefundFits(x)
      BY <1>2 DEF RefundTable
    <3> QED BY <3>1 DEF RefundFits, Lasting
  <2> QED BY <1>2, <2>1 DEF RefundTable
<1>7. \A p, i : Refunded(p, i)' = Refunded(p, i)
  BY DEF Refunded, SumOver
<1>8. ASSUME NEW p \in Orders, sale'[p] # NULL PROVE Balances(p)'
  <2>1. CASE p = o
    <3>1. \A i : Refunded(o, i)' = 0
      BY <1>2, <1>7, NotYetRefunded
    <3>2. \A i \in DOMAIN cart : cart[i].q \in Nat \ {0}
      BY DEF CartFits
    <3> QED BY <1>1, <1>4, <2>1, <3>1, <3>2 DEF Balances
  <2>2. CASE p # o
    <3>1. sale'[p] = sale[p] /\ Balances(p)
      BY <1>2, <1>4, <1>8, <2>2
    <3> QED BY <1>7, <3>1 DEF Balances
  <2> QED BY <2>1, <2>2
<1>9. ASSUME NEW k \in TillKeys PROVE OneCall(k)'
  <2>1. k = key => (\A p \in Orders : ~SoldWith(p, k)) /\ (\A x \in refunds : x.key # k)
    BY DEF KeyUsed, SoldWith
  <2>2. \A p \in Orders : SoldWith(p, k)' => SoldWith(p, k) \/ (p = o /\ k = key)
    BY <1>1, <1>4 DEF SoldWith
  <2>3. OneCall(k)
    BY <1>2
  <2> QED BY <2>1, <2>2, <2>3 DEF OneCall
<1> QED BY <1>5, <1>6, <1>8, <1>9 DEF TillInv, Lasting

\* the cart of a till is one item in a bin
LEMMA TillCartFits ==
  ASSUME NEW cart \in TillCarts
  PROVE  CartFits(cart)
<1>1. PICK j \in Items, b \in Pickable, n \in Quantities : cart = [i \in {j} |-> [bin |-> b, q |-> n]]
  BY DEF TillCarts
<1>2. n \in Nat \ {0}
  BY OrderedAssumption DEF Quantities
<1> QED BY <1>1, <1>2 DEF CartFits

\* an order is entered at the till, and perhaps the return that goes with it
LEMMA CheckoutLasts ==
  ASSUME OrderTable(order), NEW k, NEW o, NEW how \in {"counter", "phone", "backorder"}, NEW child,
         NEW cart, NEW rma, NEW back, checkout(k, o, how, child, cart, rma, back)
  PROVE  /\ o \in Orders /\ order[o].status = "NONE"
         /\ rma # NULL => rma \in Unborn \ {o}
         /\ Lasting(order, order') /\ NoneShipped(order, order')
         /\ order'[o].status = SaleStatus(how)
<1>1. o \in Orders /\ order[o].status = "NONE" /\ (rma # NULL => rma \in Unborn \ {o})
  BY DEF checkout, FreshOrder, Unborn, MayReturn
<1>2. SaleStatus(how) # "NONE"
  BY DEF SaleStatus
<1> DEFINE entered == [order EXCEPT ![o] = SaleRow(how, child)]
<1>3. order' = IF rma = NULL THEN entered ELSE [entered EXCEPT ![rma] = ReturnRow(child.of)]
  BY DEF checkout
<1>4. /\ DOMAIN SaleRow(how, child) = {"status", "kind", "parent", "voided"}
      /\ SaleRow(how, child).status = SaleStatus(how)
      /\ DOMAIN ReturnRow(child.of) = {"status", "kind", "parent", "voided"}
  BY DEF SaleRow, ReturnRow, NoOrder
<1>5. /\ DOMAIN order' = Orders /\ order'[o] = SaleRow(how, child)
      /\ \A p \in Orders \ {o} : \/ order'[p] = order[p]
                                 \/ rma # NULL /\ p = rma /\ order'[p] = ReturnRow(child.of)
  BY <1>1, <1>3 DEF OrderTable
<1>6. \A p \in Unborn : order[p].status = "NONE"
  BY DEF Unborn
<1> HIDE DEF entered
<1>7. Lasting(order, order') /\ NoneShipped(order, order')
  BY <1>1, <1>4, <1>5, <1>6 DEF Lasting, NoneShipped, OrderTable
<1> QED BY <1>1, <1>2, <1>4, <1>5, <1>7

LEMMA CheckoutTill ==
  ASSUME TillInv, NEW k \in TillKeys, NEW o, NEW how \in {"counter", "phone", "backorder"}, NEW child,
         NEW cart \in TillCarts, NEW rma, NEW back, checkout(k, o, how, child, cart, rma, back)
  PROVE  TillInv'
<1> DEFINE sold == IF how = "backorder" THEN <<>> ELSE cart
<1>1. ~KeyUsed(k) /\ sale' = [sale EXCEPT ![o] = Sale("pos", k, sold)] /\ UNCHANGED refunds
  BY DEF checkout
<1>2. CartFits(sold)
  <2>1. CartFits(<<>>)
    BY DEF CartFits
  <2> QED BY <2>1, TillCartFits
<1> HIDE DEF sold
<1>3. /\ o \in Orders /\ order[o].status = "NONE"
      /\ Lasting(order, order') /\ order'[o].status # "NONE"
  <2>1. OrderTable(order)
    BY DEF TillInv
  <2>2. o \in Orders /\ order[o].status = "NONE"
    BY DEF checkout, FreshOrder, Unborn
  <2>3. order'[o].status = SaleStatus(how)
    BY <2>1, CheckoutLasts
  <2>4. SaleStatus(how) # "NONE"
    BY DEF SaleStatus
  <2>5. Lasting(order, order')
    BY <2>1, CheckoutLasts
  <2> QED BY <2>2, <2>3, <2>4, <2>5
<1> QED BY <1>1, <1>2, <1>3, SaleMade

LEMMA ReferenceTill ==
  ASSUME TillInv, NEW o, NEW cart \in TillCarts, reference_orders(o, cart)
  PROVE  TillInv'
<1>1. /\ o \in Orders /\ order[o].status = "NONE"
      /\ sale' = [sale EXCEPT ![o] = Sale("reference", NULL, cart)] /\ UNCHANGED refunds
      /\ order' = [order EXCEPT ![o] = [NoOrder EXCEPT !.status = "SHIPPED"]]
  BY DEF reference_orders, FreshOrder, Unborn
<1>2. Lasting(order, order') /\ order'[o].status # "NONE"
  BY <1>1, BirthLasts DEF TillInv, OrderTable, NoOrder
<1>3. NULL \notin TillKeys
  BY TillAssumption
<1> QED BY <1>1, <1>2, <1>3, SaleMade, TillCartFits

LEMMA RefundTill ==
  ASSUME TillInv, NEW k \in TillKeys, NEW o \in Orders, NEW part,
         \A i \in DOMAIN part : part[i] \in Nat, refund(k, o, part)
  PROVE  TillInv' /\ Lasting(order, order') /\ NoneShipped(order, order')
<1> DEFINE x == RefundRow(k, o, part)
           fully == FullyRefunded(o, part)
<1>1. /\ ~KeyUsed(k) /\ sale[o] # NULL
      /\ DOMAIN part # {} /\ DOMAIN part \subseteq DOMAIN sale[o].cart
      /\ \A i \in DOMAIN part : Refunded(o, i) + part[i] <= sale[o].cart[i].q
      /\ refunds' = refunds \cup {x}
      /\ sale' = [sale EXCEPT ![o].refunded = fully]
      /\ order' = IF fully THEN [order EXCEPT ![o].status = "REFUNDED"] ELSE order
  BY DEF refund, MayRefund, Refundable
<1>2. x.key = k /\ x.of = o /\ x.part = part
  BY DEF RefundRow
<1>3. /\ OrderTable(order) /\ SaleTable /\ RefundTable /\ DOMAIN sale = Orders
      /\ \A p \in Orders : sale[p] # NULL => SaleFits(p) /\ Balances(p)
      /\ \A j \in TillKeys : OneCall(j)
  BY DEF TillInv, SaleTable
<1> HIDE DEF x
<1>4. x \notin refunds
  BY <1>1, <1>2 DEF KeyUsed
<1>5. ASSUME NEW p, NEW i
      PROVE  /\ Refunded(p, i) \in Nat
             /\ Refunded(p, i)' = Refunded(p, i) + IF p = o /\ i \in DOMAIN part THEN part[i] ELSE 0
  BY <1>1, <1>2, <1>3, <1>4, RefundedUnits, RefundedMore
<1>6. fully <=> \A i \in DOMAIN sale[o].cart : Refunded(o, i)' = sale[o].cart[i].q
  BY <1>5 DEF FullyRefunded
<1>7. Lasting(order, order') /\ NoneShipped(order, order')
  <2> HIDE DEF fully
  <2> QED BY <1>1, <1>3 DEF Lasting, NoneShipped, OrderTable
<1> HIDE DEF fully
<1>8. /\ DOMAIN sale' = Orders
      /\ \A p \in Orders \ {o} : sale'[p] = sale[p]
      /\ DOMAIN sale'[o] = DOMAIN sale[o] /\ sale'[o].key = sale[o].key
      /\ sale'[o].cart = sale[o].cart /\ sale'[o].refunded = fully
  BY <1>1, <1>3 DEF SaleFits
<1>9. SaleTable'
  BY <1>1, <1>3, <1>7, <1>8 DEF SaleTable, SaleFits, CartFits, Lasting
<1>10. RefundTable'
  <2>1. IsFiniteSet(refunds')
    BY <1>1, <1>3, FS_AddElement DEF RefundTable
  <2>2. \A y \in refunds' : RefundFits(y)'
    BY <1>1, <1>2, <1>3, <1>7 DEF RefundTable, RefundFits, SaleFits, Lasting
  <2> QED BY <2>1, <2>2 DEF RefundTable
<1>11. ASSUME NEW p \in Orders, sale'[p] # NULL PROVE Balances(p)'
  <2>1. CASE p = o
    <3>1. \A i \in DOMAIN sale[o].cart : Refunded(o, i)' <= sale[o].cart[i].q
      BY <1>1, <1>3, <1>5 DEF Balances
    <3>2. DOMAIN sale[o].cart # {}
      BY <1>1
    <3> QED BY <1>6, <1>8, <2>1, <3>1, <3>2 DEF Balances
  <2>2. CASE p # o
    <3>1. sale'[p] = sale[p] /\ Balances(p)
      BY <1>3, <1>8, <1>11, <2>2
    <3>2. \A i : Refunded(p, i)' = Refunded(p, i)
      BY <1>5, <2>2
    <3> QED BY <3>1, <3>2 DEF Balances
  <2> QED BY <2>1, <2>2
<1>12. ASSUME NEW j \in TillKeys PROVE OneCall(j)'
  <2>1. /\ \A p \in Orders : ~SoldWith(p, k)
        /\ \A y \in refunds : y.key # k
    BY <1>1 DEF KeyUsed, SoldWith
  <2>2. \A p \in Orders : SoldWith(p, j)' => SoldWith(p, j)
    BY <1>1, <1>8 DEF SoldWith
  <2>3. OneCall(j)
    BY <1>3
  <2> QED BY <1>1, <1>2, <2>1, <2>2, <2>3 DEF OneCall
<1> QED BY <1>7, <1>9, <1>10, <1>11, <1>12 DEF TillInv, Lasting

-----------------------------------------------------------------------------
(***************************************************************************)
(* Days on which every order ships as it was sold: the lines of a sale are *)
(* the lines of its cart, and once it has shipped they have shipped whole. *)
(***************************************************************************)
AsSold(o) ==
  \A i \in DOMAIN sale[o].cart :
    /\ line[<<o, i>>].row = "live"
    /\ line[<<o, i>>].ordered = sale[o].cart[i].q
    /\ order[o].status = "SHIPPED" \/ Refunded(o, i) > 0 =>
         line[<<o, i>>].shipped >= line[<<o, i>>].ordered
SoldInv == /\ Unshorted(task) /\ NoneAsksShort
           /\ \A o \in Orders : sale[o] # NULL => AsSold(o)

\* what a till knows about the lines of a sale
LEMMA SaleLines ==
  ASSUME TillInv, NEW o \in Orders, sale[o] # NULL
  PROVE  /\ order[o].status # "NONE"
         /\ \A i \in DOMAIN sale[o].cart : <<o, i>> \in Lines /\ sale[o].cart[i].q \in Nat \ {0}
  BY DEF TillInv, SaleTable, SaleFits, CartFits, Lines

LEMMA SoldKept ==
  ASSUME TillInv, SoldInv, UNCHANGED tillVars, Calm, NoneAsksShort'
  PROVE  SoldInv'
<1>1. ASSUME NEW o \in Orders, sale[o] # NULL, NEW i \in DOMAIN sale[o].cart
      PROVE  /\ line'[<<o, i>>].row = "live"
             /\ line'[<<o, i>>].ordered = sale[o].cart[i].q
             /\ order'[o].status = "SHIPPED" \/ Refunded(o, i) > 0 =>
                  line'[<<o, i>>].shipped >= line'[<<o, i>>].ordered
  <2> DEFINE l == <<o, i>>
  <2>1. order[o].status # "NONE" /\ l \in Lines
    BY <1>1, SaleLines
  <2>2. l[1] = o
    OBVIOUS
  <2>3. AsSold(o)
    BY <1>1 DEF SoldInv
  <2>4. /\ line[l].row = "live" /\ line[l].ordered = sale[o].cart[i].q
        /\ order[o].status = "SHIPPED" \/ Refunded(o, i) > 0 => line[l].shipped >= line[l].ordered
    BY <1>1, <2>3 DEF AsSold
  <2> HIDE DEF l
  <2>5. Alike(line'[l], line[l]) /\ (order'[o].status = "SHIPPED" => order[o].status = "SHIPPED")
    BY <2>1, <2>2 DEF Calm, LinesLast, NoneShipped
  <2>6. /\ line'[l].row = "live" /\ line'[l].ordered = sale[o].cart[i].q
        /\ order'[o].status = "SHIPPED" \/ Refunded(o, i) > 0 => line'[l].shipped >= line'[l].ordered
    BY <2>4, <2>5 DEF Alike
  <2> QED BY <2>6 DEF l
<1>2. \A o, i : Refunded(o, i)' = Refunded(o, i)
  BY DEF Refunded, SumOver, tillVars
<1>3. \A o \in Orders : sale'[o] # NULL => AsSold(o)'
  BY <1>1, <1>2 DEF AsSold, tillVars
<1> QED BY <1>3 DEF SoldInv, Calm

\* record_ship: every line of the order has been picked whole, and ships what was picked
LEMMA ShipAsSold ==
  ASSUME ShelfInv, TillInv, SoldInv, UNCHANGED tillVars, NEW o \in Orders,
         SilentlyShort(Db, {o}) = {}, line' = ShipLines(o),
         order' = [order EXCEPT ![o].status = "SHIPPED"], UNCHANGED <<task, request>>
  PROVE  SoldInv'
<1>1. ASSUME NEW p \in Orders, sale[p] # NULL, NEW i \in DOMAIN sale[p].cart
      PROVE  /\ line'[<<p, i>>].row = "live"
             /\ line'[<<p, i>>].ordered = sale[p].cart[i].q
             /\ order'[p].status = "SHIPPED" \/ Refunded(p, i) > 0 =>
                  line'[<<p, i>>].shipped >= line'[<<p, i>>].ordered
  <2> DEFINE l == <<p, i>>
  <2>1. order[p].status # "NONE" /\ l \in Lines /\ sale[p].cart[i].q \in Nat \ {0}
    BY <1>1, SaleLines
  <2>2. AsSold(p)
    BY <1>1 DEF SoldInv
  <2>3. /\ line[l].row = "live" /\ line[l].ordered = sale[p].cart[i].q
        /\ order[p].status = "SHIPPED" \/ Refunded(p, i) > 0 => line[l].shipped >= line[l].ordered
    BY <1>1, <2>2 DEF AsSold
  <2>4. l[1] = p
    OBVIOUS
  <2> HIDE DEF l
  <2>5. line[l] \in LineRow /\ line[l].picked \in Nat
    BY <2>1, LineRows DEF ShelfInv, BooksNow
  <2>6. CASE p = o
    <3>1. ~ShortMarked(Db, l)
      BY <2>1 DEF ShortMarked, SoldInv, Unshorted, Db
    <3>2. line[l].picked >= line[l].ordered
      BY <2>1, <2>3, <2>4, <2>5, <2>6, <3>1 DEF SilentlyShort, LiveLines, Db
    <3>3. line'[l] = [line[l] EXCEPT !.shipped = line[l].picked]
      BY <2>1, <2>3, <2>4, <2>5, <2>6, <3>2 DEF ShipLines
    <3>4. line'[l].row = "live" /\ line'[l].ordered = line[l].ordered /\ line'[l].shipped = line[l].picked
      BY <2>3, <2>5, <3>3 DEF LineRow
    <3> QED BY <2>3, <3>2, <3>4 DEF l
  <2>7. CASE p # o
    <3>1. line'[l] = line[l]
      BY <2>1, <2>4, <2>7 DEF ShipLines
    <3>2. order'[p] = order[p]
      BY <2>7 DEF TillInv, OrderTable
    <3> QED BY <2>3, <3>1, <3>2 DEF l
  <2> QED BY <2>6, <2>7
<1>2. \A p, i : Refunded(p, i)' = Refunded(p, i)
  BY DEF Refunded, SumOver, tillVars
<1>3. \A p \in Orders : sale'[p] # NULL => AsSold(p)'
  BY <1>1, <1>2 DEF AsSold, tillVars
<1> QED BY <1>3 DEF SoldInv, NoneAsksShort

LEMMA ShippingDeskSold ==
  ASSUME ShelfInv, TillInv, SoldInv, ShippingDesk, ShipsAsSold, UNCHANGED tillVars
  PROVE  SoldInv'
<1>1. BooksNow /\ OrderTable(order) /\ NoneAsksShort /\ DOMAIN request = Requests
  BY DEF ShelfInv, TillInv, SoldInv, Requested
<1>2. ASSUME NEW r \in Requests, NEW l, NEW q, BeginVerify(r, l, q)
      PROVE  SoldInv'
  <2>1. UNCHANGED <<order, line, task>>
    BY <1>2 DEF BeginVerify, orderVars
  <2>2. PICK m : m.op = "verify" /\ request' = [request EXCEPT ![r] = m]
    BY <1>2 DEF BeginVerify
  <2> QED BY <1>1, <2>1, <2>2, StillQuiet, AskUnshort, SoldKept
<1>3. ASSUME NEW r \in Requests, FinishVerify(r)
      PROVE  SoldInv'
  <2> DEFINE l == request[r].line
             row == [line[l] EXCEPT !.packed = request[r].packed]
  <2>1. /\ line' = line \/ line' = [line EXCEPT ![l] = row]
        /\ UNCHANGED <<order, task>> /\ request' = [request EXCEPT ![r] = Idle]
    BY <1>3 DEF FinishVerify
  <2>2. l \in Lines => Alike(row, line[l])
    <3> DEFINE n == request[r].packed
    <3> HIDE DEF l, n
    <3> QED BY <1>1, LinesKept DEF BooksNow, n
  <2> HIDE DEF row, l
  <2>3. Calm
    BY <1>1, <2>1, <2>2, StillQuiet, LineQuiet
  <2> QED BY <1>1, <2>1, <2>3, IdleUnshort, SoldKept
<1>4. ASSUME NEW o, complete_packing(o)
      PROVE  SoldInv'
  <2>1. order' = [order EXCEPT ![o].status = "PACKED"] /\ UNCHANGED <<line, task, request>>
    BY <1>4 DEF complete_packing
  <2>2. Calm
    <3>1. "PACKED" \notin {"NONE", "SHIPPED"}
      OBVIOUS
    <3> QED BY <1>1, <2>1, <3>1, OrderQuiet
  <2> QED BY <1>1, <2>1, <2>2, SoldKept DEF NoneAsksShort
<1>5. ASSUME NEW o \in Orders, fulfill(o) \/ edit_to_shipped(o)
      PROVE  SoldInv'
  <2>1. /\ SilentlyShort(Db, {o}) = {} /\ line' = ShipLines(o)
        /\ order' = [order EXCEPT ![o].status = "SHIPPED"] /\ UNCHANGED <<task, request>>
    BY <1>5 DEF fulfill, edit_to_shipped, record_ship
  <2> QED BY <2>1, ShipAsSold
<1>6. ~Does("admin_ship") /\ ~Does("dock") /\ Born \subseteq Orders
  BY DEF ShipsAsSold, Does, Born
<1> QED BY <1>2, <1>3, <1>4, <1>5, <1>6 DEF ShippingDesk

\* the till writes the lines of the order it enters and no others
LEMMA OtherSales ==
  ASSUME TillInv, SoldInv, NEW o, \A l \in Lines : l[1] \notin Unborn => line'[l] = line[l],
         UNCHANGED refunds, NoneShipped(order, order'), NEW p \in Orders, p # o,
         sale[p] # NULL, sale'[p] = sale[p]
  PROVE  AsSold(p)'
<1>1. ASSUME NEW i \in DOMAIN sale[p].cart
      PROVE  /\ line'[<<p, i>>] = line[<<p, i>>]
             /\ order'[p].status = "SHIPPED" => order[p].status = "SHIPPED"
  <2> DEFINE l == <<p, i>>
  <2>1. order[p].status # "NONE" /\ l \in Lines
    BY SaleLines
  <2>2. l[1] = p
    OBVIOUS
  <2> HIDE DEF l
  <2>3. line'[l] = line[l] /\ (order'[p].status = "SHIPPED" => order[p].status = "SHIPPED")
    BY <2>1, <2>2 DEF Unborn, NoneShipped
  <2> QED BY <2>3 DEF l
<1>2. AsSold(p)
  BY DEF SoldInv
<1>3. \A i : Refunded(p, i)' = Refunded(p, i)
  BY DEF Refunded, SumOver
<1> QED BY <1>1, <1>2, <1>3 DEF AsSold

LEMMA CheckoutSold ==
  ASSUME TillInv, SoldInv, NEW k, NEW o, NEW how \in {"counter", "phone", "backorder"}, NEW child,
         NEW cart \in TillCarts, NEW rma, NEW back, checkout(k, o, how, child, cart, rma, back)
  PROVE  SoldInv'
<1> DEFINE rows == [i \in DOMAIN cart |->
                      CASE how = "counter"   -> HandedOver(cart[i].q)
                        [] how = "phone"     -> Promised(cart[i].q)
                        [] how = "backorder" -> NewLine(cart[i].q)]
           with == WithLines(o, rows)
           sold == IF how = "backorder" THEN <<>> ELSE cart
<1>1. OrderTable(order) /\ DOMAIN sale = Orders /\ RefundTable
  BY DEF TillInv, SaleTable
<1>2. /\ line' = IF rma = NULL THEN with ELSE [with EXCEPT ![<<rma, back.item>>] = NewLine(back.q)]
      /\ sale' = [sale EXCEPT ![o] = Sale("pos", k, sold)]
      /\ UNCHANGED <<refunds, task, request>>
  BY DEF checkout, TillOnly
<1>3. o \in Unborn /\ o \in Orders /\ order[o].status = "NONE"
  BY DEF checkout, FreshOrder, Unborn
<1>4. rma # NULL => rma \in Unborn \ {o}
  BY DEF checkout, MayReturn
<1>5. order'[o].status = SaleStatus(how)
  <2>1. Lasting(order, order') /\ NoneShipped(order, order') /\ order'[o].status = SaleStatus(how)
    BY <1>1, CheckoutLasts
  <2> QED BY <2>1
<1>6. NoneShipped(order, order')
  BY <1>1, CheckoutLasts
<1>7. CartFits(cart)
  BY TillCartFits
<1>8. \A l \in Lines : with[l] = IF l[1] = o /\ l[2] \in DOMAIN cart THEN rows[l[2]] ELSE line[l]
  BY DEF WithLines
<1>9. DOMAIN with = Lines
  BY DEF WithLines
<1> HIDE DEF with, rows
<1>10. \A l \in Lines : l[1] \notin Unborn => line'[l] = line[l]
  BY <1>2, <1>3, <1>4, <1>8, <1>9
<1>11. ASSUME NEW p \in Orders, p # o, sale'[p] # NULL PROVE AsSold(p)'
  BY <1>1, <1>2, <1>6, <1>10, <1>11, OtherSales
<1>12. ASSUME NEW i \in DOMAIN sold
       PROVE  /\ line'[<<o, i>>].row = "live" /\ line'[<<o, i>>].ordered = sold[i].q
              /\ SaleStatus(how) = "SHIPPED" => line'[<<o, i>>].shipped = sold[i].q
              /\ sold[i].q \in Nat \ {0}
  <2> DEFINE l == <<o, i>>
  <2>1. how # "backorder" /\ sold = cart /\ i \in DOMAIN cart
    OBVIOUS
  <2>2. l \in Lines /\ cart[i].q \in Nat \ {0}
    BY <1>3, <1>7, <2>1 DEF CartFits, Lines
  <2>3. l[1] = o /\ l[2] = i
    OBVIOUS
  <2> HIDE DEF l, sold
  <2>4. line'[l] = rows[i]
    BY <1>2, <1>4, <1>8, <1>9, <2>1, <2>2, <2>3
  <2>5. rows[i] = IF how = "counter" THEN HandedOver(cart[i].q) ELSE Promised(cart[i].q)
    BY <2>1 DEF rows
  <2>6. /\ rows[i].row = "live" /\ rows[i].ordered = cart[i].q
        /\ how = "counter" => rows[i].shipped = cart[i].q
    BY <2>5 DEF HandedOver, Promised, NewLine, NoLine
  <2>7. how # "counter" => SaleStatus(how) # "SHIPPED"
    BY <2>1 DEF SaleStatus
  <2> QED BY <2>1, <2>2, <2>4, <2>6, <2>7 DEF l
<1>13. \A i : Refunded(o, i)' = 0
  <2>1. \A i : Refunded(o, i) = 0
    BY <1>1, <1>3, NotYetRefunded
  <2> QED BY <1>2, <2>1 DEF Refunded, SumOver
<1>14. sale'[o].cart = sold
  BY <1>1, <1>2, <1>3 DEF Sale
<1> HIDE DEF sold
<1>15. AsSold(o)'
  BY <1>5, <1>12, <1>13, <1>14 DEF AsSold
<1>16. \A p \in Orders : sale'[p] # NULL => AsSold(p)'
  BY <1>11, <1>15
<1> QED BY <1>2, <1>16 DEF SoldInv, Unshorted, NoneAsksShort

LEMMA ReferenceSold ==
  ASSUME TillInv, SoldInv, NEW o, NEW cart \in TillCarts, reference_orders(o, cart)
  PROVE  SoldInv'
<1> DEFINE rows == [i \in DOMAIN cart |-> HandedOver(cart[i].q)]
<1>1. OrderTable(order) /\ DOMAIN sale = Orders /\ RefundTable
  BY DEF TillInv, SaleTable
<1>2. /\ line' = WithLines(o, rows)
      /\ sale' = [sale EXCEPT ![o] = Sale("reference", NULL, cart)]
      /\ order' = [order EXCEPT ![o] = [NoOrder EXCEPT !.status = "SHIPPED"]]
      /\ UNCHANGED <<refunds, task, request>>
  BY DEF reference_orders, TillOnly
<1>3. o \in Unborn /\ o \in Orders /\ order[o].status = "NONE"
  BY DEF reference_orders, FreshOrder, Unborn
<1>4. NoneShipped(order, order')
  BY <1>1, <1>2, <1>3 DEF NoneShipped, OrderTable
<1>5. CartFits(cart)
  BY TillCartFits
<1>6. \A l \in Lines : line'[l] = IF l[1] = o /\ l[2] \in DOMAIN cart THEN rows[l[2]] ELSE line[l]
  BY <1>2 DEF WithLines
<1>7. \A i \in DOMAIN cart : /\ rows[i].row = "live" /\ rows[i].ordered = cart[i].q
                             /\ rows[i].shipped = cart[i].q
  BY DEF HandedOver, NewLine, NoLine
<1> HIDE DEF rows
<1>8. \A l \in Lines : l[1] \notin Unborn => line'[l] = line[l]
  BY <1>3, <1>6
<1>9. ASSUME NEW p \in Orders, p # o, sale'[p] # NULL PROVE AsSold(p)'
  BY <1>1, <1>2, <1>4, <1>8, <1>9, OtherSales
<1>10. ASSUME NEW i \in DOMAIN cart
       PROVE  /\ line'[<<o, i>>].row = "live" /\ line'[<<o, i>>].ordered = cart[i].q
              /\ line'[<<o, i>>].shipped = cart[i].q /\ cart[i].q \in Nat \ {0}
  <2> DEFINE l == <<o, i>>
  <2>1. l \in Lines /\ cart[i].q \in Nat \ {0}
    BY <1>3, <1>5 DEF CartFits, Lines
  <2>2. l[1] = o /\ l[2] = i
    OBVIOUS
  <2> HIDE DEF l
  <2>3. line'[l] = rows[i]
    BY <1>6, <2>1, <2>2
  <2> QED BY <1>7, <2>1, <2>3 DEF l
<1>11. sale'[o].cart = cart
  BY <1>1, <1>2, <1>3 DEF Sale
<1>12. AsSold(o)'
  BY <1>10, <1>11 DEF AsSold
<1>13. \A p \in Orders : sale'[p] # NULL => AsSold(p)'
  BY <1>9, <1>12
<1> QED BY <1>2, <1>13 DEF SoldInv, Unshorted, NoneAsksShort

\* what comes back came from an order that has shipped
LEMMA RefundSold ==
  ASSUME TillInv, SoldInv, NEW k, NEW o \in Orders, NEW part,
         \A i \in DOMAIN part : part[i] \in Nat, refund(k, o, part)
  PROVE  SoldInv'
<1> DEFINE x == RefundRow(k, o, part)
<1>1. /\ ~KeyUsed(k) /\ sale[o] # NULL /\ order[o].status = "SHIPPED"
      /\ refunds' = refunds \cup {x} /\ UNCHANGED <<line, task, request>>
      /\ \E fully : /\ sale' = [sale EXCEPT ![o].refunded = fully]
                    /\ order' = order \/ order' = [order EXCEPT ![o].status = "REFUNDED"]
  BY DEF refund, MayRefund, TillOnly
<1>2. x.key = k /\ x.of = o /\ x.part = part
  BY DEF RefundRow
<1> HIDE DEF x
<1>3. /\ RefundTable /\ DOMAIN sale = Orders /\ OrderTable(order)
      /\ \A p \in Orders : sale[p] # NULL => SaleFits(p)
  BY DEF TillInv, SaleTable
<1>4. x \notin refunds
  BY <1>1, <1>2 DEF KeyUsed
<1>5. \A p, i : p # o => Refunded(p, i)' = Refunded(p, i)
  <2> SUFFICES ASSUME NEW p, NEW i, p # o PROVE Refunded(p, i)' = Refunded(p, i)
    OBVIOUS
  <2>1. Refunded(p, i) \in Nat
    BY <1>3, RefundedUnits
  <2>2. Refunded(p, i)' = Refunded(p, i) + IF p = x.of /\ i \in DOMAIN x.part THEN x.part[i] ELSE 0
    BY <1>1, <1>2, <1>3, <1>4, RefundedMore
  <2> QED BY <1>2, <2>1, <2>2
<1>6. \A p \in Orders : order'[p].status = "SHIPPED" => order[p].status = "SHIPPED"
  BY <1>1, <1>3 DEF OrderTable
<1>7. ASSUME NEW p \in Orders, sale'[p] # NULL PROVE AsSold(p)'
  <2>1. sale[p] # NULL /\ sale'[p].cart = sale[p].cart
    BY <1>1, <1>3, <1>7 DEF SaleFits
  <2>2. AsSold(p)
    BY <2>1 DEF SoldInv
  <2>3. CASE p = o
    BY <1>1, <1>6, <2>1, <2>2, <2>3 DEF AsSold
  <2>4. CASE p # o
    BY <1>1, <1>5, <1>6, <2>1, <2>2, <2>4 DEF AsSold
  <2> QED BY <2>3, <2>4
<1> QED BY <1>1, <1>7 DEF SoldInv, Unshorted, NoneAsksShort

-----------------------------------------------------------------------------
RefundInv == TillInv /\ Restores /\ (ShipsAsSold => SoldInv)

LEMMA RefundInvInit == Init => RefundInv
<1> SUFFICES ASSUME Init PROVE RefundInv
  OBVIOUS
<1>1. OrderTable(order)
  BY MorningBooks DEF Init
<1>2. /\ sale = [o \in Orders |-> NULL] /\ refunds = {} /\ task = {}
      /\ request = [r \in Requests |-> Idle] /\ shipment = [o \in Orders |-> <<>>]
  BY DEF Init
<1>3. SaleTable /\ RefundTable
  BY <1>2, FS_EmptySet DEF SaleTable, RefundTable
<1>4. \A k \in TillKeys : OneCall(k)
  BY <1>2 DEF OneCall, SoldWith
<1>5. TillInv
  BY <1>1, <1>2, <1>3, <1>4 DEF TillInv
<1>6. Restores
  BY <1>2 DEF Restores
<1>7. SoldInv
  BY <1>2 DEF SoldInv, Unshorted, NoneAsksShort, Idle
<1> QED BY <1>5, <1>6, <1>7 DEF RefundInv

\* a desk that is not the till
LEMMA RefundInvKept ==
  ASSUME RefundInv, UNCHANGED <<tillVars, desk>>, Lasting(order, order'), Restores',
         ShipsAsSold => SoldInv'
  PROVE  RefundInv'
<1>1. ShipsAsSold' <=> ShipsAsSold
  BY DEF ShipsAsSold
<1> QED BY <1>1, TillKept DEF RefundInv

LEMMA TillRefunds ==
  ASSUME RefundInv, Till
  PROVE  TillInv' /\ (ShipsAsSold => SoldInv')
<1>1. TillInv /\ (ShipsAsSold => SoldInv)
  BY DEF RefundInv
<1>2. Drawn \subseteq TillKeys /\ Born \subseteq Orders
  BY DEF Drawn, UsedKeys, Born
<1>3. ASSUME NEW k \in Drawn, NEW o, NEW how \in {"counter", "phone", "backorder"}, NEW child,
             NEW cart \in TillCarts, NEW rma, NEW back, checkout(k, o, how, child, cart, rma, back)
      PROVE  TillInv' /\ (ShipsAsSold => SoldInv')
  <2>1. k \in TillKeys
    BY <1>2
  <2>2. TillInv'
    BY <1>1, <1>3, <2>1, CheckoutTill
  <2>3. ASSUME ShipsAsSold PROVE SoldInv'
    BY <1>1, <1>3, <2>3, CheckoutSold
  <2> QED BY <2>2, <2>3
<1>4. ASSUME NEW o, NEW cart \in TillCarts, reference_orders(o, cart)
      PROVE  TillInv' /\ (ShipsAsSold => SoldInv')
  BY <1>1, <1>4, ReferenceTill, ReferenceSold
<1>5. ASSUME NEW k \in Drawn, NEW o \in Born, NEW j, NEW n \in Quantities, refund(k, o, [i \in {j} |-> n])
      PROVE  TillInv' /\ (ShipsAsSold => SoldInv')
  <2> DEFINE part == [i \in {j} |-> n]
  <2>1. \A i \in DOMAIN part : part[i] \in Nat
    BY QuantitiesNat
  <2>2. refund(k, o, part) /\ k \in TillKeys /\ o \in Orders
    BY <1>2, <1>5
  <2> HIDE DEF part
  <2> QED BY <1>1, <2>1, <2>2, RefundTill, RefundSold
<1>6. CASE Does("counter") /\ \E k \in Drawn, o \in NewOrder, cart \in TillCarts :
             checkout(k, o, "counter", Whole, cart, NULL, NULL)
  BY <1>3, <1>6
<1>7. CASE Does("phone") /\ \E k \in Drawn, o \in NewOrder, cart \in TillCarts :
             checkout(k, o, "phone", Whole, cart, NULL, NULL)
  BY <1>3, <1>7
<1>8. CASE Does("exchange") /\ \E k \in Drawn, o \in NewOrder, cart \in TillCarts :
       \/ checkout(k, o, "backorder", Whole, cart, NULL, NULL)
       \/ \E p \in Born, kind \in {"replacement", "exchange"} :
            checkout(k, o, "phone", [kind |-> kind, of |-> p], cart, NULL, NULL)
       \/ \E p \in Born, rma \in Unborn, i \in Items, n \in Quantities :
            checkout(k, o, "counter", [kind |-> "exchange", of |-> p], cart, rma, [item |-> i, q |-> n])
       \/ reference_orders(o, cart)
  <2>1. PICK k \in Drawn, o \in NewOrder, cart \in TillCarts :
       \/ checkout(k, o, "backorder", Whole, cart, NULL, NULL)
       \/ \E p \in Born, kind \in {"replacement", "exchange"} :
            checkout(k, o, "phone", [kind |-> kind, of |-> p], cart, NULL, NULL)
       \/ \E p \in Born, rma \in Unborn, i \in Items, n \in Quantities :
            checkout(k, o, "counter", [kind |-> "exchange", of |-> p], cart, rma, [item |-> i, q |-> n])
       \/ reference_orders(o, cart)
    BY <1>8
  <2>2. reference_orders(o, cart) \/ \E how \in {"counter", "phone", "backorder"} : \E child, rma, back :
          checkout(k, o, how, child, cart, rma, back)
    BY <2>1
  <2> QED BY <1>3, <1>4, <2>2
<1>9. CASE Does("refund") /\ \E k \in Drawn, o \in Born, j \in Items, n \in Quantities :
             refund(k, o, [i \in {j} |-> n])
  BY <1>5, <1>9
<1> QED BY <1>6, <1>7, <1>8, <1>9 DEF Till

LEMMA RefundInvNext ==
  ASSUME ShelfInv, DockInv, RefundInv, [Next]_vars
  PROVE  RefundInv'
<1>1. UNCHANGED desk /\ TillInv /\ OrderTable(order) /\ BooksNow /\ Restores /\ DOMAIN request = Requests
  BY DEF Next, vars, RefundInv, TillInv, ShelfInv, Requested
<1>2. ASSUME UNCHANGED <<tillVars, shipment>>, Lasting(order, order'), ShipsAsSold => SoldInv'
      PROVE  RefundInv'
  BY <1>1, <1>2, RefundInvKept, SameRestorable DEF Restores
<1>3. ASSUME ShipsAsSold, UNCHANGED tillVars, Calm, NoneAsksShort' PROVE SoldInv'
  BY <1>1, <1>3, SoldKept DEF RefundInv
<1>4. ShipsAsSold => NoneAsksShort
  BY DEF RefundInv, SoldInv
<1>5. CASE PickWork /\ ShippingUnchanged /\ UNCHANGED tillVars
  BY <1>1, <1>2, <1>3, <1>4, <1>5, PickWorkQuiet DEF ShippingUnchanged
<1>6. CASE OrderDesk /\ ShippingUnchanged /\ UNCHANGED tillVars
  <2>1. UNCHANGED request
    BY <1>1, <1>6, OrderDeskShelf
  <2>2. ShipsAsSold => NoneAsksShort'
    BY <1>4, <2>1 DEF NoneAsksShort
  <2> QED BY <1>1, <1>2, <1>3, <1>6, <2>2, OrderDeskQuiet DEF ShippingUnchanged
<1>7. CASE ReturnsDesk /\ ShippingUnchanged /\ UNCHANGED tillVars
  BY <1>1, <1>2, <1>3, <1>4, <1>7, ReturnsDeskQuiet DEF ShippingUnchanged
<1>8. CASE ShippingDesk /\ UNCHANGED tillVars
  <2>1. Lasting(order, order') /\ Restores'
    BY <1>1, <1>8, ShippingDeskLasts
  <2>2. ShipsAsSold => SoldInv'
    BY <1>1, <1>8, ShippingDeskSold DEF RefundInv
  <2> QED BY <1>1, <1>8, <2>1, <2>2, RefundInvKept
<1>9. CASE Till /\ ShippingUnchanged
  <2>1. TillInv' /\ (ShipsAsSold => SoldInv')
    BY <1>9, TillRefunds
  <2>2. ShipsAsSold' <=> ShipsAsSold
    BY <1>1 DEF ShipsAsSold
  <2>3. Restores'
    BY <1>1, <1>9, SameRestorable DEF ShippingUnchanged, Restores
  <2> QED BY <2>1, <2>2, <2>3 DEF RefundInv
<1>10. CASE UNCHANGED vars
  <2>1. Lasting(order, order') /\ Calm
    BY <1>1, <1>10, StillQuiet DEF vars
  <2>2. ShipsAsSold => NoneAsksShort'
    BY <1>4, <1>10 DEF NoneAsksShort, vars
  <2> QED BY <1>2, <1>3, <1>10, <2>1, <2>2 DEF vars, tillVars
<1> QED BY <1>5, <1>6, <1>7, <1>8, <1>9, <1>10 DEF Next

\* at most one element has the key, and not one in each
LEMMA OneCallCounts ==
  ASSUME NEW k, OneCall(k)
  PROVE  Cardinality({o \in Orders : sale[o] # NULL /\ sale[o].key = k})
           + Cardinality({x \in refunds : x.key = k}) <= 1
<1> DEFINE S == {o \in Orders : sale[o] # NULL /\ sale[o].key = k}
           R == {x \in refunds : x.key = k}
<1>1. /\ S = {} \/ \E o : S = {o}
      /\ R = {} \/ \E x : R = {x}
      /\ S = {} \/ R = {}
  BY DEF OneCall, SoldWith
<1> HIDE DEF S, R
<1>2. Cardinality(S) \in {0, 1} /\ Cardinality(R) \in {0, 1}
  BY <1>1, FS_EmptySet, FS_Singleton
<1>3. Cardinality(S) = 0 \/ Cardinality(R) = 0
  BY <1>1, FS_EmptySet
<1> QED BY <1>2, <1>3 DEF S, R

LEMMA RefundInvAddsUp ==
  ASSUME ShelfInv, RefundInv
  PROVE  RefundsAddUp
<1>1. TillInv /\ (ShipsAsSold => SoldInv)
  BY DEF RefundInv
<1>2. ASSUME NEW o \in Orders, sale[o] # NULL, NEW i \in DOMAIN sale[o].cart
      PROVE  /\ Refunded(o, i) <= sale[o].cart[i].q
             /\ ShipsAsSold => Refunded(o, i) <= line[<<o, i>>].shipped
  <2>1. Refunded(o, i) <= sale[o].cart[i].q
    BY <1>1, <1>2 DEF TillInv, Balances
  <2>2. ASSUME ShipsAsSold PROVE Refunded(o, i) <= line[<<o, i>>].shipped
    <3>1. Refunded(o, i) \in Nat
      BY <1>1, RefundedUnits DEF TillInv
    <3>2. <<o, i>> \in Lines /\ sale[o].cart[i].q \in Nat
      BY <1>1, <1>2, SaleLines
    <3>3. AsSold(o)
      BY <1>1, <1>2, <2>2 DEF SoldInv
    <3>4. /\ line[<<o, i>>].ordered = sale[o].cart[i].q
          /\ Refunded(o, i) > 0 => line[<<o, i>>].shipped >= line[<<o, i>>].ordered
      BY <1>2, <3>3 DEF AsSold
    <3>5. line[<<o, i>>].shipped \in Nat
      <4>1. line[<<o, i>>] \in LineRow
        BY <3>2, LineRows DEF ShelfInv, BooksNow
      <4> QED BY <4>1 DEF LineRow
    <3> QED BY <2>1, <3>1, <3>2, <3>4, <3>5
  <2> QED BY <2>1, <2>2
<1>3. \A o \in Orders : sale[o] # NULL => Balances(o)
  BY <1>1 DEF TillInv
<1>4. \A k \in TillKeys : Cardinality({o \in Orders : sale[o] # NULL /\ sale[o].key = k})
                          + Cardinality({x \in refunds : x.key = k}) <= 1
  BY <1>1, OneCallCounts DEF TillInv
<1> QED BY <1>2, <1>3, <1>4 DEF RefundsAddUp, Balances

\* Whatever is sold, shipped, reverted and taken back in whatever pieces, a till never
\* takes back more of an item than was sold, nor, on the days on which orders ship as
\* they were sold, more than shipped; a sale is settled exactly when all of it came
\* back; and a key that a till repeats never stands for a second call.
THEOREM RefundsRight == Spec => []RefundsAddUp
<1>1. Init => ShelfInv /\ DockInv /\ RefundInv
  BY ShelfInvInit, DockInvInit, RefundInvInit
<1>2. ShelfInv /\ DockInv /\ RefundInv /\ [Next]_vars => (ShelfInv /\ DockInv /\ RefundInv)'
  BY ShelfInvNext, DockInvNext, RefundInvNext
<1>3. ShelfInv /\ DockInv /\ RefundInv => RefundsAddUp
  BY RefundInvAddsUp
<1> QED BY <1>1, <1>2, <1>3, PTL DEF Spec

-----------------------------------------------------------------------------
(***************************************************************************)
(* Orders that leave are whole or marked short, and stay as they left.     *)
(***************************************************************************)
LeftWhole(o) == \A l \in LinesIn(Db, o) : line[l].shipped >= line[l].ordered \/ ShortMarked(Db, l)
LeavesWhole == \A o \in Orders : order'[o].status = "SHIPPED" =>
                 /\ order[o].status \notin {"NONE", "SHIPPED"} => LeftWhole(o)'
                 /\ order[o].status = "SHIPPED" => \A i \in Items : AsItLeft(<<o, i>>)

\* a desk that ships nothing
LEMMA SettledLeaves ==
  ASSUME Settled
  PROVE  LeavesWhole
<1> SUFFICES ASSUME NEW o \in Orders, order'[o].status = "SHIPPED"
             PROVE  /\ order[o].status \notin {"NONE", "SHIPPED"} => LeftWhole(o)'
                    /\ order[o].status = "SHIPPED" => \A i \in Items : AsItLeft(<<o, i>>)
  BY DEF LeavesWhole
<1>1. order[o].status \notin {"NONE", "SHIPPED"} => LeftWhole(o)'
  BY DEF Settled, NoneShipped
<1>2. ASSUME order[o].status = "SHIPPED", NEW i \in Items PROVE AsItLeft(<<o, i>>)
  <2> DEFINE l == <<o, i>>
  <2>1. l \in Lines /\ l[1] = o
    BY DEF Lines
  <2> HIDE DEF l
  <2>2. Alike(line'[l], line[l])
    BY <1>2, <2>1 DEF Settled
  <2>3. AsItLeft(l)
    BY <2>2 DEF Alike, AsItLeft
  <2> QED BY <2>3 DEF l
<1> QED BY <1>1, <1>2

\* record_ship: what was picked is shipped
LEMMA ShipLeavesWhole ==
  ASSUME BooksNow, OrderTable(order), NEW o \in Orders, order[o].status # "SHIPPED",
         SilentlyShort(Db, {o}) = {}, line' = ShipLines(o), task' = task,
         order' = [order EXCEPT ![o].status = "SHIPPED"]
  PROVE  LeavesWhole
<1>1. ASSUME NEW l \in Lines, l[1] # o PROVE line'[l] = line[l]
  BY <1>1 DEF ShipLines
<1>2. ASSUME NEW l \in Lines, l[1] = o, line'[l].row = "live"
      PROVE  line'[l].shipped >= line'[l].ordered \/ ShortMarked(Db, l)'
  <2>1. line[l] \in LineRow /\ line[l].ordered \in Nat /\ line[l].picked \in Nat /\ line[l].shipped \in Nat
    <3>1. line[l] \in LineRow
      BY LineRows DEF BooksNow
    <3> QED BY <3>1 DEF LineRow
  <2>2. /\ line'[l].row = line[l].row /\ line'[l].ordered = line[l].ordered
        /\ line'[l].shipped = IF line[l].row = "live" /\ line[l].picked > 0
                              THEN line[l].picked ELSE line[l].shipped
    BY <1>2, <2>1 DEF ShipLines, LineRow
  <2>3. line[l].picked >= line[l].ordered \/ ShortMarked(Db, l)
    BY <1>2, <2>1, <2>2 DEF SilentlyShort, LiveLines, Db
  <2>4. ShortMarked(Db, l)' <=> ShortMarked(Db, l)
    BY DEF ShortMarked, Db
  <2>5. line[l].picked >= line[l].ordered => line'[l].shipped >= line'[l].ordered
    BY <1>2, <2>1, <2>2
  <2> QED BY <2>3, <2>4, <2>5
<1>3. LeftWhole(o)'
  BY <1>2 DEF LeftWhole, LinesIn, LiveLines, Db
<1>4. ASSUME NEW p \in Orders, p # o, NEW i \in Items PROVE AsItLeft(<<p, i>>)
  <2> DEFINE l == <<p, i>>
  <2>1. l \in Lines /\ l[1] # o
    BY <1>4 DEF Lines
  <2> HIDE DEF l
  <2>2. AsItLeft(l)
    BY <1>1, <2>1 DEF AsItLeft
  <2> QED BY <2>2 DEF l
<1>5. \A p \in Orders : p # o => order'[p] = order[p]
  BY DEF OrderTable
<1> QED BY <1>3, <1>4, <1>5 DEF LeavesWhole

\* a void takes its own order back, and leaves the others alone
LEMMA VoidLeavesWhole ==
  ASSUME OrderTable(order), NEW o \in Orders, NEW s, s # "SHIPPED",
         line' = [l \in Lines |-> IF l[1] = o THEN [line[l] EXCEPT !.shipped = 0] ELSE line[l]],
         order' = [order EXCEPT ![o].status = s]
  PROVE  LeavesWhole
<1>1. ASSUME NEW p \in Orders, p # o, NEW i \in Items PROVE AsItLeft(<<p, i>>)
  <2> DEFINE l == <<p, i>>
  <2>1. l \in Lines /\ l[1] # o
    BY <1>1 DEF Lines
  <2> HIDE DEF l
  <2>2. AsItLeft(l)
    BY <2>1 DEF AsItLeft
  <2> QED BY <2>2 DEF l
<1>2. /\ order'[o].status = s
      /\ \A p \in Orders : p # o => order'[p] = order[p]
  BY DEF OrderTable
<1> QED BY <1>1, <1>2 DEF LeavesWhole

LEMMA ShippingDeskLeaves ==
  ASSUME BooksNow, OrderTable(order), DockInv, Restores, ShippingDesk, ~Does("admin_ship")
  PROVE  LeavesWhole
<1>1. ASSUME NEW r, NEW l, NEW q, BeginVerify(r, l, q)
      PROVE  LeavesWhole
  <2>1. UNCHANGED <<order, line, task>>
    BY <1>1 DEF BeginVerify, orderVars
  <2> QED BY <2>1, StillQuiet, CalmSettled, SettledLeaves
<1>2. ASSUME NEW r, FinishVerify(r)
      PROVE  LeavesWhole
  <2> DEFINE l == request[r].line
             row == [line[l] EXCEPT !.packed = request[r].packed]
  <2>1. /\ line' = line \/ line' = [line EXCEPT ![l] = row]
        /\ UNCHANGED <<order, task>>
    BY <1>2 DEF FinishVerify
  <2>2. l \in Lines => Alike(row, line[l])
    <3> DEFINE n == request[r].packed
    <3> HIDE DEF l, n
    <3> QED BY LinesKept DEF BooksNow, n
  <2> HIDE DEF row, l
  <2> QED BY <2>1, <2>2, StillQuiet, LineQuiet, CalmSettled, SettledLeaves
<1>3. ASSUME NEW o, complete_packing(o)
      PROVE  LeavesWhole
  <2>1. order' = [order EXCEPT ![o].status = "PACKED"] /\ UNCHANGED <<line, task>>
    BY <1>3 DEF complete_packing
  <2>2. "PACKED" \notin {"NONE", "SHIPPED"}
    OBVIOUS
  <2> QED BY <2>1, <2>2, OrderQuiet, CalmSettled, SettledLeaves
<1>4. ASSUME NEW o \in Orders, fulfill(o) \/ edit_to_shipped(o) \/ \E k \in DockKeys : ship_order(k, o)
      PROVE  LeavesWhole
  <2>1. /\ SilentlyShort(Db, {o}) = {} /\ line' = ShipLines(o) /\ task' = task
        /\ order' = [order EXCEPT ![o].status = "SHIPPED"]
    BY <1>4 DEF fulfill, edit_to_shipped, ship_order, record_ship
  <2>2. order[o].status # "SHIPPED"
    BY <1>4 DEF fulfill, edit_to_shipped, ship_order, MayShip
  <2> QED BY <2>1, <2>2, ShipLeavesWhole
<1>5. ASSUME NEW o \in Orders, NEW k, void_ship(k, o)
      PROVE  LeavesWhole
  <2> DEFINE n == Max(LiveShipments(o))
  <2>1. PICK P : shipment \in [Orders -> Seq(ShipmentRow(P))]
    BY DEF DockInv, ShipmentRows
  <2>2. Len(shipment[o]) \in Nat /\ DOMAIN shipment[o] = 1 .. Len(shipment[o])
    BY <2>1, LenProperties
  <2>3. LiveShipments(o) # {} /\ record_void_ship(o, n)
    BY <1>5 DEF void_ship
  <2>4. n \in DOMAIN shipment[o]
    BY <2>2, <2>3, MaxOfRows DEF LiveShipments
  <2> HIDE DEF n
  <2>5. /\ shipment[o][n].pre # NULL /\ order' = [order EXCEPT ![o].status = shipment[o][n].pre]
        /\ line' = [l \in Lines |-> IF l[1] = o THEN [line[l] EXCEPT !.shipped = 0] ELSE line[l]]
    BY <2>3 DEF record_void_ship
  <2>6. shipment[o][n].pre # "SHIPPED"
    BY <2>4, <2>5 DEF Restores, Restorable
  <2> QED BY <2>5, <2>6, VoidLeavesWhole
<1>6. Born \subseteq Orders
  BY DEF Born
<1> QED BY <1>1, <1>2, <1>3, <1>4, <1>5, <1>6 DEF ShippingDesk

\* the till writes the lines of the orders it enters and no others
LEMMA TillSettled ==
  ASSUME BooksNow, TillInv, Till
  PROVE  Settled
<1>1. OrderTable(order) /\ \A l \in Lines : Alike(line[l], line[l])
  BY LinesKept DEF TillInv, BooksNow
<1>2. ASSUME \A l \in Lines : l[1] \notin Unborn => line'[l] = line[l], NoneShipped(order, order')
      PROVE  Settled
  <2>1. ASSUME NEW l \in Lines, order[l[1]].status = "SHIPPED" PROVE Alike(line'[l], line[l])
    <3>1. l[1] \notin Unborn
      BY <2>1 DEF Unborn
    <3> QED BY <1>1, <1>2, <3>1
  <2> QED BY <1>2, <2>1 DEF Settled
<1>3. ASSUME NEW k, NEW o, NEW how \in {"counter", "phone", "backorder"}, NEW child,
             NEW cart, NEW rma, NEW back, checkout(k, o, how, child, cart, rma, back)
      PROVE  Settled
  <2>1. NoneShipped(order, order')
    BY <1>1, <1>3, CheckoutLasts
  <2>2. rma # NULL => rma \in Unborn \ {o}
    BY <1>3 DEF checkout, MayReturn
  <2>3. o \in Unborn
    BY <1>3 DEF checkout, FreshOrder
  <2> DEFINE rows == [i \in DOMAIN cart |->
                      CASE how = "counter"   -> HandedOver(cart[i].q)
                        [] how = "phone"     -> Promised(cart[i].q)
                        [] how = "backorder" -> NewLine(cart[i].q)]
             with == WithLines(o, rows)
  <2>4. line' = IF rma = NULL THEN with ELSE [with EXCEPT ![<<rma, back.item>>] = NewLine(back.q)]
    BY <1>3 DEF checkout
  <2>5. \A l \in Lines : l[1] # o => with[l] = line[l]
    BY DEF WithLines
  <2>6. DOMAIN with = Lines
    BY DEF WithLines
  <2> HIDE DEF with, rows
  <2>7. \A l \in Lines : l[1] \notin Unborn => line'[l] = line[l]
    BY <2>2, <2>3, <2>4, <2>5, <2>6
  <2> QED BY <1>2, <2>1, <2>7
<1>4. ASSUME NEW o, NEW cart, reference_orders(o, cart)
      PROVE  Settled
  <2> DEFINE rows == [i \in DOMAIN cart |-> HandedOver(cart[i].q)]
  <2>1. /\ line' = WithLines(o, rows) /\ o \in Unborn
        /\ order' = [order EXCEPT ![o] = [NoOrder EXCEPT !.status = "SHIPPED"]]
    BY <1>4 DEF reference_orders, FreshOrder
  <2> HIDE DEF rows
  <2>2. NoneShipped(order, order')
    BY <1>1, <2>1 DEF NoneShipped, OrderTable, Unborn
  <2>3. \A l \in Lines : l[1] \notin Unborn => line'[l] = line[l]
    BY <2>1 DEF WithLines
  <2> QED BY <1>2, <2>2, <2>3
<1>5. ASSUME NEW k, NEW o, NEW part, refund(k, o, part)
      PROVE  Settled
  <2>1. line' = line /\ (order' = order \/ order' = [order EXCEPT ![o].status = "REFUNDED"])
    BY <1>5 DEF refund
  <2>2. NoneShipped(order, order')
    BY <1>1, <2>1 DEF NoneShipped, OrderTable
  <2> QED BY <1>2, <2>1, <2>2
<1>6. CASE Does("exchange") /\ \E k \in Drawn, o \in NewOrder, cart \in TillCarts :
       \/ checkout(k, o, "backorder", Whole, cart, NULL, NULL)
       \/ \E p \in Born, kind \in {"replacement", "exchange"} :
            checkout(k, o, "phone", [kind |-> kind, of |-> p], cart, NULL, NULL)
       \/ \E p \in Born, rma \in Unborn, i \in Items, n \in Quantities :
            checkout(k, o, "counter", [kind |-> "exchange", of |-> p], cart, rma, [item |-> i, q |-> n])
       \/ reference_orders(o, cart)
  BY <1>3, <1>4, <1>6
<1> QED BY <1>3, <1>5, <1>6 DEF Till

LEMMA StepsLeaveWhole ==
  ASSUME ShelfInv, DockInv, RefundInv, [Next]_vars, ~Does("admin_ship")
  PROVE  LeavesWhole
<1>1. BooksNow /\ TillInv /\ OrderTable(order) /\ Restores
  BY DEF RefundInv, TillInv, ShelfInv
<1>2. CASE PickWork
  BY <1>1, <1>2, PickWorkQuiet, SettledLeaves
<1>3. CASE OrderDesk
  BY <1>1, <1>3, OrderDeskQuiet, SettledLeaves
<1>4. CASE ReturnsDesk
  BY <1>1, <1>4, ReturnsDeskQuiet, CalmSettled, SettledLeaves
<1>5. CASE ShippingDesk
  BY <1>1, <1>5, ShippingDeskLeaves
<1>6. CASE Till
  BY <1>1, <1>6, TillSettled, SettledLeaves
<1>7. CASE UNCHANGED vars
  BY <1>1, <1>7, StillQuiet, CalmSettled, SettledLeaves DEF vars
<1> QED BY <1>2, <1>3, <1>4, <1>5, <1>6, <1>7 DEF Next

\* Whichever door an order leaves by, and whoever is still picking for it or cancelling
\* its batches, every line leaves whole or marked short by a picker; and while the order
\* counts as shipped, no desk and no late request rewrites what it ordered and shipped.
THEOREM LeavesWholeOrMarked == Spec => ShippedWhole
<1>1. Init => ShelfInv /\ DockInv /\ RefundInv
  BY ShelfInvInit, DockInvInit, RefundInvInit
<1>2. ShelfInv /\ DockInv /\ RefundInv /\ [Next]_vars => (ShelfInv /\ DockInv /\ RefundInv)'
  BY ShelfInvNext, DockInvNext, RefundInvNext
<1>3. ShelfInv /\ DockInv /\ RefundInv /\ [Next]_vars =>
        [~Does("admin_ship") => \A o \in Orders : order'[o].status = "SHIPPED" =>
           /\ order[o].status \notin {"NONE", "SHIPPED"} =>
                \A l \in LinesIn(Db, o)' : line'[l].shipped >= line'[l].ordered \/ ShortMarked(Db, l)'
           /\ order[o].status = "SHIPPED" => \A i \in Items : AsItLeft(<<o, i>>)]_vars
  BY StepsLeaveWhole DEF LeavesWhole, LeftWhole
<1> QED BY <1>1, <1>2, <1>3, PTL DEF Spec, ShippedWhole

=============================================================================
