--------------------------- MODULE WarehouseUnits ---------------------------
(***************************************************************************)
(* The theorem that no workflow of the warehouse loses units: every desk's *)
(* step, one after the other, on top of the theorems of WarehouseProofs.   *)
(***************************************************************************)
EXTENDS WarehouseProofs

-----------------------------------------------------------------------------
(***************************************************************************)
(* The units.  A workflow moves units between the shelves and the lines    *)
(* that picked them, and each of its steps must move as many as it takes.  *)
(* What a step takes is written on tasks, so the invariant ties the tasks  *)
(* to rows and lines that are there: on days with a handheld, as long as   *)
(* no line is deleted; and what a revert of an order may give back, to     *)
(* what its lines have picked, until the order is settled for good.        *)
(***************************************************************************)
PickedIn(rows, i) == SumOver(LAMBDA o : rows[<<o, i>>].picked, Orders)
UnitsIn(db, i)    == OnHand(db.inv, i) + PickedIn(db.line, i)

NoneGone(rows) == \A l \in Lines : rows[l].row # "gone"
Sound(rows)    == HandheldPicks => NoneGone(rows)

\* lines are made and deleted, and a deleted one does not come back
Forward(old, new) ==
  \A l \in Lines : /\ old[l].row = "gone" => new[l].row = "gone"
                   /\ old[l].row = "live" => new[l].row \in {"live", "gone"}

\* what is picked is on a line, and a line is of an order that was entered
LinesFit(db) ==
  /\ OrderTable(db.order)
  /\ \A l \in Lines : /\ db.line[l].row # "live" => db.line[l].picked = 0
                      /\ db.order[l[1]].status = "NONE" => db.line[l].row = "none"

\* a task stands for units of a row, for a line or for shares of lines that are there
Tied(rows, t) ==
  /\ t.item \in Items /\ t.bin \in Bins
  /\ t.line = NULL \/ (t.line \in Lines /\ t.line[2] = t.item)
  /\ NoneGone(rows) =>
       /\ t.line \in Lines /\ rows[t.line].row = "live" /\ t.lost = {}
       /\ \A o \in DOMAIN t.share : <<o, t.item>> \in Lines /\ rows[<<o, t.item>>].row = "live"
       /\ DOMAIN t.share # {} => Total(t.share, DOMAIN t.share) = t.qty

\* without a handheld only the desk picks, and its batches are never open
HandPicked(bt, t) ==
  ~HandheldPicks /\ t.picked # 0 =>
    /\ t.batch \in Batches /\ bt[t.batch].status \notin {"NONE", "OPEN"}
    /\ DOMAIN t.share = {} /\ t.shorted = {}

\* what a revert may give back is still on the line; a cancelled order cannot be reverted
Frozen(ord, o) == /\ Does("cancel")
                  /\ ord[o].status \in {"CANCELLED", "REFUNDED", "RECEIVED", "PARTIALLY_RECEIVED"}
Handed(T, o, i) == {t \in T : t.order = o /\ t.item = i /\ t.status = "PICKED" /\ t.picked # 0}
Backed(db, o) ==
  \A i \in Items : LET T == Handed(db.task, o, i)
                   IN  /\ \A t \in T : t.line = <<o, i>>
                       /\ Picked(T) <= db.line[<<o, i>>].picked
Backing(db) == Exact /\ Does("revert") => \A o \in Orders : Frozen(db.order, o) \/ Backed(db, o)

Counted(db) ==
  /\ LinesFit(db) /\ BatchTable(db.batch)
  /\ \A t \in db.task : Tied(db.line, t) /\ HandPicked(db.batch, t)
  /\ Backing(db)

\* no units are lost, and on most days none are found
SameUnits(db, new) ==
  \A i \in Items : /\ UnitsIn(new, i) >= UnitsIn(db, i)
                   /\ Exact => UnitsIn(new, i) = UnitsIn(db, i)

Honest(db, new) ==
  /\ Counted(new)
  /\ Forward(db.line, new.line)
  /\ Sound(new.line) => SameUnits(db, new)

LEMMA ForwardSound ==
  ASSUME NEW old, NEW new, Forward(old, new)
  PROVE  Sound(new) => Sound(old)
  BY DEF Forward, Sound, NoneGone

LEMMA SameForward == \A rows : Forward(rows, rows)
  BY DEF Forward

LEMMA ForwardTwice ==
  ASSUME NEW a, NEW b, NEW c, Forward(a, b), Forward(b, c)
  PROVE  Forward(a, c)
  BY DEF Forward

-----------------------------------------------------------------------------
(* Units on the shelf, and on lines *)

OnHandOf(inv, i)  == [b \in Bins |-> inv[<<i, b>>].on_hand]
PickedOf(rows, i) == [o \in Orders |-> rows[<<o, i>>].picked]

LEMMA OnHandUnits ==
  ASSUME NEW inv, Shelf(inv), ~Unfloored, NEW i \in Items
  PROVE  /\ OnHand(inv, i) = Total(OnHandOf(inv, i), Bins)
         /\ NatOn(OnHandOf(inv, i), Bins)
         /\ OnHand(inv, i) \in Nat
<1>1. OnHand(inv, i) = Total(OnHandOf(inv, i), Bins)
  BY DEF OnHand, SumOver, OnHandOf
<1>2. \A b \in Bins : inv[<<i, b>>].on_hand \in Nat
  BY RowsOfStock, RowOfShelf
<1>3. NatOn(OnHandOf(inv, i), Bins)
  BY <1>2 DEF NatOn, OnHandOf
<1> QED BY <1>1, <1>3, RowsOfStock, UnitsFinite

LEMMA PickedUnits ==
  ASSUME NEW rows, LineTable(rows), NEW i \in Items
  PROVE  /\ PickedIn(rows, i) = Total(PickedOf(rows, i), Orders)
         /\ NatOn(PickedOf(rows, i), Orders)
         /\ PickedIn(rows, i) \in Nat
<1>1. PickedIn(rows, i) = Total(PickedOf(rows, i), Orders)
  BY DEF PickedIn, SumOver, PickedOf
<1>2. \A o \in Orders : rows[<<o, i>>].picked \in Nat
  BY LineRows DEF Lines
<1>3. NatOn(PickedOf(rows, i), Orders)
  BY <1>2 DEF NatOn, PickedOf
<1> QED BY <1>1, <1>3, OrdersAssumption, UnitsFinite

LEMMA UnitsType ==
  ASSUME NEW db, Books(db), ~Unfloored, NEW i \in Items
  PROVE  UnitsIn(db, i) \in Nat
<1>1. OnHand(db.inv, i) \in Nat /\ PickedIn(db.line, i) \in Nat
  BY OnHandUnits, PickedUnits DEF Books
<1> QED BY <1>1 DEF UnitsIn

LEMMA SameShelf ==
  ASSUME NEW inv, NEW new, \A r \in Rows : new[r].on_hand = inv[r].on_hand
  PROVE  \A i \in Items : OnHand(new, i) = OnHand(inv, i)
<1> SUFFICES ASSUME NEW i \in Items PROVE OnHand(new, i) = OnHand(inv, i)
  OBVIOUS
<1>1. \A b \in Bins : new[<<i, b>>].on_hand = inv[<<i, b>>].on_hand
  BY RowsOfStock
<1>2. OnHandOf(new, i) = OnHandOf(inv, i)
  BY <1>1 DEF OnHandOf
<1> QED BY <1>2 DEF OnHand, SumOver, OnHandOf

LEMMA SameLines ==
  ASSUME NEW rows, NEW new, \A l \in Lines : new[l].picked = rows[l].picked
  PROVE  \A i \in Items : PickedIn(new, i) = PickedIn(rows, i)
<1> SUFFICES ASSUME NEW i \in Items PROVE PickedIn(new, i) = PickedIn(rows, i)
  OBVIOUS
<1>1. \A o \in Orders : new[<<o, i>>].picked = rows[<<o, i>>].picked
  BY DEF Lines
<1>2. PickedOf(new, i) = PickedOf(rows, i)
  BY <1>1 DEF PickedOf
<1> QED BY <1>2 DEF PickedIn, SumOver, PickedOf

\* one row is written
LEMMA OneRow ==
  ASSUME NEW inv, NEW new, Shelf(inv), Shelf(new), ~Unfloored, NEW r \in Rows,
         \A s \in Rows : s # r => new[s].on_hand = inv[s].on_hand
  PROVE  \A i \in Items :
           OnHand(new, i) = OnHand(inv, i) + IF i = r[1] THEN new[r].on_hand - inv[r].on_hand ELSE 0
<1> SUFFICES ASSUME NEW i \in Items
             PROVE  OnHand(new, i) = OnHand(inv, i)
                      + IF i = r[1] THEN new[r].on_hand - inv[r].on_hand ELSE 0
  OBVIOUS
<1> DEFINE f == OnHandOf(inv, i)
           g == OnHandOf(new, i)
<1>1. /\ OnHand(inv, i) = Total(f, Bins) /\ NatOn(f, Bins) /\ OnHand(inv, i) \in Nat
      /\ OnHand(new, i) = Total(g, Bins) /\ NatOn(g, Bins) /\ OnHand(new, i) \in Nat
  BY OnHandUnits
<1>2. r = <<r[1], r[2]>> /\ r[2] \in Bins /\ IsFiniteSet(Bins)
  BY RowsOfStock
<1>3. \A b \in Bins : <<i, b>> # r => g[b] = f[b]
  BY RowsOfStock DEF OnHandOf
<1>4. CASE i = r[1]
  <2>1. f[r[2]] = inv[r].on_hand /\ g[r[2]] = new[r].on_hand
    BY <1>2, <1>4 DEF OnHandOf
  <2>2. \A b \in Bins : b # r[2] => g[b] = f[b]
    BY <1>2, <1>3
  <2> HIDE DEF f, g
  <2>3. f[r[2]] \in Nat /\ g[r[2]] \in Nat
    BY <1>1, <1>2 DEF NatOn
  <2>4. Total(g, Bins) = Total(f, Bins) - f[r[2]] + g[r[2]]
    BY <1>1, <1>2, <2>2, <2>3, TotalChange
  <2> QED BY <1>1, <1>4, <2>1, <2>3, <2>4
<1>5. CASE i # r[1]
  <2>1. \A b \in Bins : g[b] = f[b]
    BY <1>2, <1>3, <1>5
  <2> HIDE DEF f, g
  <2> QED BY <1>1, <1>5, <2>1, TotalSame
<1> QED BY <1>4, <1>5

LEMMA OneLine ==
  ASSUME NEW rows, NEW new, LineTable(rows), LineTable(new), NEW l \in Lines,
         \A m \in Lines : m # l => new[m].picked = rows[m].picked
  PROVE  \A i \in Items :
           PickedIn(new, i) = PickedIn(rows, i) + IF i = l[2] THEN new[l].picked - rows[l].picked ELSE 0
<1> SUFFICES ASSUME NEW i \in Items
             PROVE  PickedIn(new, i) = PickedIn(rows, i)
                      + IF i = l[2] THEN new[l].picked - rows[l].picked ELSE 0
  OBVIOUS
<1> DEFINE f == PickedOf(rows, i)
           g == PickedOf(new, i)
<1>1. /\ PickedIn(rows, i) = Total(f, Orders) /\ NatOn(f, Orders) /\ PickedIn(rows, i) \in Nat
      /\ PickedIn(new, i) = Total(g, Orders) /\ NatOn(g, Orders) /\ PickedIn(new, i) \in Nat
  BY PickedUnits
<1>2. l = <<l[1], l[2]>> /\ l[1] \in Orders /\ IsFiniteSet(Orders)
  BY OrdersAssumption DEF Lines
<1>3. \A o \in Orders : <<o, i>> # l => g[o] = f[o]
  BY DEF PickedOf, Lines
<1>4. CASE i = l[2]
  <2>1. f[l[1]] = rows[l].picked /\ g[l[1]] = new[l].picked
    BY <1>2, <1>4 DEF PickedOf
  <2>2. \A o \in Orders : o # l[1] => g[o] = f[o]
    BY <1>2, <1>3
  <2> HIDE DEF f, g
  <2>3. f[l[1]] \in Nat /\ g[l[1]] \in Nat
    BY <1>1, <1>2 DEF NatOn
  <2>4. Total(g, Orders) = Total(f, Orders) - f[l[1]] + g[l[1]]
    BY <1>1, <1>2, <2>2, <2>3, TotalChange
  <2> QED BY <1>1, <1>4, <2>1, <2>3, <2>4
<1>5. CASE i # l[2]
  <2>1. \A o \in Orders : g[o] = f[o]
    BY <1>2, <1>3, <1>5
  <2> HIDE DEF f, g
  <2> QED BY <1>1, <1>5, <2>1, TotalSame
<1> QED BY <1>4, <1>5

LEMMA UnitsStay ==
  ASSUME NEW db, NEW new, Books(db), Books(new), ~Unfloored,
         \A r \in Rows : new.inv[r].on_hand = db.inv[r].on_hand,
         \A l \in Lines : new.line[l].picked = db.line[l].picked
  PROVE  SameUnits(db, new)
<1>1. \A i \in Items : UnitsIn(new, i) = UnitsIn(db, i)
  BY SameShelf, SameLines DEF UnitsIn
<1>2. \A i \in Items : UnitsIn(db, i) \in Nat
  BY UnitsType
<1> QED BY <1>1, <1>2 DEF SameUnits

LEMMA HonestTwice ==
  ASSUME NEW a, NEW b, NEW c, Books(a), Books(b), Books(c), ~Unfloored, Honest(a, b), Honest(b, c)
  PROVE  Honest(a, c)
<1>1. Forward(a.line, c.line)
  BY ForwardTwice DEF Honest
<1>2. ASSUME Sound(c.line) PROVE SameUnits(a, c)
  <2>1. SameUnits(a, b) /\ SameUnits(b, c)
    BY <1>2, ForwardSound DEF Honest
  <2>2. \A i \in Items : UnitsIn(a, i) \in Nat /\ UnitsIn(b, i) \in Nat /\ UnitsIn(c, i) \in Nat
    BY UnitsType
  <2> QED BY <2>1, <2>2 DEF SameUnits
<1> QED BY <1>1, <1>2 DEF Honest

-----------------------------------------------------------------------------
(* What the rest of the invariant needs of a step *)

\* a task goes on: without a handheld, what it picked stays, and no task becomes PICKED
From(t, s) ==
  /\ s.batch = t.batch /\ s.order = t.order /\ s.line = t.line /\ s.item = t.item
  /\ s.bin = t.bin /\ s.qty = t.qty /\ s.share = t.share /\ s.lost = t.lost
  /\ ~HandheldPicks => /\ s.picked = t.picked /\ s.shorted = t.shorted
                       /\ s.status = "PICKED" => s = t

Blank(rows, s) == Tied(rows, s) /\ s.picked = 0
TasksGoOn(db, new) ==
  \A s \in new.task : (\E t \in db.task : From(t, s)) \/ Blank(new.line, s)

\* a batch that is closed stays closed
StayClosed(old, new) ==
  /\ BatchTable(new)
  /\ \A b \in Batches : old[b].status \notin {"NONE", "OPEN"} => new[b].status \notin {"NONE", "OPEN"}

\* an order that can be reverted keeps what its lines have picked
KeepPicks(db, new) ==
  \A o \in Orders : \/ Frozen(new.order, o)
                    \/ /\ ~Frozen(db.order, o)
                       /\ \A i \in Items : db.line[<<o, i>>].picked <= new.line[<<o, i>>].picked

LEMMA SameFrom == \A t : From(t, t)
  BY DEF From

LEMMA SameTasksGoOn ==
  ASSUME NEW db, NEW new, new.task \subseteq db.task
  PROVE  TasksGoOn(db, new)
  BY SameFrom DEF TasksGoOn

LEMMA TiedKept ==
  ASSUME NEW old, NEW new, Forward(old, new), NEW t, NEW s, Tied(old, t),
         s.line = t.line, s.item = t.item, s.bin = t.bin, s.qty = t.qty, s.share = t.share, s.lost = t.lost
  PROVE  Tied(new, s)
<1>1. NoneGone(new) => NoneGone(old)
  BY DEF NoneGone, Forward
<1>2. \A l \in Lines : NoneGone(new) /\ old[l].row = "live" => new[l].row = "live"
  BY DEF NoneGone, Forward
<1> QED BY <1>1, <1>2 DEF Tied

\* fewer tasks that were picked, and not less on the lines: still backed
LEMMA BackedKept ==
  ASSUME NEW db, NEW new, Books(db), NEW o \in Orders, Backed(db, o),
         \A i \in Items : Handed(new.task, o, i) \subseteq Handed(db.task, o, i),
         \A i \in Items : /\ new.line[<<o, i>>].picked \in Nat
                          /\ db.line[<<o, i>>].picked <= new.line[<<o, i>>].picked
  PROVE  Backed(new, o)
<1> SUFFICES ASSUME NEW i \in Items
             PROVE  /\ \A t \in Handed(new.task, o, i) : t.line = <<o, i>>
                    /\ Picked(Handed(new.task, o, i)) <= new.line[<<o, i>>].picked
  BY DEF Backed
<1> DEFINE T == Handed(db.task, o, i)
           S == Handed(new.task, o, i)
<1>1. S \subseteq T /\ T \subseteq db.task /\ <<o, i>> \in Lines
  BY DEF Handed, Lines
<1>2. (\A t \in T : t.line = <<o, i>>) /\ Picked(T) <= db.line[<<o, i>>].picked
  BY DEF Backed
<1> HIDE DEF S, T
<1>3. Picked(S) <= Picked(T) /\ Picked(S) \in Nat /\ Picked(T) \in Nat
  <2> DEFINE f == [t \in T |-> t.picked]
             g == [t \in S |-> t.picked]
  <2>1. TaskTable(T)
    BY <1>1, TasksFewer DEF Books
  <2>2. NatOn(f, T) /\ IsFiniteSet(T)
    BY <2>1 DEF NatOn, TaskTable, TaskRow
  <2>3. \A t \in S : f[t] = g[t]
    BY <1>1
  <2>4. Picked(T) = Total(f, T) /\ Picked(S) = Total(g, S)
    BY DEF Picked, SumOver
  <2> HIDE DEF f, g
  <2>5. Total(f, S) = Total(g, S)
    BY <2>3, TotalSame
  <2> QED BY <1>1, <2>2, <2>4, <2>5, TotalSubset
<1>4. db.line[<<o, i>>].picked \in Nat /\ new.line[<<o, i>>].picked \in Nat
      /\ db.line[<<o, i>>].picked <= new.line[<<o, i>>].picked
  BY <1>1, LineRows DEF Books
<1> QED BY <1>1, <1>2, <1>3, <1>4 DEF S

LEMMA FitKept ==
  ASSUME NEW db, NEW new, LinesFit(db), Lasting(db.order, new.order),
         \A l \in Lines : /\ new.line[l].row = db.line[l].row
                          /\ db.line[l].row # "live" => new.line[l].picked = 0
  PROVE  LinesFit(new) /\ Forward(db.line, new.line)
<1>1. \A l \in Lines : l[1] \in Orders
  BY DEF Lines
<1> QED BY <1>1 DEF LinesFit, Lasting, Forward

LEMMA KeepsCounted ==
  ASSUME NEW db, NEW new, Books(db), LineTable(new.line), Counted(db), LinesFit(new),
         Forward(db.line, new.line), StayClosed(db.batch, new.batch), TasksGoOn(db, new),
         Exact /\ Does("revert") => KeepPicks(db, new)
  PROVE  Counted(new)
<1>1. BatchTable(new.batch)
  BY DEF StayClosed
<1>2. ASSUME NEW s \in new.task PROVE Tied(new.line, s) /\ HandPicked(new.batch, s)
  <2>1. ASSUME NEW t \in db.task, From(t, s) PROVE Tied(new.line, s) /\ HandPicked(new.batch, s)
    <3>1. Tied(db.line, t) /\ HandPicked(db.batch, t)
      BY DEF Counted
    <3>2. Tied(new.line, s)
      BY <2>1, <3>1, TiedKept DEF From
    <3>3. HandPicked(new.batch, s)
      BY <2>1, <3>1 DEF From, HandPicked, StayClosed
    <3> QED BY <3>2, <3>3
  <2>2. CASE Blank(new.line, s)
    BY <2>2 DEF Blank, HandPicked
  <2> QED BY <2>1, <2>2 DEF TasksGoOn
<1>3. Backing(new)
  <2> SUFFICES ASSUME Exact, Does("revert"), NEW o \in Orders, ~Frozen(new.order, o)
               PROVE  Backed(new, o)
    BY DEF Backing
  <2>1. ~Frozen(db.order, o) /\ \A i \in Items : db.line[<<o, i>>].picked <= new.line[<<o, i>>].picked
    BY DEF KeepPicks
  <2>2. Backed(db, o)
    BY <2>1 DEF Counted, Backing
  <2>3. ASSUME NEW i \in Items PROVE Handed(new.task, o, i) \subseteq Handed(db.task, o, i)
    <3> SUFFICES ASSUME NEW s \in Handed(new.task, o, i) PROVE s \in Handed(db.task, o, i)
      OBVIOUS
    <3>1. s \in new.task /\ s.status = "PICKED" /\ s.picked # 0
      BY DEF Handed
    <3>2. PICK t \in db.task : From(t, s)
      BY <3>1 DEF TasksGoOn, Blank
    <3>3. s = t
      BY <3>1, <3>2 DEF From, Exact
    <3> QED BY <3>3 DEF Handed
  <2>4. \A i \in Items : new.line[<<o, i>>].picked \in Nat
    BY LineRows DEF Lines
  <2> QED BY <2>1, <2>2, <2>3, <2>4, BackedKept
<1> QED BY <1>1, <1>2, <1>3 DEF Counted

-----------------------------------------------------------------------------
(* Tasks give back what they picked: to their bins, and off their lines *)

PicksOf(T) == [t \in T |-> t.picked]

LEMMA PicksTotal ==
  ASSUME NEW T, TaskTable(T)
  PROVE  /\ NatOn(PicksOf(T), T) /\ IsFiniteSet(T)
         /\ \A S \in SUBSET T : /\ Picked(S) = Total(PicksOf(T), S)
                                /\ NatOn(PicksOf(T), S) /\ IsFiniteSet(S)
<1>1. NatOn(PicksOf(T), T) /\ IsFiniteSet(T)
  BY DEF NatOn, PicksOf, TaskTable, TaskRow
<1>2. ASSUME NEW S \in SUBSET T PROVE Picked(S) = Total(PicksOf(T), S)
  <2> DEFINE f == [t \in S |-> t.picked]
             g == PicksOf(T)
  <2>1. Picked(S) = Total(f, S)
    BY DEF Picked, SumOver
  <2>2. \A t \in S : f[t] = g[t]
    BY DEF PicksOf
  <2> HIDE DEF f, g
  <2>3. Total(f, S) = Total(g, S)
    BY <2>2, TotalSame
  <2> QED BY <2>1, <2>3 DEF g
<1> QED BY <1>1, <1>2, FS_Subset DEF NatOn

LEMMA GivesBack ==
  ASSUME NEW db, NEW new, Books(db), Books(new), ~Unfloored,
         NEW T, T \subseteq db.task, \A t \in T : Tied(db.line, t),
         \A r \in Rows : new.inv[r].on_hand
                           = db.inv[r].on_hand + Picked({t \in T : t.item = r[1] /\ t.bin = r[2]}),
         \A l \in Lines : new.line[l].picked
                            = AtLeast0(db.line[l].picked - Picked({t \in T : t.line = l})),
         NEW i \in Items
  PROVE  /\ UnitsIn(new, i) >= UnitsIn(db, i)
         /\ /\ \A l \in Lines : Picked({t \in T : t.line = l}) <= db.line[l].picked
            /\ \A t \in T : t.picked # 0 => t.line \in Lines
            => UnitsIn(new, i) = UnitsIn(db, i)
<1> DEFINE pk   == PicksOf(T)
           A    == [b \in Bins |-> {t \in T : t.item = i /\ t.bin = b}]
           B    == [o \in Orders |-> {t \in T : t.line = <<o, i>>}]
           g    == [b \in Bins |-> Picked(A[b])]
           h    == [o \in Orders |-> Picked(B[o])]
           Here == {t \in T : t.item = i}
           Mine == {t \in T : \E o \in Orders : t.line = <<o, i>>}
           was  == PickedOf(db.line, i)
           is   == PickedOf(new.line, i)
           shelved == OnHandOf(db.inv, i)
           shelf   == OnHandOf(new.inv, i)
<1>1. TaskTable(T)
  BY TasksFewer DEF Books
<1>2. /\ NatOn(pk, T) /\ IsFiniteSet(T)
      /\ \A S \in SUBSET T : Picked(S) = Total(pk, S) /\ NatOn(pk, S) /\ IsFiniteSet(S)
  BY <1>1, PicksTotal
<1>3. \A t \in T : t.item \in Items /\ t.bin \in Bins
                   /\ (t.line = NULL \/ (t.line \in Lines /\ t.line[2] = t.item))
  BY DEF Tied
<1>4. IsFiniteSet(Bins) /\ IsFiniteSet(Orders)
  BY RowsOfStock, OrdersAssumption
<1>5. UNION {A[b] : b \in Bins} = Here
  BY <1>3
<1>6. UNION {B[o] : o \in Orders} = Mine
  OBVIOUS
<1>7. Mine \subseteq Here
  <2> SUFFICES ASSUME NEW t \in T, NEW o \in Orders, t.line = <<o, i>> PROVE t.item = i
    OBVIOUS
  <2>1. t.line # NULL
    BY OrdersAssumption
  <2>2. t.line[2] = i
    OBVIOUS
  <2>3. t.line[2] = t.item
    BY <1>3, <2>1
  <2> QED BY <2>2, <2>3
<1>8. \A b \in Bins : shelf[b] = shelved[b] + g[b]
  BY RowsOfStock DEF OnHandOf
<1>9. \A o \in Orders : is[o] = AtLeast0(was[o] - h[o])
  BY DEF PickedOf, Lines
<1>10. /\ OnHand(db.inv, i) = Total(shelved, Bins) /\ NatOn(shelved, Bins) /\ OnHand(db.inv, i) \in Nat
       /\ OnHand(new.inv, i) = Total(shelf, Bins) /\ NatOn(shelf, Bins) /\ OnHand(new.inv, i) \in Nat
       /\ PickedIn(db.line, i) = Total(was, Orders) /\ NatOn(was, Orders) /\ PickedIn(db.line, i) \in Nat
       /\ PickedIn(new.line, i) = Total(is, Orders) /\ NatOn(is, Orders) /\ PickedIn(new.line, i) \in Nat
  BY OnHandUnits, PickedUnits DEF Books
<1>11. \A b \in Bins : IsFiniteSet(A[b]) /\ NatOn(pk, A[b]) /\ g[b] = Total(pk, A[b])
  <2> HIDE DEF pk
  <2>1. \A b \in Bins : A[b] \in SUBSET T
    OBVIOUS
  <2> QED BY <1>2, <2>1
<1>12. \A o \in Orders : IsFiniteSet(B[o]) /\ NatOn(pk, B[o]) /\ h[o] = Total(pk, B[o])
  <2> HIDE DEF pk
  <2>1. \A o \in Orders : B[o] \in SUBSET T
    OBVIOUS
  <2> QED BY <1>2, <2>1
<1>13. \A b, c \in Bins : b # c => A[b] \cap A[c] = {}
  OBVIOUS
<1>14. \A o, p \in Orders : o # p => B[o] \cap B[p] = {}
  OBVIOUS
<1>15. Here \in SUBSET T /\ Mine \in SUBSET T
  OBVIOUS
<1>16. /\ \A l \in Lines : Picked({t \in T : t.line = l}) <= db.line[l].picked
       /\ \A t \in T : t.picked # 0 => t.line \in Lines
       => /\ \A o \in Orders : h[o] <= was[o]
          /\ \A t \in Here \ Mine : pk[t] = 0
  <2> SUFFICES ASSUME \A l \in Lines : Picked({t \in T : t.line = l}) <= db.line[l].picked,
                      \A t \in T : t.picked # 0 => t.line \in Lines
               PROVE  /\ \A o \in Orders : h[o] <= was[o]
                      /\ \A t \in Here \ Mine : pk[t] = 0
    OBVIOUS
  <2>1. \A o \in Orders : h[o] <= was[o]
    BY DEF PickedOf, Lines
  <2>2. ASSUME NEW t \in Here \ Mine PROVE t.picked = 0
    <3> SUFFICES ASSUME t.line \in Lines PROVE FALSE
      OBVIOUS
    <3>1. t.line = <<t.line[1], t.line[2]>> /\ t.line[1] \in Orders
      BY DEF Lines
    <3>2. t.line # NULL
      BY OrdersAssumption DEF Lines
    <3> QED BY <1>3, <3>1, <3>2
  <2> QED BY <2>1, <2>2 DEF PicksOf
<1> HIDE DEF pk, A, B, g, h, Here, Mine, was, is, shelved, shelf
<1>17. Total(g, Bins) = Total(pk, Here)
  BY <1>4, <1>5, <1>11, <1>13, TotalGroups
<1>18. Total(h, Orders) = Total(pk, Mine)
  BY <1>4, <1>6, <1>12, <1>14, TotalGroups
<1>19. NatOn(g, Bins) /\ NatOn(h, Orders)
  <2>1. \A b \in Bins : g[b] \in Nat
    BY <1>11, UnitsFinite
  <2>2. \A o \in Orders : h[o] \in Nat
    BY <1>12, UnitsFinite
  <2> QED BY <2>1, <2>2 DEF NatOn
<1>20. Total(shelf, Bins) = Total(shelved, Bins) + Total(g, Bins)
  BY <1>4, <1>8, <1>10, <1>19, TotalPlus
<1>21. IsFiniteSet(Here) /\ NatOn(pk, Here) /\ IsFiniteSet(Mine) /\ NatOn(pk, Mine)
  BY <1>2, <1>15
<1>22. Total(pk, Mine) <= Total(pk, Here) /\ Total(pk, Mine) \in Nat /\ Total(pk, Here) \in Nat
  BY <1>7, <1>21, TotalSubset
<1> DEFINE both == [o \in Orders |-> is[o] + h[o]]
<1>23. NatOn(both, Orders) /\ Total(both, Orders) = Total(is, Orders) + Total(h, Orders)
  <2>1. \A o \in Orders : both[o] = is[o] + h[o]
    OBVIOUS
  <2>2. NatOn(both, Orders)
    BY <1>10, <1>19 DEF NatOn
  <2> HIDE DEF both
  <2> QED BY <1>4, <1>10, <1>19, <2>1, <2>2, TotalPlus
<1>24. Total(was, Orders) <= Total(both, Orders)
  <2>1. \A o \in Orders : was[o] \in Nat /\ h[o] \in Nat
    BY <1>10, <1>19 DEF NatOn
  <2>2. \A o \in Orders : was[o] <= both[o]
    BY <1>9, <2>1 DEF AtLeast0
  <2> HIDE DEF both
  <2> QED BY <1>4, <1>10, <1>23, <2>2, TotalLess
<1>25. UnitsIn(new, i) >= UnitsIn(db, i)
  <2> HIDE DEF both
  <2> QED BY <1>10, <1>17, <1>18, <1>20, <1>22, <1>23, <1>24 DEF UnitsIn
<1>26. ASSUME \A o \in Orders : h[o] <= was[o], \A t \in Here \ Mine : pk[t] = 0
       PROVE  UnitsIn(new, i) = UnitsIn(db, i)
  <2>1. \A o \in Orders : was[o] \in Nat /\ h[o] \in Nat
    BY <1>10, <1>19 DEF NatOn
  <2>2. \A o \in Orders : was[o] = both[o]
    BY <1>9, <1>26, <2>1 DEF AtLeast0
  <2> HIDE DEF both
  <2>3. Total(was, Orders) = Total(both, Orders)
    BY <2>2, TotalSame
  <2>4. Total(pk, Here) = Total(pk, Mine)
    BY <1>7, <1>21, <1>26, TotalPadded
  <2> QED BY <1>10, <1>17, <1>18, <1>20, <1>22, <1>23, <2>3, <2>4 DEF UnitsIn
<1> QED BY <1>16, <1>25, <1>26

-----------------------------------------------------------------------------
(* Operations that move no units *)

\* an order that is settled for good stays so
StaysFrozen(old, new) ==
  Exact /\ Does("revert") => \A o \in Orders : Frozen(old, o) => Frozen(new, o)

\* what a line has picked is not touched
LikeLine(new, old) == new.row = old.row /\ new.picked = old.picked
SameUnitLines(old, new) == \A l \in Lines : LikeLine(new[l], old[l])
SameUnitRows(old, new)  == \A r \in Rows : new[r].on_hand = old[r].on_hand

LEMMA HonestKept ==
  ASSUME NEW db, NEW new, Books(db), Books(new), Counted(db), ~Unfloored,
         Lasting(db.order, new.order), StaysFrozen(db.order, new.order),
         SameUnitRows(db.inv, new.inv), SameUnitLines(db.line, new.line),
         StayClosed(db.batch, new.batch), TasksGoOn(db, new)
  PROVE  Honest(db, new)
<1>1. \A l \in Lines : /\ new.line[l].row = db.line[l].row
                       /\ new.line[l].picked = db.line[l].picked
  BY DEF SameUnitLines, LikeLine
<1>2. LinesFit(new) /\ Forward(db.line, new.line)
  BY <1>1, FitKept DEF Counted, LinesFit
<1>3. Exact /\ Does("revert") => KeepPicks(db, new)
  <2> SUFFICES ASSUME Exact, Does("revert") PROVE KeepPicks(db, new)
    OBVIOUS
  <2>1. \A o \in Orders, i \in Items : <<o, i>> \in Lines
    BY DEF Lines
  <2>2. \A l \in Lines : db.line[l].picked <= new.line[l].picked
    BY <1>1, LineRows DEF Books
  <2> QED BY <2>1, <2>2 DEF KeepPicks, StaysFrozen
<1>4. Counted(new)
  BY <1>2, <1>3, KeepsCounted DEF Books
<1>5. SameUnits(db, new)
  BY <1>1, UnitsStay DEF SameUnitRows
<1> QED BY <1>2, <1>4, <1>5 DEF Honest

LEMMA SameStays ==
  /\ \A ord : StaysFrozen(ord, ord)
  /\ \A bt : BatchTable(bt) => StayClosed(bt, bt)
  /\ \A inv : SameUnitRows(inv, inv)
  /\ \A rows : SameUnitLines(rows, rows)
  BY DEF StaysFrozen, StayClosed, SameUnitRows, SameUnitLines, LikeLine

LEMMA UnitRows ==
  ASSUME NEW rows, LineTable(rows), NEW l \in Lines
  PROVE  /\ LikeLine(rows[l], rows[l])
         /\ \A q : LikeLine([rows[l] EXCEPT !.allocated = q], rows[l])
         /\ \A q : LikeLine([rows[l] EXCEPT !.ordered = q], rows[l])
         /\ \A q : LikeLine([rows[l] EXCEPT !.packed = q], rows[l])
         /\ \A q : LikeLine([rows[l] EXCEPT !.shipped = q], rows[l])
         /\ \A q : LikeLine([rows[l] EXCEPT !.received = q], rows[l])
<1>1. rows[l] \in LineRow
  BY LineRows
<1> QED BY <1>1 DEF LikeLine, LineRow

LEMMA UnitShelf ==
  ASSUME NEW inv, Shelf(inv), NEW r \in Rows
  PROVE  \A q : [inv[r] EXCEPT !.allocated = q].on_hand = inv[r].on_hand
<1>1. inv[r] \in [on_hand : Int, allocated : Int]
  BY RowOfShelf
<1> QED BY <1>1

LEMMA WalksKeepUnits ==
  ASSUME NEW inv, Shelf(inv), NEW i, NEW need
  PROVE  /\ SameUnitRows(inv, ReleaseWalk(inv, i, need))
         /\ SameUnitRows(inv, ReserveWalk(inv, i, need))
  BY UnitShelf DEF SameUnitRows, ReleaseWalk, ReserveWalk

LEMMA NormaliseHonest ==
  ASSUME NEW db, Books(db), Counted(db), ~Unfloored, NEW standing, Amounts(standing)
  PROVE  Honest(db, _normalize_so_reservations(db, standing))
<1> DEFINE new == _normalize_so_reservations(db, standing)
           held(i) == SumOver(LAMBDA l : standing[l], {l \in DOMAIN standing : l[2] = i})
           freed == [i \in Items |-> ReleaseWalk(db.inv, i, held(i))]
<1>1. /\ new.task = db.task /\ new.order = db.order /\ new.batch = db.batch
      /\ new.inv = [r \in Rows |-> freed[r[1]][r]]
      /\ new.line = [l \in Lines |-> IF l \in DOMAIN standing
                                     THEN [db.line[l] EXCEPT !.allocated = db.line[l].picked]
                                     ELSE db.line[l]]
  BY DEF Books, Session, _normalize_so_reservations
<1>2. Books(new)
  BY NormaliseBooks
<1> HIDE DEF held
<1>3. \A i \in Items : SameUnitRows(db.inv, freed[i])
  BY WalksKeepUnits DEF Books
<1> HIDE DEF new, freed
<1>4. SameUnitRows(db.inv, new.inv)
  BY <1>1, <1>3, RowsOfStock DEF SameUnitRows
<1>5. SameUnitLines(db.line, new.line)
  <2> SUFFICES ASSUME NEW l \in Lines PROVE LikeLine(new.line[l], db.line[l])
    BY DEF SameUnitLines
  <2> DEFINE p == db.line[l].picked
  <2>1. new.line[l] = IF l \in DOMAIN standing THEN [db.line[l] EXCEPT !.allocated = p] ELSE db.line[l]
    BY <1>1
  <2> HIDE DEF p
  <2>2. LikeLine([db.line[l] EXCEPT !.allocated = p], db.line[l]) /\ LikeLine(db.line[l], db.line[l])
    BY UnitRows DEF Books
  <2> QED BY <2>1, <2>2
<1>6. Honest(db, new)
  <2>1. TasksGoOn(db, new)
    BY <1>1, SameTasksGoOn
  <2>2. Lasting(db.order, new.order) /\ StaysFrozen(db.order, new.order) /\ StayClosed(db.batch, new.batch)
    BY <1>1, SameLasts, SameStays DEF Counted, LinesFit
  <2> QED BY <1>2, <1>4, <1>5, <2>1, <2>2, HonestKept
<1> QED BY <1>6 DEF new

\* new reservations, and tasks that wait for their picker
LEMMA ReserveHonest ==
  ASSUME NEW db, Books(db), Counted(db), ~Unfloored, NEW need, Amounts(need),
         NEW T, TaskTable(T), \A t \in T : Blank(db.line, t),
         NEW b, b \in Batches => db.batch[b].status = "NONE", NEW u, NEW O
  PROVE  Honest(db, Reserve(db, Allocation(db, need), T, b, u, O))
<1> DEFINE taken == Allocation(db, need)
           new == Reserve(db, taken, T, b, u, O)
           ofLine(l)     == Total(taken, {x \in DOMAIN taken : x[1] = l})
           fromBin(i, c) == Total(taken, {x \in DOMAIN taken : x[1][2] = i /\ x[2] = c})
           row == [status |-> "OPEN", by |-> u, orders |-> O]
<1>1. /\ new.task = db.task \cup T /\ new.order = db.order
      /\ new.batch = [db.batch EXCEPT ![b] = row]
      /\ new.inv = [r \in Rows |-> [db.inv[r] EXCEPT !.allocated = @ + fromBin(r[1], r[2])]]
      /\ new.line = [l \in Lines |-> [db.line[l] EXCEPT !.allocated = @ + ofLine(l)]]
  BY DEF Reserve, Books, Session
<1>2. Books(new)
  BY ReserveBooks
<1> HIDE DEF new, ofLine, fromBin, taken
<1>3. SameUnitRows(db.inv, new.inv)
  <2> SUFFICES ASSUME NEW r \in Rows PROVE new.inv[r].on_hand = db.inv[r].on_hand
    BY DEF SameUnitRows
  <2> DEFINE q == db.inv[r].allocated + fromBin(r[1], r[2])
  <2>1. new.inv[r] = [db.inv[r] EXCEPT !.allocated = q]
    BY <1>1
  <2> HIDE DEF q
  <2> QED BY <2>1, UnitShelf DEF Books
<1>4. SameUnitLines(db.line, new.line)
  <2> SUFFICES ASSUME NEW l \in Lines PROVE LikeLine(new.line[l], db.line[l])
    BY DEF SameUnitLines
  <2> DEFINE q == db.line[l].allocated + ofLine(l)
  <2>1. new.line[l] = [db.line[l] EXCEPT !.allocated = q]
    BY <1>1
  <2> HIDE DEF q
  <2>2. LikeLine([db.line[l] EXCEPT !.allocated = q], db.line[l])
    BY UnitRows DEF Books
  <2> QED BY <2>1, <2>2
<1>5. StayClosed(db.batch, new.batch)
  <2>1. BatchTable(db.batch)
    BY DEF Counted
  <2> QED BY <1>1, <2>1 DEF StayClosed, BatchTable
<1>6. TasksGoOn(db, new)
  <2>1. Forward(db.line, new.line)
    BY <1>4 DEF Forward, SameUnitLines, LikeLine
  <2>2. ASSUME NEW t \in T PROVE Blank(new.line, t)
    BY <2>1, TiedKept DEF Blank
  <2> QED BY <1>1, <2>2, SameFrom DEF TasksGoOn
<1>7. Honest(db, new)
  <2>2. Lasting(db.order, new.order) /\ StaysFrozen(db.order, new.order)
    BY <1>1, SameLasts, SameStays DEF Counted, LinesFit
  <2> QED BY <1>2, <1>3, <1>4, <1>5, <1>6, <2>2, HonestKept
<1> QED BY <1>7 DEF new, taken

\* tasks that picked nothing give nothing back
LEMMA NothingPicked ==
  ASSUME NEW T, TaskTable(T), \A t \in T : t.picked = 0
  PROVE  \A S \in SUBSET T : Picked(S) = 0
<1> SUFFICES ASSUME NEW S \in SUBSET T PROVE Picked(S) = 0
  OBVIOUS
<1>1. Picked(S) = Total(PicksOf(T), S)
  BY PicksTotal
<1>2. \A t \in S : PicksOf(T)[t] = 0
  BY DEF PicksOf
<1> QED BY <1>1, <1>2, TotalZero

LEMMA UndoneRow ==
  ASSUME NEW t, DOMAIN t = TaskFields
  PROVE  From(t, Undone(t))
<1>1. CASE t.status = "PICKED"
  <2>1. Undone(t) = [t EXCEPT !.status = "RELEASED"]
    BY <1>1 DEF Undone
  <2> QED BY <2>1 DEF From, TaskFields
<1>2. CASE t.status \in {"PENDING", "SHORT"}
  <2>1. Undone(t) = [t EXCEPT !.status = "SKIPPED"]
    BY <1>2 DEF Undone
  <2> QED BY <2>1 DEF From, TaskFields
<1>3. CASE t.status \notin {"PICKED", "PENDING", "SHORT"}
  <2>1. Undone(t) = t
    BY <1>3 DEF Undone
  <2> QED BY <2>1, SameFrom
<1> QED BY <1>1, <1>2, <1>3

LEMMA RevertHonest ==
  ASSUME NEW db, Books(db), Counted(db), ~Unfloored, NEW B
  PROVE  Honest(db, full_revert_batch(db, B))
<1> DEFINE new == full_revert_batch(db, B)
           T == {t \in db.task : /\ t.batch \in B /\ db.batch[t.batch].status = "OPEN"
                                 /\ t.status \in {"PENDING", "PICKED", "SHORT"}}
           at(r)      == {t \in T : t.item = r[1] /\ t.bin = r[2]}
           pending(r) == Quantity({t \in at(r) : t.status = "PENDING"})
           ofLine(l)  == {t \in T : t.line = l}
           reserved(r) == IF pending(r) = 0 THEN db.inv[r].allocated
                          ELSE AtLeast0(db.inv[r].allocated - pending(r))
           held(l) == AtLeast0(db.line[l].allocated - Quantity(ofLine(l)))
           left(l) == AtLeast0(db.line[l].picked - Picked(ofLine(l)))
<1>1. /\ new.order = db.order
      /\ new.task = {IF t \in T THEN Undone(t) ELSE t : t \in db.task}
      /\ new.inv = [r \in Rows |-> [on_hand |-> db.inv[r].on_hand + Picked(at(r)), allocated |-> reserved(r)]]
      /\ new.batch = [b \in Batches |-> IF b \in B /\ db.batch[b].status = "OPEN"
                                        THEN [db.batch[b] EXCEPT !.status = "CANCELLED"]
                                        ELSE db.batch[b]]
  BY DEF full_revert_batch, Books, Session
<1>2. new.line = [l \in Lines |-> [db.line[l] EXCEPT !.picked = left(l), !.allocated = held(l)]]
  BY LinesKept DEF full_revert_batch, Books, Session
<1>3. Books(new)
  BY RevertBooks
<1>4. T \subseteq db.task /\ \A l : ofLine(l) \subseteq T
  OBVIOUS
<1>5. ~HandheldPicks => \A t \in T : t.picked = 0
  BY DEF Counted, HandPicked
<1>6. TaskTable(T)
  BY TasksFewer DEF Books
<1> HIDE DEF new, reserved, held
<1>7. \A r \in Rows : new.inv[r].on_hand = db.inv[r].on_hand + Picked({t \in T : t.item = r[1] /\ t.bin = r[2]})
  BY <1>1
<1>8. \A l \in Lines : new.line[l].picked = AtLeast0(db.line[l].picked - Picked({t \in T : t.line = l}))
                       /\ new.line[l].row = db.line[l].row
  <2> SUFFICES ASSUME NEW l \in Lines
               PROVE  /\ new.line[l].picked = left(l)
                      /\ new.line[l].row = db.line[l].row
    OBVIOUS
  <2> DEFINE p == left(l)
             q == held(l)
  <2>1. new.line[l] = [db.line[l] EXCEPT !.picked = p, !.allocated = q]
    BY <1>2
  <2>2. DOMAIN db.line[l] = {"row", "ordered", "allocated", "picked", "packed", "shipped", "received"}
    BY LinesKept DEF Books
  <2> HIDE DEF p, q
  <2> QED BY <2>1, <2>2 DEF p
<1>9. \A l \in Lines : Picked({t \in T : t.line = l}) \in Nat
                       /\ (~HandheldPicks => Picked({t \in T : t.line = l}) = 0)
  <2> HIDE DEF T
  <2>1. \A l : {t \in T : t.line = l} \in SUBSET T
    OBVIOUS
  <2>2. \A l : Picked({t \in T : t.line = l}) \in Nat
    BY <1>6, <2>1, TaskSums
  <2>3. ~HandheldPicks => \A l : Picked({t \in T : t.line = l}) = 0
    BY <1>5, <1>6, <2>1, NothingPicked
  <2> QED BY <2>2, <2>3
<1>10. \A l \in Lines : db.line[l].picked \in Nat
  BY LineRows DEF Books
<1>11. LinesFit(new) /\ Forward(db.line, new.line)
  <2> DEFINE n(l) == Picked({t \in T : t.line = l})
  <2>0. /\ \A l \in Lines : new.line[l].picked = AtLeast0(db.line[l].picked - n(l)) /\ new.line[l].row = db.line[l].row
        /\ \A l \in Lines : n(l) \in Nat
    BY <1>8, <1>9
  <2> HIDE DEF n
  <2>1. \A l \in Lines : db.line[l].row # "live" => new.line[l].picked = 0
    BY <1>10, <2>0 DEF AtLeast0, Counted, LinesFit
  <2>2. Lasting(db.order, new.order)
    BY <1>1, SameLasts DEF Counted, LinesFit
  <2> QED BY <2>0, <2>1, <2>2, FitKept DEF Counted
<1>12. StayClosed(db.batch, new.batch)
  <2>1. BatchTable(db.batch)
    BY DEF Counted
  <2> QED BY <1>1, <2>1 DEF StayClosed, BatchTable
<1>13. TasksGoOn(db, new)
  <2>1. \A t \in db.task : From(t, Undone(t)) /\ From(t, t)
    BY UndoneRow, SameFrom DEF Books, TaskTable, TaskRow
  <2> HIDE DEF T
  <2> QED BY <1>1, <2>1 DEF TasksGoOn
<1>14. Exact /\ Does("revert") => KeepPicks(db, new)
  <2> SUFFICES ASSUME Exact PROVE KeepPicks(db, new)
    OBVIOUS
  <2>1. \A l \in Lines : new.line[l].picked = AtLeast0(db.line[l].picked - 0)
    BY <1>8, <1>9 DEF Exact
  <2>2. \A l \in Lines : db.line[l].picked <= new.line[l].picked
    BY <1>10, <2>1 DEF AtLeast0
  <2>3. \A o \in Orders, i \in Items : <<o, i>> \in Lines
    BY DEF Lines
  <2>4. new.order = db.order
    BY <1>1
  <2> QED BY <2>2, <2>3, <2>4 DEF KeepPicks
<1>15. Counted(new)
  <2> HIDE DEF T, left
  <2> QED BY <1>3, <1>11, <1>12, <1>13, <1>14, KeepsCounted DEF Books
<1>16. SameUnits(db, new)
  <2> SUFFICES ASSUME NEW i \in Items
               PROVE  /\ UnitsIn(new, i) >= UnitsIn(db, i)
                      /\ Exact => UnitsIn(new, i) = UnitsIn(db, i)
    BY DEF SameUnits
  <2>1. \A t \in T : Tied(db.line, t)
    BY DEF Counted
  <2>2. Exact => /\ \A l \in Lines : Picked({t \in T : t.line = l}) <= db.line[l].picked
                 /\ \A t \in T : t.picked # 0 => t.line \in Lines
    <3> SUFFICES ASSUME Exact
                 PROVE  /\ \A l \in Lines : Picked({t \in T : t.line = l}) <= db.line[l].picked
                        /\ \A t \in T : t.picked # 0 => t.line \in Lines
      OBVIOUS
    <3>1. ~HandheldPicks
      BY DEF Exact
    <3> QED BY <1>5, <1>9, <1>10, <3>1
  <2>3. /\ T \subseteq db.task
        /\ \A l \in Lines : new.line[l].picked = AtLeast0(db.line[l].picked - Picked({t \in T : t.line = l}))
    BY <1>4, <1>8
  <2> HIDE DEF T
  <2>4. /\ UnitsIn(new, i) >= UnitsIn(db, i)
        /\ /\ \A l \in Lines : Picked({t \in T : t.line = l}) <= db.line[l].picked
           /\ \A t \in T : t.picked # 0 => t.line \in Lines
           => UnitsIn(new, i) = UnitsIn(db, i)
    BY <1>3, <1>7, <2>1, <2>3, GivesBack, Zenon
  <2> QED BY <2>2, <2>4
<1>17. Honest(db, new)
  BY <1>11, <1>15, <1>16 DEF Honest
<1> QED BY <1>17 DEF new

-----------------------------------------------------------------------------
(* Orders and lines are entered *)

\* a line as it was, or a new one of an order that is there, with nothing picked yet
NewOrLike(db, new, l) ==
  \/ LikeLine(new.line[l], db.line[l])
  \/ /\ db.line[l].row = "none" /\ new.line[l].row = "live" /\ new.line[l].picked = 0
     /\ new.order[l[1]].status # "NONE"

LEMMA HonestGrown ==
  ASSUME NEW db, NEW new, Books(db), Books(new), Counted(db), ~Unfloored,
         Lasting(db.order, new.order), StaysFrozen(db.order, new.order),
         SameUnitRows(db.inv, new.inv), \A l \in Lines : NewOrLike(db, new, l),
         StayClosed(db.batch, new.batch), TasksGoOn(db, new)
  PROVE  Honest(db, new)
<1>0. \A l \in Lines : l[1] \in Orders
  BY DEF Lines
<1>1. \A l \in Lines : new.line[l].picked = db.line[l].picked
  BY DEF NewOrLike, LikeLine, Counted, LinesFit
<1>2. LinesFit(new) /\ Forward(db.line, new.line)
  <2>1. Forward(db.line, new.line)
    BY DEF NewOrLike, LikeLine, Forward
  <2>2. \A l \in Lines : new.line[l].row # "live" => new.line[l].picked = 0
    BY DEF NewOrLike, LikeLine, Counted, LinesFit
  <2>3. \A l \in Lines : new.order[l[1]].status = "NONE" => new.line[l].row = "none"
    BY <1>0 DEF NewOrLike, LikeLine, Counted, LinesFit, Lasting
  <2> QED BY <2>1, <2>2, <2>3 DEF LinesFit, Lasting
<1>3. Exact /\ Does("revert") => KeepPicks(db, new)
  <2> SUFFICES ASSUME Exact, Does("revert") PROVE KeepPicks(db, new)
    OBVIOUS
  <2>1. \A o \in Orders, i \in Items : <<o, i>> \in Lines
    BY DEF Lines
  <2>2. \A l \in Lines : db.line[l].picked <= new.line[l].picked
    BY <1>1, LineRows DEF Books
  <2> QED BY <2>1, <2>2 DEF KeepPicks, StaysFrozen
<1>4. Counted(new)
  BY <1>2, <1>3, KeepsCounted DEF Books
<1>5. SameUnits(db, new)
  BY <1>1, UnitsStay DEF SameUnitRows
<1> QED BY <1>2, <1>4, <1>5 DEF Honest

LEMMA EntryHonest ==
  ASSUME NEW db, Books(db), Counted(db), ~Unfloored, NEW o, NEW cart, CartRow(cart),
         o \in Orders => db.order[o].status = "NONE"
  PROVE  Honest(db, Entered(db, o, cart))
<1> DEFINE new == Entered(db, o, cart)
           n(l) == Reserved(db.inv, l[2], cart[l[2]])
           f == [i \in Items |-> IF i \in DOMAIN cart THEN ReserveWalk(db.inv, i, cart[i]) ELSE db.inv]
<1>1. /\ new.task = db.task /\ new.batch = db.batch
      /\ new.order = [db.order EXCEPT ![o] = [NoOrder EXCEPT !.status = "OPEN"]]
      /\ new.inv = [r \in Rows |-> IF r[1] \in DOMAIN cart
                                   THEN ReserveWalk(db.inv, r[1], cart[r[1]])[r] ELSE db.inv[r]]
      /\ new.line = [l \in Lines |-> IF l[1] = o /\ l[2] \in DOMAIN cart
                                     THEN [NewLine(cart[l[2]]) EXCEPT !.allocated = n(l)]
                                     ELSE db.line[l]]
  BY DEF Entered, Books, Session
<1>2. Books(new)
  BY EntryBooks
<1>3. OrderTable(db.order)
  BY DEF Counted, LinesFit
<1>4. Lasting(db.order, new.order) /\ StaysFrozen(db.order, new.order)
  <2> DEFINE row == [NoOrder EXCEPT !.status = "OPEN"]
  <2>1. DOMAIN row = {"status", "kind", "parent", "voided"} /\ row.status = "OPEN"
    BY DEF NoOrder
  <2>2. new.order = [db.order EXCEPT ![o] = row]
    BY <1>1
  <2> HIDE DEF new, row
  <2>3. \A p \in Orders : p # o => new.order[p] = db.order[p]
    BY <1>3, <2>2 DEF OrderTable
  <2>4. Lasting(db.order, new.order)
    BY <1>3, <2>1, <2>2 DEF Lasting, OrderTable
  <2> QED BY <2>3, <2>4 DEF StaysFrozen, Frozen
<1>5. SameUnitRows(db.inv, new.inv)
  <2>1. \A i \in Items : SameUnitRows(db.inv, f[i])
    BY WalksKeepUnits, SameStays DEF Books
  <2>2. \A r \in Rows : new.inv[r] = f[r[1]][r]
    BY <1>1, RowsOfStock
  <2> HIDE DEF f, new
  <2> QED BY <2>1, <2>2, RowsOfStock DEF SameUnitRows
<1>6. ASSUME NEW l \in Lines PROVE NewOrLike(db, new, l)
  <2>1. CASE l[1] = o /\ l[2] \in DOMAIN cart
    <3> DEFINE q == cart[l[2]]
               m == n(l)
    <3>1. new.line[l] = [NewLine(q) EXCEPT !.allocated = m]
      BY <1>1, <2>1
    <3> HIDE DEF q, m, new
    <3>2. new.line[l].row = "live" /\ new.line[l].picked = 0
      BY <3>1 DEF NewLine, NoLine
    <3>3. o \in Orders /\ l[1] = o
      BY <2>1 DEF Lines
    <3>4. db.line[l].row = "none"
      BY <3>3 DEF Counted, LinesFit
    <3>5. new.order[l[1]].status # "NONE"
      BY <1>1, <1>3, <3>3 DEF OrderTable, NoOrder
    <3> QED BY <3>2, <3>4, <3>5 DEF NewOrLike
  <2>2. CASE ~(l[1] = o /\ l[2] \in DOMAIN cart)
    <3>1. new.line[l] = db.line[l]
      BY <1>1, <2>2
    <3> QED BY <3>1 DEF NewOrLike, LikeLine
  <2> QED BY <2>1, <2>2
<1> HIDE DEF new
<1>7. TasksGoOn(db, new) /\ StayClosed(db.batch, new.batch)
  BY <1>1, SameTasksGoOn, SameStays DEF Counted
<1>8. Honest(db, new)
  BY <1>2, <1>4, <1>5, <1>6, <1>7, HonestGrown
<1> QED BY <1>8 DEF new

-----------------------------------------------------------------------------
(* The status of an order is written, and orders are cancelled *)

LEMMA StatusHonest ==
  ASSUME NEW db, Books(db), Counted(db), ~Unfloored, NEW o, NEW s, s # "NONE",
         Exact /\ Does("revert") /\ o \in Orders /\ Frozen(db.order, o) =>
           s \in {"CANCELLED", "REFUNDED", "RECEIVED", "PARTIALLY_RECEIVED"}
  PROVE  Honest(db, [db EXCEPT !.order[o].status = s])
<1> DEFINE new == [db EXCEPT !.order[o].status = s]
<1>1. /\ new.line = db.line /\ new.task = db.task /\ new.batch = db.batch /\ new.inv = db.inv
      /\ new.order = [db.order EXCEPT ![o].status = s]
  BY DEF Books, Session
<1>2. Books(new)
  BY OrderRowBooks
<1> HIDE DEF new
<1>3. OrderTable(db.order)
  BY DEF Counted, LinesFit
<1>4. Lasting(db.order, new.order) /\ StaysFrozen(db.order, new.order)
  BY <1>1, <1>3 DEF Lasting, OrderTable, StaysFrozen, Frozen
<1>5. /\ SameUnitRows(db.inv, new.inv) /\ SameUnitLines(db.line, new.line)
      /\ TasksGoOn(db, new) /\ StayClosed(db.batch, new.batch)
  BY <1>1, SameTasksGoOn, SameStays DEF Counted
<1>6. Honest(db, new)
  BY <1>2, <1>4, <1>5, HonestKept
<1> QED BY <1>6 DEF new

LEMMA SameHonest ==
  ASSUME NEW db, Books(db), Counted(db), ~Unfloored
  PROVE  Honest(db, db)
<1>1. /\ SameUnitRows(db.inv, db.inv) /\ SameUnitLines(db.line, db.line)
      /\ TasksGoOn(db, db) /\ StayClosed(db.batch, db.batch) /\ StaysFrozen(db.order, db.order)
  BY SameTasksGoOn, SameStays DEF Counted
<1>2. Lasting(db.order, db.order)
  BY SameLasts DEF Counted, LinesFit
<1> QED BY <1>1, <1>2, HonestKept

\* the batches of an order that is cancelled let it go
LEMMA BatchesLetGo ==
  ASSUME NEW bt, BatchTable(bt), NEW o
  PROVE  StayClosed(bt, [b \in Batches |-> [bt[b] EXCEPT !.orders = @ \ {o}]])
  BY DEF StayClosed, BatchTable

LEMMA UnwindAllocatedHonest ==
  ASSUME NEW db, Books(db), Counted(db), ~Unfloored, NEW o, Does("cancel")
  PROVE  Honest(db, _unwind_allocated(db, o))
<1> DEFINE new == _unwind_allocated(db, o)
           pending(r) == {t \in db.task : /\ t.status = "PENDING" /\ t.bin = r[2]
                                          /\ t.line = <<o, r[1]>>
                                          /\ db.line[<<o, r[1]>>].allocated > 0}
           n(r) == db.inv[r].allocated - Quantity(pending(r))
<1>1. /\ new.task \subseteq db.task /\ new.order = db.order
      /\ new.batch = [b \in Batches |-> [db.batch[b] EXCEPT !.orders = @ \ {o}]]
      /\ new.line = [l \in Lines |-> IF l[1] = o THEN [db.line[l] EXCEPT !.allocated = 0]
                                     ELSE db.line[l]]
  BY DEF Books, Session, _unwind_allocated
<1>2. new.inv = [r \in Rows |-> [db.inv[r] EXCEPT !.allocated = n(r)]]
  BY DEF Books, Session, _unwind_allocated
<1>3. Books(new)
  BY UnwindAllocatedBooks
<1> HIDE DEF new, n
<1>4. SameUnitRows(db.inv, new.inv)
  <2> SUFFICES ASSUME NEW r \in Rows PROVE new.inv[r].on_hand = db.inv[r].on_hand
    BY DEF SameUnitRows
  <2> DEFINE q == n(r)
  <2>1. new.inv[r] = [db.inv[r] EXCEPT !.allocated = q]
    BY <1>2
  <2> HIDE DEF q
  <2> QED BY <2>1, UnitShelf DEF Books
<1>5. SameUnitLines(db.line, new.line)
  <2> SUFFICES ASSUME NEW l \in Lines PROVE LikeLine(new.line[l], db.line[l])
    BY DEF SameUnitLines
  <2>1. LikeLine([db.line[l] EXCEPT !.allocated = 0], db.line[l]) /\ LikeLine(db.line[l], db.line[l])
    BY UnitRows DEF Books
  <2> QED BY <1>1, <2>1
<1>6. Lasting(db.order, new.order) /\ StaysFrozen(db.order, new.order)
  BY <1>1, SameLasts, SameStays DEF Counted, LinesFit
<1>7. StayClosed(db.batch, new.batch) /\ TasksGoOn(db, new)
  <2>1. BatchTable(db.batch)
    BY DEF Counted
  <2>2. StayClosed(db.batch, [b \in Batches |-> [db.batch[b] EXCEPT !.orders = @ \ {o}]])
    BY <2>1, BatchesLetGo
  <2>3. StayClosed(db.batch, new.batch)
    BY <1>1, <2>2, Zenon
  <2> QED BY <1>1, <2>3, SameTasksGoOn
<1>8. Honest(db, new)
  BY <1>3, <1>4, <1>5, <1>6, <1>7, HonestKept
<1> QED BY <1>8 DEF new

\* what the lines of an order have picked goes to the receiving bin
LEMMA UnwindPickedUnits ==
  ASSUME NEW db, Books(db), ~Unfloored, NEW o \in Orders, NEW new, Books(new),
         \A r \in Rows : new.inv[r].on_hand = db.inv[r].on_hand
                           + IF r[2] = ReceivingBin THEN db.line[<<o, r[1]>>].picked ELSE 0,
         \A l \in Lines : new.line[l].picked = IF l[1] = o THEN 0 ELSE db.line[l].picked
  PROVE  SameUnits(db, new)
<1> SUFFICES ASSUME NEW i \in Items PROVE UnitsIn(new, i) = UnitsIn(db, i) /\ UnitsIn(db, i) \in Nat
  BY DEF SameUnits
<1> DEFINE f == OnHandOf(db.inv, i)
           g == OnHandOf(new.inv, i)
           p == PickedOf(db.line, i)
           q == PickedOf(new.line, i)
<1>1. /\ OnHand(db.inv, i) = Total(f, Bins) /\ NatOn(f, Bins) /\ OnHand(db.inv, i) \in Nat
      /\ OnHand(new.inv, i) = Total(g, Bins) /\ NatOn(g, Bins) /\ OnHand(new.inv, i) \in Nat
      /\ PickedIn(db.line, i) = Total(p, Orders) /\ NatOn(p, Orders) /\ PickedIn(db.line, i) \in Nat
      /\ PickedIn(new.line, i) = Total(q, Orders) /\ NatOn(q, Orders) /\ PickedIn(new.line, i) \in Nat
  BY OnHandUnits, PickedUnits DEF Books
<1>2. IsFiniteSet(Bins) /\ IsFiniteSet(Orders) /\ ReceivingBin \in Bins
  BY RowsOfStock, OrdersAssumption, BinsAssumption
<1>3. \A b \in Bins : g[b] = f[b] + IF b = ReceivingBin THEN p[o] ELSE 0
  <2> SUFFICES ASSUME NEW b \in Bins PROVE g[b] = f[b] + IF b = ReceivingBin THEN p[o] ELSE 0
    OBVIOUS
  <2> DEFINE r == <<i, b>>
  <2>1. r \in Rows /\ r[1] = i /\ r[2] = b
    BY RowsOfStock
  <2>2. g[b] = new.inv[r].on_hand /\ f[b] = db.inv[r].on_hand /\ p[o] = db.line[<<o, i>>].picked
    BY DEF OnHandOf, PickedOf
  <2>3. new.inv[r].on_hand = db.inv[r].on_hand
                           + IF r[2] = ReceivingBin THEN db.line[<<o, r[1]>>].picked ELSE 0
    BY <2>1
  <2> HIDE DEF r, f, g, p
  <2> QED BY <2>1, <2>2, <2>3
<1>4. q[o] = 0 /\ \A a \in Orders : a # o => q[a] = p[a]
  BY DEF PickedOf, Lines
<1> HIDE DEF f, g, p, q
<1>5. /\ \A b \in Bins : f[b] \in Nat /\ g[b] \in Nat
      /\ \A a \in Orders : p[a] \in Nat /\ q[a] \in Nat
  BY <1>1 DEF NatOn
<1>6. Total(g, Bins) = Total(f, Bins) - f[ReceivingBin] + g[ReceivingBin]
  <2>1. \A b \in Bins : b # ReceivingBin => g[b] = f[b]
    BY <1>3, <1>5
  <2> QED BY <1>1, <1>2, <1>5, <2>1, TotalChange
<1>7. Total(q, Orders) = Total(p, Orders) - p[o] + q[o]
  BY <1>1, <1>2, <1>4, <1>5, TotalChange
<1>8. g[ReceivingBin] = f[ReceivingBin] + p[o]
  BY <1>2, <1>3
<1> QED BY <1>1, <1>2, <1>4, <1>5, <1>6, <1>7, <1>8 DEF UnitsIn

LEMMA UnwindPickedHonest ==
  ASSUME NEW db, Books(db), Counted(db), ~Unfloored, NEW o \in Orders, Does("cancel")
  PROVE  Honest(db, [_unwind_picked_or_packed(db, o) EXCEPT !.order[o].status = "CANCELLED"])
<1> DEFINE new == [_unwind_picked_or_packed(db, o) EXCEPT !.order[o].status = "CANCELLED"]
<1>1. /\ new.task = db.task /\ new.order = [db.order EXCEPT ![o].status = "CANCELLED"]
      /\ new.batch = [b \in Batches |-> [db.batch[b] EXCEPT !.orders = @ \ {o}]]
      /\ new.inv = [r \in Rows |-> IF r[2] = ReceivingBin
                               THEN [db.inv[r] EXCEPT !.on_hand = @ + db.line[<<o, r[1]>>].picked]
                               ELSE db.inv[r]]
      /\ new.line = [l \in Lines |-> IF l[1] = o /\ db.line[l].picked > 0
                                THEN [db.line[l] EXCEPT !.picked = 0, !.packed = 0]
                                ELSE db.line[l]]
  BY DEF Books, Session, _unwind_picked_or_packed
<1>2. Books(new)
  BY UnwindPickedBooks, OrderRowBooks
<1> HIDE DEF new
<1>3. ASSUME NEW r \in Rows
      PROVE  new.inv[r].on_hand = db.inv[r].on_hand
               + IF r[2] = ReceivingBin THEN db.line[<<o, r[1]>>].picked ELSE 0
  <2> DEFINE n == db.line[<<o, r[1]>>].picked
             m == db.inv[r].on_hand + n
  <2>1. new.inv[r] = IF r[2] = ReceivingBin THEN [db.inv[r] EXCEPT !.on_hand = m] ELSE db.inv[r]
    BY <1>1
  <2>2. db.inv[r] \in [on_hand : Int, allocated : Int] /\ db.inv[r].on_hand \in Int
    BY RowOfShelf DEF Books
  <2> HIDE DEF n
  <2>3. CASE r[2] = ReceivingBin
    <3>1. new.inv[r] = [db.inv[r] EXCEPT !.on_hand = m]
      BY <2>1, <2>3
    <3> HIDE DEF m
    <3>2. new.inv[r].on_hand = m
      BY <2>2, <3>1
    <3> QED BY <2>3, <3>2 DEF m, n
  <2> QED BY <2>1, <2>2, <2>3
<1>4. ASSUME NEW l \in Lines
      PROVE  /\ new.line[l].row = db.line[l].row
             /\ new.line[l].picked = IF l[1] = o THEN 0 ELSE db.line[l].picked
  <2>1. db.line[l] \in LineRow /\ db.line[l].picked \in Nat
    BY LineRows DEF Books
  <2>2. CASE l[1] = o /\ db.line[l].picked > 0
    <3>1. new.line[l] = [db.line[l] EXCEPT !.picked = 0, !.packed = 0]
      BY <1>1, <2>2
    <3> QED BY <2>1, <2>2, <3>1 DEF LineRow
  <2>3. CASE ~(l[1] = o /\ db.line[l].picked > 0)
    <3>1. new.line[l] = db.line[l]
      BY <1>1, <2>3
    <3> QED BY <2>1, <2>3, <3>1
  <2> QED BY <2>2, <2>3
<1>5. OrderTable(db.order) /\ Lasting(db.order, new.order)
  BY <1>1 DEF Counted, LinesFit, Lasting, OrderTable
<1>6. LinesFit(new) /\ Forward(db.line, new.line)
  <2>1. \A l \in Lines : db.line[l].row # "live" => new.line[l].picked = 0
    BY <1>4 DEF Counted, LinesFit
  <2> QED BY <1>4, <1>5, <2>1, FitKept DEF Counted
<1>7. StayClosed(db.batch, new.batch) /\ TasksGoOn(db, new)
  <2>1. BatchTable(db.batch)
    BY DEF Counted
  <2>2. StayClosed(db.batch, [b \in Batches |-> [db.batch[b] EXCEPT !.orders = @ \ {o}]])
    BY <2>1, BatchesLetGo
  <2>3. StayClosed(db.batch, new.batch)
    BY <1>1, <2>2, Zenon
  <2> QED BY <1>1, <2>3, SameTasksGoOn
<1>8. KeepPicks(db, new)
  <2> SUFFICES ASSUME NEW a \in Orders, ~Frozen(new.order, a)
               PROVE  /\ ~Frozen(db.order, a)
                      /\ \A i \in Items : db.line[<<a, i>>].picked <= new.line[<<a, i>>].picked
    BY DEF KeepPicks
  <2>1. a # o
    BY <1>1, <1>5 DEF Frozen, OrderTable
  <2>2. new.order[a] = db.order[a]
    BY <1>1, <1>5, <2>1 DEF OrderTable
  <2>3. ASSUME NEW i \in Items PROVE db.line[<<a, i>>].picked <= new.line[<<a, i>>].picked
    <3> DEFINE l == <<a, i>>
    <3>1. l \in Lines /\ l[1] # o
      BY <2>1 DEF Lines
    <3> HIDE DEF l
    <3>2. db.line[l].picked <= new.line[l].picked
      BY <1>4, <3>1, LineRows DEF Books
    <3> QED BY <3>2 DEF l
  <2> QED BY <2>2, <2>3 DEF Frozen
<1>9. Counted(new)
  BY <1>2, <1>6, <1>7, <1>8, KeepsCounted DEF Books
<1>10. SameUnits(db, new)
  BY <1>2, <1>3, <1>4, UnwindPickedUnits
<1>11. Honest(db, new)
  BY <1>6, <1>9, <1>10 DEF Honest
<1> QED BY <1>11 DEF new

LEMMA CancelOneHonest ==
  ASSUME NEW db, Books(db), Counted(db), ~Unfloored, NEW o \in Orders, Does("cancel")
  PROVE  Honest(db, CancelOne(db, o))
<1>1. CASE db.order[o].status = "OPEN"
  <2> DEFINE mid == _unwind_allocated(db, o)
  <2>1. CancelOne(db, o) = [mid EXCEPT !.order[o].status = "CANCELLED"]
    BY <1>1 DEF CancelOne
  <2>2. Books(mid) /\ Honest(db, mid)
    BY UnwindAllocatedBooks, UnwindAllocatedHonest
  <2> HIDE DEF mid
  <2>3. /\ Books([mid EXCEPT !.order[o].status = "CANCELLED"])
        /\ Honest(mid, [mid EXCEPT !.order[o].status = "CANCELLED"])
    BY <2>2, OrderRowBooks, StatusHonest DEF Honest
  <2> QED BY <2>1, <2>2, <2>3, HonestTwice
<1>2. CASE db.order[o].status \in {"PICKED", "PACKED"}
  <2>1. CancelOne(db, o) = [_unwind_picked_or_packed(db, o) EXCEPT !.order[o].status = "CANCELLED"]
    BY <1>2 DEF CancelOne
  <2> QED BY <2>1, UnwindPickedHonest
<1>3. CASE db.order[o].status \notin {"OPEN", "PICKED", "PACKED"}
  <2>1. CancelOne(db, o) = [db EXCEPT !.order[o].status = "CANCELLED"]
    BY <1>3 DEF CancelOne
  <2> QED BY <2>1, StatusHonest
<1> QED BY <1>1, <1>2, <1>3

LEMMA CancelledHonest ==
  ASSUME NEW db, Books(db), Counted(db), ~Unfloored, NEW o \in Orders, Does("cancel")
  PROVE  /\ Honest(db, Cancelled(db, o))
         /\ Honest(db, [Cancelled(db, o) EXCEPT !.order[o].status = "REFUNDED"])
<1> DEFINE parent == CancelOne(db, o)
           below  == IF db.order[o].kind = "backorder" THEN {} ELSE BackordersOf(parent, o)
<1>1. Books(parent) /\ Honest(db, parent)
  BY CancelOneBooks, CancelOneHonest
<1>2. Cancelled(db, o) = IF below = {} THEN parent ELSE CancelOne(parent, Min(below))
  BY DEF Cancelled
<1>3. below \subseteq Orders
  BY DEF BackordersOf
<1> HIDE DEF parent, below
<1>4. Books(Cancelled(db, o))
  BY CancelledBooks
<1>5. Honest(db, Cancelled(db, o))
  <2>1. CASE below # {}
    <3> DEFINE c == Min(below)
    <3>1. c \in Orders
      BY <1>3, <2>1, MinOfRows, OrdersAssumption
    <3>2. Cancelled(db, o) = CancelOne(parent, c)
      BY <1>2, <2>1
    <3> HIDE DEF c
    <3>3. Books(CancelOne(parent, c)) /\ Honest(parent, CancelOne(parent, c))
      BY <1>1, <3>1, CancelOneBooks, CancelOneHonest DEF Honest
    <3>4. Honest(db, CancelOne(parent, c))
      BY <1>1, <3>3, HonestTwice
    <3> QED BY <3>2, <3>4
  <2> QED BY <1>1, <1>2, <2>1
<1>6. Honest(db, [Cancelled(db, o) EXCEPT !.order[o].status = "REFUNDED"])
  <2> DEFINE mid == Cancelled(db, o)
  <2>1. Books(mid) /\ Honest(db, mid)
    BY <1>4, <1>5
  <2> HIDE DEF mid
  <2>2. /\ Books([mid EXCEPT !.order[o].status = "REFUNDED"])
        /\ Honest(mid, [mid EXCEPT !.order[o].status = "REFUNDED"])
    BY <2>1, OrderRowBooks, StatusHonest DEF Honest
  <2>3. Honest(db, [mid EXCEPT !.order[o].status = "REFUNDED"])
    BY <2>1, <2>2, HonestTwice
  <2> QED BY <2>3 DEF mid
<1> QED BY <1>5, <1>6

-----------------------------------------------------------------------------
(* An order is reverted: the tasks chosen give back what they picked *)

OfLine(T, l) == {t \in T : t.line = l}

\* on days that balance, a task given back was picked for a line of the order
LEMMA ReleasedPicks ==
  ASSUME NEW db, Books(db), NEW o \in Orders, Backed(db, o), \A t \in db.task : t.item \in Items,
         NEW T, T \subseteq {t \in db.task : t.order = o /\ t.status = "PICKED"}
  PROVE  /\ \A t \in T : t.picked # 0 => t.line = <<o, t.item>>
         /\ \A l \in Lines : l[1] # o => Picked(OfLine(T, l)) = 0
         /\ \A i \in Items :
              LET H == Handed(db.task, o, i)
              IN  /\ Picked(H) = Picked(H \ T) + Picked(OfLine(T, <<o, i>>))
                  /\ Picked(H) \in Nat /\ Picked(H \ T) \in Nat
                  /\ Picked(OfLine(T, <<o, i>>)) \in Nat
<1> DEFINE pk == PicksOf(db.task)
<1>0. TaskTable(db.task) /\ T \subseteq db.task
  BY DEF Books
<1>1. \A S \in SUBSET db.task : Picked(S) = Total(pk, S) /\ NatOn(pk, S) /\ IsFiniteSet(S)
  BY <1>0, PicksTotal
<1>2. \A t \in db.task : pk[t] = t.picked
  BY DEF PicksOf
<1> HIDE DEF pk
<1>3. \A t \in T : t.picked # 0 => t.line = <<o, t.item>>
  BY DEF Backed, Handed
<1>4. ASSUME NEW l \in Lines, l[1] # o PROVE Picked(OfLine(T, l)) = 0
  <2> DEFINE S == OfLine(T, l)
  <2>1. S \in SUBSET db.task
    BY DEF OfLine
  <2>2. \A t \in S : pk[t] = 0
    BY <1>2, <1>3, <1>4 DEF OfLine
  <2> HIDE DEF S
  <2>3. Picked(S) = 0
    BY <1>1, <2>1, <2>2, TotalZero
  <2> QED BY <2>3 DEF S
<1>5. ASSUME NEW i \in Items
      PROVE  LET H == Handed(db.task, o, i)
              IN  /\ Picked(H) = Picked(H \ T) + Picked(OfLine(T, <<o, i>>))
                  /\ Picked(H) \in Nat /\ Picked(H \ T) \in Nat
                  /\ Picked(OfLine(T, <<o, i>>)) \in Nat
  <2> DEFINE H == Handed(db.task, o, i)
             K == H \ T
             G == H \cap T
             S == OfLine(T, <<o, i>>)
  <2>1. H \in SUBSET db.task /\ K \in SUBSET db.task /\ G \in SUBSET db.task /\ S \in SUBSET db.task
    BY DEF Handed, OfLine
  <2>2. G \subseteq S
    BY DEF Backed, OfLine
  <2>3. ASSUME NEW t \in S \ G PROVE pk[t] = 0
    <3> SUFFICES ASSUME t.picked # 0 PROVE FALSE
      BY <1>0, <1>2 DEF OfLine
    <3>1. t.line = <<o, t.item>> /\ t.line = <<o, i>>
      BY <1>3 DEF OfLine
    <3>2. t.item = i
      BY <3>1
    <3> QED BY <3>2 DEF Handed, OfLine
  <2>4. H = K \cup G /\ K \cap G = {}
    OBVIOUS
  <2> HIDE DEF H, K, G, S
  <2>5. /\ Picked(H) = Total(pk, H) /\ Picked(K) = Total(pk, K)
        /\ Picked(G) = Total(pk, G) /\ Picked(S) = Total(pk, S)
        /\ NatOn(pk, H) /\ NatOn(pk, K) /\ NatOn(pk, G) /\ NatOn(pk, S)
        /\ IsFiniteSet(H) /\ IsFiniteSet(K) /\ IsFiniteSet(G) /\ IsFiniteSet(S)
    BY <1>1, <2>1
  <2>6. Total(pk, H) = Total(pk, K) + Total(pk, G)
    BY <2>4, <2>5, TotalSplit
  <2>7. Total(pk, S) = Total(pk, G)
    BY <2>2, <2>3, <2>5, TotalPadded
  <2>8. Total(pk, H) \in Nat /\ Total(pk, K) \in Nat /\ Total(pk, S) \in Nat
    BY <2>5, UnitsFinite
  <2>9. /\ Picked(H) = Picked(K) + Picked(S)
        /\ Picked(H) \in Nat /\ Picked(K) \in Nat /\ Picked(S) \in Nat
    BY <2>5, <2>6, <2>7, <2>8
  <2> QED BY <2>9 DEF H, K, S
<1> QED BY <1>3, <1>4, <1>5

LEMMA ReleasedRow ==
  ASSUME NEW t, DOMAIN t = TaskFields
  PROVE  /\ From(t, [t EXCEPT !.status = "RELEASED"])
         /\ [t EXCEPT !.status = "RELEASED"].status = "RELEASED"
  BY DEF From, TaskFields

LEMMA ReleaseHonest ==
  ASSUME NEW db, Books(db), Counted(db), ~Unfloored, Does("revert"),
         NEW o \in Orders, db.order[o].status \in Ladder,
         NEW T, T \subseteq {t \in db.task : t.order = o /\ t.status = "PICKED"}
  PROVE  Honest(db, ReleasePicks(db, T))
<1> DEFINE new == ReleasePicks(db, T)
           at(r)     == {t \in T : t.item = r[1] /\ t.bin = r[2]}
           ofLine(l) == {t \in T : t.line = l}
           held(l) == AtLeast0(db.line[l].allocated - Quantity(ofLine(l)))
           left(l) == AtLeast0(db.line[l].picked - Picked(ofLine(l)))
           more(r) == db.inv[r].on_hand + Picked(at(r))
<1>1. /\ new.order = db.order /\ new.batch = db.batch
      /\ new.task = {IF t \in T THEN [t EXCEPT !.status = "RELEASED"] ELSE t : t \in db.task}
      /\ new.inv = [r \in Rows |-> [db.inv[r] EXCEPT !.on_hand = more(r)]]
  BY DEF ReleasePicks, Books, Session
<1>2. new.line = [l \in Lines |-> [db.line[l] EXCEPT !.picked = left(l), !.allocated = held(l)]]
  BY LinesKept DEF ReleasePicks, Books, Session
<1>3. Books(new)
  BY ReleaseBooks
<1>4. T \subseteq db.task /\ TaskTable(T) /\ \A l : ofLine(l) \in SUBSET T
  BY TasksFewer DEF Books
<1> HIDE DEF new, held
<1>5. \A r \in Rows : new.inv[r].on_hand = db.inv[r].on_hand + Picked({t \in T : t.item = r[1] /\ t.bin = r[2]})
  <2> SUFFICES ASSUME NEW r \in Rows PROVE new.inv[r].on_hand = more(r)
    OBVIOUS
  <2> DEFINE m == more(r)
  <2>1. new.inv[r] = [db.inv[r] EXCEPT !.on_hand = m]
    BY <1>1
  <2>2. db.inv[r] \in [on_hand : Int, allocated : Int]
    BY RowOfShelf DEF Books
  <2> HIDE DEF m
  <2> QED BY <2>1, <2>2 DEF m
<1>6. \A l \in Lines : new.line[l].picked = AtLeast0(db.line[l].picked - Picked({t \in T : t.line = l}))
                       /\ new.line[l].row = db.line[l].row
  <2> SUFFICES ASSUME NEW l \in Lines
               PROVE  /\ new.line[l].picked = left(l)
                      /\ new.line[l].row = db.line[l].row
    OBVIOUS
  <2> DEFINE p == left(l)
             q == held(l)
  <2>1. new.line[l] = [db.line[l] EXCEPT !.picked = p, !.allocated = q]
    BY <1>2
  <2>2. DOMAIN db.line[l] = {"row", "ordered", "allocated", "picked", "packed", "shipped", "received"}
    BY LinesKept DEF Books
  <2> HIDE DEF p, q
  <2> QED BY <2>1, <2>2 DEF p
<1> DEFINE n(l) == Picked({t \in T : t.line = l})
<1>7. \A l \in Lines : n(l) \in Nat
  BY <1>4, TaskSums
<1>8. /\ \A l \in Lines : db.line[l].picked \in Nat
      /\ \A l \in Lines : new.line[l].picked = AtLeast0(db.line[l].picked - n(l)) /\ new.line[l].row = db.line[l].row
  BY <1>6, LineRows DEF Books
<1> HIDE DEF n
<1>9. LinesFit(new) /\ Forward(db.line, new.line)
  <2>1. \A l \in Lines : db.line[l].row # "live" => new.line[l].picked = 0
    BY <1>7, <1>8 DEF AtLeast0, Counted, LinesFit
  <2>2. Lasting(db.order, new.order)
    BY <1>1, SameLasts DEF Counted, LinesFit
  <2> QED BY <1>8, <2>1, <2>2, FitKept DEF Counted
<1>10. \A s \in new.task : \E t \in db.task : /\ From(t, s)
                                              /\ s.status = "PICKED" => s = t /\ t \notin T
  <2> SUFFICES ASSUME NEW t \in db.task,
                      NEW s, s = IF t \in T THEN [t EXCEPT !.status = "RELEASED"] ELSE t
               PROVE  /\ From(t, s)
                      /\ s.status = "PICKED" => s = t /\ t \notin T
    BY <1>1
  <2>1. DOMAIN t = TaskFields
    BY DEF Books, TaskTable, TaskRow
  <2> QED BY <2>1, ReleasedRow, SameFrom
<1>11. \A s \in new.task : Tied(new.line, s) /\ HandPicked(new.batch, s)
  <2> SUFFICES ASSUME NEW s \in new.task, NEW t \in db.task, From(t, s)
               PROVE  Tied(new.line, s) /\ HandPicked(new.batch, s)
    BY <1>10
  <2>1. Tied(db.line, t) /\ HandPicked(db.batch, t)
    BY DEF Counted
  <2> QED BY <1>1, <1>9, <2>1, TiedKept DEF From, HandPicked
<1>12. ASSUME Exact
       PROVE  /\ Backed(db, o)
              /\ \A t \in T : t.picked # 0 => t.line \in Lines
              /\ \A l \in Lines : n(l) <= db.line[l].picked /\ (l[1] # o => n(l) = 0)
              /\ \A i \in Items : LET H == Handed(db.task, o, i)
                                  IN  /\ Picked(H) = Picked(H \ T) + n(<<o, i>>)
                                      /\ Picked(H) \in Nat /\ Picked(H \ T) \in Nat
                                      /\ Picked(H) <= db.line[<<o, i>>].picked
  <2>1. Backed(db, o)
    BY <1>12 DEF Counted, Backing, Frozen, Ladder
  <2>2. \A t \in db.task : t.item \in Items
    BY DEF Counted, Tied
  <2>3. /\ \A t \in T : t.picked # 0 => t.line = <<o, t.item>>
        /\ \A l \in Lines : l[1] # o => n(l) = 0
    BY <2>1, <2>2, ReleasedPicks DEF n, OfLine
  <2>4. ASSUME NEW i \in Items
        PROVE  LET H == Handed(db.task, o, i)
               IN  /\ Picked(H) = Picked(H \ T) + n(<<o, i>>)
                   /\ Picked(H) \in Nat /\ Picked(H \ T) \in Nat
                   /\ Picked(H) <= db.line[<<o, i>>].picked
    <3> DEFINE H == Handed(db.task, o, i)
    <3>1. Picked(H) <= db.line[<<o, i>>].picked
      BY <2>1 DEF Backed
    <3>2. /\ Picked(H) = Picked(H \ T) + Picked(OfLine(T, <<o, i>>))
          /\ Picked(H) \in Nat /\ Picked(H \ T) \in Nat
      <4> HIDE DEF at, ofLine, left, more
      <4>1. \A j \in Items : LET K == Handed(db.task, o, j)
                             IN  /\ Picked(K) = Picked(K \ T) + Picked(OfLine(T, <<o, j>>))
                                 /\ Picked(K) \in Nat /\ Picked(K \ T) \in Nat
                                 /\ Picked(OfLine(T, <<o, j>>)) \in Nat
        BY <2>1, <2>2, ReleasedPicks, Zenon
      <4> QED BY <4>1, Zenon
    <3>3. Picked(OfLine(T, <<o, i>>)) = n(<<o, i>>)
      BY DEF n, OfLine
    <3> HIDE DEF H
    <3>4. /\ Picked(H) = Picked(H \ T) + n(<<o, i>>)
          /\ Picked(H) \in Nat /\ Picked(H \ T) \in Nat /\ Picked(H) <= db.line[<<o, i>>].picked
      BY <3>1, <3>2, <3>3
    <3> QED BY <3>4 DEF H
  <2>5. ASSUME NEW l \in Lines PROVE n(l) <= db.line[l].picked
    <3>1. CASE l[1] # o
      BY <1>8, <2>3, <3>1
    <3>2. CASE l[1] = o
      <4> DEFINE H == Handed(db.task, o, l[2])
      <4>1. l = <<o, l[2]>> /\ l[2] \in Items
        BY <3>2 DEF Lines
      <4>2. /\ Picked(H) = Picked(H \ T) + n(l)
            /\ Picked(H) \in Nat /\ Picked(H \ T) \in Nat /\ Picked(H) <= db.line[l].picked
        BY <2>4, <4>1
      <4> HIDE DEF H
      <4> QED BY <1>7, <1>8, <4>2
    <3> QED BY <3>1, <3>2
  <2>6. \A t \in T : t.picked # 0 => t.line \in Lines
    <3> SUFFICES ASSUME NEW t \in T, t.picked # 0 PROVE t.line \in Lines
      OBVIOUS
    <3>1. t.line = <<o, t.item>> /\ t.item \in Items
      BY <1>4, <2>2, <2>3
    <3> QED BY <3>1 DEF Lines
  <2> QED BY <2>1, <2>3, <2>4, <2>5, <2>6
<1>13. Backing(new)
  <2> SUFFICES ASSUME Exact, NEW p \in Orders, ~Frozen(new.order, p)
               PROVE  Backed(new, p)
    BY DEF Backing
  <2>1. Backed(db, p)
    BY <1>1 DEF Counted, Backing
  <2>2. \A i \in Items : /\ Handed(new.task, p, i) \subseteq Handed(db.task, p, i)
                         /\ Handed(new.task, p, i) \subseteq Handed(db.task, p, i) \ T
    BY <1>10 DEF Handed
  <2>3. CASE p # o
    <3>1. ASSUME NEW i \in Items
          PROVE  new.line[<<p, i>>].picked \in Nat /\ db.line[<<p, i>>].picked <= new.line[<<p, i>>].picked
      <4> DEFINE l == <<p, i>>
      <4>1. l \in Lines /\ l[1] # o
        BY <2>3 DEF Lines
      <4> HIDE DEF l
      <4>2. n(l) = 0
        BY <1>12, <4>1
      <4>3. new.line[l].picked \in Nat /\ db.line[l].picked <= new.line[l].picked
        BY <1>8, <4>1, <4>2 DEF AtLeast0
      <4> QED BY <4>3 DEF l
    <3> QED BY <2>1, <2>2, <3>1, BackedKept
  <2>4. CASE p = o
    <3> SUFFICES ASSUME NEW i \in Items
                 PROVE  LET S == Handed(new.task, o, i)
                        IN  /\ \A t \in S : t.line = <<o, i>>
                            /\ Picked(S) <= new.line[<<o, i>>].picked
      BY <2>4 DEF Backed
    <3> DEFINE S == Handed(new.task, o, i)
               H == Handed(db.task, o, i)
               K == H \ T
               l == <<o, i>>
    <3>1. \A t \in S : t.line = l
      BY <2>1, <2>2, <2>4 DEF Backed
    <3>2. S \subseteq K /\ K \subseteq db.task /\ l \in Lines
      BY <2>2, <2>4 DEF Handed, Lines
    <3>3. /\ Picked(H) = Picked(K) + n(l)
          /\ Picked(H) \in Nat /\ Picked(K) \in Nat /\ Picked(H) <= db.line[l].picked
      BY <1>12
    <3> HIDE DEF S, H, K, l
    <3>4. Picked(S) <= Picked(K) /\ Picked(S) \in Nat
      <4> DEFINE pk == PicksOf(db.task)
      <4>1. S \in SUBSET db.task /\ K \in SUBSET db.task /\ TaskTable(db.task)
        BY <3>2 DEF Books
      <4>2. Picked(S) = Total(pk, S) /\ Picked(K) = Total(pk, K) /\ NatOn(pk, K) /\ IsFiniteSet(K)
        BY <4>1, PicksTotal
      <4> HIDE DEF pk
      <4> QED BY <3>2, <4>2, TotalSubset
    <3>5. Picked(S) <= new.line[l].picked
      BY <1>7, <1>8, <3>2, <3>3, <3>4 DEF AtLeast0
    <3> QED BY <3>1, <3>5 DEF S, l
  <2> QED BY <2>3, <2>4
<1>14. Counted(new)
  BY <1>1, <1>9, <1>11, <1>13 DEF Counted
<1>15. SameUnits(db, new)
  <2> SUFFICES ASSUME NEW i \in Items
               PROVE  /\ UnitsIn(new, i) >= UnitsIn(db, i)
                      /\ Exact => UnitsIn(new, i) = UnitsIn(db, i)
    BY DEF SameUnits
  <2>1. \A t \in T : Tied(db.line, t)
    BY DEF Counted
  <2>2. Exact => /\ \A l \in Lines : Picked({t \in T : t.line = l}) <= db.line[l].picked
                 /\ \A t \in T : t.picked # 0 => t.line \in Lines
    BY <1>12 DEF n
  <2>3. /\ T \subseteq db.task
        /\ \A l \in Lines : new.line[l].picked = AtLeast0(db.line[l].picked - Picked({t \in T : t.line = l}))
    BY <1>4, <1>6
  <2>4. /\ UnitsIn(new, i) >= UnitsIn(db, i)
        /\ /\ \A l \in Lines : Picked({t \in T : t.line = l}) <= db.line[l].picked
           /\ \A t \in T : t.picked # 0 => t.line \in Lines
           => UnitsIn(new, i) = UnitsIn(db, i)
    BY <1>3, <1>5, <2>1, <2>3, GivesBack, Zenon
  <2> QED BY <2>2, <2>4
<1>16. Honest(db, new)
  BY <1>9, <1>14, <1>15 DEF Honest
<1> QED BY <1>16 DEF new

-----------------------------------------------------------------------------
(* A task is picked: confirm_pick and short_pick *)

\* what the lines of an item are given, order by order
GainIn(gain, i) == [o \in Orders |-> IF <<o, i>> \in DOMAIN gain THEN gain[<<o, i>>] ELSE 0]

LEMMA AddedLine ==
  ASSUME NEW db, LineTable(db.line), NEW gain, \A l \in DOMAIN gain : gain[l] \in Nat, NEW l \in Lines
  PROVE  /\ AddPicked(db, gain)[l].row = db.line[l].row
         /\ AddPicked(db, gain)[l].picked
              = db.line[l].picked + IF l \in DOMAIN gain /\ db.line[l].row = "live" THEN gain[l] ELSE 0
<1>1. db.line[l] \in LineRow /\ db.line[l].picked \in Nat
  BY LineRows
<1>2. CASE l \in DOMAIN gain /\ db.line[l].row = "live"
  <2> DEFINE p == db.line[l].picked + gain[l]
  <2>1. AddPicked(db, gain)[l] = [db.line[l] EXCEPT !.picked = p]
    BY <1>2 DEF AddPicked
  <2>2. p = db.line[l].picked + IF l \in DOMAIN gain /\ db.line[l].row = "live" THEN gain[l] ELSE 0
    BY <1>2
  <2> HIDE DEF p
  <2> QED BY <1>1, <2>1, <2>2 DEF LineRow
<1>3. CASE ~(l \in DOMAIN gain /\ db.line[l].row = "live")
  <2>1. AddPicked(db, gain)[l] = db.line[l]
    BY <1>3 DEF AddPicked
  <2> QED BY <1>1, <1>3, <2>1
<1> QED BY <1>2, <1>3

LEMMA AddedUnits ==
  ASSUME NEW db, LineTable(db.line), NEW gain, \A l \in DOMAIN gain : gain[l] \in Nat,
         LineTable(AddPicked(db, gain)), NEW i \in Items,
         \A l \in DOMAIN gain : l \in Lines /\ db.line[l].row = "live"
  PROVE  /\ PickedIn(AddPicked(db, gain), i) = PickedIn(db.line, i) + Total(GainIn(gain, i), Orders)
         /\ NatOn(GainIn(gain, i), Orders) /\ Total(GainIn(gain, i), Orders) \in Nat
<1> DEFINE f == PickedOf(db.line, i)
           g == GainIn(gain, i)
           h == PickedOf(AddPicked(db, gain), i)
<1>1. /\ PickedIn(db.line, i) = Total(f, Orders) /\ NatOn(f, Orders)
      /\ PickedIn(AddPicked(db, gain), i) = Total(h, Orders)
  BY PickedUnits
<1>2. NatOn(g, Orders)
  BY DEF NatOn, GainIn
<1>3. ASSUME NEW o \in Orders PROVE h[o] = f[o] + g[o]
  <2> DEFINE l == <<o, i>>
  <2>1. l \in Lines
    BY DEF Lines
  <2>2. h[o] = AddPicked(db, gain)[l].picked /\ f[o] = db.line[l].picked
        /\ g[o] = IF l \in DOMAIN gain THEN gain[l] ELSE 0
    BY DEF PickedOf, GainIn
  <2> HIDE DEF f, g, h, l
  <2>3. AddPicked(db, gain)[l].picked
          = db.line[l].picked + IF l \in DOMAIN gain /\ db.line[l].row = "live" THEN gain[l] ELSE 0
    BY <2>1, AddedLine
  <2> QED BY <2>2, <2>3
<1> HIDE DEF f, g, h
<1>4. IsFiniteSet(Orders)
  BY OrdersAssumption
<1>5. Total(h, Orders) = Total(f, Orders) + Total(g, Orders)
  BY <1>1, <1>2, <1>3, <1>4, TotalPlus
<1>6. Total(g, Orders) \in Nat
  BY <1>2, <1>4, UnitsFinite
<1> QED BY <1>1, <1>2, <1>5, <1>6 DEF g

\* at most q units leave the row of the task
LEMMA TakenUnitsOf ==
  ASSUME NEW db, Shelf(db.inv), ~Unfloored, NEW t, TaskRow(t), t.item \in Items, t.bin \in Bins,
         NEW q \in Nat, Shelf(TakeFromShelf(db, t, q)), NEW i \in Items
  PROVE  OnHand(TakeFromShelf(db, t, q), i) >= OnHand(db.inv, i) - (IF i = t.item THEN q ELSE 0)
<1> DEFINE r == <<t.item, t.bin>>
           new == TakeFromShelf(db, t, q)
           m == AtLeast0(db.inv[r].on_hand - q)
           a == AtLeast0(db.inv[r].allocated - t.qty)
           row == [on_hand |-> m, allocated |-> a]
<1>1. r \in Rows /\ r[1] = t.item
  BY RowsOfStock
<1>2. db.inv[r] \in [on_hand : Int, allocated : Int] /\ db.inv[r].on_hand \in Nat
  BY <1>1, RowOfShelf
<1>3. new = [db.inv EXCEPT ![r] = row] /\ DOMAIN db.inv = Rows
  <2>1. DOMAIN db.inv = Rows
    BY DEF Shelf, InventoryType
  <2> QED BY <1>1, <1>2, <2>1 DEF TakeFromShelf, take_floored, release_floored
<1>4. m >= db.inv[r].on_hand - q /\ m \in Int
  BY <1>2 DEF AtLeast0
<1> HIDE DEF m, a, r, new
<1>5. new[r].on_hand = m /\ \A s \in Rows : s # r => new[s].on_hand = db.inv[s].on_hand
  BY <1>1, <1>3
<1>6. OnHand(new, i) = OnHand(db.inv, i) + IF i = r[1] THEN new[r].on_hand - db.inv[r].on_hand ELSE 0
  <2>1. Shelf(new)
    BY DEF new
  <2> QED BY <1>1, <1>5, <2>1, OneRow
<1>7. OnHand(db.inv, i) \in Nat
  BY OnHandUnits
<1>8. OnHand(new, i) >= OnHand(db.inv, i) - (IF i = t.item THEN q ELSE 0)
  BY <1>1, <1>2, <1>4, <1>5, <1>6, <1>7
<1> QED BY <1>8 DEF new

LEMMA WrittenRow ==
  ASSUME HandheldPicks, NEW s, DOMAIN s = TaskFields, NEW a, NEW b, NEW c
  PROVE  From(s, [s EXCEPT !.status = a, !.picked = b, !.shorted = c])
  BY DEF From, TaskFields

LEMMA WrittenTasks ==
  ASSUME HandheldPicks, NEW db, TaskTable(db.task), NEW t, NEW row, NEW new, new.task = WriteTask(db, t, row)
  PROVE  TasksGoOn(db, new)
<1> SUFFICES ASSUME NEW s \in db.task
             PROVE  From(s, IF s.id = t.id
                            THEN [s EXCEPT !.status = row.status, !.picked = row.picked,
                                           !.shorted = @ \cup row.shorted]
                            ELSE s)
  BY DEF TasksGoOn, WriteTask
<1>1. DOMAIN s = TaskFields
  BY DEF TaskTable, TaskRow
<1>2. From(s, [s EXCEPT !.status = row.status, !.picked = row.picked, !.shorted = s.shorted \cup row.shorted])
  <2> DEFINE c == s.shorted \cup row.shorted
             a == row.status
             b == row.picked
  <2> HIDE DEF a, b, c
  <2>1. From(s, [s EXCEPT !.status = a, !.picked = b, !.shorted = c])
    BY <1>1, WrittenRow
  <2> QED BY <2>1 DEF a, b, c
<1> QED BY <1>2, SameFrom

\* what leaves the shelf is on the lines the task stands for
LEMMA PickHonest ==
  ASSUME NEW db, Books(db), Counted(db), ~Unfloored, HandheldPicks,
         NEW t, TaskRow(t), Tied(db.line, t), NEW q \in Nat,
         NEW gain, \A l \in DOMAIN gain : gain[l] \in Nat,
         NoneGone(db.line) => /\ \A l \in DOMAIN gain : l \in Lines /\ db.line[l].row = "live"
                              /\ q <= Total(GainIn(gain, t.item), Orders),
         NEW row, NEW new, Books(new), new.order = db.order, new.batch = db.batch,
         new.inv = TakeFromShelf(db, t, q), new.line = AddPicked(db, gain), new.task = WriteTask(db, t, row)
  PROVE  Honest(db, new)
<1>1. \A l \in Lines : /\ new.line[l].row = db.line[l].row
                       /\ db.line[l].row # "live" => new.line[l].picked = db.line[l].picked
  <2> SUFFICES ASSUME NEW l \in Lines
               PROVE  /\ new.line[l].row = db.line[l].row
                      /\ db.line[l].row # "live" => new.line[l].picked = db.line[l].picked
    OBVIOUS
  <2>1. /\ new.line[l].row = db.line[l].row
        /\ new.line[l].picked
             = db.line[l].picked + IF l \in DOMAIN gain /\ db.line[l].row = "live" THEN gain[l] ELSE 0
    BY AddedLine DEF Books
  <2>2. db.line[l].picked \in Nat
    BY LineRows DEF Books
  <2> QED BY <2>1, <2>2
<1>2. LinesFit(new) /\ Forward(db.line, new.line)
  <2>1. \A l \in Lines : db.line[l].row # "live" => new.line[l].picked = 0
    BY <1>1 DEF Counted, LinesFit
  <2>2. Lasting(db.order, new.order)
    BY SameLasts DEF Counted, LinesFit
  <2> QED BY <1>1, <2>1, <2>2, FitKept DEF Counted
<1>3. Counted(new)
  <2>1. TasksGoOn(db, new)
    BY WrittenTasks DEF Books
  <2>2. StayClosed(db.batch, new.batch)
    BY SameStays DEF Counted
  <2>3. ~Exact
    BY DEF Exact
  <2> QED BY <1>2, <2>1, <2>2, <2>3, KeepsCounted DEF Books
<1>4. ASSUME Sound(new.line) PROVE SameUnits(db, new)
  <2>1. NoneGone(db.line)
    BY <1>2, <1>4, ForwardSound DEF Sound
  <2> SUFFICES ASSUME NEW i \in Items PROVE UnitsIn(new, i) >= UnitsIn(db, i) /\ ~Exact
    BY DEF SameUnits
  <2>2. t.item \in Items /\ t.bin \in Bins
    BY DEF Tied
  <2>3. OnHand(new.inv, i) >= OnHand(db.inv, i) - (IF i = t.item THEN q ELSE 0)
    BY <2>2, TakenUnitsOf DEF Books
  <2>4. /\ PickedIn(new.line, i) = PickedIn(db.line, i) + Total(GainIn(gain, i), Orders)
        /\ Total(GainIn(gain, i), Orders) \in Nat
    BY <2>1, AddedUnits DEF Books
  <2>5. /\ OnHand(db.inv, i) \in Nat /\ OnHand(new.inv, i) \in Nat
        /\ PickedIn(db.line, i) \in Nat /\ PickedIn(new.line, i) \in Nat
    BY OnHandUnits, PickedUnits DEF Books
  <2>6. i = t.item => q <= Total(GainIn(gain, i), Orders)
    BY <2>1
  <2>7. UnitsIn(new, i) >= UnitsIn(db, i)
    BY <2>3, <2>4, <2>5, <2>6 DEF UnitsIn
  <2> QED BY <2>7 DEF Exact
<1> QED BY <1>2, <1>3, <1>4 DEF Honest

\* a task for one line
LEMMA LineGain ==
  ASSUME NEW db, NEW t, Tied(db.line, t), NoneGone(db.line), NEW q \in Nat,
         NEW gain, gain = [l \in {t.line} |-> q]
  PROVE  /\ \A l \in DOMAIN gain : l \in Lines /\ db.line[l].row = "live"
         /\ q <= Total(GainIn(gain, t.item), Orders)
<1>1. t.line \in Lines /\ db.line[t.line].row = "live"
  BY DEF Tied
<1>2. t.line[2] = t.item
  BY <1>1, OrdersAssumption DEF Tied, Lines
<1> DEFINE o == t.line[1]
           g == GainIn(gain, t.item)
<1>3. o \in Orders /\ t.line = <<o, t.item>>
  BY <1>1, <1>2 DEF Lines
<1>4. g[o] = q
  BY <1>3 DEF GainIn
<1>5. NatOn(g, Orders)
  BY DEF GainIn, NatOn
<1> HIDE DEF g, o
<1>6. q <= Total(g, Orders)
  BY <1>3, <1>4, <1>5, TotalAtLeast, OrdersAssumption
<1> QED BY <1>1, <1>6 DEF g

\* a task for the shares of several lines
LEMMA ShareGain ==
  ASSUME NEW db, Counted(db), NEW t, TaskRow(t), Tied(db.line, t), NoneGone(db.line),
         NEW share, NatOn(share, DOMAIN t.share), NEW gain, gain = Shared(db, t, share)
  PROVE  /\ \A l \in DOMAIN gain : l \in Lines /\ db.line[l].row = "live"
         /\ Total(GainIn(gain, t.item), Orders) = Total(share, DOMAIN t.share)
<1> DEFINE D == DOMAIN t.share
           g == GainIn(gain, t.item)
<1>1. WithLine(db, t) = D
  <2>1. \A s \in db.task : s.lost = {}
    BY DEF Counted, Tied
  <2> QED BY <2>1 DEF WithLine
<1>2. D \subseteq Orders /\ IsFiniteSet(Orders)
  BY OrdersAssumption DEF TaskRow, Shares
<1>3. \A o \in D : <<o, t.item>> \in Lines /\ db.line[<<o, t.item>>].row = "live"
  BY DEF Tied
<1>4. gain = [l \in {<<o, t.item>> : o \in D} |-> share[l[1]]]
  BY <1>1 DEF Shared
<1>5. \A o \in Orders : g[o] = IF o \in D THEN share[o] ELSE 0
  <2> SUFFICES ASSUME NEW o \in Orders PROVE g[o] = IF o \in D THEN share[o] ELSE 0
    OBVIOUS
  <2> HIDE DEF D
  <2>1. <<o, t.item>> \in DOMAIN gain <=> o \in D
    BY <1>4
  <2>2. o \in D => gain[<<o, t.item>>] = share[o]
    BY <1>4
  <2> QED BY <2>1, <2>2 DEF GainIn
<1> HIDE DEF D, g
<1>6. /\ NatOn(g, D) /\ \A o \in Orders \ D : g[o] = 0
      /\ \A o \in D : g[o] = share[o]
  BY <1>2, <1>5 DEF NatOn, D
<1>7. Total(g, Orders) = Total(g, D) /\ Total(g, D) = Total(share, D)
  BY <1>2, <1>6, TotalPadded, TotalSame
<1>8. \A l \in DOMAIN gain : l \in Lines /\ db.line[l].row = "live"
  BY <1>3, <1>4
<1> QED BY <1>7, <1>8 DEF g, D

\* short_pick gives away all that was scanned, first in, first out
LEMMA GivenUnits ==
  ASSUME NEW t, TaskRow(t), NEW q \in Nat, q <= Total(t.share, DOMAIN t.share)
  PROVE  q <= Total(Given(t, q), DOMAIN t.share)
<1> DEFINE D == DOMAIN t.share
           given == Given(t, q)
<1>1. D \subseteq Orders /\ NatOn(t.share, D)
  BY DEF TaskRow, Shares, NatOn
<1>2. D \subseteq Nat /\ IsFiniteSet(D)
  BY <1>1, OrdersAssumption, FS_Subset
<1>3. NatOn(given, D)
  BY GivenShares DEF NatOn
<1>4. ASSUME NEW o \in D
      PROVE  LET left == q - Total(t.share, {c \in D : c < o})
             IN  given[o] = IF left < 0 THEN 0 ELSE IF t.share[o] < left THEN t.share[o] ELSE left
  <2> DEFINE P == {c \in D : c # o /\ c < o}
             Q == {c \in D : c < o}
             left == q - Total(t.share, Q)
  <2>1. given[o] = Least(t.share[o], AtLeast0(q - Total(t.share, P)))
    BY DEF Given, Walk
  <2>2. P = Q
    BY <1>2
  <2>3. Q \subseteq D
    OBVIOUS
  <2>4. t.share[o] \in Nat
    BY <1>1 DEF NatOn
  <2> HIDE DEF P, Q, D, given
  <2>5. Total(t.share, Q) \in Nat
    BY <1>1, <1>2, <2>3, TotalSubset
  <2>6. given[o] = IF left < 0 THEN 0 ELSE IF t.share[o] < left THEN t.share[o] ELSE left
    <3>1. left \in Int
      BY <2>5
    <3>2. given[o] = Least(t.share[o], AtLeast0(left))
      BY <2>1, <2>2
    <3> HIDE DEF left
    <3> QED BY <2>4, <3>1, <3>2 DEF Least, AtLeast0
  <2> QED BY <2>6 DEF Q
<1> HIDE DEF D, given
<1>5. q <= Total(t.share, D)
  BY DEF D
<1> DEFINE cap == t.share
<1>6. NatOn(cap, D) /\ q <= Total(cap, D)
      /\ \A o \in D : LET left == q - Total(cap, {c \in D : c < o})
                      IN  given[o] = IF left < 0 THEN 0 ELSE IF cap[o] < left THEN cap[o] ELSE left
  BY <1>1, <1>4, <1>5
<1> HIDE DEF cap
<1>7. q <= Total(given, D)
  BY <1>2, <1>3, <1>6, HandedOut
<1> QED BY <1>7 DEF D, given

LEMMA PicksHonest ==
  ASSUME NEW db, Books(db), Counted(db), ~Unfloored, HandheldPicks,
         NEW t, TaskRow(t), Tied(db.line, t), NEW q \in Nat, q <= t.qty
  PROVE  Honest(db, confirm_pick(db, t, q)) /\ Honest(db, short_pick(db, t, q))
<1> DEFINE one == [l \in {t.line} |-> q]
<1>1. \A l \in DOMAIN one : one[l] \in Nat
  OBVIOUS
<1>2. NoneGone(db.line) => /\ \A l \in DOMAIN one : l \in Lines /\ db.line[l].row = "live"
                           /\ q <= Total(GainIn(one, t.item), Orders)
  <2> DEFINE gain == one
  <2>1. gain = [l \in {t.line} |-> q]
    OBVIOUS
  <2> HIDE DEF gain
  <2>2. NoneGone(db.line) => /\ \A l \in DOMAIN gain : l \in Lines /\ db.line[l].row = "live"
                             /\ q <= Total(GainIn(gain, t.item), Orders)
    BY <2>1, LineGain
  <2> QED BY <2>2 DEF gain
<1>3. NoneGone(db.line) /\ IsWaveTask(t) => Total(t.share, DOMAIN t.share) = t.qty /\ t.qty \in Nat
  BY DEF Tied, TaskRow, IsWaveTask
<1>4. NatOn(t.share, DOMAIN t.share) /\ NatOn(Given(t, q), DOMAIN t.share)
  BY GivenShares DEF NatOn, TaskRow, Shares
<1>5. Books(confirm_pick(db, t, q)) /\ Books(short_pick(db, t, q))
  BY PickBooks
<1>6. ASSUME NEW share, NatOn(share, DOMAIN t.share), NEW new, Books(new), NEW row,
             NoneGone(db.line) /\ IsWaveTask(t) => q <= Total(share, DOMAIN t.share),
             new.order = db.order, new.batch = db.batch, new.inv = TakeFromShelf(db, t, q),
             new.line = AddPicked(db, IF IsWaveTask(t) THEN Shared(db, t, share) ELSE one),
             new.task = WriteTask(db, t, row)
      PROVE  Honest(db, new)
  <2>1. CASE IsWaveTask(t)
    <3> DEFINE gain == Shared(db, t, share)
    <3>1. \A l \in DOMAIN gain : gain[l] \in Nat
      BY <1>6, SharedGain DEF NatOn
    <3>2. gain = Shared(db, t, share) /\ new.line = AddPicked(db, gain)
      BY <1>6, <2>1
    <3> HIDE DEF gain
    <3>3. NoneGone(db.line) => /\ \A l \in DOMAIN gain : l \in Lines /\ db.line[l].row = "live"
                               /\ q <= Total(GainIn(gain, t.item), Orders)
      <4> SUFFICES ASSUME NoneGone(db.line)
                   PROVE  /\ \A l \in DOMAIN gain : l \in Lines /\ db.line[l].row = "live"
                          /\ q <= Total(GainIn(gain, t.item), Orders)
        OBVIOUS
      <4>1. /\ \A l \in DOMAIN gain : l \in Lines /\ db.line[l].row = "live"
            /\ Total(GainIn(gain, t.item), Orders) = Total(share, DOMAIN t.share)
        BY <1>6, <3>2, ShareGain
      <4> QED BY <1>6, <2>1, <4>1
    <3> HIDE DEF one
    <3> QED BY <1>6, <3>1, <3>2, <3>3, PickHonest
  <2>2. CASE ~IsWaveTask(t)
    <3>1. new.line = AddPicked(db, one)
      BY <1>6, <2>2
    <3> HIDE DEF one
    <3> QED BY <1>1, <1>2, <1>6, <3>1, PickHonest
  <2> QED BY <2>1, <2>2
<1> HIDE DEF one
<1>7. Honest(db, confirm_pick(db, t, q))
  <2> DEFINE new == confirm_pick(db, t, q)
             row == [status |-> "PICKED", picked |-> q, shorted |-> {}]
             share == t.share
  <2>1. /\ new.order = db.order /\ new.batch = db.batch
        /\ new.inv = TakeFromShelf(db, t, q)
        /\ new.line = AddPicked(db, IF IsWaveTask(t) THEN Shared(db, t, share) ELSE one)
        /\ new.task = WriteTask(db, t, row)
    BY DEF confirm_pick, Books, Session, one
  <2>2. NatOn(share, DOMAIN t.share) /\ (NoneGone(db.line) /\ IsWaveTask(t) => q <= Total(share, DOMAIN t.share))
    BY <1>3, <1>4
  <2>3. Books(new)
    BY <1>5
  <2> HIDE DEF new, row, share
  <2>4. Honest(db, new)
    BY <1>6, <2>1, <2>2, <2>3
  <2> QED BY <2>4 DEF new
<1>8. Honest(db, short_pick(db, t, q))
  <2> DEFINE new == short_pick(db, t, q)
             share == Given(t, q)
             row == [status |-> "SHORT", picked |-> q,
                     shorted |-> {o \in WithLine(db, t) : share[o] < t.share[o]}]
  <2>1. /\ new.order = db.order /\ new.batch = db.batch
        /\ new.inv = TakeFromShelf(db, t, q)
        /\ new.line = AddPicked(db, IF IsWaveTask(t) THEN Shared(db, t, share) ELSE one)
        /\ new.task = WriteTask(db, t, row)
    BY DEF short_pick, Books, Session, one
  <2>2. NatOn(share, DOMAIN t.share) /\ (NoneGone(db.line) /\ IsWaveTask(t) => q <= Total(share, DOMAIN t.share))
    BY <1>3, <1>4, GivenUnits
  <2>3. Books(new)
    BY <1>5
  <2> HIDE DEF new, row, share
  <2>4. Honest(db, new)
    BY <1>6, <2>1, <2>2, <2>3
  <2> QED BY <2>4 DEF new
<1> QED BY <1>7, <1>8

-----------------------------------------------------------------------------
(* A batch or a wave is made *)

\* the tasks of a new batch stand for the lines it was planned for
LEMMA NewTasksBlank ==
  ASSUME NEW L \in SUBSET Lines, NEW taken \in [L \X Pickable -> Nat], NEW b, NEW rows,
         NoneGone(rows) => \A l \in L : rows[l].row = "live"
  PROVE  /\ \A t \in LineTasks(taken, b) : Blank(rows, t)
         /\ \A t \in WaveTasks(taken, b) : Blank(rows, t)
<1>0. DOMAIN taken = L \X Pickable /\ \A c \in Pickable : c \in Bins
  BY BinsAssumption
<1>1. ASSUME NEW t \in LineTasks(taken, b) PROVE Blank(rows, t)
  <2>1. PICK x \in DOMAIN taken : t = NewTask(b, x[1][1], x[1][2], x[2], taken[x], NoShare)
    BY DEF LineTasks
  <2>2. x[1] \in L /\ x[1] \in Lines /\ x[2] \in Bins
    BY <1>0
  <2>3. x[1] = <<x[1][1], x[1][2]>> /\ x[1][2] \in Items
    BY <2>2 DEF Lines
  <2> DEFINE l == x[1]
             o == x[1][1]
             i == x[1][2]
             q == taken[x]
             c == x[2]
  <2>4. l \in L /\ l \in Lines /\ c \in Bins /\ l = <<o, i>> /\ i \in Items
    BY <2>2, <2>3
  <2>5. t = NewTask(b, o, i, c, q, NoShare)
    BY <2>1
  <2> HIDE DEF l, o, i, q, c
  <2>6. t.item = i /\ t.bin = c /\ t.line = l /\ t.lost = {} /\ t.share = NoShare /\ t.picked = 0
    BY <2>4, <2>5 DEF NewTask
  <2>7. DOMAIN t.share = {}
    BY <2>6 DEF NoShare
  <2>8. t.line[2] = t.item
    BY <2>4, <2>6
  <2> QED BY <2>4, <2>6, <2>7, <2>8 DEF Blank, Tied
<1>2. ASSUME NEW t \in WaveTasks(taken, b) PROVE Blank(rows, t)
  <2>1. PICK x \in DOMAIN taken : t = WaveTask(taken, b, x[1][2], x[2])
    BY DEF WaveTasks
  <2> DEFINE i == x[1][2]
             c == x[2]
             C == Contributors(taken, i)
             O == {p \in C : taken[<< <<p, i>>, c>>] > 0}
             share == [o \in O |-> taken[<< <<o, i>>, c>>]]
             n == Total(share, DOMAIN share)
  <2>2. x[1] \in L /\ x[1] \in Lines /\ c \in Bins
    BY <1>0
  <2>3. i \in Items /\ x[1] = <<x[1][1], i>>
    BY <2>2 DEF Lines
  <2>4. \A p \in C : p \in Orders /\ <<p, i>> \in L
    <3> SUFFICES ASSUME NEW y \in DOMAIN taken, y[1][2] = i
                 PROVE  y[1][1] \in Orders /\ <<y[1][1], i>> \in L
      BY DEF Contributors
    <3>1. y[1] \in L /\ y[1] \in Lines
      OBVIOUS
    <3>2. y[1] = <<y[1][1], y[1][2]>> /\ y[1][1] \in Orders
      BY <3>1 DEF Lines
    <3> QED BY <3>1, <3>2
  <2>5. x[1][1] \in C
    BY DEF Contributors
  <2>6. t = NewTask(b, Min(C), i, c, n, share)
    BY <2>1 DEF WaveTask
  <2>7. DOMAIN share \subseteq C
    OBVIOUS
  <2> DEFINE m == Min(C)
  <2> HIDE DEF n, share, O, C, i, c
  <2>8. m \in C
    <3>1. C \subseteq Nat /\ C # {}
      BY <2>4, <2>5, OrdersAssumption
    <3> QED BY <3>1, MinOfRows
  <2> DEFINE l == <<m, i>>
  <2>9. t = NewTask(b, m, i, c, n, share)
    BY <2>6
  <2> HIDE DEF m
  <2>10. /\ t.item = i /\ t.bin = c /\ t.line = l /\ t.lost = {} /\ t.share = share /\ t.picked = 0
         /\ t.qty = n
    BY <2>9 DEF NewTask
  <2>11. l \in L /\ l \in Lines /\ l[2] = i
    BY <2>4, <2>8
  <2>12. \A o \in DOMAIN share : <<o, i>> \in L /\ <<o, i>> \in Lines
    BY <2>4, <2>7
  <2>13. n = Total(share, DOMAIN share)
    BY DEF n
  <2> HIDE DEF l
  <2> QED BY <2>2, <2>3, <2>10, <2>11, <2>12, <2>13 DEF Blank, Tied
<1> QED BY <1>1, <1>2

\* create_pick_batch and wave_create
LEMMA CreateHonest ==
  ASSUME NEW db, Books(db), Counted(db), ~Unfloored, NEW plan, PlanRow(plan), LinesThere(db, plan),
         NEW b, b \in Batches => db.batch[b].status = "NONE", Create(db, plan, b)
  PROVE  \E new : Books(new) /\ Honest(db, new) /\ Commit(new)
<1> DEFINE db1 == Normalised(db, plan)
           need == IF plan.op = "wave" THEN PlannedNeeds(db, plan) ELSE Needs(db1, plan.orders)
           taken == Allocation(db1, need)
           T == IF plan.op = "wave" THEN WaveTasks(taken, b) ELSE LineTasks(taken, b)
           new == Reserve(db1, taken, T, b, plan.by, plan.orders)
<1>1. Commit(new)
  BY DEF Create
<1>2. Books(db1) /\ Honest(db, db1)
  BY NormaliseBooks, NormaliseHonest DEF Normalised, PlanRow
<1>2a. db1.batch = db.batch
  BY DEF Normalised, _normalize_so_reservations, Books, Session
<1>3. Amounts(need)
  <2>1. Amounts(Needs(db1, plan.orders))
    BY <1>2, StandingAmounts DEF Books
  <2>2. Amounts(PlannedNeeds(db, plan))
    BY PlannedAmounts
  <2> HIDE DEF db1
  <2> QED BY <2>1, <2>2
<1>4. NoneGone(db1.line) => \A l \in DOMAIN need : db1.line[l].row = "live"
  <2>1. plan.op = "wave" => \A l \in DOMAIN PlannedNeeds(db, plan) : l \in Lines /\ db.line[l].row = "live"
    BY DEF LinesThere, LiveLines
  <2>2. \A l \in DOMAIN Needs(db1, plan.orders) : db1.line[l].row = "live"
    <3> HIDE DEF db1
    <3> QED BY DEF Needs, LiveLines
  <2>3. Forward(db.line, db1.line)
    BY <1>2 DEF Honest
  <2> HIDE DEF db1
  <2> QED BY <2>1, <2>2, <2>3 DEF Forward, NoneGone
<1>5. TaskTable(T) /\ \A t \in T : Blank(db1.line, t)
  <2> HIDE DEF db1, need
  <2>1. /\ taken \in [(DOMAIN need) \X Pickable -> Nat]
        /\ IsFiniteSet(DOMAIN taken)
        /\ DOMAIN need \in SUBSET Lines
    BY <1>2, <1>3, AllocationTable DEF Books
  <2> HIDE DEF taken
  <2>2. TaskTable(WaveTasks(taken, b)) /\ TaskTable(LineTasks(taken, b))
    BY <2>1, LineTasksTable, WaveTasksTable DEF PlanRow
  <2>3. /\ \A t \in LineTasks(taken, b) : Blank(db1.line, t)
        /\ \A t \in WaveTasks(taken, b) : Blank(db1.line, t)
    BY <1>4, <2>1, NewTasksBlank
  <2> QED BY <2>2, <2>3
<1>6. Books(new) /\ Honest(db1, new)
  <2> HIDE DEF db1, need, T
  <2>1. Counted(db1)
    BY <1>2 DEF Honest
  <2> QED BY <1>2, <1>2a, <1>3, <1>5, <2>1, ReserveBooks, ReserveHonest
<1> HIDE DEF db1, new
<1>7. Honest(db, new)
  BY <1>2, <1>6, HonestTwice
<1> QED BY <1>1, <1>6, <1>7

-----------------------------------------------------------------------------
(* Lines are edited and deleted, and orders are reverted *)

\* one line is rewritten, but for what it picked
LEMMA LineHonest ==
  ASSUME NEW db, Books(db), Counted(db), ~Unfloored, NEW l, NEW row,
         l \in Lines => row \in LineRow /\ LikeLine(row, db.line[l])
  PROVE  Honest(db, [db EXCEPT !.line[l] = row])
<1> DEFINE new == [db EXCEPT !.line[l] = row]
<1>1. /\ new.inv = db.inv /\ new.task = db.task /\ new.batch = db.batch /\ new.order = db.order
      /\ new.line = [db.line EXCEPT ![l] = row]
  BY DEF Books, Session
<1>2. Books(new)
  BY LineRowBooks
<1> HIDE DEF new
<1>3. SameUnitLines(db.line, new.line)
  <2>1. DOMAIN db.line = Lines
    BY DEF Books, LineTable
  <2> QED BY <1>1, <2>1 DEF SameUnitLines, LikeLine
<1>4. /\ SameUnitRows(db.inv, new.inv) /\ TasksGoOn(db, new) /\ StayClosed(db.batch, new.batch)
      /\ Lasting(db.order, new.order) /\ StaysFrozen(db.order, new.order)
  BY <1>1, SameTasksGoOn, SameStays, SameLasts DEF Counted, LinesFit
<1>5. Honest(db, new)
  BY <1>2, <1>3, <1>4, HonestKept
<1> QED BY <1>5 DEF new

LEMMA LineReleaseHonest ==
  ASSUME NEW db, Books(db), Counted(db), ~Unfloored, NEW l
  PROVE  Honest(db, _release_so_line_allocation(db, l))
<1> DEFINE pending == {t \in db.task : t.line = l /\ t.status = "PENDING"}
           held(b) == Quantity({t \in pending : t.bin = b})
           inv == [r \in Rows |-> IF r[1] = l[2] /\ held(r[2]) > 0
                                      THEN [db.inv[r] EXCEPT !.allocated = AtLeast0(@ - held(r[2]))]
                                      ELSE db.inv[r]]
           new == [db EXCEPT !.inv = inv, !.line[l].allocated = 0, !.task = @ \ pending]
<1>1. _release_so_line_allocation(db, l) = db \/ _release_so_line_allocation(db, l) = new
  BY DEF _release_so_line_allocation
<1>2. /\ new.inv = inv /\ new.batch = db.batch /\ new.order = db.order
      /\ new.line = [db.line EXCEPT ![l].allocated = 0]
      /\ new.task = db.task \ pending
  BY DEF Books, Session
<1>3. CASE _release_so_line_allocation(db, l) = db
  BY <1>3, SameHonest
<1>4. CASE _release_so_line_allocation(db, l) = new
  <2>1. Books(_release_so_line_allocation(db, l))
    BY LineReleaseBooks
  <2>2. Books(new)
    BY <1>4, <2>1
  <2> HIDE DEF held, pending, new
  <2>3. SameUnitRows(db.inv, inv)
    <3> SUFFICES ASSUME NEW r \in Rows PROVE inv[r].on_hand = db.inv[r].on_hand
      BY DEF SameUnitRows
    <3> DEFINE q == AtLeast0(db.inv[r].allocated - held(r[2]))
    <3>1. inv[r] = [db.inv[r] EXCEPT !.allocated = q] \/ inv[r] = db.inv[r]
      OBVIOUS
    <3>2. [db.inv[r] EXCEPT !.allocated = q].on_hand = db.inv[r].on_hand
      BY UnitShelf DEF Books
    <3> HIDE DEF q, inv
    <3> QED BY <3>1, <3>2
  <2> HIDE DEF inv
  <2>4. SameUnitLines(db.line, new.line)
    <3> SUFFICES ASSUME NEW m \in Lines PROVE LikeLine(new.line[m], db.line[m])
      BY DEF SameUnitLines
    <3>1. new.line[m] = db.line[m] \/ new.line[m] = [db.line[m] EXCEPT !.allocated = 0]
      BY <1>2 DEF Books, LineTable
    <3> QED BY <3>1, UnitRows DEF Books
  <2>5. /\ TasksGoOn(db, new) /\ StayClosed(db.batch, new.batch)
        /\ Lasting(db.order, new.order) /\ StaysFrozen(db.order, new.order)
    BY <1>2, SameTasksGoOn, SameStays, SameLasts DEF Counted, LinesFit
  <2>6. Honest(db, new)
    BY <1>2, <2>2, <2>3, <2>4, <2>5, HonestKept
  <2> QED BY <1>4, <2>6
<1> QED BY <1>1, <1>3, <1>4

\* a line that picked nothing is deleted, and its tasks have no line any more
LEMMA DeleteLineHonest ==
  ASSUME NEW db, Books(db), Counted(db), ~Unfloored, NEW l \in Lines,
         db.line[l].row = "live", db.line[l].picked = 0
  PROVE  Honest(db, DeleteLine(db, l))
<1> DEFINE new == DeleteLine(db, l)
<1>1. /\ new.inv = db.inv /\ new.batch = db.batch /\ new.order = db.order
      /\ new.line = [db.line EXCEPT ![l] = GoneLine]
      /\ new.task = {Orphaned(t, l) : t \in db.task}
  BY DEF DeleteLine, Books, Session
<1>2. Books(new)
  BY DeleteLineBooks
<1> HIDE DEF new
<1>3. GoneLine.row = "gone" /\ GoneLine.picked = 0
  BY DEF GoneLine, NoLine
<1>4. /\ \A m \in Lines : new.line[m].picked = db.line[m].picked
      /\ \A m \in Lines : m # l => new.line[m] = db.line[m]
      /\ new.line[l].row = "gone" /\ ~NoneGone(new.line)
  BY <1>1, <1>3 DEF Books, LineTable, NoneGone
<1>5. Forward(db.line, new.line)
  BY <1>4 DEF Forward
<1>6. LinesFit(new)
  BY <1>1, <1>4 DEF LinesFit, Counted
<1>7. ASSUME NEW t \in db.task
      PROVE  LET s == Orphaned(t, l)
             IN  /\ s.batch = t.batch /\ s.order = t.order /\ s.item = t.item /\ s.bin = t.bin
                 /\ s.picked = t.picked /\ s.status = t.status /\ s.share = t.share
                 /\ s.line = (IF t.line = l THEN NULL ELSE t.line)
                 /\ s.shorted \subseteq t.shorted
  <2>1. DOMAIN t = TaskFields
    BY DEF Books, TaskTable, TaskRow
  <2> QED BY <2>1 DEF Orphaned, TaskFields
<1>8. ASSUME NEW s \in new.task PROVE Tied(new.line, s) /\ HandPicked(new.batch, s)
  <2>1. PICK t \in db.task : s = Orphaned(t, l)
    BY <1>1
  <2>2. Tied(db.line, t) /\ HandPicked(db.batch, t)
    BY DEF Counted
  <2>3. Tied(new.line, s)
    BY <1>4, <1>7, <2>1, <2>2 DEF Tied
  <2>4. HandPicked(new.batch, s)
    BY <1>1, <1>7, <2>1, <2>2 DEF HandPicked
  <2> QED BY <2>3, <2>4
<1>9. Backing(new)
  <2> SUFFICES ASSUME Exact, Does("revert"), NEW o \in Orders, ~Frozen(new.order, o), NEW i \in Items
               PROVE  /\ \A s \in Handed(new.task, o, i) : s.line = <<o, i>>
                      /\ Picked(Handed(new.task, o, i)) <= new.line[<<o, i>>].picked
    BY DEF Backing, Backed
  <2>1. /\ \A t \in Handed(db.task, o, i) : t.line = <<o, i>>
        /\ Picked(Handed(db.task, o, i)) <= db.line[<<o, i>>].picked
    BY <1>1 DEF Counted, Backing, Backed
  <2>2. <<o, i>> \in Lines /\ new.line[<<o, i>>].picked = db.line[<<o, i>>].picked
    BY <1>4 DEF Lines
  <2> DEFINE H == Handed(db.task, o, i)
             K == Handed(new.task, o, i)
             pk == PicksOf(db.task)
             g == PicksOf(K)
             of == [s \in K |-> CHOOSE t \in H : s = Orphaned(t, l)]
  <2>3. ASSUME NEW s \in K PROVE \E t \in H : s = Orphaned(t, l)
    <3>1. PICK t \in db.task : s = Orphaned(t, l)
      BY <1>1 DEF Handed
    <3>2. t \in H
      BY <1>7, <3>1 DEF Handed
    <3> QED BY <3>1, <3>2
  <2>4. \A s \in K : of[s] \in H /\ s = Orphaned(of[s], l)
    BY <2>3
  <2>5. H \in SUBSET db.task
    BY DEF Handed
  <2>6. Picked(H) = Total(pk, H) /\ NatOn(pk, H) /\ IsFiniteSet(H)
    BY <2>5, PicksTotal DEF Books
  <2>7. Picked(K) = Total(g, K)
    BY DEF Picked, SumOver, PicksOf
  <2>8. \A s \in K : g[s] = s.picked /\ (\A t \in H : pk[t] = t.picked /\ t.picked # 0)
    BY <2>5 DEF PicksOf, Handed
  <2> HIDE DEF H, K, pk, g, of
  <2>9. \A s \in K : of[s] \in H /\ g[s] = pk[of[s]]
    BY <1>7, <2>4, <2>5, <2>8
  <2>10. Picked(K) <= Picked(H)
    BY <2>4, <2>6, <2>7, <2>9, TotalChosen
  <2>11. Picked(K) \in Nat /\ Picked(H) \in Nat /\ db.line[<<o, i>>].picked \in Nat
    <3>1. TaskTable(new.task) /\ K \subseteq new.task
      BY <1>2 DEF Books, K, Handed
    <3> QED BY <2>2, <2>5, <3>1, TaskSums, LineRows DEF Books
  <2>12. Picked(K) <= new.line[<<o, i>>].picked
    BY <2>1, <2>2, <2>10, <2>11 DEF H
  <2>13. ASSUME NEW s \in K PROVE s.line = <<o, i>>
    <3>1. of[s].line = <<o, i>> /\ of[s] \in H /\ of[s].picked # 0
      BY <2>1, <2>4, <2>8 DEF H
    <3>2. CASE <<o, i>> = l
      <4>1. pk[of[s]] <= Total(pk, H) /\ pk[of[s]] = of[s].picked /\ pk[of[s]] \in Nat /\ Total(pk, H) \in Nat
        BY <2>6, <2>8, <3>1, TotalAtLeast DEF NatOn
      <4>2. Picked(H) <= 0
        BY <2>1, <3>2 DEF H
      <4> QED BY <2>6, <3>1, <4>1, <4>2
    <3>3. CASE <<o, i>> # l
      BY <1>7, <2>4, <2>5, <3>1, <3>3
    <3> QED BY <3>2, <3>3
  <2> QED BY <2>12, <2>13 DEF K
<1>10. SameUnits(db, new)
  BY <1>1, <1>2, <1>4, UnitsStay
<1>11. Counted(new)
  <2>1. BatchTable(new.batch)
    BY <1>1 DEF Counted
  <2> QED BY <1>6, <1>8, <1>9, <2>1 DEF Counted
<1>12. Honest(db, new)
  BY <1>5, <1>10, <1>11 DEF Honest
<1> QED BY <1>12 DEF new

-----------------------------------------------------------------------------
(* A backorder takes over the short part of a line, which may be written off *)

\* units come in, or go for good
Paid(db, new, gain) ==
  /\ Counted(new)
  /\ Forward(db.line, new.line)
  /\ Sound(new.line) => \A i \in Items : /\ UnitsIn(new, i) >= UnitsIn(db, i) + gain[i]
                                         /\ Exact => UnitsIn(new, i) = UnitsIn(db, i) + gain[i]
NoGain == [i \in Items |-> 0]

LEMMA HonestPays ==
  ASSUME NEW db, NEW new, Books(db), ~Unfloored, Honest(db, new)
  PROVE  Paid(db, new, NoGain)
<1>1. \A i \in Items : UnitsIn(db, i) + NoGain[i] = UnitsIn(db, i)
  BY UnitsType DEF NoGain
<1> QED BY <1>1 DEF Paid, Honest, SameUnits

LEMMA PaidTwice ==
  ASSUME NEW a, NEW b, NEW c, Books(a), Books(b), Books(c), ~Unfloored,
         NEW g \in [Items -> Int], NEW h \in [Items -> Int], Paid(a, b, g), Paid(b, c, h)
  PROVE  Paid(a, c, [i \in Items |-> g[i] + h[i]])
<1> DEFINE k == [i \in Items |-> g[i] + h[i]]
<1>1. \A i \in Items : k[i] = g[i] + h[i] /\ g[i] \in Int /\ h[i] \in Int
  OBVIOUS
<1>2. \A i \in Items : UnitsIn(a, i) \in Nat /\ UnitsIn(b, i) \in Nat /\ UnitsIn(c, i) \in Nat
  BY UnitsType
<1> HIDE DEF k
<1>3. Forward(a.line, c.line)
  BY ForwardTwice DEF Paid
<1>4. Sound(c.line) => Sound(b.line)
  BY ForwardSound DEF Paid
<1>5. Paid(a, c, k)
  BY <1>1, <1>2, <1>3, <1>4 DEF Paid
<1> QED BY <1>5 DEF k

LEMMA BackorderHonest ==
  ASSUME NEW db, Books(db), Counted(db), ~Unfloored, NEW l \in Lines, NEW short \in Nat,
         NEW bo \in Orders, db.order[bo].status = "NONE"
  PROVE  Honest(db, WithBackorderFor(db, l, short, bo))
<1> DEFINE new == WithBackorderFor(db, l, short, bo)
           row == [NoOrder EXCEPT !.status = "WAITING_STOCK", !.kind = "backorder", !.parent = l[1]]
           m == <<bo, l[2]>>
<1>1. /\ new.inv = db.inv /\ new.task = db.task /\ new.batch = db.batch
      /\ new.order = [db.order EXCEPT ![bo] = row]
      /\ new.line = [db.line EXCEPT ![m] = NewLine(short)]
  BY DEF WithBackorderFor, Books, Session
<1>2. Books(new)
  BY BackorderBooks
<1>3. DOMAIN row = {"status", "kind", "parent", "voided"} /\ row.status = "WAITING_STOCK"
  BY DEF NoOrder
<1>4. OrderTable(db.order)
  BY DEF Counted, LinesFit
<1>5. m \in Lines /\ m[1] = bo
  BY DEF Lines
<1> HIDE DEF new, row, m
<1>6. Lasting(db.order, new.order) /\ new.order[bo].status = "WAITING_STOCK"
      /\ \A p \in Orders : p # bo => new.order[p] = db.order[p]
  BY <1>1, <1>3, <1>4 DEF Lasting, OrderTable
<1>7. StaysFrozen(db.order, new.order)
  BY <1>6 DEF StaysFrozen, Frozen
<1>8. ASSUME NEW k \in Lines PROVE NewOrLike(db, new, k)
  <2>1. DOMAIN db.line = Lines
    BY DEF Books, LineTable
  <2>2. CASE k = m
    <3>1. db.line[m].row = "none"
      BY <1>5 DEF Counted, LinesFit
    <3>2. new.line[m] = NewLine(short)
      BY <1>1, <1>5, <2>1
    <3> QED BY <1>5, <1>6, <2>2, <3>1, <3>2 DEF NewOrLike, NewLine, NoLine
  <2>3. CASE k # m
    <3>1. new.line[k] = db.line[k]
      BY <1>1, <2>1, <2>3
    <3> QED BY <3>1 DEF NewOrLike, LikeLine
  <2> QED BY <2>2, <2>3
<1>9. /\ SameUnitRows(db.inv, new.inv) /\ TasksGoOn(db, new) /\ StayClosed(db.batch, new.batch)
  BY <1>1, SameTasksGoOn, SameStays DEF Counted
<1>10. Honest(db, new)
  BY <1>2, <1>6, <1>7, <1>8, <1>9, HonestGrown
<1> QED BY <1>10 DEF new

\* there is a fullest bin
LEMMA FullestIsBin ==
  ASSUME Shelf(inventory), ~Unfloored, NEW i \in Items
  PROVE  FullestBin(i) \in Bins
<1> DEFINE f == [b \in Bins |-> Available(inventory, i, b)]
           N == Total(f, Bins)
           V == {N - f[b] : b \in Bins}
           m == Min(V)
           S == {b \in Bins : N - f[b] = m}
           fullest(b) == \A c \in Bins :
                    \/ Available(inventory, i, b) > Available(inventory, i, c)
                    \/ Available(inventory, i, b) = Available(inventory, i, c) /\ b <= c
<1>1. NatOn(f, Bins) /\ IsFiniteSet(Bins)
  <2>1. ASSUME NEW b \in Bins PROVE Available(inventory, i, b) \in Nat
    <3>1. <<i, b>> \in Rows
      BY RowsOfStock
    <3> QED BY <3>1, RowOfShelf DEF Available
  <2> QED BY <2>1, RowsOfStock DEF NatOn
<1>2. \A b \in Bins : f[b] \in Nat /\ f[b] <= N /\ N \in Nat /\ N - f[b] \in Nat
  <2> HIDE DEF f
  <2>1. \A b \in Bins : f[b] \in Nat /\ f[b] <= N /\ N \in Nat
    BY <1>1, TotalAtLeast DEF NatOn
  <2> HIDE DEF N
  <2> QED BY <2>1
<1>3. ReceivingBin \in Bins
  BY BinsAssumption
<1>4. m \in V /\ \A v \in V : m <= v
  <2>1. V \subseteq Nat /\ V # {}
    <3> HIDE DEF N, f
    <3> QED BY <1>2, <1>3
  <2> HIDE DEF V
  <2> QED BY <2>1, MinOfRows
<1>5. S # {}
  <2> HIDE DEF m, N, f
  <2> QED BY <1>4
<1>6. Min(S) \in S /\ \A b \in S : Min(S) <= b
  <2>1. S \subseteq Nat
    BY BinsAssumption
  <2> HIDE DEF S
  <2> QED BY <1>5, <2>1, MinOfRows
<1> DEFINE b == Min(S)
<1>7. b \in Bins /\ N - f[b] = m
  <2> HIDE DEF m, N, f
  <2> QED BY <1>6
<1>8. \A c \in Bins : m <= N - f[c] /\ (N - f[c] = m => b <= c)
  <2> HIDE DEF m, N, f
  <2> QED BY <1>4, <1>6
<1> HIDE DEF b, S, V
<1>9. \A c \in Bins : f[b] > f[c] \/ (f[b] = f[c] /\ b <= c)
  <2> HIDE DEF m, N, f
  <2> QED BY <1>2, <1>7, <1>8
<1>10. fullest(b)
  BY <1>7, <1>9
<1>11. FullestBin(i) = CHOOSE x \in Bins : fullest(x)
  BY DEF FullestBin
<1> HIDE DEF fullest
<1> QED BY <1>7, <1>10, <1>11

\* the write-off of a short line
Loss(i, q) == [j \in Items |-> IF j = i THEN 0 - q ELSE 0]
LEMMA WriteOffPaid ==
  ASSUME NEW db, Books(db), Counted(db), ~Unfloored, Does("partial"), db.inv = inventory,
         NEW i \in Items, NEW short \in Nat
  PROVE  /\ Paid(db, [db EXCEPT !.inv = take_floored(@, i, FullestBin(i), WrittenOff(i, short))],
                 Loss(i, WrittenOff(i, short)))
         /\ WrittenOff(i, short) \in Nat
<1> DEFINE r == <<i, FullestBin(i)>>
           q == WrittenOff(i, short)
           left == AtLeast0(db.inv[r].on_hand - q)
           new == [db EXCEPT !.inv = take_floored(@, i, FullestBin(i), q)]
<1>1. /\ new.line = db.line /\ new.task = db.task /\ new.batch = db.batch /\ new.order = db.order
      /\ new.inv = [db.inv EXCEPT ![r].on_hand = left]
  BY DEF take_floored, Books, Session
<1>2. Books(new)
  BY WriteOffBooks
<1>3. r \in Rows /\ r[1] = i
  BY FullestIsBin, RowsOfStock DEF Books
<1>4. /\ db.inv[r] \in [on_hand : Int, allocated : Int]
      /\ db.inv[r].on_hand \in Int /\ db.inv[r].allocated \in Int
      /\ 0 <= db.inv[r].on_hand /\ db.inv[r].allocated <= db.inv[r].on_hand
      /\ ~MayDip => 0 <= db.inv[r].allocated
  BY <1>3, RowOfShelf DEF Books
<1>5. q = AtLeast0(Least(db.inv[r].on_hand - db.inv[r].allocated, short))
  BY DEF WrittenOff, Available
<1> HIDE DEF q, new, r
<1>6. q \in Nat /\ (Exact => q <= db.inv[r].on_hand)
  BY <1>4, <1>5 DEF AtLeast0, Least, Exact
<1>7. /\ left \in Nat /\ left >= db.inv[r].on_hand - q
      /\ Exact => left = db.inv[r].on_hand - q
  BY <1>4, <1>6 DEF AtLeast0
<1> HIDE DEF left
<1>8. /\ \A s \in Rows : s # r => new.inv[s].on_hand = db.inv[s].on_hand
      /\ new.inv[r].on_hand = left
  BY <1>1, <1>3, <1>4 DEF Books, Shelf, InventoryType
<1>9. ASSUME NEW j \in Items
      PROVE  /\ UnitsIn(new, j) >= UnitsIn(db, j) + Loss(i, q)[j]
             /\ Exact => UnitsIn(new, j) = UnitsIn(db, j) + Loss(i, q)[j]
  <2>1. OnHand(new.inv, j) = OnHand(db.inv, j) + IF j = r[1] THEN new.inv[r].on_hand - db.inv[r].on_hand ELSE 0
    BY <1>2, <1>3, <1>8, OneRow DEF Books
  <2>2. PickedIn(new.line, j) = PickedIn(db.line, j)
    BY <1>1
  <2>3. OnHand(db.inv, j) \in Nat /\ PickedIn(db.line, j) \in Nat
    BY OnHandUnits, PickedUnits DEF Books
  <2>4. Loss(i, q)[j] = IF j = i THEN 0 - q ELSE 0
    BY DEF Loss
  <2> QED BY <1>3, <1>4, <1>6, <1>7, <1>8, <2>1, <2>2, <2>3, <2>4 DEF UnitsIn
<1>10. Counted(new) /\ Forward(db.line, new.line)
  BY <1>1, SameForward DEF Counted, LinesFit, Backing, Backed
<1>11. Paid(db, new, Loss(i, q))
  BY <1>9, <1>10 DEF Paid
<1> QED BY <1>6, <1>11 DEF new, q

-----------------------------------------------------------------------------
(* The tables after a step *)

Tomorrow == [inv |-> inventory', order |-> order', line |-> line', batch |-> batch', task |-> task']

LEMMA DbRows ==
  /\ Session(Db) /\ Db.inv = inventory /\ Db.order = order /\ Db.line = line
  /\ Db.batch = batch /\ Db.task = task
  BY DEF Db, Session

LEMMA TomorrowRows ==
  /\ Session(Tomorrow) /\ Tomorrow.inv = inventory' /\ Tomorrow.order = order' /\ Tomorrow.line = line'
  /\ Tomorrow.batch = batch' /\ Tomorrow.task = task'
  BY DEF Tomorrow, Session

LEMMA CountedRows ==
  ASSUME NEW a, NEW b, a.inv = b.inv, a.order = b.order, a.line = b.line, a.batch = b.batch,
         a.task = b.task
  PROVE  /\ Counted(a) => Counted(b)
         /\ \A i : UnitsIn(a, i) = UnitsIn(b, i)
<1>1. LinesFit(a) => LinesFit(b)
  BY DEF LinesFit
<1>2. Backing(a) => Backing(b)
  BY DEF Backing, Backed
<1>3. Counted(a) => Counted(b)
  BY <1>1, <1>2 DEF Counted
<1>4. \A i : UnitsIn(a, i) = UnitsIn(b, i)
  BY DEF UnitsIn
<1> QED BY <1>3, <1>4

\* a step keeps the invariant, and units come in or go as its ledgers say
PaidStep(gain) == Paid(Db, Tomorrow, gain)
HonestStep     == Honest(Db, Tomorrow)
Steady         == BooksNow /\ BooksNow' /\ Counted(Db) /\ ~Unfloored /\ UNCHANGED desk

LEMMA SteadyBooks ==
  ASSUME Steady
  PROVE  /\ Books(Db) /\ Books(Tomorrow) /\ Counted(Db) /\ ~Unfloored
         /\ OrderTable(order) /\ BatchTable(batch) /\ LineTable(line) /\ Shelf(inventory)
<1>1. Books(Db) /\ Shelf(inventory) /\ LineTable(line)
  BY BooksOfDb DEF Steady, BooksNow
<1>2. Shelf(inventory') /\ LineTable(line') /\ TaskTable(task')
  <2>1. BooksNow' /\ UNCHANGED desk
    BY DEF Steady
  <2> QED BY <2>1 DEF BooksNow, Shelf, LineTable, TaskTable, TaskRow, Unfloored, TakesFree, MayDip, Kinds, Does
<1>3. Books(Tomorrow)
  BY <1>2, TomorrowRows DEF Books
<1>4. OrderTable(order) /\ BatchTable(batch)
  BY DbRows DEF Steady, Counted, LinesFit
<1> QED BY <1>1, <1>3, <1>4 DEF Steady

LEMMA CommitHonest ==
  ASSUME NEW new, Session(new), Commit(new)
  PROVE  /\ Honest(Db, new) => HonestStep
         /\ \A gain : Paid(Db, new, gain) => PaidStep(gain)
<1>1. /\ Tomorrow.inv = new.inv /\ Tomorrow.line = new.line /\ Tomorrow.task = new.task
      /\ Tomorrow.order = new.order /\ Tomorrow.batch = new.batch
  BY CommitDb, TomorrowRows
<1>2. /\ Counted(new) => Counted(Tomorrow)
      /\ \A i : UnitsIn(new, i) = UnitsIn(Tomorrow, i)
  BY <1>1, CountedRows
<1>3. Honest(Db, new) => HonestStep
  BY <1>1, <1>2 DEF Honest, HonestStep, SameUnits
<1>4. \A gain : Paid(Db, new, gain) => PaidStep(gain)
  BY <1>1, <1>2 DEF Paid, PaidStep
<1> QED BY <1>3, <1>4

\* a step that moves no units
LEMMA KeptStep ==
  ASSUME Steady, Lasting(order, order'), StaysFrozen(order, order'),
         SameUnitRows(inventory, inventory'), SameUnitLines(line, line'),
         batch' = batch, task' = task
  PROVE  HonestStep
<1>1. StayClosed(Db.batch, Tomorrow.batch) /\ TasksGoOn(Db, Tomorrow)
  <2>1. Tomorrow.task \subseteq Db.task
    BY DbRows, TomorrowRows
  <2> QED BY <2>1, SteadyBooks, SameStays, SameTasksGoOn, DbRows, TomorrowRows
<1> QED BY <1>1, SteadyBooks, HonestKept, DbRows, TomorrowRows DEF HonestStep

\* a step that enters orders and lines
LEMMA GrownStep ==
  ASSUME Steady, Lasting(order, order'), StaysFrozen(order, order'),
         SameUnitRows(inventory, inventory'), batch' = batch, task' = task,
         \A l \in Lines : \/ LikeLine(line'[l], line[l])
                          \/ /\ line[l].row = "none" /\ line'[l].row = "live" /\ line'[l].picked = 0
                             /\ order'[l[1]].status # "NONE"
  PROVE  HonestStep
<1>1. StayClosed(Db.batch, Tomorrow.batch) /\ TasksGoOn(Db, Tomorrow)
  <2>1. Tomorrow.task \subseteq Db.task
    BY DbRows, TomorrowRows
  <2> QED BY <2>1, SteadyBooks, SameStays, SameTasksGoOn, DbRows, TomorrowRows
<1>2. \A l \in Lines : NewOrLike(Db, Tomorrow, l)
  BY DbRows, TomorrowRows DEF NewOrLike
<1> QED BY <1>1, <1>2, SteadyBooks, HonestGrown, DbRows, TomorrowRows DEF HonestStep

\* one order is written
LEMMA OrderStays ==
  ASSUME OrderTable(order), NEW o, NEW s, order' = [order EXCEPT ![o].status = s],
         s # "NONE",
         Exact /\ Does("revert") /\ o \in Orders /\ Frozen(order, o) =>
           s \in {"CANCELLED", "REFUNDED", "RECEIVED", "PARTIALLY_RECEIVED"}
  PROVE  Lasting(order, order') /\ StaysFrozen(order, order')
<1>1. \A p \in Orders : order'[p].status = IF p = o THEN s ELSE order[p].status
  BY DEF OrderTable
<1>2. Lasting(order, order')
  BY <1>1 DEF Lasting, OrderTable
<1>3. StaysFrozen(order, order')
  BY <1>1 DEF StaysFrozen, Frozen
<1> QED BY <1>2, <1>3

\* an order is entered
LEMMA BirthStays ==
  ASSUME OrderTable(order), NEW o \in Orders, order[o].status = "NONE", NEW row,
         DOMAIN row = {"status", "kind", "parent", "voided"}, order' = [order EXCEPT ![o] = row]
  PROVE  Lasting(order, order') /\ StaysFrozen(order, order')
<1>1. StaysFrozen(order, order')
  BY DEF StaysFrozen, Frozen, OrderTable
<1> QED BY <1>1, BirthLasts

-----------------------------------------------------------------------------
(* A pick at the desk *)

\* one more task that was picked, and as many units more on its line
LEMMA BackedMore ==
  ASSUME NEW db, NEW new, Books(db), TaskTable(new.task), NEW o \in Orders, Backed(db, o), NEW t,
         new.task = db.task \cup {t}, t.line = <<t.order, t.item>>, t.picked \in Nat,
         LineTable(new.line),
         \A i \in Items : new.line[<<o, i>>].picked
                            >= db.line[<<o, i>>].picked + IF t.order = o /\ t.item = i THEN t.picked ELSE 0
  PROVE  Backed(new, o)
<1> SUFFICES ASSUME NEW i \in Items
             PROVE  /\ \A s \in Handed(new.task, o, i) : s.line = <<o, i>>
                    /\ Picked(Handed(new.task, o, i)) <= new.line[<<o, i>>].picked
  BY DEF Backed
<1> DEFINE T == Handed(db.task, o, i)
           S == Handed(new.task, o, i)
           had == db.line[<<o, i>>].picked
           has == new.line[<<o, i>>].picked
<1>1. (\A s \in T : s.line = <<o, i>>) /\ Picked(T) <= had /\ T \subseteq db.task
  BY DEF Backed, Handed
<1>2. S \subseteq new.task /\ S \subseteq T \cup {t} /\ (t \in S => t.order = o /\ t.item = i)
  BY DEF Handed
<1>3. \A s \in S : s.line = <<o, i>>
  BY <1>1, <1>2
<1>4. had \in Nat /\ has \in Nat /\ has >= had + IF t.order = o /\ t.item = i THEN t.picked ELSE 0
  BY LineRows DEF Lines, Books
<1>5. Picked(T) \in Nat /\ Picked(S) \in Nat
  BY <1>1, <1>2, TaskSums DEF Books
<1>6. Picked(S \ {t}) <= Picked(T) /\ Picked(S \ {t}) \in Nat
  <2>1. /\ NatOn(PicksOf(new.task), new.task) /\ IsFiniteSet(new.task)
        /\ Picked(T) = Total(PicksOf(new.task), T) /\ NatOn(PicksOf(new.task), T) /\ IsFiniteSet(T)
        /\ Picked(S \ {t}) = Total(PicksOf(new.task), S \ {t})
    <3>1. T \subseteq new.task /\ S \ {t} \subseteq new.task
      BY <1>1, <1>2
    <3> HIDE DEF T, S
    <3> QED BY <3>1, PicksTotal
  <2>2. S \ {t} \subseteq T
    BY <1>2
  <2>3. S \ {t} \subseteq new.task
    BY <1>2
  <2>4. Picked(S \ {t}) \in Nat
    BY <2>3, TaskSums
  <2> HIDE DEF T, S
  <2> QED BY <2>1, <2>2, <2>4, TotalSubset
<1>7. CASE t \in S
  <2>1. Picked(S) = Picked(S \ {t}) + t.picked
    <3>1. /\ Picked(S) = Total(PicksOf(new.task), S) /\ NatOn(PicksOf(new.task), S) /\ IsFiniteSet(S)
          /\ Picked(S \ {t}) = Total(PicksOf(new.task), S \ {t})
      <4>1. S \subseteq new.task /\ S \ {t} \subseteq new.task
        BY <1>2
      <4> HIDE DEF S
      <4> QED BY <4>1, PicksTotal
    <3>2. PicksOf(new.task)[t] = t.picked
      BY DEF PicksOf
    <3> HIDE DEF S
    <3> QED BY <1>7, <3>1, <3>2, TotalWithout
  <2>2. t.order = o /\ t.item = i
    BY <1>2, <1>7
  <2> HIDE DEF T, S, had, has
  <2>3. Picked(S) <= has
    BY <1>1, <1>4, <1>5, <1>6, <2>1, <2>2
  <2> QED BY <1>3, <2>3 DEF S, has
<1>8. CASE t \notin S
  <2>1. S \ {t} = S
    BY <1>8
  <2>3. has >= had /\ Picked(S) <= Picked(T)
    <3>1. Picked(S) <= Picked(T)
      BY <1>6, <2>1, Zenon
    <3>2. has >= had
      <4> HIDE DEF T, S, had, has
      <4> QED BY <1>4
    <3> QED BY <3>1, <3>2
  <2> HIDE DEF T, S, had, has
  <2>2. Picked(S) <= has
    BY <1>1, <1>4, <1>5, <2>3
  <2> QED BY <1>3, <2>2 DEF S, has
<1> QED BY <1>7, <1>8

LEMMA AdminPickRowHonest ==
  ASSUME NEW db, Books(db), Counted(db), ~Unfloored, TakesFree,
         NEW l \in Lines, db.line[l].row = "live", db.order[l[1]].status = "OPEN",
         NEW bin \in Bins, NEW q \in Nat, q <= Available(db.inv, l[2], bin),
         NEW b \in Batches, db.batch[b].status = "NONE", NEW u
  PROVE  Honest(db, record_admin_pick(db, l, bin, q, b, u))
<1> DEFINE new == record_admin_pick(db, l, bin, q, b, u)
           r == <<l[2], bin>>
           row == [db.line[l] EXCEPT !.picked = db.line[l].picked + q,
                                     !.allocated = MaxOf2(db.line[l].allocated, db.line[l].picked + q)]
           t == [NewTask(b, l[1], l[2], bin, q, NoShare) EXCEPT !.status = "PICKED", !.picked = q]
           closed == [status |-> "COMPLETED", by |-> u, orders |-> {l[1]}]
<1>1. /\ new.inv = [db.inv EXCEPT ![r].on_hand = db.inv[r].on_hand - q] /\ new.order = db.order
      /\ new.line = [db.line EXCEPT ![l] = row]
      /\ new.batch = [db.batch EXCEPT ![b] = closed]
      /\ new.task = db.task \cup {t}
  BY DEF record_admin_pick, Books, Session
<1>2. Books(new)
  BY AdminPickBooks
<1>3. /\ t.line = <<l[1], l[2]>> /\ t.order = l[1] /\ t.item = l[2] /\ t.bin = bin /\ t.qty = q
      /\ t.batch = b /\ t.picked = q /\ t.share = NoShare /\ t.shorted = {} /\ t.lost = {}
  BY DEF NewTask
<1>4. /\ l = <<l[1], l[2]>> /\ l[1] \in Orders /\ l[2] \in Items /\ r \in Rows
  BY RowsOfStock DEF Lines
<1>5. DOMAIN t.share = {}
  BY <1>3 DEF NoShare
<1>6. DOMAIN closed = {"status", "by", "orders"} /\ closed.status = "COMPLETED"
  OBVIOUS
<1>7. db.line[l] \in LineRow /\ db.line[l].picked \in Nat
  BY LineRows DEF Books
<1>8. row.row = "live" /\ row.picked = db.line[l].picked + q
  BY <1>7 DEF LineRow
<1>9. db.inv[r].on_hand \in Int /\ [db.inv[r] EXCEPT !.on_hand = db.inv[r].on_hand - q].on_hand = db.inv[r].on_hand - q
      /\ DOMAIN db.inv = Rows
  <2>1. db.inv[r] \in [on_hand : Int, allocated : Int] /\ db.inv[r].on_hand \in Int
    BY <1>4, RowOfShelf DEF Books
  <2>2. DOMAIN db.inv = Rows
    BY DEF Books, Shelf, InventoryType
  <2> HIDE DEF r
  <2> QED BY <2>1, <2>2
<1> HIDE DEF new, row, t, closed
<1>10. /\ \A m \in Lines : m # l => new.line[m] = db.line[m]
       /\ new.line[l] = row
  BY <1>1 DEF Books, LineTable
<1>11. /\ \A s \in Rows : s # r => new.inv[s] = db.inv[s]
       /\ new.inv[r].on_hand = db.inv[r].on_hand - q
  BY <1>1, <1>4, <1>9
<1>12. LinesFit(new) /\ Forward(db.line, new.line)
  BY <1>1, <1>8, <1>10 DEF Counted, LinesFit, Forward
<1>13. BatchTable(new.batch) /\ new.batch[b] = closed /\ \A c \in Batches : c # b => new.batch[c] = db.batch[c]
  BY <1>1, <1>6 DEF Counted, BatchTable
<1>14. Tied(new.line, t)
  BY <1>3, <1>4, <1>5, <1>8, <1>10 DEF Tied
<1>15. HandPicked(new.batch, t)
  BY <1>3, <1>5, <1>6, <1>13 DEF HandPicked
<1>16. ASSUME NEW s \in db.task PROVE Tied(new.line, s) /\ HandPicked(new.batch, s)
  <2>1. Tied(db.line, s) /\ HandPicked(db.batch, s)
    BY DEF Counted
  <2> QED BY <1>12, <1>13, <2>1, TiedKept DEF HandPicked
<1>17. Backing(new)
  <2> SUFFICES ASSUME Exact, Does("revert"), NEW o \in Orders, ~Frozen(new.order, o)
               PROVE  Backed(new, o)
    BY DEF Backing
  <2>1. Backed(db, o)
    BY <1>1 DEF Counted, Backing
  <2>2. ASSUME NEW i \in Items
        PROVE  new.line[<<o, i>>].picked >= db.line[<<o, i>>].picked
                                            + IF t.order = o /\ t.item = i THEN t.picked ELSE 0
    <3>1. <<o, i>> \in Lines /\ db.line[<<o, i>>].picked \in Nat
      BY LineRows DEF Lines, Books
    <3>2. CASE <<o, i>> = l
      <4>1. new.line[<<o, i>>].picked = db.line[<<o, i>>].picked + q /\ t.picked = q
        BY <1>3, <1>8, <1>10, <3>2
      <4> QED BY <3>1, <4>1
    <3>3. CASE <<o, i>> # l
      <4>1. ~ (t.order = o /\ t.item = i)
        BY <1>3, <1>4, <3>3
      <4> QED BY <1>10, <3>1, <3>3, <4>1
    <3> QED BY <3>2, <3>3
  <2>3. TaskTable(new.task) /\ LineTable(new.line)
    BY <1>2 DEF Books
  <2>4. t.line = <<t.order, t.item>> /\ t.picked \in Nat
    BY <1>3
  <2>5. new.task = db.task \cup {t}
    BY <1>1
  <2> QED BY <2>1, <2>2, <2>3, <2>4, <2>5, BackedMore
<1>18. Counted(new)
  <2>1. \A s \in new.task : Tied(new.line, s) /\ HandPicked(new.batch, s)
    BY <1>1, <1>14, <1>15, <1>16
  <2> QED BY <1>12, <1>13, <1>17, <2>1 DEF Counted
<1>19. SameUnits(db, new)
  <2>1. \A i \in Items : OnHand(new.inv, i) = OnHand(db.inv, i)
                           + IF i = r[1] THEN new.inv[r].on_hand - db.inv[r].on_hand ELSE 0
    BY <1>2, <1>4, <1>11, OneRow DEF Books
  <2>2. \A i \in Items : PickedIn(new.line, i) = PickedIn(db.line, i)
                           + IF i = l[2] THEN new.line[l].picked - db.line[l].picked ELSE 0
    BY <1>2, <1>10, OneLine DEF Books
  <2>3. \A i \in Items : OnHand(db.inv, i) \in Nat /\ PickedIn(db.line, i) \in Nat
    BY OnHandUnits, PickedUnits DEF Books
  <2>4. r[1] = l[2] /\ new.inv[r].on_hand - db.inv[r].on_hand = 0 - q
        /\ new.line[l].picked - db.line[l].picked = q
    <3> HIDE DEF r
    <3>1. new.inv[r].on_hand - db.inv[r].on_hand = 0 - q
      BY <1>9, <1>11
    <3>2. new.line[l].picked - db.line[l].picked = q
      BY <1>7, <1>8, <1>10
    <3>3. r[1] = l[2]
      BY DEF r
    <3> QED BY <3>1, <3>2, <3>3
  <2> HIDE DEF r
  <2>5. \A i \in Items : UnitsIn(new, i) = UnitsIn(db, i) /\ UnitsIn(db, i) \in Nat
    BY <2>1, <2>2, <2>3, <2>4 DEF UnitsIn
  <2> QED BY <2>5 DEF SameUnits
<1>20. Honest(db, new)
  BY <1>12, <1>18, <1>19 DEF Honest
<1> QED BY <1>20 DEF new

LEMMA AdminPickHonest ==
  ASSUME NEW db, Books(db), Counted(db), ~Unfloored, TakesFree,
         NEW l \in Lines, db.line[l].row = "live", db.order[l[1]].status = "OPEN",
         NEW bin \in Bins, NEW q \in Nat, q <= Available(db.inv, l[2], bin),
         NEW b \in Batches, db.batch[b].status = "NONE", NEW u
  PROVE  Honest(db, maybe_promote_so_to_picked(record_admin_pick(db, l, bin, q, b, u), l[1]))
<1> DEFINE new == record_admin_pick(db, l, bin, q, b, u)
           done == [new EXCEPT !.order[l[1]].status = "PICKED"]
<1>1. Books(new) /\ Honest(db, new) /\ new.order = db.order
  <2>1. Books(new)
    BY AdminPickBooks
  <2>2. Honest(db, new)
    BY AdminPickRowHonest
  <2>3. new.order = db.order
    BY DEF record_admin_pick, Books, Session
  <2> QED BY <2>1, <2>2, <2>3
<1> HIDE DEF new
<1>2. Books(done)
  BY <1>1, OrderRowBooks
<1>3. Honest(new, done)
  <2>1. ~Frozen(new.order, l[1])
    BY <1>1 DEF Frozen
  <2> QED BY <1>1, <2>1, StatusHonest DEF Honest
<1>4. Honest(db, done)
  BY <1>1, <1>2, <1>3, HonestTwice
<1> QED BY <1>1, <1>4 DEF maybe_promote_so_to_picked, new

-----------------------------------------------------------------------------
(* The order desk *)

LEMMA CreateOrderStep ==
  ASSUME Steady, NEW o, NEW cart \in Carts, create_sales_order(o, cart)
  PROVE  HonestStep
<1>1. CartRow(cart)
  BY QuantitiesNat DEF Carts, CartRow
<1>2. o \in Orders /\ order[o].status = "NONE" /\ Commit(Entered(Db, o, cart))
  BY DEF create_sales_order, FreshOrder, Unborn
<1>3. Honest(Db, Entered(Db, o, cart)) /\ Session(Entered(Db, o, cart))
  <2>1. Honest(Db, Entered(Db, o, cart))
    BY <1>1, <1>2, SteadyBooks, DbRows, EntryHonest
  <2>2. Books(Entered(Db, o, cart))
    BY <1>1, SteadyBooks, EntryBooks
  <2> QED BY <2>1, <2>2 DEF Books
<1> QED BY <1>2, <1>3, CommitHonest

LEMMA AllocateHonest ==
  ASSUME Steady, NEW l \in Lines, NEW d, adjust_sales_order_line_allocation(l, d)
  PROVE  HonestStep
<1>1. PICK target, need :
        /\ inventory' = ReserveWalk(inventory, l[2], need) \/ inventory' = ReleaseWalk(inventory, l[2], need)
        /\ line' = [line EXCEPT ![l] = [line[l] EXCEPT !.allocated = target]]
        /\ UNCHANGED <<order, batch, task>>
  BY DEF adjust_sales_order_line_allocation
<1>2. SameUnitRows(inventory, inventory')
  BY <1>1, SteadyBooks, WalksKeepUnits
<1>3. SameUnitLines(line, line')
  <2>1. \A m \in Lines : LikeLine(line[m], line[m])
    BY DEF LikeLine
  <2>2. LikeLine([line[l] EXCEPT !.allocated = target], line[l])
    BY SteadyBooks, UnitRows
  <2>3. DOMAIN line = Lines
    BY SteadyBooks DEF LineTable
  <2> DEFINE row == [line[l] EXCEPT !.allocated = target]
  <2> HIDE DEF row
  <2>4. line' = [line EXCEPT ![l] = row] /\ LikeLine(row, line[l])
    BY <1>1, <2>2 DEF row
  <2> QED BY <2>1, <2>3, <2>4 DEF SameUnitLines
<1> QED BY <1>1, <1>2, <1>3, SteadyBooks, SameLasts, SameStays, KeptStep

LEMMA StatusStep ==
  ASSUME Steady, Does("status"), NEW o,
         \/ \E status \in {"FRAUD_REVIEW", "OPEN"} : update_sales_order(o, status)
         \/ push_sales_order_to_queue(o)
  PROVE  HonestStep
<1>1. PICK s \in {"FRAUD_REVIEW", "OPEN"} :
        order' = [order EXCEPT ![o].status = s] /\ UNCHANGED <<inventory, line, batch, task>>
  BY DEF update_sales_order, push_sales_order_to_queue
<1>2. ~ (Exact /\ Does("revert") /\ o \in Orders /\ Frozen(order, o))
  BY DEF Exact, Frozen
<1>3. Lasting(order, order') /\ StaysFrozen(order, order')
  BY <1>1, <1>2, SteadyBooks, OrderStays
<1> QED BY <1>1, <1>3, SameStays, KeptStep

LEMMA CancelStep ==
  ASSUME Steady, NEW o \in Orders, Does("cancel"),
         cancel_sales_order(o) \/ \E refunded \in BOOLEAN : cancel_backorder(o, refunded)
  PROVE  HonestStep
<1> DEFINE done == Cancelled(Db, o)
           new  == [done EXCEPT !.order[o].status = "REFUNDED"]
<1>1. Commit(done) \/ Commit(new)
  BY DEF cancel_sales_order, cancel_backorder
<1>2. Honest(Db, done) /\ Honest(Db, new)
  BY SteadyBooks, CancelledHonest
<1>3. Books(done)
  BY SteadyBooks, CancelledBooks
<1> HIDE DEF done
<1>4. Books(new)
  BY <1>3, OrderRowBooks
<1> HIDE DEF new
<1> QED BY <1>1, <1>2, <1>3, <1>4, CommitHonest DEF Books

LEMMA RevertStep ==
  ASSUME Steady, Does("revert"), NEW o \in Orders, NEW target \in Ladder, NEW T,
         revert_sales_order_status(o, target, T)
  PROVE  HonestStep
<1> DEFINE db == ReleasePicks(Db, T)
           unpacks  == Rank(order[o].status) >= Rank("PACKED") /\ Rank(target) < Rank("PACKED")
           unpacked == [l \in Lines |-> IF unpacks /\ l[1] = o THEN [db.line[l] EXCEPT !.packed = 0]
                                        ELSE db.line[l]]
           new == [db EXCEPT !.line = unpacked, !.order[o].status = target]
<1>1. /\ T \subseteq {t \in Db.task : t.order = o /\ t.status = "PICKED"}
      /\ order[o].status \in Ladder /\ Commit(new)
  BY DbRows DEF revert_sales_order_status, PickedTasks, MayRevert
<1>2. Honest(Db, db)
  BY <1>1, SteadyBooks, ReleaseHonest, DbRows
<1>3. Books(db) /\ db.order = order
  <2>1. Books(db)
    BY <1>1, SteadyBooks, ReleaseBooks
  <2> QED BY <2>1, DbRows DEF ReleasePicks, Session
<1> HIDE DEF db, unpacks
<1>4. LineTable(unpacked) /\ SameUnitLines(db.line, unpacked)
  <2>1. ASSUME NEW l \in Lines PROVE unpacked[l] \in LineRow /\ LikeLine(unpacked[l], db.line[l])
    <3>1. db.line[l] \in LineRow /\ [db.line[l] EXCEPT !.packed = 0] \in LineRow
      <4>1. db.line[l] \in LineRow
        BY <1>3, LineRows DEF Books
      <4> QED BY <4>1 DEF LineRow
    <3>2. LikeLine([db.line[l] EXCEPT !.packed = 0], db.line[l]) /\ LikeLine(db.line[l], db.line[l])
      BY <1>3, UnitRows DEF Books
    <3>3. unpacked[l] = [db.line[l] EXCEPT !.packed = 0] \/ unpacked[l] = db.line[l]
      OBVIOUS
    <3> HIDE DEF unpacked
    <3> QED BY <3>1, <3>2, <3>3
  <2>2. unpacked = [l \in Lines |-> unpacked[l]]
    OBVIOUS
  <2> HIDE DEF unpacked
  <2> QED BY <2>1, <2>2, LineTableRows DEF SameUnitLines
<1> HIDE DEF unpacked
<1>5. /\ Session(new) /\ new.inv = db.inv /\ new.task = db.task /\ new.line = unpacked /\ new.batch = db.batch
      /\ new.order = [order EXCEPT ![o].status = target]
  BY <1>3 DEF Books, Session
<1> HIDE DEF new
<1>6. Books(new)
  BY <1>3, <1>4, <1>5 DEF Books
<1>7. Lasting(order, new.order) /\ StaysFrozen(order, new.order)
  <2>1. target # "NONE" /\ order[o].status \notin {"CANCELLED", "REFUNDED", "RECEIVED", "PARTIALLY_RECEIVED"}
    BY <1>1 DEF Ladder
  <2>2. \A p \in Orders : new.order[p].status = IF p = o THEN target ELSE order[p].status
    BY <1>5, SteadyBooks DEF OrderTable
  <2>3. OrderTable(new.order)
    BY <1>5, SteadyBooks DEF OrderTable
  <2>4. Lasting(order, new.order)
    BY <2>1, <2>2, <2>3 DEF Lasting
  <2>5. StaysFrozen(order, new.order)
    BY <2>1, <2>2 DEF StaysFrozen, Frozen
  <2> QED BY <2>4, <2>5
<1>8. Counted(db)
  BY <1>2 DEF Honest
<1>9. StayClosed(db.batch, new.batch) /\ TasksGoOn(db, new) /\ SameUnitRows(db.inv, new.inv)
      /\ SameUnitLines(db.line, new.line)
  <2>1. new.task \subseteq db.task
    BY <1>5
  <2> QED BY <1>4, <1>5, <1>8, <2>1, SameStays, SameTasksGoOn DEF Counted
<1>10. Honest(db, new)
  BY <1>3, <1>6, <1>7, <1>8, <1>9, SteadyBooks, HonestKept
<1>11. Honest(Db, new)
  BY <1>2, <1>3, <1>6, <1>10, SteadyBooks, HonestTwice
<1> QED BY <1>1, <1>5, <1>11, CommitHonest

LEMMA AdminPickStep ==
  ASSUME Steady, Does("admin_pick"), NEW l \in Lines, NEW bin \in Bins, NEW q \in Quantities, NEW u,
         admin_pick_sales_order(l, bin, q, u)
  PROVE  HonestStep
<1>1. PICK b \in Batches :
        /\ batch[b].status = "NONE"
        /\ Commit(maybe_promote_so_to_picked(record_admin_pick(Db, l, bin, q, b, u), l[1]))
  BY DEF admin_pick_sales_order, FreshBatch
<1>2. /\ q <= Available(Db.inv, l[2], bin) /\ TakesFree /\ q \in Nat
      /\ line[l].row = "live" /\ order[l[1]].status = "OPEN"
  <2>1. q <= Available(inventory, l[2], bin)
    <3>1. <<l[2], bin>> \in Rows /\ q \in Nat
      BY RowsOfStock, QuantitiesNat DEF Lines
    <3>2. Available(inventory, l[2], bin) \in Int
      BY <3>1, SteadyBooks, RowOfShelf DEF Available
    <3>3. Available(inventory, l[2], bin) >= q
      BY DEF admin_pick_sales_order
    <3> QED BY <3>1, <3>2, <3>3
  <2> QED BY <2>1, QuantitiesNat, DbRows DEF TakesFree, admin_pick_sales_order
<1> DEFINE new == maybe_promote_so_to_picked(record_admin_pick(Db, l, bin, q, b, u), l[1])
<1>3. Honest(Db, new)
  BY <1>1, <1>2, SteadyBooks, DbRows, AdminPickHonest
<1>4. Books(new)
  BY <1>2, SteadyBooks, AdminPickBooks
<1> HIDE DEF new
<1>5. Commit(new)
  BY <1>1 DEF new
<1> QED BY <1>3, <1>4, <1>5, CommitHonest DEF Books

\* a line is short-closed: the short part is written off, and waits in a backorder
LEMMA PartialStep ==
  ASSUME Steady, Does("partial"), NEW l \in Lines, NEW q \in Quantities, NEW bo,
         partial_fulfill_sales_order(l, q, bo)
  PROVE  PaidStep(Loss(l[2], WrittenOff(l[2], q))) /\ WrittenOff(l[2], q) \in Nat
<1> DEFINE left == line[l].ordered - q
           db1 == IF left = 0 THEN DeleteLine(Db, l) ELSE [Db EXCEPT !.line[l].ordered = left]
           db2 == [db1 EXCEPT !.inv = take_floored(@, l[2], FullestBin(l[2]), WrittenOff(l[2], q))]
           db3 == WithBackorderFor(db2, l, q, bo)
           loss == Loss(l[2], WrittenOff(l[2], q))
<1>1. q \in Nat /\ l[2] \in Items
  BY QuantitiesNat DEF Lines
<1>2. line[l] \in LineRow /\ line[l].ordered \in Nat /\ line[l].picked \in Nat
  BY SteadyBooks, LineRows
<1>3. /\ q <= line[l].ordered - line[l].picked /\ line[l].row = "live"
      /\ bo \in Orders /\ order[bo].status = "NONE" /\ Commit(db3)
  BY DEF partial_fulfill_sales_order, MayShortClose, FreshOrder, Unborn
<1>4. left \in Nat /\ (left = 0 => line[l].picked = 0)
  BY <1>1, <1>2, <1>3
<1>5. Books(db1) /\ Honest(Db, db1) /\ db1.inv = inventory /\ db1.order = order
  <2> HIDE DEF left
  <2> DEFINE row == [line[l] EXCEPT !.ordered = left]
  <2>1. CASE left = 0
    <3>1. Books(DeleteLine(Db, l)) /\ DeleteLine(Db, l).inv = inventory /\ DeleteLine(Db, l).order = order
      BY SteadyBooks, DeleteLineBooks DEF DeleteLine, Db
    <3>2. Honest(Db, DeleteLine(Db, l))
      BY <1>3, <1>4, <2>1, SteadyBooks, DbRows, DeleteLineHonest
    <3> QED BY <2>1, <3>1, <3>2
  <2>2. CASE left # 0
    <3>1. row \in LineRow /\ LikeLine(row, line[l])
      <4>1. row \in LineRow
        BY <1>2, <1>4 DEF LineRow
      <4> QED BY <4>1, SteadyBooks, UnitRows
    <3>2. [Db EXCEPT !.line[l].ordered = left] = [Db EXCEPT !.line[l] = row]
      BY DEF Db
    <3>3. [Db EXCEPT !.line[l] = row].inv = inventory /\ [Db EXCEPT !.line[l] = row].order = order
      BY DEF Db
    <3> HIDE DEF row
    <3>4. Books([Db EXCEPT !.line[l] = row])
      BY <3>1, SteadyBooks, LineRowBooks
    <3>5. Honest(Db, [Db EXCEPT !.line[l] = row])
      BY <3>1, SteadyBooks, DbRows, LineHonest
    <3> QED BY <2>2, <3>2, <3>3, <3>4, <3>5
  <2> QED BY <2>1, <2>2
<1> HIDE DEF db1
<1>6. /\ Books(db2) /\ Paid(db1, db2, loss) /\ WrittenOff(l[2], q) \in Nat /\ db2.order = order
  <2>1. Counted(db1)
    BY <1>5 DEF Honest
  <2>2. Paid(db1, db2, loss) /\ WrittenOff(l[2], q) \in Nat
    BY <1>1, <1>5, <2>1, SteadyBooks, WriteOffPaid
  <2>3. Books(db2)
    BY <1>1, <1>5, WriteOffBooks
  <2>4. db2.order = order
    BY <1>5 DEF Books, Session
  <2> QED BY <2>2, <2>3, <2>4
<1> HIDE DEF db2
<1>7. Books(db3) /\ Honest(db2, db3)
  <2>1. Counted(db2)
    BY <1>6 DEF Paid
  <2>2. Books(db3)
    BY <1>1, <1>6, BackorderBooks
  <2>3. Honest(db2, db3)
    BY <1>1, <1>3, <1>6, <2>1, SteadyBooks, BackorderHonest
  <2> QED BY <2>2, <2>3
<1> HIDE DEF db3
<1>8. loss \in [Items -> Int] /\ NoGain \in [Items -> Int]
  BY <1>6 DEF Loss, NoGain
<1> HIDE DEF loss
<1> DEFINE g == [i \in Items |-> NoGain[i] + loss[i]]
           h == [i \in Items |-> g[i] + NoGain[i]]
<1>9. g \in [Items -> Int] /\ h = loss
  <2>1. \A i \in Items : NoGain[i] = 0 /\ loss[i] \in Int
    BY <1>8 DEF NoGain
  <2>2. \A i \in Items : NoGain[i] + loss[i] = loss[i] /\ loss[i] + NoGain[i] = loss[i]
    BY <2>1
  <2>3. g = [i \in Items |-> loss[i]]
    BY <2>2
  <2>4. [i \in Items |-> loss[i]] = loss
    BY <1>8
  <2> QED BY <1>8, <2>2, <2>3, <2>4
<1>10. Paid(Db, db2, g)
  <2>1. Paid(Db, db1, NoGain)
    BY <1>5, SteadyBooks, HonestPays
  <2> QED BY <1>5, <1>6, <1>8, <2>1, SteadyBooks, PaidTwice
<1>11. Paid(Db, db3, loss)
  <2>1. Paid(db2, db3, NoGain)
    BY <1>6, <1>7, SteadyBooks, HonestPays
  <2>2. g \in [Items -> Int]
    BY <1>9
  <2>3. Paid(Db, db3, h)
    <3> HIDE DEF g
    <3> QED BY <1>6, <1>7, <1>8, <1>10, <2>1, <2>2, SteadyBooks, PaidTwice
  <2> QED BY <1>9, <2>3
<1>12. PaidStep(loss)
  BY <1>3, <1>7, <1>11, CommitHonest DEF Books
<1> QED BY <1>6, <1>12 DEF loss

LEMMA AddLineStep ==
  ASSUME Steady, NEW l \in Lines, NEW q, add_sales_order_line(l, q)
  PROVE  HonestStep
<1>1. /\ line' = [line EXCEPT ![l] = NewLine(q)] /\ UNCHANGED <<inventory, order, batch, task>>
      /\ line[l].row = "none" /\ order[l[1]].status # "NONE"
  BY DEF add_sales_order_line, _so_line_edit_gate
<1>2. NewLine(q).row = "live" /\ NewLine(q).picked = 0
  BY DEF NewLine, NoLine
<1>3. \A m \in Lines : \/ LikeLine(line'[m], line[m])
                       \/ /\ line[m].row = "none" /\ line'[m].row = "live" /\ line'[m].picked = 0
                          /\ order'[m[1]].status # "NONE"
  BY <1>1, <1>2, SteadyBooks DEF LineTable, LikeLine
<1> QED BY <1>1, <1>3, SteadyBooks, SameLasts, SameStays, GrownStep

LEMMA UpdateLineStep ==
  ASSUME Steady, NEW l \in Lines, NEW q \in Quantities, update_sales_order_line(l, q)
  PROVE  HonestStep
<1> DEFINE db1 == IF q < line[l].allocated THEN _release_so_line_allocation(Db, l) ELSE Db
           row == [db1.line[l] EXCEPT !.ordered = q]
           new == [db1 EXCEPT !.line[l] = row]
<1>1. Books(db1) /\ Honest(Db, db1)
  BY SteadyBooks, LineReleaseBooks, LineReleaseHonest, SameHonest
<1>2. Commit([db1 EXCEPT !.line[l].ordered = q])
  BY DEF update_sales_order_line
<1> HIDE DEF db1
<1>3. [db1 EXCEPT !.line[l].ordered = q] = new
  OBVIOUS
<1>4. row \in LineRow /\ LikeLine(row, db1.line[l])
  <2>1. db1.line[l] \in LineRow /\ q \in Nat
    BY <1>1, LineRows, QuantitiesNat DEF Books
  <2>2. row \in LineRow
    BY <2>1 DEF LineRow
  <2> QED BY <1>1, <2>2, UnitRows DEF Books
<1> HIDE DEF row
<1>5. Books(new) /\ Honest(db1, new)
  BY <1>1, <1>4, SteadyBooks, LineRowBooks, LineHonest DEF Honest
<1> HIDE DEF new
<1>6. Honest(Db, new)
  BY <1>1, <1>5, SteadyBooks, HonestTwice
<1> QED BY <1>2, <1>3, <1>5, <1>6, CommitHonest DEF Books

LEMMA DropLineStep ==
  ASSUME Steady, NEW l \in Lines, delete_sales_order_line(l)
  PROVE  HonestStep
<1> DEFINE db1 == _release_so_line_allocation(Db, l)
           new == DeleteLine(db1, l)
<1>1. Books(db1) /\ Honest(Db, db1)
  BY SteadyBooks, LineReleaseBooks, LineReleaseHonest
<1>2. Commit(new) /\ line[l].row = "live" /\ line[l].picked = 0
  BY DEF delete_sales_order_line
<1>3. LikeLine(db1.line[l], line[l])
  <2>1. LikeLine(line[l], line[l]) /\ LikeLine([line[l] EXCEPT !.allocated = 0], line[l])
    BY SteadyBooks, UnitRows
  <2>2. db1.line[l] = line[l] \/ db1.line[l] = [line[l] EXCEPT !.allocated = 0]
    BY SteadyBooks DEF _release_so_line_allocation, Db, LineTable
  <2> QED BY <2>1, <2>2
<1> HIDE DEF db1
<1>4. Books(new) /\ Honest(db1, new)
  BY <1>1, <1>2, <1>3, SteadyBooks, DeleteLineBooks, DeleteLineHonest DEF LikeLine, Honest
<1> HIDE DEF new
<1>5. Honest(Db, new)
  BY <1>1, <1>4, SteadyBooks, HonestTwice
<1> QED BY <1>2, <1>4, <1>5, CommitHonest DEF Books

LEMMA OrderDeskPays ==
  ASSUME Steady, OrderDesk
  PROVE  /\ UNCHANGED receipt
         /\ \/ HonestStep /\ UNCHANGED adjustment
            \/ \E i \in Items, n \in Nat : /\ PaidStep(Loss(i, n))
                                           /\ adjustment' = [adjustment EXCEPT ![i] = @ - n]
<1> DEFINE Pays == /\ UNCHANGED receipt
                   /\ \/ HonestStep /\ UNCHANGED adjustment
                      \/ \E i \in Items, n \in Nat : /\ PaidStep(Loss(i, n))
                                                     /\ adjustment' = [adjustment EXCEPT ![i] = @ - n]
<1>1. ASSUME NEW o, NEW cart \in Carts, create_sales_order(o, cart) PROVE Pays
  BY <1>1, CreateOrderStep DEF create_sales_order
<1>2. ASSUME NEW l \in Lines, NEW d, adjust_sales_order_line_allocation(l, d) PROVE Pays
  BY <1>2, AllocateHonest DEF adjust_sales_order_line_allocation
<1>3. ASSUME NEW o, Does("status"),
             \/ \E status \in {"FRAUD_REVIEW", "OPEN"} : update_sales_order(o, status)
             \/ push_sales_order_to_queue(o)
      PROVE  Pays
  BY <1>3, StatusStep DEF update_sales_order, push_sales_order_to_queue
<1>4. ASSUME NEW o \in Orders, Does("cancel"),
             cancel_sales_order(o) \/ \E refunded \in BOOLEAN : cancel_backorder(o, refunded)
      PROVE  Pays
  BY <1>4, CancelStep DEF cancel_sales_order, cancel_backorder
<1>5. ASSUME NEW o \in Orders, Does("revert"), NEW target \in Ladder, NEW T,
             revert_sales_order_status(o, target, T)
      PROVE  Pays
  BY <1>5, RevertStep DEF revert_sales_order_status
<1>6. ASSUME Does("admin_pick"), NEW l \in Lines, NEW bin \in Bins, NEW q \in Quantities, NEW u,
             admin_pick_sales_order(l, bin, q, u)
      PROVE  Pays
  BY <1>6, AdminPickStep DEF admin_pick_sales_order
<1>7. ASSUME Does("partial"), NEW l \in Lines, NEW q \in Quantities, NEW bo,
             partial_fulfill_sales_order(l, q, bo)
      PROVE  Pays
  <2> DEFINE n == WrittenOff(l[2], q)
  <2>1. l[2] \in Items
    BY DEF Lines
  <2>2. PaidStep(Loss(l[2], n)) /\ n \in Nat
    BY <1>7, PartialStep
  <2>3. adjustment' = [adjustment EXCEPT ![l[2]] = @ - n] /\ UNCHANGED receipt
    BY <1>7 DEF partial_fulfill_sales_order
  <2> HIDE DEF n
  <2> QED BY <2>1, <2>2, <2>3
<1>8. ASSUME NEW l \in Lines, NEW q \in Quantities,
             add_sales_order_line(l, q) \/ update_sales_order_line(l, q)
      PROVE  Pays
  BY <1>8, AddLineStep, UpdateLineStep DEF add_sales_order_line, update_sales_order_line
<1>9. ASSUME NEW l \in Lines, delete_sales_order_line(l) PROVE Pays
  BY <1>9, DropLineStep DEF delete_sales_order_line
<1>10. Born \subseteq Orders
  BY DEF Born
<1>11. CASE Does("create") /\ \E o \in NewOrder, cart \in Carts : create_sales_order(o, cart)
  BY <1>1, <1>11
<1>12. CASE Does("allocate") /\ \E l \in Lines, d \in (-MaxAllocationStep .. MaxAllocationStep) \ {0} :
              adjust_sales_order_line_allocation(l, d)
  BY <1>2, <1>12
<1>13. CASE Does("status") /\ \E o \in Born : \/ update_sales_order(o, "FRAUD_REVIEW")
                                             \/ update_sales_order(o, "OPEN")
                                             \/ push_sales_order_to_queue(o)
  BY <1>3, <1>13
<1>14. CASE Does("cancel") /\ \E o \in Born : \/ cancel_sales_order(o)
                                             \/ \E refunded \in BOOLEAN : cancel_backorder(o, refunded)
  BY <1>4, <1>10, <1>14
<1>15. CASE Does("revert") /\ \E o \in Born, target \in Ladder : \E T \in SUBSET PickedTasks(o) :
              revert_sales_order_status(o, target, T)
  BY <1>5, <1>10, <1>15
<1>16. CASE Does("admin_pick") /\ BatchesLeft /\ \E l \in Lines, q \in Quantities, b \in Bins, u \in desk.users :
              admin_pick_sales_order(l, b, q, u)
  BY <1>6, <1>16
<1>17. CASE Does("partial") /\ \E l \in Lines, q \in Quantities, bo \in NewOrder :
              partial_fulfill_sales_order(l, q, bo)
  BY <1>7, <1>17
<1>18. CASE Does("line") /\ \E l \in Lines, q \in Quantities :
              add_sales_order_line(l, q) \/ update_sales_order_line(l, q)
  BY <1>8, <1>18
<1>19. CASE Does("line") /\ \E l \in Lines : delete_sales_order_line(l)
  BY <1>9, <1>19
<1>20. Pays
  BY <1>11, <1>12, <1>13, <1>14, <1>15, <1>16, <1>17, <1>18, <1>19 DEF OrderDesk
<1> QED BY <1>20 DEF Pays

-----------------------------------------------------------------------------
(* Pick work *)

\* what a pick or a receipt in flight still holds when it is answered
AskFits(rows, m) ==
  /\ m.op \in {"confirm", "short"} => HandheldPicks /\ Tied(rows, m.task)
  /\ m.op = "receive" => m.line \in Lines
AsksFit == \A r \in Requests : AskFits(line, request[r])

LEMMA AsksKept ==
  ASSUME AsksFit, Forward(line, line'), UNCHANGED desk, DOMAIN request = Requests,
         \E m : \A r \in Requests : \/ request'[r] = request[r]
                                    \/ request'[r] = m /\ AskFits(line', m)
  PROVE  AsksFit'
<1>1. PICK m : \A r \in Requests : request'[r] = request[r] \/ (request'[r] = m /\ AskFits(line', m))
  OBVIOUS
<1>2. ASSUME NEW r \in Requests PROVE AskFits(line', request'[r])
  <2>1. AskFits(line, request[r])
    BY DEF AsksFit
  <2>2. Tied(line, request[r].task) => Tied(line', request[r].task)
    BY TiedKept
  <2> QED BY <1>1, <2>1, <2>2 DEF AskFits
<1> QED BY <1>2 DEF AsksFit, AskFits, Tied, HandheldPicks, Does

LEMMA StillStep ==
  ASSUME Steady, UNCHANGED <<inventory, order, line, batch, task>>
  PROVE  HonestStep
  BY SteadyBooks, SameLasts, SameStays, KeptStep

LEMMA UndoStep ==
  ASSUME Steady, NEW B, Commit(full_revert_batch(Db, B))
  PROVE  HonestStep
<1> DEFINE new == full_revert_batch(Db, B)
<1>1. Books(new) /\ Honest(Db, new) /\ Commit(new)
  BY SteadyBooks, RevertBooks, RevertHonest
<1> HIDE DEF new
<1> QED BY <1>1, CommitHonest DEF Books

LEMMA FinishStep ==
  ASSUME Steady, Requested, NEW r \in Requests, FinishCreate(r)
  PROVE  HonestStep
<1> DEFINE plan == request[r]
<1>1. PlanRow(plan) /\ LinesThere(Db, plan)
  BY DEF FinishCreate, Planning, Requested, Asked
<1>2. PICK b \in Batches : batch[b].status = "NONE" /\ Create(Db, plan, b)
  BY DEF FinishCreate, FreshBatch
<1> HIDE DEF plan
<1>3. PICK new : Books(new) /\ Honest(Db, new) /\ Commit(new)
  BY <1>1, <1>2, SteadyBooks, DbRows, CreateHonest
<1> QED BY <1>3, CommitHonest DEF Books

LEMMA OverPriorStep ==
  ASSUME Steady, NEW kind \in Kinds, NEW u, NEW O, CreateOverPrior(kind, u, O)
  PROVE  HonestStep
<1> DEFINE db == cancel_prior_user_batches(Db, u)
           plan == Plan(db, kind, u, O)
<1>1. PICK b \in Batches : batch[b].status = "NONE" /\ LinesThere(db, plan) /\ Create(db, plan, b)
  BY DEF CreateOverPrior, FreshBatch
<1>2. Books(db) /\ Honest(Db, db) /\ db.batch[b].status = "NONE"
  <2>1. Books(db) /\ Honest(Db, db)
    BY SteadyBooks, RevertBooks, RevertHonest DEF cancel_prior_user_batches
  <2>2. db.batch = [c \in Batches |-> IF c \in PriorOf(u) /\ batch[c].status = "OPEN"
                                      THEN [batch[c] EXCEPT !.status = "CANCELLED"] ELSE batch[c]]
    BY DEF cancel_prior_user_batches, full_revert_batch, Db
  <2> QED BY <1>1, <2>1, <2>2
<1>3. PlanRow(plan)
  <2> HIDE DEF db
  <2>1. kind \in {"batch", "wave"} /\ MayPend
    BY DEF Kinds, MayDip, MayPend
  <2> QED BY <1>2, <2>1, PlanIsPlan DEF Books
<1> HIDE DEF db, plan
<1>4. PICK new : Books(new) /\ Honest(db, new) /\ Commit(new)
  BY <1>1, <1>2, <1>3, SteadyBooks, CreateHonest DEF Honest
<1>5. Honest(Db, new)
  BY <1>2, <1>4, SteadyBooks, HonestTwice
<1> QED BY <1>4, <1>5, CommitHonest DEF Books

\* one request is made or answered, or none
Asking(m) == \A k \in Requests : request'[k] = request[k] \/ (request'[k] = m /\ AskFits(line', m))

LEMMA AskDone ==
  ASSUME AsksFit, Forward(line, line'), UNCHANGED desk, DOMAIN request = Requests, NEW m, Asking(m)
  PROVE  AsksFit'
<1>1. \E n : \A k \in Requests : request'[k] = request[k] \/ (request'[k] = n /\ AskFits(line', n))
  BY DEF Asking
<1> QED BY <1>1, AsksKept


LEMMA PickStep ==
  ASSUME Steady, Requested, AsksFit, NEW r \in Requests, ApplyPick(r)
  PROVE  HonestStep
<1> DEFINE t == request[r].task
           q == request[r].q
<1>1. /\ TaskRow(t) /\ q \in Nat /\ q <= t.qty /\ HandheldPicks /\ Tied(line, t)
      /\ Commit(confirm_pick(Db, t, q)) \/ Commit(short_pick(Db, t, q))
  BY DEF ApplyPick, Requested, Asked, AsksFit, AskFits
<1> HIDE DEF t, q
<1>2. Honest(Db, confirm_pick(Db, t, q)) /\ Honest(Db, short_pick(Db, t, q))
  BY <1>1, SteadyBooks, DbRows, PicksHonest
<1>3. Session(confirm_pick(Db, t, q)) /\ Session(short_pick(Db, t, q))
  BY DEF confirm_pick, short_pick, Session, Db
<1> QED BY <1>1, <1>2, <1>3, CommitHonest

LEMMA CompleteStep ==
  ASSUME Steady, Does("complete"), NEW b \in Batches, complete_batch(b)
  PROVE  HonestStep
<1>1. /\ batch' = [batch EXCEPT ![b].status = "COMPLETED"]
      /\ order' = [o \in Orders |-> IF o \in batch[b].orders
                                    THEN [order[o] EXCEPT !.status = "PICKED"] ELSE order[o]]
      /\ UNCHANGED <<inventory, line, task>>
  BY DEF complete_batch
<1>2. Lasting(order, order') /\ StaysFrozen(order, order')
  <2>1. \A o \in Orders : order'[o].status \in {"PICKED", order[o].status}
    BY <1>1, SteadyBooks DEF OrderTable
  <2>2. OrderTable(order')
    BY <1>1, SteadyBooks DEF OrderTable
  <2>3. Exact /\ Does("revert") => \A o \in Orders : ~Frozen(order, o)
    BY DEF Exact, Frozen
  <2> QED BY <2>1, <2>2, <2>3 DEF Lasting, StaysFrozen
<1>3. StayClosed(batch, batch')
  BY <1>1, SteadyBooks DEF BatchTable, StayClosed
<1>4. TasksGoOn(Db, Tomorrow)
  <2>1. Tomorrow.task \subseteq Db.task
    BY <1>1, DbRows, TomorrowRows
  <2> QED BY <2>1, SameTasksGoOn
<1> QED BY <1>1, <1>2, <1>3, <1>4, SteadyBooks, SameStays, HonestKept, DbRows, TomorrowRows DEF HonestStep

LEMMA HonestGoesOn ==
  ASSUME HonestStep
  PROVE  Forward(line, line') /\ Counted(Tomorrow)
  BY DbRows, TomorrowRows DEF HonestStep, Honest

LEMMA PaidGoesOn ==
  ASSUME NEW gain, PaidStep(gain)
  PROVE  Forward(line, line') /\ Counted(Tomorrow)
  BY DbRows, TomorrowRows DEF PaidStep, Paid

LEMMA AskWritten ==
  ASSUME DOMAIN request = Requests, NEW r, NEW m, AskFits(line', m),
         request' = request \/ request' = [request EXCEPT ![r] = m]
  PROVE  Asking(m)
  BY DEF Asking

LEMMA HonestAsks ==
  ASSUME Steady, Requested, AsksFit, HonestStep, \E m : Asking(m)
  PROVE  HonestStep /\ AsksFit'
<1>1. DOMAIN request = Requests /\ UNCHANGED desk
  BY DEF Requested, Steady
<1>2. Forward(line, line')
  BY HonestGoesOn
<1> QED BY <1>1, <1>2, AskDone

LEMMA PickWorkPays ==
  ASSUME Steady, Requested, AsksFit, PickWork
  PROVE  HonestStep /\ AsksFit'
<1>1. DOMAIN request = Requests /\ UNCHANGED desk /\ AskFits(line', Idle)
  BY DEF Requested, Steady, AskFits, Idle
<1>2. HonestStep /\ (\E m : Asking(m)) => HonestStep /\ AsksFit'
  BY HonestAsks
<1>3. ASSUME NEW r \in Requests, NEW kind \in Kinds, NEW u, NEW O, BeginCreate(r, kind, u, O)
      PROVE  HonestStep /\ AsksFit'
  <2> DEFINE m == Plan(Db, kind, u, O)
  <2>1. request' = [request EXCEPT ![r] = m] /\ UNCHANGED <<inventory, order, line, batch, task>>
    BY <1>3 DEF BeginCreate, Unchanged
  <2>2. AskFits(line', m)
    BY DEF AskFits, Plan, Kinds
  <2> HIDE DEF m
  <2>3. Asking(m)
    BY <1>1, <2>1, <2>2, AskWritten
  <2> QED BY <1>2, <2>1, <2>3, StillStep
<1>4. ASSUME NEW kind \in Kinds, NEW u, NEW O, CreateOverPrior(kind, u, O)
      PROVE  HonestStep /\ AsksFit'
  <2>1. request' = request
    BY <1>4 DEF CreateOverPrior
  <2>2. Asking(Idle)
    BY <2>1 DEF Asking
  <2> QED BY <1>2, <1>4, <2>2, OverPriorStep
<1>5. ASSUME NEW r \in Requests, FinishCreate(r)
      PROVE  HonestStep /\ AsksFit'
  <2>1. request' = [request EXCEPT ![r] = Idle]
    BY <1>5 DEF FinishCreate
  <2>2. Asking(Idle)
    BY <1>1, <2>1, AskWritten
  <2> QED BY <1>2, <1>5, <2>2, FinishStep
<1>6. ASSUME NEW r \in Requests, RefuseCreate(r)
      PROVE  HonestStep /\ AsksFit'
  <2>1. request' = [request EXCEPT ![r] = Idle]
        /\ (Unchanged \/ \E b : Commit(full_revert_batch(Db, {b})))
    BY <1>6 DEF RefuseCreate
  <2>2. Asking(Idle)
    BY <1>1, <2>1, AskWritten
  <2>3. HonestStep
    BY <2>1, UndoStep, StillStep DEF Unchanged
  <2> QED BY <1>2, <2>2, <2>3
<1>7. ASSUME NEW r \in Requests, NEW t \in task, NEW op \in desk.ops \cap {"confirm", "short"}, NEW q,
             LoadTask(r, op, t, q)
      PROVE  HonestStep /\ AsksFit'
  <2> DEFINE m == [op |-> op, task |-> t, q |-> q]
  <2>1. request' = [request EXCEPT ![r] = m] /\ UNCHANGED <<inventory, order, line, batch, task>>
    BY <1>7 DEF LoadTask, Unchanged
  <2>2. HandheldPicks /\ Tied(line, t)
    BY SteadyBooks, DbRows DEF HandheldPicks, Does, Counted
  <2>3. AskFits(line', m)
    BY <2>1, <2>2 DEF AskFits
  <2> HIDE DEF m
  <2>4. Asking(m)
    BY <1>1, <2>1, <2>3, AskWritten
  <2> QED BY <1>2, <2>1, <2>4, StillStep
<1>8. ASSUME NEW r \in Requests, ApplyPick(r)
      PROVE  HonestStep /\ AsksFit'
  <2>1. request' = [request EXCEPT ![r] = Idle]
    BY <1>8 DEF ApplyPick
  <2>2. Asking(Idle)
    BY <1>1, <2>1, AskWritten
  <2> QED BY <1>2, <1>8, <2>2, PickStep
<1>9. ASSUME NEW b \in Batches, \/ Does("complete") /\ complete_batch(b)
                                \/ Does("cancel_batch") /\ cancel_batch(b)
      PROVE  HonestStep /\ AsksFit'
  <2>1. request' = request
    BY <1>9 DEF complete_batch, cancel_batch
  <2>2. Asking(Idle)
    BY <2>1 DEF Asking
  <2>3. HonestStep
    BY <1>9, CompleteStep, UndoStep DEF cancel_batch
  <2> QED BY <1>2, <2>2, <2>3
<1>10. ASSUME NEW r \in Requests, PlanWave(r)
       PROVE  HonestStep /\ AsksFit'
  <2>1. PICK m : m.op = "wave" /\ request' = [request EXCEPT ![r] = m]
    BY <1>10 DEF PlanWave
  <2>2. UNCHANGED <<inventory, order, line, batch, task>>
    BY <1>10 DEF PlanWave, Unchanged
  <2>3. AskFits(line', m)
    BY <2>1 DEF AskFits
  <2>4. Asking(m)
    BY <1>1, <2>1, <2>3, AskWritten
  <2> QED BY <1>2, <2>2, <2>4, StillStep
<1> QED BY <1>3, <1>4, <1>5, <1>6, <1>7, <1>8, <1>9, <1>10 DEF PickWork

-----------------------------------------------------------------------------
(* Units come in over the counter of the returns desk *)

Found(i, q) == [j \in Items |-> IF j = i THEN q ELSE 0]

\* orders and lines are entered, also lines that are picked already
LEMMA GrownOn ==
  ASSUME Steady, Lasting(order, order'), StaysFrozen(order, order'), batch' = batch, task' = task,
         \A l \in Lines : \/ LikeLine(line'[l], line[l])
                          \/ line[l].row = "none" /\ line'[l].row = "live" /\ order'[l[1]].status # "NONE"
  PROVE  Forward(line, line') /\ Counted(Tomorrow)
<1>0. \A l \in Lines : l[1] \in Orders
  BY DEF Lines
<1>1. LinesFit(Db)
  BY SteadyBooks DEF Counted
<1>2. Forward(line, line')
  BY DEF LikeLine, Forward
<1>3. LinesFit(Tomorrow)
  <2>1. \A l \in Lines : line'[l].row # "live" => line'[l].picked = 0
    BY <1>1, DbRows DEF LikeLine, LinesFit
  <2>2. \A l \in Lines : order'[l[1]].status = "NONE" => line'[l].row = "none"
    BY <1>0, <1>1, DbRows DEF LikeLine, LinesFit, Lasting
  <2>3. OrderTable(order')
    BY DEF Lasting
  <2> QED BY <2>1, <2>2, <2>3, TomorrowRows DEF LinesFit
<1>4. Exact /\ Does("revert") => KeepPicks(Db, Tomorrow)
  <2> SUFFICES ASSUME Exact, Does("revert") PROVE KeepPicks(Db, Tomorrow)
    OBVIOUS
  <2>1. \A o \in Orders, i \in Items : <<o, i>> \in Lines
    BY DEF Lines
  <2>2. LineTable(line) /\ LineTable(line')
    BY SteadyBooks, TomorrowRows DEF Books
  <2>3. \A l \in Lines : line[l].picked \in Nat /\ line'[l].picked \in Nat
    BY <2>2, LineRows
  <2>4. \A l \in Lines : line[l].picked <= line'[l].picked
    BY <1>1, <2>3, DbRows DEF LikeLine, LinesFit
  <2> QED BY <2>1, <2>4, DbRows, TomorrowRows DEF KeepPicks, StaysFrozen
<1>5. StayClosed(Db.batch, Tomorrow.batch) /\ TasksGoOn(Db, Tomorrow)
  <2>1. Tomorrow.task \subseteq Db.task
    BY DbRows, TomorrowRows
  <2> QED BY <2>1, SteadyBooks, SameStays, SameTasksGoOn, DbRows, TomorrowRows
<1>6. LineTable(Tomorrow.line)
  BY SteadyBooks DEF Books
<1>7. Counted(Tomorrow)
  BY <1>2, <1>3, <1>4, <1>5, <1>6, SteadyBooks, KeepsCounted, DbRows, TomorrowRows
<1> QED BY <1>2, <1>7

\* so many units more on one row, and none on a line
LEMMA RowPays ==
  ASSUME Steady, Forward(line, line'), Counted(Tomorrow), \A l \in Lines : line'[l].picked = line[l].picked,
         NEW r \in Rows, NEW q \in Int, \A s \in Rows : s # r => inventory'[s].on_hand = inventory[s].on_hand,
         inventory'[r].on_hand = inventory[r].on_hand + q
  PROVE  PaidStep(Found(r[1], q))
<1>1. Shelf(inventory) /\ Shelf(inventory') /\ ~Unfloored
  BY SteadyBooks, TomorrowRows DEF Books
<1>2. inventory[r].on_hand \in Int
  BY <1>1, RowOfShelf
<1>3. \A i \in Items :
        OnHand(inventory', i) = OnHand(inventory, i)
          + IF i = r[1] THEN inventory'[r].on_hand - inventory[r].on_hand ELSE 0
  BY <1>1, OneRow
<1>4. \A i \in Items : PickedIn(line', i) = PickedIn(line, i)
  BY SameLines
<1>5. ASSUME NEW i \in Items PROVE UnitsIn(Tomorrow, i) = UnitsIn(Db, i) + Found(r[1], q)[i]
  <2> DEFINE a == OnHand(inventory, i)
             b == OnHand(inventory', i)
             p == PickedIn(line, i)
             old == inventory[r].on_hand
             new == inventory'[r].on_hand
  <2>1. a \in Nat
    BY <1>1, OnHandUnits
  <2>2. p \in Nat
    BY SteadyBooks, PickedUnits
  <2>3. UnitsIn(Db, i) = a + p
    BY DbRows DEF UnitsIn
  <2>4. UnitsIn(Tomorrow, i) = b + PickedIn(line', i)
    BY TomorrowRows DEF UnitsIn
  <2>5. PickedIn(line', i) = p
    BY <1>4
  <2>6. b = a + IF i = r[1] THEN new - old ELSE 0
    BY <1>3
  <2>7. new = old + q /\ old \in Int
    BY <1>2
  <2>8. Found(r[1], q)[i] = IF i = r[1] THEN q ELSE 0
    BY DEF Found
  <2> HIDE DEF a, b, p, old, new
  <2> QED BY <2>1, <2>2, <2>3, <2>4, <2>5, <2>6, <2>7, <2>8
<1>6. \A i \in Items : UnitsIn(Db, i) \in Nat /\ UnitsIn(Tomorrow, i) \in Nat
  BY SteadyBooks, UnitsType
<1>7. \A i \in Items : UnitsIn(Tomorrow, i) >= UnitsIn(Db, i) + Found(r[1], q)[i]
  BY <1>5, <1>6
<1> QED BY <1>5, <1>7, DbRows, TomorrowRows DEF PaidStep, Paid

LEMMA CreateRmaStep ==
  ASSUME Steady, NEW o \in NewOrder, NEW l \in Lines, NEW q, create_rma(o, l, q)
  PROVE  HonestStep
<1> DEFINE row == ReturnRow(l[1])
           k == <<o, l[2]>>
<1>1. /\ order' = [order EXCEPT ![o] = row] /\ line' = [line EXCEPT ![k] = NewLine(q)]
      /\ UNCHANGED <<inventory, batch, task>> /\ o \in Orders /\ order[o].status = "NONE"
  BY DEF create_rma, NewOrder, FreshOrder, Unborn
<1>2. DOMAIN row = {"status", "kind", "parent", "voided"} /\ row.status # "NONE"
  BY DEF ReturnRow, NoOrder
<1>3. k \in Lines /\ k[1] = o
  BY <1>1 DEF Lines
<1> HIDE DEF row, k
<1>4. Lasting(order, order') /\ StaysFrozen(order, order') /\ order'[o].status # "NONE"
  BY <1>1, <1>2, SteadyBooks, BirthStays DEF OrderTable
<1>5. line[k].row = "none"
  BY <1>1, <1>3, SteadyBooks, DbRows DEF Counted, LinesFit
<1>6. line'[k].row = "live" /\ line'[k].picked = 0
  BY <1>1, <1>3, SteadyBooks DEF LineTable, NewLine, NoLine
<1>7. \A m \in Lines : m # k => line'[m] = line[m]
  BY <1>1, SteadyBooks DEF LineTable
<1>8. \A m \in Lines : \/ LikeLine(line'[m], line[m])
                       \/ /\ line[m].row = "none" /\ line'[m].row = "live" /\ line'[m].picked = 0
                          /\ order'[m[1]].status # "NONE"
  BY <1>3, <1>4, <1>5, <1>6, <1>7 DEF LikeLine
<1>9. SameUnitRows(inventory, inventory')
  BY <1>1, SameStays
<1> QED BY <1>1, <1>4, <1>8, <1>9, GrownStep

\* a request that is answered, and one that is made
LEMMA AnswerAsks ==
  ASSUME Steady, Requested, AsksFit, NEW r, NEW m,
         request' = request \/ request' = [request EXCEPT ![r] = m],
         m.op \notin {"confirm", "short"}, m.op = "receive" => m.line \in Lines
  PROVE  \E n : Asking(n)
<1>1. AskFits(line', m)
  BY DEF AskFits
<1>2. DOMAIN request = Requests
  BY DEF Requested
<1>3. Asking(m)
  BY <1>1, <1>2, AskWritten
<1> QED BY <1>3

LEMMA DoneAsks ==
  ASSUME Steady, Requested, AsksFit,
         request' = request \/ \E r : request' = [request EXCEPT ![r] = Idle]
  PROVE  \E n : Asking(n)
<1>1. Idle.op \notin {"confirm", "short", "receive"}
  BY DEF Idle
<1>2. PICK r : request' = request \/ request' = [request EXCEPT ![r] = Idle]
  OBVIOUS
<1> QED BY <1>1, <1>2, AnswerAsks

LEMMA PaidAsks ==
  ASSUME Steady, Requested, AsksFit, NEW gain, PaidStep(gain), \E n : Asking(n)
  PROVE  AsksFit'
<1>1. DOMAIN request = Requests /\ UNCHANGED desk
  BY DEF Requested, Steady
<1>2. Forward(line, line')
  BY PaidGoesOn
<1> QED BY <1>1, <1>2, AskDone

\* what a return brings in, and the receipt of it
NewReceipt(l, k, q) == /\ ~ \E x \in receipt : x.key = k
                       /\ receipt' = receipt \cup {[line |-> l, key |-> k, q |-> q]}
LEMMA ReceiveStep ==
  ASSUME Steady, Requested, AsksFit, NEW r \in Requests, FinishReceive(r, ReceivingBin)
  PROVE  \/ HonestStep /\ UNCHANGED receipt
         \/ \E l \in Lines, q \in Nat : PaidStep(Found(l[2], q)) /\ \E k : NewReceipt(l, k, q)
<1> DEFINE l == request[r].line
           k == request[r].key
           q == request[r].q
           s == IF \A x \in LinesIn(Db, l[1]) :
                     [line EXCEPT ![l].received = @ + q][x].received
                       >= [line EXCEPT ![l].received = @ + q][x].ordered
                THEN "RECEIVED" ELSE "PARTIALLY_RECEIVED"
<1>1. request[r].op = "receive" /\ UNCHANGED <<batch, task>>
  BY DEF FinishReceive
<1>2. l \in Lines /\ q \in Nat
  BY <1>1 DEF AsksFit, AskFits, Requested, Asked
<1>3. \/ UNCHANGED <<inventory, order, line, receipt>>
      \/ /\ NewReceipt(l, k, q)
         /\ inventory' = add_inventory(inventory, l[2], ReceivingBin, q)
         /\ line' = [line EXCEPT ![l].received = @ + q]
         /\ order' = [order EXCEPT ![l[1]].status = s]
  BY DEF FinishReceive, NewReceipt
<1>4. s \in {"RECEIVED", "PARTIALLY_RECEIVED"}
  OBVIOUS
<1> HIDE DEF l, k, q, s
<1>5. CASE UNCHANGED <<inventory, order, line, receipt>>
  BY <1>1, <1>5, StillStep
<1>6. CASE /\ NewReceipt(l, k, q)
           /\ inventory' = add_inventory(inventory, l[2], ReceivingBin, q)
           /\ line' = [line EXCEPT ![l].received = @ + q]
           /\ order' = [order EXCEPT ![l[1]].status = s]
  <2> DEFINE row == <<l[2], ReceivingBin>>
             n == line[l].received + q
  <2>1. Lasting(order, order') /\ StaysFrozen(order, order')
    BY <1>4, <1>6, SteadyBooks, OrderStays
  <2>2. \A m \in Lines : LikeLine(line'[m], line[m])
    <3>1. line' = [line EXCEPT ![l] = [line[l] EXCEPT !.received = n]]
      BY <1>6
    <3>2. LikeLine([line[l] EXCEPT !.received = n], line[l])
      BY <1>2, SteadyBooks, UnitRows
    <3>3. \A m \in Lines : line'[m] = IF m = l THEN [line[l] EXCEPT !.received = n] ELSE line[m]
      BY <3>1, SteadyBooks DEF LineTable
    <3> QED BY <3>2, <3>3 DEF LikeLine
  <2>3. Forward(line, line') /\ Counted(Tomorrow)
    BY <1>1, <2>1, <2>2, GrownOn
  <2>4. row \in Rows /\ row[1] = l[2]
    BY <1>2, BinsAssumption DEF Lines, Rows
  <2>5. inventory' = [inventory EXCEPT ![row] = [inventory[row] EXCEPT !.on_hand = inventory[row].on_hand + q]]
    BY <1>6 DEF add_inventory
  <2> HIDE DEF row
  <2>6. inventory'[row].on_hand = inventory[row].on_hand + q
        /\ \A x \in Rows : x # row => inventory'[x].on_hand = inventory[x].on_hand
    <3>1. Shelf(inventory)
      BY SteadyBooks
    <3>2. inventory[row] \in [on_hand : Int, allocated : Int]
      BY <2>4, <3>1, RowOfShelf
    <3> DEFINE v == inventory[row]
               u == v.on_hand + q
    <3>3. [v EXCEPT !.on_hand = u].on_hand = u
      BY <3>2
    <3>4. DOMAIN inventory = Rows
      BY <3>1 DEF Shelf, InventoryType
    <3>5. inventory' = [inventory EXCEPT ![row] = [v EXCEPT !.on_hand = u]]
      BY <2>5
    <3>6. inventory'[row] = [v EXCEPT !.on_hand = u] /\ \A x \in Rows : x # row => inventory'[x] = inventory[x]
      <4> HIDE DEF u, v
      <4> QED BY <2>4, <3>4, <3>5
    <3> QED BY <3>3, <3>6
  <2>7. PaidStep(Found(row[1], q))
    <3>1. \A m \in Lines : line'[m].picked = line[m].picked
      BY <2>2 DEF LikeLine
    <3>2. q \in Int
      BY <1>2
    <3> QED BY <2>3, <2>4, <2>6, <3>1, <3>2, RowPays
  <2>8. PaidStep(Found(l[2], q))
    BY <2>4, <2>7
  <2>9. \E x \in Lines, u \in Nat : PaidStep(Found(x[2], u)) /\ \E c : NewReceipt(x, c, u)
    BY <1>2, <1>6, <2>8
  <2> QED BY <2>9
<1> QED BY <1>3, <1>5, <1>6

LEMMA VoidReturnStep ==
  ASSUME Steady, NEW o, void_return_order(o)
  PROVE  HonestStep
<1>1. order' = [order EXCEPT ![o] = [order[o] EXCEPT !.voided = TRUE]]
      /\ UNCHANGED <<inventory, line, batch, task>>
  BY DEF void_return_order
<1>2. OrderTable(order)
  BY SteadyBooks
<1>3. \A p \in Orders : DOMAIN order[p] = {"status", "kind", "parent", "voided"}
  BY <1>2 DEF OrderTable
<1>4. \A p \in Orders : order'[p].status = order[p].status
                        /\ DOMAIN order'[p] = {"status", "kind", "parent", "voided"}
  BY <1>1, <1>2, <1>3 DEF OrderTable
<1>5. Lasting(order, order')
  BY <1>1, <1>2, <1>4 DEF OrderTable, Lasting
<1>6. StaysFrozen(order, order')
  BY <1>4 DEF StaysFrozen, Frozen
<1> QED BY <1>1, <1>5, <1>6, SameStays, KeptStep

LEMMA ReturnsDeskPays ==
  ASSUME Steady, Requested, AsksFit, ReturnsDesk
  PROVE  /\ AsksFit' /\ UNCHANGED adjustment
         /\ \/ HonestStep /\ UNCHANGED receipt
            \/ \E l \in Lines, q \in Nat : PaidStep(Found(l[2], q)) /\ \E k : NewReceipt(l, k, q)
<1> DEFINE Goes == \/ HonestStep /\ UNCHANGED receipt
                   \/ \E l \in Lines, q \in Nat : PaidStep(Found(l[2], q)) /\ \E k : NewReceipt(l, k, q)
<1>1. ASSUME NEW o \in NewOrder, NEW l \in Lines, NEW q \in Quantities, create_rma(o, l, q)
      PROVE  Goes /\ UNCHANGED adjustment /\ \E n : Asking(n)
  <2>1. UNCHANGED <<request, receipt, adjustment>>
    BY <1>1 DEF create_rma
  <2> QED BY <1>1, <2>1, CreateRmaStep, DoneAsks
<1>2. ASSUME NEW r \in Requests, NEW l \in Lines, NEW q \in Quantities, NEW k \in Keys, BeginReceive(r, l, q, k)
      PROVE  Goes /\ UNCHANGED adjustment /\ \E n : Asking(n)
  <2> DEFINE m == [op |-> "receive", line |-> l, q |-> q, key |-> k]
  <2>1. request' = [request EXCEPT ![r] = m]
        /\ UNCHANGED <<inventory, order, line, batch, task, adjustment, receipt>>
    BY <1>2 DEF BeginReceive
  <2>2. m.op = "receive" /\ m.line \in Lines
    OBVIOUS
  <2> HIDE DEF m
  <2>3. \E n : Asking(n)
    BY <2>1, <2>2, AnswerAsks
  <2> QED BY <2>1, <2>3, StillStep
<1>3. ASSUME NEW r \in Requests, FinishReceive(r, ReceivingBin)
      PROVE  Goes /\ UNCHANGED adjustment /\ \E n : Asking(n)
  <2>1. request' = [request EXCEPT ![r] = Idle] /\ UNCHANGED adjustment
    BY <1>3 DEF FinishReceive
  <2> QED BY <1>3, <2>1, ReceiveStep, DoneAsks
<1>4. ASSUME NEW o \in Born, void_return_order(o)
      PROVE  Goes /\ UNCHANGED adjustment /\ \E n : Asking(n)
  <2>1. UNCHANGED <<request, receipt, adjustment>>
    BY <1>4 DEF void_return_order
  <2> QED BY <1>4, <2>1, VoidReturnStep, DoneAsks
<1>5. Goes /\ UNCHANGED adjustment /\ \E n : Asking(n)
  BY <1>1, <1>2, <1>3, <1>4 DEF ReturnsDesk
<1>6. AsksFit'
  BY <1>5, HonestAsks, PaidAsks
<1> QED BY <1>5, <1>6

-----------------------------------------------------------------------------
(* The shipping desk moves no units: what is shipped was picked before *)

LEMMA LeavesFrozen ==
  ASSUME NEW o, \A p \in Orders : p # o => order'[p].status = order[p].status,
         order[o].status \in {"PICKED", "PACKED", "SHIPPED"}
  PROVE  StaysFrozen(order, order')
  BY DEF StaysFrozen, Frozen

LEMMA VerifyStep ==
  ASSUME Steady, Requested, AsksFit, NEW r \in Requests,
         FinishVerify(r) \/ \E l \in Lines, q \in Quantities : BeginVerify(r, l, q)
  PROVE  HonestStep /\ AsksFit' /\ UNCHANGED ledgers
<1>1. CASE FinishVerify(r)
  <2> DEFINE l == request[r].line
             n == request[r].packed
  <2>1. /\ request' = [request EXCEPT ![r] = Idle] /\ UNCHANGED <<inventory, order, batch, task, ledgers>>
        /\ line' = line \/ line' = [line EXCEPT ![l].packed = n]
    BY <1>1 DEF FinishVerify, ledgers
  <2> HIDE DEF l, n
  <2>2. SameUnitLines(line, line')
    <3> SUFFICES ASSUME NEW k \in Lines PROVE LikeLine(line'[k], line[k])
      BY DEF SameUnitLines
    <3>1. line'[k] = line[k] \/ line'[k] = [line[k] EXCEPT !.packed = n]
      BY <2>1, SteadyBooks DEF LineTable
    <3> QED BY <3>1, SteadyBooks, UnitRows
  <2>3. HonestStep
    BY <2>1, <2>2, SteadyBooks, SameLasts, SameStays, KeptStep
  <2>4. \E a : Asking(a)
    BY <2>1, DoneAsks
  <2> QED BY <2>1, <2>3, <2>4, HonestAsks
<1>2. ASSUME NEW l \in Lines, NEW q \in Quantities, BeginVerify(r, l, q)
      PROVE  HonestStep /\ AsksFit' /\ UNCHANGED ledgers
  <2> DEFINE m == [op |-> "verify", line |-> l, packed |-> line[l].packed + q]
  <2>1. request' = [request EXCEPT ![r] = m] /\ UNCHANGED <<inventory, order, line, batch, task, ledgers>>
    BY <1>2 DEF BeginVerify, orderVars, ledgers
  <2>2. m.op = "verify"
    OBVIOUS
  <2> HIDE DEF m
  <2>3. \E a : Asking(a)
    BY <2>1, <2>2, AnswerAsks
  <2> QED BY <2>1, <2>3, StillStep, HonestAsks
<1> QED BY <1>1, <1>2

\* what ships is what the lines have picked
LEMMA ShipRows ==
  ASSUME LineTable(line), NEW o, NEW rows,
         \/ rows = ShipLines(o) \/ rows = ShipTheRest(o)
         \/ rows = [l \in Lines |-> IF l[1] = o THEN [line[l] EXCEPT !.shipped = 0] ELSE line[l]]
  PROVE  SameUnitLines(line, rows)
<1> SUFFICES ASSUME NEW l \in Lines PROVE LikeLine(rows[l], line[l])
  BY DEF SameUnitLines
<1>1. rows[l] = line[l] \/ rows[l] = [line[l] EXCEPT !.shipped = line[l].picked]
      \/ rows[l] = [line[l] EXCEPT !.shipped = 0]
  BY DEF ShipLines, ShipTheRest
<1> QED BY <1>1, UnitRows

LEMMA ShipStep ==
  ASSUME Steady, DockInv, Restores, ShippingDesk, NEW o \in Born,
         \/ complete_packing(o) \/ fulfill(o) \/ edit_to_shipped(o)
         \/ \E acknowledged \in BOOLEAN : record_admin_ship(o, acknowledged)
         \/ \E k \in DockKeys : ship_order(k, o) \/ void_ship(k, o)
  PROVE  HonestStep /\ UNCHANGED <<request, ledgers>>
<1> DEFINE Shipped == /\ UNCHANGED <<inventory, batch, task, request, ledgers>>
                      /\ order[o].status \in {"PICKED", "PACKED", "SHIPPED"}
                      /\ \E s : order' = [order EXCEPT ![o].status = s]
                      /\ SameUnitLines(line, line')
<1>1. LineTable(line) /\ OrderTable(order)
  BY SteadyBooks
<1>2. ASSUME complete_packing(o) PROVE Shipped
  <2>1. Shipped
    BY <1>2, SameStays DEF complete_packing, ledgers
  <2> QED BY <2>1
<1>3. ASSUME fulfill(o) PROVE Shipped
  <2>1. /\ UNCHANGED <<inventory, batch, task, request, ledgers>> /\ line' = ShipLines(o)
        /\ order' = [order EXCEPT ![o].status = "SHIPPED"]
        /\ order[o].status \in {"PICKED", "PACKED", "SHIPPED"}
    BY <1>3 DEF fulfill, MayShip, record_ship, ledgers
  <2> QED BY <1>1, <2>1, ShipRows
<1>4. ASSUME edit_to_shipped(o) PROVE Shipped
  <2>1. /\ UNCHANGED <<inventory, batch, task, request, ledgers>> /\ line' = ShipLines(o)
        /\ order' = [order EXCEPT ![o].status = "SHIPPED"]
        /\ order[o].status \in {"PICKED", "PACKED", "SHIPPED"}
    BY <1>4 DEF edit_to_shipped, record_ship, ledgers
  <2> QED BY <1>1, <2>1, ShipRows
<1>5. ASSUME NEW a \in BOOLEAN, record_admin_ship(o, a) PROVE Shipped
  <2>1. /\ UNCHANGED <<inventory, batch, task, request, ledgers>> /\ line' = ShipTheRest(o)
        /\ order' = [order EXCEPT ![o].status = "SHIPPED"]
        /\ order[o].status \in {"PICKED", "PACKED", "SHIPPED"}
    BY <1>5 DEF record_admin_ship, MayAdminShip, ledgers
  <2> QED BY <1>1, <2>1, ShipRows
<1>6. ASSUME NEW k, ship_order(k, o) PROVE Shipped
  <2>1. /\ UNCHANGED <<inventory, batch, task, request, ledgers>> /\ line' = ShipLines(o)
        /\ order' = [order EXCEPT ![o].status = "SHIPPED"]
        /\ order[o].status \in {"PICKED", "PACKED", "SHIPPED"}
    BY <1>6 DEF ship_order, MayShip, record_ship, ledgers
  <2> QED BY <1>1, <2>1, ShipRows
<1>7. ASSUME NEW k, void_ship(k, o) PROVE Shipped
  <2> DEFINE s == shipment[o][Max(LiveShipments(o))].pre
  <2>1. /\ UNCHANGED <<inventory, batch, task, request, ledgers>>
        /\ line' = [l \in Lines |-> IF l[1] = o THEN [line[l] EXCEPT !.shipped = 0] ELSE line[l]]
        /\ order' = [order EXCEPT ![o].status = s]
        /\ order[o].status \in {"PICKED", "PACKED", "SHIPPED"}
    BY <1>7 DEF void_ship, record_void_ship, ledgers
  <2> HIDE DEF s
  <2> QED BY <1>1, <2>1, ShipRows
<1>8. Shipped
  BY <1>2, <1>3, <1>4, <1>5, <1>6, <1>7
<1>9. Lasting(order, order')
  BY <1>1, ShippingDeskLasts DEF Steady
<1>10. StaysFrozen(order, order')
  <2>1. \A p \in Orders : p # o => order'[p].status = order[p].status
    BY <1>1, <1>8 DEF OrderTable
  <2> QED BY <1>8, <2>1, LeavesFrozen
<1>11. SameUnitRows(inventory, inventory')
  BY <1>8, SameStays
<1> QED BY <1>8, <1>9, <1>10, <1>11, KeptStep

LEMMA ShippingDeskPays ==
  ASSUME Steady, Requested, AsksFit, DockInv, Restores, ShippingDesk
  PROVE  HonestStep /\ AsksFit' /\ UNCHANGED ledgers
<1>1. ASSUME NEW r \in Requests,
             FinishVerify(r) \/ \E l \in Lines, q \in Quantities : BeginVerify(r, l, q)
      PROVE  HonestStep /\ AsksFit' /\ UNCHANGED ledgers
  BY <1>1, VerifyStep
<1>2. ASSUME NEW o \in Born,
             \/ complete_packing(o) \/ fulfill(o) \/ edit_to_shipped(o)
             \/ \E acknowledged \in BOOLEAN : record_admin_ship(o, acknowledged)
             \/ \E k \in DockKeys : ship_order(k, o) \/ void_ship(k, o)
      PROVE  HonestStep /\ AsksFit' /\ UNCHANGED ledgers
  <2>1. HonestStep /\ UNCHANGED <<request, ledgers>>
    BY <1>2, ShipStep
  <2>2. \E a : Asking(a)
    BY <2>1, DoneAsks
  <2> QED BY <2>1, <2>2, HonestAsks
<1> QED BY <1>1, <1>2 DEF ShippingDesk

-----------------------------------------------------------------------------
(* The till hands over units of a bin, on the lines of a new order *)

\* so many units more on one row, and so many more on one line of the same item
LEMMA MovedPays ==
  ASSUME Steady, Forward(line, line'), Counted(Tomorrow),
         NEW r \in Rows, NEW q \in Int, \A s \in Rows : s # r => inventory'[s].on_hand = inventory[s].on_hand,
         inventory'[r].on_hand = inventory[r].on_hand + q,
         NEW l \in Lines, NEW p \in Int, \A m \in Lines : m # l => line'[m].picked = line[m].picked,
         line'[l].picked = line[l].picked + p, l[2] = r[1]
  PROVE  PaidStep(Found(r[1], q + p))
<1>1. Shelf(inventory) /\ Shelf(inventory') /\ ~Unfloored /\ LineTable(line) /\ LineTable(line')
  BY SteadyBooks, TomorrowRows DEF Books
<1>2. inventory[r].on_hand \in Int /\ line[l].picked \in Nat
  BY <1>1, RowOfShelf, LineRows
<1>3. \A i \in Items :
        OnHand(inventory', i) = OnHand(inventory, i)
          + IF i = r[1] THEN inventory'[r].on_hand - inventory[r].on_hand ELSE 0
  BY <1>1, OneRow
<1>4. \A i \in Items :
        PickedIn(line', i) = PickedIn(line, i) + IF i = l[2] THEN line'[l].picked - line[l].picked ELSE 0
  BY <1>1, OneLine
<1>5. ASSUME NEW i \in Items PROVE UnitsIn(Tomorrow, i) = UnitsIn(Db, i) + Found(r[1], q + p)[i]
  <2> DEFINE a == OnHand(inventory, i)
             b == OnHand(inventory', i)
             c == PickedIn(line, i)
             d == PickedIn(line', i)
             old == inventory[r].on_hand
             new == inventory'[r].on_hand
             had == line[l].picked
             has == line'[l].picked
             j == r[1]
  <2>1. a \in Nat
    BY <1>1, OnHandUnits
  <2>2. c \in Nat
    BY <1>1, PickedUnits
  <2>3. UnitsIn(Db, i) = a + c
    BY DbRows DEF UnitsIn
  <2>4. UnitsIn(Tomorrow, i) = b + d
    BY TomorrowRows DEF UnitsIn
  <2>5. b = a + IF i = j THEN new - old ELSE 0
    BY <1>3
  <2>6. d = c + IF i = j THEN has - had ELSE 0
    BY <1>4
  <2>7. new = old + q /\ old \in Int /\ has = had + p /\ had \in Int
    BY <1>2
  <2>8. Found(j, q + p)[i] = IF i = j THEN q + p ELSE 0
    BY DEF Found
  <2> HIDE DEF a, b, c, d, old, new, had, has, j
  <2>9. UnitsIn(Tomorrow, i) = UnitsIn(Db, i) + Found(j, q + p)[i]
    BY <2>1, <2>2, <2>3, <2>4, <2>5, <2>6, <2>7, <2>8
  <2> QED BY <2>9 DEF j
<1>6. \A i \in Items : UnitsIn(Db, i) \in Nat /\ UnitsIn(Tomorrow, i) \in Nat
  BY SteadyBooks, UnitsType
<1>7. \A i \in Items : UnitsIn(Tomorrow, i) >= UnitsIn(Db, i) + Found(r[1], q + p)[i]
  BY <1>5, <1>6
<1> QED BY <1>5, <1>7, DbRows, TomorrowRows DEF PaidStep, Paid

LEMMA EvenPays ==
  ASSUME Steady, NEW i, PaidStep(Found(i, 0))
  PROVE  HonestStep
<1>1. \A j \in Items : Found(i, 0)[j] = 0
  BY DEF Found
<1>2. \A j \in Items : UnitsIn(Db, j) \in Nat /\ UnitsIn(Tomorrow, j) \in Nat
  BY SteadyBooks, UnitsType
<1> QED BY <1>1, <1>2 DEF PaidStep, Paid, HonestStep, Honest, SameUnits

\* the orders a checkout enters are new
LEMMA CheckoutStays ==
  ASSUME Steady, NEW k, NEW o, NEW how \in {"counter", "phone", "backorder"}, NEW child,
         NEW cart, NEW rma, NEW back, checkout(k, o, how, child, cart, rma, back)
  PROVE  /\ Lasting(order, order') /\ StaysFrozen(order, order')
         /\ o \in Orders /\ order[o].status = "NONE" /\ order'[o].status # "NONE"
<1>1. OrderTable(order)
  BY SteadyBooks
<1>2. /\ o \in Orders /\ order[o].status = "NONE" /\ (rma # NULL => rma \in Unborn \ {o})
      /\ Lasting(order, order') /\ order'[o].status = SaleStatus(how)
  <2>1. o \in Orders /\ order[o].status = "NONE" /\ (rma # NULL => rma \in Unborn \ {o})
    BY DEF checkout, FreshOrder, Unborn, MayReturn
  <2>2. order'[o].status = SaleStatus(how)
    BY <1>1, CheckoutLasts
  <2>3. Lasting(order, order')
    BY <1>1, CheckoutLasts
  <2> QED BY <2>1, <2>2, <2>3
<1>3. order'[o].status # "NONE"
  BY <1>2 DEF SaleStatus
<1> DEFINE entered == [order EXCEPT ![o] = SaleRow(how, child)]
<1>4. order' = IF rma = NULL THEN entered ELSE [entered EXCEPT ![rma] = ReturnRow(child.of)]
  BY DEF checkout
<1>5. DOMAIN entered = Orders /\ \A p \in Orders : p # o => entered[p] = order[p]
  BY <1>1 DEF OrderTable
<1> HIDE DEF entered
<1>6. \A p \in Orders : order[p].status # "NONE" => order'[p] = order[p]
  BY <1>2, <1>4, <1>5 DEF Unborn
<1>7. StaysFrozen(order, order')
  BY <1>6 DEF StaysFrozen, Frozen
<1> QED BY <1>2, <1>3, <1>7

LEMMA ReturnBorn ==
  ASSUME Steady, NEW k, NEW o, NEW how \in {"counter", "phone", "backorder"}, NEW child,
         NEW cart, NEW rma, NEW back, checkout(k, o, how, child, cart, rma, back), rma # NULL
  PROVE  rma \in Unborn /\ rma # o /\ order'[rma].status # "NONE"
<1>1. rma \in Unborn /\ rma # o
  BY DEF checkout, MayReturn
<1>2. order' = [[order EXCEPT ![o] = SaleRow(how, child)] EXCEPT ![rma] = ReturnRow(child.of)]
  BY DEF checkout
<1>3. OrderTable(order) /\ rma \in Orders /\ ReturnRow(child.of).status # "NONE"
  BY <1>1, SteadyBooks DEF Unborn, ReturnRow, NoOrder
<1> QED BY <1>1, <1>2, <1>3 DEF OrderTable

\* its lines are new, and a sale at the counter is picked
HandsOver(o, cart) == \A l \in Lines : IF l[1] = o /\ l[2] \in DOMAIN cart
                                       THEN line[l].picked = 0 /\ line'[l].picked = cart[l[2]].q
                                       ELSE line'[l].picked = line[l].picked
SamePicks == \A l \in Lines : line'[l].picked = line[l].picked
BackFits(rma, back) == rma # NULL => back.item \in Items
LEMMA CheckoutLines ==
  ASSUME Steady, NEW k, NEW o, NEW how \in {"counter", "phone", "backorder"}, NEW child,
         NEW cart \in TillCarts, NEW rma, NEW back, BackFits(rma, back),
         checkout(k, o, how, child, cart, rma, back)
  PROVE  /\ Forward(line, line') /\ Counted(Tomorrow)
         /\ how = "counter" => HandsOver(o, cart)
         /\ how # "counter" => SamePicks
<1> DEFINE rows == [i \in DOMAIN cart |->
                      CASE how = "counter"   -> HandedOver(cart[i].q)
                        [] how = "phone"     -> Promised(cart[i].q)
                        [] how = "backorder" -> NewLine(cart[i].q)]
           with == WithLines(o, rows)
           m == <<rma, back.item>>
<1>1. /\ line' = IF rma = NULL THEN with ELSE [with EXCEPT ![m] = NewLine(back.q)]
      /\ UNCHANGED <<batch, task>>
  BY DEF checkout, TillOnly
<1>2. /\ Lasting(order, order') /\ StaysFrozen(order, order')
      /\ o \in Orders /\ order[o].status = "NONE" /\ order'[o].status # "NONE"
      /\ rma # NULL => rma \in Unborn /\ rma # o /\ order'[rma].status # "NONE"
  <2>1. Lasting(order, order')
    BY CheckoutStays
  <2>2. StaysFrozen(order, order')
    BY CheckoutStays
  <2>3. o \in Orders /\ order[o].status = "NONE" /\ order'[o].status # "NONE"
    BY CheckoutStays
  <2>4. rma # NULL => rma \in Unborn /\ rma # o /\ order'[rma].status # "NONE"
    BY ReturnBorn
  <2> QED BY <2>1, <2>2, <2>3, <2>4
<1>3. LinesFit(Db)
  BY SteadyBooks DEF Counted
<1>4. \A l \in Lines : with[l] = IF l[1] = o /\ l[2] \in DOMAIN cart THEN rows[l[2]] ELSE line[l]
  BY DEF WithLines
<1>5. DOMAIN with = Lines
  BY DEF WithLines
<1>6. \A i \in DOMAIN cart : /\ rows[i].row = "live"
                             /\ rows[i].picked = IF how = "counter" THEN cart[i].q ELSE 0
  BY DEF HandedOver, Promised, NewLine, NoLine
<1>7. NewLine(back.q).row = "live" /\ NewLine(back.q).picked = 0
  BY DEF NewLine, NoLine
<1>8. rma # NULL => m \in Lines /\ m[1] = rma
  BY <1>2 DEF Unborn, Lines, BackFits
<1>9. \A l \in Lines : order[l[1]].status = "NONE" => line[l].row = "none" /\ line[l].picked = 0
  BY <1>3, DbRows DEF LinesFit
<1> HIDE DEF with, rows, m
<1>10. ASSUME NEW l \in Lines
       PROVE  \/ /\ l[1] = o /\ l[2] \in DOMAIN cart /\ line'[l] = rows[l[2]]
              \/ /\ ~(l[1] = o /\ l[2] \in DOMAIN cart) /\ line'[l] = line[l]
              \/ rma # NULL /\ l = m /\ line'[l] = NewLine(back.q) /\ l[1] # o
  BY <1>1, <1>2, <1>4, <1>5, <1>8
<1>11. ASSUME NEW l \in Lines
       PROVE  /\ \/ LikeLine(line'[l], line[l])
                 \/ line[l].row = "none" /\ line'[l].row = "live" /\ order'[l[1]].status # "NONE"
              /\ IF how = "counter" /\ l[1] = o /\ l[2] \in DOMAIN cart
                 THEN line[l].picked = 0 /\ line'[l].picked = cart[l[2]].q
                 ELSE line'[l].picked = line[l].picked
  <2>1. CASE l[1] = o /\ l[2] \in DOMAIN cart /\ line'[l] = rows[l[2]]
    BY <1>2, <1>6, <1>9, <2>1
  <2>2. CASE ~(l[1] = o /\ l[2] \in DOMAIN cart) /\ line'[l] = line[l]
    BY <2>2 DEF LikeLine
  <2>3. CASE rma # NULL /\ l = m /\ line'[l] = NewLine(back.q) /\ l[1] # o
    <3>1. l[1] = rma /\ order[rma].status = "NONE"
      BY <1>2, <1>8, <2>3 DEF Unborn
    <3> QED BY <1>2, <1>7, <1>9, <2>3, <3>1
  <2> QED BY <1>10, <2>1, <2>2, <2>3
<1>12. Forward(line, line') /\ Counted(Tomorrow)
  BY <1>1, <1>2, <1>11, GrownOn
<1> QED BY <1>11, <1>12 DEF HandsOver, SamePicks

RowMoves(inv, r, q) ==
  /\ inv[r].on_hand = inventory[r].on_hand + q
  /\ \A s \in Rows : s # r => inv[s].on_hand = inventory[s].on_hand
LEMMA TakingUnits ==
  ASSUME NEW j \in Items, NEW b \in Bins, NEW n, NEW cart, cart = [i \in {j} |-> [bin |-> b, q |-> n]],
         NEW shelf, NEW reserved
  PROVE  RowMoves(Taking(cart, shelf, reserved), <<j, b>>, shelf * n)
<1>1. \A r \in Rows :
        Taking(cart, shelf, reserved)[r]
          = IF r[1] \in DOMAIN cart /\ cart[r[1]].bin = r[2]
            THEN [on_hand   |-> inventory[r].on_hand + shelf * cart[r[1]].q,
                  allocated |-> inventory[r].allocated + reserved * cart[r[1]].q]
            ELSE inventory[r]
  BY DEF Taking
<1>2. \A r \in Rows : (r[1] \in DOMAIN cart /\ cart[r[1]].bin = r[2]) <=> r = <<j, b>>
  BY RowsOfStock
<1>3. cart[j].q = n
  OBVIOUS
<1> DEFINE k == <<j, b>>
<1>4. k \in Rows /\ k[1] = j
  BY DEF Rows
<1> HIDE DEF k
<1>5. Taking(cart, shelf, reserved)[k]
        = [on_hand   |-> inventory[k].on_hand + shelf * cart[k[1]].q,
           allocated |-> inventory[k].allocated + reserved * cart[k[1]].q]
  BY <1>1, <1>2, <1>4 DEF k
<1>6. Taking(cart, shelf, reserved)[k].on_hand = inventory[k].on_hand + shelf * n
  BY <1>3, <1>4, <1>5
<1>7. \A r \in Rows : r # k => Taking(cart, shelf, reserved)[r] = inventory[r]
  BY <1>1, <1>2 DEF k
<1> QED BY <1>6, <1>7 DEF k, RowMoves

\* what the counter sells leaves the bin and is on the line; a phone order only reserves
LEMMA CheckoutHonest ==
  ASSUME Steady, NEW k, NEW o, NEW how \in {"counter", "phone", "backorder"}, NEW child,
         NEW cart \in TillCarts, NEW rma, NEW back, BackFits(rma, back),
         checkout(k, o, how, child, cart, rma, back)
  PROVE  HonestStep
<1>1. PICK j \in Items, b \in Pickable, n \in Quantities : cart = [i \in {j} |-> [bin |-> b, q |-> n]]
  BY DEF TillCarts
<1>2. n \in Nat /\ b \in Bins
  BY QuantitiesNat, BinsAssumption
<1>3. Forward(line, line') /\ Counted(Tomorrow)
  BY CheckoutLines
<1>4. (how = "counter" => HandsOver(o, cart)) /\ (how # "counter" => SamePicks)
  BY CheckoutLines
<1>5. inventory' = CASE how = "counter"   -> Taking(cart, -1, 0)
                     [] how = "phone"     -> Taking(cart, 0, 1)
                     [] how = "backorder" -> inventory
  BY DEF checkout
<1>6. Shelf(inventory) /\ o \in Orders
  BY SteadyBooks, CheckoutStays
<1>7. \A r \in Rows : inventory[r].on_hand \in Int
  BY <1>6, RowOfShelf
<1>8. CASE how = "counter"
  <2> DEFINE r == <<j, b>>
             l == <<o, j>>
             p == 0 - n
  <2>1. inventory' = Taking(cart, -1, 0)
    BY <1>5, <1>8
  <2>2. inventory'[r].on_hand = inventory[r].on_hand + (-1) * n
        /\ \A s \in Rows : s # r => inventory'[s].on_hand = inventory[s].on_hand
    BY <1>1, <1>2, <2>1, TakingUnits DEF RowMoves
  <2>3. r \in Rows /\ l \in Lines /\ r[1] = j /\ l[2] = j /\ l[1] = o
    BY <1>2, <1>6 DEF Rows, Lines
  <2>4. cart[j].q = n /\ DOMAIN cart = {j}
    BY <1>1
  <2>5. \A m \in Lines : m[1] = o /\ m[2] = j => m = l
    BY DEF Lines
  <2> HIDE DEF r, l
  <2>6. line'[l].picked = line[l].picked + n /\ \A m \in Lines : m # l => line'[m].picked = line[m].picked
    BY <1>2, <1>4, <1>8, <2>3, <2>4, <2>5 DEF HandsOver
  <2>7. inventory'[r].on_hand = inventory[r].on_hand + p
    BY <1>2, <1>7, <2>2, <2>3
  <2>8. p \in Int /\ n \in Int /\ p + n = 0
    BY <1>2
  <2> HIDE DEF p
  <2>9. PaidStep(Found(r[1], p + n))
    BY <1>3, <2>2, <2>3, <2>6, <2>7, <2>8, MovedPays
  <2> QED BY <2>8, <2>9, EvenPays
<1>9. CASE how # "counter"
  <2>1. \A r \in Rows : inventory'[r].on_hand = inventory[r].on_hand
    <3>1. CASE how = "phone"
      <4>1. inventory' = Taking(cart, 0, 1)
        BY <1>5, <3>1
      <4>2. /\ inventory'[<<j, b>>].on_hand = inventory[<<j, b>>].on_hand + 0 * n
            /\ \A r \in Rows : r # <<j, b>> => inventory'[r].on_hand = inventory[r].on_hand
        <5>1. RowMoves(Taking(cart, 0, 1), <<j, b>>, 0 * n)
          BY <1>1, <1>2, TakingUnits
        <5> QED BY <4>1, <5>1 DEF RowMoves
      <4>3. <<j, b>> \in Rows
        BY <1>2 DEF Rows
      <4> QED BY <1>2, <1>7, <4>2, <4>3
    <3>2. CASE how = "backorder"
      BY <1>5, <3>2
    <3> QED BY <1>9, <3>1, <3>2
  <2>2. \A l \in Lines : line'[l].picked = line[l].picked
    BY <1>4, <1>9 DEF SamePicks
  <2>3. SameUnits(Db, Tomorrow)
    BY <2>1, <2>2, SteadyBooks, UnitsStay, DbRows, TomorrowRows
  <2> QED BY <1>3, <2>3, DbRows, TomorrowRows DEF HonestStep, Honest
<1> QED BY <1>8, <1>9

\* a sale of the old system is on its lines and left no bin
LEMMA ReferencePays ==
  ASSUME Steady, NEW o, NEW j \in Items, NEW b \in Pickable, NEW n \in Quantities,
         NEW cart, cart = [i \in {j} |-> [bin |-> b, q |-> n]], reference_orders(o, cart)
  PROVE  PaidStep(Found(j, n)) /\ o \in Orders /\ order[o].status = "NONE"
<1> DEFINE rows == [i \in DOMAIN cart |-> HandedOver(cart[i].q)]
           row == [NoOrder EXCEPT !.status = "SHIPPED"]
           l == <<o, j>>
           r == <<j, b>>
<1>1. /\ line' = WithLines(o, rows) /\ order' = [order EXCEPT ![o] = row]
      /\ UNCHANGED <<inventory, batch, task>> /\ o \in Orders /\ order[o].status = "NONE"
  BY DEF reference_orders, TillOnly, FreshOrder, Unborn
<1>2. DOMAIN row = {"status", "kind", "parent", "voided"} /\ row.status = "SHIPPED"
  BY DEF NoOrder
<1>3. \A k \in Lines : line'[k] = IF k[1] = o /\ k[2] \in DOMAIN cart THEN rows[k[2]] ELSE line[k]
  BY <1>1 DEF WithLines
<1>4. rows[j].row = "live" /\ rows[j].picked = n /\ DOMAIN cart = {j}
  BY DEF HandedOver, NewLine, NoLine
<1>5. /\ l \in Lines /\ l[1] = o /\ l[2] = j /\ r \in Rows /\ r[1] = j
      /\ \A k \in Lines : k[1] = o /\ k[2] = j => k = l
  BY <1>1, BinsAssumption DEF Lines, Rows
<1>6. n \in Nat
  BY QuantitiesNat
<1> HIDE DEF rows, row, l, r
<1>7. /\ Lasting(order, order') /\ StaysFrozen(order, order')
      /\ order'[o].status # "NONE"
  BY <1>1, <1>2, SteadyBooks, BirthStays DEF OrderTable
<1>8. line[l].row = "none" /\ line[l].picked = 0
  BY <1>1, <1>5, SteadyBooks, DbRows DEF Counted, LinesFit
<1>9. line'[l] = rows[j] /\ \A k \in Lines : k # l => line'[k] = line[k]
  BY <1>3, <1>4, <1>5
<1>10. \A k \in Lines : \/ LikeLine(line'[k], line[k])
                        \/ line[k].row = "none" /\ line'[k].row = "live" /\ order'[k[1]].status # "NONE"
  BY <1>4, <1>5, <1>7, <1>8, <1>9 DEF LikeLine
<1>11. Forward(line, line') /\ Counted(Tomorrow)
  BY <1>1, <1>7, <1>10, GrownOn
<1>12. inventory[r].on_hand \in Int
  BY <1>5, SteadyBooks, RowOfShelf
<1>13. inventory'[r].on_hand = inventory[r].on_hand + 0
       /\ line'[l].picked = line[l].picked + n
  BY <1>1, <1>4, <1>6, <1>8, <1>9, <1>12
<1>14. \A k \in Lines : k # l => line'[k].picked = line[k].picked
  BY <1>9
<1>15. \A s \in Rows : s # r => inventory'[s].on_hand = inventory[s].on_hand
  BY <1>1
<1>16. n \in Int /\ 0 \in Int /\ 0 + n = n
  BY <1>6
<1>17. PaidStep(Found(r[1], 0 + n))
  BY <1>5, <1>11, <1>13, <1>14, <1>15, <1>16, MovedPays
<1> QED BY <1>1, <1>5, <1>16, <1>17

\* a refund brings units back to the bin they were sold from
LEMMA RefundPays ==
  ASSUME Steady, NEW k, NEW o, NEW j \in Items, NEW n \in Quantities, NEW part, part = [i \in {j} |-> n],
         refund(k, o, part), sale[o].cart[j].bin \in Bins, Lasting(order, order')
  PROVE  PaidStep(Found(j, n))
<1> DEFINE b == sale[o].cart[j].bin
           units == [i \in {j} |-> [bin |-> b, q |-> n]]
           r == <<j, b>>
<1>1. UNCHANGED <<line, batch, task>> /\ order[o].status = "SHIPPED"
      /\ (order' = order \/ order' = [order EXCEPT ![o].status = "REFUNDED"])
  BY DEF refund, MayRefund, TillOnly
<1>2. inventory' = Taking(units, 1, 0)
  BY DEF refund
<1> HIDE DEF b
<1>3. b \in Bins /\ n \in Nat
  BY QuantitiesNat DEF b
<1>4. /\ inventory'[r].on_hand = inventory[r].on_hand + 1 * n
      /\ \A s \in Rows : s # r => inventory'[s].on_hand = inventory[s].on_hand
  <2>1. RowMoves(Taking(units, 1, 0), <<j, b>>, 1 * n)
    BY <1>3, TakingUnits
  <2> QED BY <1>2, <2>1 DEF RowMoves
<1>5. r \in Rows /\ r[1] = j
  BY <1>3 DEF Rows
<1> HIDE DEF r, units
<1>6. inventory[r].on_hand \in Int
  BY <1>5, SteadyBooks, RowOfShelf
<1>7. inventory'[r].on_hand = inventory[r].on_hand + n /\ n \in Int
  BY <1>3, <1>4, <1>6
<1>8. StaysFrozen(order, order')
  <2>1. \A p \in Orders : p # o => order'[p].status = order[p].status
    BY <1>1, SteadyBooks DEF OrderTable
  <2> QED BY <1>1, <2>1, LeavesFrozen
<1>9. \A l \in Lines : LikeLine(line'[l], line[l])
  BY <1>1 DEF LikeLine
<1>10. Forward(line, line') /\ Counted(Tomorrow)
  BY <1>1, <1>8, <1>9, GrownOn
<1>11. PaidStep(Found(r[1], n))
  <2>1. \A l \in Lines : line'[l].picked = line[l].picked
    BY <1>1
  <2> QED BY <1>4, <1>5, <1>7, <1>10, <2>1, RowPays
<1> QED BY <1>5, <1>11

-----------------------------------------------------------------------------
(***************************************************************************)
(* The ledgers: the receipts of returns, the refunds, the sales of the old *)
(* system and the write-offs, each a sum that grows by its newest entry.   *)
(***************************************************************************)
ReceiptTable == IsFiniteSet(receipt) /\ \A x \in receipt : x.q \in Nat
CartBins     == \A o \in Orders : sale[o] # NULL => \A i \in DOMAIN sale[o].cart : sale[o].cart[i].bin \in Bins

ReceiptsOf(R, i) == {x \in R : x.line[2] = i}
Counts(R, i)     == [x \in ReceiptsOf(R, i) |-> x.q]

LEMMA ReturnedUnits ==
  ASSUME ReceiptTable, NEW i
  PROVE  /\ IsFiniteSet(ReceiptsOf(receipt, i)) /\ NatOn(Counts(receipt, i), ReceiptsOf(receipt, i))
         /\ Returned(i) = Total(Counts(receipt, i), ReceiptsOf(receipt, i)) /\ Returned(i) \in Nat
<1> DEFINE S == ReceiptsOf(receipt, i)
           f == Counts(receipt, i)
<1>1. IsFiniteSet(S)
  BY FS_Subset DEF ReceiptsOf, ReceiptTable
<1>2. NatOn(f, S)
  BY DEF NatOn, Counts, ReceiptsOf, ReceiptTable
<1>3. Returned(i) = Total(f, S)
  BY DEF Returned, SumOver, Counts, ReceiptsOf
<1> HIDE DEF f, S
<1>4. Total(f, S) \in Nat
  BY <1>1, <1>2, UnitsFinite
<1> QED BY <1>1, <1>2, <1>3, <1>4 DEF f, S

LEMMA ReturnedMore ==
  ASSUME ReceiptTable, NEW l \in Lines, NEW k, NEW q \in Nat, NewReceipt(l, k, q)
  PROVE  /\ ReceiptTable'
         /\ \A i \in Items : Returned(i)' = Returned(i) + Found(l[2], q)[i]
<1> DEFINE x == [line |-> l, key |-> k, q |-> q]
<1>1. x.line = l /\ x.key = k /\ x.q = q
  OBVIOUS
<1>2. receipt' = receipt \cup {x} /\ \A y \in receipt : y.key # k
  BY DEF NewReceipt
<1> HIDE DEF x
<1>3. x \notin receipt
  BY <1>1, <1>2
<1>4. ReceiptTable'
  <2>1. IsFiniteSet(receipt')
    BY <1>2, FS_AddElement DEF ReceiptTable
  <2> QED BY <1>1, <1>2, <2>1 DEF ReceiptTable
<1> SUFFICES ASSUME NEW i \in Items PROVE Returned(i)' = Returned(i) + Found(l[2], q)[i]
  BY <1>4
<1> DEFINE S == ReceiptsOf(receipt, i)
           f == Counts(receipt, i)
           T == ReceiptsOf(receipt', i)
           g == Counts(receipt', i)
<1>5. IsFiniteSet(S) /\ NatOn(f, S) /\ Returned(i) = Total(f, S) /\ Returned(i) \in Nat
  BY ReturnedUnits
<1>6. Returned(i)' = Total(g, T)
  BY DEF Returned, SumOver, Counts, ReceiptsOf
<1>7. CASE i = l[2]
  <2>1. T = S \cup {x} /\ x \notin S
    BY <1>1, <1>2, <1>3, <1>7 DEF ReceiptsOf
  <2>2. Adds(S, f, T, g, x, q)
    BY <1>1, <2>1 DEF Counts, Adds
  <2> HIDE DEF S, T, f, g
  <2>3. Total(g, T) = Total(f, S) + q
    BY <1>5, <2>2, TotalMore
  <2>4. Found(l[2], q)[i] = q
    BY <1>7 DEF Found
  <2> QED BY <1>5, <1>6, <2>3, <2>4
<1>8. CASE i # l[2]
  <2>1. T = S
    BY <1>1, <1>2, <1>8 DEF ReceiptsOf
  <2>2. g = f
    BY <2>1 DEF Counts
  <2> HIDE DEF S, T, f, g
  <2>3. Found(l[2], q)[i] = 0
    BY <1>8 DEF Found
  <2> QED BY <1>5, <1>6, <2>1, <2>2, <2>3
<1> QED BY <1>7, <1>8

BackOf(R, i)    == {x \in R : i \in DOMAIN x.part}
BackParts(R, i) == [x \in BackOf(R, i) |-> x.part[i]]

LEMMA TakenBackUnits ==
  ASSUME RefundTable, NEW i
  PROVE  /\ IsFiniteSet(BackOf(refunds, i)) /\ NatOn(BackParts(refunds, i), BackOf(refunds, i))
         /\ TakenBack(i) = Total(BackParts(refunds, i), BackOf(refunds, i)) /\ TakenBack(i) \in Nat
<1> DEFINE S == BackOf(refunds, i)
           f == BackParts(refunds, i)
<1>1. IsFiniteSet(S)
  BY FS_Subset DEF BackOf, RefundTable
<1>2. NatOn(f, S)
  BY DEF NatOn, BackParts, BackOf, RefundTable, RefundFits
<1>3. TakenBack(i) = Total(f, S)
  BY DEF TakenBack, SumOver, BackParts, BackOf
<1> HIDE DEF f, S
<1>4. Total(f, S) \in Nat
  BY <1>1, <1>2, UnitsFinite
<1> QED BY <1>1, <1>2, <1>3, <1>4 DEF f, S

LEMMA TakenBackMore ==
  ASSUME RefundTable, NEW k, ~KeyUsed(k), NEW o, NEW j \in Items, NEW n \in Nat,
         NEW part, part = [i \in {j} |-> n], refunds' = refunds \cup {RefundRow(k, o, part)}
  PROVE  \A i \in Items : TakenBack(i)' = TakenBack(i) + Found(j, n)[i]
<1> DEFINE x == RefundRow(k, o, part)
<1>1. x.key = k /\ x.part = part /\ DOMAIN part = {j} /\ part[j] = n
  BY DEF RefundRow
<1>2. refunds' = refunds \cup {x}
  OBVIOUS
<1> HIDE DEF x
<1>3. x \notin refunds
  BY <1>1 DEF KeyUsed
<1> SUFFICES ASSUME NEW i \in Items PROVE TakenBack(i)' = TakenBack(i) + Found(j, n)[i]
  OBVIOUS
<1> DEFINE S == BackOf(refunds, i)
           f == BackParts(refunds, i)
           T == BackOf(refunds', i)
           g == BackParts(refunds', i)
<1>4. IsFiniteSet(S) /\ NatOn(f, S) /\ TakenBack(i) = Total(f, S) /\ TakenBack(i) \in Nat
  BY TakenBackUnits
<1>5. TakenBack(i)' = Total(g, T)
  BY DEF TakenBack, SumOver, BackParts, BackOf
<1>6. CASE i = j
  <2>1. T = S \cup {x} /\ x \notin S
    BY <1>1, <1>2, <1>3, <1>6 DEF BackOf
  <2>2. Adds(S, f, T, g, x, n)
    BY <1>1, <1>6, <2>1 DEF BackParts, Adds
  <2> HIDE DEF S, T, f, g
  <2>3. Total(g, T) = Total(f, S) + n
    BY <1>4, <2>2, TotalMore
  <2>4. Found(j, n)[i] = n
    BY <1>6 DEF Found
  <2> QED BY <1>4, <1>5, <2>3, <2>4
<1>7. CASE i # j
  <2>1. T = S
    BY <1>1, <1>2, <1>7 DEF BackOf
  <2>2. g = f
    BY <2>1 DEF BackParts
  <2> HIDE DEF S, T, f, g
  <2>3. Found(j, n)[i] = 0
    BY <1>7 DEF Found
  <2> QED BY <1>4, <1>5, <2>1, <2>2, <2>3
<1> QED BY <1>6, <1>7

\* the sales of the old system that sold an item
OldSale(s, i)   == s # NULL /\ s.source = "reference" /\ i \in DOMAIN s.cart
OldSales(f, i)  == {o \in Orders : OldSale(f[o], i)}
OldUnits(f, i)  == [o \in OldSales(f, i) |-> f[o].cart[i].q]

LEMMA SoldBeforeUnits ==
  ASSUME SaleTable, NEW i
  PROVE  /\ IsFiniteSet(OldSales(sale, i)) /\ NatOn(OldUnits(sale, i), OldSales(sale, i))
         /\ SoldBefore(i) = Total(OldUnits(sale, i), OldSales(sale, i)) /\ SoldBefore(i) \in Nat
<1> DEFINE S == OldSales(sale, i)
           f == OldUnits(sale, i)
<1>1. IsFiniteSet(S)
  BY OrdersAssumption, FS_Subset DEF OldSales
<1>2. NatOn(f, S)
  BY DEF NatOn, OldUnits, OldSales, OldSale, SaleTable, SaleFits, CartFits
<1>3. SoldBefore(i) = Total(f, S)
  <2>1. S = {o \in Orders : sale[o] # NULL /\ sale[o].source = "reference" /\ i \in DOMAIN sale[o].cart}
    BY DEF OldSales, OldSale
  <2> QED BY <2>1 DEF SoldBefore, SumOver, OldUnits
<1> HIDE DEF f, S
<1>4. Total(f, S) \in Nat
  BY <1>1, <1>2, UnitsFinite
<1> QED BY <1>1, <1>2, <1>3, <1>4 DEF f, S

LEMMA SoldBeforeSum ==
  ASSUME NEW i
  PROVE  /\ SoldBefore(i) = Total(OldUnits(sale, i), OldSales(sale, i))
         /\ SoldBefore(i)' = Total(OldUnits(sale', i), OldSales(sale', i))
<1>1. /\ OldSales(sale, i) = {o \in Orders : sale[o] # NULL /\ sale[o].source = "reference" /\ i \in DOMAIN sale[o].cart}
      /\ OldSales(sale', i) = {o \in Orders : sale'[o] # NULL /\ sale'[o].source = "reference" /\ i \in DOMAIN sale'[o].cart}
  BY DEF OldSales, OldSale
<1> QED BY <1>1 DEF SoldBefore, SumOver, OldUnits

NotOld(s) == s = NULL \/ s.source # "reference"

LEMMA SoldBeforeSame ==
  ASSUME \A p \in Orders : sale'[p] = sale[p] \/ (NotOld(sale[p]) /\ NotOld(sale'[p]))
  PROVE  \A i \in Items : SoldBefore(i)' = SoldBefore(i)
<1> SUFFICES ASSUME NEW i \in Items PROVE SoldBefore(i)' = SoldBefore(i)
  OBVIOUS
<1>1. \A p \in Orders : sale'[p] = sale[p] \/ (~OldSale(sale[p], i) /\ ~OldSale(sale'[p], i))
  BY DEF OldSale, NotOld
<1>2. OldSales(sale', i) = OldSales(sale, i)
  BY <1>1 DEF OldSales
<1>3. ASSUME NEW p \in OldSales(sale, i)
      PROVE  OldUnits(sale', i)[p] = OldUnits(sale, i)[p]
  <2>1. sale'[p] = sale[p]
    BY <1>1 DEF OldSales
  <2> QED BY <1>2, <2>1 DEF OldUnits
<1>4. Total(OldUnits(sale', i), OldSales(sale, i)) = Total(OldUnits(sale, i), OldSales(sale, i))
  BY <1>3, TotalSame
<1> QED BY <1>2, <1>4, SoldBeforeSum

LEMMA SoldBeforeMore ==
  ASSUME SaleTable, NEW o \in Orders, order[o].status = "NONE", NEW j \in Items, NEW n \in Nat, NEW cart,
         DOMAIN cart = {j}, cart[j].q = n, Sale("reference", NULL, cart) # NULL,
         sale' = [sale EXCEPT ![o] = Sale("reference", NULL, cart)]
  PROVE  \A i \in Items : SoldBefore(i)' = SoldBefore(i) + Found(j, n)[i]
<1> DEFINE s == Sale("reference", NULL, cart)
<1>1. s # NULL /\ s.source = "reference" /\ s.cart = cart
  BY DEF Sale
<1>2. sale' = [sale EXCEPT ![o] = s]
  OBVIOUS
<1> HIDE DEF s
<1>3. sale[o] = NULL /\ sale'[o] = s /\ \A p \in Orders \ {o} : sale'[p] = sale[p]
  BY <1>2 DEF SaleTable, SaleFits
<1> SUFFICES ASSUME NEW i \in Items PROVE SoldBefore(i)' = SoldBefore(i) + Found(j, n)[i]
  OBVIOUS
<1> DEFINE S == OldSales(sale, i)
           f == OldUnits(sale, i)
           T == OldSales(sale', i)
           g == OldUnits(sale', i)
<1>4. IsFiniteSet(S) /\ NatOn(f, S) /\ SoldBefore(i) = Total(f, S) /\ SoldBefore(i) \in Nat
  BY SoldBeforeUnits
<1>5. SoldBefore(i)' = Total(g, T)
  BY SoldBeforeSum
<1>6. ~OldSale(sale[o], i) /\ (OldSale(sale'[o], i) <=> i = j)
  BY <1>1, <1>3 DEF OldSale
<1>7. CASE i = j
  <2>1. T = S \cup {o} /\ o \notin S
    BY <1>3, <1>6, <1>7 DEF OldSales
  <2>2. g[o] = n
    BY <1>1, <1>3, <1>7, <2>1 DEF OldUnits
  <2>3. ASSUME NEW p \in S PROVE g[p] = f[p]
    <3>1. p \in T /\ p \in Orders \ {o}
      BY <2>1 DEF OldSales
    <3> QED BY <1>3, <3>1 DEF OldUnits
  <2>4. Adds(S, f, T, g, o, n)
    BY <2>1, <2>2, <2>3 DEF Adds
  <2> HIDE DEF S, T, f, g
  <2>5. Total(g, T) = Total(f, S) + n
    BY <1>4, <2>4, TotalMore
  <2>6. Found(j, n)[i] = n
    BY <1>7 DEF Found
  <2> QED BY <1>4, <1>5, <2>5, <2>6
<1>8. CASE i # j
  <2>1. T = S
    BY <1>3, <1>6, <1>8 DEF OldSales
  <2>2. ASSUME NEW p \in S PROVE g[p] = f[p]
    <3>1. p \in T /\ p \in Orders \ {o}
      BY <1>6, <2>1 DEF OldSales
    <3> QED BY <1>3, <3>1 DEF OldUnits
  <2> HIDE DEF S, T, f, g
  <2>3. Total(g, S) = Total(f, S)
    BY <2>2, TotalSame
  <2>4. Found(j, n)[i] = 0
    BY <1>8 DEF Found
  <2> QED BY <1>4, <1>5, <2>1, <2>3, <2>4
<1> QED BY <1>7, <1>8

-----------------------------------------------------------------------------
(* The balance *)

Expected(i) == Opening(i) + SoldBefore(i) + Returned(i) + TakenBack(i) + adjustment[i]
Balance ==
  Sound(line) => \A i \in Items : /\ UnitsIn(Db, i) >= Expected(i)
                                  /\ Exact => UnitsIn(Db, i) = Expected(i)
Entries  == ReceiptTable /\ adjustment \in [Items -> Int]
Accounts == Counted(Db) /\ AsksFit /\ CartBins /\ Entries /\ Balance
CountInv == desk \in Desks /\ (~Unfloored => Accounts)

LEMMA OpeningUnits ==
  ASSUME desk \in Desks, NEW i \in Items
  PROVE  Opening(i) \in Nat /\ Opening(i) = OnHand(EmptyShop.inv, i)
<1> DEFINE f == [b \in Bins |-> desk.shelf[<<i, b>>]]
<1>1. \A b \in Bins : desk.shelf[<<i, b>>] \in Nat /\ EmptyShop.inv[<<i, b>>].on_hand = desk.shelf[<<i, b>>]
  <2>1. desk.shelf \in [Rows -> Nat]
    BY DesksAssumption
  <2>2. \A b \in Bins : <<i, b>> \in Rows
    BY DEF Rows
  <2> QED BY <2>1, <2>2 DEF EmptyShop
<1>2. NatOn(f, Bins) /\ IsFiniteSet(Bins)
  BY <1>1, BinsAssumption DEF NatOn
<1>3. Opening(i) = Total(f, Bins)
  BY DEF Opening, SumOver
<1>4. OnHand(EmptyShop.inv, i) = Total(f, Bins)
  <2> DEFINE g == [b \in Bins |-> EmptyShop.inv[<<i, b>>].on_hand]
  <2>1. OnHand(EmptyShop.inv, i) = Total(g, Bins)
    BY DEF OnHand, SumOver
  <2>2. g = f
    BY <1>1
  <2> QED BY <2>1, <2>2
<1> HIDE DEF f
<1> QED BY <1>2, <1>3, <1>4, UnitsFinite

LEMMA ExpectedUnits ==
  ASSUME desk \in Desks, TillInv, Entries, NEW i \in Items
  PROVE  /\ Opening(i) \in Int /\ SoldBefore(i) \in Int /\ Returned(i) \in Int /\ TakenBack(i) \in Int
         /\ adjustment[i] \in Int /\ Expected(i) \in Int
<1>1. SaleTable /\ RefundTable /\ ReceiptTable /\ adjustment[i] \in Int
  BY DEF TillInv, Entries
<1>2. Opening(i) \in Nat
  BY OpeningUnits
<1>3. SoldBefore(i) \in Nat
  BY <1>1, SoldBeforeUnits
<1>4. Returned(i) \in Nat
  BY <1>1, ReturnedUnits
<1>5. TakenBack(i) \in Nat
  BY <1>1, TakenBackUnits
<1> QED BY <1>1, <1>2, <1>3, <1>4, <1>5 DEF Expected

\* the tables after a step are the tables of the next day's work
LEMMA TomorrowIsNext ==
  ASSUME UNCHANGED desk
  PROVE  /\ Counted(Tomorrow) => Counted(Db)'
         /\ Sound(line)' => Sound(line')
         /\ Exact' <=> Exact
         /\ Unfloored' <=> Unfloored
         /\ \A i : UnitsIn(Db, i)' = UnitsIn(Tomorrow, i)
<1>1. Db' = Tomorrow
  BY DEF Db, Tomorrow
<1>2. /\ \A op : Does(op)' <=> Does(op)
      /\ Kinds' = Kinds
  BY DEF Does, Kinds
<1>3. (HandheldPicks' <=> HandheldPicks) /\ (MayDip' <=> MayDip) /\ (Unfloored' <=> Unfloored)
  BY <1>2 DEF HandheldPicks, MayDip, Unfloored, TakesFree
<1>4. Exact' <=> Exact
  BY <1>2, <1>3 DEF Exact
<1>5. \A i : UnitsIn(Db, i)' = UnitsIn(Tomorrow, i)
  BY <1>1 DEF UnitsIn, PickedIn, OnHand, SumOver
<1>6. Counted(Tomorrow) => Counted(Db)'
  <2>1. LinesFit(Tomorrow) => LinesFit(Db)'
    BY <1>1 DEF LinesFit, OrderTable
  <2>2. \A t : Tied(Tomorrow.line, t) => Tied(Db.line, t)'
    BY <1>1 DEF Tied, NoneGone
  <2>3. \A t : HandPicked(Tomorrow.batch, t) => HandPicked(Db.batch, t)'
    BY <1>1, <1>3 DEF HandPicked
  <2>4. Backing(Tomorrow) => Backing(Db)'
    BY <1>1, <1>2, <1>4 DEF Backing, Backed, Frozen, Handed
  <2> QED BY <1>1, <2>1, <2>2, <2>3, <2>4 DEF Counted, BatchTable
<1>7. Sound(line)' => Sound(line')
  BY <1>3 DEF Sound, NoneGone
<1> QED BY <1>3, <1>4, <1>5, <1>6, <1>7

\* what the ledgers expect after a step
Ledger(gain) == \A i \in Items : Expected(i)' = Expected(i) + gain[i]

LEMMA AccountsKept ==
  ASSUME Steady, desk \in Desks, TillInv, Accounts, NEW gain \in [Items -> Int],
         PaidStep(gain), Ledger(gain), AsksFit', CartBins', Entries'
  PROVE  Accounts'
<1>1. UNCHANGED desk /\ Books(Db) /\ Books(Tomorrow) /\ ~Unfloored
  BY SteadyBooks DEF Steady
<1>2. Forward(line, line') /\ Counted(Tomorrow)
  BY PaidGoesOn
<1>3. Counted(Db)'
  BY <1>1, <1>2, TomorrowIsNext
<1>4. ASSUME Sound(line)', NEW i \in Items
      PROVE  /\ UnitsIn(Db, i)' >= Expected(i)'
             /\ Exact' => UnitsIn(Db, i)' = Expected(i)'
  <2> DEFINE a == UnitsIn(Db, i)
             b == UnitsIn(Tomorrow, i)
             e == Expected(i)
             g == gain[i]
             exact == Exact
  <2>1. Sound(line') /\ Sound(line)
    BY <1>1, <1>2, <1>4, TomorrowIsNext, ForwardSound
  <2>2. a >= e /\ (exact => a = e)
    BY <2>1 DEF Accounts, Balance
  <2>3. b >= a + g /\ (exact => b = a + g)
    <3>1. Sound(Tomorrow.line)
      BY <2>1, TomorrowRows
    <3> QED BY <3>1 DEF PaidStep, Paid
  <2>4. a \in Int /\ b \in Int /\ e \in Int /\ g \in Int
    <3>1. a \in Nat
      BY <1>1, UnitsType
    <3>2. b \in Nat
      BY <1>1, UnitsType
    <3>3. e \in Int
      BY ExpectedUnits DEF Accounts
    <3> QED BY <3>1, <3>2, <3>3
  <2>5. UnitsIn(Db, i)' = b /\ (Exact' <=> exact)
    BY <1>1, TomorrowIsNext
  <2>6. Expected(i)' = e + g
    BY DEF Ledger
  <2> HIDE DEF a, b, e, g, exact
  <2>7. b >= e + g /\ (exact => b = e + g)
    BY <2>2, <2>3, <2>4
  <2> QED BY <2>5, <2>6, <2>7
<1>5. Balance'
  BY <1>4 DEF Balance
<1> QED BY <1>3, <1>5 DEF Accounts

\* what does not change, and what each ledger adds
SameBooks == /\ \A i \in Items : Opening(i)' = Opening(i)
             /\ receipt' = receipt => \A i \in Items : Returned(i)' = Returned(i)
             /\ refunds' = refunds => \A i \in Items : TakenBack(i)' = TakenBack(i)
             /\ sale' = sale => \A i \in Items : SoldBefore(i)' = SoldBefore(i)

LEMMA BooksStay ==
  ASSUME UNCHANGED desk
  PROVE  SameBooks
<1>1. \A i \in Items : Opening(i)' = Opening(i)
  BY DEF Opening, SumOver
<1>2. receipt' = receipt => \A i \in Items : Returned(i)' = Returned(i)
  BY DEF Returned, SumOver
<1>3. refunds' = refunds => \A i \in Items : TakenBack(i)' = TakenBack(i)
  BY DEF TakenBack, SumOver
<1>4. sale' = sale => \A i \in Items : SoldBefore(i)' = SoldBefore(i)
  BY DEF SoldBefore, SumOver
<1> QED BY <1>1, <1>2, <1>3, <1>4 DEF SameBooks

LEMMA LedgerStill ==
  ASSUME desk \in Desks, TillInv, Entries, UNCHANGED desk, UNCHANGED ledgers, refunds' = refunds,
         \A i \in Items : SoldBefore(i)' = SoldBefore(i)
  PROVE  Ledger(NoGain) /\ Entries'
<1>1. receipt' = receipt /\ adjustment' = adjustment
  BY DEF ledgers
<1>2. ASSUME NEW i \in Items PROVE Expected(i)' = Expected(i) + NoGain[i]
  <2>1. Expected(i)' = Expected(i)
    BY <1>1, BooksStay DEF SameBooks, Expected
  <2> QED BY <2>1, ExpectedUnits DEF NoGain
<1> QED BY <1>1, <1>2 DEF Ledger, Entries, ReceiptTable

LEMMA LedgerLoss ==
  ASSUME desk \in Desks, TillInv, Entries, UNCHANGED desk, receipt' = receipt, UNCHANGED tillVars,
         NEW j \in Items, NEW n \in Nat, adjustment' = [adjustment EXCEPT ![j] = @ - n]
  PROVE  Ledger(Loss(j, n)) /\ Entries'
<1>1. adjustment \in [Items -> Int] /\ adjustment[j] \in Int
  BY DEF Entries
<1>2. adjustment' \in [Items -> Int] /\ \A i \in Items : adjustment'[i] = adjustment[i] + Loss(j, n)[i]
  BY <1>1 DEF Loss
<1>3. ASSUME NEW i \in Items PROVE Expected(i)' = Expected(i) + Loss(j, n)[i]
  <2> DEFINE g == Loss(j, n)[i]
  <2>1. Loss(j, n)[i] \in Int
    BY DEF Loss
  <2>2. Expected(i)' = Opening(i) + SoldBefore(i) + Returned(i) + TakenBack(i) + adjustment'[i]
    BY BooksStay DEF SameBooks, Expected, tillVars
  <2>3. adjustment'[i] = adjustment[i] + g
    BY <1>2
  <2> HIDE DEF g
  <2>4. Expected(i) + g = Opening(i) + SoldBefore(i) + Returned(i) + TakenBack(i) + adjustment[i] + g
    BY DEF Expected
  <2> QED BY <2>1, <2>2, <2>3, <2>4, ExpectedUnits DEF g
<1> QED BY <1>2, <1>3 DEF Ledger, Entries, ReceiptTable

LEMMA FoundUnits ==
  ASSUME NEW j \in Items, NEW n \in Nat
  PROVE  Found(j, n) \in [Items -> Int] /\ Loss(j, n) \in [Items -> Int] /\ NoGain \in [Items -> Int]
  BY DEF Found, Loss, NoGain

\* one ledger grows, and the other terms of the sum stay
LEMMA LedgerAdds ==
  ASSUME NEW o \in Int, NEW s \in Int, NEW r \in Int, NEW t \in Int, NEW a \in Int, NEW g \in Int
  PROVE  /\ o + (s + g) + r + t + a = o + s + r + t + a + g
         /\ o + s + (r + g) + t + a = o + s + r + t + a + g
         /\ o + s + r + (t + g) + a = o + s + r + t + a + g
  OBVIOUS

LEMMA LedgerReturn ==
  ASSUME desk \in Desks, TillInv, Entries, UNCHANGED desk, UNCHANGED adjustment, UNCHANGED tillVars,
         NEW l \in Lines, NEW q \in Nat, NEW k, NewReceipt(l, k, q)
  PROVE  Ledger(Found(l[2], q)) /\ Entries'
<1>1. ReceiptTable' /\ \A i \in Items : Returned(i)' = Returned(i) + Found(l[2], q)[i]
  BY ReturnedMore DEF Entries
<1>2. l[2] \in Items
  BY DEF Lines
<1>3. ASSUME NEW i \in Items PROVE Expected(i)' = Expected(i) + Found(l[2], q)[i]
  <2>1. Expected(i)' = Opening(i) + SoldBefore(i) + (Returned(i) + Found(l[2], q)[i]) + TakenBack(i) + adjustment[i]
    BY <1>1, BooksStay DEF SameBooks, Expected, tillVars
  <2>2. Found(l[2], q)[i] \in Int
    BY <1>2, FoundUnits
  <2> QED BY <2>1, <2>2, ExpectedUnits, LedgerAdds DEF Expected
<1> QED BY <1>1, <1>3 DEF Ledger, Entries

LEMMA LedgerRefund ==
  ASSUME desk \in Desks, TillInv, Entries, UNCHANGED desk, NEW k, NEW o, NEW j \in Items,
         NEW n \in Quantities, NEW part, part = [i \in {j} |-> n], refund(k, o, part)
  PROVE  Ledger(Found(j, n)) /\ Entries'
<1>1. /\ ~KeyUsed(k) /\ refunds' = refunds \cup {RefundRow(k, o, part)}
      /\ adjustment' = adjustment /\ receipt' = receipt
      /\ sale[o] # NULL /\ sale[o].source = "pos"
      /\ \E fully : sale' = [sale EXCEPT ![o].refunded = fully]
  BY DEF refund, TillOnly, MayRefund
<1>2. n \in Nat
  BY QuantitiesNat
<1>3. \A i \in Items : TakenBack(i)' = TakenBack(i) + Found(j, n)[i]
  BY <1>1, <1>2, TakenBackMore DEF TillInv
<1>4. \A i \in Items : SoldBefore(i)' = SoldBefore(i)
  <2>1. PICK fully : sale' = [sale EXCEPT ![o].refunded = fully]
    BY <1>1
  <2>2. DOMAIN sale = Orders /\ \A p \in Orders : sale[p] # NULL => SaleFits(p)
    BY DEF TillInv, SaleTable
  <2>3. ASSUME NEW p \in Orders
        PROVE  sale'[p] = sale[p] \/ (NotOld(sale[p]) /\ NotOld(sale'[p]))
    <3>1. CASE p = o
      <4>1. SaleFits(o)
        BY <1>1, <2>2, <3>1
      <4>2. sale'[o] = [sale[o] EXCEPT !.refunded = fully]
        BY <2>1, <2>2, <3>1
      <4>3. sale'[o].source = sale[o].source
        BY <4>1, <4>2 DEF SaleFits
      <4> QED BY <1>1, <3>1, <4>3 DEF NotOld
    <3>2. CASE p # o
      BY <2>1, <2>2, <3>2
    <3> QED BY <3>1, <3>2
  <2> QED BY <2>3, SoldBeforeSame
<1>5. ASSUME NEW i \in Items PROVE Expected(i)' = Expected(i) + Found(j, n)[i]
  <2>1. Expected(i)' = Opening(i) + SoldBefore(i) + Returned(i) + (TakenBack(i) + Found(j, n)[i]) + adjustment[i]
    BY <1>1, <1>3, <1>4, BooksStay DEF SameBooks, Expected
  <2>2. Found(j, n)[i] \in Int
    BY <1>2, FoundUnits
  <2> QED BY <2>1, <2>2, ExpectedUnits, LedgerAdds DEF Expected
<1> QED BY <1>1, <1>5 DEF Ledger, Entries, ReceiptTable

LEMMA LedgerOld ==
  ASSUME desk \in Desks, TillInv, Entries, UNCHANGED desk, NEW o, NEW j \in Items, NEW n \in Quantities,
         NEW cart \in TillCarts, DOMAIN cart = {j}, cart[j].q = n, reference_orders(o, cart)
  PROVE  Ledger(Found(j, n)) /\ Entries'
<1>1. /\ o \in Orders /\ order[o].status = "NONE" /\ refunds' = refunds
      /\ adjustment' = adjustment /\ receipt' = receipt
      /\ sale' = [sale EXCEPT ![o] = Sale("reference", NULL, cart)]
  BY DEF reference_orders, FreshOrder, Unborn, TillOnly
<1>2. n \in Nat /\ Sale("reference", NULL, cart) # NULL
  BY QuantitiesNat, SaleAssumption
<1>3. \A i \in Items : SoldBefore(i)' = SoldBefore(i) + Found(j, n)[i]
  BY <1>1, <1>2, SoldBeforeMore DEF TillInv
<1>4. ASSUME NEW i \in Items PROVE Expected(i)' = Expected(i) + Found(j, n)[i]
  <2>1. Expected(i)' = Opening(i) + (SoldBefore(i) + Found(j, n)[i]) + Returned(i) + TakenBack(i) + adjustment[i]
    BY <1>1, <1>3, BooksStay DEF SameBooks, Expected
  <2>2. Found(j, n)[i] \in Int
    BY <1>2, FoundUnits
  <2> QED BY <2>1, <2>2, ExpectedUnits, LedgerAdds DEF Expected
<1> QED BY <1>1, <1>4 DEF Ledger, Entries, ReceiptTable

LEMMA LedgerSale ==
  ASSUME desk \in Desks, TillInv, Entries, UNCHANGED desk, NEW k, NEW o, NEW how, NEW child, NEW cart,
         NEW rma, NEW back, checkout(k, o, how, child, cart, rma, back)
  PROVE  Ledger(NoGain) /\ Entries'
<1> DEFINE s == Sale("pos", k, IF how = "backorder" THEN <<>> ELSE cart)
<1>1. /\ o \in Orders /\ order[o].status = "NONE" /\ refunds' = refunds
      /\ UNCHANGED ledgers /\ sale' = [sale EXCEPT ![o] = s]
  BY DEF checkout, FreshOrder, Unborn, TillOnly, ledgers
<1>2. s.source = "pos"
  BY DEF Sale
<1> HIDE DEF s
<1>3. DOMAIN sale = Orders /\ sale[o] = NULL
  BY <1>1 DEF TillInv, SaleTable, SaleFits
<1>4. \A p \in Orders : sale'[p] = sale[p] \/ (NotOld(sale[p]) /\ NotOld(sale'[p]))
  BY <1>1, <1>2, <1>3 DEF NotOld
<1> QED BY <1>1, <1>4, SoldBeforeSame, LedgerStill

-----------------------------------------------------------------------------
(* Each desk keeps the accounts *)

LEMMA HonestAccounts ==
  ASSUME Steady, desk \in Desks, TillInv, Accounts, HonestStep, Ledger(NoGain), AsksFit', CartBins', Entries'
  PROVE  Accounts'
<1>1. NoGain \in [Items -> Int]
  BY DEF NoGain
<1>2. PaidStep(NoGain)
  BY HonestPays, SteadyBooks DEF HonestStep, PaidStep
<1> QED BY <1>1, <1>2, AccountsKept

LEMMA SaleBins ==
  ASSUME TillInv, CartBins, NEW o, NEW source, NEW k, NEW cart, \A i \in DOMAIN cart : cart[i].bin \in Bins,
         sale' = [sale EXCEPT ![o] = Sale(source, k, cart)]
  PROVE  CartBins'
<1> DEFINE s == Sale(source, k, cart)
<1>1. s.cart = cart
  BY DEF Sale
<1> HIDE DEF s
<1>2. \A p \in Orders : sale'[p] = sale[p] \/ (p = o /\ sale'[p] = s)
  BY DEF TillInv, SaleTable, s
<1> QED BY <1>1, <1>2 DEF CartBins

LEMMA TillCartBins ==
  ASSUME NEW cart \in TillCarts
  PROVE  \A i \in DOMAIN cart : cart[i].bin \in Bins
<1>1. PICK j \in Items, b \in Pickable, n \in Quantities : cart = [i \in {j} |-> [bin |-> b, q |-> n]]
  BY DEF TillCarts
<1> QED BY <1>1, BinsAssumption

LEMMA TillAsks ==
  ASSUME Steady, Requested, AsksFit, TillOnly, NEW gain, PaidStep(gain)
  PROVE  AsksFit'
  BY DoneAsks, PaidAsks DEF TillOnly

LEMMA SaleAccounts ==
  ASSUME Steady, desk \in Desks, TillInv, Accounts, Requested,
         NEW k, NEW o, NEW how \in {"counter", "phone", "backorder"}, NEW child,
         NEW cart \in TillCarts, NEW rma, NEW back, BackFits(rma, back),
         checkout(k, o, how, child, cart, rma, back)
  PROVE  Accounts'
<1>1. HonestStep
  BY CheckoutHonest
<1>2. Ledger(NoGain) /\ Entries'
  BY LedgerSale DEF Steady, Accounts
<1>3. TillOnly
  BY DEF checkout
<1>4. PaidStep(NoGain)
  BY <1>1, HonestPays, SteadyBooks DEF HonestStep, PaidStep
<1>5. AsksFit'
  BY <1>3, <1>4, TillAsks DEF Accounts
<1>6. CartBins'
  <2> DEFINE sold == IF how = "backorder" THEN <<>> ELSE cart
  <2>1. sale' = [sale EXCEPT ![o] = Sale("pos", k, sold)]
    BY DEF checkout
  <2>2. \A i \in DOMAIN sold : sold[i].bin \in Bins
    BY TillCartBins
  <2> HIDE DEF sold
  <2> QED BY <2>1, <2>2, SaleBins DEF Accounts
<1> QED BY <1>1, <1>2, <1>5, <1>6, HonestAccounts

LEMMA OldSaleAccounts ==
  ASSUME Steady, desk \in Desks, TillInv, Accounts, Requested,
         NEW o, NEW cart \in TillCarts, reference_orders(o, cart)
  PROVE  Accounts'
<1>1. PICK j \in Items, b \in Pickable, n \in Quantities : cart = [i \in {j} |-> [bin |-> b, q |-> n]]
  BY DEF TillCarts
<1>2. DOMAIN cart = {j} /\ cart[j].q = n /\ n \in Nat
  BY <1>1, QuantitiesNat
<1>3. PaidStep(Found(j, n))
  BY <1>1, ReferencePays
<1>4. Ledger(Found(j, n)) /\ Entries'
  BY <1>2, LedgerOld DEF Steady, Accounts
<1>5. AsksFit'
  BY <1>3, TillAsks DEF reference_orders, Accounts
<1>6. CartBins'
  <2>1. sale' = [sale EXCEPT ![o] = Sale("reference", NULL, cart)]
    BY DEF reference_orders
  <2>2. \A i \in DOMAIN cart : cart[i].bin \in Bins
    BY TillCartBins
  <2> QED BY <2>1, <2>2, SaleBins DEF Accounts
<1> QED BY <1>2, <1>3, <1>4, <1>5, <1>6, FoundUnits, AccountsKept

LEMMA RefundAccounts ==
  ASSUME Steady, desk \in Desks, TillInv, Accounts, Requested, NEW k \in TillKeys, NEW o \in Orders,
         NEW j \in Items, NEW n \in Quantities, NEW part, part = [i \in {j} |-> n], refund(k, o, part)
  PROVE  Accounts'
<1>1. n \in Nat /\ \A i \in DOMAIN part : part[i] \in Nat
  BY QuantitiesNat
<1>2. Lasting(order, order')
  BY <1>1, RefundTill
<1>3. sale[o] # NULL /\ j \in DOMAIN sale[o].cart
  BY DEF refund, MayRefund
<1>4. PaidStep(Found(j, n))
  <2>1. sale[o].cart[j].bin \in Bins
    BY <1>3 DEF Accounts, CartBins
  <2> QED BY <1>2, <2>1, RefundPays
<1>5. Ledger(Found(j, n)) /\ Entries'
  BY LedgerRefund DEF Steady, Accounts
<1>6. AsksFit'
  BY <1>4, TillAsks DEF refund, Accounts
<1>7. CartBins'
  <2>1. PICK fully : sale' = [sale EXCEPT ![o].refunded = fully]
    BY DEF refund
  <2>2. DOMAIN sale = Orders /\ SaleFits(o)
    BY <1>3 DEF TillInv, SaleTable
  <2>3. sale'[o].cart = sale[o].cart /\ \A p \in Orders \ {o} : sale'[p] = sale[p]
    BY <2>1, <2>2 DEF SaleFits
  <2> QED BY <1>3, <2>3 DEF Accounts, CartBins
<1> QED BY <1>1, <1>4, <1>5, <1>6, <1>7, FoundUnits, AccountsKept

LEMMA TillAccounts ==
  ASSUME Steady, desk \in Desks, TillInv, Accounts, Requested, Till
  PROVE  Accounts'
<1>1. BackFits(NULL, NULL)
  BY DEF BackFits
<1>2. ASSUME NEW k, NEW o, NEW cart \in TillCarts, NEW how \in {"counter", "phone", "backorder"}, NEW child,
             checkout(k, o, how, child, cart, NULL, NULL)
      PROVE  Accounts'
  BY <1>1, <1>2, SaleAccounts
<1>3. ASSUME NEW k, NEW o, NEW cart \in TillCarts, NEW child, NEW rma, NEW i \in Items, NEW n,
             checkout(k, o, "counter", child, cart, rma, [item |-> i, q |-> n])
      PROVE  Accounts'
  <2> DEFINE back == [item |-> i, q |-> n]
  <2>1. BackFits(rma, back)
    BY DEF BackFits
  <2>2. checkout(k, o, "counter", child, cart, rma, back)
    BY <1>3
  <2> HIDE DEF back
  <2> QED BY <2>1, <2>2, SaleAccounts
<1>4. ASSUME NEW o, NEW cart \in TillCarts, reference_orders(o, cart)
      PROVE  Accounts'
  BY <1>4, OldSaleAccounts
<1>5. ASSUME NEW k \in Drawn, NEW o \in Born, NEW j \in Items, NEW n \in Quantities, refund(k, o, [i \in {j} |-> n])
      PROVE  Accounts'
  <2>1. k \in TillKeys /\ o \in Orders
    BY DEF Drawn, Born
  <2> DEFINE part == [i \in {j} |-> n]
  <2>2. refund(k, o, part)
    BY <1>5
  <2> HIDE DEF part
  <2>3. part = [i \in {j} |-> n]
    BY DEF part
  <2> QED BY <2>1, <2>2, <2>3, RefundAccounts
<1>6. CASE Does("counter") /\ \E k \in Drawn, o \in NewOrder, cart \in TillCarts :
              checkout(k, o, "counter", Whole, cart, NULL, NULL)
  BY <1>2, <1>6
<1>7. CASE Does("phone") /\ \E k \in Drawn, o \in NewOrder, cart \in TillCarts :
              checkout(k, o, "phone", Whole, cart, NULL, NULL)
  BY <1>2, <1>7
<1>8. CASE Does("exchange") /\ \E k \in Drawn, o \in NewOrder, cart \in TillCarts :
       \/ checkout(k, o, "backorder", Whole, cart, NULL, NULL)
       \/ \E p \in Born, kind \in {"replacement", "exchange"} :
            checkout(k, o, "phone", [kind |-> kind, of |-> p], cart, NULL, NULL)
       \/ \E p \in Born, rma \in Unborn, i \in Items, n \in Quantities :
            checkout(k, o, "counter", [kind |-> "exchange", of |-> p], cart, rma, [item |-> i, q |-> n])
       \/ reference_orders(o, cart)
  BY <1>2, <1>3, <1>4, <1>8
<1>9. CASE Does("refund") /\ \E k \in Drawn, o \in Born, j \in Items, n \in Quantities :
              refund(k, o, [i \in {j} |-> n])
  BY <1>5, <1>9
<1> QED BY <1>6, <1>7, <1>8, <1>9 DEF Till

\* a desk that is not the till
LEMMA CartBinsKept ==
  ASSUME CartBins, UNCHANGED tillVars
  PROVE  CartBins'
  BY DEF CartBins, tillVars

LEMMA LedgerKept ==
  ASSUME Steady, desk \in Desks, TillInv, Accounts, UNCHANGED ledgers, UNCHANGED tillVars
  PROVE  Ledger(NoGain) /\ Entries'
<1>1. UNCHANGED desk /\ Entries
  BY DEF Steady, Accounts
<1>2. \A i \in Items : SoldBefore(i)' = SoldBefore(i)
  BY <1>1, BooksStay DEF SameBooks, tillVars
<1> QED BY <1>1, <1>2, LedgerStill DEF tillVars

LEMMA StillAccounts ==
  ASSUME Steady, desk \in Desks, TillInv, Accounts, HonestStep, AsksFit', UNCHANGED ledgers, UNCHANGED tillVars
  PROVE  Accounts'
  BY LedgerKept, CartBinsKept, HonestAccounts DEF Accounts

LEMMA OrderDeskAccounts ==
  ASSUME Steady, desk \in Desks, TillInv, Accounts, Requested, OrderDesk, UNCHANGED tillVars
  PROVE  Accounts'
<1>1. request' = request
  BY DEF OrderDesk, create_sales_order, adjust_sales_order_line_allocation, update_sales_order,
         push_sales_order_to_queue, cancel_sales_order, cancel_backorder, revert_sales_order_status,
         admin_pick_sales_order, partial_fulfill_sales_order, add_sales_order_line,
         update_sales_order_line, delete_sales_order_line
<1>2. ASSUME NEW gain, PaidStep(gain) PROVE AsksFit'
  BY <1>1, <1>2, DoneAsks, PaidAsks DEF Accounts
<1>3. receipt' = receipt
  BY OrderDeskPays
<1>4. CASE HonestStep /\ UNCHANGED adjustment
  <2>1. PaidStep(NoGain)
    BY <1>4, HonestPays, SteadyBooks DEF HonestStep, PaidStep
  <2> QED BY <1>2, <1>3, <1>4, <2>1, StillAccounts DEF ledgers
<1>5. ASSUME NEW i \in Items, NEW n \in Nat, PaidStep(Loss(i, n)),
             adjustment' = [adjustment EXCEPT ![i] = @ - n]
      PROVE  Accounts'
  <2>1. Ledger(Loss(i, n)) /\ Entries'
    BY <1>3, <1>5, LedgerLoss DEF Steady, Accounts
  <2>2. AsksFit'
    BY <1>2, <1>5
  <2>3. CartBins'
    BY CartBinsKept DEF Accounts
  <2> QED BY <1>5, <2>1, <2>2, <2>3, FoundUnits, AccountsKept
<1> QED BY <1>4, <1>5, OrderDeskPays

LEMMA ReturnsDeskAccounts ==
  ASSUME Steady, desk \in Desks, TillInv, Accounts, Requested, ReturnsDesk, UNCHANGED tillVars
  PROVE  Accounts'
<1>1. AsksFit' /\ UNCHANGED adjustment
  BY ReturnsDeskPays DEF Accounts
<1>2. CASE HonestStep /\ UNCHANGED receipt
  BY <1>1, <1>2, StillAccounts DEF ledgers
<1>3. ASSUME NEW l \in Lines, NEW q \in Nat, PaidStep(Found(l[2], q)), NEW k, NewReceipt(l, k, q)
      PROVE  Accounts'
  <2>1. Ledger(Found(l[2], q)) /\ Entries'
    BY <1>1, <1>3, LedgerReturn DEF Steady, Accounts
  <2>2. CartBins'
    BY CartBinsKept DEF Accounts
  <2>3. l[2] \in Items
    BY DEF Lines
  <2> QED BY <1>1, <1>3, <2>1, <2>2, <2>3, FoundUnits, AccountsKept
<1> QED BY <1>2, <1>3, ReturnsDeskPays DEF Accounts

LEMMA CountInvNext ==
  ASSUME ShelfInv, DockInv, RefundInv, CountInv, [Next]_vars
  PROVE  CountInv'
<1>1. UNCHANGED desk /\ desk \in Desks /\ TillInv /\ Restores /\ Requested
  BY DEF Next, vars, CountInv, RefundInv, ShelfInv
<1>2. SUFFICES ASSUME ~Unfloored PROVE Accounts'
  BY <1>1, TomorrowIsNext DEF CountInv
<1>3. Accounts /\ Steady
  <2>1. Accounts
    BY <1>2 DEF CountInv
  <2>2. BooksNow /\ BooksNow'
    BY ShelfInvNext DEF ShelfInv
  <2> QED BY <1>1, <1>2, <2>1, <2>2 DEF Steady, Accounts
<1>4. CASE PickWork /\ UNCHANGED tillVars
  <2>1. HonestStep /\ AsksFit'
    BY <1>1, <1>3, <1>4, PickWorkPays DEF Accounts
  <2> QED BY <1>1, <1>3, <1>4, <2>1, StillAccounts DEF PickWork
<1>5. CASE OrderDesk /\ UNCHANGED tillVars
  BY <1>1, <1>3, <1>5, OrderDeskAccounts
<1>6. CASE ReturnsDesk /\ UNCHANGED tillVars
  BY <1>1, <1>3, <1>6, ReturnsDeskAccounts
<1>7. CASE ShippingDesk /\ UNCHANGED tillVars
  <2>1. HonestStep /\ AsksFit' /\ UNCHANGED ledgers
    BY <1>1, <1>3, <1>7, ShippingDeskPays DEF Accounts
  <2> QED BY <1>1, <1>3, <1>7, <2>1, StillAccounts
<1>8. CASE Till
  BY <1>1, <1>3, <1>8, TillAccounts
<1>9. CASE UNCHANGED vars
  <2>1. HonestStep
    BY <1>3, <1>9, StillStep DEF vars
  <2>2. AsksFit' /\ UNCHANGED ledgers /\ UNCHANGED tillVars
    <3>1. request' = request /\ UNCHANGED ledgers /\ UNCHANGED tillVars
      BY <1>9 DEF vars, ledgers, tillVars
    <3>2. \E n : Asking(n)
      BY <1>1, <1>3, <3>1, DoneAsks DEF Accounts
    <3> QED BY <1>1, <1>3, <2>1, <3>1, <3>2, HonestAsks DEF Accounts
  <2> QED BY <1>1, <1>3, <2>1, <2>2, StillAccounts
<1> QED BY <1>4, <1>5, <1>6, <1>7, <1>8, <1>9 DEF Next

-----------------------------------------------------------------------------
(* The morning's accounts: the orders that were entered took no units *)

LEMMA NoPicks == Picked({}) = 0
  BY TotalEmpty DEF Picked, SumOver

LEMMA EmptyCounted ==
  ASSUME desk \in Desks, ~Unfloored
  PROVE  /\ Counted(EmptyShop)
         /\ \A i \in Items : UnitsIn(EmptyShop, i) = Opening(i)
<1>1. /\ EmptyShop.task = {} /\ EmptyShop.batch = [b \in Batches |-> NoBatch]
      /\ EmptyShop.line = [l \in Lines |-> NoLine] /\ EmptyShop.order = [o \in Orders |-> NoOrder]
  BY DEF EmptyShop
<1>2. LinesFit(EmptyShop)
  BY <1>1 DEF LinesFit, OrderTable, NoOrder, NoLine
<1>3. BatchTable(EmptyShop.batch)
  BY <1>1 DEF BatchTable, NoBatch
<1>4. \A o \in Orders : Backed(EmptyShop, o)
  <2> SUFFICES ASSUME NEW o \in Orders, NEW i \in Items
               PROVE  LET T == Handed(EmptyShop.task, o, i)
                      IN  /\ \A t \in T : t.line = <<o, i>>
                          /\ Picked(T) <= EmptyShop.line[<<o, i>>].picked
    BY DEF Backed
  <2>1. Handed(EmptyShop.task, o, i) = {}
    BY <1>1 DEF Handed
  <2>2. EmptyShop.line[<<o, i>>].picked = 0
    BY <1>1 DEF Lines, NoLine
  <2> QED BY <2>1, <2>2, NoPicks
<1>5. Counted(EmptyShop)
  BY <1>1, <1>2, <1>3, <1>4 DEF Counted, Backing
<1>6. ASSUME NEW i \in Items PROVE UnitsIn(EmptyShop, i) = Opening(i)
  <2>1. \A o \in Orders : PickedOf(EmptyShop.line, i)[o] = 0
    BY <1>1 DEF PickedOf, Lines, NoLine
  <2>2. PickedIn(EmptyShop.line, i) = Total(PickedOf(EmptyShop.line, i), Orders)
    BY DEF PickedIn, SumOver, PickedOf
  <2>3. PickedIn(EmptyShop.line, i) = 0
    BY <2>1, <2>2, TotalZero
  <2>4. Opening(i) \in Nat /\ Opening(i) = OnHand(EmptyShop.inv, i)
    BY OpeningUnits
  <2> QED BY <2>3, <2>4 DEF UnitsIn
<1> QED BY <1>5, <1>6

\* the books once n orders are entered
Opened(db, n) ==
  /\ Books(db) /\ Counted(db)
  /\ \A p \in Orders : p > n => db.order[p].status = "NONE"
  /\ Sound(db.line) => \A i \in Items : /\ UnitsIn(db, i) >= Opening(i)
                                        /\ Exact => UnitsIn(db, i) = Opening(i)

LEMMA EntryOpened ==
  ASSUME desk \in Desks, ~Unfloored, NEW n \in Nat, n # 0, NEW db, Opened(db, n - 1), NEW cart, CartRow(cart)
  PROVE  Opened(Entered(db, n, cart), n)
<1> DEFINE new == Entered(db, n, cart)
<1>1. Books(db) /\ Counted(db) /\ OrderTable(db.order)
  BY DEF Opened, Counted, LinesFit
<1>2. new.order = [db.order EXCEPT ![n] = [NoOrder EXCEPT !.status = "OPEN"]]
  BY <1>1 DEF Entered, Books, Session
<1>3. n \in Orders => db.order[n].status = "NONE"
  BY DEF Opened
<1>4. Books(new) /\ Honest(db, new)
  BY <1>1, <1>3, EntryBooks, EntryHonest
<1> HIDE DEF new
<1>5. ASSUME NEW p \in Orders, p > n PROVE new.order[p].status = "NONE"
  <2>1. p \in Int /\ p # n /\ p > n - 1
    BY <1>5, OrdersAssumption
  <2>2. new.order[p] = db.order[p]
    BY <1>1, <1>2, <2>1 DEF OrderTable
  <2> QED BY <2>1, <2>2 DEF Opened
<1>6. ASSUME Sound(new.line), NEW i \in Items
      PROVE  /\ UnitsIn(new, i) >= Opening(i)
             /\ Exact => UnitsIn(new, i) = Opening(i)
  <2> DEFINE a == UnitsIn(db, i)
             b == UnitsIn(new, i)
             e == Opening(i)
             exact == Exact
  <2>1. Sound(db.line)
    BY <1>4, <1>6, ForwardSound DEF Honest
  <2>2. a >= e /\ (exact => a = e)
    BY <2>1 DEF Opened
  <2>3. b >= a /\ (exact => b = a)
    BY <1>4, <1>6 DEF Honest, SameUnits
  <2>4. a \in Nat
    BY <1>1, UnitsType
  <2>5. b \in Nat
    BY <1>4, UnitsType
  <2>6. e \in Nat
    BY OpeningUnits
  <2> HIDE DEF a, b, e, exact
  <2> QED BY <2>2, <2>3, <2>4, <2>5, <2>6 DEF a, b, e, exact
<1>7. Opened(new, n)
  BY <1>4, <1>5, <1>6 DEF Opened, Honest
<1> QED BY <1>7 DEF new

LEMMA EntryKeepsDesk ==
  ASSUME NEW db, Session(db), NEW o, NEW cart
  PROVE  LET new == Entered(db, o, cart) IN new.task = db.task /\ new.batch = db.batch
  BY DEF Entered, Session

LEMMA MorningOpened ==
  ASSUME desk \in Desks, ~Unfloored
  PROVE  /\ Morning.task = {} /\ Morning.batch = [b \in Batches |-> NoBatch]
         /\ \E n \in Nat : Opened(Morning, n)
<1> DEFINE N == Len(desk.carts)
           Fine(db, n) == /\ Opened(db, n) /\ db.task = {}
                          /\ db.batch = [b \in Batches |-> NoBatch]
<1>1. N \in Nat /\ \A n \in 1 .. N : CartRow(desk.carts[n])
  <2>1. desk.carts \in Seq([Items -> Nat])
    BY DesksAssumption
  <2>2. N \in Nat
    BY <2>1, LenProperties
  <2>3. \A n \in 1 .. N : desk.carts[n] \in [Items -> Nat]
    BY <2>1, ElementOfSeq
  <2> QED BY <2>2, <2>3 DEF CartRow
<1>2. \E f : f = [m \in 0 .. N |-> IF m = 0 THEN EmptyShop
                                   ELSE Entered(f[m - 1], m, desk.carts[m])]
  <2> HIDE DEF N
  <2> QED BY <1>1, EntriesExist DEF EntriesUpTo
<1>3. \E e : /\ e = [m \in 0 .. N |-> IF m = 0 THEN EmptyShop
                                   ELSE Entered(e[m - 1], m, desk.carts[m])]
             /\ Morning = e[N]
  BY <1>2 DEF Morning
<1>4. PICK e : EntriesUpTo(N, e) /\ Morning = e[N]
  BY <1>3 DEF EntriesUpTo
<1> DEFINE Wrong == {n \in 0 .. N : ~ Fine(e[n], n)}
           R == {p \in Nat \X Nat : p[1] < p[2]}
<1>5. Wrong = {}
  <2> SUFFICES ASSUME Wrong # {} PROVE FALSE
    OBVIOUS
  <2>1. IsWellFoundedOn(R, Nat)
    BY NatLessThanWellFounded, Zenon DEF OpToRel
  <2>2. PICK n \in Wrong : \A j \in Wrong : ~ (<<j, n>> \in R)
    <3>1. Wrong \subseteq Nat
      OBVIOUS
    <3> HIDE DEF R, Wrong
    <3> QED BY <2>1, <3>1, WFMin
  <2>3. n \in 0 .. N /\ n \in Nat /\ ~ Fine(e[n], n)
    <3> HIDE DEF N, Fine
    <3> QED BY <1>1, <2>2
  <2>4. n \in 0 .. N /\ n \in Nat
    BY <2>3
  <2> HIDE DEF N, Fine
  <2>5. e[n] = IF n = 0 THEN EmptyShop ELSE Entered(e[n - 1], n, desk.carts[n])
    BY <1>4, <2>4 DEF EntriesUpTo
  <2>6. n # 0
    <3>1. Fine(EmptyShop, 0)
      <4>1. Opened(EmptyShop, 0)
        <5>1. \A o \in Orders : EmptyShop.order[o].status = "NONE"
          BY DEF EmptyShop, NoOrder
        <5>2. \A i \in Items : UnitsIn(EmptyShop, i) >= Opening(i)
          BY EmptyCounted, OpeningUnits
        <5> QED BY <5>1, <5>2, EmptyBooks, EmptyCounted DEF Opened
      <4> QED BY <4>1 DEF Fine, EmptyShop
    <3> QED BY <2>3, <2>5, <3>1
  <2>7. Fine(e[n - 1], n - 1)
    <3>1. n - 1 \in 0 .. N /\ n - 1 \in Nat /\ n - 1 < n
      BY <1>1, <2>4, <2>6
    <3>2. <<n - 1, n>> \in R
      BY <2>4, <3>1
    <3>3. n - 1 \notin Wrong
      <4> HIDE DEF R, Wrong
      <4> QED BY <2>2, <3>2
    <3> QED BY <3>1, <3>3
  <2>8. CartRow(desk.carts[n])
    BY <1>1, <2>4, <2>6
  <2>9. Fine(Entered(e[n - 1], n, desk.carts[n]), n)
    <3>1. Opened(e[n - 1], n - 1)
      BY <2>7 DEF Fine
    <3>2. Opened(Entered(e[n - 1], n, desk.carts[n]), n)
      BY <2>4, <2>6, <2>8, <3>1, EntryOpened
    <3> QED BY <2>7, <3>1, <3>2, EntryKeepsDesk DEF Fine, Opened, Books
  <2> QED BY <2>3, <2>5, <2>6, <2>9
<1>6. Fine(e[N], N)
  <2> HIDE DEF N, Fine
  <2>1. N \in 0 .. N
    BY <1>1
  <2> QED BY <1>5, <2>1
<1> QED BY <1>1, <1>4, <1>6

LEMMA CountInvInit == Init => CountInv
<1> SUFFICES ASSUME Init PROVE CountInv
  OBVIOUS
<1>1. /\ desk \in Desks /\ inventory = Morning.inv /\ order = Morning.order /\ line = Morning.line
      /\ batch = [b \in Batches |-> NoBatch] /\ task = {} /\ request = [r \in Requests |-> Idle]
      /\ adjustment = [i \in Items |-> 0] /\ receipt = {}
      /\ sale = [o \in Orders |-> NULL] /\ refunds = {}
  BY DEF Init
<1> SUFFICES ASSUME ~Unfloored PROVE Accounts
  BY <1>1 DEF CountInv
<1>2. Morning.task = task /\ Morning.batch = batch /\ \E n \in Nat : Opened(Morning, n)
  BY <1>1, MorningOpened
<1>3. PICK n \in Nat : Opened(Morning, n)
  BY <1>2
<1>4. Counted(Db) /\ \A i : UnitsIn(Db, i) = UnitsIn(Morning, i)
  BY <1>1, <1>2, <1>3, DbRows, CountedRows DEF Opened
<1>5. AsksFit
  BY <1>1 DEF AsksFit, AskFits, Idle
<1>6. CartBins
  BY <1>1 DEF CartBins
<1>7. Entries
  BY <1>1, FS_EmptySet DEF Entries, ReceiptTable
<1>8. ASSUME NEW i \in Items PROVE Expected(i) = Opening(i)
  <2>1. SaleTable /\ RefundTable
    BY <1>1, RefundInvInit DEF RefundInv, TillInv
  <2>2. Returned(i) = 0
    <3>1. ReceiptsOf(receipt, i) = {}
      BY <1>1 DEF ReceiptsOf
    <3> QED BY <1>7, <3>1, ReturnedUnits, TotalEmpty DEF Entries
  <2>3. TakenBack(i) = 0
    <3>1. BackOf(refunds, i) = {}
      BY <1>1 DEF BackOf
    <3> QED BY <2>1, <3>1, TakenBackUnits, TotalEmpty
  <2>4. SoldBefore(i) = 0
    <3>1. OldSales(sale, i) = {}
      BY <1>1 DEF OldSales, OldSale
    <3> QED BY <2>1, <3>1, SoldBeforeUnits, TotalEmpty
  <2>5. adjustment[i] = 0 /\ Opening(i) \in Nat
    BY <1>1, OpeningUnits
  <2> QED BY <2>2, <2>3, <2>4, <2>5 DEF Expected
<1>9. Balance
  <2> SUFFICES ASSUME Sound(line), NEW i \in Items
               PROVE  UnitsIn(Db, i) >= Expected(i) /\ (Exact => UnitsIn(Db, i) = Expected(i))
    BY DEF Balance
  <2> QED BY <1>1, <1>3, <1>4, <1>8 DEF Opened
<1> QED BY <1>4, <1>5, <1>6, <1>7, <1>9 DEF Accounts

LEMMA CountInvAccounts ==
  ASSUME CountInv
  PROVE  UnitsAccounted
<1> SUFFICES ASSUME ~Unfloored, ~PicksAstray, NEW i \in Items
             PROVE  LET accounted == OnHand(inventory, i) + PickedOn(i)
                        expected  == Opening(i) + SoldBefore(i) + Returned(i) + TakenBack(i) + adjustment[i]
                    IN  accounted >= expected /\ (Exact => accounted = expected)
  BY DEF UnitsAccounted
<1>1. Balance /\ Sound(line)
  BY DEF CountInv, Accounts, PicksAstray, Sound, NoneGone
<1>2. UnitsIn(Db, i) = OnHand(inventory, i) + PickedOn(i)
  BY DEF UnitsIn, PickedIn, PickedOn, Db
<1> QED BY <1>1, <1>2 DEF Balance, Expected

\* No workflow loses units, and on most days none finds any: whatever is picked, packed,
\* shipped, cancelled, reverted, voided, returned, sold at a till and taken back, by
\* whichever desk and with whatever requests in flight, the units on the shelves and
\* on the lines that picked them are those the day began with and those that came in
\* since.
THEOREM UnitsNeverLost == Spec => []UnitsAccounted
<1>1. Init => ShelfInv /\ DockInv /\ RefundInv /\ CountInv
  BY ShelfInvInit, DockInvInit, RefundInvInit, CountInvInit
<1>2. ShelfInv /\ DockInv /\ RefundInv /\ CountInv /\ [Next]_vars
        => (ShelfInv /\ DockInv /\ RefundInv /\ CountInv)'
  BY ShelfInvNext, DockInvNext, RefundInvNext, CountInvNext
<1>3. CountInv => UnitsAccounted
  BY CountInvAccounts
<1> QED BY <1>1, <1>2, <1>3, PTL DEF Spec

=============================================================================
