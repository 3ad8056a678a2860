CONSTANTS
  i1 = i1
  d1 = d1
  r1 = r1
  r2 = r2
  NULL = NULL
  TillKeys = {1, 2, 3}
  Items <- OneItem
  Bins = {1, 2, 3}
  Pickable = {2, 3}
  ReceivingBin = 1
  Orders = {1, 2, 3}
  Batches = {1, 2, 3}
  Users = {1, 2}
  Requests = {r1, r2}
  Keys = {1}
  MaxOrdered = 2
  PackingRequired = TRUE
  DockKeys = {d1}
  MaxShipments = 2
  MaxAllocationStep = 1
  Desks <- AllDays
SYMMETRY Alike
SPECIFICATION Spec
INVARIANTS UnitsAccounted NeverOverReserved OneWalkPerLine DockdShipsOnce RefundsAddUp
PROPERTIES ShippedWhole
CHECK_DEADLOCK FALSE
