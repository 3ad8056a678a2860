CONSTANTS
  i1 = i1
  i2 = i2
  r1 = r1
  r2 = r2
  h1 = h1
  h2 = h2
  NULL = NULL
  Items <- TwoItems
  Bins = {1, 2, 3}
  Pickable = {2, 3}
  ReceivingBin = 1
  Orders = {1, 2, 3}
  Batches = {1}
  Users = {1}
  Requests = {r1, r2}
  Keys = {1}
  MaxOrdered = 2
  Purchases = {1}
  Receipts = {1, 2}
  Counts = {1, 2}
  AllowOverReceipt = FALSE
  Transfers = {1}
  Handhelds = {h1, h2}
  MaxTasks = 3
  MaxApprovals = 2
  SalesDocs = {1}
  PurchaseDocs = {2}
  MaxVersion = 3
  MaxChange = 1
  MaxStock = 3
  Desks <- AllDays
SYMMETRY Alike
SPECIFICATION Spec
INVARIANTS TypeOKTransfers ReceivedIsReceipted StockAccounted NoBackorderOverlooked ClosedIsSettled ArrivedAsApproved NewestApplied
CHECK_DEADLOCK FALSE
