\* One call, and the closing of its shift.
\* There is one shift: a behaviour may stop when it is closed.
CONSTANTS
  Warehouses = {main}
  DefaultWarehouse = main
  OrderWarehouses = {main}
  Variants = {v1}
  MaxQty = 1
  MaxStock = 1
  Orders = {o1}
  Requests = {r1}
  Keys <- MCKeys
  NoKey = NoKey
  Customers = {}
  Guest = Guest
  UsageLimit = 0
  PerCustomerLimit = 1
  Sweepers = {}
  Shifts = {morning}
  OfflineIds = {i1}
  Floats = {1}
  Amounts = {}
  MaxMoved = 1
  NoShift = NoShift
  NoSale = NoSale
SPECIFICATION PosSpec
INVARIANT ClosedShiftAddsUp
CHECK_DEADLOCK FALSE
