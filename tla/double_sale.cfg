\* One sale of one unit in one shift, sent at most twice; the shelf has two.
\* A behaviour may stop when the sale was registered.
CONSTANTS
  Warehouses = {main}
  DefaultWarehouse = main
  OrderWarehouses = {main}
  Variants = {v1}
  MaxQty = 1
  MaxStock = 2
  Orders = {o1, o2}
  Requests = {r1}
  Keys <- MCKeys
  NoKey = NoKey
  Customers = {}
  Guest = Guest
  UsageLimit = 0
  PerCustomerLimit = 1
  Sweepers = {}
  Shifts = {morning}
  OfflineIds = {1, 2, 3, 4, 5}
  Floats = {1}
  Amounts = {}
  MaxMoved = 1
  NoShift = NoShift
  NoSale = NoSale
  MaxRenders = 5
SPECIFICATION TerminalSpec
INVARIANT SoldOnce
CHECK_DEADLOCK FALSE
