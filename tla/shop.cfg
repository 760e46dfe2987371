\* Two orders competing for the stock; two payments for them, or two members of the
\* staff, who handle one of them, with two shipments; two sweepers; two
\* shifts of one desk, one after the other, with two calls, one offline number and
\* sales in cash.
CONSTANTS
  Warehouses = {main}
  DefaultWarehouse = main
  OrderWarehouses = {main}
  Variants = {v1}
  MaxQty = 1
  MaxStock = 2
  Orders = {o1, o2}
  Requests = {r1, r2}
  Keys <- MCKeys
  NoKey = NoKey
  Customers = {}
  Guest = Guest
  UsageLimit = 0
  PerCustomerLimit = 1
  Sweepers = {w1, w2}
  Payments = {p1, p2}
  Staff = {s1, s2}
  Shipments = {x1, x2}
  NoRef = NoRef
  NoOrder = NoOrder
  NoShipment = NoShipment
  PackingRequired = TRUE
  Shifts = {morning, evening}
  OfflineIds = {i1}
  Floats = {1}
  Amounts <- MCAmounts
  MaxMoved = 1
  NoShift = NoShift
  NoSale = NoSale
SYMMETRY Symmetric
SPECIFICATION MCShopSpec
INVARIANTS
  GoodsLeaveOncePerPaidOrder
  NeverOverReserved
  GoodsHaveTheirMoney
  CapturedMoneyCanStillSettle
  OnlyPaidOrdersAreHandled
  OneCallSettlesASale
PROPERTY SuccessIsFinal
PROPERTY DeliveryIsFinal
PROPERTY SaleStaysInItsShift
