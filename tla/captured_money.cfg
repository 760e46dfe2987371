\* Money captured for an order that is cancelled, or paid by another payment.
CONSTANTS
  Warehouses = {main}
  DefaultWarehouse = main
  OrderWarehouses = {main}
  Variants = {v1}
  MaxQty = 1
  MaxStock = 2
  Orders = {o1, o2}
  Requests = {}
  Keys = {}
  NoKey = NoKey
  Customers = {}
  Guest = Guest
  UsageLimit = 0
  PerCustomerLimit = 1
  Sweepers = {}
  Payments = {p1, p2}
  NoOrder = NoOrder
SPECIFICATION PaySpec
INVARIANT CapturedMoneyBuysGoods
