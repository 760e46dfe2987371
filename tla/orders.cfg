\* The deployed program: no sweeper, all orders on the default warehouse.
\* Three orders compete, two of their requests repeat one key, and a coupon has
\* both limits.
CONSTANTS
  Warehouses = {main, branch}
  DefaultWarehouse = main
  OrderWarehouses = {main}
  Variants = {v1}
  MaxQty = 2
  MaxStock = 2
  Orders = {o1, o2, o3}
  Requests = {r1, r2}
  Keys = {k1}
  NoKey = NoKey
  Customers = {alice}
  Guest = Guest
  UsageLimit = 2
  PerCustomerLimit = 1
  Sweepers = {}
SYMMETRY Symmetric
SPECIFICATION Spec
INVARIANTS
  NeverOverReserved
  ReservationLedger
  PaymentNeverStarved
  GoodsLeaveOncePerPaidOrder
  OneOrderPerKey
  CouponsAddUp
PROPERTY NoWayBack
PROPERTY ImplementsAllocation
