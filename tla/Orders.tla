------------------------------- MODULE Orders -------------------------------
(* The order service of packages/orders/src/index.ts on top of the stock      *)
(* table: placing an order (with idempotency key and coupon), settling it     *)
(* when it is paid, cancelling it, and the sweeper of                         *)
(* packages/inventory/src/index.ts that frees the goods of orders whose       *)
(* payment time has run out.                                                  *)
(*                                                                            *)
(* Each action is one committed database transaction, or one statement that   *)
(* commits by itself.  A transaction that throws is rolled back and has no    *)
(* action.  order_status_history and outbox rows are left out: nothing in     *)
(* these handlers reads them back.                                            *)
EXTENDS Stock, OrderCycle, FiniteSets

CONSTANTS Orders,            \* identities available for rows of orders
          OrderWarehouses,   \* warehouses whose goods orders are placed on
          Requests,          \* concurrent createOrder calls with a key
          Keys, NoKey,       \* idempotency keys, and the column's NULL
          Customers, Guest,  \* known customers, and customer_id NULL
          UsageLimit,        \* coupons.usage_limit
          PerCustomerLimit,  \* coupons.per_customer_limit
          Sweepers           \* running calls of releaseExpiredReservations

ASSUME OrdersAssumption ==
  /\ IsFiniteSet(Orders)
  /\ OrderWarehouses \subseteq Warehouses
  /\ NoKey \notin Keys
  /\ Guest \notin Customers
  /\ UsageLimit \in Nat
  /\ PerCustomerLimit \in Nat

VARIABLES status,       \* orders.status, "none" while the row does not exist
          items,        \* order_items, as a basket
          warehouse,    \* where createOrder reserved (not stored by the code)
          key,          \* orders.idempotency_key
          customer,     \* orders.customer_id
          deadline,     \* reservation_expires_at: "none" | "ahead" | "passed"
          paidAt,       \* orders.paid_at is set
          usageCount,   \* coupons.usage_count of the one coupon
          redemptions,  \* orders that have a coupon_redemptions row
          inflight,     \* key a request looked up and did not find, or NoKey
          batch         \* order ids a sweeper selected and has not handled

rowVars    == <<status, items, warehouse, key, customer, deadline, paidAt>>
couponVars == <<usageCount, redemptions>>
procVars   == <<inflight, batch>>
vars       == <<stockVars, rowVars, couponVars, procVars>>

EmptyBasket == [v \in Variants |-> 0]

Init ==
  /\ InitStock
  /\ status = [o \in Orders |-> "none"]
  /\ items = [o \in Orders |-> EmptyBasket]
  /\ warehouse = [o \in Orders |-> DefaultWarehouse]
  /\ key = [o \in Orders |-> NoKey]
  /\ customer = [o \in Orders |-> Guest]
  /\ deadline = [o \in Orders |-> "none"]
  /\ paidAt = [o \in Orders |-> FALSE]
  /\ usageCount = 0
  /\ redemptions = {}
  /\ inflight = [r \in Requests |-> NoKey]
  /\ batch = [s \in Sweepers |-> {}]

-----------------------------------------------------------------------------
(* Coupons: packages/coupons/src/coupons.ts.                                  *)

RedeemedBy(c) == {o \in redemptions : customer[o] = c}

\* Faulty variant: off by one, and nothing is asked of a known customer.
MayRedeemOneMore(c) == usageCount <= UsageLimit

\* validateCouponRecord and the two conditional statements of redeemCoupon: the
\* counter is under its limit, and so are the redemptions of a known customer.
\* Two createOrder transactions cannot interleave here: both hold the order
\* number's counter row from nextNumber to commit.
MayRedeem(c) ==
  /\ usageCount < UsageLimit
  /\ c # Guest => Cardinality(RedeemedBy(c)) < PerCustomerLimit

RedeemCoupon(o) ==
  /\ usageCount'  = usageCount + 1
  /\ redemptions' = redemptions \cup {o}

\* releaseCoupon: nothing without a redemption row of this order.
ReleaseCoupon(o) ==
  /\ usageCount'  = IF o \in redemptions THEN Larger(usageCount - 1, 0)
                                         ELSE usageCount
  /\ redemptions' = redemptions \ {o}

-----------------------------------------------------------------------------
(* createOrder.                                                               *)

\* Faulty variant: the key is forgotten when the order leaves pending_payment.
KeyUsedByUnpaid(k) ==
  \E o \in Orders : key[o] = k /\ status[o] = "pending_payment"

\* The lookup of the idempotency key, and what the unique index compares.
KeyUsed(k) == \E o \in Orders : key[o] = k

\* The body of the transaction: reserve, insert the row, redeem the coupon.
\* The unique index ux_orders_idempotency refuses a second row with the key.
PlaceOrder(o, w, b, k, c, withCoupon) ==
  /\ status[o] = "none"
  /\ b # EmptyBasket
  /\ CanReserve(w, b)
  /\ k # NoKey => ~ KeyUsed(k)
  /\ ReserveStock(w, b)
  /\ status'    = [status EXCEPT ![o] = "pending_payment"]
  /\ items'     = [items EXCEPT ![o] = b]
  /\ warehouse' = [warehouse EXCEPT ![o] = w]
  /\ key'       = [key EXCEPT ![o] = k]
  /\ customer'  = [customer EXCEPT ![o] = c]
  /\ deadline'  = [deadline EXCEPT ![o] = "ahead"]
  /\ IF withCoupon THEN MayRedeem(c) /\ RedeemCoupon(o)
                   ELSE UNCHANGED couponVars
  /\ UNCHANGED <<onHand, supply, paidAt, batch>>

\* Step 1 of a call with a key: the SELECT finds no order.  (When it finds one
\* the call answers with that order and changes nothing.)
CreateBegins(r, k) ==
  /\ inflight[r] = NoKey
  /\ ~ KeyUsed(k)
  /\ inflight' = [inflight EXCEPT ![r] = k]
  /\ UNCHANGED <<stockVars, rowVars, couponVars, batch>>

\* The rest of the call commits, on what the SELECT saw then.
CreateCommits(r, o, w, b, c, withCoupon) ==
  /\ inflight[r] # NoKey
  /\ PlaceOrder(o, w, b, inflight[r], c, withCoupon)
  /\ inflight' = [inflight EXCEPT ![r] = NoKey]

\* Out of stock, coupon exhausted, duplicate key or a lost connection: ROLLBACK.
CreateRollsBack(r) ==
  /\ inflight[r] # NoKey
  /\ inflight' = [inflight EXCEPT ![r] = NoKey]
  /\ UNCHANGED <<stockVars, rowVars, couponVars, batch>>

\* A call without a key reads nothing that could be stale: one step.
CreateWithoutKey(o, w, b, c, withCoupon) ==
  /\ PlaceOrder(o, w, b, NoKey, c, withCoupon)
  /\ UNCHANGED inflight

-----------------------------------------------------------------------------
(* Settlement and cancellation.  Both lock the row of the order first.        *)

\* Faulty variants of the two checks of the status.
PayableUnlessRefunded(o) == status[o] \notin {"none", "refunded"}
HoldsGoodsUnlessShipped(o) == status[o] \in {"pending_payment", "paid"}

\* The status in which an order can be settled, and in which cancelling it
\* gives goods back.
Payable(o) == status[o] = "pending_payment"
HoldsGoods(o) == status[o] = "pending_payment"

\* confirmPaymentOn.  The goods are taken from the default warehouse, whichever
\* one createOrder reserved in.  (The price check cannot fail: total_rial never
\* changes after the insert and every caller passes it.)
ConfirmPaymentOn(o) ==
  /\ Payable(o)
  /\ CanConfirm(DefaultWarehouse, items[o])
  /\ ConfirmStock(DefaultWarehouse, items[o])
  /\ status'   = [status EXCEPT ![o] = "paid"]
  /\ paidAt'   = [paidAt EXCEPT ![o] = TRUE]
  /\ deadline' = [deadline EXCEPT ![o] = "none"]
  /\ UNCHANGED <<supply, items, warehouse, key, customer, couponVars, procVars>>

\* cancel: refused for cancelled and refunded orders only; goods are released
\* for an unpaid order only, again in the default warehouse.
Cancel(o) ==
  /\ status[o] \notin {"none", "cancelled", "refunded"}
  /\ IF HoldsGoods(o)
       THEN ReleaseStock(DefaultWarehouse, items[o])
       ELSE UNCHANGED reserved
  /\ status' = [status EXCEPT ![o] = "cancelled"]
  /\ ReleaseCoupon(o)
  /\ UNCHANGED <<onHand, supply, items, warehouse, key, customer, deadline,
                 paidAt, procVars>>

-----------------------------------------------------------------------------
(* releaseExpiredReservations.                                                *)

\* reservation_expires_at < now() becomes true.
DeadlinePasses(o) ==
  /\ deadline[o] = "ahead"
  /\ deadline' = [deadline EXCEPT ![o] = "passed"]
  /\ UNCHANGED <<stockVars, status, items, warehouse, key, customer, paidAt,
                 couponVars, procVars>>

Expired == {o \in Orders : /\ status[o] = "pending_payment"
                           /\ ~ paidAt[o]
                           /\ deadline[o] = "passed"}

\* The SELECT ... LIMIT ... FOR UPDATE SKIP LOCKED runs outside a transaction:
\* it returns some of the expired orders and its locks end with the statement.
SweepSelects(s, found) ==
  /\ batch[s] = {}
  /\ found # {}
  /\ found \subseteq Expired
  /\ batch' = [batch EXCEPT ![s] = found]
  /\ UNCHANGED <<stockVars, rowVars, couponVars, inflight>>

\* One transaction per selected order, without looking at its status again and
\* without returning its coupon.
SweepReleases(s, o) ==
  /\ o \in batch[s]
  /\ ReleaseStock(DefaultWarehouse, items[o])
  /\ status'   = [status EXCEPT ![o] = "cancelled"]
  /\ deadline' = [deadline EXCEPT ![o] = "none"]
  /\ batch'    = [batch EXCEPT ![s] = @ \ {o}]
  /\ UNCHANGED <<onHand, supply, items, warehouse, key, customer, paidAt,
                 couponVars, inflight>>

\* The process dies, or a transaction throws and the loop ends with it.
SweepDies(s) ==
  /\ batch[s] # {}
  /\ batch' = [batch EXCEPT ![s] = {}]
  /\ UNCHANGED <<stockVars, rowVars, couponVars, inflight>>

-----------------------------------------------------------------------------
Create ==
  \/ \E r \in Requests, k \in Keys : CreateBegins(r, k)
  \/ \E o \in Orders, w \in OrderWarehouses, b \in Baskets,
        c \in Customers \cup {Guest}, withCoupon \in BOOLEAN :
        \/ \E r \in Requests : CreateCommits(r, o, w, b, c, withCoupon)
        \/ CreateWithoutKey(o, w, b, c, withCoupon)
  \/ \E r \in Requests : CreateRollsBack(r)

Sweep ==
  \E s \in Sweepers :
    \/ \E found \in SUBSET Orders : SweepSelects(s, found)
    \/ \E o \in Orders : SweepReleases(s, o)
    \/ SweepDies(s)

StockOnly == BackOffice /\ UNCHANGED <<rowVars, couponVars, procVars>>

Next ==
  \/ Create
  \/ \E o \in Orders : ConfirmPaymentOn(o) \/ Cancel(o) \/ DeadlinePasses(o)
  \/ Sweep
  \/ StockOnly

Spec == Init /\ [][Next]_vars

-----------------------------------------------------------------------------
(* Properties.                                                                *)

TypeOK ==
  /\ TypeOKStock
  /\ status \in [Orders -> Statuses \cup {"none"}]
  /\ items \in [Orders -> Baskets]
  /\ warehouse \in [Orders -> Warehouses]
  /\ key \in [Orders -> Keys \cup {NoKey}]
  /\ customer \in [Orders -> Customers \cup {Guest}]
  /\ deadline \in [Orders -> {"none", "ahead", "passed"}]
  /\ paidAt \in [Orders -> BOOLEAN]
  /\ usageCount \in Nat
  /\ redemptions \subseteq Orders
  /\ inflight \in [Requests -> Keys \cup {NoKey}]
  /\ batch \in [Sweepers -> SUBSET Orders]

\* One element per unit of the variant v that the baskets of S ask for.
Units(baskets, S, v) == {u \in S \X (1 .. MaxQty) : u[2] <= baskets[u[1]][v]}

Unpaid(w) == {o \in Orders : status[o] = "pending_payment" /\ warehouse[o] = w}

Settled == {o \in Orders : paidAt[o]}

\* What is reserved is exactly what the unpaid orders ask for: no unit is held
\* for nobody and none is promised twice (the query of orders.test.ts:150-165).
ReservationLedger ==
  \A w \in Warehouses, v \in Variants :
    reserved[w][v] = Cardinality(Units(items, Unpaid(w), v))

\* Goal U6 (004_orders.sql): whoever pays finds the goods.  Settling an unpaid
\* order never runs into the INVARIANT error of confirmStock.
PaymentNeverStarved ==
  \A o \in Orders :
    status[o] = "pending_payment" => CanConfirm(DefaultWarehouse, items[o])

\* Goods leave the shelves for an order once, when it is settled, and in the
\* quantity it asked for: all else that moved them is in the other movements.
GoodsLeaveOncePerPaidOrder ==
  \A w \in Warehouses, v \in Variants :
    onHand[w][v] + (IF w = DefaultWarehouse
                      THEN Cardinality(Units(items, Settled, v)) ELSE 0)
      = supply[w][v]

\* A cancelled order keeps no goods: what was supplied is on the shelf or went
\* to a settled order that stands.
CancelledOrdersKeepNoGoods ==
  \A v \in Variants :
    onHand[DefaultWarehouse][v]
      + Cardinality(Units(items, {o \in Settled : status[o] # "cancelled"}, v))
      = supply[DefaultWarehouse][v]

\* A double click or a network retry never makes a second order, although the
\* key is looked up before any lock is taken.
OneOrderPerKey ==
  \A o, p \in Orders : key[o] = key[p] /\ key[o] # NoKey => o = p

\* The coupon's counter counts the redemptions there are, and neither the limit
\* of the coupon nor that of a customer is exceeded.
CouponLedger ==
  /\ usageCount = Cardinality(redemptions)
  /\ usageCount <= UsageLimit
  /\ \A c \in Customers : Cardinality(RedeemedBy(c)) <= PerCustomerLimit

\* An order that is cancelled gives its coupon back.
CouponReturned == \A o \in redemptions : status[o] # "cancelled"

\* The coupon is neither used too often nor lost, whichever orders race for it and are
\* cancelled afterwards.
CouponsAddUp == CouponLedger /\ CouponReturned

\* A cancelled order stays cancelled, and a paid order is never unpaid again.
NoWayBack ==
  [][\A o \in Orders :
       /\ status[o] = "cancelled" => status'[o] = "cancelled"
       /\ status'[o] = "pending_payment" => status[o] \in {"none", "pending_payment"}
       /\ status[o] # "none" => items'[o] = items[o]]_vars

\* The sweeper frees unpaid orders only.
OnlyUnpaidOrdersTimeOut ==
  [][\A s \in Sweepers, o \in Orders : SweepReleases(s, o) => ~ paidAt[o]]_vars

-----------------------------------------------------------------------------
(* Refinement: the counter "reserved" of the default warehouse implements the *)
(* promise of Allocation, which computes what is held from the orders.        *)

PhaseOf(st) == CASE st = "none" -> "none"
                 [] st = "pending_payment" -> "held"
                 [] st = "cancelled" -> "dropped"
                 [] OTHER -> "sold"

Promise == INSTANCE Allocation
             WITH stock  <- onHand[DefaultWarehouse],
                  phase  <- [o \in Orders |-> PhaseOf(status[o])],
                  basket <- items

\* The order service keeps the promise of Allocation.
ImplementsAllocation == Promise!Spec

=============================================================================
