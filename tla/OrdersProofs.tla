---------------------------- MODULE OrdersProofs ----------------------------
(* Proofs about Orders, for all values of its constants.                      *)
EXTENDS Orders, FiniteSetTheorems, TLAPS

-----------------------------------------------------------------------------
(* Types and the bound on reservations.  Together they are inductive: that    *)
(* on_hand stays a natural number when goods leave needs reserved <= on_hand. *)

Safe == TypeOK /\ NeverOverReserved

LEMMA SafeInit == Init => Safe
BY StockAssumption, OrdersAssumption
DEF Init, InitStock, Safe, TypeOK, TypeOKStock, NeverOverReserved, Levels,
    Baskets, EmptyBasket, Statuses

LEMMA PlaceOrderSafe ==
  ASSUME Safe,
         NEW o \in Orders, NEW w \in OrderWarehouses, NEW b \in Baskets,
         NEW k \in Keys \cup {NoKey}, NEW c \in Customers \cup {Guest},
         NEW withCoupon \in BOOLEAN,
         PlaceOrder(o, w, b, k, c, withCoupon),
         inflight' \in [Requests -> Keys \cup {NoKey}]
  PROVE  Safe'
<1> USE DEF Safe, TypeOK, TypeOKStock, Levels, Baskets
<1>1. reserved' \in Levels
  <2>1. [v \in Variants |-> reserved[w][v] + b[v]] \in [Variants -> Nat]
    BY OrdersAssumption, StockAssumption
  <2> QED
    BY <2>1, OrdersAssumption DEF PlaceOrder, ReserveStock
<1>2. NeverOverReserved'
  BY OrdersAssumption DEF PlaceOrder, ReserveStock, CanReserve, NeverOverReserved
<1>3. usageCount' \in Nat /\ redemptions' \subseteq Orders
  BY DEF PlaceOrder, RedeemCoupon, couponVars
<1> QED
  BY <1>1, <1>2, <1>3, OrdersAssumption DEF PlaceOrder, Statuses

LEMMA ReleaseSafe ==
  ASSUME Safe, NEW w \in Warehouses, NEW b \in Baskets,
         ReleaseStock(w, b), UNCHANGED onHand
  PROVE  reserved' \in Levels /\ NeverOverReserved'
<1> USE DEF Safe, TypeOK, TypeOKStock, Levels, Baskets
<1>1. [v \in Variants |-> Larger(reserved[w][v] - b[v], 0)] \in [Variants -> Nat]
  BY StockAssumption DEF Larger
<1>2. \A v \in Variants : Larger(reserved[w][v] - b[v], 0) <= onHand[w][v]
  BY StockAssumption DEF Larger, NeverOverReserved
<1> QED
  BY <1>1, <1>2 DEF ReleaseStock, NeverOverReserved

LEMMA BackOfficeSafe ==
  ASSUME Safe, BackOffice, UNCHANGED <<rowVars, couponVars, procVars>>
  PROVE  Safe'
<1> USE DEF Safe, TypeOK, TypeOKStock, Levels
<1> SUFFICES ASSUME NEW w \in Warehouses, NEW v \in Variants, NEW q \in 1 .. MaxQty,
                    \/ ReceiveGoods(w, v, q)
                    \/ AdjustStock(w, v, q)
                    \/ AdjustStock(w, v, -q)
                    \/ SupplierReturn(w, v, q)
                    \/ \E to \in Warehouses : Transfer(w, to, v, q)
             PROVE  TypeOKStock' /\ NeverOverReserved'
  BY DEF BackOffice, rowVars, couponVars, procVars
<1>1. ASSUME NEW d \in Int, Move(w, v, d),
             onHand[w][v] + d >= reserved[w][v]
      PROVE  TypeOKStock' /\ NeverOverReserved'
  <2>1. onHand[w][v] + d \in Nat
    BY <1>1
  <2> QED
    BY <1>1, <2>1 DEF Move, NeverOverReserved
<1>2. CASE ReceiveGoods(w, v, q)
  BY <1>2, <1>1, StockAssumption DEF ReceiveGoods, NeverOverReserved
<1>3. CASE AdjustStock(w, v, q)
  BY <1>3, <1>1, StockAssumption DEF AdjustStock
<1>4. CASE AdjustStock(w, v, -q)
  BY <1>4, <1>1, StockAssumption DEF AdjustStock
<1>5. CASE SupplierReturn(w, v, q)
  BY <1>5, <1>1, StockAssumption DEF SupplierReturn
<1>6. ASSUME NEW to \in Warehouses, Transfer(w, to, v, q)
      PROVE  TypeOKStock' /\ NeverOverReserved'
  <2>1. /\ onHand[w][v] - q \in Nat /\ onHand[to][v] + q \in Nat
        /\ supply[w][v] - q \in Int /\ supply[to][v] + q \in Int
    BY <1>6, StockAssumption DEF Transfer
  <2>2. onHand' \in Levels
    BY <1>6, <2>1 DEF Transfer
  <2>3. supply' \in [Warehouses -> [Variants -> Int]]
    BY <1>6, <2>1 DEF Transfer
  <2>4. ASSUME NEW x \in Warehouses, NEW y \in Variants
        PROVE  reserved[x][y] <= onHand'[x][y]
    <3>1. CASE x = w /\ y = v
      BY <1>6, <3>1 DEF Transfer
    <3>2. CASE x = to /\ y = v
      BY <1>6, <3>2, StockAssumption DEF Transfer, NeverOverReserved
    <3>3. CASE x \notin {w, to} \/ y # v
      <4>1. onHand'[x][y] = onHand[x][y]
        <5>1. CASE x \notin {w, to}
          BY <1>6, <5>1 DEF Transfer
        <5>2. CASE x = w /\ y # v
          BY <1>6, <5>2 DEF Transfer
        <5>3. CASE x = to /\ y # v
          BY <1>6, <5>3 DEF Transfer
        <5> QED
          BY <3>3, <5>1, <5>2, <5>3
      <4> QED
        BY <4>1 DEF NeverOverReserved
    <3> QED
      BY <3>1, <3>2, <3>3
  <2> QED
    BY <1>6, <2>2, <2>3, <2>4 DEF Transfer, NeverOverReserved
<1> QED
  BY <1>2, <1>3, <1>4, <1>5, <1>6

LEMMA SafeStep == Safe /\ [Next]_vars => Safe'
<1> SUFFICES ASSUME Safe, [Next]_vars PROVE Safe'
  OBVIOUS
<1>1. ASSUME NEW r \in Requests, NEW k \in Keys, CreateBegins(r, k)
      PROVE  Safe'
  BY <1>1 DEF CreateBegins, Safe, TypeOK, TypeOKStock, NeverOverReserved,
              stockVars, rowVars, couponVars
<1>2. ASSUME NEW o \in Orders, NEW w \in OrderWarehouses, NEW b \in Baskets,
             NEW c \in Customers \cup {Guest}, NEW withCoupon \in BOOLEAN,
             NEW r \in Requests, CreateCommits(r, o, w, b, c, withCoupon)
      PROVE  Safe'
  <2>1. inflight[r] \in Keys \cup {NoKey}
    BY DEF Safe, TypeOK
  <2>2. inflight' \in [Requests -> Keys \cup {NoKey}]
    BY <1>2 DEF CreateCommits, Safe, TypeOK
  <2> QED
    BY <1>2, <2>1, <2>2, PlaceOrderSafe DEF CreateCommits
<1>3. ASSUME NEW o \in Orders, NEW w \in OrderWarehouses, NEW b \in Baskets,
             NEW c \in Customers \cup {Guest}, NEW withCoupon \in BOOLEAN,
             CreateWithoutKey(o, w, b, c, withCoupon)
      PROVE  Safe'
  BY <1>3, PlaceOrderSafe DEF CreateWithoutKey, Safe, TypeOK
<1>4. ASSUME NEW r \in Requests, CreateRollsBack(r)
      PROVE  Safe'
  BY <1>4 DEF CreateRollsBack, Safe, TypeOK, TypeOKStock, NeverOverReserved,
              stockVars, rowVars, couponVars
<1>5. ASSUME NEW o \in Orders, ConfirmPaymentOn(o)
      PROVE  Safe'
  <2> DEFINE w == DefaultWarehouse
             b == items[o]
  <2>0. w \in Warehouses /\ b \in Baskets
    BY StockAssumption DEF Safe, TypeOK
  <2>1. [v \in Variants |-> reserved[w][v] - b[v]] \in [Variants -> Nat]
    BY <1>5, <2>0, StockAssumption
    DEF ConfirmPaymentOn, Payable, CanConfirm, Safe, TypeOK, TypeOKStock, Levels, Baskets
  <2>2. [v \in Variants |-> onHand[w][v] - b[v]] \in [Variants -> Nat]
    BY <1>5, <2>0, StockAssumption
    DEF ConfirmPaymentOn, Payable, CanConfirm, NeverOverReserved,
        Safe, TypeOK, TypeOKStock, Levels, Baskets
  <2>3. reserved' \in Levels /\ onHand' \in Levels
    BY <1>5, <2>0, <2>1, <2>2
    DEF ConfirmPaymentOn, Payable, ConfirmStock, Safe, TypeOK, TypeOKStock, Levels
  <2>4. NeverOverReserved'
    BY <1>5, <2>0, StockAssumption
    DEF ConfirmPaymentOn, Payable, ConfirmStock, NeverOverReserved,
        Safe, TypeOK, TypeOKStock, Levels, Baskets
  <2> QED
    BY <1>5, <2>3, <2>4
    DEF ConfirmPaymentOn, Payable, Safe, TypeOK, TypeOKStock, couponVars, procVars, Statuses
<1>6. ASSUME NEW o \in Orders, Cancel(o)
      PROVE  Safe'
  <2>1. reserved' \in Levels /\ NeverOverReserved'
    BY <1>6, ReleaseSafe, StockAssumption
    DEF Cancel, HoldsGoods, Safe, TypeOK, TypeOKStock, NeverOverReserved
  <2>2. usageCount' \in Nat /\ redemptions' \subseteq Orders
    BY <1>6 DEF Cancel, HoldsGoods, ReleaseCoupon, Larger, Safe, TypeOK
  <2> QED
    BY <1>6, <2>1, <2>2
    DEF Cancel, HoldsGoods, Safe, TypeOK, TypeOKStock, procVars, Statuses
<1>7. ASSUME NEW o \in Orders, DeadlinePasses(o)
      PROVE  Safe'
  BY <1>7 DEF DeadlinePasses, Safe, TypeOK, TypeOKStock, NeverOverReserved,
              stockVars, couponVars, procVars
<1>8. ASSUME NEW s \in Sweepers, NEW found \in SUBSET Orders, SweepSelects(s, found)
      PROVE  Safe'
  BY <1>8 DEF SweepSelects, Safe, TypeOK, TypeOKStock, NeverOverReserved,
              stockVars, rowVars, couponVars
<1>9. ASSUME NEW s \in Sweepers, NEW o \in Orders, SweepReleases(s, o)
      PROVE  Safe'
  <2>1. reserved' \in Levels /\ NeverOverReserved'
    BY <1>9, ReleaseSafe, StockAssumption DEF SweepReleases, Safe, TypeOK
  <2> QED
    BY <1>9, <2>1
    DEF SweepReleases, Safe, TypeOK, TypeOKStock, couponVars, Statuses
<1>10. ASSUME NEW s \in Sweepers, SweepDies(s)
       PROVE  Safe'
  BY <1>10 DEF SweepDies, Safe, TypeOK, TypeOKStock, NeverOverReserved,
               stockVars, rowVars, couponVars
<1>11. CASE StockOnly
  BY <1>11, BackOfficeSafe DEF StockOnly
<1>12. CASE UNCHANGED vars
  BY <1>12 DEF vars, stockVars, rowVars, couponVars, procVars,
               Safe, TypeOK, TypeOKStock, NeverOverReserved
<1> QED
  BY <1>1, <1>2, <1>3, <1>4, <1>5, <1>6, <1>7, <1>8, <1>9, <1>10, <1>11, <1>12
  DEF Next, Create, Sweep

\* Type correctness of the order service, sweepers and branches included.
THEOREM TypeCorrect == Spec => []TypeOK
<1>1. Safe => TypeOK
  BY DEF Safe
<1> QED
  BY SafeInit, SafeStep, <1>1, PTL DEF Spec

\* Whatever sweepers, requests and back office do, no shelf promises more than
\* it holds: the CHECK constraints never refuse an update of the order service.
THEOREM StockBound == Spec => []NeverOverReserved
<1>1. Safe => NeverOverReserved
  BY DEF Safe
<1> QED
  BY SafeInit, SafeStep, <1>1, PTL DEF Spec

-----------------------------------------------------------------------------
(* Counting units.                                                            *)

LEMMA UnitsFinite ==
  ASSUME NEW baskets \in [Orders -> Baskets], NEW S \in SUBSET Orders,
         NEW v \in Variants
  PROVE  /\ IsFiniteSet(Units(baskets, S, v))
         /\ Cardinality(Units(baskets, S, v)) \in Nat
<1>1. IsFiniteSet(S)
  BY FS_Subset, OrdersAssumption
<1>2. IsFiniteSet(1 .. MaxQty)
  BY FS_Interval, StockAssumption
<1>3. IsFiniteSet(S \X (1 .. MaxQty))
  BY <1>1, <1>2, FS_Product
<1>4. Units(baskets, S, v) \in SUBSET (S \X (1 .. MaxQty))
  BY DEF Units
<1> QED
  BY <1>3, <1>4, FS_Subset, FS_CardinalityType

LEMMA UnitsOfOne ==
  ASSUME NEW baskets \in [Orders -> Baskets], NEW o \in Orders,
         NEW v \in Variants
  PROVE  Cardinality(Units(baskets, {o}, v)) = baskets[o][v]
<1> DEFINE n == baskets[o][v]
<1>1. n \in 0 .. MaxQty
  BY DEF Baskets
<1>2. Units(baskets, {o}, v) = {o} \X (1 .. n)
  BY <1>1, StockAssumption DEF Units
<1>3. IsFiniteSet({o}) /\ Cardinality({o}) = 1
  BY FS_Singleton
<1>4. n \in Nat
  BY <1>1, StockAssumption
<1> HIDE DEF n
<1>5. IsFiniteSet(1 .. n) /\ Cardinality(1 .. n) = n
  <2>1. /\ IsFiniteSet(1 .. n)
        /\ Cardinality(1 .. n) = IF 1 > n THEN 0 ELSE n - 1 + 1
    BY <1>4, FS_Interval
  <2>2. (IF 1 > n THEN 0 ELSE n - 1 + 1) = n
    BY <1>4
  <2> QED
    BY <2>1, <2>2
<1>6. Cardinality({o} \X (1 .. n)) = 1 * n
  <2> DEFINE A == {o}
             B == 1 .. n
  <2>1. IsFiniteSet(A) /\ Cardinality(A) = 1 /\ IsFiniteSet(B) /\ Cardinality(B) = n
    BY <1>3, <1>5
  <2> HIDE DEF A, B
  <2>2. Cardinality(A \X B) = 1 * n
    BY <2>1, FS_Product
  <2> QED
    BY <2>2 DEF A, B
<1>7. 1 * n = n
  BY <1>4
<1>8. Cardinality(Units(baskets, {o}, v)) = n
  BY <1>2, <1>6, <1>7
<1> QED
  BY <1>8 DEF n

LEMMA UnitsSplit ==
  ASSUME NEW baskets \in [Orders -> Baskets], NEW S \in SUBSET Orders,
         NEW o \in S, NEW v \in Variants
  PROVE  Cardinality(Units(baskets, S, v))
           = Cardinality(Units(baskets, S \ {o}, v)) + baskets[o][v]
<1> DEFINE A == Units(baskets, S \ {o}, v)
           B == Units(baskets, {o}, v)
<1>1. Units(baskets, S, v) = A \cup B
  BY DEF Units
<1>2. A \cap B = {}
  BY DEF Units
<1>3. /\ IsFiniteSet(A) /\ Cardinality(A) \in Nat
      /\ IsFiniteSet(B) /\ Cardinality(B) = baskets[o][v]
      /\ Cardinality(B) \in Nat
  BY UnitsFinite, UnitsOfOne
<1>4. Cardinality(A \cup B)
        = Cardinality(A) + Cardinality(B) - Cardinality(A \cap B)
  BY <1>3, FS_Union
<1>5. Cardinality(A \cap B) = 0
  BY <1>2, FS_EmptySet
<1> QED
  BY <1>1, <1>3, <1>4, <1>5

LEMMA UnitsAgree ==
  ASSUME NEW f \in [Orders -> Baskets], NEW g \in [Orders -> Baskets],
         NEW S \in SUBSET Orders, \A o \in S : f[o] = g[o], NEW v \in Variants
  PROVE  Units(f, S, v) = Units(g, S, v)
BY DEF Units

-----------------------------------------------------------------------------
(* The ledger of reservations.  It holds while no sweeper runs and every      *)
(* order is placed on the default warehouse, as those of the web shop are.    *)

WebShopOnly == Sweepers = {} /\ OrderWarehouses = {DefaultWarehouse}

Pending == {o \in Orders : status[o] = "pending_payment"}

\* The units that warehouse w holds for unpaid orders.
HeldAt(w, v) ==
  IF w = DefaultWarehouse THEN Cardinality(Units(items, Pending, v)) ELSE 0

Ledger ==
  /\ Safe
  /\ \A o \in Orders : warehouse[o] = DefaultWarehouse
  /\ \A w \in Warehouses, v \in Variants : reserved[w][v] = HeldAt(w, v)

LEMMA LedgerImplies == Ledger => ReservationLedger
<1> SUFFICES ASSUME Ledger PROVE ReservationLedger
  OBVIOUS
<1>1. Unpaid(DefaultWarehouse) = Pending
  BY DEF Unpaid, Pending, Ledger
<1>2. ASSUME NEW w \in Warehouses, w # DefaultWarehouse, NEW v \in Variants
      PROVE  Cardinality(Units(items, Unpaid(w), v)) = 0
  <2>1. Unpaid(w) = {}
    BY <1>2 DEF Unpaid, Ledger
  <2>2. Units(items, Unpaid(w), v) = {}
    BY <2>1 DEF Units
  <2> QED
    BY <2>2, FS_EmptySet
<1> QED
  BY <1>1, <1>2 DEF ReservationLedger, Ledger, HeldAt

LEMMA LedgerInit == Init => Ledger
<1> SUFFICES ASSUME Init PROVE Ledger
  OBVIOUS
<1>1. Safe /\ \A o \in Orders : warehouse[o] = DefaultWarehouse
  BY SafeInit DEF Init
<1>2. Pending = {}
  BY DEF Init, Pending
<1>3. \A v \in Variants : Units(items, Pending, v) = {}
  BY <1>2 DEF Units
<1>4. \A v \in Variants : Cardinality(Units(items, Pending, v)) = 0
  BY <1>3, FS_EmptySet
<1>5. \A w \in Warehouses, v \in Variants : reserved[w][v] = 0
  BY DEF Init, InitStock
<1> QED
  BY <1>1, <1>4, <1>5 DEF Ledger, HeldAt

LEMMA PlaceOrderLedger ==
  ASSUME Ledger, WebShopOnly, Safe',
         NEW o \in Orders, NEW w \in OrderWarehouses, NEW b \in Baskets,
         NEW k \in Keys \cup {NoKey}, NEW c \in Customers \cup {Guest},
         NEW withCoupon \in BOOLEAN,
         PlaceOrder(o, w, b, k, c, withCoupon)
  PROVE  Ledger'
<1> USE StockAssumption
<1>0. /\ w = DefaultWarehouse /\ w \in Warehouses
      /\ items \in [Orders -> Baskets] /\ items' \in [Orders -> Baskets]
      /\ items' = [items EXCEPT ![o] = b]
      /\ reserved \in Levels
  BY DEF WebShopOnly, Ledger, Safe, TypeOK, TypeOKStock, PlaceOrder
<1>1. \A p \in Orders : warehouse'[p] = DefaultWarehouse
  BY <1>0 DEF PlaceOrder, Ledger, Safe, TypeOK
<1>2. /\ o \in Pending' /\ Pending' \ {o} = Pending
      /\ Pending \in SUBSET Orders /\ Pending' \in SUBSET Orders
  BY DEF PlaceOrder, Pending, Ledger, Safe, TypeOK, Statuses
<1>3. ASSUME NEW v \in Variants
      PROVE  Cardinality(Units(items', Pending', v))
               = Cardinality(Units(items, Pending, v)) + b[v]
  <2>1. \A f \in [Orders -> Baskets], S \in SUBSET Orders :
          o \in S => Cardinality(Units(f, S, v))
                       = Cardinality(Units(f, S \ {o}, v)) + f[o][v]
    BY UnitsSplit
  <2>2. \A f, g \in [Orders -> Baskets], S \in SUBSET Orders :
          (\A p \in S : f[p] = g[p]) => Units(f, S, v) = Units(g, S, v)
    BY UnitsAgree
  <2>3. Cardinality(Units(items', Pending', v))
          = Cardinality(Units(items', Pending, v)) + b[v]
    BY <1>0, <1>2, <2>1
  <2>4. \A p \in Pending : items'[p] = items[p]
    BY <1>0, <1>2
  <2>5. Units(items', Pending, v) = Units(items, Pending, v)
    BY <1>0, <1>2, <2>2, <2>4
  <2> QED
    BY <2>3, <2>5
<1>4. ASSUME NEW x \in Warehouses, NEW v \in Variants
      PROVE  reserved'[x][v] = IF x = DefaultWarehouse
                                 THEN reserved[x][v] + b[v] ELSE reserved[x][v]
  BY <1>0 DEF PlaceOrder, ReserveStock, Levels
<1>5. \A x \in Warehouses, v \in Variants : reserved'[x][v] = HeldAt(x, v)'
  BY <1>3, <1>4 DEF Ledger, HeldAt
<1> QED
  BY <1>1, <1>5 DEF Ledger

\* An order that is settled or cancelled takes its own units off the ledger.
LEMMA LeaveLedger ==
  ASSUME Ledger, Safe', NEW o \in Orders, status[o] = "pending_payment",
         NEW st \in Statuses \ {"pending_payment"},
         status' = [status EXCEPT ![o] = st],
         UNCHANGED <<items, warehouse>>,
         \/ ReleaseStock(DefaultWarehouse, items[o])
         \/ CanConfirm(DefaultWarehouse, items[o])
              /\ ConfirmStock(DefaultWarehouse, items[o])
  PROVE  Ledger'
<1> USE StockAssumption
<1>0. /\ items \in [Orders -> Baskets] /\ items' = items
      /\ status \in [Orders -> Statuses \cup {"none"}]
      /\ reserved \in Levels
  BY DEF Ledger, Safe, TypeOK, TypeOKStock
<1>1. /\ o \in Pending /\ Pending' = Pending \ {o}
      /\ Pending \in SUBSET Orders /\ Pending' \in SUBSET Orders
  BY <1>0 DEF Pending
<1>2. ASSUME NEW v \in Variants
      PROVE  /\ Cardinality(Units(items, Pending, v))
                  = Cardinality(Units(items, Pending', v)) + items[o][v]
             /\ Cardinality(Units(items, Pending', v)) \in Nat
             /\ items[o][v] \in Nat
             /\ reserved[DefaultWarehouse][v]
                  = Cardinality(Units(items, Pending, v))
  BY <1>0, <1>1, UnitsSplit, UnitsFinite
  DEF Ledger, HeldAt, Baskets
<1>3. ASSUME NEW x \in Warehouses, NEW v \in Variants
      PROVE  reserved'[x][v] = IF x = DefaultWarehouse
                                 THEN reserved[x][v] - items[o][v]
                                 ELSE reserved[x][v]
  <2>1. reserved[DefaultWarehouse][v] - items[o][v] >= 0
    BY <1>2
  <2> QED
    BY <1>0, <1>2, <2>1 DEF ReleaseStock, ConfirmStock, Levels, Larger
<1>4. \A x \in Warehouses, v \in Variants : reserved'[x][v] = HeldAt(x, v)'
  BY <1>0, <1>2, <1>3 DEF Ledger, HeldAt
<1> QED
  BY <1>4 DEF Ledger

LEMMA LedgerUndisturbed ==
  ASSUME Ledger, Safe', UNCHANGED <<items, warehouse, reserved>>,
         \A o \in Orders :
           (status'[o] = "pending_payment") <=> (status[o] = "pending_payment")
  PROVE  Ledger'
<1>1. Pending' = Pending
  BY DEF Pending
<1>2. \A w \in Warehouses, v \in Variants : HeldAt(w, v)' = HeldAt(w, v)
  BY <1>1 DEF HeldAt
<1> QED
  BY <1>2 DEF Ledger

LEMMA LedgerStep ==
  ASSUME WebShopOnly, Ledger, [Next]_vars
  PROVE  Ledger'
<1> USE StockAssumption
<1>0. Safe'
  BY SafeStep DEF Ledger
<1>1. ASSUME NEW o \in Orders, NEW w \in OrderWarehouses, NEW b \in Baskets,
             NEW c \in Customers \cup {Guest}, NEW withCoupon \in BOOLEAN,
             \/ \E r \in Requests : CreateCommits(r, o, w, b, c, withCoupon)
             \/ CreateWithoutKey(o, w, b, c, withCoupon)
      PROVE  Ledger'
  <2>1. PICK k \in Keys \cup {NoKey} : PlaceOrder(o, w, b, k, c, withCoupon)
    BY <1>1 DEF CreateCommits, CreateWithoutKey, Ledger, Safe, TypeOK
  <2> QED
    BY <1>0, <2>1, PlaceOrderLedger
<1>2. CASE \/ \E r \in Requests, k \in Keys : CreateBegins(r, k)
           \/ \E r \in Requests : CreateRollsBack(r)
  BY <1>0, <1>2, LedgerUndisturbed
  DEF CreateBegins, CreateRollsBack, stockVars, rowVars
<1>3. ASSUME NEW o \in Orders, ConfirmPaymentOn(o)
      PROVE  Ledger'
  BY <1>0, <1>3, LeaveLedger DEF ConfirmPaymentOn, Payable, Statuses
<1>4. ASSUME NEW o \in Orders, Cancel(o)
      PROVE  Ledger'
  <2>1. CASE status[o] = "pending_payment"
    BY <1>0, <1>4, <2>1, LeaveLedger DEF Cancel, HoldsGoods, Statuses
  <2>2. CASE status[o] # "pending_payment"
    BY <1>0, <1>4, <2>2, LedgerUndisturbed DEF Cancel, HoldsGoods, Ledger, Safe, TypeOK
  <2> QED
    BY <2>1, <2>2
<1>5. ASSUME NEW o \in Orders, DeadlinePasses(o)
      PROVE  Ledger'
  BY <1>0, <1>5, LedgerUndisturbed DEF DeadlinePasses, stockVars
<1>6. ~ Sweep
  BY DEF Sweep, WebShopOnly
<1>7. CASE StockOnly
  <2>1. UNCHANGED reserved
    BY <1>7 DEF StockOnly, BackOffice, ReceiveGoods, AdjustStock,
                SupplierReturn, Transfer, Move
  <2> QED
    BY <1>0, <1>7, <2>1, LedgerUndisturbed DEF StockOnly, rowVars
<1>8. CASE UNCHANGED vars
  BY <1>0, <1>8, LedgerUndisturbed DEF vars, stockVars, rowVars
<1> QED
  BY <1>1, <1>2, <1>3, <1>4, <1>5, <1>6, <1>7, <1>8 DEF Next, Create

\* Without sweepers and branch orders, what is reserved is exactly what unpaid
\* orders ask for: reservations neither leak nor vanish.
THEOREM NoReservationLeaks ==
  ASSUME WebShopOnly
  PROVE  Spec => []ReservationLedger
BY LedgerInit, LedgerStep, LedgerImplies, PTL DEF Spec

LEMMA LedgerFeedsPayment == Ledger => PaymentNeverStarved
<1> SUFFICES ASSUME Ledger, NEW o \in Orders, status[o] = "pending_payment",
                    NEW v \in Variants
             PROVE  reserved[DefaultWarehouse][v] >= items[o][v]
  BY DEF PaymentNeverStarved, CanConfirm
<1>1. o \in Pending /\ Pending \in SUBSET Orders
  BY DEF Pending
<1>2. items \in [Orders -> Baskets] /\ items[o][v] \in Int
  BY StockAssumption DEF Ledger, Safe, TypeOK, Baskets
<1>3. /\ Cardinality(Units(items, Pending, v))
           = Cardinality(Units(items, Pending \ {o}, v)) + items[o][v]
      /\ Cardinality(Units(items, Pending \ {o}, v)) \in Nat
  BY <1>1, <1>2, UnitsSplit, UnitsFinite
<1>4. reserved[DefaultWarehouse][v] = Cardinality(Units(items, Pending, v))
  BY StockAssumption DEF Ledger, HeldAt
<1> QED
  BY <1>2, <1>3, <1>4

\* Goal U6 of 004_orders.sql: without sweepers and branch orders, an unpaid
\* order that is paid always finds its goods.
THEOREM NoPaidOrderLacksGoods ==
  ASSUME WebShopOnly
  PROVE  Spec => []PaymentNeverStarved
BY LedgerInit, LedgerStep, LedgerFeedsPayment, PTL DEF Spec

-----------------------------------------------------------------------------
(* Goods leave for settled orders only, once.                                 *)

\* Goods of v that left the warehouse w with settled orders.
Sold(w, v) ==
  IF w = DefaultWarehouse THEN Cardinality(Units(items, Settled, v)) ELSE 0

\* The strengthening: an order that is settled is no longer payable, and its
\* row exists.
Shelves ==
  /\ Safe
  /\ \A o \in Settled : status[o] \notin {"none", "pending_payment"}
  /\ \A s \in Sweepers : \A o \in batch[s] : status[o] # "none"
  /\ \A w \in Warehouses, v \in Variants :
       onHand[w][v] + Sold(w, v) = supply[w][v]

LEMMA ShelvesInit == Init => Shelves
<1> SUFFICES ASSUME Init PROVE Shelves
  OBVIOUS
<1>1. Settled = {}
  BY DEF Init, Settled
<1>2. \A v \in Variants : Units(items, Settled, v) = {}
  BY <1>1 DEF Units
<1>3. \A w \in Warehouses, v \in Variants : Sold(w, v) = 0
  BY <1>2, FS_EmptySet DEF Sold
<1>4. \A w \in Warehouses, v \in Variants : onHand[w][v] + 0 = supply[w][v]
  BY StockAssumption DEF Init, InitStock
<1> QED
  BY <1>1, <1>3, <1>4, SafeInit DEF Shelves, Init

\* A step that touches neither the shelves nor a settled order's items.
LEMMA ShelvesUndisturbed ==
  ASSUME Shelves, Safe', UNCHANGED <<onHand, supply, paidAt>>,
         \A o \in Settled : items'[o] = items[o],
         \A o \in Orders : status[o] # "none" => status'[o] # "none",
         \A o \in Settled : status'[o] \notin {"none", "pending_payment"},
         \A s \in Sweepers : \A o \in batch'[s] : status'[o] # "none"
  PROVE  Shelves'
<1>1. Settled' = Settled /\ Settled \in SUBSET Orders
  BY DEF Settled
<1>2. items \in [Orders -> Baskets] /\ items' \in [Orders -> Baskets]
  BY DEF Shelves, Safe, TypeOK
<1>3. \A v \in Variants : Units(items', Settled', v) = Units(items, Settled, v)
  <2>1. \A f, g \in [Orders -> Baskets], S \in SUBSET Orders, v \in Variants :
          (\A p \in S : f[p] = g[p]) => Units(f, S, v) = Units(g, S, v)
    BY UnitsAgree
  <2> QED
    BY <1>1, <1>2, <2>1
<1>4. \A w \in Warehouses, v \in Variants : Sold(w, v)' = Sold(w, v)
  BY <1>3 DEF Sold
<1> QED
  BY <1>1, <1>4 DEF Shelves

LEMMA SettlementShelves ==
  ASSUME Shelves, Safe', NEW o \in Orders, ConfirmPaymentOn(o)
  PROVE  Shelves'
<1> USE StockAssumption
<1>0. /\ items \in [Orders -> Baskets] /\ items' = items
      /\ onHand \in Levels /\ supply' = supply /\ batch' = batch
      /\ supply \in [Warehouses -> [Variants -> Int]]
  BY DEF ConfirmPaymentOn, Shelves, Safe, TypeOK, TypeOKStock, procVars
<1>1. /\ o \in Settled' /\ Settled' \ {o} = Settled
      /\ Settled \in SUBSET Orders /\ Settled' \in SUBSET Orders
  BY DEF ConfirmPaymentOn, Payable, Settled, Shelves, Safe, TypeOK
<1>2. ASSUME NEW v \in Variants
      PROVE  /\ Cardinality(Units(items, Settled', v))
                  = Cardinality(Units(items, Settled, v)) + items[o][v]
             /\ Cardinality(Units(items, Settled, v)) \in Nat
             /\ items[o][v] \in Nat
  <2>1. \A S \in SUBSET Orders :
          o \in S => Cardinality(Units(items, S, v))
                       = Cardinality(Units(items, S \ {o}, v)) + items[o][v]
    BY <1>0, UnitsSplit
  <2> QED
    BY <1>0, <1>1, <2>1, UnitsFinite DEF Baskets
<1>3. ASSUME NEW w \in Warehouses, NEW v \in Variants
      PROVE  onHand'[w][v] = IF w = DefaultWarehouse
                               THEN onHand[w][v] - items[o][v] ELSE onHand[w][v]
  BY <1>0 DEF ConfirmPaymentOn, ConfirmStock, Levels
<1>4. ASSUME NEW w \in Warehouses, NEW v \in Variants
      PROVE  onHand'[w][v] + Sold(w, v)' = supply'[w][v]
  <2>1. /\ onHand[w][v] + Sold(w, v) = supply[w][v]
        /\ onHand[w][v] \in Nat /\ supply[w][v] \in Int
    BY <1>0 DEF Shelves, Levels
  <2>2. CASE w = DefaultWarehouse
    BY <1>0, <1>2, <1>3, <2>1, <2>2 DEF Sold
  <2>3. CASE w # DefaultWarehouse
    BY <1>0, <1>3, <2>1, <2>3 DEF Sold
  <2> QED
    BY <2>2, <2>3
<1>5. \A p \in Settled' : status'[p] \notin {"none", "pending_payment"}
  BY <1>1 DEF ConfirmPaymentOn, Shelves, Safe, TypeOK
<1>6. \A s \in Sweepers : \A p \in batch'[s] : status'[p] # "none"
  BY <1>0 DEF ConfirmPaymentOn, Shelves, Safe, TypeOK
<1> QED
  BY <1>4, <1>5, <1>6 DEF Shelves

LEMMA BackOfficeShelves ==
  ASSUME Shelves, Safe', StockOnly
  PROVE  Shelves'
<1> USE StockAssumption
<1>0. /\ UNCHANGED <<status, items, paidAt, batch>>
      /\ onHand \in Levels
      /\ supply \in [Warehouses -> [Variants -> Int]]
      /\ items \in [Orders -> Baskets] /\ Settled \in SUBSET Orders
  BY DEF StockOnly, rowVars, procVars, Shelves, Safe, TypeOK, TypeOKStock, Settled
<1>1. Settled' = Settled /\ \A w, v : Sold(w, v)' = Sold(w, v)
  BY <1>0 DEF Settled, Sold
<1>2. \A w \in Warehouses, v \in Variants :
        /\ Sold(w, v) \in Int /\ onHand[w][v] \in Int /\ supply[w][v] \in Int
        /\ onHand[w][v] + Sold(w, v) = supply[w][v]
  BY <1>0, UnitsFinite DEF Sold, Levels, Shelves
<1>3. \A w \in Warehouses, v \in Variants :
        onHand'[w][v] + Sold(w, v) = supply'[w][v]
  <2> SUFFICES ASSUME NEW w \in Warehouses, NEW v \in Variants, NEW q \in 1 .. MaxQty,
                      \/ \E d \in Int : Move(w, v, d)
                      \/ \E to \in Warehouses : Transfer(w, to, v, q),
                      NEW x \in Warehouses, NEW y \in Variants
               PROVE  onHand'[x][y] + Sold(x, y) = supply'[x][y]
    BY DEF StockOnly, BackOffice, ReceiveGoods, AdjustStock, SupplierReturn
  <2>1. ASSUME NEW d \in Int, Move(w, v, d)
        PROVE  onHand'[x][y] + Sold(x, y) = supply'[x][y]
    <3>1. CASE x = w /\ y = v
      <4>1. onHand'[x][y] = onHand[x][y] + d /\ supply'[x][y] = supply[x][y] + d
        BY <1>0, <2>1, <3>1 DEF Move, Levels
      <4> QED
        BY <4>1, <1>2
    <3>2. CASE ~(x = w /\ y = v)
      <4>1. onHand'[x][y] = onHand[x][y] /\ supply'[x][y] = supply[x][y]
        BY <1>0, <2>1, <3>2 DEF Move, Levels
      <4> QED
        BY <4>1, <1>2
    <3> QED
      BY <3>1, <3>2
  <2>2. ASSUME NEW to \in Warehouses, Transfer(w, to, v, q)
        PROVE  onHand'[x][y] + Sold(x, y) = supply'[x][y]
    <3>1. CASE x = w /\ y = v
      <4>1. onHand'[x][y] = onHand[x][y] - q /\ supply'[x][y] = supply[x][y] - q
        BY <1>0, <2>2, <3>1 DEF Transfer, Levels
      <4> QED
        BY <4>1, <1>2
    <3>2. CASE x = to /\ y = v
      <4>1. onHand'[x][y] = onHand[x][y] + q /\ supply'[x][y] = supply[x][y] + q
        BY <1>0, <2>2, <3>2 DEF Transfer, Levels
      <4> QED
        BY <4>1, <1>2
    <3>3. CASE ~(x = w /\ y = v) /\ ~(x = to /\ y = v)
      <4>1. onHand'[x][y] = onHand[x][y] /\ supply'[x][y] = supply[x][y]
        <5>1. CASE x \notin {w, to}
          BY <1>0, <2>2, <5>1 DEF Transfer, Levels
        <5>2. CASE x = w /\ y # v
          BY <1>0, <2>2, <5>2 DEF Transfer, Levels
        <5>3. CASE x = to /\ y # v
          BY <1>0, <2>2, <5>3 DEF Transfer, Levels
        <5> QED
          BY <3>3, <5>1, <5>2, <5>3
      <4> QED
        BY <4>1, <1>2
    <3> QED
      BY <3>1, <3>2, <3>3
  <2> QED
    BY <2>1, <2>2
<1> QED
  BY <1>0, <1>1, <1>3 DEF Shelves

LEMMA ShelvesStep == Shelves /\ [Next]_vars => Shelves'
<1> SUFFICES ASSUME Shelves, [Next]_vars PROVE Shelves'
  OBVIOUS
<1>0. Safe'
  BY SafeStep DEF Shelves
<1>1. ASSUME NEW o \in Orders, NEW w \in OrderWarehouses, NEW b \in Baskets,
             NEW c \in Customers \cup {Guest}, NEW withCoupon \in BOOLEAN,
             \/ \E r \in Requests : CreateCommits(r, o, w, b, c, withCoupon)
             \/ CreateWithoutKey(o, w, b, c, withCoupon)
      PROVE  Shelves'
  <2>1. PICK k : PlaceOrder(o, w, b, k, c, withCoupon)
    BY <1>1 DEF CreateCommits, CreateWithoutKey
  <2>2. /\ UNCHANGED <<onHand, supply, paidAt, batch>>
        /\ status[o] = "none" /\ o \notin Settled
        /\ \A p \in Orders \ {o} : items'[p] = items[p] /\ status'[p] = status[p]
        /\ status'[o] = "pending_payment"
    BY <2>1 DEF PlaceOrder, Shelves, Safe, TypeOK
  <2> QED
    BY <1>0, <2>2, ShelvesUndisturbed DEF Shelves, Settled, Safe, TypeOK
<1>2. CASE \/ \E r \in Requests, k \in Keys : CreateBegins(r, k)
           \/ \E r \in Requests : CreateRollsBack(r)
  BY <1>0, <1>2, ShelvesUndisturbed
  DEF CreateBegins, CreateRollsBack, stockVars, rowVars, Shelves
<1>3. ASSUME NEW o \in Orders, ConfirmPaymentOn(o)
      PROVE  Shelves'
  BY <1>0, <1>3, SettlementShelves
<1>4. ASSUME NEW o \in Orders, Cancel(o)
      PROVE  Shelves'
  BY <1>0, <1>4, ShelvesUndisturbed
  DEF Cancel, procVars, Shelves, Settled, Safe, TypeOK
<1>5. ASSUME NEW o \in Orders, DeadlinePasses(o)
      PROVE  Shelves'
  BY <1>0, <1>5, ShelvesUndisturbed
  DEF DeadlinePasses, stockVars, procVars, Shelves
<1>6. ASSUME NEW s \in Sweepers, NEW found \in SUBSET Orders, SweepSelects(s, found)
      PROVE  Shelves'
  BY <1>0, <1>6, ShelvesUndisturbed
  DEF SweepSelects, Expired, stockVars, rowVars, Shelves, Safe, TypeOK
<1>7. ASSUME NEW s \in Sweepers, NEW o \in Orders, SweepReleases(s, o)
      PROVE  Shelves'
  BY <1>0, <1>7, ShelvesUndisturbed
  DEF SweepReleases, Shelves, Settled, Safe, TypeOK
<1>8. ASSUME NEW s \in Sweepers, SweepDies(s)
      PROVE  Shelves'
  BY <1>0, <1>8, ShelvesUndisturbed
  DEF SweepDies, stockVars, rowVars, Shelves, Safe, TypeOK
<1>9. CASE StockOnly
  BY <1>0, <1>9, BackOfficeShelves
<1>10. CASE UNCHANGED vars
  BY <1>0, <1>10, ShelvesUndisturbed DEF vars, stockVars, rowVars, procVars, Shelves
<1> QED
  BY <1>1, <1>2, <1>3, <1>4, <1>5, <1>6, <1>7, <1>8, <1>9, <1>10
  DEF Next, Create, Sweep

\* Goods leave the shelves for an order once, when it is settled, sweepers and
\* branch orders included.
THEOREM GoodsLeaveOnce == Spec => []GoodsLeaveOncePerPaidOrder
<1>1. Shelves => GoodsLeaveOncePerPaidOrder
  BY DEF Shelves, GoodsLeaveOncePerPaidOrder, Sold
<1> QED
  BY ShelvesInit, ShelvesStep, <1>1, PTL DEF Spec

-----------------------------------------------------------------------------
(* Idempotency keys, and the directions an order can go.                      *)

Keyed ==
  /\ Safe
  /\ OneOrderPerKey

LEMMA KeyedStep == Keyed /\ [Next]_vars => Keyed'
<1> SUFFICES ASSUME Keyed, [Next]_vars PROVE OneOrderPerKey'
  BY SafeStep DEF Keyed
<1>1. ASSUME NEW o \in Orders, NEW w \in OrderWarehouses, NEW b \in Baskets,
             NEW c \in Customers \cup {Guest}, NEW withCoupon \in BOOLEAN,
             \/ \E r \in Requests : CreateCommits(r, o, w, b, c, withCoupon)
             \/ CreateWithoutKey(o, w, b, c, withCoupon)
      PROVE  OneOrderPerKey'
  <2>1. PICK k : PlaceOrder(o, w, b, k, c, withCoupon)
    BY <1>1 DEF CreateCommits, CreateWithoutKey
  <2>2. /\ key \in [Orders -> Keys \cup {NoKey}]
        /\ key' = [key EXCEPT ![o] = k]
        /\ k # NoKey => \A p \in Orders : key[p] # k
    BY <2>1 DEF PlaceOrder, KeyUsed, Keyed, Safe, TypeOK
  <2> QED
    BY <2>2 DEF Keyed, OneOrderPerKey
<1>2. CASE UNCHANGED key
  BY <1>2 DEF Keyed, OneOrderPerKey
<1> QED
  BY <1>1, <1>2
  DEF Next, Create, Sweep, CreateBegins, CreateRollsBack, ConfirmPaymentOn,
      Cancel, DeadlinePasses, SweepSelects, SweepReleases, SweepDies, StockOnly,
      vars, rowVars

\* Concurrent requests with one key make one order, although each of them looks
\* the key up before the other's row is visible.
THEOREM KeysAreUnique == Spec => []OneOrderPerKey
<1>1. Init => Keyed
  BY SafeInit DEF Init, Keyed, OneOrderPerKey
<1>2. Keyed => OneOrderPerKey
  BY DEF Keyed
<1> QED
  BY <1>1, <1>2, KeyedStep, PTL DEF Spec

LEMMA NoWayBackStep ==
  ASSUME Safe, [Next]_vars
  PROVE  [\A o \in Orders :
           /\ status[o] = "cancelled" => status'[o] = "cancelled"
           /\ status'[o] = "pending_payment"
                => status[o] \in {"none", "pending_payment"}
           /\ status[o] # "none" => items'[o] = items[o]]_vars
<1> DEFINE Goal(p) == /\ status[p] = "cancelled" => status'[p] = "cancelled"
                      /\ status'[p] = "pending_payment"
                           => status[p] \in {"none", "pending_payment"}
                      /\ status[p] # "none" => items'[p] = items[p]
<1> SUFFICES ASSUME NEW p \in Orders PROVE Goal(p)
  OBVIOUS
<1>1. ASSUME NEW o \in Orders, NEW w \in OrderWarehouses, NEW b \in Baskets,
             NEW c \in Customers \cup {Guest}, NEW withCoupon \in BOOLEAN,
             \/ \E r \in Requests : CreateCommits(r, o, w, b, c, withCoupon)
             \/ CreateWithoutKey(o, w, b, c, withCoupon)
      PROVE  /\ status[o] = "none"
             /\ status' = [status EXCEPT ![o] = "pending_payment"]
             /\ items' = [items EXCEPT ![o] = b]
  BY <1>1 DEF CreateCommits, CreateWithoutKey, PlaceOrder
<1>2. ASSUME NEW o \in Orders,
             \/ ConfirmPaymentOn(o) \/ Cancel(o)
             \/ \E s \in Sweepers : SweepReleases(s, o)
      PROVE  /\ UNCHANGED items
             /\ \/ /\ status[o] = "pending_payment"
                   /\ status' = [status EXCEPT ![o] = "paid"]
                \/ status' = [status EXCEPT ![o] = "cancelled"]
  BY <1>2 DEF ConfirmPaymentOn, Payable, Cancel, SweepReleases
<1>3. CASE UNCHANGED <<status, items>>
  BY <1>3 DEF Safe, TypeOK
<1>4. ASSUME NEW o \in Orders, NEW b \in Baskets, status[o] = "none",
             status' = [status EXCEPT ![o] = "pending_payment"],
             items' = [items EXCEPT ![o] = b]
      PROVE  Goal(p)
  BY <1>4 DEF Safe, TypeOK
<1>5. ASSUME NEW o \in Orders, UNCHANGED items,
             \/ /\ status[o] = "pending_payment"
                /\ status' = [status EXCEPT ![o] = "paid"]
             \/ status' = [status EXCEPT ![o] = "cancelled"]
      PROVE  Goal(p)
  BY <1>5 DEF Safe, TypeOK
<1> HIDE DEF Goal
<1>6. ASSUME NEW o \in Orders, ConfirmPaymentOn(o) \/ Cancel(o) \/ DeadlinePasses(o)
      PROVE  Goal(p)
  BY <1>2, <1>3, <1>5, <1>6 DEF DeadlinePasses
<1>7. CASE Create
  <2>1. CASE \/ \E r \in Requests, k \in Keys : CreateBegins(r, k)
             \/ \E r \in Requests : CreateRollsBack(r)
    BY <1>3, <2>1 DEF CreateBegins, CreateRollsBack, rowVars
  <2>2. ASSUME NEW o \in Orders, NEW w \in OrderWarehouses, NEW b \in Baskets,
               NEW c \in Customers \cup {Guest}, NEW withCoupon \in BOOLEAN,
               \/ \E r \in Requests : CreateCommits(r, o, w, b, c, withCoupon)
               \/ CreateWithoutKey(o, w, b, c, withCoupon)
        PROVE  Goal(p)
    <3>1. /\ status[o] = "none"
          /\ status' = [status EXCEPT ![o] = "pending_payment"]
          /\ items' = [items EXCEPT ![o] = b]
      BY <1>1, <2>2
    <3> QED
      BY <1>4, <3>1
  <2> QED
    BY <1>7, <2>1, <2>2 DEF Create
<1>8. CASE Sweep
  BY <1>2, <1>3, <1>5, <1>8 DEF Sweep, SweepSelects, SweepDies, rowVars
<1>9. CASE StockOnly \/ UNCHANGED vars
  BY <1>3, <1>9 DEF StockOnly, vars, rowVars
<1> QED
  BY <1>6, <1>7, <1>8, <1>9 DEF Next

\* A cancelled order stays cancelled, an order is never unpaid again, and what
\* it asked for never changes, sweepers included.
THEOREM OrdersNeverGoBack == Spec => NoWayBack
<1>1. Spec => []Safe
  BY SafeInit, SafeStep, PTL DEF Spec
<1> QED
  BY <1>1, NoWayBackStep, PTL DEF Spec, NoWayBack

-----------------------------------------------------------------------------
(* The order service implements Allocation: while no sweeper runs and orders  *)
(* are placed on the default warehouse, every transaction is a step of the    *)
(* promise or a stutter.  The ledger above is what ties the counter           *)
(* "reserved" to the units the promise computes.                              *)

phaseOf == [o \in Orders |-> PhaseOf(status[o])]

LEMMA Phases ==
  ASSUME NEW st \in Statuses \cup {"none"}
  PROVE  /\ PhaseOf(st) = "none" <=> st = "none"
         /\ PhaseOf(st) = "held" <=> st = "pending_payment"
         /\ PhaseOf(st) = "dropped" <=> st = "cancelled"
         /\ PhaseOf(st) = "sold"
              <=> st \notin {"none", "pending_payment", "cancelled"}
BY DEF PhaseOf, Statuses

\* The units the promise holds are the units of the pending orders.
LEMMA HeldUnitsArePending ==
  ASSUME Safe, NEW v \in Variants
  PROVE  Promise!HeldUnits(v) = Cardinality(Units(items, Pending, v))
<1>1. Promise!Held = Pending
  BY Phases DEF Promise!Held, Pending, Safe, TypeOK
<1>2. ASSUME NEW S PROVE Promise!Cardinality(S) = Cardinality(S)
  BY Zenon DEF Promise!Cardinality, Cardinality
<1>3. Promise!HeldUnits(v)
        = Cardinality({u \in Promise!Held \X (1 .. MaxQty) : u[2] <= items[u[1]][v]})
  BY <1>2 DEF Promise!HeldUnits
<1> QED
  BY <1>1, <1>3 DEF Units

LEMMA AllocationInit == Init => Promise!Init
<1> SUFFICES ASSUME Init PROVE Promise!Init
  OBVIOUS
<1>1. onHand[DefaultWarehouse] \in [Variants -> Nat]
  BY StockAssumption DEF Init, InitStock
<1>2. [o \in Orders |-> PhaseOf(status[o])] = [o \in Orders |-> "none"]
  BY DEF Init, PhaseOf
<1>3. items = [o \in Orders |-> [v \in Variants |-> 0]]
  BY DEF Init, EmptyBasket
<1> QED
  BY <1>1, <1>2, <1>3 DEF Promise!Init

\* The step that writes one order's status changes that order's phase.
LEMMA PhaseChanges ==
  ASSUME Safe, NEW o \in Orders, NEW st \in Statuses,
         status' = [status EXCEPT ![o] = st]
  PROVE  phaseOf' = [phaseOf EXCEPT ![o] = PhaseOf(st)]
BY DEF phaseOf, Safe, TypeOK

LEMMA PlaceImplements ==
  ASSUME Ledger, NEW o \in Orders, NEW b \in Baskets,
         NEW k \in Keys \cup {NoKey}, NEW c \in Customers \cup {Guest},
         NEW withCoupon \in BOOLEAN,
         PlaceOrder(o, DefaultWarehouse, b, k, c, withCoupon)
  PROVE  Promise!Place(o, b)
<1> USE StockAssumption
<1>1. phaseOf[o] = "none" /\ phaseOf' = [phaseOf EXCEPT ![o] = "held"]
  <2>1. status' = [status EXCEPT ![o] = "pending_payment"] /\ status[o] = "none"
    BY DEF PlaceOrder
  <2>2. "pending_payment" \in Statuses /\ PhaseOf("pending_payment") = "held"
        /\ PhaseOf("none") = "none"
    BY DEF Statuses, PhaseOf
  <2>3. phaseOf' = [phaseOf EXCEPT ![o] = PhaseOf("pending_payment")]
    BY <2>1, <2>2, PhaseChanges DEF Ledger
  <2> QED
    BY <2>1, <2>2, <2>3 DEF phaseOf
<1>2. ASSUME NEW v \in Variants
      PROVE  Promise!HeldUnits(v) + b[v] <= onHand[DefaultWarehouse][v]
  <2>1. onHand[DefaultWarehouse][v] - reserved[DefaultWarehouse][v] >= b[v]
    BY DEF PlaceOrder, CanReserve
  <2>2. reserved[DefaultWarehouse][v] = Promise!HeldUnits(v)
    BY HeldUnitsArePending DEF Ledger, HeldAt
  <2>3. /\ onHand[DefaultWarehouse][v] \in Int
        /\ reserved[DefaultWarehouse][v] \in Int /\ b[v] \in Int
    BY DEF Ledger, Safe, TypeOK, TypeOKStock, Levels, Baskets
  <2> QED
    BY <2>1, <2>2, <2>3
<1>3. items' = [items EXCEPT ![o] = b] /\ onHand' = onHand
  BY DEF PlaceOrder
<1> QED
  BY <1>1, <1>2, <1>3 DEF Promise!Place, phaseOf

LEMMA SettleImplements ==
  ASSUME Ledger, NEW o \in Orders, ConfirmPaymentOn(o)
  PROVE  Promise!Settle(o)
<1> USE StockAssumption
<1>1. phaseOf[o] = "held" /\ phaseOf' = [phaseOf EXCEPT ![o] = "sold"]
  <2>1. /\ status' = [status EXCEPT ![o] = "paid"]
        /\ status[o] = "pending_payment"
    BY DEF ConfirmPaymentOn, Payable
  <2>2. "paid" \in Statuses /\ PhaseOf("paid") = "sold"
        /\ PhaseOf("pending_payment") = "held"
    BY DEF Statuses, PhaseOf
  <2>3. phaseOf' = [phaseOf EXCEPT ![o] = PhaseOf("paid")]
    BY <2>1, <2>2, PhaseChanges DEF Ledger
  <2> QED
    BY <2>1, <2>2, <2>3 DEF phaseOf
<1>2. onHand'[DefaultWarehouse]
        = [v \in Variants |-> onHand[DefaultWarehouse][v] - items[o][v]]
  BY DEF ConfirmPaymentOn, ConfirmStock, Ledger, Safe, TypeOK, TypeOKStock, Levels
<1> QED
  BY <1>1, <1>2 DEF Promise!Settle, phaseOf, ConfirmPaymentOn

LEMMA CancelImplements ==
  ASSUME Ledger, NEW o \in Orders, Cancel(o)
  PROVE  Promise!Drop(o) \/ Promise!CallOff(o)
<1>1. phaseOf' = [phaseOf EXCEPT ![o] = "dropped"]
  BY PhaseChanges DEF Cancel, Ledger, Statuses, PhaseOf
<1>2. phaseOf[o] \in {"held", "sold"}
  BY Phases DEF Cancel, phaseOf, Ledger, Safe, TypeOK, Statuses
<1> QED
  BY <1>1, <1>2 DEF Promise!Drop, Promise!CallOff, phaseOf, Cancel

LEMMA BackOfficeImplements ==
  ASSUME Ledger, Ledger', StockOnly
  PROVE  Promise!Restock
<1> USE StockAssumption
<1>1. onHand'[DefaultWarehouse] \in [Variants -> Nat]
  BY DEF Ledger, Safe, TypeOK, TypeOKStock, Levels
<1>2. UNCHANGED <<status, items>>
  BY DEF StockOnly, rowVars
<1>3. ASSUME NEW v \in Variants
      PROVE  Promise!HeldUnits(v) <= onHand'[DefaultWarehouse][v]
  <2>1. Pending' = Pending
    BY <1>2 DEF Pending
  <2>2. reserved'[DefaultWarehouse][v] = Cardinality(Units(items, Pending, v))
    BY <1>2, <2>1 DEF Ledger, HeldAt
  <2>3. reserved'[DefaultWarehouse][v] <= onHand'[DefaultWarehouse][v]
    BY DEF Ledger, Safe, NeverOverReserved
  <2> QED
    BY <2>2, <2>3, HeldUnitsArePending DEF Ledger
<1> QED
  BY <1>1, <1>2, <1>3 DEF Promise!Restock

LEMMA AllocationStep ==
  ASSUME WebShopOnly, Ledger, Ledger', [Next]_vars
  PROVE  [Promise!Next]_(Promise!vars)
<1>1. ASSUME NEW o \in Orders, NEW w \in OrderWarehouses, NEW b \in Baskets,
             NEW c \in Customers \cup {Guest}, NEW withCoupon \in BOOLEAN,
             \/ \E r \in Requests : CreateCommits(r, o, w, b, c, withCoupon)
             \/ CreateWithoutKey(o, w, b, c, withCoupon)
      PROVE  Promise!Next
  <2>1. PICK k \in Keys \cup {NoKey} : PlaceOrder(o, w, b, k, c, withCoupon)
    BY <1>1 DEF CreateCommits, CreateWithoutKey, Ledger, Safe, TypeOK
  <2>2. Promise!Place(o, b)
    BY <2>1, PlaceImplements DEF WebShopOnly
  <2> QED
    BY <2>2 DEF Promise!Next, Promise!Baskets, Baskets
<1>2. ASSUME NEW o \in Orders, ConfirmPaymentOn(o)
      PROVE  Promise!Next
  BY <1>2, SettleImplements DEF Promise!Next
<1>3. ASSUME NEW o \in Orders, Cancel(o)
      PROVE  Promise!Next
  BY <1>3, CancelImplements DEF Promise!Next
<1>4. CASE StockOnly
  BY <1>4, BackOfficeImplements DEF Promise!Next
<1>5. CASE UNCHANGED <<onHand, status, items>>
  BY <1>5 DEF Promise!vars
<1>6. CASE Create
  BY <1>1, <1>5, <1>6
  DEF Create, CreateBegins, CreateRollsBack, rowVars, stockVars
<1>7. ASSUME NEW o \in Orders, DeadlinePasses(o)
      PROVE  UNCHANGED <<onHand, status, items>>
  BY <1>7 DEF DeadlinePasses, stockVars
<1>8. ~ Sweep
  BY DEF Sweep, WebShopOnly
<1>9. CASE UNCHANGED vars
  BY <1>5, <1>9 DEF vars, rowVars, stockVars
<1> QED
  BY <1>2, <1>3, <1>4, <1>5, <1>6, <1>7, <1>8, <1>9 DEF Next

\* The order service keeps the promise of Allocation while no sweeper runs and
\* orders are placed on the default warehouse.
THEOREM OrdersImplementAllocation ==
  ASSUME WebShopOnly
  PROVE  Spec => ImplementsAllocation
<1>1. Spec => []Ledger
  BY LedgerInit, LedgerStep, PTL DEF Spec
<1>2. Ledger /\ Ledger' /\ [Next]_vars => [Promise!Next]_(Promise!vars)
  BY AllocationStep
<1> QED
  BY <1>1, <1>2, AllocationInit, PTL DEF Spec, ImplementsAllocation, Promise!Spec

-----------------------------------------------------------------------------
(* The coupon: counted when it is redeemed, given back on a cancellation.    *)

\* Redemptions are of orders there are, and the counters count them.
Redeemed ==
  /\ Safe
  /\ \A o \in redemptions : status[o] # "none"
  /\ CouponLedger

\* What an operation on one order does to the coupon: nothing, or it redeems the coupon
\* of a new order, or gives back the one of an order that is cancelled.
LEMMA CouponSteps ==
  ASSUME Safe, [Next]_vars
  PROVE  \/ /\ UNCHANGED <<usageCount, redemptions, customer>>
            /\ \/ UNCHANGED status
               \/ \E o \in Orders :
                    \/ status[o] = "pending_payment" /\ status' = [status EXCEPT ![o] = "paid"]
                    \/ Sweepers # {} /\ status' = [status EXCEPT ![o] = "cancelled"]
         \/ \E o \in Orders, c \in Customers \cup {Guest} :
              /\ status[o] = "none" /\ status' = [status EXCEPT ![o] = "pending_payment"]
              /\ customer' = [customer EXCEPT ![o] = c]
              /\ \/ UNCHANGED <<usageCount, redemptions>>
                 \/ MayRedeem(c) /\ RedeemCoupon(o)
         \/ \E o \in Orders :
              /\ status[o] # "none" /\ status' = [status EXCEPT ![o] = "cancelled"]
              /\ customer' = customer /\ ReleaseCoupon(o)
<1>1. ASSUME NEW o \in Orders, NEW w \in OrderWarehouses, NEW b \in Baskets,
             NEW c \in Customers \cup {Guest}, NEW withCoupon \in BOOLEAN,
             \/ \E r \in Requests : CreateCommits(r, o, w, b, c, withCoupon)
             \/ CreateWithoutKey(o, w, b, c, withCoupon)
      PROVE  /\ status[o] = "none" /\ status' = [status EXCEPT ![o] = "pending_payment"]
             /\ customer' = [customer EXCEPT ![o] = c]
             /\ \/ UNCHANGED <<usageCount, redemptions>>
                \/ MayRedeem(c) /\ RedeemCoupon(o)
  <2>1. PICK k : PlaceOrder(o, w, b, k, c, withCoupon)
    BY <1>1 DEF CreateCommits, CreateWithoutKey
  <2>2. CASE withCoupon = TRUE
    BY <2>1, <2>2 DEF PlaceOrder
  <2>3. CASE withCoupon = FALSE
    BY <2>1, <2>3 DEF PlaceOrder, couponVars
  <2> QED
    BY <2>2, <2>3
<1>2. ASSUME NEW o \in Orders, ConfirmPaymentOn(o)
      PROVE  /\ UNCHANGED <<usageCount, redemptions, customer>>
             /\ status[o] = "pending_payment" /\ status' = [status EXCEPT ![o] = "paid"]
  BY <1>2 DEF ConfirmPaymentOn, Payable, couponVars
<1>3. ASSUME NEW o \in Orders, Cancel(o)
      PROVE  /\ status[o] # "none" /\ status' = [status EXCEPT ![o] = "cancelled"]
             /\ customer' = customer /\ ReleaseCoupon(o)
  BY <1>3 DEF Cancel
<1>4. ASSUME NEW s \in Sweepers, NEW o \in Orders, SweepReleases(s, o)
      PROVE  /\ UNCHANGED <<usageCount, redemptions, customer>>
             /\ Sweepers # {} /\ status' = [status EXCEPT ![o] = "cancelled"]
  BY <1>4 DEF SweepReleases, couponVars
<1>5. CASE UNCHANGED <<usageCount, redemptions, customer, status>>
  BY <1>5
<1>6. CASE Create
  <2>1. CASE \/ \E r \in Requests, k \in Keys : CreateBegins(r, k)
             \/ \E r \in Requests : CreateRollsBack(r)
    BY <1>5, <2>1 DEF CreateBegins, CreateRollsBack, rowVars, couponVars
  <2>2. ASSUME NEW o \in Orders, NEW w \in OrderWarehouses, NEW b \in Baskets,
               NEW c \in Customers \cup {Guest}, NEW withCoupon \in BOOLEAN,
               \/ \E r \in Requests : CreateCommits(r, o, w, b, c, withCoupon)
               \/ CreateWithoutKey(o, w, b, c, withCoupon)
        PROVE  \E p \in Orders, d \in Customers \cup {Guest} :
                 /\ status[p] = "none" /\ status' = [status EXCEPT ![p] = "pending_payment"]
                 /\ customer' = [customer EXCEPT ![p] = d]
                 /\ \/ UNCHANGED <<usageCount, redemptions>>
                    \/ MayRedeem(d) /\ RedeemCoupon(p)
    <3>1. /\ status[o] = "none" /\ status' = [status EXCEPT ![o] = "pending_payment"]
          /\ customer' = [customer EXCEPT ![o] = c]
          /\ \/ UNCHANGED <<usageCount, redemptions>>
             \/ MayRedeem(c) /\ RedeemCoupon(o)
      BY <1>1, <2>2
    <3> QED
      BY <3>1
  <2> QED
    BY <1>6, <2>1, <2>2 DEF Create
<1>7. CASE Sweep
  BY <1>4, <1>5, <1>7 DEF Sweep, SweepSelects, SweepDies, rowVars, couponVars
<1>8. CASE StockOnly \/ UNCHANGED vars
  BY <1>5, <1>8 DEF StockOnly, vars, rowVars, couponVars
<1>9. ASSUME NEW o \in Orders, DeadlinePasses(o)
      PROVE  UNCHANGED <<usageCount, redemptions, customer, status>>
  BY <1>9 DEF DeadlinePasses, couponVars
<1> QED
  BY <1>2, <1>3, <1>5, <1>6, <1>7, <1>8, <1>9 DEF Next

\* The redemptions of a customer are finitely many.
LEMMA RedemptionsAreFinite ==
  ASSUME Safe
  PROVE  /\ redemptions \subseteq Orders /\ IsFiniteSet(redemptions)
         /\ \A c : IsFiniteSet(RedeemedBy(c)) /\ Cardinality(RedeemedBy(c)) \in Nat
<1>1. redemptions \subseteq Orders /\ IsFiniteSet(redemptions)
  BY OrdersAssumption, FS_Subset DEF Safe, TypeOK
<1>2. \A c : RedeemedBy(c) \subseteq redemptions
  BY DEF RedeemedBy
<1> QED
  BY <1>1, <1>2, FS_Subset, FS_CardinalityType

\* No step makes the counters forget or invent a redemption.
LEMMA RedeemedStep == Redeemed /\ [Next]_vars => Redeemed'
<1> SUFFICES ASSUME Redeemed, [Next]_vars PROVE Redeemed'
  OBVIOUS
<1>1. Safe /\ Safe' /\ CouponLedger /\ \A o \in redemptions : status[o] # "none"
  BY SafeStep DEF Redeemed
<1>2. /\ status \in [Orders -> Statuses \cup {"none"}] /\ redemptions \subseteq Orders
      /\ customer \in [Orders -> Customers \cup {Guest}] /\ usageCount \in Nat
      /\ status' \in [Orders -> Statuses \cup {"none"}] /\ redemptions' \subseteq Orders
  BY <1>1 DEF Safe, TypeOK
<1>3. /\ IsFiniteSet(redemptions) /\ Cardinality(redemptions) \in Nat
      /\ \A c : IsFiniteSet(RedeemedBy(c)) /\ Cardinality(RedeemedBy(c)) \in Nat
  BY <1>1, RedemptionsAreFinite, FS_CardinalityType
<1>4. /\ usageCount = Cardinality(redemptions) /\ usageCount <= UsageLimit
      /\ \A c \in Customers : Cardinality(RedeemedBy(c)) <= PerCustomerLimit
  BY <1>1 DEF CouponLedger
<1>5. UsageLimit \in Nat /\ PerCustomerLimit \in Nat /\ Guest \notin Customers
  BY OrdersAssumption
<1>6. CASE UNCHANGED <<usageCount, redemptions, customer>>
  <2>1. \A c : RedeemedBy(c)' = RedeemedBy(c)
    BY <1>6 DEF RedeemedBy
  <2>2. CouponLedger'
    BY <1>4, <1>6, <2>1 DEF CouponLedger
  <2> QED
    <3>1. ASSUME UNCHANGED status PROVE \A o \in redemptions' : status'[o] # "none"
      BY <1>1, <1>6, <3>1
    <3>2. ASSUME NEW o \in Orders, NEW to \in {"paid", "cancelled", "pending_payment"},
                 status' = [status EXCEPT ![o] = to]
          PROVE  \A p \in redemptions' : status'[p] # "none"
      BY <1>1, <1>2, <1>6, <3>2
    <3>3. CASE \/ UNCHANGED status
               \/ \E o \in Orders, to \in {"paid", "cancelled", "pending_payment"} :
                    status' = [status EXCEPT ![o] = to]
      <4>1. \A o \in redemptions' : status'[o] # "none"
        BY <3>1, <3>2, <3>3
      <4> QED
        BY <1>1, <2>2, <4>1 DEF Redeemed
    <3>4. \/ UNCHANGED status
          \/ \E o \in Orders, to \in {"paid", "cancelled", "pending_payment"} :
               status' = [status EXCEPT ![o] = to]
      <4>1. \/ UNCHANGED status
            \/ \E o \in Orders : \/ status' = [status EXCEPT ![o] = "paid"]
                                 \/ status' = [status EXCEPT ![o] = "cancelled"]
                                 \/ status' = [status EXCEPT ![o] = "pending_payment"]
        BY <1>1, CouponSteps, Zenon
      <4> QED
        BY <4>1
    <3> QED
      BY <3>3, <3>4
<1>7. ASSUME NEW o \in Orders, NEW c \in Customers \cup {Guest},
             status[o] = "none", status' = [status EXCEPT ![o] = "pending_payment"],
             customer' = [customer EXCEPT ![o] = c],
             UNCHANGED <<usageCount, redemptions>> \/ (MayRedeem(c) /\ RedeemCoupon(o))
      PROVE  Redeemed'
  <2>1. o \notin redemptions
    BY <1>1, <1>7
  <2>2. \A p \in redemptions' : status'[p] # "none"
    BY <1>1, <1>2, <1>7 DEF RedeemCoupon
  <2>3. \A p \in redemptions : customer'[p] = customer[p]
    BY <1>2, <1>7, <2>1
  <2>4. customer'[o] = c
    BY <1>2, <1>7
  <2>5. CASE UNCHANGED <<usageCount, redemptions>>
    <3>1. \A d : RedeemedBy(d)' = RedeemedBy(d)
      BY <2>3, <2>5 DEF RedeemedBy
    <3> QED
      BY <1>1, <1>4, <2>2, <2>5, <3>1 DEF Redeemed, CouponLedger
  <2>6. CASE MayRedeem(c) /\ RedeemCoupon(o)
    <3>1. usageCount' = usageCount + 1 /\ redemptions' = redemptions \cup {o}
      BY <2>6 DEF RedeemCoupon
    <3>2. usageCount < UsageLimit /\ (c # Guest => Cardinality(RedeemedBy(c)) < PerCustomerLimit)
      BY <2>6 DEF MayRedeem
    <3>3. Cardinality(redemptions') = Cardinality(redemptions) + 1
      BY <1>3, <2>1, <3>1, FS_AddElement
    <3>4. ASSUME NEW d \in Customers PROVE Cardinality(RedeemedBy(d)') <= PerCustomerLimit
      <4>1. CASE d = c
        <5>1. RedeemedBy(d)' = RedeemedBy(d) \cup {o} /\ o \notin RedeemedBy(d)
          BY <2>1, <2>3, <2>4, <3>1, <4>1 DEF RedeemedBy
        <5>2. Cardinality(RedeemedBy(d)') = Cardinality(RedeemedBy(d)) + 1
          BY <1>3, <5>1, FS_AddElement
        <5> QED
          BY <1>3, <1>5, <3>2, <3>4, <4>1, <5>2
      <4>2. CASE d # c
        <5>1. RedeemedBy(d)' = RedeemedBy(d)
          BY <2>3, <2>4, <3>1, <4>2 DEF RedeemedBy
        <5> QED
          BY <1>4, <5>1
      <4> QED
        BY <4>1, <4>2
    <3>5. CouponLedger'
      BY <1>2, <1>3, <1>4, <1>5, <3>1, <3>2, <3>3, <3>4 DEF CouponLedger
    <3> QED
      BY <1>1, <2>2, <3>5 DEF Redeemed
  <2> QED
    BY <1>7, <2>5, <2>6
<1>8. ASSUME NEW o \in Orders,
             status' = [status EXCEPT ![o] = "cancelled"],
             customer' = customer, ReleaseCoupon(o)
      PROVE  Redeemed'
  <2>1. /\ usageCount' = IF o \in redemptions THEN Larger(usageCount - 1, 0) ELSE usageCount
        /\ redemptions' = redemptions \ {o}
    BY <1>8 DEF ReleaseCoupon
  <2>2. \A p \in redemptions' : status'[p] # "none"
    BY <1>1, <1>2, <1>8, <2>1
  <2>3. \A d : RedeemedBy(d)' \subseteq RedeemedBy(d)
    BY <1>8, <2>1 DEF RedeemedBy
  <2>4. \A d : Cardinality(RedeemedBy(d)') <= Cardinality(RedeemedBy(d))
               /\ Cardinality(RedeemedBy(d)') \in Nat
    BY <1>3, <2>3, FS_Subset, FS_CardinalityType
  <2>5. usageCount' = Cardinality(redemptions') /\ usageCount' <= usageCount
    <3>1. CASE o \in redemptions
      <4>1. Cardinality(redemptions') = Cardinality(redemptions) - 1
        BY <1>3, <2>1, <3>1, FS_RemoveElement
      <4>2. Cardinality(redemptions') \in Nat
        BY <1>3, <2>1, FS_RemoveElement, FS_CardinalityType
      <4>3. usageCount - 1 \in Nat /\ usageCount \in Nat
        BY <1>2, <1>4, <4>1, <4>2
      <4>4. Larger(usageCount - 1, 0) = usageCount - 1
        BY <4>3 DEF Larger
      <4>5. usageCount' = usageCount - 1
        BY <2>1, <3>1, <4>4
      <4>6. Cardinality(redemptions') = usageCount - 1
        BY <1>4, <4>1
      <4>7. usageCount - 1 <= usageCount
        BY <4>3
      <4> QED
        BY <4>5, <4>6, <4>7
    <3>2. CASE o \notin redemptions
      <4>1. redemptions' = redemptions
        BY <2>1, <3>2
      <4>2. usageCount' = usageCount
        BY <2>1, <3>2
      <4>3. usageCount' = Cardinality(redemptions')
        BY <1>4, <4>1, <4>2
      <4> QED
        BY <1>2, <4>2, <4>3
    <3> QED
      BY <3>1, <3>2
  <2>6. \A d \in Customers : Cardinality(RedeemedBy(d)') <= PerCustomerLimit
    BY <1>3, <1>4, <1>5, <2>4
  <2>7. CouponLedger'
    <3>1. usageCount' <= UsageLimit
      BY <1>2, <1>3, <1>4, <1>5, <2>1, <2>5 DEF Larger
    <3> QED
      BY <2>5, <2>6, <3>1 DEF CouponLedger
  <2> QED
    BY <1>1, <2>2, <2>7 DEF Redeemed
<1> QED
  BY <1>1, <1>6, <1>7, <1>8, CouponSteps, Zenon

\* At first nothing was redeemed.
LEMMA RedeemedInit == Init => Redeemed
<1> SUFFICES ASSUME Init PROVE Redeemed
  OBVIOUS
<1>1. Safe /\ redemptions = {} /\ usageCount = 0
  BY SafeInit DEF Init
<1>2. \A c : RedeemedBy(c) = {}
  BY <1>1 DEF RedeemedBy
<1>3. Cardinality({}) = 0
  BY FS_EmptySet
<1> QED
  BY <1>1, <1>2, <1>3, OrdersAssumption DEF Redeemed, CouponLedger

\* Whatever orders race for a coupon, its counter counts its redemptions, and neither its
\* limit nor that of a customer is exceeded, sweepers included.
THEOREM CouponsAreCounted == Spec => []CouponLedger
<1>1. Redeemed => CouponLedger
  BY DEF Redeemed
<1> QED
  BY <1>1, RedeemedInit, RedeemedStep, PTL DEF Spec

\* Cancelling an order gives its coupon back, where no sweeper cancels.
LEMMA CouponsReturn ==
  ASSUME Sweepers = {}, Redeemed, CouponReturned, [Next]_vars
  PROVE  CouponReturned'
<1>1. /\ status \in [Orders -> Statuses \cup {"none"}] /\ redemptions \subseteq Orders
      /\ \A o \in redemptions : status[o] \notin {"none", "cancelled"}
  BY DEF Redeemed, Safe, TypeOK, CouponReturned
<1>2. CASE /\ redemptions' = redemptions
           /\ \/ UNCHANGED status
              \/ \E o \in Orders :
                   status[o] = "pending_payment" /\ status' = [status EXCEPT ![o] = "paid"]
  BY <1>1, <1>2 DEF CouponReturned
<1>3. ASSUME NEW o \in Orders, status' = [status EXCEPT ![o] = "pending_payment"],
             redemptions' = redemptions \/ redemptions' = redemptions \cup {o}
      PROVE  CouponReturned'
  BY <1>1, <1>3 DEF CouponReturned
<1>4. ASSUME NEW o \in Orders, status' = [status EXCEPT ![o] = "cancelled"],
             redemptions' = redemptions \ {o}
      PROVE  CouponReturned'
  BY <1>1, <1>4 DEF CouponReturned
<1>5. Safe
  BY DEF Redeemed
<1> QED
  BY <1>2, <1>3, <1>4, <1>5, CouponSteps, Zenon DEF RedeemCoupon, ReleaseCoupon

\* While no sweeper runs, which forgets the coupon of an order it cancels, a coupon is
\* neither used too often nor lost, whichever orders race for it and are cancelled.
THEOREM CouponsComeBack ==
  ASSUME Sweepers = {}
  PROVE  Spec => []CouponsAddUp
<1>1. Init => CouponReturned
  BY DEF Init, CouponReturned
<1>2. Redeemed /\ CouponReturned /\ [Next]_vars => Redeemed' /\ CouponReturned'
  BY RedeemedStep, CouponsReturn
<1>3. Redeemed /\ CouponReturned => CouponsAddUp
  BY DEF Redeemed, CouponsAddUp
<1> QED
  BY <1>1, <1>2, <1>3, RedeemedInit, PTL DEF Spec

=============================================================================
