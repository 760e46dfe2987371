-------------------------- MODULE FulfilmentProofs --------------------------
(* Proofs about Fulfilment: requests of the staff write statuses they checked *)
(* long before; still no unpaid order is handled and no reservation leaks.    *)
EXTENDS Fulfilment, OrdersProofs

\* What a request read stays true in two respects: its order is paid, and its
\* shipment exists.
Trusted ==
  /\ \A s \in Staff :
       task[s].doing \notin {"nothing", "issue"}
         => task[s].order \in Orders /\ paidAt[task[s].order]
  /\ \A s \in Staff :
       task[s].doing = "deliver" => shipStatus[task[s].shipment] # "none"
  /\ \A x \in Shipments :
       shipStatus[x] # "none" => shipOrder[x] \in Orders /\ paidAt[shipOrder[x]]

\* The strengthening of OnlyPaidOrdersAreHandled.  Shelves says that a settled
\* order is neither "none" nor "pending_payment".
Desk == Shelves /\ FulfilTypeOK /\ OnlyPaidOrdersAreHandled /\ Trusted

LEMMA DeskInit == FulfilInit => Desk
<1> SUFFICES ASSUME FulfilInit PROVE Desk
  OBVIOUS
<1>1. Shelves
  BY ShelvesInit DEF FulfilInit
<1>2. FulfilTypeOK
  BY DEF FulfilInit, FulfilTypeOK, Idle
<1>3. OnlyPaidOrdersAreHandled
  BY DEF FulfilInit, Init, OnlyPaidOrdersAreHandled, PaidStatuses
<1>4. Trusted
  BY DEF FulfilInit, Trusted, Idle
<1> QED
  BY <1>1, <1>2, <1>3, <1>4 DEF Desk

\* What the staff may have read is one of these.
LEMMA MayMoveIsPaid ==
  ASSUME Desk, NEW o \in Orders,
         \/ MayMove(o, "confirmed") \/ MayMove(o, "packing") \/ MayShip(o)
  PROVE  paidAt[o]
<1>1. status[o] \in {"paid", "confirmed", "packing", "processing"}
  BY DEF MayMove, MayShip, CanTransition, Transitions, Statuses
<1> QED
  BY <1>1 DEF Desk, OnlyPaidOrdersAreHandled, PaidStatuses

\* The orders' own steps hand no order to the staff.
LEMMA OrdersHandNothingOver ==
  ASSUME Safe, [Next]_vars, NEW p \in Orders
  PROVE  /\ paidAt[p] => paidAt'[p]
         /\ status'[p] \in PaidStatuses => status'[p] = status[p] \/ paidAt'[p]
<1> USE DEF Safe, TypeOK
<1> DEFINE Goal == /\ paidAt[p] => paidAt'[p]
                   /\ status'[p] \in PaidStatuses
                        => status'[p] = status[p] \/ paidAt'[p]
<1> SUFFICES Goal
  OBVIOUS
<1>1. ASSUME NEW o \in Orders, NEW w \in OrderWarehouses, NEW b \in Baskets,
             NEW c \in Customers \cup {Guest}, NEW withCoupon \in BOOLEAN,
             \/ \E r \in Requests : CreateCommits(r, o, w, b, c, withCoupon)
             \/ CreateWithoutKey(o, w, b, c, withCoupon)
      PROVE  Goal
  BY <1>1 DEF CreateCommits, CreateWithoutKey, PlaceOrder, PaidStatuses
<1>2. ASSUME NEW o \in Orders, ConfirmPaymentOn(o)
      PROVE  Goal
  BY <1>2 DEF ConfirmPaymentOn
<1>3. ASSUME NEW o \in Orders,
             \/ Cancel(o) \/ \E s \in Sweepers : SweepReleases(s, o)
      PROVE  Goal
  BY <1>3 DEF Cancel, SweepReleases, PaidStatuses
<1>4. CASE UNCHANGED <<status, paidAt>>
  BY <1>4
<1> QED
  BY <1>1, <1>2, <1>3, <1>4
  DEF Next, Create, Sweep, CreateBegins, CreateRollsBack, DeadlinePasses,
      SweepSelects, SweepDies, StockOnly, vars, rowVars

\* One statement of a request: it leaves the orders alone, or it writes one of
\* the statuses after payment into an order that is paid.
LEMMA WorkOnPaidOrders ==
  ASSUME Desk, NEW s \in Staff, Work(s)
  PROVE  \/ UNCHANGED vars
         \/ \E o \in Orders, st \in PaidStatuses :
              paidAt[o] /\ Writes(s, o, st)
<1>1. CASE \/ ConfirmWrites(s) \/ PackWrites(s) \/ UnpackWrites(s)
          \/ ShipWrites(s) \/ DeliverWrites(s)
  <2>1. /\ task[s].order \in Orders /\ paidAt[task[s].order]
        /\ \E st \in PaidStatuses : Writes(s, task[s].order, st)
    BY <1>1 DEF Desk, Trusted, Doing, PaidStatuses, ConfirmWrites, PackWrites,
                UnpackWrites, ShipWrites, DeliverWrites
  <2> QED
    BY <2>1
<1> QED
  BY <1>1 DEF Work, ConfirmReads, PackReads, UnpackReads, ShipReads, DeliverReads,
              IssueReads, ShipInserts, PackCounts, DeliverUpdates, IssueUpdates,
              RequestDies, Reads

LEMMA DeskTypes ==
  ASSUME Desk, [FulfilNext]_shopVars
  PROVE  FulfilTypeOK'
<1> USE DEF Desk, FulfilTypeOK
<1>0. Idle \in [doing : {"nothing", "confirm", "count", "pack", "unpack", "ship",
                         "shipped", "deliver", "delivered", "issue"},
                order : Orders \cup {NoRef},
                shipment : Shipments \cup {NoShipment},
                full : BOOLEAN]
  BY DEF Idle
<1>1. ASSUME NEW s \in Staff, NEW o \in Orders,
             \/ ConfirmReads(s, o) \/ PackReads(s, o)
             \/ UnpackReads(s, o) \/ ShipReads(s, o)
      PROVE  FulfilTypeOK'
  <2>1. PICK what \in {"confirm", "count", "unpack", "ship"} :
          task' = [task EXCEPT ![s] = [Idle EXCEPT !.doing = what, !.order = o]]
    BY <1>1 DEF ConfirmReads, PackReads, UnpackReads, ShipReads, Reads
  <2>2. UNCHANGED <<packing, shipStatus, shipOrder>>
    BY <1>1 DEF ConfirmReads, PackReads, UnpackReads, ShipReads, Reads
  <2> QED
    BY <1>0, <2>1, <2>2
<1>2. ASSUME NEW s \in Staff, NEW x \in Shipments,
             DeliverReads(s, x) \/ IssueReads(s, x)
      PROVE  FulfilTypeOK'
  <2> DEFINE rows == [doing : {"nothing", "confirm", "count", "pack", "unpack", "ship",
                               "shipped", "deliver", "delivered", "issue"},
                      order : Orders \cup {NoRef},
                      shipment : Shipments \cup {NoShipment},
                      full : BOOLEAN]
  <2>1. shipOrder[x] \in Orders \cup {NoRef}
    OBVIOUS
  <2>2. /\ [Idle EXCEPT !.doing = "deliver", !.shipment = x, !.order = shipOrder[x]] \in rows
        /\ [Idle EXCEPT !.doing = "issue", !.shipment = x] \in rows
    BY <1>0, <2>1
  <2>3. PICK y \in rows : task' = [task EXCEPT ![s] = y]
    BY <1>2, <2>2 DEF DeliverReads, IssueReads, Reads
  <2>4. UNCHANGED <<packing, shipStatus, shipOrder>>
    BY <1>2 DEF DeliverReads, IssueReads, Reads
  <2> QED
    BY <2>3, <2>4
<1>3. ASSUME NEW s \in Staff, NEW x \in Shipments, ShipInserts(s, x)
      PROVE  FulfilTypeOK'
  BY <1>3 DEF ShipInserts
<1>4. ASSUME NEW s \in Staff,
             \/ ConfirmWrites(s) \/ PackWrites(s) \/ UnpackWrites(s)
             \/ ShipWrites(s) \/ DeliverWrites(s)
      PROVE  FulfilTypeOK'
  <2>1. task' = [task EXCEPT ![s] = Idle]
    BY <1>4 DEF ConfirmWrites, PackWrites, UnpackWrites, ShipWrites,
                DeliverWrites, Writes
  <2>2. UNCHANGED <<shipStatus, shipOrder>>
    BY <1>4 DEF ConfirmWrites, PackWrites, UnpackWrites, ShipWrites, DeliverWrites
  <2>3. packing' \in [Orders -> {"null", "complete", "short"}]
    BY <1>4 DEF ConfirmWrites, PackWrites, UnpackWrites, ShipWrites, DeliverWrites
  <2> QED
    BY <1>0, <2>1, <2>2, <2>3
<1>5. ASSUME NEW s \in Staff, PackCounts(s)
      PROVE  FulfilTypeOK'
  <2> DEFINE Full(claim) == claim /\ NoShortage(task[s].order)
  <2>1. \A claim \in BOOLEAN : Full(claim) \in BOOLEAN
    OBVIOUS
  <2> HIDE DEF Full
  <2>2. PICK claim \in BOOLEAN :
          task' = [task EXCEPT ![s].doing = "pack", ![s].full = Full(claim)]
    BY <1>5 DEF PackCounts, Full
  <2>3. PICK full \in BOOLEAN :
          task' = [task EXCEPT ![s] = [@ EXCEPT !.doing = "pack", !.full = full]]
    BY <2>1, <2>2
  <2>4. UNCHANGED <<packing, shipStatus, shipOrder>>
    BY <1>5 DEF PackCounts
  <2> QED
    BY <2>3, <2>4
<1>6. ASSUME NEW s \in Staff, DeliverUpdates(s)
      PROVE  FulfilTypeOK'
  BY <1>6 DEF DeliverUpdates
<1>7. ASSUME NEW s \in Staff, NEW outcome \in {"returned", "lost"},
             IssueUpdates(s, outcome)
      PROVE  FulfilTypeOK'
  BY <1>0, <1>7 DEF IssueUpdates
<1>8. ASSUME NEW s \in Staff, RequestDies(s)
      PROVE  FulfilTypeOK'
  BY <1>0, <1>8 DEF RequestDies
<1>9. CASE UNCHANGED fulfilVars
  BY <1>9 DEF fulfilVars
<1> QED
  BY <1>1, <1>2, <1>3, <1>4, <1>5, <1>6, <1>7, <1>8, <1>9
  DEF FulfilNext, Work, shopVars

\* No step unsettles an order, so what was read as paid stays paid.
LEMMA PaidStaysPaid ==
  ASSUME Desk, [FulfilNext]_shopVars, NEW o \in Orders, paidAt[o]
  PROVE  paidAt'[o]
<1>1. ASSUME NEW s \in Staff, Work(s)
      PROVE  paidAt'[o]
  <2>1. UNCHANGED paidAt
    BY <1>1, WorkOnPaidOrders DEF Writes, vars, rowVars
  <2> QED
    BY <2>1
<1>2. CASE [Next]_vars
  BY <1>2, OrdersHandNothingOver DEF Desk, Shelves
<1> QED
  BY <1>1, <1>2 DEF FulfilNext, shopVars

LEMMA TrustedStep ==
  ASSUME Desk, [FulfilNext]_shopVars
  PROVE  Trusted'
<1> USE DEF FulfilTypeOK, Trusted
<1>0. /\ FulfilTypeOK /\ Trusted
      /\ \A o \in Orders : paidAt[o] => paidAt'[o]
  BY PaidStaysPaid DEF Desk
<1>1. ASSUME NEW s \in Staff, NEW o \in Orders,
             \/ ConfirmReads(s, o) \/ PackReads(s, o)
             \/ UnpackReads(s, o) \/ ShipReads(s, o)
      PROVE  Trusted'
  <2>1. paidAt[o]
    BY <1>1, MayMoveIsPaid DEF ConfirmReads, PackReads, UnpackReads, ShipReads
  <2>2. PICK what \in {"confirm", "count", "unpack", "ship"} :
          task' = [task EXCEPT ![s] = [Idle EXCEPT !.doing = what, !.order = o]]
    BY <1>1 DEF ConfirmReads, PackReads, UnpackReads, ShipReads, Reads
  <2>3. UNCHANGED <<shipStatus, shipOrder>>
    BY <1>1 DEF ConfirmReads, PackReads, UnpackReads, ShipReads, Reads
  <2> QED
    BY <1>0, <2>1, <2>2, <2>3 DEF Idle
<1>2. ASSUME NEW s \in Staff, NEW x \in Shipments,
             DeliverReads(s, x) \/ IssueReads(s, x)
      PROVE  Trusted'
  <2>1. CASE DeliverReads(s, x)
    <3>1. /\ shipStatus[x] # "none"
          /\ shipOrder[x] \in Orders /\ paidAt[shipOrder[x]]
      BY <1>0, <2>1 DEF DeliverReads
    <3>2. /\ task' = [task EXCEPT ![s] = [Idle EXCEPT !.doing = "deliver",
                             !.shipment = x, !.order = shipOrder[x]]]
          /\ UNCHANGED <<shipStatus, shipOrder>>
      BY <2>1 DEF DeliverReads, Reads
    <3> QED
      BY <1>0, <3>1, <3>2 DEF Idle
  <2>2. CASE IssueReads(s, x)
    <3>1. /\ task' = [task EXCEPT ![s] = [Idle EXCEPT !.doing = "issue", !.shipment = x]]
          /\ UNCHANGED <<shipStatus, shipOrder>>
      BY <2>2 DEF IssueReads, Reads
    <3> QED
      BY <1>0, <3>1 DEF Idle
  <2> QED
    BY <1>2, <2>1, <2>2
<1>3. ASSUME NEW s \in Staff, NEW x \in Shipments, ShipInserts(s, x)
      PROVE  Trusted'
  BY <1>0, <1>3 DEF ShipInserts, Doing
<1>4. ASSUME NEW s \in Staff,
             \/ ConfirmWrites(s) \/ PackWrites(s) \/ UnpackWrites(s)
             \/ ShipWrites(s) \/ DeliverWrites(s) \/ RequestDies(s)
      PROVE  Trusted'
  <2>1. task' = [task EXCEPT ![s] = Idle] /\ UNCHANGED <<shipStatus, shipOrder>>
    BY <1>4 DEF ConfirmWrites, PackWrites, UnpackWrites, ShipWrites,
                DeliverWrites, RequestDies, Writes
  <2> QED
    BY <1>0, <2>1 DEF Idle
<1>5. ASSUME NEW s \in Staff, PackCounts(s)
      PROVE  Trusted'
  BY <1>0, <1>5 DEF PackCounts, Doing
<1>6. ASSUME NEW s \in Staff, DeliverUpdates(s)
      PROVE  Trusted'
  <2>1. /\ task[s].order \in Orders /\ paidAt[task[s].order]
        /\ shipStatus[task[s].shipment] # "none"
    BY <1>0, <1>6 DEF DeliverUpdates, Doing
  <2>2. task' = [task EXCEPT ![s] = [@ EXCEPT !.doing = "delivered"]]
    BY <1>6 DEF DeliverUpdates
  <2>3. task'[s].order = task[s].order /\ task'[s].doing = "delivered"
    BY <1>0, <2>2
  <2>4. \A t \in Staff \ {s} : task'[t] = task[t]
    BY <1>0, <2>2
  <2>5. /\ UNCHANGED shipOrder
        /\ shipStatus' = [shipStatus EXCEPT ![task[s].shipment] = "delivered"]
    BY <1>6 DEF DeliverUpdates
  <2> QED
    BY <1>0, <2>1, <2>3, <2>4, <2>5
<1>7. ASSUME NEW s \in Staff, NEW outcome \in {"returned", "lost"},
             IssueUpdates(s, outcome)
      PROVE  Trusted'
  BY <1>0, <1>7 DEF IssueUpdates, Idle
<1>8. CASE UNCHANGED fulfilVars
  BY <1>0, <1>8 DEF fulfilVars
<1> QED
  BY <1>1, <1>2, <1>3, <1>4, <1>5, <1>6, <1>7, <1>8 DEF FulfilNext, Work, shopVars

\* Writing a status of a paid order into a paid order disturbs neither the
\* types nor the shelves.
LEMMA WriteKeepsShelves ==
  ASSUME Desk, NEW s \in Staff, NEW o \in Orders, NEW st \in PaidStatuses,
         paidAt[o], Writes(s, o, st)
  PROVE  Shelves'
<1>1. /\ UNCHANGED <<stockVars, items, warehouse, key, customer, deadline, paidAt,
                     couponVars, procVars>>
      /\ status' = [status EXCEPT ![o] = st]
      /\ st \in Statuses \ {"pending_payment"}
  BY DEF Writes, PaidStatuses, Statuses
<1>2. Shelves /\ Safe
  BY DEF Desk, Shelves
<1>3. Safe'
  BY <1>1, <1>2 DEF Safe, TypeOK, TypeOKStock, NeverOverReserved, stockVars,
                    couponVars, procVars, Statuses
<1>4. st # "none"
  BY DEF PaidStatuses
<1>5. \A x \in Orders : status'[x] = IF x = o THEN st ELSE status[x]
  BY <1>1, <1>2 DEF Safe, TypeOK
<1>6. Settled \in SUBSET Orders
  BY DEF Settled
<1>7. \A q \in Sweepers : \A x \in batch'[q] : status'[x] # "none"
  BY <1>1, <1>2, <1>4, <1>5 DEF Shelves, Safe, TypeOK, procVars
<1> QED
  BY <1>1, <1>2, <1>3, <1>4, <1>5, <1>6, <1>7, ShelvesUndisturbed
  DEF Shelves, stockVars

LEMMA DeskShelves ==
  ASSUME Desk, [FulfilNext]_shopVars
  PROVE  Shelves'
<1>1. ASSUME NEW s \in Staff, Work(s)
      PROVE  Shelves'
  <2>1. CASE UNCHANGED vars
    BY <2>1, ShelvesStep DEF Desk
  <2>2. ASSUME NEW o \in Orders, NEW st \in PaidStatuses, paidAt[o], Writes(s, o, st)
        PROVE  Shelves'
    BY <2>2, WriteKeepsShelves
  <2> QED
    BY <1>1, <2>1, <2>2, WorkOnPaidOrders
<1>2. CASE [Next]_vars
  BY <1>2, ShelvesStep DEF Desk
<1> QED
  BY <1>1, <1>2 DEF FulfilNext, shopVars

LEMMA OnlyPaidStep ==
  ASSUME Desk, [FulfilNext]_shopVars
  PROVE  OnlyPaidOrdersAreHandled'
<1>1. ASSUME NEW o \in Orders, status'[o] = "pending_payment"
      PROVE  ~ paidAt'[o]
  BY <1>1, DeskShelves DEF Shelves, Settled
<1>2. ASSUME NEW o \in Orders, status'[o] \in PaidStatuses
      PROVE  paidAt'[o]
  <2>1. CASE status'[o] = status[o]
    BY <1>2, <2>1, PaidStaysPaid DEF Desk, OnlyPaidOrdersAreHandled
  <2>2. ASSUME status'[o] # status[o], NEW s \in Staff, Work(s)
        PROVE  paidAt'[o]
    <3>1. PICK p \in Orders, st \in PaidStatuses : paidAt[p] /\ Writes(s, p, st)
      BY <2>2, WorkOnPaidOrders DEF vars, rowVars
    <3>2. p = o
      BY <2>2, <3>1 DEF Writes, Desk, Shelves, Safe, TypeOK
    <3> QED
      BY <3>1, <3>2, PaidStaysPaid
  <2>3. ASSUME status'[o] # status[o], [Next]_vars
        PROVE  paidAt'[o]
    BY <1>2, <2>3, OrdersHandNothingOver DEF Desk, Shelves
  <2> QED
    BY <2>1, <2>2, <2>3 DEF FulfilNext, shopVars
<1> QED
  BY <1>1, <1>2 DEF OnlyPaidOrdersAreHandled, PaidStatuses

LEMMA DeskStep == Desk /\ [FulfilNext]_shopVars => Desk'
BY DeskShelves, DeskTypes, OnlyPaidStep, TrustedStep DEF Desk

\* However many stale statuses the staff writes over each other, cancellations
\* and sweepers: no order is packed, sent or delivered that was not paid, and
\* no order that was paid becomes payable again.
THEOREM NothingUnpaidIsHandled == FulfilSpec => []OnlyPaidOrdersAreHandled
<1>1. Desk => OnlyPaidOrdersAreHandled
  BY DEF Desk
<1> QED
  BY <1>1, DeskInit, DeskStep, PTL DEF FulfilSpec

-----------------------------------------------------------------------------
(* The ledger, with the staff at work.                                        *)

LEMMA LedgerStepOfStaff ==
  ASSUME WebShopOnly, Desk, Ledger, [FulfilNext]_shopVars
  PROVE  Ledger'
<1>1. ASSUME NEW s \in Staff, NEW o \in Orders, NEW st \in PaidStatuses,
             paidAt[o], Writes(s, o, st)
      PROVE  Ledger'
  <2>1. /\ status' = [status EXCEPT ![o] = st] /\ st # "pending_payment"
        /\ UNCHANGED <<items, warehouse, reserved>>
    BY <1>1 DEF Writes, stockVars, PaidStatuses
  <2>2. status[o] # "pending_payment"
    BY <1>1 DEF Desk, OnlyPaidOrdersAreHandled
  <2>3. \A p \in Orders :
          (status'[p] = "pending_payment") <=> (status[p] = "pending_payment")
    BY <2>1, <2>2 DEF Ledger, Safe, TypeOK
  <2>4. Safe'
    BY DeskShelves DEF Shelves
  <2> QED
    BY <2>1, <2>3, <2>4, LedgerUndisturbed
<1>2. CASE [Next]_vars
  BY <1>2, LedgerStep
<1>3. ASSUME NEW s \in Staff, Work(s)
      PROVE  Ledger'
  BY <1>1, <1>2, <1>3, WorkOnPaidOrders
<1> QED
  BY <1>2, <1>3 DEF FulfilNext, shopVars

\* The staff's stale writes leave the reservations exact: what is reserved is
\* what the unpaid orders ask for.
THEOREM StaffKeepsTheLedger ==
  ASSUME WebShopOnly
  PROVE  FulfilSpec => []ReservationLedger
<1>1. FulfilInit => Ledger
  BY LedgerInit DEF FulfilInit
<1>2. Desk /\ Ledger /\ [FulfilNext]_shopVars => Ledger'
  BY LedgerStepOfStaff
<1> QED
  BY <1>1, <1>2, LedgerImplies, DeskInit, DeskStep, PTL DEF FulfilSpec

LEMMA DeliveredStays ==
  ASSUME FulfilTypeOK, [FulfilNext]_shopVars, NEW x \in Shipments,
         shipStatus[x] = "delivered"
  PROVE  shipStatus'[x] = "delivered"
<1> USE DEF FulfilTypeOK
<1>1. ASSUME NEW s \in Staff, Work(s)
      PROVE  shipStatus'[x] = "delivered"
  BY <1>1
  DEF Work, ConfirmReads, PackReads, UnpackReads, ShipReads, DeliverReads,
      IssueReads, Reads, ShipInserts, ConfirmWrites, PackCounts, PackWrites,
      UnpackWrites, ShipWrites, DeliverUpdates, DeliverWrites, IssueUpdates,
      RequestDies
<1>2. CASE UNCHANGED fulfilVars
  BY <1>2 DEF fulfilVars
<1> QED
  BY <1>1, <1>2 DEF FulfilNext, shopVars

\* A report of a lost or returned parcel that races its delivery never undoes it.
THEOREM DeliveryStands == FulfilSpec => DeliveryIsFinal
<1>1. Desk /\ [FulfilNext]_shopVars
        => [\A x \in Shipments :
              shipStatus[x] = "delivered" => shipStatus'[x] = "delivered"]_shopVars
  BY DeliveredStays DEF Desk
<1> QED
  BY <1>1, DeskInit, DeskStep, PTL DEF FulfilSpec, DeliveryIsFinal

=============================================================================
