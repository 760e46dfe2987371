----------------------------- MODULE Fulfilment -----------------------------
(* What the staff does to orders that were paid: confirm, pack, unpack, ship, *)
(* deliver, report a lost parcel.  The handlers of packing.controller.ts,     *)
(* packages/orders/src/packing.ts and packages/commerce/src/shipping.ts read  *)
(* the order, check it, and write it later, one statement at a time outside   *)
(* any transaction: each statement is a step here, and members of the staff,  *)
(* customers and payments interleave between them.                            *)
EXTENDS Orders, FiniteSetsExt

CONSTANTS Staff,           \* concurrent requests of the back office
          Shipments,       \* identities available for rows of shipments
          NoRef, NoShipment,
          PackingRequired  \* setting packing_required_before_ship

ASSUME FulfilmentAssumption ==
  /\ NoRef \notin Orders
  /\ NoShipment \notin Shipments
  /\ PackingRequired \in BOOLEAN

VARIABLES packing,     \* orders.packing_complete: "null", "complete", "short"
          shipStatus,  \* shipments.status, "none" before the row exists
          shipOrder,   \* shipments.order_id
          task         \* what each request has read, between two statements

fulfilVars == <<packing, shipStatus, shipOrder, task>>
shopVars   == <<vars, fulfilVars>>

Idle == [doing |-> "nothing", order |-> NoRef, shipment |-> NoShipment,
         full |-> FALSE]

FulfilInit ==
  /\ Init
  /\ packing = [o \in Orders |-> "null"]
  /\ shipStatus = [x \in Shipments |-> "none"]
  /\ shipOrder = [x \in Shipments |-> NoRef]
  /\ task = [s \in Staff |-> Idle]

-----------------------------------------------------------------------------
(* The pieces every handler is made of.                                       *)

Doing(s, what) == task[s].doing = what

\* A SELECT and the checks on what it returned; nothing is written.
Reads(s, t) ==
  /\ Doing(s, "nothing")
  /\ task' = [task EXCEPT ![s] = t]
  /\ UNCHANGED <<vars, packing, shipStatus, shipOrder>>

\* UPDATE orders SET status = ... WHERE id = ...: whatever the status is now.
Writes(s, o, st) ==
  /\ status' = [status EXCEPT ![o] = st]
  /\ task'   = [task EXCEPT ![s] = Idle]
  /\ UNCHANGED <<stockVars, items, warehouse, key, customer, deadline, paidAt,
                 couponVars, procVars>>

\* Faulty variant: the status is read and not asserted.
MayMoveUnchecked(o, st) == status[o] # "none"

\* assertTransition, on the status that was read.
MayMove(o, st) == CanTransition(status[o], st)

-----------------------------------------------------------------------------
(* PackingController.confirm.                                                 *)

ConfirmReads(s, o) ==
  /\ MayMove(o, "confirmed")
  /\ Reads(s, [Idle EXCEPT !.doing = "confirm", !.order = o])

ConfirmWrites(s) ==
  /\ Doing(s, "confirm")
  /\ Writes(s, task[s].order, "confirmed")
  /\ UNCHANGED <<packing, shipStatus, shipOrder>>

(* PackingService.pack.                                                       *)

PackReads(s, o) ==
  /\ MayMove(o, "packing")
  /\ Reads(s, [Idle EXCEPT !.doing = "count", !.order = o])

\* lines: what is left on all shelves, beyond what is reserved.
Available(v) ==
  MapThenSumSet(LAMBDA w : onHand[w][v] - reserved[w][v], Warehouses)

NoShortage(o) == \A v \in Variants : items[o][v] > 0 => Available(v) >= items[o][v]

\* "complete" is what the shelves say, unless the request says there is less.
PackCounts(s) ==
  /\ Doing(s, "count")
  /\ \E claim \in BOOLEAN :
       task' = [task EXCEPT ![s].doing = "pack",
                            ![s].full = claim /\ NoShortage(task[s].order)]
  /\ UNCHANGED <<vars, packing, shipStatus, shipOrder>>

PackWrites(s) ==
  /\ Doing(s, "pack")
  /\ Writes(s, task[s].order, "packing")
  /\ packing' = [packing EXCEPT
       ![task[s].order] = IF task[s].full THEN "complete" ELSE "short"]
  /\ UNCHANGED <<shipStatus, shipOrder>>

(* PackingService.unpack.                                                     *)

UnpackReads(s, o) ==
  /\ MayMove(o, "confirmed")
  /\ Reads(s, [Idle EXCEPT !.doing = "unpack", !.order = o])

UnpackWrites(s) ==
  /\ Doing(s, "unpack")
  /\ Writes(s, task[s].order, "confirmed")
  /\ packing' = [packing EXCEPT ![task[s].order] = "null"]
  /\ UNCHANGED <<shipStatus, shipOrder>>

-----------------------------------------------------------------------------
(* createShipment: whether the packing was complete is not asked.             *)

MayShip(o) ==
  \/ status[o] = "packing"
  \/ ~ PackingRequired /\ status[o] \in {"confirmed", "processing"}

ShipReads(s, o) ==
  /\ MayShip(o)
  /\ Reads(s, [Idle EXCEPT !.doing = "ship", !.order = o])

\* The INSERT of the shipment commits before the order is touched.
ShipInserts(s, x) ==
  /\ Doing(s, "ship")
  /\ shipStatus[x] = "none"
  /\ shipStatus' = [shipStatus EXCEPT ![x] = "sent"]
  /\ shipOrder'  = [shipOrder EXCEPT ![x] = task[s].order]
  /\ task'       = [task EXCEPT ![s].doing = "shipped"]
  /\ UNCHANGED <<vars, packing>>

ShipWrites(s) ==
  /\ Doing(s, "shipped")
  /\ Writes(s, task[s].order, "shipped")
  /\ UNCHANGED <<packing, shipStatus, shipOrder>>

(* markDelivered: both updates are unconditional.                             *)

DeliverReads(s, x) ==
  /\ shipStatus[x] = "sent"
  /\ Reads(s, [Idle EXCEPT !.doing = "deliver", !.shipment = x,
                           !.order = shipOrder[x]])

DeliverUpdates(s) ==
  /\ Doing(s, "deliver")
  /\ shipStatus' = [shipStatus EXCEPT ![task[s].shipment] = "delivered"]
  /\ task'       = [task EXCEPT ![s].doing = "delivered"]
  /\ UNCHANGED <<vars, packing, shipOrder>>

DeliverWrites(s) ==
  /\ Doing(s, "delivered")
  /\ Writes(s, task[s].order, "delivered")
  /\ UNCHANGED <<packing, shipStatus, shipOrder>>

(* markShipmentIssue: its update says AND status = 'sent'.                    *)

IssueReads(s, x) ==
  /\ shipStatus[x] = "sent"
  /\ Reads(s, [Idle EXCEPT !.doing = "issue", !.shipment = x])

\* Faulty variant: the update does not say AND status = 'sent'.
IssueUpdatesBlindly(s, outcome) ==
  /\ Doing(s, "issue")
  /\ shipStatus' = [shipStatus EXCEPT ![task[s].shipment] = outcome]
  /\ task'       = [task EXCEPT ![s] = Idle]
  /\ UNCHANGED <<vars, packing, shipOrder>>

IssueUpdates(s, outcome) ==
  /\ Doing(s, "issue")
  /\ shipStatus[task[s].shipment] = "sent"
  /\ shipStatus' = [shipStatus EXCEPT ![task[s].shipment] = outcome]
  /\ task'       = [task EXCEPT ![s] = Idle]
  /\ UNCHANGED <<vars, packing, shipOrder>>

\* The request ends between two statements: the process dies, a statement
\* fails, or the conditional update finds nothing.
RequestDies(s) ==
  /\ ~ Doing(s, "nothing")
  /\ task' = [task EXCEPT ![s] = Idle]
  /\ UNCHANGED <<vars, packing, shipStatus, shipOrder>>

-----------------------------------------------------------------------------
Work(s) ==
  \/ \E o \in Orders : \/ ConfirmReads(s, o) \/ PackReads(s, o)
                       \/ UnpackReads(s, o) \/ ShipReads(s, o)
  \/ \E x \in Shipments : \/ DeliverReads(s, x) \/ IssueReads(s, x)
                          \/ ShipInserts(s, x)
  \/ ConfirmWrites(s) \/ PackCounts(s) \/ PackWrites(s) \/ UnpackWrites(s)
  \/ ShipWrites(s) \/ DeliverUpdates(s) \/ DeliverWrites(s)
  \/ \E outcome \in {"returned", "lost"} : IssueUpdates(s, outcome)
  \/ RequestDies(s)

FulfilNext ==
  \/ \E s \in Staff : Work(s)
  \/ Next /\ UNCHANGED fulfilVars

FulfilSpec == FulfilInit /\ [][FulfilNext]_shopVars

-----------------------------------------------------------------------------
(* Properties.                                                                *)

FulfilTypeOK ==
  /\ packing \in [Orders -> {"null", "complete", "short"}]
  /\ shipStatus \in [Shipments -> {"none", "sent", "delivered", "returned", "lost"}]
  /\ shipOrder \in [Shipments -> Orders \cup {NoRef}]
  /\ task \in [Staff -> [doing : {"nothing", "confirm", "count", "pack", "unpack",
                                  "ship", "shipped", "deliver", "delivered", "issue"},
                         order : Orders \cup {NoRef},
                         shipment : Shipments \cup {NoShipment},
                         full : BOOLEAN]]

PaidStatuses ==
  {"paid", "confirmed", "packing", "processing", "shipped", "delivered"}

\* However requests interleave, no order that was not paid is packed or sent
\* ("the goods are not sold yet", cycle.ts), and no stale write makes a paid
\* order payable again.
OnlyPaidOrdersAreHandled ==
  \A o \in Orders : /\ status[o] \in PaidStatuses => paidAt[o]
                    /\ status[o] = "pending_payment" => ~ paidAt[o]

\* A parcel that is recorded as delivered stays delivered.
DeliveryIsFinal ==
  [][\A x \in Shipments : shipStatus[x] = "delivered" => shipStatus'[x] = "delivered"]_shopVars

\* A delivered order goes to "returned" only (cycle.ts).
DeliveredOnlyReturns ==
  [][\A o \in Orders :
       status[o] = "delivered" => status'[o] \in {"delivered", "returned"}]_shopVars

\* An order with a shortage waits in "packing" and is not sent incomplete.
ShortageIsNotShipped ==
  \A o \in Orders : status[o] = "shipped" => packing[o] # "short"

\* What has left with a carrier never returns to the packing table.
ShippedStaysShipped ==
  [][\A o \in Orders :
       status[o] = "shipped" => status'[o] \notin {"confirmed", "packing"}]_shopVars

=============================================================================
