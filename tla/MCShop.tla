------------------------------- MODULE MCShop --------------------------------
(* Orders with what the customers, the staff and the cash desk do to them:    *)
(* payments; the work of the staff, and sweepers that overlap, where money is *)
(* taken at the desk only, which settles an order in one step; and the shifts *)
(* and sales of the desk.                                                     *)
EXTENDS Payments, Fulfilment, Pos, TLC

MCKeys == Shifts \X OfflineIds

\* One withdrawal.
MCAmounts == {-1}

VARIABLE part

mcVars == <<part, vars, payVars, fulfilVars, posVars>>

MCShopInit ==
  /\ part \in {"payments", "sweepers", "staff", "desk"}
  /\ PayInit /\ FulfilInit /\ PosInit
  /\ part = "desk" => \A w \in Warehouses, v \in Variants : onHand[w][v] <= 1

\* A settlement at the desk inserts a payment that has succeeded, as PaidAtTheDesk has it.
DeskTakesMoney ==
  \/ \E p \in Payments, o \in Orders :
       /\ ~paidAt[o] /\ paidAt'[o] /\ payStatus[p] = "none"
       /\ payStatus' = [payStatus EXCEPT ![p] = "success"]
       /\ payOrder' = [payOrder EXCEPT ![p] = o]
       /\ bank' = [bank EXCEPT ![p] = "desk"] /\ UNCHANGED <<verifying, refId>>
  \/ paidAt' = paidAt /\ UNCHANGED payVars

\* Bounds: cash is moved before there is an order, for a sale reads nothing of it; sales
\* are paid in cash; the site's orders are placed before the first shift is opened.
DeskBounds ==
  /\ \A r, q \in Requests : call'[r].at = "moving" => r = q \/ call'[q].at = "free"
  /\ (\E r \in Requests : call'[r].at = "moving") => \A o \in Orders : status'[o] = "none"
  /\ \A r \in Requests : call'[r].at = "creating" => call'[r].cash
  /\ (\E o \in Orders : status[o] = "none" /\ status'[o] # "none")
       => call # call' \/ \A sh \in Shifts : shiftStatus[sh] = "none"

\* Bound: the staff handle one of the orders; the other competes for the stock with it.
Handled == {o \in Orders : status[o] \in {"confirmed", "packing", "shipped", "delivered"}}

StaffBounds == Cardinality(Handled') <= 1

\* No shift can be opened any more.
DeskIsDone ==
  /\ \A sh \in Shifts : shiftStatus[sh] = "closed"
  /\ UNCHANGED <<vars, posVars>>

MCShopNext ==
  /\ UNCHANGED part
  /\ \/ /\ part = "payments" /\ PayNext /\ UNCHANGED <<procVars, fulfilVars, posVars>>
     \/ /\ part = "sweepers" /\ PayNext /\ UNCHANGED <<inflight, fulfilVars, posVars>>
        /\ \A p \in Payments : payStatus'[p] \in {"none", "success"}
     \/ /\ part = "staff" /\ UNCHANGED <<procVars, posVars>>
        /\ \/ (\E s \in Staff : Work(s)) /\ UNCHANGED payVars
           \/ /\ PayNext /\ UNCHANGED fulfilVars
              /\ \A p \in Payments : payStatus'[p] \in {"none", "success"}
        /\ StaffBounds
     \/ /\ part = "desk" /\ (PosNext \/ DeskIsDone) /\ DeskTakesMoney /\ DeskBounds
        /\ UNCHANGED <<batch, fulfilVars>>

MCShopSpec == MCShopInit /\ [][MCShopNext]_mcVars

\* Payments, requests of the staff, shipments, orders and calls of the desk are
\* interchangeable; shifts are told apart by the keys.
Symmetric ==
  Permutations(Payments) \cup Permutations(Staff) \cup Permutations(Shipments)
    \cup Permutations(Orders) \cup Permutations(Requests)
=============================================================================
