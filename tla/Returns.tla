------------------------------ MODULE Returns -------------------------------
(* Returned goods (packages/returns/src): the returns of one line of a paid   *)
(* order, from the request to the money, and the dates of its warranty.  A    *)
(* request locks the order and every later operation locks the return, each   *)
(* in one transaction, so that an operation is one step.  Amounts are rials.  *)
EXTENDS Integers, Sequences, FiniteSetsExt, Functions

CONSTANTS Returns,        \* requests that may be made
          Purchased,      \* quantity of the order line
          NetTotal,       \* unit price times quantity, less the discount
          TaxTotal,       \* value-added tax of the line
          FeePercent,     \* return_restock_fee_bp, in percent
          MaxRows         \* bound: findings of one receipt

ASSUME ReturnsAssumption ==
  /\ IsFiniteSet(Returns) /\ Purchased \in Nat \ {0} /\ NetTotal \in Nat /\ TaxTotal \in Nat
  /\ FeePercent \in 0 .. 100 /\ MaxRows \in Nat \ {0}

Kinds == {"withdrawal", "defective", "warranty"}

\* What the inspection finds of the item: used (neither sellable nor unknown), and
\* to be put back on the shelf (asked for, and sellable or opened).
Findings == [used : BOOLEAN, shelf : BOOLEAN]

\* The rows of a receipt.  Nothing in it says that they name different items.
Receipts == UNION {[1 .. n -> Findings] : n \in 1 .. MaxRows}

ReturnStatus == {"none", "requested", "approved", "in_transit", "received", "inspecting",
                 "refund_pending", "refunded", "closed", "cancelled", "rejected"}

VARIABLES orderPaid,   \* the order's status is exactly 'paid'
          inWindow,    \* the days of withdrawal are not over
          covered,     \* the warranty has not ended
          autoApprove, \* the setting return_auto_approve
          status,      \* of every return
          kind,        \* of every return
          quantity,    \* of every return: units of the line, which it names once
          planned,     \* column refund_rial
          due,         \* what the receipt of the goods granted
          paid,        \* what the customer was given, in money or as credit
          credit,      \* what of it was store credit or an exchange
          backOnShelf, \* units the receipt put back into stock
          doubled,     \* returns whose receipt named the item twice
          payable      \* balance of 2300, the account of refunds owed and of credit

shopVars   == <<orderPaid, inWindow, covered, autoApprove>>
moneyVars  == <<planned, due, paid, credit, backOnShelf, payable>>
returnVars == <<shopVars, status, kind, quantity, moneyVars, doubled>>

ReturnsInit ==
  /\ orderPaid = TRUE /\ inWindow = TRUE /\ covered = TRUE /\ autoApprove \in BOOLEAN
  /\ status = [r \in Returns |-> "none"] /\ kind = [r \in Returns |-> "defective"]
  /\ quantity = [r \in Returns |-> 0] /\ doubled = {}
  /\ planned = [r \in Returns |-> 0] /\ due = [r \in Returns |-> 0]
  /\ paid = [r \in Returns |-> 0] /\ credit = [r \in Returns |-> 0]
  /\ backOnShelf = [r \in Returns |-> 0] /\ payable = 0

-----------------------------------------------------------------------------
(* The state machine of a return and the arithmetic of a refund.              *)

Transitions ==
  [s \in ReturnStatus |->
    CASE s = "requested"      -> {"approved", "rejected", "cancelled"}
      [] s = "approved"       -> {"in_transit", "cancelled"}
      [] s = "in_transit"     -> {"received", "cancelled"}
      [] s = "received"       -> {"inspecting", "rejected"}
      [] s = "inspecting"     -> {"refund_pending", "rejected"}
      [] s = "refund_pending" -> {"refunded", "closed"}
      [] s = "refunded"       -> {"closed"}
      [] s = "rejected"       -> {"closed"}
      [] OTHER                -> {}]

\* Faulty variant: every return that was made can be cancelled.
CanCancelAny(r, to) == to \in Transitions[status[r]] \/ (to = "cancelled" /\ status[r] # "none")

\* assertTransition.
CanTransition(r, to) == to \in Transitions[status[r]]

RoundHalfUp(a, b) == (2 * a + b) \div (2 * b)

\* The part of total that q of the units get back.  The whole line gives the whole
\* amount, and a part is rounded by the unit and capped by what is left.
PartOf(total, q, already) ==
  IF q = Purchased THEN total
  ELSE LET unit == RoundHalfUp(total, Purchased) IN
       Min({unit * q, Max({total - unit * already, 0})})

\* The fee is for a withdrawal of goods that were used.
Fee(r, net, used) ==
  IF kind[r] = "withdrawal" /\ used THEN RoundHalfUp(net * FeePercent, 100) ELSE 0

Live == {r \in Returns : status[r] \notin {"none", "cancelled", "rejected"}}

\* Units of the line in live returns: the service counts them before it inserts, and
\* the trigger guard_return_quantity when it does.
AlreadyReturned == SumFunctionOnSet(quantity, Live)

-----------------------------------------------------------------------------
(* The shop around the returns.                                               *)

\* Confirmed, shipped, delivered or cancelled: the status is no longer 'paid'.
OrderMovesOn ==
  /\ orderPaid /\ orderPaid' = FALSE
  /\ UNCHANGED <<inWindow, covered, autoApprove, status, kind, quantity, moneyVars, doubled>>

TimePasses ==
  /\ \/ inWindow /\ inWindow' = FALSE /\ UNCHANGED covered
     \/ covered /\ covered' = FALSE /\ UNCHANGED inWindow
  /\ UNCHANGED <<orderPaid, autoApprove, status, kind, quantity, moneyVars, doubled>>

\* startWarranty, by the panel or by the worker: an upsert that writes the dates.
\* The status of a warranty is read by nothing here.
StartWarranty ==
  /\ covered' = ~covered
  /\ UNCHANGED <<orderPaid, inWindow, autoApprove, status, kind, quantity, moneyVars, doubled>>

-----------------------------------------------------------------------------
(* Operations.                                                                *)

\* evaluateEligibility, for q units.
Eligible(k, q) ==
  /\ orderPaid
  /\ q <= Purchased - AlreadyReturned
  /\ k = "withdrawal" => inWindow
  /\ k = "warranty" => covered

\* requestReturn.  A request that names the line twice is refused by the table.
RequestReturn(r, k, q) ==
  /\ status[r] = "none" /\ Eligible(k, q)
  /\ status' = [status EXCEPT ![r] =
       IF autoApprove /\ k = "withdrawal" THEN "approved" ELSE "requested"]
  /\ kind' = [kind EXCEPT ![r] = k] /\ quantity' = [quantity EXCEPT ![r] = q]
  /\ UNCHANGED <<shopVars, moneyVars, doubled>>

Moves(r, to) ==
  /\ status' = [status EXCEPT ![r] = to]
  /\ UNCHANGED <<shopVars, kind, quantity, moneyVars, doubled>>

DecideReturn(r, to) ==
  /\ to \in {"approved", "rejected"} /\ CanTransition(r, to)
  /\ Moves(r, to)

MarkInTransit(r) == CanTransition(r, "in_transit") /\ Moves(r, "in_transit")

CancelReturn(r) == CanTransition(r, "cancelled") /\ Moves(r, "cancelled")

Net(r) == PartOf(NetTotal, quantity[r], 0)
Tax(r) == PartOf(TaxTotal, quantity[r], 0)

\* What the customer gets for a receipt: each of its rows at the full remaining
\* amount of the line, whatever other returns were granted.
Granted(r, c) == SumFunction([i \in DOMAIN c |-> Net(r) + Tax(r) - Fee(r, Net(r), c[i].used)])

\* The line of the journal entry for the refunds owed.
Liability(r, c) == Granted(r, c)

\* receiveReturn, from received goods to refund_pending at once: stock, entry (whose
\* lines must not be zero) and amount.
ReceiveReturn(r, c) ==
  /\ status[r] \in {"approved", "in_transit", "received"}
  /\ Net(r) > 0 /\ Liability(r, c) > 0
  /\ status' = [status EXCEPT ![r] = "refund_pending"]
  /\ planned' = [planned EXCEPT ![r] = Granted(r, c)]
  /\ due' = [due EXCEPT ![r] = Granted(r, c)]
  /\ payable' = payable + Liability(r, c)
  /\ backOnShelf' = [backOnShelf EXCEPT ![r] =
       quantity[r] * Cardinality({i \in DOMAIN c : c[i].shelf})]
  /\ doubled' = IF Len(c) > 1 THEN doubled \cup {r} ELSE doubled
  /\ UNCHANGED <<shopVars, kind, quantity, paid, credit>>

Methods == {"money", "credit"}

\* refundReturn: the amount may be set by hand, up to the one that was granted,
\* and takes its place in the row.  Money leaves the account; store credit and an
\* exchange are debited to it and credited to it again.
RefundReturn(r, amount, method) ==
  /\ CanTransition(r, "refunded") /\ amount > 0 /\ amount <= planned[r]
  /\ status' = [status EXCEPT ![r] = "refunded"]
  /\ planned' = [planned EXCEPT ![r] = amount]
  /\ paid' = [paid EXCEPT ![r] = @ + amount]
  /\ \/ method = "money" /\ payable' = payable - amount /\ UNCHANGED credit
     \/ /\ method = "credit" /\ credit' = [credit EXCEPT ![r] = @ + amount]
        /\ UNCHANGED payable
  /\ UNCHANGED <<shopVars, kind, quantity, due, backOnShelf, doubled>>

-----------------------------------------------------------------------------
ReturnsNext ==
  \/ OrderMovesOn \/ TimePasses \/ StartWarranty
  \/ \E r \in Returns :
       \/ \E k \in Kinds, q \in 1 .. Purchased : RequestReturn(r, k, q)
       \/ \E to \in {"approved", "rejected"} : DecideReturn(r, to)
       \/ MarkInTransit(r) \/ CancelReturn(r)
       \/ \E c \in Receipts : ReceiveReturn(r, c)
       \/ \E amount \in {1, planned[r]}, method \in Methods : RefundReturn(r, amount, method)

ReturnsSpec == ReturnsInit /\ [][ReturnsNext]_returnVars

-----------------------------------------------------------------------------
(* Properties.                                                                *)

\* Types, and goods that were not received are owed nothing.
ReturnsTypeOK ==
  /\ orderPaid \in BOOLEAN /\ inWindow \in BOOLEAN /\ covered \in BOOLEAN
  /\ autoApprove \in BOOLEAN
  /\ status \in [Returns -> ReturnStatus] /\ kind \in [Returns -> Kinds]
  /\ quantity \in [Returns -> 0 .. Purchased]
  /\ planned \in [Returns -> Nat] /\ due \in [Returns -> Nat] /\ paid \in [Returns -> Nat]
  /\ credit \in [Returns -> Nat]
  /\ backOnShelf \in [Returns -> Nat] /\ payable \in Nat /\ doubled \subseteq Returns
  /\ \A r \in Returns : status[r] \notin {"refund_pending", "refunded"} => due[r] = 0

\* No unit is in two live returns.
NoUnitReturnedTwice == AlreadyReturned <= Purchased

\* The shelf gets back at most what it gave, over all returns of the line, and
\* through cancellations and rejections, unless a receipt names the item twice.
ShelfGetsBackWhatItGave ==
  doubled = {} => SumFunction(backOnShelf) <= Purchased

\* The books owe the customers what receipts granted and was not paid in money: what
\* was turned into credit or exchanged stays in the account, and nothing in it tells
\* the one from the other.
PayableIsOwed ==
  payable = SumFunction([r \in Returns |-> due[r] - (paid[r] - credit[r])])

\* A customer is given no more than the receipt granted, however often the refund
\* is asked for and whatever amount is typed.
PaidWithinDue == \A r \in Returns : paid[r] > 0 => paid[r] <= due[r]

\* Partial returns of a line together grant at most the amount of the line and a
\* rounding of half a rial, for the price and for the tax, for each unit.
LeakIsBounded ==
  doubled = {} =>
    SumFunction(due) <= NetTotal + TaxTotal + Purchased

\* Units of a line are neither returned twice nor put back twice, and what is
\* granted, owed and paid back agrees, over all returns of the line.
ReturnsAddUp ==
  /\ ReturnsTypeOK /\ NoUnitReturnedTwice /\ ShelfGetsBackWhatItGave
  /\ PayableIsOwed /\ PaidWithinDue /\ LeakIsBounded

\* The comment of RefundLineInput: separate returns of single units never add up
\* to more than the line.
RefundsWithinLine ==
  doubled = {} => SumFunction(due) <= NetTotal + TaxTotal

=============================================================================
