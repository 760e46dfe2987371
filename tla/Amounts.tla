------------------------------- MODULE Amounts -------------------------------
(* The arithmetic of an order and of a purchase invoice (orders, coupons,     *)
(* accounting and shared-kernel/money): shares of a discount, tax by the line *)
(* and the journal entry.  Amounts are whole rials.                           *)
EXTENDS Integers, Sequences, FiniteSetsExt, Functions

CONSTANTS UnitPrices,   \* prices of a variant
          UnitCounts,   \* quantities of a line
          Percents,     \* value_bp of a coupon
          Deductions,   \* value_rial of a coupon
          Caps,         \* max_discount_rial of a coupon, 0 where there is none
          Minimums,     \* min_subtotal_rial of a coupon
          VatBp,        \* the rate of value-added tax, in basis points
          Shippings,    \* delivery fees
          ExtraCosts    \* extra costs of a purchase invoice

BpWhole == 10000        \* basis points of the whole

ASSUME AmountsAssumption ==
  /\ UnitPrices \subseteq Nat /\ UnitCounts \subseteq Nat \ {0}
  /\ Percents \subseteq 1 .. BpWhole /\ Deductions \subseteq Nat \ {0}
  /\ Caps \subseteq Nat /\ Minimums \subseteq Nat
  /\ VatBp \in 0 .. BpWhole /\ Shippings \subseteq Nat /\ ExtraCosts \subseteq Nat

\* The variants of a basket, sorted: one may be on two lines, for a caller of the
\* service may send it twice.
Patterns == {<<1>>, <<1, 2>>, <<1, 2, 3>>, <<1, 1>>, <<1, 1, 2>>}

\* A coupon for everything, for one product, or for a category with two products.
Scopes == {{1, 2, 3}, {1}, {2, 3}}

Coupons ==
  [kind : {"percent"}, value : Percents, cap : Caps, minimum : Minimums, scope : Scopes]
  \cup [kind : {"fixed"}, value : Deductions, cap : Caps, minimum : Minimums, scope : Scopes]
  \cup [kind : {"none"}, value : {0}, cap : {0}, minimum : {0}, scope : {{}}]

VARIABLES basket,     \* lines with variant, unit price and quantity
          coupon,     \* the coupon the customer names
          fee,        \* the delivery fee
          bill,       \* the order as it was stored, or the empty sequence
          invoice,    \* the purchase invoice as it was stored, or the empty sequence
          entry       \* lines of the journal entry: debit and credit

amountVars == <<basket, coupon, fee, bill, invoice, entry>>

Priced(pattern) == [DOMAIN pattern -> [price : UnitPrices, quantity : UnitCounts]]

AmountsInit ==
  /\ \E pattern \in Patterns : \E l \in Priced(pattern) :
       /\ \A i, j \in DOMAIN pattern :
            pattern[i] = pattern[j] => l[i].price = l[j].price
       /\ basket = [i \in DOMAIN pattern |->
            [variant |-> pattern[i], price |-> l[i].price, quantity |-> l[i].quantity]]
  /\ coupon \in Coupons /\ fee \in Shippings
  /\ bill = <<>> /\ invoice = <<>> /\ entry = <<>>

-----------------------------------------------------------------------------
(* Proportional shares.                                                       *)

\* Where an index comes when the keys are sorted downwards, from zero.
Place(key, i) ==
  Cardinality({j \in DOMAIN key : key[j] > key[i] \/ (key[j] = key[i] /\ j < i)})

\* Every weight its part of the total, rounded down, and the rials that are left one
\* by one to the first in the order of the keys.
Spread(total, weight, key) ==
  LET part == [i \in DOMAIN weight |-> (total * weight[i]) \div SumFunction(weight)] IN
  [i \in DOMAIN weight |->
     part[i] + IF Place(key, i) < total - SumFunction(part) THEN 1 ELSE 0]

\* Faulty variant: the rials that are left are lost.
DistributeRoundedDown(total, gross) ==
  [i \in DOMAIN gross |->
     IF SumFunction(gross) = 0 THEN 0 ELSE (total * gross[i]) \div SumFunction(gross)]

\* distribute: what is left goes to the largest lines.
Distribute(total, gross) ==
  IF SumFunction(gross) = 0 THEN [i \in DOMAIN gross |-> 0] ELSE Spread(total, gross, gross)

\* allocate: what is left goes to the largest remainders; without weights, alike.
Allocate(total, value) ==
  LET weight == IF SumFunction(value) = 0 THEN [i \in DOMAIN value |-> 1] ELSE value
  IN  Spread(total, weight,
             [i \in DOMAIN weight |-> (total * weight[i]) % SumFunction(weight)])

\* percentOf, divRoundHalfUp.
PercentOf(amount, bp) == (2 * (amount * bp) + BpWhole) \div (2 * BpWhole)

-----------------------------------------------------------------------------
(* The order.                                                                 *)

Gross == [i \in DOMAIN basket |-> basket[i].price * basket[i].quantity]

EligibleLines == {i \in DOMAIN basket : basket[i].variant \in coupon.scope}

EligibleGross == SumFunctionOnSet(Gross, EligibleLines)

\* The discount of applyCouponRecord: never more than the eligible goods or the cap.
Discount ==
  LET off == IF coupon.kind = "percent" THEN (EligibleGross * coupon.value) \div BpWhole
             ELSE Min({coupon.value, EligibleGross})
  IN  IF coupon.cap = 0 THEN off ELSE Min({off, coupon.cap})

Shares == Distribute(Discount, [i \in EligibleLines |-> Gross[i]])

\* The share of a line is looked up by its variant, in a map the last line of the
\* variant has written.
Share(i) ==
  LET same == {j \in EligibleLines : basket[j].variant = basket[i].variant}
  IN  IF same = {} THEN 0 ELSE Shares[Max(same)]

\* calcLine: the discount comes off before the tax, which is rounded by the line.
Billed(i) ==
  LET net == Gross[i] - (IF coupon.kind = "none" THEN 0 ELSE Share(i)) IN
  [gross |-> Gross[i], net |-> net, tax |-> PercentOf(net, VatBp)]

\* createOrder: the minimum is asked of the whole basket, and a coupon must fit some
\* line of it.
PlaceOrder ==
  /\ bill = <<>> /\ invoice = <<>>
  /\ coupon.kind # "none" => SumFunction(Gross) >= coupon.minimum /\ EligibleLines # {}
  /\ bill' = [i \in DOMAIN basket |-> Billed(i)]
  /\ UNCHANGED <<basket, coupon, fee, invoice, entry>>

NetOf(rows) == SumFunction([i \in DOMAIN rows |-> rows[i].net])
TaxOf(rows) == SumFunction([i \in DOMAIN rows |-> rows[i].tax])

Debit(amount) == [debit |-> amount, credit |-> 0]
Credit(amount) == [debit |-> 0, credit |-> amount]

\* The journal takes a balanced entry none of whose lines is zero.
Postable(lines) ==
  /\ SumFunction([i \in DOMAIN lines |-> lines[i].debit])
       = SumFunction([i \in DOMAIN lines |-> lines[i].credit])
  /\ \A i \in DOMAIN lines : lines[i].debit > 0 \/ lines[i].credit > 0

\* Two lines, and one for the tax where there is any.
WithTax(two, tax) == IF tax.debit + tax.credit = 0 THEN two ELSE Append(two, tax)

SaleEntry ==
  WithTax(<<Debit(NetOf(bill) + TaxOf(bill) + fee), Credit(NetOf(bill) + fee)>>,
          Credit(TaxOf(bill)))

\* postSaleOn, at the settlement: an entry that the journal refuses takes the
\* settlement with it.  The cost of the goods stands on both sides and is left out.
PostSale ==
  /\ bill # <<>> /\ entry = <<>>
  /\ Postable(SaleEntry) /\ entry' = SaleEntry
  /\ UNCHANGED <<basket, coupon, fee, bill, invoice>>

-----------------------------------------------------------------------------
(* The purchase invoice.                                                      *)

\* postPurchaseInvoice: the extra costs are part of what the goods cost, the tax is
\* not.  The lines carry shares of both.
PostPurchaseInvoice(extra, vat) ==
  LET cost  == Allocate(extra, Gross)
      taxes == Allocate(vat, Gross)
      goods == SumFunction(Gross) + extra
      lines == WithTax(<<Debit(goods), Credit(goods + vat)>>, Debit(vat))
  IN /\ bill = <<>> /\ invoice = <<>> /\ coupon.kind = "none"
     /\ Postable(lines) /\ entry' = lines
     /\ invoice' = [i \in DOMAIN basket |->
          [extra |-> cost[i], vat |-> taxes[i], total |-> Gross[i] + cost[i]]]
     /\ UNCHANGED <<basket, coupon, fee, bill>>

AmountsNext ==
  \/ PlaceOrder \/ PostSale
  \/ \E extra, vat \in ExtraCosts : PostPurchaseInvoice(extra, vat)

AmountsSpec == AmountsInit /\ [][AmountsNext]_amountVars

-----------------------------------------------------------------------------
(* Properties.                                                                *)

\* Types.
AmountsTypeOK ==
  /\ coupon \in Coupons /\ fee \in Shippings
  /\ bill \in Seq([gross : Nat, net : Int, tax : Int])
  /\ invoice \in Seq([extra : Nat, vat : Nat, total : Nat])
  /\ entry \in Seq([debit : Nat, credit : Nat])

Repeats == \E i, j \in DOMAIN basket : i # j /\ basket[i].variant = basket[j].variant

Off(i) == bill[i].gross - bill[i].net

\* The shares of the lines make up the discount to the rial, and each line gives
\* within a rial what its price is of the eligible goods, and never more than it has.
DiscountIsShared ==
  bill # <<>> /\ coupon.kind # "none" =>
    /\ SumFunction([i \in DOMAIN bill |-> Off(i)]) = Discount
    /\ \A i \in DOMAIN bill : Off(i) \in 0 .. Gross[i]
    /\ \A i \in DOMAIN bill \ EligibleLines : Off(i) = 0
    /\ \A i \in EligibleLines :
         LET exact == Discount * Gross[i] - Off(i) * EligibleGross
         IN  EligibleGross > 0 => exact \in -EligibleGross .. EligibleGross

\* Rounding the tax by the line moves the tax of an order by at most half a rial a
\* line.
TaxIsNear ==
  LET exact == 2 * (BpWhole * TaxOf(bill) - VatBp * NetOf(bill))
  IN  exact \in -(BpWhole * Len(bill)) .. BpWhole * Len(bill)

\* The goods of a purchase enter the valuation line by line for what the journal
\* says they cost together.
CostIsShared ==
  invoice # <<>> =>
    /\ SumFunction([i \in DOMAIN invoice |-> invoice[i].total]) = entry[1].debit
    /\ entry[2].credit
         = entry[1].debit + SumFunction([i \in DOMAIN invoice |-> invoice[i].vat])

\* No rial is lost or made when a discount, a tax or a cost is divided among the lines
\* of a basket that names no variant twice.
AmountsAddUp ==
  /\ AmountsTypeOK
  /\ ~Repeats => DiscountIsShared /\ TaxIsNear
  /\ CostIsShared

\* The comment of distribute, also for a basket that names a variant twice: the shares
\* are exactly the discount.
SharesAreExact == DiscountIsShared

\* An order that was placed can be settled.
EveryOrderSettles == bill # <<>> => Postable(SaleEntry)

=============================================================================
