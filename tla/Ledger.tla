------------------------------- MODULE Ledger -------------------------------
(* The books and what is read from them: the entries of a sale, of a return   *)
(* and of its refund (accounting/src/index.ts, returns/src/service.ts), their *)
(* reversal, the profit and loss of a period, and the gross profit that       *)
(* reports/src/gross-profit.ts computes from the orders and holds against the *)
(* ledger.  Every order is for one article of the same price.                 *)
EXTENDS Integers, FiniteSets, Functions

CONSTANTS Buys,         \* orders
          GoodsNet, GoodsVat, Fare, \* of an order: goods less discount, VAT, delivery
          ReturnFee,    \* kept from a refund
          UnitCosts,    \* averages of the stock at a sale or a return
          MaxPeriods,   \* bound: months that pass
          MaxReversals  \* bound: reversals that somebody books

ASSUME LedgerAssumption ==
  /\ IsFiniteSet(Buys)
  /\ {GoodsNet, GoodsVat, Fare, ReturnFee, MaxPeriods, MaxReversals} \subseteq Nat
  /\ MaxPeriods # 0
  /\ UnitCosts \subseteq Nat /\ ReturnFee < GoodsNet + GoodsVat

Accounts == {"settlement", "inventory", "vatPayable", "refundPayable", "sales",
             "salesReturn", "feeIncome", "cogs"}
Documents == {"sale", "return", "refund"}
Periods == 1 .. MaxPeriods
Never == 0

VARIABLES month,      \* the month that runs
          buy,        \* status, month of created_at and of paid_at, cost of an order
          settling,   \* month in which the open settlement of an order began
          giveBack,   \* of an order's return: not yet, received, refunded
          entryOf,    \* month and lines of a document's entry
          ledger,     \* debit less credit of the accounts, month by month
          reversals   \* how often an entry was reversed

ledgerVars == <<month, buy, settling, giveBack, entryOf, ledger, reversals>>

NoLines == [a \in Accounts |-> 0]
NoEntry == [month |-> Never, lines |-> NoLines]
NoBuy == [status |-> "none", created |-> Never, paid |-> Never, cost |-> 0]

LedgerInit ==
  /\ month = 1 /\ buy = [o \in Buys |-> NoBuy] /\ settling = [o \in Buys |-> Never]
  /\ giveBack = [o \in Buys |-> "no"]
  /\ entryOf = [o \in Buys |-> [d \in Documents |-> NoEntry]]
  /\ ledger = [p \in Periods |-> NoLines]
  /\ reversals = [o \in Buys |-> [d \in Documents |-> 0]]

-----------------------------------------------------------------------------
(* Entries.                                                                   *)

\* Lines of an entry: debits are positive, credits negative.
JournalLines(some) == [a \in Accounts |-> IF a \in DOMAIN some THEN some[a] ELSE 0]

\* postJournalOn: the period is that of the moment of posting.
Booked(lines) == ledger' = [ledger EXCEPT ![month] = [a \in Accounts |-> @[a] + lines[a]]]

Posted(o, d, lines) ==
  /\ entryOf' = [entryOf EXCEPT ![o][d] = [month |-> month, lines |-> lines]]
  /\ Booked(lines)

\* postSaleOn: goods and delivery are revenue, the tax is owed, the goods cost their
\* average.
SaleLines(cost) ==
  JournalLines([settlement |-> GoodsNet + GoodsVat + Fare, sales |-> -(GoodsNet + Fare), vatPayable |-> -GoodsVat,
         cogs |-> cost, inventory |-> -cost])

\* receiveReturn: the sale is taken back on an account of its own, the fee stays, the
\* goods come back for the average of the day.
ReturnLines(cost) ==
  JournalLines([salesReturn |-> GoodsNet, vatPayable |-> GoodsVat, feeIncome |-> -ReturnFee,
         refundPayable |-> -(GoodsNet + GoodsVat - ReturnFee), inventory |-> cost, cogs |-> -cost])

\* refundReturn: money leaves; a credit or an exchange is booked on the account that
\* it comes from.
RefundLines(amount, method) ==
  IF method = "money" THEN JournalLines([refundPayable |-> amount, settlement |-> -amount])
  ELSE NoLines

-----------------------------------------------------------------------------
(* What happens to an order.                                                  *)

PlaceBuy(o) ==
  /\ buy[o] = NoBuy
  /\ buy' = [buy EXCEPT ![o].status = "pending_payment", ![o].created = month]
  /\ UNCHANGED <<month, settling, giveBack, entryOf, ledger, reversals>>

\* The transaction of confirmPaymentOn locks the order, and may wait: for the stock, or
\* for the bank that verify asks.  now() stays what it was when it began.
SettlementBegins(o) ==
  /\ buy[o].status = "pending_payment" /\ settling[o] = Never
  /\ settling' = [settling EXCEPT ![o] = month]
  /\ UNCHANGED <<month, buy, giveBack, entryOf, ledger, reversals>>

\* It ends with the goods gone, their cost noted on the order, and the entry.
SettlementCommits(o, cost) ==
  /\ settling[o] # Never
  /\ settling' = [settling EXCEPT ![o] = Never]
  /\ buy' = [buy EXCEPT ![o].status = "paid", ![o].paid = settling[o], ![o].cost = cost]
  /\ Posted(o, "sale", SaleLines(cost))
  /\ UNCHANGED <<month, giveBack, reversals>>

SettlementFails(o) ==
  /\ settling[o] # Never
  /\ settling' = [settling EXCEPT ![o] = Never]
  /\ UNCHANGED <<month, buy, giveBack, entryOf, ledger, reversals>>

\* cancel books nothing, whether the order was paid or not.
CallOff(o) ==
  /\ buy[o].status \in {"pending_payment", "paid"} /\ settling[o] = Never
  /\ buy' = [buy EXCEPT ![o].status = "cancelled"]
  /\ UNCHANGED <<month, settling, giveBack, entryOf, ledger, reversals>>

\* receiveReturn of an order that was handed over; "paid" stands for all that follows.
ReceiveGoods(o, cost) ==
  /\ buy[o].status = "paid" /\ giveBack[o] = "no"
  /\ giveBack' = [giveBack EXCEPT ![o] = "received"]
  /\ Posted(o, "return", ReturnLines(cost))
  /\ UNCHANGED <<month, buy, settling, reversals>>

\* The amount is the one computed at the receipt, or a smaller one by hand.
Refund(o, amount, method) ==
  /\ giveBack[o] = "received"
  /\ giveBack' = [giveBack EXCEPT ![o] = "refunded"]
  /\ Posted(o, "refund", RefundLines(amount, method))
  /\ UNCHANGED <<month, buy, settling, reversals>>

\* reverseEntry: the entry exists; whether it was reversed before is not asked.  (The
\* reversal is an entry that can be reversed too: left out.)
ReverseEntry(o, d) ==
  /\ entryOf[o][d] # NoEntry
  /\ SumFunction([b \in Buys |-> SumFunction(reversals[b])]) < MaxReversals
  /\ Booked([a \in Accounts |-> -entryOf[o][d].lines[a]])
  /\ reversals' = [reversals EXCEPT ![o][d] = @ + 1]
  /\ UNCHANGED <<month, buy, settling, giveBack, entryOf>>

MonthPasses ==
  /\ month < MaxPeriods /\ month' = month + 1
  /\ UNCHANGED <<buy, settling, giveBack, entryOf, ledger, reversals>>

LedgerNext ==
  \/ \E o \in Buys :
       \/ PlaceBuy(o) \/ SettlementBegins(o) \/ SettlementFails(o) \/ CallOff(o)
       \/ \E cost \in UnitCosts : SettlementCommits(o, cost) \/ ReceiveGoods(o, cost)
       \/ \E amount \in {GoodsNet + GoodsVat - ReturnFee, 1}, method \in {"money", "credit"} :
            Refund(o, amount, method)
       \/ \E d \in Documents : ReverseEntry(o, d)
  \/ MonthPasses

LedgerSpec == LedgerInit /\ [][LedgerNext]_ledgerVars

-----------------------------------------------------------------------------
(* What is read.                                                              *)

\* Faulty variant: an order belongs to the month it was placed in.
CountedByPlacing(o, p) == buy[o].status \notin {"none", "cancelled"} /\ buy[o].created = p

\* The report counts what is not cancelled, by the month of payment, and an order that
\* is not paid by the month it was placed in.
Counted(o, p) ==
  /\ buy[o].status \notin {"none", "cancelled"}
  /\ (IF buy[o].paid # Never THEN buy[o].paid ELSE buy[o].created) = p

\* grossProfit: from the orders; what comes back is read from a table that no live code
\* writes.
Report(p) ==
  LET sold == {o \in Buys : Counted(o, p)} IN
  [revenue |-> GoodsNet * Cardinality(sold), shipping |-> Fare * Cardinality(sold),
   cogs |-> SumFunctionOnSet([o \in Buys |-> buy[o].cost], sold)]

\* ... and what it holds against it: sales less delivery, and the cost of goods.
LedgerRevenue(p) == -ledger[p]["sales"] - Report(p).shipping
Difference(p) == LedgerRevenue(p) - Report(p).revenue + (ledger[p]["cogs"] - Report(p).cogs)

\* profitLoss of the month: every account of revenue, less the cost of goods.
GrossOfLedger(p) ==
  LET own == ledger[p] IN
  -(own["sales"] + own["salesReturn"] + own["feeIncome"]) - own["cogs"]

-----------------------------------------------------------------------------
(* Properties.                                                                *)

LedgerTypeOK ==
  /\ month \in Periods /\ settling \in [Buys -> Periods \cup {Never}]
  /\ giveBack \in [Buys -> {"no", "received", "refunded"}]
  /\ \A o \in Buys : buy[o].status \in {"none", "pending_payment", "paid", "cancelled"}
  /\ \A p \in Periods : ledger[p] \in [Accounts -> Int]

\* A month in which nothing happened but sales: no order that was placed in it waits,
\* none that was paid in it was called off, no return or reversal was booked, and no
\* settlement ran over its end.
OnlySales(p) ==
  /\ \A o \in Buys :
       /\ buy[o].status = "pending_payment" => buy[o].created # p
       /\ buy[o].status = "cancelled" => buy[o].paid # p
       /\ entryOf[o]["return"].month # p
       /\ buy[o].paid # entryOf[o]["sale"].month => p \notin {buy[o].paid, entryOf[o]["sale"].month}
  /\ reversals = [o \in Buys |-> [d \in Documents |-> 0]]

\* Orders and ledger are written in one transaction, so that in such a month the report
\* of the gross profit, its control and the profit and loss say the same.
ProfitAgrees ==
  \A p \in Periods : OnlySales(p) =>
    /\ LedgerRevenue(p) = Report(p).revenue /\ ledger[p]["cogs"] = Report(p).cogs
    /\ Difference(p) = 0
    /\ GrossOfLedger(p) = Report(p).revenue + Report(p).shipping - Report(p).cogs

Balance(a) == SumFunction([p \in Periods |-> ledger[p][a]])
NothingReversed == \A o \in Buys, d \in Documents : reversals[o][d] = 0

\* What is owed to customers whose goods came back is in the books until it is paid,
\* and the tax owed is that of the goods that stayed with their buyers.
DebtsAreBooked ==
  NothingReversed =>
    /\ -Balance("refundPayable") >=
         (GoodsNet + GoodsVat - ReturnFee) * Cardinality({o \in Buys : giveBack[o] = "received"})
    /\ -Balance("vatPayable") =
         GoodsVat * Cardinality({o \in Buys : buy[o].paid # Never /\ giveBack[o] = "no"})

LedgerHolds == LedgerTypeOK /\ ProfitAgrees /\ DebtsAreBooked

\* What the head of gross-profit.ts says (18-19), and the code does not do: what came
\* back is taken from revenue and from cost.
RefundedIsSubtracted ==
  \A p \in Periods : NothingReversed /\ (\A o \in Buys : buy[o].status \in {"none", "paid"})
    /\ (\A o \in Buys : entryOf[o]["return"].month = p => entryOf[o]["sale"].month = p)
    /\ (\E o \in Buys : entryOf[o]["return"].month = p) =>
       Report(p).revenue = -ledger[p]["sales"] - ledger[p]["salesReturn"] - Report(p).shipping

\* What its comment says of the control (24-27): a disagreement is seen.  Two may
\* cancel out.
DisagreementIsSeen ==
  \A p \in Periods : Difference(p) = 0 => LedgerRevenue(p) = Report(p).revenue

\* An entry is reversed once.
ReversedOnce == \A o \in Buys, d \in Documents : reversals[o][d] <= 1

\* After its refund nothing is owed for a return; a smaller amount by hand, and a
\* credit, leave the rest on the account.
RefundSettles ==
  NothingReversed /\ (\A o \in Buys : giveBack[o] # "received") => Balance("refundPayable") = 0
=============================================================================
