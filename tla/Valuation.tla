------------------------------ MODULE Valuation ------------------------------
(* What the goods in stock are worth (accounting, with inventory, procurement *)
(* and returns): one variant in one warehouse.  A transaction locks the row   *)
(* of stock_items when it moves goods and keeps it to its end; the moving     *)
(* average is then read without a lock and written whole.                     *)
EXTENDS Integers, FiniteSetsExt

CONSTANTS Bookings,    \* transactions under way at once
          Costs,       \* what a delivery, an invoice or a unit of a receipt may cost
          MaxUnits,    \* bound: units in stock
          MaxMoves     \* bound: transactions that commit

ASSUME ValuationAssumption ==
  /\ Costs \subseteq Nat \ {0} /\ MaxUnits \in Nat \ {0} /\ MaxMoves \in Nat

VARIABLES units,     \* units in stock that purchases, sales and returns account for
          valued,    \* the row of inventory_valuation
          book,      \* balance of account 1000
          afloat,    \* what invoices of requests booked there, less what receipts valued
          booking,   \* of every transaction: what it does and the row it read
          moves,     \* transactions that committed
          slack,     \* units in stock after each delivery, added up
          blind      \* a receipt without sound goods wrote over a row it had not read

valuationVars == <<units, valued, book, afloat, booking, moves, slack, blind>>

NoValue == [quantity |-> 0, average |-> 0]

Booking(at, op, n, cost, saw) == [at |-> at, op |-> op, n |-> n, cost |-> cost, saw |-> saw]

NoBooking == Booking("rest", "none", 0, 0, NoValue)

ValuationInit ==
  /\ units = 0 /\ valued = NoValue /\ book = 0 /\ afloat = 0
  /\ booking = [b \in Bookings |-> NoBooking]
  /\ moves = 0 /\ slack = 0 /\ blind = FALSE

-----------------------------------------------------------------------------
(* Locks.                                                                     *)

\* The row of stock_items is free: only a receipt without sound goods goes without it.
StockIsFree == \A b \in Bookings : booking[b].n = 0

\* The row of inventory_valuation is free: a sale locks it, when it notes the cost.
RowIsFree == \A b \in Bookings : booking[b].op # "sale"

Begins(b, new) ==
  /\ moves < MaxMoves /\ booking[b] = NoBooking
  /\ booking' = [booking EXCEPT ![b] = new]
  /\ UNCHANGED <<units, valued, book, afloat, moves, slack, blind>>

Turns(b, new) ==
  /\ booking' = [booking EXCEPT ![b] = new]
  /\ UNCHANGED <<units, valued, book, afloat, moves, slack, blind>>

Commits(b) ==
  /\ moves < MaxMoves /\ moves' = moves + 1
  /\ booking' = [booking EXCEPT ![b] = NoBooking]

-----------------------------------------------------------------------------
(* Goods that come in.                                                        *)

\* Faulty variant: the valuation is read before the stock is locked.
GoodsComeUnlocked(b, n, cost) ==
  /\ units + n <= MaxUnits
  /\ Begins(b, Booking("value", "purchase", n, cost, NoValue))

\* postPurchaseInvoice of goods that are there: the stock comes first, and the whole
\* cost, with its share of the extra costs, is both valued and booked.
GoodsCome(b, n, cost) ==
  /\ units + n <= MaxUnits /\ StockIsFree
  /\ Begins(b, Booking("value", "purchase", n, cost, NoValue))

\* postPurchaseInvoice of a request (stockEffect 'none'): the account is debited with
\* the subtotal and the extra costs before anything has come.
BooksInvoice(cost) ==
  /\ moves < MaxMoves /\ moves' = moves + 1
  /\ book' = book + cost /\ afloat' = afloat + cost
  /\ UNCHANGED <<units, valued, booking, slack, blind>>

\* receiveGoods with sound goods: these alone are valued, at the cost that the receipt
\* or its invoice names, or none.  Nothing is booked.
ReceiptComes(b, n, unit) ==
  /\ units + n <= MaxUnits /\ StockIsFree
  /\ Begins(b, Booking("value", "receipt", n, unit * n, NoValue))

\* receiveGoods when all that came is damaged: no row of the stock is touched, and
\* the average is computed all the same.
OnlyDamagedGoodsCome(b) ==
  /\ Begins(b, Booking("value", "damaged", 0, 0, NoValue))

\* receiveReturn puts the goods on the shelf ...
GoodsComeBack(b, n) ==
  /\ units + n <= MaxUnits /\ StockIsFree
  /\ Begins(b, Booking("price", "return", n, 0, NoValue))

\* ... and takes them back for the average of the day.
PricesReturn(b) ==
  /\ booking[b].at = "price"
  /\ Turns(b, [booking[b] EXCEPT !.at = "value", !.cost = valued.average * booking[b].n])

\* updateWeightedAverage reads the row ...
ReadsValue(b) ==
  /\ booking[b].at = "value"
  /\ Turns(b, [booking[b] EXCEPT !.at = "write", !.saw = valued])

\* The average of what was there and what came, rounded half up.
NewAverage(saw, n, cost) ==
  LET quantity == saw.quantity + n IN
  IF quantity = 0 THEN 0
  ELSE (saw.average * saw.quantity + cost + quantity \div 2) \div quantity

\* ... and writes quantity and average, whatever the row holds by now; the entry, but
\* for a receipt, and the end of the transaction follow.
WritesValue(b) ==
  LET own == booking[b] IN
  /\ own.at = "write" /\ RowIsFree
  /\ valued' = [quantity |-> own.saw.quantity + own.n,
                average  |-> NewAverage(own.saw, own.n, own.cost)]
  /\ units' = units + own.n
  /\ IF own.op = "receipt" THEN afloat' = afloat - own.cost /\ UNCHANGED book
     ELSE book' = book + own.cost /\ UNCHANGED afloat
  /\ slack' = slack + own.saw.quantity + own.n
  /\ blind' = (blind \/ (own.op = "damaged" /\ own.saw # valued))
  /\ Commits(b)

-----------------------------------------------------------------------------
(* Goods that go out.                                                         *)

\* confirmStock, at the settlement of an order that has the goods reserved: the stock,
\* then the cost of a unit, under the lock of both rows.
GoodsGo(b, n) ==
  /\ n <= units /\ StockIsFree
  /\ Begins(b, Booking("sell", "sale", n, 0, valued))

\* postSaleOn: the cost is read once more, the average stays.
BooksSale(b) ==
  LET own == booking[b] IN
  /\ own.at = "sell"
  /\ valued' = [valued EXCEPT !.quantity = Max({@ - own.n, 0})]
  /\ units' = units - own.n /\ book' = book - valued.average * own.n
  /\ Commits(b) /\ UNCHANGED <<afloat, slack, blind>>

\* A later statement fails or the process dies: the transaction leaves nothing.
BookingFails(b) ==
  /\ booking[b] # NoBooking
  /\ Turns(b, NoBooking)

ValuationNext ==
  \/ \E cost \in Costs : BooksInvoice(cost)
  \/ \E b \in Bookings :
       \/ \E n \in 1 .. MaxUnits :
            \/ \E cost \in Costs : GoodsCome(b, n, cost)
            \/ \E unit \in Costs \cup {0} : ReceiptComes(b, n, unit)
            \/ GoodsComeBack(b, n) \/ GoodsGo(b, n)
       \/ OnlyDamagedGoodsCome(b) \/ PricesReturn(b) \/ ReadsValue(b) \/ WritesValue(b)
       \/ BooksSale(b) \/ BookingFails(b)

ValuationSpec == ValuationInit /\ [][ValuationNext]_valuationVars

-----------------------------------------------------------------------------
(* Properties.                                                                *)

ValuationTypeOK ==
  /\ units \in 0 .. MaxUnits /\ valued \in [quantity : Nat, average : Nat]
  /\ book \in Int /\ afloat \in Int /\ moves \in 0 .. MaxMoves /\ slack \in Nat /\ blind \in BOOLEAN
  /\ \A b \in Bookings :
       /\ booking[b].at \in {"rest", "price", "value", "write", "sell"}
       /\ booking[b].n \in 0 .. MaxUnits /\ booking[b].cost \in Nat

\* The valuation counts the goods that the stock counts.
CountsAgree == valued.quantity = units

\* The valuation and the journal tell the same value, up to half a rial for every unit
\* in stock at each delivery, once what is booked for goods that did not come, or came
\* for another price, is taken off: the extra costs of an invoice and the units that
\* arrive damaged stay in the account for good.
ValuesAgree ==
  2 * (book - afloat - valued.quantity * valued.average) \in -slack .. slack

\* No sale, delivery or return is lost from the valuation although nothing locks its
\* row while an average is computed, and however transactions overlap and fail; unless
\* a receipt brought nothing but damaged goods.
ValuationFollowsStock == ValuationTypeOK /\ (blind \/ (CountsAgree /\ ValuesAgree))

\* The same without the exception.
NoSaleIsForgotten == CountsAgree /\ ValuesAgree

\* "Stock and ledger never drift apart" (confirmPaymentOn), of goods that are there: when
\* no transaction is under way the account is the value of the stock.
AccountIsTheStock ==
  (\A b \in Bookings : booking[b] = NoBooking) =>
    2 * (book - valued.quantity * valued.average) \in -slack .. slack

=============================================================================
