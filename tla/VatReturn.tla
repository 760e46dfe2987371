------------------------------ MODULE VatReturn ------------------------------
(* The quarterly return of the value added tax, packages/tax/src/vat.ts: what *)
(* the month's return counts as sold and as given back, and the bounds of a   *)
(* Jalali month, which the file computes by a formula of its own.  A day is   *)
(* the number of days since 1 Farvardin 1404 (21 March 2025), in UTC, the     *)
(* zone the server runs in; every sale bears one unit of tax.                 *)
EXTENDS Integers, FiniteSetsExt

CONSTANTS VatSales,  \* orders
          Years,     \* the Jalali years looked at, 1404 or later
          BusyDays   \* the days something happens on

ASSUME VatAssumption ==
  /\ IsFiniteSet(VatSales)
  /\ Years \subseteq 1404 .. 1500
  /\ BusyDays \subseteq Nat

VARIABLES today,
          sale       \* of an order: its status, the days of paid_at and of refunded_at,
                     \* and whether a return of it was accepted

vatVars == <<today, sale>>

Cycle == INSTANCE OrderCycle

NoDay  == -1

-----------------------------------------------------------------------------
(* The calendar the dates of the shop are shown in (date-fns-jalali).         *)

LeapYears ==
  {1408, 1412, 1416, 1420, 1424, 1428, 1432, 1436, 1441, 1445, 1449, 1453, 1457, 1461,
   1465, 1469, 1474, 1478, 1482, 1486, 1490, 1494, 1498}

LengthOf(y, m) ==
  CASE m \in 1 .. 6 -> 31 [] m \in 7 .. 11 -> 30 [] m = 12 -> IF y \in LeapYears THEN 30 ELSE 29

FirstOf(y, m) ==
  MapThenSumSet(LAMBDA d : LengthOf(d[1], d[2]),
                {d \in (1404 .. y) \X (1 .. 12) : d[1] < y \/ d[2] < m})

Month(y, m) == FirstOf(y, m) .. FirstOf(y, m) + LengthOf(y, m) - 1

-----------------------------------------------------------------------------
(* The calendar of vat.ts.                                                    *)

IsLeapJalali(y) == ((y + 2346) % 33) + 1 \in {1, 5, 9, 13, 17, 22, 26, 30}

IsLeapGregorian(g) == (g % 4 = 0 /\ g % 100 # 0) \/ g % 400 = 0

\* Date.UTC(g, 2, 21): the 21st of March of g, in years without an exception to every fourth.
March21(g) == 365 * (g - 2025) + (g \div 4 - 506)

DaysBefore(m) == IF m <= 7 THEN (m - 1) * 31 ELSE 186 + (m - 7) * 30

LastDay(m, leap) == IF m <= 6 THEN 31 ELSE IF m <= 11 \/ leap THEN 30 ELSE 29

JalaliToGregorian(y, m, d) ==
  March21(y + 621) + (IF IsLeapGregorian(y + 621) THEN 1 ELSE 0) + DaysBefore(m) + d - 1

\* Faulty variant: Shahrivar ends a day early.
PeriodOfShort(y, m) ==
  JalaliToGregorian(y, m, 1) .. JalaliToGregorian(y, m, LastDay(m + 1, IsLeapJalali(y)))

\* currentJalaliMonth: from the start of the first day to the end of the last.
PeriodOf(y, m) ==
  JalaliToGregorian(y, m, 1) .. JalaliToGregorian(y, m, LastDay(m, IsLeapJalali(y)))

-----------------------------------------------------------------------------
(* vatReturn.                                                                 *)

\* period_sales and period_returns.
CountedSales(y, m) ==
  {s \in VatSales : sale[s].status = "paid" /\ sale[s].paidOn \in PeriodOf(y, m)}

CountedReturns(y, m) == {s \in VatSales : sale[s].refundedOn \in PeriodOf(y, m)}

OutputVat(y, m) == Cardinality(CountedSales(y, m)) - Cardinality(CountedReturns(y, m))

-----------------------------------------------------------------------------
(* What happens to the orders meanwhile.                                      *)

VatInit ==
  /\ today = CHOOSE d \in BusyDays : \A e \in BusyDays : d <= e
  /\ sale = [s \in VatSales |-> [status |-> "pending_payment", paidOn |-> NoDay,
                                 asked |-> FALSE, refundedOn |-> NoDay]]

DayPasses == today' \in {d \in BusyDays : d > today} /\ UNCHANGED sale

\* confirmPaid.
PaidFor(s) ==
  /\ sale[s].status = "pending_payment"
  /\ sale' = [sale EXCEPT ![s].status = "paid", ![s].paidOn = today]
  /\ UNCHANGED today

\* confirm, pack, createShipment and markDelivered each move the one column status on.
Handled(s, to) ==
  /\ sale[s].paidOn # NoDay /\ Cycle!CanTransition(sale[s].status, to)
  /\ sale' = [sale EXCEPT ![s].status = to]
  /\ UNCHANGED today

\* requestReturn: only of an order whose status is "paid".
Asked(s) ==
  /\ sale[s].status = "paid" /\ ~sale[s].asked
  /\ sale' = [sale EXCEPT ![s].asked = TRUE]
  /\ UNCHANGED today

\* refundReturn does not look at the order.
Refunded(s) ==
  /\ sale[s].asked /\ sale[s].refundedOn = NoDay
  /\ sale' = [sale EXCEPT ![s].refundedOn = today]
  /\ UNCHANGED today

VatNext ==
  \/ DayPasses
  \/ \E s \in VatSales :
       \/ PaidFor(s) \/ Asked(s) \/ Refunded(s)
       \/ \E to \in {"confirmed", "packing", "shipped", "delivered"} : Handled(s, to)

VatSpec == VatInit /\ [][VatNext]_vatVars

-----------------------------------------------------------------------------
(* Properties.                                                                *)

\* From the first day that vat.ts takes for one of a year to the last.
TaxYear(y) ==
  JalaliToGregorian(y, 1, 1) .. JalaliToGregorian(y, 12, LastDay(12, IsLeapJalali(y)))

\* The twelve returns of a year leave no day of it out and share none: each sale that is
\* paid in it, and each refund, is counted by one of them; what is not, by none.
CountedOnceAYear ==
  \A s \in VatSales : sale[s].paidOn # NoDay => \A y \in Years :
    LET sold == {m \in 1 .. 12 : s \in CountedSales(y, m)}
        back == {m \in 1 .. 12 : s \in CountedReturns(y, m)}
    IN /\ IF sale[s].status = "paid" /\ sale[s].paidOn \in TaxYear(y)
            THEN \E m \in 1 .. 12 : sold = {m} ELSE sold = {}
       /\ IF sale[s].refundedOn \in TaxYear(y)
            THEN \E m \in 1 .. 12 : back = {m} ELSE back = {}

\* currentJalaliMonth: "the bounds of the month: from the first day to the last of that
\* same Jalali month".  So what a return counts happened in its month, and all of that.
CountedInItsMonth ==
  \A s \in VatSales, y \in Years, m \in 1 .. 12 :
    /\ s \in CountedSales(y, m) <=> sale[s].status = "paid" /\ sale[s].paidOn \in Month(y, m)
    /\ s \in CountedReturns(y, m) <=> sale[s].refundedOn \in Month(y, m)

\* The head of vat.ts: the period goes by the date of payment, "because the tax becomes
\* final with the taking of the money".  So the return of a month declares what was paid
\* in it, less what was paid back in it.
DeclaredIsCollected ==
  \A y \in Years, m \in 1 .. 12 :
    OutputVat(y, m) = Cardinality({s \in VatSales : sale[s].paidOn \in Month(y, m)})
                      - Cardinality({s \in VatSales : sale[s].refundedOn \in Month(y, m)})
=============================================================================
