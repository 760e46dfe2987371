--------------------------- MODULE PaymentsProofs ---------------------------
(* Proofs about Payments: the composition is a refinement of the orders, so   *)
(* what is proved of Orders holds with payments, and goods and money match.   *)
EXTENDS Payments, OrdersProofs

\* Who holds a row's lock, and for which order: what the verify transaction
\* relies on between its steps.
Locks ==
  /\ PayTypeOK
  /\ \A p \in Payments : payStatus[p] # "none" => payOrder[p] \in Orders
  /\ \A p \in Payments :
       verifying[p] # "no" => payStatus[p] \in {"pending", "failed"}
  /\ \A p \in Payments : verifying[p] = "accepted" => bank[p] = "captured"
  /\ \A p \in Payments : payStatus[p] \in {"none", "starting"} => bank[p] = "none"

\* The strengthening of GoodsHaveTheirMoney.  Shelves says that a settled order
\* cannot be settled again.
Books == Shelves /\ Locks /\ GoodsHaveTheirMoney

LEMMA BooksInit == PayInit => Books
<1> SUFFICES ASSUME PayInit PROVE Books
  OBVIOUS
<1>1. Shelves
  BY ShelvesInit DEF PayInit
<1>2. Locks
  BY DEF PayInit, Locks, PayTypeOK
<1>3. GoodsHaveTheirMoney
  BY DEF PayInit, Init, GoodsHaveTheirMoney, Successes
<1> QED
  BY <1>1, <1>2, <1>3 DEF Books

LEMMA LocksStep ==
  ASSUME Locks, [PayNext]_allVars
  PROVE  Locks'
<1> USE DEF Locks, PayTypeOK
<1>1. ASSUME NEW p \in Payments, NEW o \in Orders, StartReads(p, o)
      PROVE  Locks'
  BY <1>1 DEF StartReads
<1>2. ASSUME NEW p \in Payments, NEW o \in Orders, PaidAtTheDesk(p, o)
      PROVE  Locks'
  BY <1>2 DEF PaidAtTheDesk
<1>3. ASSUME NEW p \in Payments, StartInserts(p) PROVE Locks'
  BY <1>3 DEF StartInserts
<1>4. ASSUME NEW p \in Payments, StartFails(p) PROVE Locks'
  BY <1>4, PaymentsAssumption DEF StartFails
<1>5. ASSUME NEW p \in Payments, CustomerDecides(p) PROVE Locks'
  BY <1>5 DEF CustomerDecides
<1>6. ASSUME NEW p \in Payments, VerifyLocks(p) PROVE Locks'
  BY <1>6 DEF VerifyLocks, MayAsk
<1>7. ASSUME NEW p \in Payments, GatewayAnswers(p) PROVE Locks'
  BY <1>7 DEF GatewayAnswers, Captures
<1>13. ASSUME NEW p \in Payments, OtherGatewayAnswers(p) PROVE Locks'
  BY <1>13 DEF OtherGatewayAnswers
<1>8. ASSUME NEW p \in Payments, GatewayAnswerLost(p) PROVE Locks'
  BY <1>8 DEF GatewayAnswerLost, Captures
<1>9. ASSUME NEW p \in Payments, VerifyFails(p) PROVE Locks'
  BY <1>9 DEF VerifyFails
<1>10. ASSUME NEW p \in Payments, VerifySettles(p) PROVE Locks'
  BY <1>10 DEF VerifySettles, Accepts, RefOf
<1>11. ASSUME NEW p \in Payments, VerifyRollsBack(p) PROVE Locks'
  BY <1>11 DEF VerifyRollsBack
<1>12. CASE UNCHANGED payVars
  BY <1>12 DEF payVars
<1> QED
  BY <1>1, <1>2, <1>3, <1>4, <1>5, <1>6, <1>7, <1>8, <1>9, <1>10, <1>11, <1>12,
     <1>13
  DEF PayNext, Payment, allVars

\* Every step of the composition is a step of the orders, or none.
LEMMA PayStepIsOrderStep ==
  ASSUME Locks, [PayNext]_allVars
  PROVE  [Next]_vars
<1>1. ASSUME NEW p \in Payments, Payment(p)
      PROVE  [Next]_vars
  <2>1. CASE UNCHANGED vars
    BY <2>1
  <2>2. ASSUME NEW o \in Orders, ConfirmPaymentOn(o)
        PROVE  Next
    BY <2>2 DEF Next
  <2>3. CASE VerifySettles(p)
    <3>1. payOrder[p] \in Orders
      BY <2>3 DEF VerifySettles, Accepts, Locks
    <3> QED
      BY <2>2, <2>3, <3>1 DEF VerifySettles
  <2>4. ASSUME NEW o \in Orders, PaidAtTheDesk(p, o)
        PROVE  Next
    BY <2>2, <2>4 DEF PaidAtTheDesk
  <2> QED
    BY <1>1, <2>1, <2>3, <2>4
    DEF Payment, StartReads, StartInserts, StartFails, CustomerDecides,
        VerifyLocks, GatewayAnswers, OtherGatewayAnswers, GatewayAnswerLost,
        VerifyFails, VerifyRollsBack
<1>2. CASE \E o \in Orders : Cancel(o) \/ DeadlinePasses(o)
  BY <1>2 DEF Next
<1>3. CASE Create \/ Sweep \/ StockOnly \/ UNCHANGED vars
  BY <1>3 DEF Next
<1> QED
  BY <1>1, <1>2, <1>3 DEF PayNext, allVars

\* Steps that neither settle an order nor make a payment succeed.
LEMMA MoneyUndisturbed ==
  ASSUME GoodsHaveTheirMoney, UNCHANGED paidAt,
         \A p \in Payments :
           /\ payStatus'[p] = "success" <=> payStatus[p] = "success"
           /\ payStatus[p] = "success" => payOrder'[p] = payOrder[p]
           /\ bank[p] \in {"captured", "desk"} => bank'[p] = bank[p]
           /\ payStatus[p] = "success" => refId'[p] = refId[p]
  PROVE  GoodsHaveTheirMoney'
<1>1. \A o \in Orders : Successes(o)' = Successes(o)
  BY DEF Successes
<1>2. \A o \in Orders : \A p \in Successes(o) :
        bank'[p] \in {"captured", "desk"} \/ refId'[p] = "SIM"
  BY DEF GoodsHaveTheirMoney, Successes
<1> QED
  BY <1>1, <1>2 DEF GoodsHaveTheirMoney

\* A settlement: the order was payable, so no payment of it had succeeded.
LEMMA MoneySettles ==
  ASSUME Books, NEW p \in Payments, NEW o \in Orders, ConfirmPaymentOn(o),
         payStatus[p] # "success",
         payStatus' = [payStatus EXCEPT ![p] = "success"],
         payOrder' = [payOrder EXCEPT ![p] = o],
         \A q \in Payments \ {p} : bank'[q] = bank[q] /\ refId'[q] = refId[q],
         bank'[p] \in {"captured", "desk"} \/ refId'[p] = "SIM"
  PROVE  GoodsHaveTheirMoney'
<1>0. /\ payStatus \in [Payments -> {"none", "starting", "pending", "failed", "success"}]
      /\ payOrder \in [Payments -> Orders \cup {NoOrder}]
      /\ paidAt \in [Orders -> BOOLEAN]
      /\ paidAt' = [paidAt EXCEPT ![o] = TRUE]
  BY DEF Books, Locks, PayTypeOK, Shelves, Safe, TypeOK, ConfirmPaymentOn
<1>1. ~ paidAt[o]
  BY DEF Books, Shelves, Settled, ConfirmPaymentOn, Payable
<1>2. Successes(o) = {}
  BY <1>1 DEF Books, GoodsHaveTheirMoney
<1>3. Successes(o)' = {p}
  BY <1>0, <1>2 DEF Successes
<1>4. ASSUME NEW x \in Orders, x # o
      PROVE  Successes(x)' = Successes(x) /\ paidAt'[x] = paidAt[x]
  BY <1>0, <1>4 DEF Successes
<1>5. \A x \in Orders : p \notin Successes(x)
  BY DEF Successes
<1>6. ASSUME NEW x \in Orders
      PROVE  /\ \A q, r \in Successes(x)' : q = r
             /\ paidAt'[x] <=> Successes(x)' # {}
             /\ \A q \in Successes(x)' :
                  bank'[q] \in {"captured", "desk"} \/ refId'[q] = "SIM"
  <2>1. CASE x = o
    BY <1>0, <1>3, <2>1
  <2>2. CASE x # o
    <3>1. \A q \in Successes(x) : q \in Payments \ {p}
      BY <1>5 DEF Successes
    <3> QED
      BY <1>4, <2>2, <3>1 DEF Books, GoodsHaveTheirMoney
  <2> QED
    BY <2>1, <2>2
<1> QED
  BY <1>6 DEF GoodsHaveTheirMoney

LEMMA MoneyStep ==
  ASSUME Books, [PayNext]_allVars
  PROVE  GoodsHaveTheirMoney'
<1> USE DEF Books, Locks, PayTypeOK
<1>1. ASSUME NEW p \in Payments, NEW o \in Orders, StartReads(p, o)
      PROVE  GoodsHaveTheirMoney'
  BY <1>1, MoneyUndisturbed DEF StartReads, vars, rowVars
<1>2. ASSUME NEW p \in Payments, NEW o \in Orders, PaidAtTheDesk(p, o)
      PROVE  GoodsHaveTheirMoney'
  BY <1>2, MoneySettles DEF PaidAtTheDesk
<1>3. ASSUME NEW p \in Payments,
             \/ StartInserts(p) \/ StartFails(p) \/ CustomerDecides(p)
      PROVE  GoodsHaveTheirMoney'
  <2>2. CASE StartInserts(p)
    <3>1. \A q \in Payments : payStatus'[q] = "success" <=> payStatus[q] = "success"
      BY <2>2 DEF StartInserts
    <3>2. \A q \in Payments :
            payStatus[q] = "success" => bank'[q] = bank[q] /\ refId'[q] = refId[q]
      BY <2>2 DEF StartInserts
    <3>3. UNCHANGED <<paidAt, payOrder>>
      BY <2>2 DEF StartInserts, vars, rowVars
    <3>4. \A x \in Orders : Successes(x)' = Successes(x)
      BY <3>1, <3>3 DEF Successes
    <3> QED
      BY <3>2, <3>3, <3>4 DEF GoodsHaveTheirMoney, Successes
  <2>3. CASE StartFails(p)
    BY <2>3, MoneyUndisturbed DEF StartFails, vars, rowVars
  <2>4. CASE CustomerDecides(p)
    BY <2>4, MoneyUndisturbed DEF CustomerDecides, vars, rowVars
  <2> QED
    BY <1>3, <2>2, <2>3, <2>4
<1>4. ASSUME NEW p \in Payments,
             \/ VerifyLocks(p) \/ VerifyFails(p) \/ VerifyRollsBack(p)
      PROVE  GoodsHaveTheirMoney'
  BY <1>4, MoneyUndisturbed
  DEF VerifyLocks, VerifyFails, VerifyRollsBack, vars, rowVars
<1>5. ASSUME NEW p \in Payments,
             GatewayAnswers(p) \/ OtherGatewayAnswers(p) \/ GatewayAnswerLost(p)
      PROVE  GoodsHaveTheirMoney'
  BY <1>5, MoneyUndisturbed
  DEF GatewayAnswers, OtherGatewayAnswers, GatewayAnswerLost, Captures, vars, rowVars
<1>6. ASSUME NEW p \in Payments, VerifySettles(p)
      PROVE  GoodsHaveTheirMoney'
  <2>1. /\ payOrder[p] \in Orders /\ payStatus[p] # "success"
        /\ bank[p] = "captured" \/ refId'[p] = "SIM"
    BY <1>6 DEF VerifySettles, Accepts, RefOf
  <2>2. payOrder' = [payOrder EXCEPT ![p] = payOrder[p]]
    BY <1>6 DEF VerifySettles
  <2> QED
    BY <1>6, <2>1, <2>2, MoneySettles DEF VerifySettles
<1>7. ASSUME UNCHANGED payVars, UNCHANGED paidAt
      PROVE  GoodsHaveTheirMoney'
  BY <1>7, MoneyUndisturbed DEF payVars
<1>8. CASE Create /\ UNCHANGED payVars
  BY <1>7, <1>8 DEF Create, CreateBegins, CreateCommits, CreateRollsBack,
                    CreateWithoutKey, PlaceOrder, rowVars
<1>9. ASSUME NEW o \in Orders, Cancel(o) \/ DeadlinePasses(o), UNCHANGED payVars
      PROVE  GoodsHaveTheirMoney'
  BY <1>7, <1>9 DEF Cancel, DeadlinePasses
<1>10. CASE Sweep /\ UNCHANGED payVars
  BY <1>7, <1>10 DEF Sweep, SweepSelects, SweepReleases, SweepDies, rowVars
<1>11. CASE StockOnly /\ UNCHANGED payVars
  BY <1>7, <1>11 DEF StockOnly, rowVars
<1>12. CASE UNCHANGED allVars
  BY <1>7, <1>12 DEF allVars, vars, rowVars
<1> QED
  BY <1>1, <1>2, <1>3, <1>4, <1>5, <1>6, <1>8, <1>9, <1>10, <1>11, <1>12
  DEF PayNext, Payment

LEMMA BooksStep == Books /\ [PayNext]_allVars => Books'
<1> SUFFICES ASSUME Books, [PayNext]_allVars PROVE Books'
  OBVIOUS
<1>1. Shelves'
  BY PayStepIsOrderStep, ShelvesStep DEF Books
<1> QED
  BY <1>1, LocksStep, MoneyStep DEF Books

\* With payments, gateways and crashes the orders still behave as Orders says:
\* all that is proved of Spec holds of the composition.
THEOREM PaymentsKeepOrders == PaySpec => Spec
<1>1. Books /\ [PayNext]_allVars => [Next]_vars
  BY PayStepIsOrderStep DEF Books
<1>2. PayInit => Init
  BY DEF PayInit
<1> QED
  BY <1>1, <1>2, BooksInit, BooksStep, PTL DEF PaySpec, Spec

\* So the payments keep the promise of Allocation: with banks that answer late, twice or
\* not at all, goods leave the shelf for the order that held them, and for no other.
THEOREM PaymentsImplementAllocation ==
  ASSUME WebShopOnly
  PROVE  PaySpec => ImplementsAllocation
BY PaymentsKeepOrders, OrdersImplementAllocation

\* An order is settled exactly when one payment of it, and only one, has
\* succeeded, and that payment's money is there or its receipt is the sandbox's:
\* calls that name another gateway, sweepers and branch orders, double callbacks,
\* lost answers and crashes included.
THEOREM GoodsAndMoneyMatch == PaySpec => []GoodsHaveTheirMoney
<1>1. Books => GoodsHaveTheirMoney
  BY DEF Books
<1> QED
  BY <1>1, BooksInit, BooksStep, PTL DEF PaySpec

LEMMA SuccessStays ==
  ASSUME Locks, [PayNext]_allVars, NEW p \in Payments, payStatus[p] = "success"
  PROVE  payStatus'[p] = "success" /\ payOrder'[p] = payOrder[p] /\ verifying'[p] = "no"
<1> USE DEF Locks, PayTypeOK
<1>0. verifying[p] = "no"
  OBVIOUS
<1>1. ASSUME NEW q \in Payments, Payment(q)
      PROVE  /\ payStatus'[p] = "success" /\ payOrder'[p] = payOrder[p]
             /\ verifying'[p] = "no"
  BY <1>0, <1>1
  DEF Payment, StartReads, StartInserts, StartFails, CustomerDecides, VerifyLocks,
      MayAsk, GatewayAnswers, OtherGatewayAnswers, GatewayAnswerLost, VerifyFails, VerifySettles,
      Accepts, VerifyRollsBack, PaidAtTheDesk
<1>2. CASE UNCHANGED payVars
  BY <1>0, <1>2 DEF payVars
<1> QED
  BY <1>1, <1>2 DEF PayNext, allVars

\* A payment that has succeeded is final: no later callback reopens it.
THEOREM SuccessNeverReopens == PaySpec => SuccessIsFinal
<1>1. Books /\ [PayNext]_allVars
        => [\A p \in Payments :
              payStatus[p] = "success" =>
                /\ payStatus'[p] = "success" /\ payOrder'[p] = payOrder[p]
                /\ verifying'[p] = "no"]_allVars
  BY SuccessStays DEF Books
<1> QED
  BY <1>1, BooksInit, BooksStep, PTL DEF PaySpec, SuccessIsFinal

\* Without sweepers and branch orders, money that the bank has captured for an
\* order that can still be settled settles it when verify is called again.
THEOREM CapturedMoneyIsRecoverable ==
  ASSUME WebShopOnly
  PROVE  PaySpec => []CapturedMoneyCanStillSettle
<1>1. Books /\ PaymentNeverStarved => CapturedMoneyCanStillSettle
  <2> SUFFICES ASSUME Books, PaymentNeverStarved, NEW p \in Payments,
                      bank[p] = "captured", Payable(payOrder[p])
               PROVE  /\ payStatus[p] \in {"pending", "failed"}
                      /\ CanConfirm(DefaultWarehouse, items[payOrder[p]])
    BY DEF CapturedMoneyCanStillSettle
  <2>1. payStatus[p] \notin {"none", "starting"}
    BY DEF Books, Locks
  <2>2. payOrder[p] \in Orders
    BY <2>1 DEF Books, Locks
  <2>3. payStatus[p] # "success"
    <3> SUFFICES ASSUME payStatus[p] = "success" PROVE FALSE
      OBVIOUS
    <3>1. p \in Successes(payOrder[p])
      BY DEF Successes
    <3>2. paidAt[payOrder[p]]
      BY <2>2, <3>1 DEF Books, GoodsHaveTheirMoney
    <3> QED
      BY <2>2, <3>2 DEF Books, Shelves, Settled, Payable
  <2> QED
    BY <2>1, <2>2, <2>3 DEF Books, Locks, PayTypeOK, PaymentNeverStarved, Payable
<1>2. PaySpec => []PaymentNeverStarved
  BY PaymentsKeepOrders, NoPaidOrderLacksGoods, PTL
<1> QED
  BY <1>1, <1>2, BooksInit, BooksStep, PTL DEF PaySpec

=============================================================================
