------------------------------ MODULE Payments ------------------------------
(* PaymentService of packages/payments/src/index.ts on top of the orders: a   *)
(* payment is started at a gateway, the customer pays or not on the bank's    *)
(* page, and the server verifies.  Verifying keeps the payment's row locked   *)
(* while the gateway is asked, and settles the order in the same transaction. *)
(*                                                                            *)
(* The bank is outside the program: its session opens when a payment is       *)
(* started, and it takes the money when it is asked to verify a session the   *)
(* customer has authorised.  Asking again gives the same answer (code 101).   *)
(* A call of verify may name another gateway than the payment's, and the      *)
(* sandbox takes the call's own word for an answer.                           *)
EXTENDS Orders

CONSTANTS Payments,  \* identities available for rows of payments
          NoOrder

ASSUME PaymentsAssumption == NoOrder \notin Orders

VARIABLES payStatus,  \* payments.status, "starting" while start asks the
                      \* gateway and "none" before
          payOrder,   \* payments.order_id
          verifying,  \* the verify transaction that holds the lock of the row:
                      \* "no", "asking" a gateway, or its answer: "accepted",
                      \* "refused" or, by the sandbox, "simulated"
          refId,      \* payments.ref_id: "none", "bank", or the sandbox's "SIM"
          bank        \* the bank's side: "none", "open", "authorised",
                      \* "declined", "captured", or "desk" for other money

payVars == <<payStatus, payOrder, verifying, refId, bank>>
allVars == <<vars, payVars>>

PayInit ==
  /\ Init
  /\ payStatus = [p \in Payments |-> "none"]
  /\ payOrder = [p \in Payments |-> NoOrder]
  /\ verifying = [p \in Payments |-> "no"]
  /\ refId = [p \in Payments |-> "none"]
  /\ bank = [p \in Payments |-> "none"]

-----------------------------------------------------------------------------
(* start: the order is read, the gateway is called, the row is inserted.      *)
(* Nothing is locked, so the order may change on the way.                     *)

StartReads(p, o) ==
  /\ payStatus[p] = "none"
  /\ status[o] \notin {"none", "paid", "cancelled"}
  /\ payStatus' = [payStatus EXCEPT ![p] = "starting"]
  /\ payOrder'  = [payOrder EXCEPT ![p] = o]
  /\ UNCHANGED <<vars, verifying, refId, bank>>

StartInserts(p) ==
  /\ payStatus[p] = "starting"
  /\ payStatus' = [payStatus EXCEPT ![p] = "pending"]
  /\ bank'      = [bank EXCEPT ![p] = "open"]
  /\ UNCHANGED <<vars, payOrder, verifying, refId>>

\* The gateway refuses or does not answer.
StartFails(p) ==
  /\ payStatus[p] = "starting"
  /\ payStatus' = [payStatus EXCEPT ![p] = "none"]
  /\ payOrder'  = [payOrder EXCEPT ![p] = NoOrder]
  /\ UNCHANGED <<vars, verifying, refId, bank>>

\* The customer on the bank's page.  The bank does not know of cancellations.
CustomerDecides(p) ==
  /\ bank[p] = "open"
  /\ \E answer \in {"authorised", "declined"} :
       bank' = [bank EXCEPT ![p] = answer]
  /\ UNCHANGED <<vars, payStatus, payOrder, verifying, refId>>

-----------------------------------------------------------------------------
(* verify.                                                                    *)

\* Faulty variant: the status of the locked row is not looked at.
MayAskAgain(p) ==
  verifying[p] = "no" /\ payStatus[p] \in {"pending", "failed", "success"}

\* The lock of the row is free.  A payment that succeeded is answered
\* "already"; one that failed is asked about again.
MayAsk(p) == verifying[p] = "no" /\ payStatus[p] \in {"pending", "failed"}

VerifyLocks(p) ==
  /\ MayAsk(p)
  /\ verifying' = [verifying EXCEPT ![p] = "asking"]
  /\ UNCHANGED <<vars, payStatus, payOrder, refId, bank>>

\* gateway.verify: from here on the bank has the money of an authorised session.
Captures(p) ==
  bank' = [bank EXCEPT ![p] = IF @ = "authorised" THEN "captured" ELSE @]

GatewayAnswers(p) ==
  /\ verifying[p] = "asking"
  /\ Captures(p)
  /\ verifying' = [verifying EXCEPT
       ![p] = IF bank[p] \in {"authorised", "captured"} THEN "accepted" ELSE "refused"]
  /\ UNCHANGED <<vars, payStatus, payOrder, refId>>

\* The call named a gateway that is not the payment's (input.gateway), whose
\* answer says nothing of the bank: the sandbox accepts a call, or a stored
\* decision, that says 'paid', without looking at allowSandbox; the others know
\* no such session and refuse.
OtherGatewayAnswers(p) ==
  /\ verifying[p] = "asking"
  /\ \E answer \in {"simulated", "refused"} :
       verifying' = [verifying EXCEPT ![p] = answer]
  /\ UNCHANGED <<vars, payStatus, payOrder, refId, bank>>

\* The answer is lost or late (12 s): gateway.verify throws and the transaction
\* rolls back, whatever the bank did.
GatewayAnswerLost(p) ==
  /\ verifying[p] = "asking"
  /\ Captures(p) \/ UNCHANGED bank
  /\ verifying' = [verifying EXCEPT ![p] = "no"]
  /\ UNCHANGED <<vars, payStatus, payOrder, refId>>

VerifyFails(p) ==
  /\ verifying[p] = "refused"
  /\ payStatus' = [payStatus EXCEPT ![p] = "failed"]
  /\ verifying' = [verifying EXCEPT ![p] = "no"]
  /\ UNCHANGED <<vars, payOrder, refId, bank>>

\* The gateways' answers that say the payment is made, and the number they give.
Accepts(p) == verifying[p] \in {"accepted", "simulated"}
RefOf(p) == IF verifying[p] = "accepted" THEN "bank" ELSE "SIM"

\* Faulty variant: the conflict of an order that is paid already is swallowed.
VerifySettlesAnyway(p) ==
  /\ Accepts(p)
  /\ \/ ConfirmPaymentOn(payOrder[p])
     \/ ~ Payable(payOrder[p]) /\ UNCHANGED vars
  /\ payStatus' = [payStatus EXCEPT ![p] = "success"]
  /\ refId'     = [refId EXCEPT ![p] = RefOf(p)]
  /\ verifying' = [verifying EXCEPT ![p] = "no"]
  /\ UNCHANGED <<payOrder, bank>>

\* Settlement of the order and success of the payment commit together.
VerifySettles(p) ==
  /\ Accepts(p)
  /\ ConfirmPaymentOn(payOrder[p])
  /\ payStatus' = [payStatus EXCEPT ![p] = "success"]
  /\ refId'     = [refId EXCEPT ![p] = RefOf(p)]
  /\ verifying' = [verifying EXCEPT ![p] = "no"]
  /\ UNCHANGED <<payOrder, bank>>

\* confirmPaymentOn throws (the order is not pending any more), or the process
\* dies: ROLLBACK, the row stays as it was.
VerifyRollsBack(p) ==
  /\ verifying[p] # "no"
  /\ verifying' = [verifying EXCEPT ![p] = "no"]
  /\ UNCHANGED <<vars, payStatus, payOrder, refId, bank>>

\* confirmPayment without a gateway (cash desk, credit, cheque, the sandbox
\* route): it inserts a payment that has succeeded.
PaidAtTheDesk(p, o) ==
  /\ payStatus[p] = "none"
  /\ ConfirmPaymentOn(o)
  /\ payStatus' = [payStatus EXCEPT ![p] = "success"]
  /\ payOrder'  = [payOrder EXCEPT ![p] = o]
  /\ bank'      = [bank EXCEPT ![p] = "desk"]
  /\ UNCHANGED <<verifying, refId>>

-----------------------------------------------------------------------------
Payment(p) ==
  \/ \E o \in Orders : StartReads(p, o) \/ PaidAtTheDesk(p, o)
  \/ StartInserts(p) \/ StartFails(p) \/ CustomerDecides(p)
  \/ VerifyLocks(p) \/ GatewayAnswers(p) \/ OtherGatewayAnswers(p)
  \/ GatewayAnswerLost(p) \/ VerifyFails(p) \/ VerifySettles(p) \/ VerifyRollsBack(p)

\* What else happens to orders; settlement goes through payments only.
PayNext ==
  \/ \E p \in Payments : Payment(p)
  \/ (Create \/ Sweep \/ StockOnly) /\ UNCHANGED payVars
  \/ \E o \in Orders : (Cancel(o) \/ DeadlinePasses(o)) /\ UNCHANGED payVars

PaySpec == PayInit /\ [][PayNext]_allVars

-----------------------------------------------------------------------------
(* Properties.                                                                *)

PayTypeOK ==
  /\ payStatus \in [Payments -> {"none", "starting", "pending", "failed", "success"}]
  /\ payOrder \in [Payments -> Orders \cup {NoOrder}]
  /\ verifying \in [Payments -> {"no", "asking", "accepted", "simulated", "refused"}]
  /\ refId \in [Payments -> {"none", "bank", "SIM"}]
  /\ bank \in [Payments -> {"none", "open", "authorised", "declined", "captured", "desk"}]

Successes(o) == {p \in Payments : payStatus[p] = "success" /\ payOrder[p] = o}

\* An order that is settled has exactly one successful payment, and one that is
\* not has none.  Its money was taken at the desk or is at the bank, unless the
\* receipt is the sandbox's: whose SIM numbers are no money.  (Decisions 2 and 3
\* of the header of payments/src/index.ts: verifying is for once, and goods
\* never leave unpaid, which therefore holds of the real gateways only.)
GoodsHaveTheirMoney ==
  \A o \in Orders :
    /\ \A p, q \in Successes(o) : p = q
    /\ paidAt[o] <=> Successes(o) # {}
    /\ \A p \in Successes(o) : bank[p] \in {"captured", "desk"} \/ refId[p] = "SIM"

\* Money that the bank has captured for an order that can still be settled is
\* never lost sight of: asking again settles the order.
CapturedMoneyCanStillSettle ==
  \A p \in Payments :
    bank[p] = "captured" /\ Payable(payOrder[p])
      => /\ payStatus[p] \in {"pending", "failed"}
         /\ CanConfirm(DefaultWarehouse, items[payOrder[p]])

\* The converse of GoodsHaveTheirMoney, also promised by decision 3: money is
\* never taken without the goods leaving for it.
CapturedMoneyBuysGoods ==
  \A p \in Payments :
    bank[p] = "captured" /\ verifying[p] = "no" /\ payStatus[p] # "success"
      => Payable(payOrder[p])

\* A payment that has succeeded is final.
SuccessIsFinal ==
  [][\A p \in Payments :
       payStatus[p] = "success" =>
         /\ payStatus'[p] = "success" /\ payOrder'[p] = payOrder[p]
         /\ verifying'[p] = "no"]_allVars

=============================================================================
