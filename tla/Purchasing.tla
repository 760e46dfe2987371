----------------------------- MODULE Purchasing ------------------------------
(* Buying from a supplier (packages/procurement/src/index.ts, settlement.ts): *)
(* one purchase request that is decided, turned into invoices and received,   *)
(* and the payment of its invoices, by members of the staff at the same time. *)
(* Deciding and invoicing look first and write later; a receipt judges the    *)
(* request in a transaction; a payment holds the row of its invoice.          *)
EXTENDS Integers, Sequences, FiniteSets, Functions

CONSTANTS Staff,       \* members of the staff, each with one call under way
          Lines,       \* lines of the request
          Wanted,      \* quantity of every line
          InvoiceSum,  \* what an invoice of the request comes to
          MaxReceived, \* bound: pieces received of one line
          MaxInvoices, \* bound: invoices posted
          MaxPayments  \* bound: payments made

ASSUME PurchasingAssumption ==
  /\ Wanted \in Nat \ {0} /\ InvoiceSum \in Nat \ {0}
  /\ MaxReceived \in Nat /\ MaxInvoices \in Nat /\ MaxPayments \in Nat

VARIABLES stage,     \* status of the purchase request
          received,  \* received_quantity of every line
          invoices,  \* payable_rial of every invoice, oldest first
          payments,  \* rows of supplier_payments with their cheques
          notes,     \* balance of account 2050, notes payable
          owed,      \* balance of account 2000, accounts payable
          duty       \* of every member of the staff: the call under way

requestVars    == <<stage, received>>
bookVars       == <<invoices, payments, notes, owed>>
purchasingVars == <<requestVars, bookVars, duty>>

Free == [at |-> "free"]

PurchasingInit ==
  /\ stage = "pending_approval" /\ received = [l \in Lines |-> 0]
  /\ invoices = <<>> /\ payments = <<>> /\ notes = 0 /\ owed = 0
  /\ duty = [s \in Staff |-> Free]

On(s, at) == duty[s].at = at

Takes(s, call) == duty' = [duty EXCEPT ![s] = call]

Leaves(s) == Takes(s, Free)

-----------------------------------------------------------------------------
(* The request.                                                               *)

DecideReads(s, verdict) ==
  /\ On(s, "free") /\ stage = "pending_approval"
  /\ Takes(s, [at |-> "decide", verdict |-> verdict]) /\ UNCHANGED <<requestVars, bookVars>>

\* The update asks for no status.
DecideWrites(s) ==
  /\ On(s, "decide") /\ stage' = duty[s].verdict /\ Leaves(s)
  /\ UNCHANGED <<received, bookVars>>

InvoiceReads(s) ==
  /\ On(s, "free") /\ stage = "approved"
  /\ Takes(s, [at |-> "post"]) /\ UNCHANGED <<requestVars, bookVars>>

\* postPurchaseInvoice, a transaction of its own: the invoice and its entry.
InvoicePosts(s) ==
  /\ On(s, "post") /\ Len(invoices) < MaxInvoices
  /\ invoices' = Append(invoices, InvoiceSum) /\ owed' = owed + InvoiceSum
  /\ Takes(s, [at |-> "order"]) /\ UNCHANGED <<requestVars, payments, notes>>

\* The last of three updates, whatever the status is by now.
InvoiceOrders(s) ==
  /\ On(s, "order") /\ stage' = "ordered" /\ Leaves(s)
  /\ UNCHANGED <<received, bookVars>>

-----------------------------------------------------------------------------
(* Receipts.                                                                  *)

Held(s) == IF duty[s].at \in {"receive", "judged"} THEN DOMAIN duty[s].goods ELSE {}

\* receiveGoods updates its lines, whose rows it holds until it ends.  It asks for
\* no status of the request.
ReceiveLines(s, goods) ==
  /\ On(s, "free") /\ \A o \in Staff : Held(o) \cap DOMAIN goods = {}
  /\ \A l \in DOMAIN goods : received[l] + goods[l] <= MaxReceived
  /\ Takes(s, [at |-> "receive", goods |-> goods]) /\ UNCHANGED <<requestVars, bookVars>>

\* No line is short: what others committed, and what this receipt brings.
CompleteWith(s) ==
  \A l \in Lines :
    received[l] + (IF l \in DOMAIN duty[s].goods THEN duty[s].goods[l] ELSE 0) >= Wanted

\* The update of the request finds the lines as they were when it began, also when it
\* waits for another receipt.
ReceiveJudges(s) ==
  /\ On(s, "receive")
  /\ Takes(s, [at |-> "judged", goods |-> duty[s].goods,
               verdict |-> IF CompleteWith(s) THEN "received" ELSE "partially_received"])
  /\ UNCHANGED <<requestVars, bookVars>>

ReceiveCommits(s) ==
  /\ On(s, "judged") /\ stage' = duty[s].verdict /\ Leaves(s)
  /\ received' = [l \in Lines |->
       IF l \in DOMAIN duty[s].goods THEN received[l] + duty[s].goods[l] ELSE received[l]]
  /\ UNCHANGED bookVars

-----------------------------------------------------------------------------
(* Payments.                                                                  *)

Paying(i) == \E s \in Staff : On(s, "pay") /\ duty[s].invoice = i

\* paySupplierInvoice holds the row; more than the rest is refused.
PayReads(s, i, amount, method) ==
  /\ On(s, "free") /\ ~Paying(i) /\ amount <= invoices[i] /\ Len(payments) < MaxPayments
  /\ Takes(s, [at |-> "pay", invoice |-> i, amount |-> amount, method |-> method,
               payable |-> invoices[i]])
  /\ UNCHANGED <<requestVars, bookVars>>

PaymentRow(invoice, amount, method, cleared, cheque) ==
  [invoice |-> invoice, amount |-> amount, method |-> method, cleared |-> cleared,
   cheque |-> cheque]

WithCheque(p, cleared, cheque) == PaymentRow(p.invoice, p.amount, p.method, cleared, cheque)

\* The payment, its entry (2000 against 1200, or against 2050 for a cheque) and the
\* rest of the invoice.
PayCommits(s) ==
  LET p == duty[s] IN
  /\ On(s, "pay") /\ Leaves(s)
  /\ payments' = Append(payments,
       PaymentRow(p.invoice, p.amount, p.method, FALSE, "in_circulation"))
  /\ invoices' = [invoices EXCEPT ![p.invoice] = p.payable - p.amount]
  /\ owed' = owed - p.amount
  /\ notes' = IF p.method = "check" THEN notes + p.amount ELSE notes
  /\ UNCHANGED requestVars

ChequeStates ==
  {"in_circulation", "deposited", "transferred", "settled", "bounced", "void"}

\* validateTransition.
ChequeMoves ==
  {"in_circulation"} \X {"deposited", "settled", "transferred", "bounced", "void"}
    \cup {"deposited", "transferred"} \X {"settled", "bounced"}
    \cup {"bounced"} \X {"settled", "void"}

\* Faulty variant: a cheque that was cleared can be cleared again.
ClearCheckAgain(s, i) ==
  /\ On(s, "free") /\ payments[i].method = "check"
  /\ payments' = [payments EXCEPT ![i] = WithCheque(@, TRUE, "settled")]
  /\ notes' = notes - payments[i].amount
  /\ UNCHANGED <<requestVars, invoices, owed, duty>>

\* clearSupplierCheck: one transaction over the row of the payment.  A cheque that the
\* panel settled or voided already cannot be cleared any more.
ClearSupplierCheck(s, i) ==
  /\ On(s, "free") /\ payments[i].method = "check" /\ ~payments[i].cleared
  /\ <<payments[i].cheque, "settled">> \in ChequeMoves
  /\ payments' = [payments EXCEPT ![i] = WithCheque(@, TRUE, "settled")]
  /\ notes' = notes - payments[i].amount
  /\ UNCHANGED <<requestVars, invoices, owed, duty>>

\* changeCheckStatus of the panel: a look, and an update that asks for nothing.
ChequeReads(s, i, to) ==
  /\ On(s, "free") /\ payments[i].method = "check" /\ <<payments[i].cheque, to>> \in ChequeMoves
  /\ Takes(s, [at |-> "cheque", payment |-> i, to |-> to]) /\ UNCHANGED <<requestVars, bookVars>>

ChequeWrites(s) ==
  /\ On(s, "cheque") /\ Leaves(s)
  /\ payments' = [payments EXCEPT ![duty[s].payment] = WithCheque(@, @.cleared, duty[s].to)]
  /\ UNCHANGED <<requestVars, invoices, notes, owed>>

\* The server dies, or a statement fails: an open transaction is rolled back.
DutyDies(s) == ~On(s, "free") /\ Leaves(s) /\ UNCHANGED <<requestVars, bookVars>>

-----------------------------------------------------------------------------
PurchasingNext == \E s \in Staff :
  \/ \E verdict \in {"approved", "rejected"} : DecideReads(s, verdict)
  \/ DecideWrites(s) \/ InvoiceReads(s) \/ InvoicePosts(s) \/ InvoiceOrders(s)
  \/ \E L \in SUBSET Lines \ {{}} : \E goods \in [L -> 0 .. Wanted] : ReceiveLines(s, goods)
  \/ ReceiveJudges(s) \/ ReceiveCommits(s)
  \/ \E i \in DOMAIN invoices, amount \in 1 .. InvoiceSum, method \in {"bank", "check"} :
       PayReads(s, i, amount, method)
  \/ PayCommits(s) \/ ChequeWrites(s) \/ DutyDies(s)
  \/ \E i \in DOMAIN payments : ClearSupplierCheck(s, i)
       \/ \E to \in ChequeStates : ChequeReads(s, i, to)

PurchasingSpec == PurchasingInit /\ [][PurchasingNext]_purchasingVars

-----------------------------------------------------------------------------
(* Properties.                                                                *)

RequestStates ==
  {"pending_approval", "approved", "rejected", "ordered", "partially_received", "received"}

PaymentTypes == [invoice : 1 .. MaxInvoices, amount : 1 .. InvoiceSum,
                 method : {"bank", "check"}, cleared : BOOLEAN,
                 cheque : ChequeStates]

\* Types; no invoice is paid below nothing.
PurchasingTypeOK ==
  /\ stage \in RequestStates /\ received \in [Lines -> 0 .. MaxReceived]
  /\ invoices \in Seq(0 .. InvoiceSum) /\ Len(invoices) <= MaxInvoices
  /\ payments \in Seq(PaymentTypes) /\ notes \in Nat /\ owed \in Nat

PaidBy(rows) == SumFunctionOnSet([n \in DOMAIN payments |-> payments[n].amount], rows)

\* What an invoice still asks for, and what was paid on it, is what it came to, whoever
\* pays it at the same time.
InvoiceAddsUp ==
  \A i \in DOMAIN invoices :
    invoices[i] + PaidBy({n \in DOMAIN payments : payments[n].invoice = i}) = InvoiceSum

\* The books agree with the invoices: accounts payable are what the invoices ask for.
OwedIsPayable == owed = SumFunction(invoices)

\* Notes payable are the cheques that no bank has paid yet.
NotesAreUncleared ==
  notes = PaidBy({n \in DOMAIN payments : payments[n].method = "check" /\ ~payments[n].cleared})

\* A request that was received misses nothing.
ReceivedMeansComplete == stage = "received" => \A l \in Lines : received[l] >= Wanted

\* The ledger and the invoices tell the same story, and no request is closed that still
\* misses something, whoever pays, clears or moves a cheque or receives goods at the
\* same time.
PurchasingHolds ==
  PurchasingTypeOK /\ InvoiceAddsUp /\ OwedIsPayable /\ NotesAreUncleared /\ ReceivedMeansComplete

\* "With every receipt the status moves on by itself" (migration 014): a request that
\* misses nothing, with nobody at work on it, was received.
CompleteMeansReceived ==
  (\A l \in Lines : received[l] >= Wanted) /\ (\A s \in Staff : duty[s] = Free)
    => stage = "received"

\* A request becomes one invoice.
OneInvoicePerRequest == Len(invoices) <= 1

\* "Settled" ends the life of a cheque (validateTransition).
SettledIsFinal ==
  [][\A i \in DOMAIN payments :
       payments[i].cheque = "settled" => payments'[i].cheque = "settled"]_payments

=============================================================================
