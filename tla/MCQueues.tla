------------------------------ MODULE MCQueues -------------------------------
(* The three queues with workers that overlap and die: events, texts and tax  *)
(* documents, each by itself and under its own fairness.  They share no row.  *)
EXTENDS Outbox, SmsQueue, TaxQueue

NoNotes == [d \in {} |-> 0]

VARIABLE part

queueVars == <<part, vars, smsVars, taxVars>>

MCQueuesInit ==
  /\ part \in {"outbox", "sms", "tax"} /\ Init /\ SmsInit /\ TaxInit
  /\ part # "sms" => smsOn

\* Bound: of two events the younger one fails at its first attempt only.
YoungerFailsOnce ==
  \A b \in Batches : at'[b] = "failed" => 1 \in batch'[b] \/ seen'[b][2] = 0

MCQueuesNext ==
  /\ UNCHANGED part
  /\ \/ part = "outbox" /\ Next /\ YoungerFailsOnce /\ UNCHANGED <<smsVars, taxVars>>
     \/ part = "sms" /\ SmsNext /\ UNCHANGED <<vars, taxVars>>
     \/ part = "tax" /\ TaxNext /\ UNCHANGED <<vars, smsVars>>

\* A queue is run as its workers run it; the others are not looked at.
MCQueuesSpec ==
  /\ MCQueuesInit /\ [][MCQueuesNext]_queueVars
  /\ \/ part = "outbox" /\ OutboxFairness
     \/ part = "sms" /\ SmsFairness
     \/ part = "tax" /\ TaxFairness

\* Although workers die, leases run out and answers are lost, every invoice gets its
\* verdict, and every text is sent or given up, or is one of those that the code strands:
\* the last attempt of such a text died or was overtaken, and only the admin's requeue
\* frees it.  Texts whose rounds end in time never wait for ever.
QueuesDrain == TextsSettle /\ InvoicesConclude
=============================================================================
