----------------------------- MODULE OrderCycle -----------------------------
(* The order cycle of packages/orders/src/cycle.ts: the statuses of an order  *)
(* and the table of the moves the shop calls legal.                           *)

Statuses ==
  {"pending_payment", "paid", "confirmed", "packing", "processing", "shipped",
   "delivered", "cancelled", "refunded", "returned"}

\* TRANSITIONS: the statuses an order may move to from each status.
Transitions ==
  [pending_payment |-> {"paid", "cancelled"},
   paid            |-> {"confirmed", "packing", "cancelled", "refunded"},
   confirmed       |-> {"packing", "cancelled", "refunded"},
   packing         |-> {"shipped", "confirmed", "cancelled", "refunded"},
   processing      |-> {"packing", "shipped", "cancelled"},
   shipped         |-> {"delivered", "returned"},
   delivered       |-> {"returned"},
   cancelled       |-> {},
   refunded        |-> {},
   returned        |-> {}]

\* canTransition: the guard that assertTransition turns into a CONFLICT error.
CanTransition(from, to) == from \in Statuses /\ to \in Transitions[from]

=============================================================================
