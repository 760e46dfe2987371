----------------------------- MODULE Allocation -----------------------------
(* What the shop promises about its goods, without counters, deadlines or     *)
(* idempotency keys: an order is placed only when the stock covers it on top  *)
(* of everything already held; from then on its units are its own until it is *)
(* settled, when they leave the stock, or dropped, when they can be sold      *)
(* again.  A settled order may be called off; its units do not come back.     *)
EXTENDS Integers, FiniteSets

CONSTANTS Orders, Variants, MaxQty

VARIABLES stock,  \* units of a variant on the shelf
          phase,  \* "none" | "held" | "sold" | "dropped"
          basket  \* units of each variant an order asks for

vars == <<stock, phase, basket>>

Baskets == [Variants -> 0 .. MaxQty]

Held == {o \in Orders : phase[o] = "held"}

\* The number of units of v that the held orders ask for together.
HeldUnits(v) ==
  Cardinality({u \in Held \X (1 .. MaxQty) : u[2] <= basket[u[1]][v]})

Init ==
  /\ stock \in [Variants -> Nat]
  /\ phase = [o \in Orders |-> "none"]
  /\ basket = [o \in Orders |-> [v \in Variants |-> 0]]

Place(o, b) ==
  /\ phase[o] = "none"
  /\ \A v \in Variants : HeldUnits(v) + b[v] <= stock[v]
  /\ phase'  = [phase EXCEPT ![o] = "held"]
  /\ basket' = [basket EXCEPT ![o] = b]
  /\ UNCHANGED stock

Settle(o) ==
  /\ phase[o] = "held"
  /\ stock' = [v \in Variants |-> stock[v] - basket[o][v]]
  /\ phase' = [phase EXCEPT ![o] = "sold"]
  /\ UNCHANGED basket

Drop(o) ==
  /\ phase[o] = "held"
  /\ phase' = [phase EXCEPT ![o] = "dropped"]
  /\ UNCHANGED <<stock, basket>>

CallOff(o) ==
  /\ phase[o] = "sold"
  /\ phase' = [phase EXCEPT ![o] = "dropped"]
  /\ UNCHANGED <<stock, basket>>

\* Goods come in, are moved, returned to a supplier or found missing; never
\* goods that an order holds.
Restock ==
  /\ stock' \in [Variants -> Nat]
  /\ \A v \in Variants : HeldUnits(v) <= stock'[v]
  /\ UNCHANGED <<phase, basket>>

Next ==
  \/ \E o \in Orders :
       \/ \E b \in Baskets : Place(o, b)
       \/ Settle(o) \/ Drop(o) \/ CallOff(o)
  \/ Restock

Spec == Init /\ [][Next]_vars

=============================================================================
