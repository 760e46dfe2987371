------------------------------- MODULE Stock --------------------------------
(* The stock_items table: goods on the shelf and goods promised to orders,    *)
(* per warehouse and variant.  The order service reserves, confirms and       *)
(* releases whole baskets inside its own transactions, so those three are     *)
(* operators on the table; the back-office operations are actions.            *)
(*                                                                            *)
(* A basket maps each variant to the quantity ordered.  Lines of one order    *)
(* that name the same variant are summed: the loops of inventory/src/index.ts *)
(* apply conditional updates one line after the other in one transaction,     *)
(* which succeeds exactly when the sum does and leaves the same table.        *)
EXTENDS Integers

CONSTANTS Warehouses,        \* rows of the table warehouses
          Variants,          \* sellable product variants
          DefaultWarehouse,  \* what OrderService.defaultWarehouse returns
          MaxQty,            \* bound on the quantity of a line or a movement
          MaxStock           \* bound on on_hand, for finite checking only

ASSUME StockAssumption ==
  /\ DefaultWarehouse \in Warehouses
  /\ MaxQty \in Nat
  /\ MaxStock \in Nat

VARIABLES onHand,    \* stock_items.on_hand
          reserved,  \* stock_items.reserved
          supply     \* net of the stock_movements rows that are not sales

stockVars == <<onHand, reserved, supply>>

Levels  == [Warehouses -> [Variants -> Nat]]
Baskets == [Variants -> 0 .. MaxQty]

Larger(a, b) == IF a > b THEN a ELSE b

-----------------------------------------------------------------------------
(* The three operations of packages/inventory/src/index.ts.                   *)

\* Faulty variant: compares the order with the shelf and not with what is free.
CanReserveFromShelf(w, b) == \A v \in Variants : onHand[w][v] >= b[v]

\* reserveStock: UPDATE ... WHERE on_hand - reserved >= quantity, or nothing.
CanReserve(w, b) == \A v \in Variants : onHand[w][v] - reserved[w][v] >= b[v]

ReserveStock(w, b) ==
  reserved' = [reserved EXCEPT ![w] = [v \in Variants |-> @[v] + b[v]]]

\* confirmStock: the goods leave; too small a reservation is an INVARIANT error.
CanConfirm(w, b) == \A v \in Variants : reserved[w][v] >= b[v]

ConfirmStock(w, b) ==
  /\ onHand'   = [onHand EXCEPT ![w] = [v \in Variants |-> @[v] - b[v]]]
  /\ reserved' = [reserved EXCEPT ![w] = [v \in Variants |-> @[v] - b[v]]]

\* releaseStock: GREATEST(reserved - quantity, 0), whoever the units belong to.
ReleaseStock(w, b) ==
  reserved' = [reserved EXCEPT ![w] =
                 [v \in Variants |-> Larger(@[v] - b[v], 0)]]

-----------------------------------------------------------------------------
(* Back-office operations.  Each is one transaction that also inserts the     *)
(* matching stock_movements rows.                                             *)

InitStock ==
  /\ onHand   \in [Warehouses -> [Variants -> 0 .. MaxStock]]
  /\ reserved = [w \in Warehouses |-> [v \in Variants |-> 0]]
  /\ supply   = onHand

Move(w, v, q) ==
  /\ onHand' = [onHand EXCEPT ![w][v] = @ + q]
  /\ supply' = [supply EXCEPT ![w][v] = @ + q]
  /\ UNCHANGED reserved

\* receiveGoods, postPurchaseInvoice, and the restock of a customer's return.
ReceiveGoods(w, v, q) ==
  /\ onHand[w][v] + q <= MaxStock
  /\ Move(w, v, q)

\* AdminController.adjust: a signed correction, never below what is reserved.
AdjustStock(w, v, delta) ==
  /\ onHand[w][v] + delta \in 0 .. MaxStock
  /\ onHand[w][v] + delta >= reserved[w][v]
  /\ Move(w, v, delta)

\* createSupplierReturn looks at on_hand alone; the CHECK of the table
\* (reserved <= on_hand) aborts the transaction that would eat a reservation.
SupplierReturn(w, v, q) ==
  /\ onHand[w][v] >= q
  /\ reserved[w][v] <= onHand[w][v] - q
  /\ Move(w, v, -q)

\* InventoryController.transfer, under the same CHECK.
Transfer(from, to, v, q) ==
  /\ from # to
  /\ onHand[from][v] >= q
  /\ reserved[from][v] <= onHand[from][v] - q
  /\ onHand[to][v] + q <= MaxStock
  /\ onHand' = [onHand EXCEPT ![from][v] = @ - q, ![to][v] = @ + q]
  /\ supply' = [supply EXCEPT ![from][v] = @ - q, ![to][v] = @ + q]
  /\ UNCHANGED reserved

BackOffice ==
  \E w \in Warehouses, v \in Variants, q \in 1 .. MaxQty :
    \/ ReceiveGoods(w, v, q)
    \/ AdjustStock(w, v, q)
    \/ AdjustStock(w, v, -q)
    \/ SupplierReturn(w, v, q)
    \/ \E to \in Warehouses : Transfer(w, to, v, q)

-----------------------------------------------------------------------------
TypeOKStock ==
  /\ onHand \in Levels
  /\ reserved \in Levels
  /\ supply \in [Warehouses -> [Variants -> Int]]

\* No shelf promises more than it holds: the CHECK constraints of stock_items
\* hold without the database having to refuse an update of the order service.
NeverOverReserved ==
  \A w \in Warehouses, v \in Variants : reserved[w][v] <= onHand[w][v]

=============================================================================
