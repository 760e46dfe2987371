-------------------------------- MODULE Pos ---------------------------------
(* The cash desk of packages/pos/src/index.ts: shifts, sales and movements of *)
(* cash.  A sale is not one transaction: it reads the shift, places an order  *)
(* (with the key of the device, when it was made offline), links the order to *)
(* the shift, and settles it.  Each of these commits by itself, so sales,     *)
(* their repetitions and the closing of the shift interleave, and a sale may  *)
(* end between any two of them.                                               *)
EXTENDS Orders, FiniteSetsExt

CONSTANTS Shifts,      \* identities available for rows of pos_shifts
          OfflineIds,  \* what a device numbers its offline sales with
          Floats,      \* amounts of opening cash
          Amounts,     \* signed amounts of movements of cash
          MaxMoved,    \* bound on the net of the movements of a shift
          NoShift, NoSale

\* The idempotency keys are those of the cash desk, and sales are the requests.
ASSUME PosAssumption ==
  /\ Keys = Shifts \X OfflineIds
  /\ NoShift \notin Shifts
  /\ NoSale \notin Orders
  /\ Floats \subseteq Nat
  /\ Amounts \subseteq Int
  /\ MaxMoved \in Nat

VARIABLES shiftStatus,     \* pos_shifts.status, "none" before the row exists
          shiftWarehouse,  \* pos_shifts.warehouse_id
          opening,         \* pos_shifts.opening_cash_rial
          expected,        \* pos_shifts.expected_cash_rial
          moved,           \* sum of the pos_shift_movements of the shift
          shiftOf,         \* orders.shift_id
          byCash,          \* orders.payment_method = 'cash'
          call,            \* where each running call is, and what it has read
          answered         \* orders that a call of sell has answered with

shiftVars == <<shiftStatus, shiftWarehouse, opening, expected>>
linkVars  == <<shiftOf, byCash>>
posVars   == <<shiftVars, moved, linkVars, call, answered>>
deskVars   == <<vars, posVars>>

Free == [at |-> "free", shift |-> NoShift, key |-> NoKey, cash |-> FALSE,
         amount |-> 0, order |-> NoSale, duplicate |-> FALSE]

PosInit ==
  /\ Init
  /\ shiftStatus = [sh \in Shifts |-> "none"]
  /\ shiftWarehouse = [sh \in Shifts |-> DefaultWarehouse]
  /\ opening = [sh \in Shifts |-> 0]
  /\ expected = [sh \in Shifts |-> 0]
  /\ moved = [sh \in Shifts |-> 0]
  /\ shiftOf = [o \in Orders |-> NoShift]
  /\ byCash = [o \in Orders |-> FALSE]
  /\ call = [r \in Requests |-> Free]
  /\ answered = {}

At(r, place) == call[r].at = place

Moves(r, place) == call' = [call EXCEPT ![r].at = place]

-----------------------------------------------------------------------------
(* openShift: the unique index ux_pos_shift_open allows one per warehouse.    *)

OpenShift(sh, w, cash) ==
  /\ shiftStatus[sh] = "none"
  /\ ~ \E other \in Shifts : shiftStatus[other] = "open" /\ shiftWarehouse[other] = w
  /\ shiftStatus'    = [shiftStatus EXCEPT ![sh] = "open"]
  /\ shiftWarehouse' = [shiftWarehouse EXCEPT ![sh] = w]
  /\ opening'        = [opening EXCEPT ![sh] = cash]
  /\ UNCHANGED <<vars, expected, moved, linkVars, call, answered>>

-----------------------------------------------------------------------------
(* sell.                                                                      *)

\* Faulty variant: the number of the device alone, which starts again with
\* every shift.
KeyOfDevice(sh, id) == <<CHOOSE any \in Shifts : TRUE, id>>

\* `pos:${shiftId}:${offlineId}`
KeyOf(sh, id) == <<sh, id>>

\* The shift is read and found open.  Nothing keeps it open from here on.
SellReads(r, sh, k, cash) ==
  /\ At(r, "free")
  /\ shiftStatus[sh] = "open"
  /\ call' = [call EXCEPT ![r] = [Free EXCEPT !.at = "creating", !.shift = sh,
                                              !.key = k, !.cash = cash]]
  /\ UNCHANGED <<vars, shiftVars, moved, linkVars, answered>>

\* createOrder finds no order with the key, and has not inserted its own yet.
SellLooksUp(r) ==
  /\ At(r, "creating")
  /\ call[r].key # NoKey
  /\ CreateBegins(r, call[r].key)
  /\ UNCHANGED posVars

\* createOrder commits an order that reserves in the warehouse of the shift.
SellCreates(r, o, b) ==
  /\ At(r, "creating")
  /\ LET w == shiftWarehouse[call[r].shift] IN
       IF call[r].key = NoKey
         THEN CreateWithoutKey(o, w, b, Guest, FALSE)
         ELSE CreateCommits(r, o, w, b, Guest, FALSE)
  /\ call' = [call EXCEPT ![r].at = "linking", ![r].order = o]
  /\ UNCHANGED <<shiftVars, moved, linkVars, answered>>

\* Faulty variant: the answer "duplicate" of createOrder is not kept.
SellFindsOrderAsNew(r, o) ==
  /\ At(r, "creating")
  /\ inflight[r] = NoKey
  /\ call[r].key # NoKey
  /\ key[o] = call[r].key
  /\ call' = [call EXCEPT ![r].at = "linking", ![r].order = o]
  /\ UNCHANGED <<vars, shiftVars, moved, linkVars, answered>>

\* createOrder finds the order of an earlier call with the same key.
SellFindsOrder(r, o) ==
  /\ At(r, "creating")
  /\ inflight[r] = NoKey
  /\ call[r].key # NoKey
  /\ key[o] = call[r].key
  /\ call' = [call EXCEPT ![r].at = "linking", ![r].order = o,
                          ![r].duplicate = TRUE]
  /\ UNCHANGED <<vars, shiftVars, moved, linkVars, answered>>

\* The UPDATE of the order; a repetition ends here and answers with the order.
SellLinks(r) ==
  /\ At(r, "linking")
  /\ shiftOf' = [shiftOf EXCEPT ![call[r].order] = call[r].shift]
  /\ byCash'  = [byCash EXCEPT ![call[r].order] = call[r].cash]
  /\ IF call[r].duplicate
       THEN /\ call' = [call EXCEPT ![r] = Free]
            /\ answered' = answered \cup {call[r].order}
       ELSE /\ Moves(r, "paying")
            /\ UNCHANGED answered
  /\ UNCHANGED <<vars, shiftVars, moved>>

SellPays(r) ==
  /\ At(r, "paying")
  /\ ConfirmPaymentOn(call[r].order)
  /\ call' = [call EXCEPT ![r] = Free]
  /\ answered' = answered \cup {call[r].order}
  /\ UNCHANGED <<shiftVars, moved, linkVars>>

\* An error ends the call, or the process dies: what was committed stays.
CallDies(r) ==
  /\ ~ At(r, "free")
  /\ IF inflight[r] # NoKey THEN CreateRollsBack(r) ELSE UNCHANGED vars
  /\ call' = [call EXCEPT ![r] = Free]
  /\ UNCHANGED <<shiftVars, moved, linkVars, answered>>

-----------------------------------------------------------------------------
(* addCashMovement: the status is read, then the movement is inserted.        *)

MovementReads(r, sh, amount) ==
  /\ At(r, "free")
  /\ shiftStatus[sh] = "open"
  /\ call' = [call EXCEPT ![r] = [Free EXCEPT !.at = "moving", !.shift = sh,
                                              !.amount = amount]]
  /\ UNCHANGED <<vars, shiftVars, moved, linkVars, answered>>

MovementInserts(r) ==
  /\ At(r, "moving")
  /\ moved[call[r].shift] + call[r].amount \in -MaxMoved .. MaxMoved
  /\ moved' = [moved EXCEPT ![call[r].shift] = @ + call[r].amount]
  /\ call' = [call EXCEPT ![r] = Free]
  /\ UNCHANGED <<vars, shiftVars, linkVars, answered>>

-----------------------------------------------------------------------------
(* closeShift, one transaction that holds the lock of the shift.              *)

\* The price of every unit is one.
Price(o) == MapThenSumSet(LAMBDA v : items[o][v], Variants)

CashOf(sales) == MapThenSumSet(Price, sales)

\* What closeShift adds up; sales that have left the status "paid" are not in it.
ExpectedCash(sh) ==
  opening[sh] + moved[sh]
    + CashOf({o \in Orders : shiftOf[o] = sh /\ byCash[o] /\ status[o] = "paid"})

CloseShift(sh) ==
  /\ shiftStatus[sh] = "open"
  /\ shiftStatus' = [shiftStatus EXCEPT ![sh] = "closed"]
  /\ expected'    = [expected EXCEPT ![sh] = ExpectedCash(sh)]
  /\ UNCHANGED <<vars, shiftWarehouse, opening, moved, linkVars, call, answered>>

-----------------------------------------------------------------------------
Call(r) ==
  \/ \E sh \in Shifts :
       \/ \E cash \in BOOLEAN :
            \/ SellReads(r, sh, NoKey, cash)
            \/ \E id \in OfflineIds : SellReads(r, sh, KeyOf(sh, id), cash)
       \/ \E amount \in Amounts : MovementReads(r, sh, amount)
  \/ SellLooksUp(r)
  \/ \E o \in Orders : \/ \E b \in Baskets : SellCreates(r, o, b)
                       \/ SellFindsOrder(r, o)
  \/ SellLinks(r) \/ SellPays(r) \/ MovementInserts(r) \/ CallDies(r)

\* Orders that the site places, and what happens to any order.
OutsideTheDesk ==
  \/ \E o \in Orders : Cancel(o) \/ ConfirmPaymentOn(o)
  \/ \E o \in Orders, w \in OrderWarehouses, b \in Baskets :
       CreateWithoutKey(o, w, b, Guest, FALSE)

PosNext ==
  \/ \E sh \in Shifts :
       \/ \E w \in OrderWarehouses, cash \in Floats : OpenShift(sh, w, cash)
       \/ CloseShift(sh)
  \/ \E r \in Requests : Call(r)
  \/ OutsideTheDesk /\ UNCHANGED posVars

PosSpec == PosInit /\ [][PosNext]_deskVars

-----------------------------------------------------------------------------
(* Properties.                                                                *)

PosTypeOK ==
  /\ shiftStatus \in [Shifts -> {"none", "open", "closed"}]
  /\ shiftWarehouse \in [Shifts -> Warehouses]
  /\ opening \in [Shifts -> Nat]
  /\ expected \in [Shifts -> Int]
  /\ moved \in [Shifts -> Int]
  /\ shiftOf \in [Orders -> Shifts \cup {NoShift}]
  /\ byCash \in [Orders -> BOOLEAN]
  /\ call \in [Requests -> [at : {"free", "creating", "linking", "paying", "moving"},
                            shift : Shifts \cup {NoShift},
                            key : Keys \cup {NoKey},
                            cash : BOOLEAN,
                            amount : Int,
                            order : Orders \cup {NoSale},
                            duplicate : BOOLEAN]]
  /\ answered \subseteq Orders

\* A repeated sale never takes an order away from the shift it was sold in,
\* which may be closed and counted already.
SaleStaysInItsShift ==
  [][\A o \in Orders : shiftOf[o] # NoShift => shiftOf'[o] = shiftOf[o]]_deskVars

\* A sale is never settled by two calls: at most one of them is at the
\* settlement, however often the device repeats it.
OneCallSettlesASale ==
  \A r, q \in Requests :
    At(r, "paying") /\ At(q, "paying") /\ call[r].order = call[q].order => r = q

\* A sale at the desk is paid at once (pos.test.ts): once no call works on an
\* order that was answered with, it is paid.
AnsweredSalesArePaid ==
  \A o \in answered : (\A r \in Requests : call[r].order # o) => paidAt[o]

\* What a closed shift should hold: opening cash, cash sales, less withdrawals
\* (the comment of closeShift), whenever its calls have ended.
ClosedShiftAddsUp ==
  \A sh \in Shifts :
    shiftStatus[sh] = "closed" /\ (\A r \in Requests : call[r].shift # sh)
      => expected[sh] = opening[sh] + moved[sh]
           + CashOf({o \in Orders : shiftOf[o] = sh /\ byCash[o] /\ paidAt[o]})

=============================================================================
