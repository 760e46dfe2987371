------------------------------ MODULE PosProofs -----------------------------
(* Proofs about Pos: the cash desk is one more user of the orders, and its    *)
(* repetitions of a sale neither settle it twice nor move it between shifts.  *)
EXTENDS Terminal, OrdersProofs

Calls == [at : {"free", "creating", "linking", "paying", "moving"},
          shift : Shifts \cup {NoShift}, key : Keys \cup {NoKey}, cash : BOOLEAN,
          amount : Int, order : Orders \cup {NoSale}, duplicate : BOOLEAN]

\* The types the proof needs.
Slips ==
  /\ shiftStatus \in [Shifts -> {"none", "open", "closed"}]
  /\ shiftWarehouse \in [Shifts -> Warehouses]
  /\ shiftOf \in [Orders -> Shifts \cup {NoShift}]
  /\ call \in [Requests -> Calls]

\* A call that has an order and goes on with it.
HasOrder(r) == call[r].at \in {"linking", "paying"}

\* What a call has read still fits: its shift was opened, its key names that
\* shift, only createOrder is in flight, and its order carries its key.  An
\* order without a key is linked by the call that made it, and no repetition
\* settles.
Fits(r) ==
  /\ call[r].at # "free" =>
       call[r].shift \in Shifts /\ shiftStatus[call[r].shift] # "none"
  /\ inflight[r] # NoKey => call[r].at = "creating" /\ inflight[r] = call[r].key
  /\ call[r].key # NoKey => call[r].key[1] = call[r].shift
  /\ call[r].duplicate => call[r].key # NoKey
  /\ HasOrder(r) =>
       /\ call[r].order \in Orders
       /\ status[call[r].order] # "none"
       /\ key[call[r].order] = call[r].key
  /\ call[r].at = "linking" /\ call[r].key = NoKey => shiftOf[call[r].order] = NoShift
  /\ call[r].at = "paying" => ~ call[r].duplicate

\* Only the call that made an order settles it.
Alone ==
  \A r, q \in Requests :
    HasOrder(r) /\ HasOrder(q) /\ call[r].order = call[q].order
      /\ ~ call[r].duplicate /\ ~ call[q].duplicate
    => r = q

\* An opened shift sells from a warehouse that orders may use.
Places ==
  \A sh \in Shifts : shiftStatus[sh] # "none" => shiftWarehouse[sh] \in OrderWarehouses

\* The key of a linked order names the shift it is linked to.
Linked ==
  \A o \in Orders : shiftOf[o] # NoShift =>
    /\ status[o] # "none"
    /\ key[o] # NoKey => key[o][1] = shiftOf[o]

\* A key is that of a row.
Rows == \A o \in Orders : key[o] # NoKey => status[o] # "none"

Till ==
  /\ Safe /\ Slips /\ Alone /\ Places /\ Linked /\ Rows
  /\ \A r \in Requests : Fits(r)

LEMMA FreeIsCall == Free \in Calls
BY DEF Free, Calls

LEMMA TillInit == PosInit => Till
<1> SUFFICES ASSUME PosInit PROVE Till
  OBVIOUS
<1>1. Safe
  BY SafeInit DEF PosInit
<1>2. Slips
  BY StockAssumption, FreeIsCall DEF PosInit, Slips
<1>3. \A r \in Requests : call[r].at = "free" /\ call[r].key = NoKey
                             /\ ~ call[r].duplicate /\ inflight[r] = NoKey
  BY DEF PosInit, Init, Free
<1>4. ASSUME NEW r \in Requests PROVE Fits(r)
  BY <1>3 DEF Fits, HasOrder
<1>5. Alone
  BY <1>3 DEF Alone, HasOrder
<1>6. Places /\ Linked /\ Rows
  BY DEF PosInit, Init, Places, Linked, Rows
<1> QED
  BY <1>1, <1>2, <1>4, <1>5, <1>6 DEF Till

\* Every step of the cash desk is a step of the orders, or none.
LEMMA PosStepIsOrderStep ==
  ASSUME Till, [PosNext]_deskVars
  PROVE  [Next]_vars
<1>1. ASSUME NEW r \in Requests, SellLooksUp(r)
      PROVE  Next
  <2>1. call[r].key \in Keys
    BY <1>1 DEF SellLooksUp, Till, Slips, Calls
  <2> QED
    BY <1>1, <2>1 DEF SellLooksUp, Next, Create
<1>2. ASSUME NEW r \in Requests, NEW o \in Orders, NEW b \in Baskets,
             SellCreates(r, o, b)
      PROVE  Next
  <2>1. shiftWarehouse[call[r].shift] \in OrderWarehouses
    BY <1>2 DEF SellCreates, At, Till, Fits, Places
  <2>2. Guest \in Customers \cup {Guest} /\ FALSE \in BOOLEAN
    OBVIOUS
  <2>3. \/ CreateWithoutKey(o, shiftWarehouse[call[r].shift], b, Guest, FALSE)
        \/ CreateCommits(r, o, shiftWarehouse[call[r].shift], b, Guest, FALSE)
    BY <1>2 DEF SellCreates
  <2> QED
    BY <2>1, <2>2, <2>3 DEF Next, Create
<1>3. ASSUME NEW r \in Requests, SellPays(r)
      PROVE  Next
  <2>1. call[r].order \in Orders
    BY <1>3 DEF SellPays, At, Till, Fits, HasOrder
  <2> QED
    BY <1>3, <2>1 DEF SellPays, Next
<1>4. ASSUME NEW r \in Requests, CallDies(r)
      PROVE  [Next]_vars
  BY <1>4 DEF CallDies, Next, Create
<1>5. CASE OutsideTheDesk
  <2>1. Guest \in Customers \cup {Guest} /\ FALSE \in BOOLEAN
    OBVIOUS
  <2> QED
    BY <1>5, <2>1 DEF OutsideTheDesk, Next, Create
<1>6. CASE UNCHANGED vars
  BY <1>6
<1> QED
  BY <1>1, <1>2, <1>3, <1>4, <1>5, <1>6
  DEF PosNext, Call, OpenShift, CloseShift, SellReads, SellFindsOrder, SellLinks,
      MovementReads, MovementInserts, deskVars

\* The row of an order keeps its key, and does not disappear.
LEMMA RowsStay ==
  ASSUME Safe, [Next]_vars, NEW p \in Orders, status[p] # "none"
  PROVE  status'[p] # "none" /\ key'[p] = key[p]
<1> USE DEF Safe, TypeOK
<1>1. ASSUME NEW o \in Orders, NEW w \in OrderWarehouses, NEW b \in Baskets,
             NEW c \in Customers \cup {Guest}, NEW withCoupon \in BOOLEAN,
             \/ \E r \in Requests : CreateCommits(r, o, w, b, c, withCoupon)
             \/ CreateWithoutKey(o, w, b, c, withCoupon)
      PROVE  status'[p] # "none" /\ key'[p] = key[p]
  BY <1>1 DEF CreateCommits, CreateWithoutKey, PlaceOrder
<1>2. ASSUME NEW o \in Orders,
             \/ ConfirmPaymentOn(o) \/ Cancel(o)
             \/ \E s \in Sweepers : SweepReleases(s, o)
      PROVE  status'[p] # "none" /\ key'[p] = key[p]
  BY <1>2 DEF ConfirmPaymentOn, Cancel, SweepReleases
<1>3. CASE UNCHANGED <<status, key>>
  BY <1>3
<1> QED
  BY <1>1, <1>2, <1>3
  DEF Next, Create, Sweep, CreateBegins, CreateRollsBack, DeadlinePasses,
      SweepSelects, SweepDies, StockOnly, vars, rowVars

\* A new key comes with a new row.
LEMMA RowsStep ==
  ASSUME Safe, Rows, [Next]_vars
  PROVE  Rows'
<1> USE DEF Safe, TypeOK
<1>1. ASSUME NEW p \in Orders, status[p] = "none", key'[p] # NoKey
      PROVE  status'[p] # "none"
  <2>1. key[p] = NoKey
    BY <1>1 DEF Rows
  <2>2. ASSUME NEW o \in Orders, NEW w \in OrderWarehouses, NEW b \in Baskets,
               NEW c \in Customers \cup {Guest}, NEW withCoupon \in BOOLEAN,
               \/ \E r \in Requests : CreateCommits(r, o, w, b, c, withCoupon)
               \/ CreateWithoutKey(o, w, b, c, withCoupon)
        PROVE  status'[p] # "none"
    BY <1>1, <2>1, <2>2 DEF CreateCommits, CreateWithoutKey, PlaceOrder
  <2>3. ASSUME NEW o \in Orders,
               \/ ConfirmPaymentOn(o) \/ Cancel(o)
               \/ \E s \in Sweepers : SweepReleases(s, o)
        PROVE  FALSE
    BY <1>1, <2>1, <2>3 DEF ConfirmPaymentOn, Cancel, SweepReleases
  <2>4. CASE UNCHANGED <<status, key>>
    BY <1>1, <2>1, <2>4
  <2> QED
    BY <2>2, <2>3, <2>4
    DEF Next, Create, Sweep, CreateBegins, CreateRollsBack, DeadlinePasses,
        SweepSelects, SweepDies, StockOnly, vars, rowVars
<1>2. ASSUME NEW p \in Orders, status[p] # "none"
      PROVE  status'[p] # "none"
  BY <1>2, RowsStay
<1> QED
  BY <1>1, <1>2 DEF Rows

\* A request that does not move keeps what it has read.
LEMMA OthersFit ==
  ASSUME Till, [Next]_vars, NEW q \in Requests,
         call'[q] = call[q], inflight'[q] = inflight[q],
         \A sh \in Shifts : shiftStatus[sh] # "none" => shiftStatus'[sh] # "none",
         HasOrder(q) => \/ shiftOf'[call[q].order] = shiftOf[call[q].order]
                        \/ call[q].at = "paying" \/ call[q].key # NoKey
  PROVE  Fits(q)'
<1>1. HasOrder(q) => status'[call[q].order] # "none"
                     /\ key'[call[q].order] = key[call[q].order]
  BY RowsStay DEF Till, Fits
<1> QED
  BY <1>1 DEF Till, Fits, HasOrder

\* Nobody is added to the calls that have an order, and no order is linked.
LEMMA AloneStays ==
  ASSUME Till, [Next]_vars, UNCHANGED shiftOf,
         \A q \in Requests : HasOrder(q)' /\ ~ call'[q].duplicate =>
           HasOrder(q) /\ call'[q].order = call[q].order /\ ~ call[q].duplicate
  PROVE  Alone' /\ Linked'
<1>1. Alone'
  BY DEF Till, Alone
<1>2. \A o \in Orders : status[o] # "none" => status'[o] # "none" /\ key'[o] = key[o]
  BY RowsStay DEF Till
<1>3. Linked'
  BY <1>2 DEF Till, Linked
<1> QED
  BY <1>1, <1>3

\* A step that leaves the desk alone.
LEMMA OutsideStep ==
  ASSUME Till, [Next]_vars, UNCHANGED posVars,
         \A r \in Requests : inflight'[r] # inflight[r] =>
           call[r].at = "creating" /\ inflight'[r] = call[r].key
  PROVE  Till'
<1> USE DEF posVars, shiftVars, linkVars
<1>1. Safe'
  BY SafeStep DEF Till
<1>2. Slips' /\ Places' /\ Rows'
  BY RowsStep DEF Till, Slips, Places
<1>3. Alone' /\ Linked'
  BY AloneStays DEF HasOrder
<1>4. ASSUME NEW q \in Requests PROVE Fits(q)'
  <2>1. CASE inflight'[q] = inflight[q]
    BY <2>1, OthersFit
  <2>2. CASE inflight'[q] # inflight[q]
    BY <2>2 DEF Till, Fits, HasOrder
  <2> QED
    BY <2>1, <2>2
<1> QED
  BY <1>1, <1>2, <1>3, <1>4 DEF Till

\* A call that ends or dies, and one that starts or finds an order.
LEMMA CallStep ==
  ASSUME Till, [Next]_vars, UNCHANGED <<shiftStatus, shiftWarehouse, shiftOf>>,
         NEW r \in Requests, NEW new \in Calls,
         call' = [call EXCEPT ![r] = new],
         \A q \in Requests \ {r} : inflight'[q] = inflight[q],
         new.at \in {"linking", "paying"} /\ ~ new.duplicate =>
           HasOrder(r) /\ new.order = call[r].order /\ ~ call[r].duplicate,
         Fits(r)'
  PROVE  Till'
<1>1. Safe'
  BY SafeStep DEF Till
<1>2. call'[r] = new /\ \A q \in Requests \ {r} : call'[q] = call[q]
  BY DEF Till, Slips
<1>3. Slips' /\ Places' /\ Rows'
  BY RowsStep DEF Till, Slips, Places
<1>4. Alone' /\ Linked'
  BY <1>2, AloneStays DEF HasOrder
<1>5. ASSUME NEW q \in Requests PROVE Fits(q)'
  <2>1. CASE q = r
    BY <2>1
  <2>2. CASE q # r
    BY <1>2, <2>2, OthersFit
  <2> QED
    BY <2>1, <2>2
<1> QED
  BY <1>1, <1>3, <1>4, <1>5 DEF Till

\* A call has read an open shift.
LEMMA ReadsStep ==
  ASSUME Till, [Next]_vars, UNCHANGED <<vars, shiftVars, linkVars>>,
         NEW r \in Requests, NEW sh \in Shifts, NEW new \in Calls,
         call[r].at = "free", shiftStatus[sh] = "open",
         call' = [call EXCEPT ![r] = new],
         new.at \in {"creating", "moving"}, new.shift = sh,
         new.key # NoKey => new.key[1] = sh, ~ new.duplicate
  PROVE  Till'
<1>1. call'[r] = new
  BY DEF Till, Slips
<1>2. inflight[r] = NoKey /\ UNCHANGED <<inflight, shiftStatus, shiftWarehouse, shiftOf>>
  BY DEF Till, Fits, vars, procVars, shiftVars, linkVars
<1>3. Fits(r)'
  BY <1>1, <1>2 DEF Fits, HasOrder
<1> QED
  BY <1>2, <1>3, CallStep

LEMMA SaleReadsStep ==
  ASSUME Till, [Next]_vars, NEW r \in Requests, NEW sh \in Shifts,
         NEW k \in Keys \cup {NoKey}, k # NoKey => k[1] = sh,
         NEW cash \in BOOLEAN, SellReads(r, sh, k, cash)
  PROVE  Till'
<1> DEFINE new == [Free EXCEPT !.at = "creating", !.shift = sh, !.key = k, !.cash = cash]
<1>1. Free \in Calls /\ Free.duplicate = FALSE
  BY FreeIsCall DEF Free
<1>2. new \in Calls
  BY <1>1 DEF Calls
<1>3. new.at = "creating" /\ new.shift = sh /\ new.key = k
      /\ new.duplicate = Free.duplicate
  BY <1>1 DEF Calls
<1>4. /\ call' = [call EXCEPT ![r] = new]
      /\ call[r].at = "free" /\ shiftStatus[sh] = "open"
      /\ UNCHANGED <<vars, shiftVars, linkVars>>
  BY DEF SellReads, At
<1> HIDE DEF new
<1> QED
  BY <1>1, <1>2, <1>3, <1>4, ReadsStep

LEMMA MovementReadsStep ==
  ASSUME Till, [Next]_vars, NEW r \in Requests, NEW sh \in Shifts,
         NEW amount \in Amounts, MovementReads(r, sh, amount)
  PROVE  Till'
<1> DEFINE new == [Free EXCEPT !.at = "moving", !.shift = sh, !.amount = amount]
<1>1. new \in Calls /\ new.at = "moving" /\ new.shift = sh /\ new.key = NoKey
      /\ ~ new.duplicate
  BY PosAssumption DEF Free, Calls
<1>2. /\ call' = [call EXCEPT ![r] = new]
      /\ call[r].at = "free" /\ shiftStatus[sh] = "open"
      /\ UNCHANGED <<vars, shiftVars, linkVars>>
  BY DEF MovementReads, At
<1> HIDE DEF new
<1> QED
  BY <1>1, <1>2, ReadsStep

\* A call that is over is free again.
LEMMA EndsStep ==
  ASSUME Till, [Next]_vars, NEW r \in Requests,
         UNCHANGED <<shiftStatus, shiftWarehouse, shiftOf>>,
         call' = [call EXCEPT ![r] = Free],
         inflight'[r] = NoKey, \A q \in Requests \ {r} : inflight'[q] = inflight[q]
  PROVE  Till'
<1>1. call'[r] = Free
  BY DEF Till, Slips
<1>2. Free.at = "free" /\ Free.key = NoKey /\ ~ Free.duplicate
  BY DEF Free
<1>3. Fits(r)'
  BY <1>1, <1>2 DEF Fits, HasOrder
<1> QED
  BY <1>2, <1>3, FreeIsCall, CallStep

\* createOrder answers with the order of an earlier call.
LEMMA FindsStep ==
  ASSUME Till, [Next]_vars, NEW r \in Requests, NEW o \in Orders,
         SellFindsOrder(r, o)
  PROVE  Till'
<1> DEFINE new == [call[r] EXCEPT !.at = "linking", !.order = o, !.duplicate = TRUE]
<1>1. new \in Calls /\ new.at = "linking" /\ new.order = o /\ new.duplicate
      /\ new.key = call[r].key /\ new.shift = call[r].shift
  BY DEF Till, Slips, Calls
<1>2. call' = [call EXCEPT ![r] = new]
  BY DEF SellFindsOrder, Till, Slips, Calls
<1> HIDE DEF new
<1>3. call'[r] = new
  BY <1>2 DEF Till, Slips
<1>4. /\ call[r].at = "creating" /\ inflight[r] = NoKey
      /\ call[r].key # NoKey /\ key[o] = call[r].key
      /\ UNCHANGED <<inflight, shiftStatus, shiftWarehouse, shiftOf, status, key>>
  BY DEF SellFindsOrder, At, vars, rowVars, procVars, shiftVars, linkVars
<1>5. status[o] # "none"
  BY <1>4 DEF Till, Rows
<1>6. Fits(r)'
  BY <1>1, <1>3, <1>4, <1>5 DEF Till, Fits, HasOrder
<1> QED
  BY <1>1, <1>2, <1>4, <1>6, CallStep

\* The desk places its order: nobody has it, and it is in no shift.
LEMMA CreatesStep ==
  ASSUME Till, [Next]_vars, NEW r \in Requests, NEW o \in Orders, NEW b \in Baskets,
         SellCreates(r, o, b)
  PROVE  Till'
<1> DEFINE new == [call[r] EXCEPT !.at = "linking", !.order = o]
<1>1. /\ new \in Calls /\ new.at = "linking" /\ new.order = o
      /\ new.key = call[r].key /\ new.shift = call[r].shift
      /\ new.duplicate = call[r].duplicate
  BY DEF Till, Slips, Calls
<1>2. call' = [call EXCEPT ![r] = new]
  BY DEF SellCreates, Till, Slips, Calls
<1> HIDE DEF new
<1>3. call'[r] = new /\ \A q \in Requests \ {r} : call'[q] = call[q]
  BY <1>2 DEF Till, Slips
<1>4. /\ call[r].at = "creating" /\ status[o] = "none"
      /\ UNCHANGED <<shiftStatus, shiftWarehouse, shiftOf>>
      /\ status'[o] # "none" /\ key'[o] = call[r].key
      /\ inflight'[r] = NoKey
      /\ \A q \in Requests \ {r} : inflight'[q] = inflight[q]
  BY DEF SellCreates, At, CreateWithoutKey, CreateCommits, PlaceOrder, Till, Fits,
         Safe, TypeOK, shiftVars, linkVars
<1>5. Safe'
  BY SafeStep DEF Till
<1>6. Slips' /\ Places' /\ Rows'
  BY <1>1, <1>2, <1>4, RowsStep DEF Till, Slips, Places
<1>7. \A q \in Requests \ {r} : HasOrder(q)' => HasOrder(q) /\ call[q].order # o
  BY <1>3, <1>4 DEF Till, Fits, HasOrder
<1>8. Alone'
  BY <1>1, <1>3, <1>7 DEF Till, Alone
<1>9. \A p \in Orders : status[p] # "none" => status'[p] # "none" /\ key'[p] = key[p]
  BY RowsStay DEF Till
<1>10. Linked'
  BY <1>4, <1>9 DEF Till, Linked
<1>11. shiftOf[o] = NoShift
  BY <1>4 DEF Till, Linked
<1>12. Fits(r)'
  BY <1>1, <1>3, <1>4, <1>11 DEF Till, Fits, HasOrder
<1>13. ASSUME NEW q \in Requests PROVE Fits(q)'
  <2>1. CASE q = r
    BY <2>1, <1>12
  <2>2. CASE q # r
    BY <1>3, <1>4, <2>2, OthersFit
  <2> QED
    BY <2>1, <2>2
<1> QED
  BY <1>5, <1>6, <1>8, <1>10, <1>13 DEF Till

\* Linking an order writes the shift that its key names, or the first one.
LEMMA LinksStep ==
  ASSUME Till, [Next]_vars, NEW r \in Requests, SellLinks(r)
  PROVE  /\ Till'
         /\ \A o \in Orders : shiftOf[o] # NoShift => shiftOf'[o] = shiftOf[o]
<1> DEFINE o == call[r].order
<1>1. /\ call[r].at = "linking" /\ UNCHANGED <<vars, shiftVars>>
      /\ shiftOf' = [shiftOf EXCEPT ![o] = call[r].shift]
  BY DEF SellLinks, At
<1>2. /\ call[r].shift \in Shifts /\ o \in Orders
      /\ status[o] # "none" /\ key[o] = call[r].key
      /\ inflight[r] = NoKey
      /\ call[r].key # NoKey => call[r].key[1] = call[r].shift
      /\ call[r].key = NoKey => shiftOf[o] = NoShift
  BY <1>1 DEF Till, Fits, HasOrder
<1>3. /\ shiftOf'[o] = call[r].shift
      /\ \A p \in Orders \ {o} : shiftOf'[p] = shiftOf[p]
  BY <1>1, <1>2 DEF Till, Slips
<1> HIDE DEF o
<1>4. \A p \in Orders : shiftOf[p] # NoShift => shiftOf'[p] = shiftOf[p]
  BY <1>2, <1>3 DEF Till, Linked
<1>5. UNCHANGED <<status, key, inflight, shiftStatus, shiftWarehouse>>
  BY <1>1 DEF vars, rowVars, procVars, shiftVars
<1>6. Linked'
  BY <1>2, <1>3, <1>5 DEF Till, Linked
<1>7. PICK new \in Calls :
        /\ call' = [call EXCEPT ![r] = new]
        /\ \/ new.at = "free" /\ new.key = NoKey /\ ~ new.duplicate
           \/ /\ new.at = "paying" /\ ~ call[r].duplicate
              /\ new.order = call[r].order /\ new.key = call[r].key
              /\ new.shift = call[r].shift /\ new.duplicate = call[r].duplicate
  <2>1. CASE call[r].duplicate
    <3>1. call' = [call EXCEPT ![r] = Free]
      BY <2>1 DEF SellLinks
    <3> QED
      BY <3>1, FreeIsCall DEF Free
  <2>2. CASE ~ call[r].duplicate
    <3> DEFINE paying == [call[r] EXCEPT !.at = "paying"]
    <3>1. /\ paying \in Calls /\ paying.at = "paying"
          /\ paying.order = call[r].order /\ paying.key = call[r].key
          /\ paying.shift = call[r].shift /\ paying.duplicate = call[r].duplicate
      BY DEF Till, Slips, Calls
    <3>2. call' = [call EXCEPT ![r] = paying]
      BY <2>2 DEF SellLinks, Moves, Till, Slips, Calls
    <3> HIDE DEF paying
    <3> QED
      BY <2>2, <3>1, <3>2
  <2> QED
    BY <2>1, <2>2
<1>8. call'[r] = new /\ \A q \in Requests \ {r} : call'[q] = call[q]
  BY <1>7 DEF Till, Slips
<1>9. Safe'
  BY SafeStep DEF Till
<1>10. shiftOf' \in [Orders -> Shifts \cup {NoShift}]
  BY <1>1, <1>2 DEF Till, Slips
<1>11. Slips' /\ Places' /\ Rows'
  BY <1>5, <1>7, <1>10 DEF Till, Slips, Places, Rows
<1>12. \A q \in Requests :
         HasOrder(q)' => HasOrder(q) /\ call'[q].order = call[q].order
                         /\ call'[q].duplicate = call[q].duplicate
  BY <1>1, <1>7, <1>8 DEF HasOrder
<1>13. Alone'
  BY <1>12 DEF Till, Alone
<1>14. Fits(r)'
  BY <1>1, <1>2, <1>5, <1>7, <1>8 DEF Till, Fits, HasOrder, o
<1>15. ASSUME NEW q \in Requests \ {r} PROVE Fits(q)'
  <2>1. call[q].at = "linking" /\ call[q].key = NoKey => call[q].order # o
    BY <1>1, <1>2 DEF Till, Alone, Fits, HasOrder, o
  <2> QED
    BY <1>3, <1>5, <1>8, <1>15, <2>1 DEF Till, Fits, HasOrder
<1> QED
  BY <1>4, <1>6, <1>9, <1>11, <1>13, <1>14, <1>15 DEF Till

\* The calls that end: paid, dead, or with their movement inserted.
LEMMA OverStep ==
  ASSUME Till, [Next]_vars, NEW r \in Requests,
         SellPays(r) \/ CallDies(r) \/ MovementInserts(r)
  PROVE  Till'
<1>1. /\ call' = [call EXCEPT ![r] = Free]
      /\ UNCHANGED <<shiftStatus, shiftWarehouse, shiftOf>>
  BY DEF SellPays, CallDies, MovementInserts, shiftVars, linkVars
<1>2. CASE SellPays(r) \/ MovementInserts(r)
  <2>1. inflight[r] = NoKey
    BY <1>2 DEF SellPays, MovementInserts, At, Till, Fits
  <2>2. UNCHANGED inflight
    BY <1>2 DEF SellPays, MovementInserts, ConfirmPaymentOn, vars, procVars
  <2> QED
    BY <1>1, <2>1, <2>2, EndsStep
<1>3. CASE CallDies(r)
  <2>1. inflight'[r] = NoKey /\ \A q \in Requests \ {r} : inflight'[q] = inflight[q]
    <3>1. CASE inflight[r] # NoKey
      BY <1>3, <3>1 DEF CallDies, CreateRollsBack, Till, Safe, TypeOK
    <3>2. CASE inflight[r] = NoKey
      BY <1>3, <3>2 DEF CallDies, vars, procVars
    <3> QED
      BY <3>1, <3>2
  <2> QED
    BY <1>1, <2>1, EndsStep
<1> QED
  BY <1>2, <1>3

\* A shift that opens or closes.
LEMMA ShiftStep ==
  ASSUME Till, [Next]_vars, NEW sh \in Shifts,
         \/ \E w \in OrderWarehouses, cash \in Floats : OpenShift(sh, w, cash)
         \/ CloseShift(sh)
  PROVE  Till'
<1>1. UNCHANGED <<vars, shiftOf, call>>
  BY DEF OpenShift, CloseShift, linkVars
<1>2. UNCHANGED <<status, key, inflight>>
  BY <1>1 DEF vars, rowVars, procVars
<1>3. Safe'
  BY SafeStep DEF Till
<1>4. /\ shiftStatus' \in [Shifts -> {"none", "open", "closed"}]
      /\ shiftWarehouse' \in [Shifts -> Warehouses]
      /\ Places'
      /\ \A s \in Shifts : shiftStatus[s] # "none" => shiftStatus'[s] # "none"
  <2>1. ASSUME NEW w \in OrderWarehouses, NEW cash \in Floats, OpenShift(sh, w, cash)
        PROVE  /\ shiftStatus' \in [Shifts -> {"none", "open", "closed"}]
               /\ shiftWarehouse' \in [Shifts -> Warehouses]
               /\ Places'
               /\ \A s \in Shifts : shiftStatus[s] # "none" => shiftStatus'[s] # "none"
    BY <2>1, OrdersAssumption DEF OpenShift, Till, Slips, Places
  <2>2. CASE CloseShift(sh)
    BY <2>2 DEF CloseShift, Till, Slips, Places
  <2> QED
    BY <2>1, <2>2
<1>5. Slips' /\ Alone' /\ Linked' /\ Rows'
  BY <1>1, <1>2, <1>4 DEF Till, Slips, Alone, HasOrder, Linked, Rows
<1>6. ASSUME NEW q \in Requests PROVE Fits(q)'
  BY <1>1, <1>2, <1>4, OthersFit
<1> QED
  BY <1>3, <1>4, <1>5, <1>6 DEF Till

\* A call looks its key up, or something happens outside the desk.
LEMMA BesideStep ==
  ASSUME Till, [Next]_vars,
         \/ \E r \in Requests : SellLooksUp(r)
         \/ OutsideTheDesk /\ UNCHANGED posVars
         \/ UNCHANGED deskVars
  PROVE  Till'
<1>1. ASSUME NEW r \in Requests, SellLooksUp(r)
      PROVE  Till'
  <2>1. /\ call[r].at = "creating" /\ UNCHANGED posVars
        /\ \A q \in Requests : inflight'[q] # inflight[q] =>
             q = r /\ inflight'[q] = call[r].key
    BY <1>1 DEF SellLooksUp, At, CreateBegins, Till, Safe, TypeOK
  <2> QED
    BY <2>1, OutsideStep
<1>2. ASSUME (OutsideTheDesk /\ UNCHANGED posVars) \/ UNCHANGED deskVars
      PROVE  Till'
  <2>1. UNCHANGED <<posVars, inflight>>
    BY <1>2 DEF OutsideTheDesk, Cancel, ConfirmPaymentOn, CreateWithoutKey,
                procVars, deskVars, vars
  <2> QED
    BY <2>1, OutsideStep
<1> QED
  BY <1>1, <1>2

LEMMA TillStep == Till /\ [PosNext]_deskVars => Till'
<1> SUFFICES ASSUME Till, [PosNext]_deskVars PROVE Till'
  OBVIOUS
<1>0. [Next]_vars
  BY PosStepIsOrderStep
<1>1. ASSUME NEW r \in Requests, Call(r)
      PROVE  Till'
  <2>1. ASSUME NEW sh \in Shifts, NEW cash \in BOOLEAN, SellReads(r, sh, NoKey, cash)
        PROVE  Till'
    BY <1>0, <2>1, SaleReadsStep
  <2>2. ASSUME NEW sh \in Shifts, NEW cash \in BOOLEAN, NEW id \in OfflineIds,
               SellReads(r, sh, KeyOf(sh, id), cash)
        PROVE  Till'
    <3>1. KeyOf(sh, id) \in Keys /\ KeyOf(sh, id)[1] = sh
      BY PosAssumption DEF KeyOf
    <3> QED
      BY <1>0, <2>2, <3>1, SaleReadsStep
  <2>3. ASSUME NEW sh \in Shifts, NEW amount \in Amounts, MovementReads(r, sh, amount)
        PROVE  Till'
    BY <1>0, <2>3, MovementReadsStep
  <2>4. ASSUME NEW o \in Orders, NEW b \in Baskets, SellCreates(r, o, b)
        PROVE  Till'
    BY <1>0, <2>4, CreatesStep
  <2>5. ASSUME NEW o \in Orders, SellFindsOrder(r, o)
        PROVE  Till'
    BY <1>0, <2>5, FindsStep
  <2>6. CASE SellLinks(r)
    BY <1>0, <2>6, LinksStep
  <2>7. CASE SellPays(r) \/ CallDies(r) \/ MovementInserts(r)
    BY <1>0, <2>7, OverStep
  <2>8. CASE SellLooksUp(r)
    BY <1>0, <2>8, BesideStep
  <2> QED
    BY <1>1, <2>1, <2>2, <2>3, <2>4, <2>5, <2>6, <2>7, <2>8 DEF Call
<1>2. CASE \E sh \in Shifts :
             \/ \E w \in OrderWarehouses, cash \in Floats : OpenShift(sh, w, cash)
             \/ CloseShift(sh)
  BY <1>0, <1>2, ShiftStep
<1>3. CASE (OutsideTheDesk /\ UNCHANGED posVars) \/ UNCHANGED deskVars
  BY <1>0, <1>3, BesideStep
<1> QED
  BY <1>1, <1>2, <1>3 DEF PosNext

-----------------------------------------------------------------------------
\* Every behaviour of the cash desk is one of the orders: what is proved of
\* Spec holds with the desk at work.
THEOREM PosKeepsOrders == PosSpec => Spec
<1>1. PosInit => Init
  BY DEF PosInit
<1>2. Till /\ [PosNext]_deskVars => [Next]_vars
  BY PosStepIsOrderStep
<1> QED
  BY <1>1, <1>2, TillInit, TillStep, PTL DEF PosSpec, Spec

\* So sales of branches, which reserve in the warehouse of their shift and are taken
\* from the default one, promise no shelf twice and take goods once for every sale
\* that is paid, however often a device repeats it.  (Whether a sale of a branch
\* finds goods is another matter: it may take what an order of a customer holds.)
THEOREM DeskKeepsTheShelves ==
  PosSpec => [](NeverOverReserved /\ GoodsLeaveOncePerPaidOrder)
BY PosKeepsOrders, StockBound, GoodsLeaveOnce, PTL

\* However often a device repeats a sale, and wherever a call dies, one call at
\* most is at the settlement of an order.
THEOREM OneSettlement == PosSpec => []OneCallSettlesASale
<1>1. Till => OneCallSettlesASale
  BY DEF Till, Alone, Fits, HasOrder, OneCallSettlesASale, At
<1> QED
  BY <1>1, TillInit, TillStep, PTL DEF PosSpec

\* No repetition moves a sale to another shift.
THEOREM SalesStay == PosSpec => SaleStaysInItsShift
<1>1. ASSUME Till, [PosNext]_deskVars
      PROVE  \A o \in Orders : shiftOf[o] # NoShift => shiftOf'[o] = shiftOf[o]
  <2>1. CASE \E r \in Requests : SellLinks(r)
    BY <1>1, <2>1, PosStepIsOrderStep, LinksStep
  <2>2. CASE UNCHANGED shiftOf
    BY <2>2
  <2> QED
    BY <1>1, <2>1, <2>2
    DEF PosNext, Call, OpenShift, CloseShift, SellReads, SellLooksUp, SellCreates,
        SellFindsOrder, SellPays, CallDies, MovementReads, MovementInserts,
        OutsideTheDesk, deskVars, posVars, linkVars
<1>2. Till /\ [PosNext]_deskVars
        => [\A o \in Orders : shiftOf[o] # NoShift => shiftOf'[o] = shiftOf[o]]_deskVars
  BY <1>1
<1> QED
  BY <1>2, TillInit, TillStep, PTL DEF PosSpec, SaleStaysInItsShift

\* A repeated sale is one order: the key of the device makes it so at the desk too.
THEOREM RepeatedSaleIsOneOrder == PosSpec => []OneOrderPerKey
BY PosKeepsOrders, KeysAreUnique, PTL

-----------------------------------------------------------------------------
(* The page of the cash desk.                                                *)

\* A number that the page shows was rendered.
LEMMA NumbersOfThePage ==
  ASSUME NumbersOfDevice, shown \in 1..MaxRenders, [TerminalNext]_terminalVars
  PROVE  shown' \in 1..MaxRenders
<1>1. UNCHANGED shown \/ Rendered
  BY DEF TerminalNext, terminalVars, Submits, Serves, Edits, SaleIsRegistered,
     SaleIsNotAnswered
<1>2. MaxRenders \in Nat
  BY DEF NumbersOfDevice
<1> QED
  BY <1>1, <1>2 DEF Rendered

\* What the page does at the desk is a call of a device, or nothing.
LEMMA PageStepIsDeskStep ==
  ASSUME NumbersOfDevice, shown \in 1..MaxRenders, [TerminalNext]_terminalVars
  PROVE  [PosNext]_deskVars
<1>1. CASE UNCHANGED deskVars
  BY <1>1
<1>2. ASSUME NEW sh \in Shifts, NEW w \in OrderWarehouses, NEW cash \in Floats,
             OpenShift(sh, w, cash)
      PROVE  PosNext
  BY <1>2 DEF PosNext
<1>3. ASSUME NEW sh \in Shifts, NEW r \in Requests, NEW cash \in BOOLEAN,
             Submits(r, sh, cash)
      PROVE  PosNext
  <2>1. shown \in OfflineIds /\ SellReads(r, sh, KeyOf(sh, shown), cash)
    BY <1>3 DEF Submits, NumbersOfDevice
  <2>2. Call(r)
    BY <2>1 DEF Call
  <2> QED
    BY <2>2 DEF PosNext
<1>4. ASSUME NEW r \in Requests, Serves(r)
      PROVE  PosNext
  <2>1. Call(r)
    BY <1>4 DEF Serves, Call
  <2> QED
    BY <2>1 DEF PosNext
<1> QED
  BY <1>1, <1>2, <1>3, <1>4
  DEF TerminalNext, terminalVars, Edits, SaleIsRegistered, SaleIsNotAnswered

\* The page asks nothing of the service that the desk does not promise for: every
\* behaviour of the page is one of the desk.
THEOREM PageKeepsDesk ==
  ASSUME NumbersOfDevice
  PROVE  TerminalSpec => PosSpec
<1>1. TerminalInit => PosInit /\ shown \in 1..MaxRenders
  BY DEF TerminalInit, NumbersOfDevice
<1>2. shown \in 1..MaxRenders /\ [TerminalNext]_terminalVars
        => (shown \in 1..MaxRenders)' /\ [PosNext]_deskVars
  BY NumbersOfThePage, PageStepIsDeskStep
<1> QED
  BY <1>1, <1>2, PTL DEF TerminalSpec, PosSpec

\* So a number that the page sends again makes one order, settled by one call, and the
\* sale that is taken twice was sent under two numbers: rendering the page makes them.
THEOREM OneNumberOneSale ==
  ASSUME NumbersOfDevice
  PROVE  TerminalSpec => [](OneOrderPerKey /\ OneCallSettlesASale) /\ SaleStaysInItsShift
BY PageKeepsDesk, RepeatedSaleIsOneOrder, OneSettlement, SalesStay, PTL

=============================================================================
