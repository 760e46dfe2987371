-------------------------------- MODULE Cart ---------------------------------
(* The cart (packages/cart/src/index.ts), its HTTP handlers                   *)
(* (apps/api/src/cart.controller.ts) and the browser that keeps its number in *)
(* a cookie (apps/web/src/lib/cart-actions.ts).  Tabs of one browser add,     *)
(* remove, look and check out at the same time while the shop changes prices. *)
(* The key that a caller sends with a checkout does not matter: a cart that   *)
(* was checked out is refused before the key is looked at.                    *)
EXTENDS Integers, FiniteSetsExt, Functions, SequencesExt

CONSTANTS Tabs,        \* tabs of the browser, each with one call under way
          Variants,    \* what the shop sells
          Prices,      \* prices a variant may have
          VolumeMin,   \* column min_quantity of the volume discount
          VolumeOff,   \* column discount_value, an amount
          MaxLine,     \* 99, the most of one variant in a cart
          MaxCarts     \* bound: carts ever made

NoCart  == 0
NoTab   == "nobody"
NotSeen == -1

ASSUME CartAssumption ==
  /\ NoTab \notin Tabs /\ Prices \subseteq Nat /\ VolumeMin \in Nat \ {0, 1} /\ VolumeOff \in Nat
  /\ MaxLine \in Nat \ {0} /\ MaxCarts \in Nat

VARIABLES carts,     \* rows of carts with their items, oldest first
          cookie,    \* the cart the browser knows
          signedIn,  \* the shopper has a session
          price,     \* price_rial of every variant
          tab,       \* of every tab: the call under way
          seen,      \* of every tab: the subtotal it shows while it is still the current one
          bought,    \* of every tab: the lines that its checkout has read
          lock,      \* of every cart: the tab whose transaction holds its row
          placed,    \* orders made from carts
          refused    \* a checkout ended on the foreign key of the order

cartVars == <<carts, cookie, signedIn, price, tab, seen, bought, lock, placed, refused>>

Empty == [v \in Variants |-> [qty |-> 0, atAdd |-> 0]]

Still == [at |-> "rest", cart |-> NoCart, v |-> NoTab, qty |-> 0, atAdd |-> 0]

CartInit ==
  /\ carts = <<>> /\ cookie = NoCart /\ signedIn \in BOOLEAN
  /\ price \in [Variants -> Prices]
  /\ tab = [t \in Tabs |-> Still] /\ seen = [t \in Tabs |-> NotSeen]
  /\ bought = [t \in Tabs |-> Empty] /\ lock = <<>> /\ placed = <<>> /\ refused = FALSE

Moves(t, new) == tab' = [tab EXCEPT ![t] = new]

Stops(t) == Moves(t, Still)

\* What the tabs show is no longer current.
Outdated == seen' = [t \in Tabs |-> NotSeen]

-----------------------------------------------------------------------------
(* Adding and removing.                                                       *)

\* createCart: the column user_id refers to the staff, so that a customer's number
\* breaks the foreign key.
CreateCart(t) ==
  /\ tab[t].at = "rest" /\ cookie = NoCart /\ Len(carts) < MaxCarts
  /\ IF signedIn THEN refused' = TRUE /\ UNCHANGED <<carts, cookie, lock>>
     ELSE /\ carts' = Append(carts, [status |-> "active", lines |-> Empty])
          /\ lock' = Append(lock, NoTab) /\ cookie' = Len(carts) + 1
          /\ UNCHANGED refused
  /\ UNCHANGED <<signedIn, price, tab, seen, placed, bought>>

\* addItem: the status of the cart and the price of the variant are read.
AddReads(t, v, q) ==
  /\ tab[t].at = "rest" /\ cookie # NoCart /\ carts[cookie].status = "active"
  /\ Moves(t, [at |-> "add", cart |-> cookie, v |-> v, qty |-> q, atAdd |-> price[v]])
  /\ UNCHANGED <<carts, cookie, signedIn, price, seen, lock, placed, refused, bought>>

\* The upsert keeps the price of the first time.
Added(line, q, p) ==
  IF line.qty = 0 THEN [qty |-> q, atAdd |-> p]
  ELSE [line EXCEPT !.qty = Min({@ + q, MaxLine})]

\* Its last statement updates the cart and waits for a checkout that holds it; the
\* status is not looked at again.
AddCommits(t) ==
  /\ tab[t].at = "add" /\ lock[tab[t].cart] = NoTab
  /\ carts' = [carts EXCEPT ![tab[t].cart].lines[tab[t].v] =
                 Added(@, tab[t].qty, tab[t].atAdd)]
  /\ Stops(t) /\ Outdated
  /\ UNCHANGED <<cookie, signedIn, price, lock, placed, refused, bought>>

\* replace: the quantity of the line is set.
ReplaceCommits(t) ==
  /\ tab[t].at = "add" /\ lock[tab[t].cart] = NoTab
  /\ carts' = [carts EXCEPT ![tab[t].cart].lines[tab[t].v] =
                 [qty |-> tab[t].qty, atAdd |-> IF @.qty = 0 THEN tab[t].atAdd ELSE @.atAdd]]
  /\ Stops(t) /\ Outdated
  /\ UNCHANGED <<cookie, signedIn, price, lock, placed, refused, bought>>

\* removeItem asks neither the status nor the lock.
RemoveItem(v) ==
  /\ cookie # NoCart /\ carts[cookie].lines[v].qty > 0
  /\ carts' = [carts EXCEPT ![cookie].lines[v] = Empty[v]] /\ Outdated
  /\ UNCHANGED <<cookie, signedIn, price, tab, lock, placed, refused, bought>>

-----------------------------------------------------------------------------
(* Looking.                                                                   *)

Total(lines, unit) ==
  FoldSet(LAMBDA v, sum : sum + lines[v].qty * unit[v], 0, Variants)

\* The prices of getCart, with the volume discount.
ShownUnit(lines) ==
  [v \in Variants |-> IF lines[v].qty >= VolumeMin THEN price[v] - VolumeOff ELSE price[v]]

GetCart(t) ==
  /\ tab[t].at = "rest" /\ cookie # NoCart
  /\ seen' = [seen EXCEPT ![t] = Total(carts[cookie].lines, ShownUnit(carts[cookie].lines))]
  /\ UNCHANGED <<carts, cookie, signedIn, price, tab, lock, placed, refused, bought>>

SetPrice(v) ==
  /\ \E p \in Prices \ {price[v]} : price' = [price EXCEPT ![v] = p]
  /\ Outdated /\ UNCHANGED <<carts, cookie, signedIn, tab, lock, placed, refused, bought>>

SignsInOrOut ==
  /\ signedIn' = ~signedIn
  /\ UNCHANGED <<carts, cookie, price, tab, seen, lock, placed, refused, bought>>

-----------------------------------------------------------------------------
(* Checking out.                                                              *)

\* Faulty variant: the row is read without FOR UPDATE.
CheckoutReads(t) ==
  /\ tab[t].at = "rest" /\ cookie # NoCart
  /\ carts[cookie].status = "active" /\ carts[cookie].lines # Empty
  /\ Moves(t, [Still EXCEPT !.at = "checkout", !.cart = cookie])
  /\ bought' = [bought EXCEPT ![t] = carts[cookie].lines]
  /\ UNCHANGED <<carts, cookie, signedIn, price, seen, lock, placed, refused>>

\* The row is locked and found active, and its lines are read: there is something in
\* it.  What is removed afterwards is bought none the less.
CheckoutLocks(t) ==
  /\ tab[t].at = "rest" /\ cookie # NoCart /\ lock[cookie] = NoTab
  /\ carts[cookie].status = "active" /\ carts[cookie].lines # Empty
  /\ lock' = [lock EXCEPT ![cookie] = t]
  /\ Moves(t, [Still EXCEPT !.at = "checkout", !.cart = cookie])
  /\ bought' = [bought EXCEPT ![t] = carts[cookie].lines]
  /\ UNCHANGED <<carts, cookie, signedIn, price, seen, placed, refused>>

\* createOrder takes the price of the variant, and no volume discount.
Charged(lines) == Total(lines, price)

\* createOrder and the end of the transaction.  The order of a shopper who is signed
\* in carries the customer's number in user_id as well, and breaks the foreign key.
CheckoutCommits(t) ==
  LET c == tab[t].cart IN
  /\ tab[t].at = "checkout" /\ lock' = [lock EXCEPT ![c] = NoTab]
  /\ bought' = [bought EXCEPT ![t] = Empty]
  /\ IF signedIn THEN refused' = TRUE /\ Stops(t) /\ UNCHANGED <<carts, placed>>
     ELSE /\ placed' = Append(placed,
               [cart |-> c, charged |-> Charged(bought[t]), shown |-> seen[t],
                volume |-> \E v \in Variants : bought[t][v].qty >= VolumeMin])
          /\ carts' = [carts EXCEPT ![c].status = "checked_out"]
          /\ Moves(t, [Still EXCEPT !.at = "pay", !.cart = c]) /\ UNCHANGED refused
  /\ UNCHANGED <<cookie, signedIn, price, seen>>

\* Out of stock, a variant no longer sold, a coupon refused, or a call that dies: the
\* transaction is rolled back.
CallEnds(t) ==
  /\ tab[t].at # "rest" /\ Stops(t)
  /\ lock' = [c \in DOMAIN lock |-> IF lock[c] = t THEN NoTab ELSE lock[c]]
  /\ bought' = [bought EXCEPT ![t] = Empty]
  /\ UNCHANGED <<carts, cookie, signedIn, price, seen, placed, refused>>

\* The payment was started: the browser forgets the cart.  When it was not, CallEnds,
\* the cookie stays.
PaymentStarts(t) ==
  /\ tab[t].at = "pay" /\ Stops(t) /\ cookie' = NoCart /\ Outdated
  /\ UNCHANGED <<carts, signedIn, price, lock, placed, refused, bought>>

-----------------------------------------------------------------------------
CartNext ==
  \/ SignsInOrOut \/ \E v \in Variants : RemoveItem(v) \/ SetPrice(v)
  \/ \E t \in Tabs :
       \/ CreateCart(t) \/ \E v \in Variants, q \in 1 .. MaxLine : AddReads(t, v, q)
       \/ AddCommits(t) \/ ReplaceCommits(t) \/ GetCart(t)
       \/ CheckoutLocks(t) \/ CheckoutCommits(t) \/ CallEnds(t) \/ PaymentStarts(t)

CartSpec == CartInit /\ [][CartNext]_cartVars

-----------------------------------------------------------------------------
(* Properties.                                                                *)

LineTypes == [qty : 0 .. MaxLine, atAdd : Prices \cup {0}]

\* Types; no line outgrows its cap, however many tabs add to it at once.
CartTypeOK ==
  /\ carts \in Seq([status : {"active", "checked_out"}, lines : [Variants -> LineTypes]])
  /\ Len(carts) <= MaxCarts /\ cookie \in {NoCart} \cup DOMAIN carts
  /\ signedIn \in BOOLEAN /\ refused \in BOOLEAN /\ price \in [Variants -> Prices]
  /\ DOMAIN lock = DOMAIN carts /\ \A c \in DOMAIN lock : lock[c] \in Tabs \cup {NoTab}
  /\ \A t \in Tabs : tab[t].at \in {"rest", "add", "checkout", "pay"}
  /\ \A i \in DOMAIN placed : placed[i].cart \in DOMAIN carts

\* A cart becomes one order, however many tabs press the button.
OneOrderPerCart == IsInjective([i \in DOMAIN placed |-> placed[i].cart])

\* A tab that shows the current cart and checks it out is charged what it shows,
\* whatever the other tabs and the prices did before; but for volume discounts.
ChargedAsShown ==
  \A i \in DOMAIN placed :
    placed[i].shown # NotSeen /\ ~placed[i].volume => placed[i].charged = placed[i].shown

\* What the button of the cart does: one order, of what the page shows.
CartHolds == CartTypeOK /\ OneOrderPerCart /\ ChargedAsShown

\* "3 or more pieces: 10% off" (migration 045): the discount that the cart shows is
\* the one the order gives.
DiscountIsGiven ==
  \A i \in DOMAIN placed : placed[i].shown # NotSeen => placed[i].charged = placed[i].shown

\* "If startPayment fails, the cart is still there and the customer can try again"
\* (cart-actions.ts): a browser at rest knows no cart that can no longer be used.
KnownCartIsUsable ==
  (\A t \in Tabs : tab[t] = Still) /\ cookie # NoCart => carts[cookie].status = "active"

\* "If the shopper is signed in, the order is tied to that account" (cart.controller):
\* no cart and no order of a shopper is refused for who the shopper is.
SignedInCanBuy == ~refused

=============================================================================
