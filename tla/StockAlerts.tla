---------------------------- MODULE StockAlerts -----------------------------
(* Who wants to hear that an article is back (packages/commerce/src/          *)
(* stock-alerts.ts, with the unique indexes of migration 030).  One article.  *)
(* Nothing is a transaction: each statement commits by itself, and calls of   *)
(* the button that tells the waiting may overlap or die.                      *)
EXTENDS Integers, FiniteSets

CONSTANTS People,        \* customers, or telephone numbers
          Mute,          \* rows with an email only, which the service takes as well
          Asks,          \* requests that are under way
          Tellers,       \* calls of notifyWaiters
          NoAsk, NoCall, \* nothing under way
          MaxWaiting,    \* setting stock_notify_max_per_variant
          TellLimit,     \* how many one call tells
          MaxAsks,       \* bound: requests
          MaxCalls       \* bound: calls

ASSUME StockAlertsAssumption ==
  /\ IsFiniteSet(People) /\ IsFiniteSet(Asks) /\ Mute \subseteq People
  /\ NoCall \notin [rows : SUBSET People, texted : BOOLEAN]
  /\ MaxWaiting \in Nat \ {0} /\ TellLimit \in Nat \ {0} /\ MaxAsks \in Nat /\ MaxCalls \in Nat

VARIABLES notice,     \* the row of each person: a unique index allows one
          place,      \* of each row in the order of their creation, 0 without a row
          sellable,   \* there is stock that is not reserved
          asking,     \* what each request has found out
          call,       \* the rows that each call has yet to tell
          texts,      \* messages in the queue of the SMS
          retold,     \* a call that died, or one that overlapped, had this row too
          shutOut,    \* people whose request failed although they do not wait
          asked, called

alertVars == <<notice, place, sellable, asking, call, texts, retold, shutOut, asked, called>>

Waiting == {p \in People : notice[p] = "waiting"}
InLine  == {p \in People : notice[p] # "none"}

AlertsInit ==
  /\ notice = [p \in People |-> "none"] /\ place = [p \in People |-> 0] /\ sellable \in BOOLEAN
  /\ asking = [a \in Asks |-> NoAsk] /\ call = [c \in Tellers |-> NoCall]
  /\ texts = [p \in People |-> 0] /\ retold = {} /\ shutOut = {}
  /\ asked = 0 /\ called = 0

\* Sales, reservations and receipts, of which this code only sees the sum.
StockChanges ==
  /\ sellable' = ~sellable
  /\ UNCHANGED <<notice, place, asking, call, texts, retold, shutOut, asked, called>>

-----------------------------------------------------------------------------
(* request.                                                                   *)

\* findMine knows a row by its customer or its telephone.
Found(p) == p \in Waiting \ Mute

\* The stock is read first.  A second request with an email is another row.
Ask(a, p) ==
  /\ asking[a] = NoAsk /\ asked < MaxAsks /\ asked' = asked + 1
  /\ p \in Mute => notice[p] = "none" /\ ~\E b \in Asks : asking[b] # NoAsk /\ asking[b].who = p
  /\ asking' = [asking EXCEPT ![a] =
       [who |-> p, step |-> IF sellable THEN "leave" ELSE "look"]]
  /\ UNCHANGED <<notice, place, sellable, call, texts, retold, shutOut, called>>

\* There is stock: nobody has to wait.  cancel, with its condition.
Leave(a) ==
  /\ asking[a] # NoAsk /\ asking[a].step = "leave"
  /\ notice' = [notice EXCEPT ![asking[a].who] = IF Found(asking[a].who) THEN "cancelled" ELSE @]
  /\ asking' = [asking EXCEPT ![a] = NoAsk]
  /\ UNCHANGED <<place, sellable, call, texts, retold, shutOut, asked, called>>

\* There is none: who waits already is told so, and a full line takes nobody.
Look(a) ==
  /\ asking[a] # NoAsk /\ asking[a].step = "look"
  /\ asking' = [asking EXCEPT ![a] =
       IF Found(@.who) \/ Cardinality(Waiting) >= MaxWaiting THEN NoAsk
       ELSE [who |-> @.who, step |-> "join"]]
  /\ UNCHANGED <<notice, place, sellable, call, texts, retold, shutOut, asked, called>>

\* The INSERT, which a row of this person refuses, whatever its status.
Join(a) ==
  /\ asking[a] # NoAsk /\ asking[a].step = "join"
  /\ LET p == asking[a].who IN
       IF notice[p] = "none"
         THEN /\ notice' = [notice EXCEPT ![p] = "waiting"]
              /\ place' = [place EXCEPT ![p] = Cardinality(InLine) + 1]
              /\ UNCHANGED shutOut
         ELSE /\ shutOut' = IF p \in Waiting THEN shutOut ELSE shutOut \cup {p}
              /\ UNCHANGED <<notice, place>>
  /\ asking' = [asking EXCEPT ![a] = NoAsk]
  /\ UNCHANGED <<sellable, call, texts, retold, asked, called>>

\* The customer's own cancel, or the page is left.
Withdraw(p) ==
  /\ Found(p) /\ notice' = [notice EXCEPT ![p] = "cancelled"]
  /\ UNCHANGED <<place, sellable, asking, call, texts, retold, shutOut, asked, called>>

-----------------------------------------------------------------------------
(* notifyWaiters.                                                             *)

\* The first rows of the line that wait.
NextInLine ==
  {p \in Waiting : Cardinality({q \in Waiting : place[q] < place[p]}) < TellLimit}

Rows(c) == IF call[c] = NoCall THEN {} ELSE call[c].rows

\* The row of a call that is told next.
First(c) == CHOOSE p \in Rows(c) : \A q \in Rows(c) : place[p] <= place[q]

CallTeller(c) ==
  /\ call[c] = NoCall /\ called < MaxCalls /\ called' = called + 1
  /\ sellable /\ NextInLine # {}
  /\ call' = [call EXCEPT ![c] = [rows |-> NextInLine, texted |-> FALSE]]
  /\ retold' = retold \cup {p \in NextInLine : \E d \in Tellers : p \in Rows(d)}
  /\ UNCHANGED <<notice, place, sellable, asking, texts, shutOut, asked>>

\* enqueueSms for the next row ...
Tell(c) ==
  /\ call[c] # NoCall /\ ~call[c].texted /\ First(c) \notin Mute
  /\ texts' = [texts EXCEPT ![First(c)] = @ + 1]
  /\ call' = [call EXCEPT ![c] = [rows |-> @.rows, texted |-> TRUE]]
  /\ UNCHANGED <<notice, place, sellable, asking, retold, shutOut, asked, called>>

Onwards(c) ==
  call' = [call EXCEPT ![c] =
    IF @.rows = {First(c)} THEN NoCall ELSE [rows |-> @.rows \ {First(c)}, texted |-> FALSE]]

\* Who has no telephone gets no message, and goes on waiting.
Skip(c) ==
  /\ call[c] # NoCall /\ ~call[c].texted /\ First(c) \in Mute /\ Onwards(c)
  /\ UNCHANGED <<notice, place, sellable, asking, texts, retold, shutOut, asked, called>>

\* Faulty variant: the row stays in the line.
MarkTold(c) ==
  /\ call[c] # NoCall /\ call[c].texted /\ Onwards(c)
  /\ UNCHANGED <<notice, place, sellable, asking, texts, retold, shutOut, asked, called>>

\* ... and the update of its status, if it still waits.
MarkNotified(c) ==
  /\ call[c] # NoCall /\ call[c].texted /\ Onwards(c)
  /\ notice' = [notice EXCEPT ![First(c)] =
       IF @ = "waiting" THEN "notified" ELSE @]
  /\ UNCHANGED <<place, sellable, asking, texts, retold, shutOut, asked, called>>

\* The process dies, or the database does not answer.
TellerDies(c) ==
  /\ call[c] # NoCall
  /\ call' = [call EXCEPT ![c] = NoCall]
  /\ retold' = IF call[c].texted THEN retold \cup {First(c)} ELSE retold
  /\ UNCHANGED <<notice, place, sellable, asking, texts, shutOut, asked, called>>

-----------------------------------------------------------------------------
AlertsNext ==
  \/ StockChanges
  \/ \E a \in Asks : (\E p \in People : Ask(a, p)) \/ Leave(a) \/ Look(a) \/ Join(a)
  \/ \E p \in People : Withdraw(p)
  \/ \E c \in Tellers : CallTeller(c) \/ Tell(c) \/ Skip(c) \/ MarkNotified(c) \/ TellerDies(c)

AlertsSpec == AlertsInit /\ [][AlertsNext]_alertVars

-----------------------------------------------------------------------------
(* Properties.                                                                *)

\* Types.
AlertsTypeOK ==
  /\ notice \in [People -> {"none", "waiting", "notified", "cancelled"}]
  /\ place \in [People -> Nat] /\ \A p \in People : place[p] > 0 <=> p \in InLine
  /\ \A p, q \in InLine : place[p] = place[q] => p = q
  /\ sellable \in BOOLEAN /\ retold \subseteq People /\ shutOut \subseteq People
  /\ texts \in [People -> Nat] /\ asked \in 0 .. MaxAsks /\ called \in 0 .. MaxCalls

\* Who is marked as told has been sent a message, and one only, unless two calls
\* overlapped or one died in between; who waits and has a message is about to be
\* marked; and requests that race make the line longer than its limit by one each.
WaitersAreTold ==
  /\ AlertsTypeOK
  /\ \A p \in People :
       /\ notice[p] = "notified" => texts[p] > 0
       /\ texts[p] > 1 => p \in retold
       /\ texts[p] > 0 /\ p \in Waiting
            => \/ p \in retold
               \/ \E c \in Tellers : call[c] # NoCall /\ call[c].texted /\ p = First(c)
  /\ Cardinality(Waiting) < MaxWaiting + Cardinality(Asks)

\* The comment at the indexes: everyone is in the line once, a second request is
\* the first one.  One that comes after the first was answered is refused.
NobodyIsShutOut == shutOut = {}
=============================================================================
