------------------------------ MODULE Terminal ------------------------------
(* The page of the cash desk (apps/web/.../admin/pos-terminal.tsx) on top of  *)
(* the service: one sale that the seller rings up, and sends until the page   *)
(* says that it was registered.  The number of the sale is in a hidden field  *)
(* whose value is made anew whenever the page is rendered: when a line or the *)
(* method of payment changes, when the sale is sent, and when its answer has  *)
(* come.  While an answer is awaited the button is disabled.                  *)
EXTENDS Pos

CONSTANTS MaxRenders   \* bound: numbers the page ever showed

VARIABLES shown,   \* the number in the hidden field
          page     \* "ready", "waiting", or "sold": the page said so

terminalVars == <<deskVars, shown, page>>

TerminalInit == PosInit /\ shown = 1 /\ page = "ready"

Rendered == shown < MaxRenders /\ shown' = shown + 1

\* A line or the method of payment is changed.
Edits ==
  /\ page = "ready" /\ Rendered /\ UNCHANGED <<deskVars, page>>

\* posSellAction reads the form; the page is rendered as waiting.
Submits(r, sh, cash) ==
  /\ page = "ready" /\ SellReads(r, sh, KeyOf(sh, shown), cash)
  /\ page' = "waiting" /\ Rendered

Serves(r) ==
  /\ \/ SellLooksUp(r) \/ SellLinks(r) \/ SellPays(r) \/ CallDies(r)
     \/ \E o \in Orders : SellFindsOrder(r, o) \/ \E b \in Baskets : SellCreates(r, o, b)
  /\ UNCHANGED <<shown, page>>

\* The lines stay on the page; the seller goes on to the next customer.
SaleIsRegistered ==
  /\ page = "waiting" /\ answered # {} /\ \A r \in Requests : At(r, "free")
  /\ page' = "sold" /\ Rendered /\ UNCHANGED deskVars

\* An error, or an answer that does not come: the seller tries again.
SaleIsNotAnswered ==
  /\ page = "waiting" /\ page' = "ready" /\ Rendered /\ UNCHANGED deskVars

TerminalNext ==
  \/ \E sh \in Shifts :
       \/ \E w \in OrderWarehouses, cash \in Floats :
            OpenShift(sh, w, cash) /\ UNCHANGED <<shown, page>>
       \/ \E r \in Requests, cash \in BOOLEAN : Submits(r, sh, cash)
  \/ \E r \in Requests : Serves(r)
  \/ Edits \/ SaleIsRegistered \/ SaleIsNotAnswered

TerminalSpec == TerminalInit /\ [][TerminalNext]_terminalVars

\* The numbers of the page are numbers of a device.
NumbersOfDevice == MaxRenders \in Nat \ {0} /\ 1..MaxRenders \subseteq OfflineIds

\* When the button is pressed twice or the network comes back after a failure, the
\* server does not take the sale a second time, and the customer is not charged twice
\* (the comment of PosTerminal): of all that is sent of one sale, one order is paid.
SoldOnce ==
  \A o, p \in Orders : paidAt[o] /\ paidAt[p] => o = p

=============================================================================
