------------------------------- MODULE Reviews -------------------------------
(* What one customer writes about one product, and what the panel and the     *)
(* visitors make of it (packages/reviews).  Nothing runs in a transaction:    *)
(* every operation reads, decides and then sends one statement.               *)
EXTENDS Integers, Sequences, FiniteSets

CONSTANTS Clicks,       \* calls under way at once, of the customer, the panel and visitors
          Voters,       \* visitors who vote
          MaxReviews,   \* bound: reviews ever written
          MaxTexts      \* bound: texts of one review

ASSUME ReviewsAssumption ==
  /\ MaxReviews \in Nat \ {0} /\ MaxTexts \in Nat \ {0}

VARIABLES purchase,   \* status of the customer's order for the product
          approval,   \* the setting reviews_require_approval
          reviews,    \* rows of product_reviews, oldest first, with their votes; and whether
                      \* the text may be shown (cleared), the text that whoever let it be
                      \* shown had read (read), and whether it ever was (shown)
          click       \* of every call: what it is about to send, and what it read

reviewVars == <<purchase, approval, reviews, click>>

Ready == [does |-> "nothing", row |-> 0, text |-> 0, approve |-> FALSE, delivered |-> FALSE]

ReviewsInit ==
  /\ purchase = "pending_payment" /\ approval \in BOOLEAN
  /\ reviews = <<>> /\ click = [c \in Clicks |-> Ready]

-----------------------------------------------------------------------------
(* The rows.                                                                  *)

Present == {i \in DOMAIN reviews : reviews[i].status # "removed"}

\* findPurchase: an order that is paid for and not yet on its way back; while it is
\* packed it does not count.
Bought == purchase \in {"paid", "confirmed", "shipped", "delivered"}

Reads(c, new) ==
  /\ click[c] = Ready
  /\ click' = [click EXCEPT ![c] = new]
  /\ UNCHANGED <<purchase, approval, reviews>>

\* The statement of a call: it finds its row, or nothing happens.
Sends(c, does, row) ==
  /\ click[c].does = does
  /\ click' = [click EXCEPT ![c] = Ready]
  /\ UNCHANGED <<purchase, approval>>
  /\ reviews' = IF click[c].row \in Present
                THEN [reviews EXCEPT ![click[c].row] = row] ELSE reviews

Mine(c) == reviews[click[c].row]

-----------------------------------------------------------------------------
(* The customer.                                                              *)

\* The order moves; deliveries and returns come from elsewhere.
PurchaseMoves ==
  /\ \/ purchase = "pending_payment" /\ purchase' \in {"paid", "cancelled"}
     \/ purchase = "paid"            /\ purchase' \in {"packing", "cancelled"}
     \/ purchase = "packing"         /\ purchase' = "shipped"
     \/ purchase = "shipped"         /\ purchase' = "delivered"
     \/ purchase = "delivered"       /\ purchase' = "returned"
  /\ UNCHANGED <<approval, reviews, click>>

\* The panel turns the approval of reviews on or off.
SetApproval ==
  /\ approval' = ~approval
  /\ UNCHANGED <<purchase, reviews, click>>

\* create, up to the statement: canReview, and whether the goods were delivered.
CreateReads(c) ==
  /\ Present = {} /\ Bought /\ Len(reviews) < MaxReviews
  /\ Reads(c, [Ready EXCEPT !.does = "create", !.approve = approval,
                            !.delivered = purchase = "delivered"])

NewReview(c) ==
  LET free == ~click[c].approve IN
  [status |-> IF free THEN "approved" ELSE "pending", text |-> 1,
   verified |-> click[c].delivered, votes |-> {}, reply |-> FALSE,
   cleared |-> free, read |-> IF free THEN 1 ELSE 0, shown |-> free]

\* The unique index lets one of two calls through.
CreateInserts(c) ==
  /\ click[c].does = "create"
  /\ click' = [click EXCEPT ![c] = Ready]
  /\ reviews' = IF Present = {} /\ Len(reviews) < MaxReviews
                THEN Append(reviews, NewReview(c)) ELSE reviews
  /\ UNCHANGED <<purchase, approval>>

\* updateByOwner reads the status and the setting ...
EditReads(c) ==
  \E i \in Present :
    /\ reviews[i].status # "rejected" /\ reviews[i].text < MaxTexts
    /\ Reads(c, [Ready EXCEPT !.does = "edit", !.row = i, !.approve = approval])

\* Faulty variant: the status stays what it was.
EditedInPlace(c) ==
  [Mine(c) EXCEPT !.text = @ + 1, !.cleared = @ /\ ~click[c].approve]

\* ... and a changed text is to be judged anew, where reviews are judged at all.
Edited(c) ==
  LET own == Mine(c) IN
  IF click[c].approve
  THEN [own EXCEPT !.text = @ + 1, !.status = "pending", !.cleared = FALSE]
  ELSE [own EXCEPT !.text = @ + 1, !.read = IF @ = own.text THEN @ + 1 ELSE @]

EditWrites(c) ==
  /\ click[c].row \in Present => Mine(c).text < MaxTexts
  /\ Sends(c, "edit", Edited(c))

-----------------------------------------------------------------------------
(* The panel and the visitors.                                                *)

\* listForAdmin: the moderator reads a text, of whatever status.
ModeratorReads(c) ==
  \E i \in Present :
    Reads(c, [Ready EXCEPT !.does = "judge", !.row = i, !.text = reviews[i].text])

\* moderate: the verdict is about the row, not about the text that was read.
Judged(c, verdict) ==
  IF verdict = "rejected" THEN [Mine(c) EXCEPT !.status = "rejected"]
  ELSE [Mine(c) EXCEPT !.status = "approved", !.cleared = TRUE, !.read = click[c].text,
                       !.shown = TRUE]

Moderate(c) ==
  \E verdict \in {"approved", "rejected"} : Sends(c, "judge", Judged(c, verdict))

\* reply and vote ask that the review is shown, and write later.
ReplyReads(c) ==
  \E i \in Present :
    /\ reviews[i].status = "approved"
    /\ Reads(c, [Ready EXCEPT !.does = "reply", !.row = i])

Reply(c) == Sends(c, "reply", [Mine(c) EXCEPT !.reply = TRUE])

VoteReads(c) ==
  \E i \in Present :
    /\ reviews[i].status = "approved"
    /\ Reads(c, [Ready EXCEPT !.does = "vote", !.row = i])

Vote(c) == \E v \in Voters : Sends(c, "vote", [Mine(c) EXCEPT !.votes = @ \cup {v}])

\* remove: the votes go with the row.
RemoveReview ==
  \E i \in Present :
    /\ reviews' = [reviews EXCEPT ![i].status = "removed", ![i].votes = {}, ![i].reply = FALSE]
    /\ UNCHANGED <<purchase, approval, click>>

\* The browser gives up, or the process ends.
ClickDies(c) ==
  /\ click[c] # Ready
  /\ click' = [click EXCEPT ![c] = Ready]
  /\ UNCHANGED <<purchase, approval, reviews>>

ReviewsNext ==
  \/ PurchaseMoves \/ SetApproval \/ RemoveReview
  \/ \E c \in Clicks :
       \/ CreateReads(c) \/ CreateInserts(c) \/ EditReads(c) \/ EditWrites(c)
       \/ ModeratorReads(c) \/ Moderate(c) \/ ReplyReads(c) \/ Reply(c)
       \/ VoteReads(c) \/ Vote(c) \/ ClickDies(c)

ReviewsSpec == ReviewsInit /\ [][ReviewsNext]_reviewVars

-----------------------------------------------------------------------------
(* Properties.                                                                *)

ReviewsTypeOK ==
  /\ approval \in BOOLEAN /\ Len(reviews) <= MaxReviews
  /\ \A i \in DOMAIN reviews :
       /\ reviews[i].status \in {"pending", "approved", "rejected", "removed"}
       /\ reviews[i].text \in 1 .. MaxTexts /\ reviews[i].read \in 0 .. MaxTexts
       /\ reviews[i].votes \subseteq Voters
  /\ \A c \in Clicks : click[c].row \in 0 .. Len(reviews)

\* What is shown was let through: no text that was changed is shown before a verdict
\* that came after the change, however edits and verdicts cross.
ShownWasCleared ==
  \A i \in Present : reviews[i].status = "approved" => reviews[i].cleared

\* Votes and the answer of the shop belong to a review that was shown at some time,
\* and none is left of one that was removed while it was given.
VotesFollowReviews ==
  \A i \in DOMAIN reviews :
    reviews[i].votes # {} \/ reviews[i].reply => i \in Present /\ reviews[i].shown

\* A customer has one review of a product, whose badge was earned by a delivery.
OneReview ==
  /\ Cardinality(Present) <= 1
  /\ \A i \in Present : reviews[i].verified => purchase \in {"delivered", "returned"}

\* However calls of the customer, the panel and visitors cross.
ReviewsHold == ReviewsTypeOK /\ ShownWasCleared /\ VotesFollowReviews /\ OneReview

\* "The text has changed, so that the earlier approval was about the earlier text"
\* (updateByOwner): what is shown is the text that the moderator read.
ShownAsRead ==
  \A i \in Present : reviews[i].status = "approved" => reviews[i].read = reviews[i].text

\* A review that was refused is not edited (updateByOwner).
RefusedIsNotEdited ==
  [][\A i \in Present : reviews[i].status = "rejected" => reviews'[i].text = reviews[i].text]_reviews
=============================================================================
