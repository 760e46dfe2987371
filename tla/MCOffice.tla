------------------------------ MODULE MCOffice -------------------------------
(* What the staff do when goods come back, when goods are bought, to the tree *)
(* of categories, to the pictures, and for those who wait for an article;     *)
(* what an order costs, what the goods in stock are worth, what the tax       *)
(* return of a month counts, the cheques of a partner, and the books: each by *)
(* itself, for the parts share no row, so that a behaviour moves one.         *)
EXTENDS Purchasing, Returns, Catalogue, Media, StockAlerts, Amounts, Valuation,
        VatReturn, Cheques, Ledger, TLC

CONSTANTS d1, d2, l1, l2, k1, k2, k3, m1

VARIABLE part

officeVars == <<part, purchasingVars, returnVars, catalogueVars, mediaVars, alertVars,
                amountVars, valuationVars, vatVars, chequeVars, ledgerVars>>

\* Where the other parts may begin in several states they begin in one.
MCOfficeInit ==
  /\ part \in {"purchasing", "returns", "catalogue", "media", "alerts", "amounts",
              "valuation", "vat", "cheques", "ledger"}
  /\ AmountsInit
  /\ part # "amounts" => /\ coupon.kind = "none" /\ fee = Min(Shippings)
                         /\ Len(basket) = 1 /\ basket[1].price = Min(UnitPrices)
                         /\ basket[1].quantity = Min(UnitCounts)
  /\ CatalogueInit
  /\ part # "catalogue" => \A c \in Cats : parent[c] = NoCat /\ home = k1
  /\ ReturnsInit
  /\ part # "returns" => autoApprove
  /\ AlertsInit
  /\ part # "alerts" => sellable
  /\ PurchasingInit /\ MediaInit /\ ValuationInit /\ VatInit /\ ChequesInit
  /\ LedgerInit

\* Bound: a behaviour commits receipts or payments, which write no row in common.
NothingPaidYet == payments' # <<>> => received' = [l \in Lines |-> 0]

MCOfficeNext ==
  /\ UNCHANGED part
  /\ \/ part = "purchasing" /\ PurchasingNext /\ NothingPaidYet
        /\ UNCHANGED <<returnVars, catalogueVars, mediaVars, alertVars,
                       amountVars, valuationVars, vatVars, chequeVars, ledgerVars>>
     \/ part = "returns" /\ ReturnsNext
        /\ UNCHANGED <<purchasingVars, catalogueVars, mediaVars, alertVars,
                       amountVars, valuationVars, vatVars, chequeVars, ledgerVars>>
     \/ part = "catalogue" /\ CatalogueNext
        /\ UNCHANGED <<purchasingVars, returnVars, mediaVars, alertVars,
                       amountVars, valuationVars, vatVars, chequeVars, ledgerVars>>
     \/ part = "media" /\ MediaNext
        /\ UNCHANGED <<purchasingVars, returnVars, catalogueVars, alertVars,
                       amountVars, valuationVars, vatVars, chequeVars, ledgerVars>>
     \/ part = "alerts" /\ AlertsNext
        /\ UNCHANGED <<purchasingVars, returnVars, catalogueVars, mediaVars,
                       amountVars, valuationVars, vatVars, chequeVars, ledgerVars>>
     \/ part = "amounts" /\ AmountsNext
        /\ UNCHANGED <<purchasingVars, returnVars, catalogueVars, mediaVars,
                       alertVars, valuationVars, vatVars, chequeVars, ledgerVars>>
     \/ part = "valuation" /\ ValuationNext
        /\ UNCHANGED <<purchasingVars, returnVars, catalogueVars, mediaVars,
                       alertVars, amountVars, vatVars, chequeVars, ledgerVars>>
     \/ part = "vat" /\ VatNext
        /\ UNCHANGED <<purchasingVars, returnVars, catalogueVars, mediaVars,
                       alertVars, amountVars, valuationVars, chequeVars, ledgerVars>>
     \/ part = "cheques" /\ ChequesNext
        /\ UNCHANGED <<purchasingVars, returnVars, catalogueVars, mediaVars,
                       alertVars, amountVars, valuationVars, vatVars, ledgerVars>>
     \/ part = "ledger" /\ LedgerNext
        /\ UNCHANGED <<purchasingVars, returnVars, catalogueVars, mediaVars, alertVars,
                       amountVars, valuationVars, vatVars, chequeVars>>

MCOfficeSpec == MCOfficeInit /\ [][MCOfficeNext]_officeVars

MCOfficeSymmetry ==
  Permutations({d1, d2}) \cup Permutations({l1, l2}) \cup Permutations({k1, k2, k3})
=============================================================================
