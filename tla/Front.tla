-------------------------------- MODULE Front -------------------------------
(* What a visitor meets before there is an order and after it was delivered,  *)
(* each part by itself: the parts share no row, so that a behaviour moves one *)
(* of them.                                                                   *)
EXTENDS Cart, RateLimit, Shopper, PanelSession, Reviews, Credentials

VARIABLE part

frontVars == <<part, cartVars, limitVars, shopperVars, panelVars, reviewVars,
              credentialVars>>

FrontInit ==
  /\ part \in {"cart", "limit", "shopper", "staff", "panel", "reviews", "credentials"}
  /\ CartInit /\ RateLimitInit /\ ShopperInit /\ PanelInit /\ ReviewsInit
  /\ CredentialsInit /\ (part # "credentials" => ~envFiles)
  /\ part # "cart" => ~signedIn /\ price = [v \in Variants |-> Max(Prices)]
  /\ part # "shopper" => account = "none"
  /\ part # "reviews" => approval

FrontNext ==
  /\ UNCHANGED part
  /\ \/ part = "cart" /\ CartNext
        /\ UNCHANGED <<limitVars, shopperVars, panelVars, reviewVars, credentialVars>>
     \/ part = "limit" /\ RateLimitNext
        /\ UNCHANGED <<cartVars, shopperVars, panelVars, reviewVars, credentialVars>>
     \/ part = "shopper" /\ ShopperNext
        /\ UNCHANGED <<cartVars, limitVars, panelVars, reviewVars, credentialVars>>
     \/ part = "staff" /\ StaffNext /\ UNCHANGED <<page, recent, stale, lost>>
        /\ UNCHANGED <<cartVars, limitVars, shopperVars, reviewVars, credentialVars>>
     \/ part = "panel" /\ PanelNext
        /\ UNCHANGED <<cartVars, limitVars, shopperVars, reviewVars, credentialVars>>
     \/ part = "credentials" /\ CredentialsNext
        /\ UNCHANGED <<cartVars, limitVars, shopperVars, panelVars, reviewVars>>
     \/ part = "reviews" /\ ReviewsNext
        /\ UNCHANGED <<cartVars, limitVars, shopperVars, panelVars, credentialVars>>

FrontSpec == FrontInit /\ [][FrontNext]_frontVars

\* NobodyIsThrownOut, where the middleware stands between the browser and the service.
PanelHolds == PanelTypeOK /\ (part = "panel" => NobodyIsThrownOut)
=============================================================================
