\* Two tabs, devices or requests of one visitor at a time; three codes, four tokens,
\* two carts and two windows of time are enough for every race of two calls and for
\* what follows it; two calls about two reviews of two texts one after the other.
CONSTANTS
  d1 = d1
  d2 = d2
  Tabs = {d1, d2}
  Variants = {"v"}
  Prices = {1, 2}
  VolumeMin = 2
  VolumeOff = 1
  MaxLine = 2
  MaxCarts = 2
  Hits = {d1, d2}
  Callers = {"c1", "c2", "c3"}
  MaxRequests = 2
  MaxBuckets = 2
  MaxWindow = 1
  MaxAdmitted = 3
  Devices = {d1, d2}
  MaxAttempts = 1
  HourlyCodes = 1
  MaxCodes = 3
  MaxSessions = 1
  Requests = {d1, d2}
  Webs = {"w1", "w2"}
  MaxFailed = 2
  MaxTokens = 4
  Clicks = {d1, d2}
  Voters = {"c1"}
  MaxReviews = 2
  MaxTexts = 2
  CredentialKinds = {"private_key", "certificate"}
  Keepers = {d1, d2}
  Pairs = {"p1", "p2"}
SPECIFICATION MCFrontSpec
SYMMETRY MCFrontSymmetry
INVARIANTS
  CartHolds
  LimitHolds
  CodesHold
  SignInHolds
  PanelHolds
  ReviewsHold
  CredentialsHold
CHECK_DEADLOCK FALSE
