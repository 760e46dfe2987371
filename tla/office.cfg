\* Two of the staff at work on one request of two lines and its invoice, paid in two
\* parts; two returns of one line of two units, each receipt with up to two
\* rows, and amounts that do not divide by two, so that rounding happens.  Orders
\* and invoices of up to three lines; two transactions on one variant at a time.
\* One order, and days about the turns of months and of the years 1404 to 1408; two
\* cheques of one sum, which is the ceiling, and two clerks; goods bought at one cost;
\* of those who wait, one has left an address of email only.
CONSTANTS
  d1 = d1
  d2 = d2
  l1 = l1
  l2 = l2
  Staff = {d1, d2}
  Lines = {l1, l2}
  Wanted = 1
  InvoiceSum = 2
  MaxReceived = 1
  MaxInvoices = 1
  MaxPayments = 2
  Returns = {d1, d2}
  Purchased = 2
  NetTotal = 3
  TaxTotal = 1
  FeePercent = 50
  MaxRows = 2
  k1 = k1
  k2 = k2
  k3 = k3
  Cats = {k1, k2, k3}
  NoCat = NoCat
  Editors = {d1, d2}
  Visitors = {l1}
  MaxDepth = 1
  MaxEdits = 2
  Images = {l1, l2}
  Uploads = {d1, d2}
  Sweeps = {d1, d2}
  NoUpload = NoUpload
  NoSweep = NoSweep
  MaxRowsOf = 2
  MaxUploads = 2
  MaxSweeps = 2
  People = {k1, k2, k3, m1}
  m1 = m1
  Mute = {m1}
  Asks = {d1, d2}
  Tellers = {l1, l2}
  NoAsk = NoAsk
  NoCall = NoCall
  MaxWaiting = 2
  TellLimit = 2
  MaxAsks = 3
  MaxCalls = 2
  UnitPrices = {0, 7, 50}
  UnitCounts = {1, 3}
  Percents = {3333, 10000}
  Deductions = {40}
  Caps = {0, 20}
  Minimums = {10}
  VatBp = 900
  Shippings = {0, 5}
  ExtraCosts = {0, 8}
  Bookings = {d1, d2}
  Costs = {5}
  MaxUnits = 3
  MaxMoves = 4
  VatSales = {"s1"}
  Years = {1404, 1405, 1407, 1408}
  BusyDays = {185, 186, 365, 1094, 1095, 1096, 1460}
  Clerks = {d1, d2}
  Sums = {1}
  Ceiling = 1
  MaxCheques = 2
  Buys = {d1, d2}
  GoodsNet = 5
  GoodsVat = 1
  Fare = 1
  ReturnFee = 2
  UnitCosts = {2}
  MaxPeriods = 2
  MaxReversals = 1
SPECIFICATION MCOfficeSpec
SYMMETRY MCOfficeSymmetry
INVARIANTS
  ReturnsAddUp
  PurchasingHolds
  CatalogueHolds
  PicturesAreKept
  WaitersAreTold
  AmountsAddUp
  ValuationFollowsStock
  CountedOnceAYear
  CeilingHolds
  LedgerHolds
\* Every return and every request ends.
CHECK_DEADLOCK FALSE
