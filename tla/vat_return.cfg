\* One order, paid, handled and perhaps paid back about the turn of two months of 1405.
CONSTANTS
  VatSales = {s1}
  Years = {1405}
  BusyDays = {365, 395, 396}
SPECIFICATION VatSpec
INVARIANT DeclaredIsCollected
