\* One order, and the days about the new years of 1405, 1407 and 1408.
CONSTANTS
  VatSales = {s1}
  Years = {1404, 1405, 1406, 1407, 1408}
  BusyDays = {364, 365, 366, 1094, 1095, 1096, 1097, 1459, 1460, 1461}
SPECIFICATION VatSpec
INVARIANT CountedInItsMonth
