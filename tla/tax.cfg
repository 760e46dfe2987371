\* One order and its return; two senders may each have both documents; a note is rebuilt
\* only when a packet is empty (RebuildsShells).
CONSTANTS
  s1 = s1
  n1 = n1
  w1 = w1
  w2 = w2
  Sales = {s1}
  Notes = {n1}
  Original <- MCOriginal
  Senders = {w1, w2}
  TaxBatch = 2
  MaxEditions = 2
  MaxRetries = 1
  MaxSenderDeaths = 1
SPECIFICATION MCTaxSpec
SYMMETRY MCSymmetry
INVARIANTS
  AcceptedIsFiled
PROPERTY AcceptedStays
CHECK_DEADLOCK FALSE
