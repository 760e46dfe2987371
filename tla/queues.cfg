\* Two overlapping batches of one event over two events; one text
\* with two rounds, one of which may die; one invoice with two senders, one of which may
\* die.  Nothing is left to do when everything was sent.
CONSTANTS
  Events = {1, 2}
  Batches = {b1, b2}
  BatchSize = 1
  MaxAttempts = 2
  AttemptsCap = 2
  Texts = {m1}
  Rounds = {r1, r2}
  SmsBatch = 1
  SmsMaxAttempts = 2
  MaxRequeues = 1
  MaxSmsDeaths = 1
  Sales = {s1}
  Notes = {}
  Original <- NoNotes
  Senders = {w1, w2}
  TaxBatch = 1
  MaxEditions = 1
  MaxRetries = 1
  MaxSenderDeaths = 1
SPECIFICATION MCQueuesSpec
INVARIANTS
  SentWasDelivered
  SmsHolds
PROPERTY EveryEventIsSent
PROPERTY QueuesDrain
CHECK_DEADLOCK FALSE
