SPECIFICATION FairSpec
CONSTANTS
  Rows = {1, 2, 3}
  Workers = {w1, w2}
  BatchLimit = 2
  Kafka = TRUE
  MaxRetries = 3
  MaxFaults = 3
INVARIANTS
  MarkedWasSent NoSharedRow ResendNeedsFault
PROPERTY
  Delivered
