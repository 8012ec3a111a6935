SPECIFICATION LedgerFairSpec
CONSTANTS
  c1 = c1  c2 = c2
  key1 = key1  key2 = key2
  alice = alice  bob = bob
  Calls = {c1, c2}
  Keys = {key1, key2}
  Folded <- MCFolded
  Accounts = {alice, bob}
  Requests <- MCRequests
  Stamps = {1000}
  Legacy = {}
  NullHash = NullHash
  NoRequest = NoRequest
  Workers = {w1, w2}
  BatchLimit = 2
  Kafka = TRUE
  MaxRetries = 3
  MaxFaults = 1
INVARIANT
  NoPhantomEvent
PROPERTIES
  AcknowledgedIsPublished PostingAnswered
