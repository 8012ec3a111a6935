SPECIFICATION FairSpec
CONSTANTS
  c1 = c1  c2 = c2  c3 = c3
  key1 = key1  KEY1 = KEY1  key2 = key2  key3 = key3
  alice = alice  bob = bob
  Calls = {c1, c2, c3}
  Keys = {key1, KEY1, key2, key3}
  Folded <- MCFolded
  Accounts = {alice, bob}
  Requests <- MCRequests
  Stamps = {1000}
  Legacy = {key2}
  NullHash = NullHash
  NoRequest = NoRequest
INVARIANTS
  UniqueEntryPerKey AnswersAgree AcknowledgedIsDurable EntryHasEvent
  RefusalJustified
PROPERTY
  AtomicCalls
CHECK_DEADLOCK FALSE
