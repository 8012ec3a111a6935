SPECIFICATION PaymentFairSpec
CONSTANTS
  Scripts <- MCScripts
  TopicOf <- MCTopicOf
  Topics <- PaymentTopics
  Unreadable = {"garbled"}
  Members = {m1, m2}
  MaxRetries = 2
  MaxFaults <- MCMaxFaults
CHECK_DEADLOCK FALSE
INVARIANTS
  CommittedIsProcessed ProcessedInOrder DuplicatesNeedFaults SettledWasApproved
PROPERTIES
  EverythingIsProcessed
