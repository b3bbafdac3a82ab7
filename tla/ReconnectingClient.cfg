SPECIFICATION ClientSpec
CONSTANT
  MaxKeys = 3
CHECK_DEADLOCK FALSE
INVARIANTS
  ShownIsComposed
PROPERTIES
  KeyCountsOnce
  ClientRequestsEnd
