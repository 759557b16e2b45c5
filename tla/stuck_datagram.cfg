SPECIFICATION FairSpec
CONSTANTS
  MaxArrived = 2
  Consumers = {}
PROPERTIES ArrivedIsDelivered
CHECK_DEADLOCK FALSE
