SPECIFICATION FairSpec
CONSTANTS
  MaxArrived = 4
  Consumers = {1}
INVARIANTS DeliveryInv NothingLost NoMissedData NoLateCall
PROPERTIES WokenDelivers
CHECK_DEADLOCK FALSE
