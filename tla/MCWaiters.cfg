SPECIFICATION WaitersFairSpec
CONSTANTS
  Ids = {i1, i2}
  MaxDeliveries = 3
  MaxFaults = 1
INVARIANT NoLostWakeup
PROPERTY WaitEnds
CHECK_DEADLOCK FALSE
