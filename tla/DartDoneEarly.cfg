SPECIFICATION Spec
CONSTANTS
  Window = 2
  MaxOutput = 3
  MaxGarbled = 0
INVARIANT DoneMeansDelivered
CHECK_DEADLOCK FALSE
