SPECIFICATION MCSpec
CONSTANTS
  Byte = {0, 1, 2, 7}
  Prefix <- TwoBytePrefix
  MaxPayload = 1
  Checksum <- SumOfBytes
  MaxStream = 11
INVARIANTS StorageHolds StreamIsFramed ValuesArriveInOrder NeverAsksTooMuch
PROPERTIES EveryMessageArrives
CHECK_DEADLOCK FALSE
