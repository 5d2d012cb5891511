SPECIFICATION Spec
CONSTANTS
  Byte = {0, 1}
  Prefix <- SingleBytePrefix
  MaxPayload = 1
  Checksum <- SumOfBytes
  MaxStream = 8
INVARIANTS ValuesArriveInOrder
