SPECIFICATION FairSpec
CONSTANTS
  N = 3
  Overflow = FALSE
  IndexModulus = 8
  Interrupt = "consumer"
  Batches = {"take_n", "pop_n"}
  MaxItems = 9
INVARIANTS FifoOrder NoSlotRace ConstructInRaw NeverOverfull SizeIsHonest
PROPERTIES EveryItemArrives
