SPECIFICATION Spec
CONSTANTS
  N = 4
  Overflow = TRUE
  IndexModulus = 8
  Interrupt = "none"
  Batches = {"pop_n"}
  MaxItems = 12
INVARIANT Inv
