SPECIFICATION Spec
CONSTANTS
  N = 3
  Overflow = FALSE
  IndexModulus = 8
  Objects = {b1, b2}
  Values = {v1, v2}
  Raw = Raw
  Moved = Moved
  Trivial = TRUE
  MaxBatch = 1
PROPERTY CopyIsEqual
