CONSTANTS
  Bytes = {0, 1}
  BUF_SIZE = 2
  MaxBytes = 5
SPECIFICATION Spec
INVARIANTS TypeOK SizeIsExact FrontExists
PROPERTY IsQueue
