SPECIFICATION Spec
CONSTANTS
  heap_start = 100
  heap_end = 108
  Increments = {2, 3}
  Bytes = {65}
  Statuses = {0}
  MaxOut = 1
INVARIANT HeapIsReserved
