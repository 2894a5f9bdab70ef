SPECIFICATION Spec
CONSTANTS
    Counts = 5
    Halves = 16
    Compressed <- Upper
    Denied <- None
    Setups <- EndsOdd
    Targets <- StartOrEnd
INVARIANTS
    WordIsMemory
