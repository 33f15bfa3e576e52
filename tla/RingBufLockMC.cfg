SPECIFICATION FairSpec
CONSTANTS
  Thread = {t1, t2}
  MaxElements = 2
  Type = {a, b}
INVARIANTS TypeOK LockBalanced HeadSlotFree
PROPERTIES Linearizable Refinement CallsReturn
