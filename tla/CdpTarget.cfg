SPECIFICATION Spec
CONSTANTS
  First = First
  Second = Second
  Reads = {First, Second}
  None = None
  MaxPolls = 1
SYMMETRY Alike
INVARIANTS OwnAnswer PendingExact TextWhereLanded
CHECK_DEADLOCK FALSE
