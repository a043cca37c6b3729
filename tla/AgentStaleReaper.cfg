SPECIFICATION Spec
CONSTANTS
  Viv = Viv
  Script = Script
  Admins = {Viv}
  MaxCreates = 2
INVARIANT LiveWardReachable
CHECK_DEADLOCK FALSE
