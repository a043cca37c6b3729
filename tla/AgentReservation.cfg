SPECIFICATION Spec
CONSTANTS
  Viv = Viv
  Script = Script
  Admins = {Viv, Script}
  MaxCreates = 2
INVARIANT OneCreatorAtATime
CHECK_DEADLOCK FALSE
