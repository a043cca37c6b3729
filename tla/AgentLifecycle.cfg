SPECIFICATION FairSpec
CONSTANTS
  Viv = Viv
  Script = Script
  Admins = {Viv}
  MaxCreates = 4
INVARIANTS TypeOK AllOrNothing EquippedWhileRunning RootOutlivesWard RegisteredIsCurrent
CHECK_DEADLOCK FALSE
