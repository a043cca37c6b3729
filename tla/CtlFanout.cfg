SPECIFICATION FairSpec
CONSTANTS
  Tui = Tui
  Bridge = Bridge
  Script = Script
  Conns = {Tui, Bridge, Script}
  NoConn = NoConn
  QueueCap = 1
  MaxEvents = 2
INVARIANTS SubsExact PushedInOrder NoneForgotten
PROPERTY FanoutEnds
CHECK_DEADLOCK FALSE
