SPECIFICATION Spec
CONSTANTS
  Tui = Tui
  Bridge = Bridge
  Script = Script
  Conns = {Tui, Bridge, Script}
  NoConn = NoConn
  QueueCap = 1
  MaxEvents = 3
INVARIANT PushedWhileSubscribed
CHECK_DEADLOCK FALSE
