SPECIFICATION Spec
CONSTANTS
  Tui = Tui
  Cli = Cli
  TooLong = {1}
  None = None
  MaxPrompts = 2
  TuiKeys = {"status"}
  CliTypes = {"ping", "destroy", "unreadable"}
  BufCap = 1
  QueueCap = 1
  MsgCap = 1
  MaxKeys = 1
INVARIANTS ShownIsCurrent PromptsTruthful
PROPERTIES CliAnswered TuiAnswered
CHECK_DEADLOCK FALSE
