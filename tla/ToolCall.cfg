CONSTANTS
  Group = 2
  Width = 7
  MaxPayloadBytes = 60
  MaxIDLen = 3
  MaxAlloc = 51
  MaxRequest = 40
  MaxDetail = 4
  SeqNo = 127
  Calls <- MCCalls
  Grants <- MCGrants
  Registered <- MCRegistered
  Samples <- ValuesOf
  PageTexts <- MCPageTexts
  Links <- MCLinks
  AbsolutePaths <- MCAbsolute
  UpwardPaths <- MCUpward
  IllFormed <- MCIllFormed
  Replacement <- MCReplacement
SPECIFICATION Spec
INVARIANTS FramesDelimited ExecutedAsTyped OnlyTooLongIsInvalid ResultShown FailureShown FileKept
PROPERTY ToolEnds
CHECK_DEADLOCK FALSE
