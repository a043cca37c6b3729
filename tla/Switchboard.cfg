SPECIFICATION FairSpec
CONSTANTS
  Alice = Alice
  Mallory = Mallory
  AgentIDs <- MCAgentIDs
  Frames <- MCFrames
  Pipes = {p1}
  NoPipe = NoPipe
  Garbage = Garbage
  PeekBytes = 2
  Budget = 5
  WireCap = 2
  MaxSent = 3
INVARIANTS TypeOK HandledInOrder Stamped WithinBudget AccountedFor
PROPERTY WriterNeverWedged
CHECK_DEADLOCK FALSE
