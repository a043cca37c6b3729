SPECIFICATION CFairSpec
CONSTANTS
  c1 = c1  c2 = c2  p1 = p1  p2 = p2
  Agent = Agent
  AgentIDs <- MCAgentIDs
  Pipes = {p1, p2}
  NoPipe = NoPipe
  Frames <- MCFrames
  Garbage = Garbage
  PeekBytes = 0
  Budget = 1
  WireCap = 1
  MaxSent = 2
  Calls = {c1, c2}
  NoCall = NoCall
  WardOf <- TwoWards
  RequestSize = 1
  EventSize = 1
  MaxEvents = 1
INVARIANT EventsNeverRewound
PROPERTIES ContractSpec CallsReturn
CHECK_DEADLOCK FALSE
