SPECIFICATION Spec
CONSTANTS
  p1 = p1
  p2 = p2
  Pod = {p1, p2}
  NoAddress = NoAddress
  Crc <- OneAddress
  Nodes = 4
  Steps = 2
  Epoch = 2
  MaxBackward = 2
  MaxTime = 4
  Setbacks <- WhileIdle
  Restarts = {p2}
  Alphabet <- Shuffled
  Word = 64
  Width = 2
CHECK_DEADLOCK FALSE
INVARIANTS TypeOK UniqueIds CodesDecode CodesFit 
PROPERTIES IncreasingIds
