SPECIFICATION MCSpec
CONSTANTS
  Frames <- MCFrames
  FlowFrames <- MCFlowFrames
  NoFrame = NoFrame
  MinFrameSize = 60
  Mtu = 100
  Promiscuous = FALSE
  VlanAllowList = {5}
  Tuples <- MCTuples
  Protocols = {"IPV4", "IPV6", "TCP"}
  HashFunc = "SIMPLE_XOR"
  Key <- MCKey
  Symmetry = "SYMMETRIC"
  ByteBase = 4
  Hash <- MCHash
  Retas <- MCRetas
  NotSeen = NotSeen
  ByteBits = 2
  WordBytes = 2
  KeyBytes = 5
  Polynomial = {2, 3}
  MaxBytes = 3
INVARIANTS
  ReadsInBounds
  ShowsThisFrame
  AcceptsWellFormed
  DirectionsMeet
  ToeplitzIsExact
  CrcIsExact
