CONSTANTS
  LIMBS = 2 RADIX = 8 TOP = 4 C = 1 WORD = 8192
  HALF = 2 LenCom = 3 K = 2 D = 5 Y = 1
  SYMBOL_BYTES = 2 UINT32_BYTES = 1
  Keys = {0, 5, 11}
  Inputs = {2}
  OffsetChoices <- DistinctOffsets
  Randomness = {0, 3}
  Faults = {"none", "zk", "vp", "uv", "eZero", "eWrong", "m", "proof"}
SPECIFICATION FairSpec
INVARIANTS TypeOK HalfDuplex FramesMatch CheatCaught HonestAbortReasons
PROPERTIES ImplementsIdeal HonestCompletes LateVerdictReported
CHECK_DEADLOCK FALSE
