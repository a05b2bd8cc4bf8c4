SPECIFICATION SuiteSpec
CONSTANTS
  N = 8
  KZk = 1
  KVp = 2
  LeafMax = 7
  Junk = {2}
  LaneCap = 448
  Modulus = 31
  Rows <- MCRows
  Prime = 31
  K = 1
  HALF = 5
  SmallSetBits = 2
  KVole = 2
  Statements <- HonestStatements
  Us <- UPatterns
  Vs <- VPatterns
  Points <- AllPoints
  Masks <- MaskDraws
  CheckGammas <- CheckGammaDraws
  Scalars <- ScalarDraws
  Tampers <- AllTampers
INVARIANTS TypeOK Correlation LanesFit TreesAllUsed RegisterSound PowersRight CommitmentBinds VerdictExact
PROPERTIES WireFaithful
CHECK_DEADLOCK FALSE
