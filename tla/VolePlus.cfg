SPECIFICATION FairSpec
CONSTANTS
  P = 5
  Length = 1
  KVole = 2
  Us <- UMatrices
  Vs <- VMatrices
  SenderValues <- Values
  Hs <- HashValues
  Lambdas <- LambdaVectors
  Points <- AllPoints
  Gammas <- GammaVectors
  Tampers <- AllTampers
INVARIANTS UvBound
PROPERTIES ImplementsIdeal
CHECK_DEADLOCK FALSE
