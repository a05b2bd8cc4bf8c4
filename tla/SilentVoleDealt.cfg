SPECIFICATION DealtSpec
CONSTANTS
  Plans <- PlansLong
  Retries = 1
  Faults = {"badDelta"}
  Moduli <- Primes
  LogBase = 10
  TauHi = 2
  PlaintextBits = 4
  Alpha = 2
  P = 13
  NoiseBound = 4096
  Randomizer = 3
  MaxAttempts = 2
  Runs <- MCRuns
INVARIANTS DerandomizedSucceeds
CHECK_DEADLOCK FALSE
