SPECIFICATION Spec
CONSTANTS
  BlockSize = 2
  Columns = 3
  CommStep = 2
  Sizes = {2}
  Kinds = {"random"}
  Mals = {TRUE}
  FiatShamirs = {FALSE}
  Hashes = {"AesHash"}
  Nexts = {"split"}
  Faults = {0}
INVARIANTS HonestSucceeds

CHECK_DEADLOCK FALSE
