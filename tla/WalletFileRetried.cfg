\* A Save whose write of the wallet file failed is repeated.
SPECIFICATION Spec
CONSTANTS
  MaxVersion = 3
  WritesFail = TRUE
  RetriesFailed = TRUE
INVARIANTS NotLost
