\* Saves that fail or are cut off, none of them repeated.
SPECIFICATION Spec
CONSTANTS
  MaxVersion = 3
  WritesFail = TRUE
  RetriesFailed = FALSE
INVARIANTS TypeOK NotLost TmpFilesExplained
PROPERTIES LoadedNotOlder
