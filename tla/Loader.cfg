SPECIFICATION LoaderSpec
CONSTANTS
  ByteMod = 4
  RequestedSize = 8
  D = 2
  Files <- MCFiles
INVARIANT LoaderTypeOK
INVARIANT RecordsLoaded
INVARIANT StopsAtBadRecord
PROPERTY LoadEnds
