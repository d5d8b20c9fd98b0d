SPECIFICATION TransferSpec
CONSTANTS
  u1 = u1
  d1 = d1
  Uploads <- MCUploads
  Downloads <- MCDownloads
  Ids <- MCIds
  MaxLine = 2
  MaxQueued = 1
  Chunks = 2
  MaxChunk = 2
INVARIANTS
  UploadAtomic
  CleanEndIsComplete
PROPERTIES
  UploadSettles
CHECK_DEADLOCK FALSE
