SPECIFICATION FairSpec
CONSTANTS
  Names = {a, b}
  Uploads <- MCUploads
  MaxSize = 4
  Capacity = 3
  HeapBlocks = 2
INVARIANTS
  TypeOK
  PartialIsExplained
  NothingLost
PROPERTIES
  FilesAreKept
  UploadEnds
