SPECIFICATION Spec
CONSTANTS
  Names = {a, b}
  Uploads <- MCUploads
  MaxSize = 4
  Capacity = 3
  HeapBlocks = 2
INVARIANTS
  UploadedIsWhole
