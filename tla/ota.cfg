SPECIFICATION FairSpec
CONSTANTS
  Images = {v0, v1, v2}
  Factory = v0
  Pieces = 3
  ImagePieces = 2
INVARIANTS
  TypeOK
  RunningIsWhole
  SuccessIsBootable
PROPERTIES
  UpdateIsAtomic
  UploadEnds
  SuccessIsRun
