SPECIFICATION Spec
CONSTANTS
  MaxPictures = 3
  MaxStarts = 2
  MaxShots = 2
INVARIANTS
  TypeOK
  FrameIsReleased
  WholePictures
PROPERTIES
  PicturesInOrder
  CatchesUp
