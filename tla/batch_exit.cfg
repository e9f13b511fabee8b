SPECIFICATION Spec
CONSTANTS
  Files <- Readable
  Image <- MCImage
  Modes <- TableMode
  MaxFiles = 3
  MaxOpen = 3
INVARIANT GoesOn
