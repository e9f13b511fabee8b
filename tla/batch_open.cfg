SPECIFICATION Spec
CONSTANTS
  Files <- Photos
  Image <- MCImage
  Modes <- RemoveMode
  MaxFiles = 3
  MaxOpen = 3
INVARIANT AnyNumberReported
