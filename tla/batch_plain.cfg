SPECIFICATION Spec
CONSTANTS
  Files <- Cards
  Image <- MCImage
  Modes <- PlainMode
  MaxFiles = 3
  MaxOpen = 3
INVARIANT GoesOn
