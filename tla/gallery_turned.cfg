\* A vertical JPG.
CONSTANTS
  nef = nef
  progressive = progressive
  broken = broken
  elsewhere = elsewhere
  Files <- VerticalJpgs
  Image <- VerticalJpgImage
  JsOptions = {TRUE, FALSE}
  Capacity = 2
  MaxFiles = 2
SPECIFICATION Spec
INVARIANT VerticalTurned
