\* Floats with nine binary digits, for pages of 12 pixels and images of up to 24.
SPECIFICATION Evaluation
CONSTANTS
  LARGE_IMAGE_LENGTH = 12
  MaxSide = 24
  One = 8192
  Significands = 512
  Spacings <- MCSpacings
  MaxShutter = 8000
INVARIANTS TextsRight PicturesFit
