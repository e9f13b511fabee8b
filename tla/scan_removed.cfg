\* -rm drops more than the EXIF data.
SPECIFICATION Spec
CONSTANTS
  Files <- WholeFiles
  Modes <- Removal
INVARIANT OnlyExifRemoved
