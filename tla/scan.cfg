\* Every scan over complete files, in each of the three modes.
SPECIFICATION Spec
CONSTANTS
  Files <- WholeFiles
  Modes <- AllModes
INVARIANTS TypeOK ScanRight LeftAsFound SegmentsRead CopyFromTables
PROPERTY ScansEnd
