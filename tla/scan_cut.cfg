\* A file cut off before its picture is scanned for ever.
SPECIFICATION Spec
CONSTANTS
  Files <- CutFiles
  Modes <- Reports
PROPERTY AlwaysAnswers
