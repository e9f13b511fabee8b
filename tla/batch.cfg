SPECIFICATION Spec
CONSTANTS
  Files <- AllFiles
  Image <- MCImage
  Modes <- AllModes
  MaxFiles = 4
  MaxOpen = 3
INVARIANTS TypeOK ReportOwnRows OwnOrientation RowsReleasedOnce JsNumbered AllReported
