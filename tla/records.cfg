SPECIFICATION Spec
CONSTANTS
  Tag <- MCTag
  Table <- MCTable
  Defaults <- MCDefaults
  Names <- MCNames
  MaxRuns = 2
  MaxEdits = 1
  Files <- MCFiles
  NoFile = "none"
  Image <- MCImage
  Orientation = "orientation"
  FrameWidth = "width"
  FrameLength = "length"
  WebWidth = "webWidth"
  WebLength = "webLength"
  NameTag = "name"
  MaxFiles = 2
INVARIANTS TypeOK DefaultsReadBack ColumnsAsConfigured OwnCells
