\* The first file of a run: make_ptr and model_ptr are still NULL.
SPECIFICATION Spec
CONSTANTS
  NoDir = NoDir
  Zero = Zero
  NoText = NoText
  ifd0 = ifd0
  sub0 = sub0
  sub1 = sub1
  exif = exif
  note = note
  note2 = note2
  thumb = thumb
  nikon = nikon
  other = other
  d100 = d100
  d70 = d70
  Dir <- MCDir
  Text <- MCText
  NikonMakes <- MCNikonMakes
  ThumbModels <- MCThumbModels
  Files <- MCFiles
  Layout <- MCLayout
  StartTexts <- FirstFile
INVARIANTS TypeOK PositionRestored ByteOrderRight SharedGlobalsRight ListedInPreorder
PROPERTY WalkEnds
