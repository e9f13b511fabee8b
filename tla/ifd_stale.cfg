\* A later file: make_ptr and model_ptr may hold what a Nikon D100 file left.
SPECIFICATION Spec
CONSTANTS
  NoDir = NoDir
  Zero = Zero
  NoText = NoText
  ifd0 = ifd0
  sub0 = sub0
  sub1 = sub1
  exif = exif
  note = note
  note2 = note2
  thumb = thumb
  nikon = nikon
  other = other
  d100 = d100
  d70 = d70
  Dir <- MCDir
  Text <- MCText
  NikonMakes <- MCNikonMakes
  ThumbModels <- MCThumbModels
  Files <- ShortMakeFiles
  Layout <- MCLayout
  StartTexts <- AfterNikonD100
INVARIANT OnlyNikonMakerNotes
