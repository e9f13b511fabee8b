\* Up to five images in galleries of two, any file failing to open.
CONSTANTS
  nef = nef
  progressive = progressive
  broken = broken
  elsewhere = elsewhere
  Files <- MCFiles
  Image <- MCImage
  JsOptions = {TRUE, FALSE}
  Capacity = 2
  MaxFiles = 5
SPECIFICATION Spec
INVARIANT TypeOK
INVARIANT GalleriesWellNumbered
INVARIANT ListingsRight
INVARIANT PicturesRight
PROPERTY AlbumSpec
