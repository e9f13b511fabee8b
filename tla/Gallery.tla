------------------------------ MODULE Gallery ------------------------------
(***************************************************************************)
(* The web site of the -web option: output_web and create_gallery of       *)
(* d70buildweb.c for every image of a run, with the part of ProcessFile    *)
(* that prepares them and the part of main that closes the site.           *)
(*                                                                         *)
(* The site has one directory per gallery, with the images in it and a     *)
(* file images.js that lists them, and one images.js of its own that lists *)
(* the first image of each gallery.  The pages find an image by the index  *)
(* of its record and a gallery by the index of the root's record plus one. *)
(*                                                                         *)
(* argv holds only files that ProcessFile shows; the others never reach    *)
(* output_web and are the subject of the module Batch.                     *)
(***************************************************************************)
EXTENDS Integers, Sequences, FiniteSets

CONSTANTS
  Files,      \* the images on the command line
  Image,      \* what each of them is
  JsOptions,  \* subset of BOOLEAN: whether -js is given too
  Capacity,   \* images in a gallery (24 in the code)
  MaxFiles    \* bound: files on a command line

ImageKind ==
  [ext : {"JPG", "NEF"},
   sof : BOOLEAN,        \* get_sof0_data finds its size
   turned : BOOLEAN,     \* its orientation is "6" or "8"
   decodes : BOOLEAN,    \* the image, or the thumbnail of a NEF, is a JPEG
   inDir : BOOLEAN]      \* its name has a directory in it

ASSUME ImageAssumption == \A f \in Files : Image[f] \in ImageKind
ASSUME CapacityAssumption == Capacity \in Nat \ {0}
ASSUME BoundAssumption == MaxFiles \in Nat
ASSUME JsAssumption == JsOptions \subseteq BOOLEAN

Number == 1..MaxFiles
NoCount == -1

\* A record of a file images.js, and whether output_js printed the lines that
\* create the arrays before it.
Record == [index : Nat, image : Number, header : BOOLEAN]
Listing == [records : Seq(Record), count : Nat \cup {NoCount}]
EmptyListing == [records |-> <<>>, count |-> NoCount]

\* A thumbnail and a full size picture; size is the image whose dimensions
\* they were scaled to, 0 for the default dimensions.
Picture == [gallery : Nat, image : Number, size : 0..MaxFiles, turned : BOOLEAN]

-----------------------------------------------------------------------------
VARIABLES
  argv,       \* the images of the command line
  js,         \* is -js given too
  n,          \* how many of them the loop of main has taken
  pc,         \* what happens next to image n, or how the program ended
  firstTime,  \* iWeb_First_Time
  jsFirst,    \* iJS_First_Time
  webCount,   \* iWeb_Image_count
  rootCount,  \* iRoot_Web_Image_count
  galleries,  \* images.js of each gallery directory; iWeb_Gallery_count is its length
  gallery,    \* gallery_ofd: the gallery it belongs to, 0 for NULL
  root,       \* images.js of the site
  pictures,   \* the pictures in the directories of the galleries
  temp,       \* the images whose extracted thumbnail is in the temp directory
  size,       \* the image iGlobalImageWidth and iGlobalImageHeight belong to
  failed      \* the images output_web gave up on (not a variable of the code)

counters == <<firstTime, jsFirst, webCount, rootCount>>
lists == <<galleries, gallery, root>>
vars == <<argv, js, n, pc, counters, lists, pictures, temp, size, failed>>

Ended == {"finished", "exit", "crash"}
Img == Image[argv[n]]

Init ==
  /\ argv \in UNION {[1..k -> Files] : k \in 0..MaxFiles}
  /\ js \in JsOptions
  /\ n = 0
  /\ pc = "next"
  /\ firstTime = TRUE
  /\ jsFirst = TRUE
  /\ webCount = 0
  /\ rootCount = 0
  /\ galleries = <<>>
  /\ gallery = 0
  /\ root = EmptyListing
  /\ pictures = {}
  /\ temp = {}
  /\ size = 0
  /\ failed = {}

-----------------------------------------------------------------------------
(* main and ProcessFile. *)

\* The output of -js uses up iJS_First_Time before output_web sees it.
ShowFile ==
  /\ pc = "next"
  /\ n < Len(argv)
  /\ n' = n + 1
  /\ size' = IF Image[argv[n + 1]].sof THEN n + 1 ELSE size
  /\ jsFirst' = (jsFirst /\ ~js)
  /\ pc' = "web"
  /\ UNCHANGED <<argv, js, firstTime, webCount, rootCount, lists, pictures, temp, failed>>

\* The index that ends a listing: its records are numbered from 0.
LastIndex(c) == c - 1

CloseSite ==
  /\ pc = "next"
  /\ n = Len(argv)
  /\ gallery # 0
  /\ galleries' = [galleries EXCEPT ![gallery].count = LastIndex(webCount)]
  /\ root' = [root EXCEPT !.count = LastIndex(rootCount)]
  /\ pc' = "finished"
  /\ UNCHANGED <<argv, js, n, counters, gallery, pictures, temp, size, failed>>

\* Without an open gallery main closes nothing.
NothingToClose ==
  /\ pc = "next"
  /\ n = Len(argv)
  /\ gallery = 0
  /\ pc' = "finished"
  /\ UNCHANGED <<argv, js, n, counters, lists, pictures, temp, size, failed>>

-----------------------------------------------------------------------------
(* output_web: the site and its galleries. *)

GiveUp ==
  /\ failed' = failed \cup {n}
  /\ pc' = "next"

AddTo(listing, i, header) ==
  [listing EXCEPT !.records =
     Append(@, [index |-> i, image |-> n, header |-> header])]

\* Mutant: the root's record gets the index in the gallery.
RecordOfGallery == AddTo(root, webCount, FALSE)

RootRecord == AddTo(root, rootCount, FALSE)
NewRoot == AddTo(EmptyListing, rootCount, TRUE)

\* Mutant: iWeb_Gallery_count stays 1.
OnlyGallery(old) == IF old = <<>> THEN <<EmptyListing>> ELSE old

\* create_gallery makes the directories and the pages of one more gallery.
CreateGallery(old) == Append(old, EmptyListing)

OpenSite ==
  /\ pc = "web"
  /\ firstTime
  /\ galleries' = CreateGallery(galleries)
  /\ gallery' = Len(galleries')
  /\ root' = NewRoot
  /\ rootCount' = rootCount + 1
  /\ firstTime' = FALSE
  /\ pc' = "record"
  /\ UNCHANGED <<argv, js, n, jsFirst, webCount, pictures, temp, size, failed>>

\* images.js of the site cannot be opened.  The gallery is there already.
NoRoot ==
  /\ pc = "web"
  /\ firstTime
  /\ galleries' = CreateGallery(galleries)
  /\ GiveUp
  /\ UNCHANGED <<argv, js, n, counters, gallery, root, pictures, temp, size>>

\* images.js of the first gallery cannot be opened, and the root has a record
\* of the image.
NoFirstGallery ==
  /\ pc = "web"
  /\ firstTime
  /\ galleries' = CreateGallery(galleries)
  /\ gallery' = 0
  /\ root' = NewRoot
  /\ rootCount' = rootCount + 1
  /\ GiveUp
  /\ UNCHANGED <<argv, js, n, firstTime, jsFirst, webCount, pictures, temp, size>>

\* Mutant: off by one.
OverFull == webCount > Capacity

GalleryFull == webCount = Capacity

KeepGallery ==
  /\ pc = "web"
  /\ ~firstTime
  /\ ~GalleryFull
  /\ pc' = "record"
  /\ UNCHANGED <<argv, js, n, counters, lists, pictures, temp, size, failed>>

\* Mutant: iJS_First_Time is not set again.
HeaderOnce == jsFirst

HeaderAgain == TRUE

\* The full gallery is closed and the next one is made.
TurnPage ==
  /\ pc = "web"
  /\ ~firstTime
  /\ GalleryFull
  /\ galleries' =
       CreateGallery([galleries EXCEPT ![gallery].count = LastIndex(webCount)])
  /\ jsFirst' = HeaderAgain
  /\ webCount' = 0

NextGallery ==
  /\ TurnPage
  /\ gallery' = Len(galleries')
  /\ root' = RootRecord
  /\ rootCount' = rootCount + 1
  /\ pc' = "record"
  /\ UNCHANGED <<argv, js, n, firstTime, pictures, temp, size, failed>>

NoNextGallery ==
  /\ TurnPage
  /\ gallery' = 0
  /\ GiveUp
  /\ UNCHANGED <<argv, js, n, firstTime, rootCount, root, pictures, temp, size>>

-----------------------------------------------------------------------------
(* output_web: the record and the pictures of the image. *)

AddRecord ==
  /\ pc = "record"
  /\ gallery # 0
  /\ galleries' =
       [galleries EXCEPT ![gallery] = AddTo(@, webCount, jsFirst)]
  /\ jsFirst' = FALSE
  /\ webCount' = webCount + 1
  /\ pc' = IF Img.ext = "NEF" THEN "extract" ELSE "resize"
  /\ UNCHANGED <<argv, js, n, firstTime, rootCount, gallery, root, pictures, temp, size, failed>>

\* After NoNextGallery the next image is printed to a NULL stream.
NullStream ==
  /\ pc = "record"
  /\ gallery = 0
  /\ pc' = "crash"
  /\ UNCHANGED <<argv, js, n, counters, lists, pictures, temp, size, failed>>

\* The NEF cannot be opened a second time.
SourceGone ==
  /\ pc = "extract"
  /\ GiveUp
  /\ UNCHANGED <<argv, js, n, counters, lists, pictures, temp, size>>

\* extract_thumbnail, which turns a vertical image and removes the file it
\* turned.  The temp directory has no subdirectories.
Extract ==
  /\ pc = "extract"
  /\ ~Img.inDir
  /\ temp' = temp \cup {n}
  /\ pc' = "resize"
  /\ UNCHANGED <<argv, js, n, counters, lists, pictures, size, failed>>

NotCreated ==
  /\ pc = "extract"
  /\ pc' = "exit"
  /\ UNCHANGED <<argv, js, n, counters, lists, pictures, temp, size, failed>>

\* iDoRotate is never set, so that only the thumbnail of a NEF is turned.
IsTurned == Img.ext = "NEF" /\ Img.turned

\* image_save_to_jpeg writes nothing when there is no such directory.
Saved ==
  IF Img.inDir
    THEN {}
    ELSE {[gallery |-> Len(galleries), image |-> n, size |-> size,
           turned |-> IsTurned]}

\* Mutant: the dimensions stay.
SizeKept == size

RemoveTemp == temp \ {n}
SizeReset == 0

\* The two calls of resize, unlink of the temporary file and the end of
\* output_web.
Resize ==
  /\ pc = "resize"
  /\ Img.decodes
  /\ pictures' = pictures \cup Saved
  /\ temp' = RemoveTemp
  /\ size' = SizeReset
  /\ pc' = "next"
  /\ UNCHANGED <<argv, js, n, counters, lists, failed>>

\* resize dereferences the NULL of image_new_from_jpeg.
NotAJpeg ==
  /\ pc = "resize"
  /\ ~Img.decodes
  /\ pc' = "crash"
  /\ UNCHANGED <<argv, js, n, counters, lists, pictures, temp, size, failed>>

Stopped ==
  /\ pc \in Ended
  /\ UNCHANGED vars

Next ==
  \/ ShowFile \/ CloseSite \/ NothingToClose
  \/ OpenSite \/ NoRoot \/ NoFirstGallery
  \/ KeepGallery \/ NextGallery \/ NoNextGallery
  \/ AddRecord \/ NullStream
  \/ SourceGone \/ Extract \/ NotCreated
  \/ Resize \/ NotAJpeg
  \/ Stopped

Spec == Init /\ [][Next]_vars

-----------------------------------------------------------------------------
(* Properties. *)

\* Every variable has its type.
TypeOK ==
  /\ argv \in Seq(Files) /\ Len(argv) <= MaxFiles
  /\ js \in BOOLEAN
  /\ n \in 0..Len(argv)
  /\ pc \in {"next", "web", "record", "extract", "resize"} \cup Ended
  /\ firstTime \in BOOLEAN
  /\ jsFirst \in BOOLEAN
  /\ webCount \in 0..Capacity
  /\ rootCount \in Nat
  /\ galleries \in Seq(Listing)
  /\ gallery \in 0..Len(galleries)
  /\ root \in Listing
  /\ pictures \subseteq Picture
  /\ temp \subseteq Number
  /\ size \in 0..n
  /\ failed \subseteq 1..n

\* The arrays are created by the first record of a gallery and by no other,
\* the records are numbered from 0 and hold at most 24 images, in the order of
\* the command line.  With -js the first gallery with a record lacks them.
WellNumbered(listing, header) ==
  \A i \in 1..Len(listing.records) :
    /\ listing.records[i].index = i - 1
    /\ listing.records[i].header = (i = 1 /\ header)
    /\ i > 1 => listing.records[i - 1].image < listing.records[i].image

FirstUsed(g) == \A h \in 1..(g - 1) : galleries[h].records = <<>>

GalleriesWellNumbered ==
  \A g \in 1..Len(galleries) :
    /\ Len(galleries[g].records) <= Capacity
    /\ WellNumbered(galleries[g], ~(js /\ FirstUsed(g)))

\* The index that ends a listing is that of its last record: the pages loop up
\* to it.  When every file could be opened the listing of the site is right
\* too, and at the end no listing lacks its index.
CountRight(listing) ==
  listing.count # NoCount => listing.count = Len(listing.records) - 1

CountsRight ==
  /\ \A g \in 1..Len(galleries) : CountRight(galleries[g])
  /\ failed = {} => CountRight(root)
  /\ (pc = "finished" /\ failed = {} /\ galleries # <<>>) =>
       /\ root.count # NoCount
       /\ \A g \in 1..Len(galleries) : galleries[g].count # NoCount

\* The page of the site links the root's record i to gallery i + 1 and shows
\* its image there: as long as every file could be opened there is one record
\* per gallery, that of its first image.
RootListsGalleries ==
  (pc \in {"next", "finished"} /\ failed = {}) =>
    /\ WellNumbered(root, TRUE)
    /\ Len(root.records) = Len(galleries)
    /\ \A g \in 1..Len(galleries) :
         /\ galleries[g].records # <<>>
         /\ root.records[g].image = galleries[g].records[1].image

\* Between two images, an image of the command line is in one gallery or was
\* given up, and every image that is listed has its pictures in that gallery,
\* unless its source was gone or its name has a directory in it.
PlacesOf(k) ==
  {g \in 1..Len(galleries) :
     \E i \in 1..Len(galleries[g].records) : galleries[g].records[i].image = k}

EveryImagePictured ==
  pc \in {"next", "finished"} =>
    \A k \in 1..n \ failed :
      /\ Cardinality(PlacesOf(k)) = 1
      /\ Image[argv[k]].inDir \/
           {p.gallery : p \in {q \in pictures : q.image = k}} = PlacesOf(k)

\* A picture is scaled to the dimensions of its own image or, when they are
\* not found, to the default ones.
SizedByItself ==
  failed = {} =>
    \A p \in pictures : p.size = IF Image[argv[p.image]].sof THEN p.image ELSE 0

\* The temp directory holds at most the thumbnail of the image at hand, so
\* that main can remove it when the site is closed.
TempEmptied == pc \in {"next", "finished"} => temp = {}

\* The listings that the pages loop over, of the galleries and of the site, are right.
ListingsRight == CountsRight /\ RootListsGalleries

\* Every listed image has its own pictures, and nothing else is left behind.
PicturesRight == EveryImagePictured /\ SizedByItself /\ TempEmptied

\* An image whose orientation says it is vertical is turned.  "Corrected a
\* problem, where the program was not rotating a JPG image with the -web
\* option" (d70reader.c, version 0.20).
VerticalTurned ==
  \A p \in pictures : Image[argv[p.image]].turned => p.turned

\* The galleries are the albums of the module Album, failures included: a
\* record is only added to the newest gallery, a full gallery is followed by a
\* new one, and no gallery is ever written again.
Albums ==
  [g \in 1..Len(galleries) |->
     [i \in 1..Len(galleries[g].records) |-> galleries[g].records[i].image]]

Contents == INSTANCE Album WITH Images <- Number, albums <- Albums
AlbumSpec == Contents!Spec
=============================================================================
