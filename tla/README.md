# A TLA+ model of D70Reader

D70Reader is a sequential C program for OS/2, Windows and Unix. It reads the
EXIF data of the files of its command line (NEF, the raw files of Nikon
cameras, and JPG), prints it as text, HTML, XML, CSV or JavaScript, extracts
the JPG image of a NEF (`-j`), removes the EXIF data of a JPG (`-rm`) and
makes a web site of galleries (`-web`).

There are no threads and no network. What is hard here is state: about eighty
global variables are shared by recursive functions and by all files of a run,
every function may end the program, and many return in the middle. The
properties say that what one directory, file or gallery leaves behind never
spoils the next one; where it does, a run shows how.

## Inventory

| Component | State it keeps | Operations | What is hard | What makes it correct |
|---|---|---|---|---|
| Directory walk, `dump_image_file_directory` | file position, byte order and its saved copy, make, model, base of the maker note, thumbnail range, list of directories | enter, one case per entry, recursive calls, return | recursion over globals and one `FILE` | each entry read from its place, in its own byte order; list in preorder; one thumbnail |
| Run, `main`, `ProcessFile`, `ProcessFileJPG`, `free_memory` | rows, directories, orientation, counters, open files | open, collect, walk, display, print, release | early returns, `exit`, state left for the next file | a report has the rows and orientation of its own file; every file is reported |
| Web site, `output_web`, `create_gallery`, `extract_thumbnail` | galleries, images.js files, counters, temp directory, size | open site, next gallery, record, extract, resize, close | counters and headers shared by galleries, failing `fopen` | pages, records, counts and pictures agree |
| Marker scans and `-rm` | position in the file, `MotorolaOrder` | scan to a marker, cut, write | no end-of-file test, 0 as "not found" | termination; what is kept and dropped |
| JPG writer of `-j` | offsets of SubIFDs, header length, resolution offsets | copy header, SubIFDs, software block, thumbnail; patch | 16-bit length, fixed array, offsets moved by rotation | offsets point to what they pointed to before |
| Old JPG writer of `-jold` | one list of all entries, directory and data being made | list, count, copy, write, turn | counted in one loop and copied in another; numbers of one byte order written in the other | every entry found, with its own data, read as in the NEF |
| Configuration | `d70reader.conf`, two lists of tags | write defaults, read, edit | the file outlives the run; names shared by tags; partial file | a written file reads back as the lists it was written with |
| Display and formatting, `display_data`, `extract_and_format_data` | rows | one case per tag | byte order, signs, codes found by prefixes | the text says what the file says |
| Row output, `output_csv`, `output_js` | "first time" flags | header, one record per image | a tag in several directories, missing rows | one cell per column of the header, of its own image |
| Resizing, rotation | pixels | reduce, bilinear resize, lossless rotation | a size computed in three places | page and picture agree |
| XMP bridge, `XAPDumper.cpp`, `XMPGizmos.cpp` | two linked lists per packet | parse, list, select | pointers kept across recursion, exceptions, several packets | rows of the last good packet, in order |
| IJG JPEG library, Adobe XMP SDK | | | | third-party, not modelled |

`main` calls `ProcessFile` for every file; this calls the marker scans, the
walk, `display_data` and the output functions in turn, and `output_web` last.
They communicate through globals only. `PROJECT.json` lists the components,
what each definition stands for in the source, and the hazards with the
property that would catch each.

## Modules

| Module | Models | Proofs |
|---|---|---|
| `IfdWalk` | the walk over the directories of one file | `IfdWalk_proofs` |
| `Batch` | a run over a command line, every option but `-web` | `Batch_proofs` |
| `Album` | abstract: what a site of galleries promises | |
| `Gallery` | a run with `-web`; implements `Album` | `Gallery_proofs` |
| `MarkerScan` | the scans over the segments of a JPG, and `-rm` | `MarkerScan_proofs` |
| `ThumbnailWriter` | `-j`: the walk of `dump_jpg_image_file_directory` and the JPG it leads to | `ThumbnailWriter_proofs` |
| `Config` | `d70reader.conf` and the two lists made from it, over several runs | `Records_proofs` |
| `Records` | from entries to rows and from rows to columns; extends `Config` | `Records_proofs` |
| `XmpBridge` | from an XMP packet to rows | `XmpBridge_proofs` |
| `OldWriter` | `-jold`: the list of all entries and the JPG made from it | `OldWriter_proofs` |
| `Values` | pure: the text of a small value, a code, a lens, a shutter speed | `Records_proofs` |
| `Pictures` | pure: the size of a picture and the pixels it is made of | `Gallery_proofs` |
| `MC...` | instances of these for TLC; `MCAlgorithms` evaluates `Values` and `Pictures` over bounded inputs | |

**IfdWalk.** `stack` is the C call stack, one frame per active call of
`dump_image_file_directory` with its base, its loop counters and the positions
it saves. `pos` is where the shared `FILE` stands: an entry is *read at `pos`*,
never at the loop counter, so that a position that is not restored has its
effect. `motorola`, `oldOrder`, `make`, `model`, `calc`, `thumbOff`,
`thumbLen` are the globals of the code. Each way an entry is handled is an
action: `PlainEntry`, `SetMake`, ..., `CallSubIfd`, `CallExif`,
`CallMakerNote`, `CallThumbIfd`; `Return`, `NextSubIfd` and `ResumeEntry` are
what the caller does afterwards. A file is a tree of named directories with the
byte order of the header that governs each; `WellFormed` says what cameras
write. A base is named by the header it is the position of.

**Batch.** One variable per global that several files share. `lists` holds
every row list ever allocated with whether it has been released, `start` and
`last` are the two pointers to it, so that a use after release can be seen.
The walk is one step with the ways it can end, which are those of `IfdWalk`.
Releasing a released list is undefined in C: the model goes on or crashes.
`texts` are those of `make_ptr`, `model_ptr` and `software_ptr` that are set; they outlive their file,
and a copy of one that is NULL ends the program (`NoText` in the walk, `NoSoftware` in the writer of `-j`).
The file system may refuse to make any output (`CopyNotOpened`, `ThumbnailNotCreated`) or to take its
data (`CopyNotWritten`, `ThumbnailNotWritten`): `-rm` then goes on to the next file, which the history
variables `refused` and `unwritten` record, and `-j` ends the program. `-rm` opens its output beside
the file it reads, so that it needs a second descriptor, and keeps it when the data is not taken.
The options `-xml`, `-html`, `-c` differ in layout only and are the mode
"table".

**Gallery.** `galleries` holds the contents of each gallery's images.js, whose
number is `iWeb_Gallery_count`; `root` the one of the site. Each `fopen` whose
failure the code handles may fail at any time (`NoRoot`, `NoFirstGallery`,
`NoNextGallery`, `SourceGone`, `NotCreated`), as may the decoding of a picture.
`size` is the image whose dimensions the globals hold. All of it is about the
rotating build, the only one in which `main` calls `output_web` (d70reader.c:668). `failed` is a history
variable: the images `output_web` gave up on.

`Album` says the same in five lines: images go in order into the newest
gallery, and a new one is opened only when that is full or empty. The
refinement mapping of `Gallery` (`Albums`) reads the images from the records.

**MarkerScan.** A file is a sequence of segments and the positions they start
at; a read elsewhere finds an arbitrary header (`junk`), a read past the end
zeros. `SkipSegment`, `Found` and `StartOfScan` are one turn of the loop of
each of the four scan functions, which differ in what they look for, the size
of the structure they read and what they restore; the other actions are the
steps of `ProcessFile` and `remove_exif` between scans. Lengths are read with
`Get16u` in the order `motorola`, as 16-bit numbers. `Batch` has the same steps
with their outcomes only.

**ThumbnailWriter.** The walk keeps a `stack` of directories with the entry each is at; the
record `g` holds the globals it sets, which outlive the file, and `out` the JPG
being written. A position is that of a byte in the NEF or in the JPG before it is
turned. `rotates` says which of the two builds the program is (`ALLOW_ROTATE`): both count
18 bytes into the offsets of a vertical image, but only the rotating one runs jpegtran. In the other one
`update_sub_ifd_offset` gets a NULL for the file name, and ends the program, when a vertical image has
SubIFDs (`NoTmpName`). `g.x`, `g.y` and the copied entries are kept as they are in
the file; `Get32u` and `Stored` convert them by the byte order at that moment, as
32-bit numbers. What comes after the SubIFDs in the JPG (software, image) has its
place from the bytes written so far. `shift` is what jpegtran does to the file
when it turns it: it adds a JFIF header of 18 bytes (external). An entry read in
the wrong byte order has a tag nobody knows. `WellFormed` says what the cameras
write: IFD0 at 8, SubIFDs at places of their own and in the order of IFD0, each tag in
its directory, at most 64 entries and at most four SubIFDs. Where the file
position stands during the walk is the subject of `IfdWalk`. Pointers and `long`
are taken to be of 32 bits, as in the program's builds.

**Config.** `lines` is the file, `stream` what was written to it and is still in
the buffer of the `FILE`; it survives from run to run. `WriteTag` is one turn of the loop over
`TagTable`, `ReadLine` one of that over the file; both store the tag in `wanted` and `all`. A
tag is stored under the *first* entry of the table that has the name, as in `store_tags`.
`Torn` is what may be in a file that was not written to the end: a prefix, with a last line
that may miss its "yes". The user's `Edit` and `DeleteFile` and the end of a run by
the system (`Killed`) are external.

**Records** composes `Config` with a run over images: `CheckForConfig` first, then
`BeginFile`, one `ShowEntry` for every entry of every directory, `ShowXmp`, `SetWidth` and
`SetLength` of `get_sof0_data` for `-web`, and `PrintRecord`. `Columns` are the tags of
the file that are wanted. A value is known by the image and the entry it
comes from, so that a row of another image, of a wrong directory or from
released memory (`Junk`) can be told apart. `-c`, `-js` and the records of `-web`
have the same columns and are one action.

**XmpBridge.** A file is what the scanner of the SDK finds in it: snips that are packets
or padding. A packet is its properties in document order with their depths, which is the order
in which the recursive calls of `DumpSubtree` meet them; `calls` is that recursion, with the head
and the end of the list of each call. `heap` holds the elements with their `next`; `from` is the
pointer of the second loop. `Visit` and `Return` are the two halves of one turn of the loop in
`FancyDumpMetaXAP` and in `DumpSubtree`, which differ in `EndAfterSub` only. What
`enumerate`, `parse` and the scanner do is the SDK's.

**OldWriter.** `stack` is the recursion of `dump_jpg_image_file_directory`, `list` the nodes of
`start_header_ptr`; an entry is put in the node at the end of the list, whichever call comes to
it, and a blank one is appended after it, so that the first entry of a nested directory overwrites the
node of the entry that leads there. `CopySmall` and `CopyData` are the two branches of the copying loop.
The four bytes of an entry are kept as they are in the file; `Number` and `FourOf` say which are
written. `ALLOW_ROTATE` is a constant of the build (`rotates`). `output_thumbnail_old` does not
initialise `ulOrientation`: `Leftovers` is what may be in it.

**Values, Pictures.** The operators are those of the code, on sequences of bytes and on integers; a
number is a sequence of bytes, so that 32 bits need no arithmetic, and a decimal is counted in
millionths, the six digits of `%f`. Beside them stands what the text or the size *should* be, with the cases in
which the code differs as operators of their own (`ReadAsMM`, `WrongSign`, `AfterIso`, `LikeAnother`,
`Distorted`): everything outside of these is right. The resizing is done in C floats. In `Pictures` a
float is a whole number of units so small that every float is one; `Float` rounds a quotient to the
nearest of the `Significands` numbers between two powers of two, the even one from the middle, as each
operation of the code does, and `Covered` counts `(int)` values up to the float of the next pixel's
beginning. With 2^24 significands it gives 3207 columns for a width of 3206 reduced to 800, the last of them
outside of the image: `LastFor` allows the last pixel that one column, which `get_pix` makes black, and no
other pixel any. A build that keeps intermediate results in wider registers is one with more significands,
as long as all of them are kept alike; a mixture of the two is not modelled.

## Runs

| Run | Shows | Properties |
|---|---|---|
| `ifd_first` | the walk over one file, the first of a run | `PositionRestored`, `ByteOrderRight`, `SharedGlobalsRight`, `ListedInPreorder` (against the preorder as a recursive function), `WalkEnds` (liveness) |
| `batch` | a run over a command line | `ReportOwnRows`, `OwnOrientation`, `RowsReleasedOnce`, `JsNumbered`, `AllReported` |
| `gallery` | the site | `GalleriesWellNumbered`, `ListingsRight`, `PicturesRight`, `AlbumSpec` (refinement) |
| `scan` | the scans, for a report, `-web` and `-rm` | `ScanRight`, `LeftAsFound`, `SegmentsRead`, `CopyFromTables`, `ScansEnd` (liveness) |
| `scan_cut` | finding: a scan of a file that is cut off does not end | `AlwaysAnswers` |
| `thumbnail` | the JPGs that `-j` writes | `SubIfdsLinked`, `TagsLinked`, `SegmentEnds`, `RangesOwn` |
| `records` | two runs with their configuration | `DefaultsReadBack`, `ColumnsAsConfigured`, `OwnCells` |
| `records_size` | finding: the size of a page is not what is recorded | `SizesShown` |
| `xmp` | the rows of packets | `RowsAsShown`, `LastPacketShown` |
| `xmp_lost` | finding: tagged properties are lost | `AllTaggedShown` |
| `oldwriter` | the JPGs that `-jold` writes | `EntriesFound`, `ContentsRight` |
| `algorithms` | texts and sizes over bounded inputs | `TextsRight`, `PicturesFit` |

Every passing run but `algorithms` checks its type invariant too. Some properties
are conjunctions of parts with a name and a comment of their own:
`SharedGlobalsRight` is `ThumbnailBase`, `ThumbnailPair` and `OnlyNikonMakerNotes`;
`ListingsRight` is `CountsRight` and `RootListsGalleries`; `PicturesRight` is `EveryImagePictured`,
`SizedByItself` and `TempEmptied`; `SegmentsRead` is `CameraFileRead`, `HeightOwn` and
`PacketWhole`; `RangesOwn` is `HeaderOwn` and `ImageOwn`; `ContentsRight` is `ValuesRight` and
`ImageRight`.

**Further configurations.** Eight cfgs of the directory are no runs of `PROJECT.json`; each
shows a place where the program departs from what its documents or its own text says:

| cfg, module | Violates | Because |
|---|---|---|
| `ifd_stale.cfg`, `MCIfdWalk` | `OnlyNikonMakerNotes` | `make_ptr` outlives its file and is not set by a short Make (d70reader.c:2100; history, d70reader.c:70) |
| `batch_exit.cfg`, `MCBatch` | `GoesOn` | a bad header calls `exit(1)` (d70reader.c:2300; history, d70reader.c:52-54) |
| `batch_plain.cfg`, `MCBatch` | `GoesOn` | without a collecting option a list is released twice (d70reader.c:857) |
| `batch_open.cfg`, `MCBatch` | `AnyNumberReported` | returns without `fclose` use up the descriptors (d70reader.c:451, 469, 527), for `-rm` two files before the last (d70reader.c:5705-5718; README:138-140) |
| `thumbnail_still.cfg`, `MCThumbnailWriter` | `BitsFixed` | without rotation the bits per sample of a vertical image are looked for 18 bytes behind them (d70reader.c:6322, 5976; build_os2.cmd:7; "fix some additional tag offsets", d70reader.c:6301) |
| `gallery_turned.cfg`, `MCGallery` | `VerticalTurned` | nothing sets `iDoRotate` (d70buildweb.c:788; history, d70reader.c:94-95) |
| `scan_removed.cfg`, `MCMarkerScan` | `OnlyExifRemoved` | `-rm` drops every segment before the first table (d70reader.c:5688; README:28) |
| `records_torn.cfg`, `MCRecords` | `DefaultsComeBack` | a configuration file that was not written to the end is read as complete |

**Bounds.** `ifd_first` covers every combination of a header's byte order, a
Make (none, Nikon, other, short), two models, zero to two SubIFDs, a maker note
of either byte order or with a bad header, a second one in a SubIFD, a thumbnail
directory in a maker note, and an empty directory at two depths. Two SubIFDs are
enough for a loop step between two calls and one after the last; the nesting
reaches IFD0, EXIF, maker note, thumbnail. `batch` has command lines of up to
four files (`MaxFiles`) out of twelve, one for each way a file can end, and
three descriptors (`MaxOpen`; C guarantees eight, and no file takes more than three at once): what a
file can do to the next shows with two, and with four the files before the last can use up all
descriptors, or all but the one that `-rm` needs for its output. `gallery` has
galleries of two images (`Capacity`, 24 in the code) and five images, so that
two galleries are filled and a third is begun, with any failure on the way.
`scan` has JPGs with and without a JFIF segment,
of 16 bytes or longer, EXIF data, XMP packets and a colour profile in either
order, and the tables and frames of the picture in seven orders, and NEFs with
the latter; all lengths have two different bytes, so that a wrong byte order
leads elsewhere. `thumbnail` has every NEF of either kind of model, with software of a
camera, of Nikon Capture or none, upright or turned, with both byte orders
outside and inside the maker note, in both builds, zero to three SubIFDs, and a preview that is
missing, near, or beyond what a segment can hold; and all pairs of
eight typical files, a JPG, a NEF without EXIF data and one with a bad maker note
among them. Two files suffice to show what the first leaves in the globals, since
`g` is all that is kept and each field is either set by the second file or not.

`records` has a table of six entries, with one name twice as `TagTable` has,
of which four are defaults; two runs (`MaxRuns`), one edit (`MaxEdits`) and two images
per run (`MaxFiles`): one run to write the file and one to read it, one image to print the header and
one that must fit it. `xmp` has every nesting of up to five properties (`MaxProps`), which is a list, a
nested list, an element after it, and one more on either level; and pairs and triples of snips made of short packets.
`oldwriter` has NEFs of about fifteen entries in five directories, in all byte orders, with data that fits
the buffer of 1024 bytes and data that does not. `algorithms` evaluates all byte orders, types and counts with
bytes that tell the positions apart, all codes, all shutter speeds from 1/2 to 1/8000, and all pictures with
sides up to 24 (`MaxSide`) on pages of 12 (`LARGE_IMAGE_LENGTH`, 800 in the code), so that they are reduced and
enlarged in every ratio up to 24:3 and 1:12. The floats have nine binary digits (`Significands`, 24 in
the code), few enough that rounding shows at these sides: 296 of the reductions visit a column
outside of the image and 44 a row.

**Fairness.** `IfdWalk` and `MarkerScan` state weak fairness of the whole next-state
relation: one thread that waits for nothing keeps running. The other modules state none and no liveness:
what they do is bounded by the files of the command line. `WalkEnds` is about files whose directories form a tree;
the code has no check for a cycle and recurses without end on one. `ScansEnd` is about
complete files, those with a scan header (SOS); `scan_cut` shows the others.

## Proofs

All theorems hold for every value of the constants: any files, any depth and
size of directories, any command line, any capacity. The assumptions are those
named `...Assumption` in the modules: types of the constants, what floats are, and for the
walk that its files are well formed.

- `IfdWalk_proofs`: `TypeCorrect`, `PositionCorrect`, `ByteOrderCorrect`, `BaseCorrect`,
  `SharedGlobalsCorrect`, `PreorderCorrect`. The
  step invariant says for *every* frame of the stack, not only the innermost,
  that the positions it saved are those after its current entry and that the
  frame above belongs to a directory its entry leads to; and that at most one
  frame of the stack is in a maker note entry, with the order it must restore in
  `oldOrder`. Without these a return could not be shown to restore anything. The
  latter rests on well-formedness: a maker note never holds another.
  `SharedGlobalsCorrect` has two hypotheses, which TLC checks of the files of both runs:
  the tags of a directory ascend (`TagsInOrder`), as TIFF demands, and no text in memory
  before the run is a Nikon make. `BaseInv` says that every directory of the stack from the
  maker note inwards is at home at `calc`, `PairInv` that the two halves of the thumbnail differ only between
  their two entries, `CameraInv` that with another camera's make no maker note is on the stack.
  `PreorderCorrect` is about every moment of the walk: the list is a beginning of the preorder of the directories,
  which an empty directory cuts short where the preorder has it. Its hypotheses, checked by TLC of the files of both runs,
  are that no directory leads back to itself (`NoCycle`; on a cycle the walk has no end and the preorder no value), and
  that Make and Model precede the links of IFD0 and stand nowhere else (`CameraFirst`; the walk decides what it follows by
  the make it knows so far). `ListInv` gives every active call its place in the preorder: the tree of a call is a
  part of the tree of its caller, behind the trees of the entries and SubIFDs that the caller has passed, and the list ends
  where the innermost call stands. That the preorder, a recursive function over directories, exists, and what `FlattenSeq`
  yields for any number of sequences, is again shown by minimal counterexamples: a directory without a preorder
  that leads to none without one, and a shortest sequence of sequences.
- `Batch_proofs`: `TypeCorrect`, `RowsCorrect`, `ReleaseCorrect`,
  `OrientationCorrect`, `NumberingCorrect`, `ReportingCorrect`. `RowsInv` says what is listed at
  every point of `ProcessFile`: nothing between two files, then the name, then
  the name with the tags and the packet of the file at hand; and that with a
  collecting option exactly one list is alive, at `start` and `last`. For `AllReported` the
  descriptors in use are counted from the files before the one at hand and from the copies that took no
  data, and the reports made are those of reportable files that found their descriptors, one or
  two, and that the file system did not refuse. That a program which ended did so for a cause that
  `EndsProgram` names is shown step by step from what each file sets of `texts`.
- `Gallery_proofs`: `TypeCorrect`, `NumberingCorrect`, `ListingsCorrect`, `PicturesCorrect`,
  `SizesCorrect`, and `ImplementsAlbum`, the refinement. The inductive invariant relates `webCount` and the open gallery to
  the records of the newest gallery, and says that the images listed so far
  are of files before the one at hand; for the pictures, that every file before it that did not
  fail has its place in one gallery and its two pictures, of its own size. `SizesCorrect` is about
  `Pictures`, for every length of a page, every size of an image and every precision of the floats that
  `FloatAssumption` allows (of which 2^24, 800 and 65535 are one): sixteen times as many significands as a side has pixels,
  spacings that are powers of two and reach far enough. A float is off by at most half its spacing,
  and so by less than one part in `Significands` of itself (`FloatNear`); hence a pixel begins within 3/16 of a column of
  where it should (`StartNear`) and ends within 7/16 (`EndNear`), which leaves no column out, gives each pixel one, and keeps
  all but the last pixel inside. `PageFits` bounds what is reduced to.
  The products and quotients of two variables, which the SMT solver cannot do at once, are
  divided into lemmas of one product each.
- `MarkerScan_proofs`: `TypeCorrect`, `ScanCorrect`, `NoTrace`, `CopyCorrect`, `SegmentsCorrect`,
  `CameraFilesRead`. `ScanInv` says that a scan of a complete file stands at the
  start of a segment and has passed no segment of the kind it looks for, which
  makes the first match the first in the file; it rests on `MotorolaOrder` being
  set during a scan. A second invariant says what each stage of `ProcessFile`
  has looked for and what the scans gave back.
- `ThumbnailWriter_proofs`: `TypeCorrect`, `SegmentCorrect`, `LinksCorrect`, `TagsCorrect`, `RangesCorrect`.
  `SubsInv` says
  that every element of `ul_sub_ifd_array` is the position of a SubIFD of the NEF
  at hand, because it is cleared between files; so each SubIFD that is added has at most
  64 entries. `SegmentInv` bounds what is written before the image from the end of
  the header: 61439 + 12 + 4 * 772 + 128 bytes fit in 16 bits, so
  that the limit 0xEFFF leaves enough room. `TagsCorrect` is about both builds: no vertical image
  with SubIFDs is finished without rotation, so that only its bits per sample are 18 bytes off; in every other case what
  was added is what jpegtran adds.
  `WalkInv` says what the stack of the walk can look like
  and which byte order each frame restores, which elements of the array are set and which
  resolution the writer has noted; with it `LinkInv` gives the links of every SubIFD written
  so far, and `RangeInv` the ranges: behind the entry for the model, the software, the
  maker note, the preview or a SubIFD's image, the global has what that entry gave it. That an entry is behind needs the
  first entry with a tag, which is there since the naturals are well-founded. The attempt to prove `RangesOwn`
  showed that `ImageOwn` as first stated was not true of every NEF: the model must be
  known before the maker note is read, and a D100's preview is only used when no directory
  outside the maker note's names an image. These are now its hypotheses, and NEFs meet them.
- `XmpBridge_proofs`: `LastPacketCorrect`, `RowsCorrect`, `TypeCorrect`. `PacketInv` says that the loop has met no packet
  behind that of the result. `OrderInv` says that an element is only linked to a younger one, and that
  a call that waits is at an element older than all those of the call it waits for; it
  needs nothing of `LastOf`, so a wrong end of a list may lose rows but never repeats or disorders them. Which rows there are
  takes `DumpInv`: the calls that wait are at the ancestors of the property made last, the list of each call has exactly the
  properties behind the one its caller is at that are not yet lost (`Kept`), each linked to the next of them, and the last
  call takes for its end the property made last, or NULL if that is a grandchild: what is there is then lost with the
  next property. What `LastOf`, a recursive function, finds is shown by a minimal counterexample, counted from the end of the heap.
- `Records_proofs`: `TypeCorrect`, `DefaultsCorrect`, `ColumnsCorrect`, `CellsCorrect`, `TextsCorrect`. `Kept`, the elements of a
  list that are wanted, is a recursive function; that it exists, and what its values are, is shown by a minimal
  counterexample from the well-foundedness of the naturals. `FileInv` and `ReadInv` say that each line of an undisturbed file
  stands for the default tag of its number, which needs of the table that no entry before that of
  a default tag has its name (`NamesAssumption`; the tags of `TagTable` that share a name are such that it holds). `RowInv`
  says at every entry of a directory that a tag has no row and none of the entries passed shows it, or that its first row
  is of the first entry that does; `AllRowsInv` says the same of the image with its packet, and is what a column reads.
  `TextsCorrect` is about `Values` and the inputs of `MCAlgorithms`; the theorems it rests on
  say more: `SmallsRight` and `HexesRight` hold for all bytes, where TLC takes three or four values of each, `LensesRight` for
  all focal lengths and apertures, and `ShuttersRight` for all exposures to 1/8000, the shortest of the camera and the
  assumption on `MaxShutter`. For the exposures, the distance of the number shown from the
  true one is bounded through both roundings (`Rounding`, `Deviation`). For the codes, each table is
  reduced to what its rows begin with (`Tables`, `FlashTable`), and no two-digit code of the
  flash begins one of three digits up to 127.
- `OldWriter_proofs`: `TypeCorrect`, `EntriesCorrect`, `ContentsCorrect`. `StackInv` says that the node at the end of the
  list is filled only while an entry of IFD0 is being followed, so that it is empty when `count_tags` leaves it out.
  `Counted` says at every node of the loop that the header has as many entries as there are copied nodes before it and
  that `offset` is behind the data so far; that sums of numbers grow, one by one, is again shown by a minimal counterexample.
  `ValueInv` says what was done with each value, and a case analysis of order, units and size does the rest, from
  `FieldsAssumption`: the numbers that the writer knows have the types that EXIF gives them. For the image, `PathInv` says that a
  call waits in the entry that leads to the next. Of most cameras `ulThumbOffset` is that of SUB_IFD0 or not yet set (`SubsInv`); of a
  D100 or a D2H it is that of the thumbnail as soon as one entry on the way to it is passed (`MakerInv`), because no SubIFD
  is followed after EXIF. Both rest on where NEFs have these tags (`PlacesAssumption`, `OldImageAssumption`).

Every invariant that a passing run checks is a theorem. `SizesCorrect` and `TextsCorrect` are about the
specification of `MCAlgorithms`, `Evaluation`: its sides, exposures and page length are parameters, its bytes, codes and
lenses the sets that module lists. Model-checked only are the liveness properties `WalkEnds` and
`ScansEnd`, since liveness under fairness is out of the prover's reach.

## Findings and what else was seen

`PROJECT.json` has three findings with their lines: a scan that does not end (`scan_cut`), a
recorded size that is read from released memory (`records_size`), XMP properties that are lost
(`xmp_lost`). The further configurations above show eight more departures. The modules also
state, as the exceptions their properties name:

- XMP: a packet of one property follows NULL, as does a segment without a good packet; a date without a time ends the
  loop over the packets.
- `-jold`: the length of the segment is stored in the byte order of the NEF, so that it is wrong for one in the order II; the
  orientation in IFD0 is passed over, so that `ulOrientation` may never be set (README:172 says "automatically
  rotated"); data beyond 1024 bytes runs over the buffer; a NEF without software ends the program;
  short texts and unknown short numbers of the order MM are not converted.
- Texts: one, two or four characters, pairs of numbers and SBYTEs of the order II are read as if they were MM; a
  LONG has a sign and an SSHORT none; shutter speeds above 1/1000 are off by up to one in 200 (1/3200 reads 1/3195); metering mode 255
  reads "Center-weighted average"; lens types are told by their first hexadecimal digit.
- `-j`: a NEF without software, unless an earlier file had some, ends the program with a copy of NULL (d70reader.c:5782);
  so does, with `exit(1)`, an output that cannot be made or takes no data, and the files behind it are not extracted.
- `-j` without rotation (`bin/d70reader_no_rotate.exe`): a vertical image with SubIFDs ends the program, since the name of
  the file to link them in is NULL (d70reader.c:5969).
- Pictures: an enlarged picture mixes in black at its right and lower edge, and a reduced one may average in one black column
  or row in its last pixels, by the rounding of floats (3206 to 800); a JPG that should be turned, and a NEF whose
  size stands although it is turned, have pages of another shape than the file.
- A configuration file from which no line names a tag makes `-c` and `-js` follow NULL.

## Not modelled, and the plan

Markup, pages, colours and the texts of values longer than four bytes are left out, since no property is about them.
The IJG library (`jpeglib`) and the Adobe XMP SDK are vendored: they are nine tenths of the lines of
the repository, and of the program's own lines about half are tracing, printing of markup and the second
copy of the cases of `display_data` for tracing. The build scripts and the RCS history have no state. What
is left to do is the tracing, the markup and the longer texts, should a property ever be about them.
