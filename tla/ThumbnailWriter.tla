-------------------------- MODULE ThumbnailWriter --------------------------
(***************************************************************************)
(* The option -j: ProcessFileJPG walks over the directories of each NEF of *)
(* the command line (dump_jpg_image_file_directory) and output_thumbnail   *)
(* writes its JPG image to a file of its own, with an EXIF header copied   *)
(* from the NEF.  What moved in the copy is linked again: the SubIFDs, the *)
(* resolutions, the bits per sample, the software.  jpegtran then turns a  *)
(* vertical image, which moves everything by another 18 bytes; a build     *)
(* with ALLOW_ROTATE=0 leaves the image, but adds the 18 all the same.     *)
(*                                                                         *)
(* Positions are those of bytes in a file, of the JPG before it is turned. *)
(* How a call returns to the entry after its own is the subject of IfdWalk.*)
(***************************************************************************)
EXTENDS Integers, Sequences

CONSTANT Lines    \* the command lines that may be given: sequences of files

SubIfd == <<"SUB_IFD0", "SUB_IFD1", "SUB_IFD2", "SUB_IFD3">>
SubNames == {"SUB_IFD0", "SUB_IFD1", "SUB_IFD2", "SUB_IFD3"}
Dirs == {"IFD0", "EXIF", "MAKER_NOTES", "THUMBNAIL"} \cup SubNames

Tags == {"Bits", "Model", "Orientation", "XResolution", "YResolution", "Software",
         "SubIfds", "Exif", "MakerNote", "ThumbIfd", "ThumbOffset", "ThumbLength", "other"}

\* value is the number or the offset that the entry holds.
Entry == [tag : Tags, value : Nat]

\* old is TRUE for the models D100 and D2H; order is the byte order of each
\* directory (TRUE: MM) and at its position; subs is the number of SubIFDs; note
\* says whether the maker note begins with a header; junk is what is read at a
\* position where no directory is.
File == [kind : {"nef", "jpg", "other"}, old : BOOLEAN, software : {"Capture", "camera"},
         dirs : [Dirs -> Seq(Entry)], order : [Dirs -> BOOLEAN], at : [Dirs -> Nat],
         subs : 0..4, note : BOOLEAN, junk : Nat]

Entries(f, d, tag) == {n \in 1..Len(f.dirs[d]) : f.dirs[d][n].tag = tag}
First(S) == CHOOSE n \in S : \A m \in S : n <= m
Value(f, d, tag) ==
  IF Entries(f, d, tag) = {} THEN 0 ELSE f.dirs[d][First(Entries(f, d, tag))].value
Once(f, d, tag) == \E n \in 1..Len(f.dirs[d]) : Entries(f, d, tag) = {n}

\* The maker note begins with 10 bytes before its header.
NoteBase(f) == Value(f, "EXIF", "MakerNote") + 10

MaxEntries == 64                  \* of one directory

\* Where a NEF has each tag.
InPlace(f, d, tag) ==
  CASE tag = "SubIfds" -> d = "IFD0" /\ f.subs > 0
    [] tag \in {"Model", "Software", "Exif"} -> d = "IFD0"
    [] tag = "MakerNote" -> d = "EXIF"
    [] tag = "ThumbIfd" -> d = "MAKER_NOTES"
    [] tag = "Orientation" -> d # "THUMBNAIL"
    [] OTHER -> TRUE

WellFormed(f) ==
  /\ f.at["IFD0"] = 8
  /\ \A d \in SubNames : f.at[d] # 0 /\ f.order[d] = f.order["IFD0"]
  /\ \A c, d \in SubNames : c # d => f.at[c] # f.at[d]
  /\ f.order["EXIF"] = f.order["IFD0"] /\ f.order["THUMBNAIL"] = f.order["MAKER_NOTES"]
  /\ \A tag \in {"Bits", "Model", "XResolution", "YResolution"} : Once(f, "IFD0", tag)
  /\ f.subs > 0 => Once(f, "IFD0", "SubIfds")
  /\ \A d \in Dirs :
       /\ Len(f.dirs[d]) <= MaxEntries
       /\ \A n \in 1..Len(f.dirs[d]) : InPlace(f, d, f.dirs[d][n].tag)

ASSUME LinesAssumption ==
  \A l \in Lines : l \in Seq(File) /\ \A n \in 1..Len(l) : WellFormed(l[n])

-----------------------------------------------------------------------------
VARIABLES
  line,     \* the command line; never changes
  rotates,  \* ALLOW_ROTATE, of the build
  i,        \* the file at hand
  pc,       \* how far ProcessFileJPG and output_thumbnail are
  stack,    \* the calls of dump_jpg_image_file_directory, the innermost first
  g,        \* the globals that the walk sets and the writer uses
  out       \* the JPG being written

vars == <<line, rotates, i, pc, stack, g, out>>

F == line[i]

Frame == [dir : Dirs, n : Nat \ {0}, sub : 0..4]
NewFrame(d) == [dir |-> d, n |-> 1, sub |-> 0]

\* A value as it is in the file, in the byte order given.
Raw == [value : Nat, order : BOOLEAN]

\* Of the SubIFDs, at most four.
Offsets == [1..4 -> Nat]

\* In this order: MotorolaOrder, old_byte_order, ulGlobalOrientation, model_ptr,
\* software_ptr, tag_thumbnail_ifd_offset, lThumbnailOffset, lThumbnailLength,
\* calc_maker_note_header_offset, ul_sub_ifd_array, ul_global_XResolution_offset,
\* ul_global_YResolution_offset.
Globals == [order : BOOLEAN, oldOrder : BOOLEAN, orientation : Nat, old : BOOLEAN,
            software : {"none", "Capture", "camera"}, thumbIfd : Nat, thumbOffset : Nat,
            thumbLength : Nat, calc : Nat, subs : Offsets, x : Raw, y : Raw]

\* end: lHeaderEndOffset; size: the bytes written so far; k: the next of the
\* SubIFDs; subs: where they were written (ul_local_sub_ifd_array), x and y: the
\* resolutions in them; softwareAt: ul_gobal_software_postion; imageAt: position;
\* image: the bytes of the NEF written there; length: of the EXIF segment; ifd0:
\* the values of the copied IFD0; links: the pointers to SubIFDs with their
\* positions; shift: how far jpegtran moved everything.
Image == [from : Nat, length : Nat]
Word == {n \in Nat : n < 65536}    \* an unsigned short
Link == [at : Int, value : Nat]
Links == SUBSET Link
Jpg == [end : Nat, size : Nat, k : 1..5, subs : Offsets, x : Offsets, y : Offsets,
        softwareAt : Nat, imageAt : Nat, image : Image, length : Word, ifd0 : Seq(Nat),
        links : Links, shift : {0, 18}]

Zeros == [k \in 1..4 |-> 0]
NoJpg == [end |-> 0, size |-> 0, k |-> 1, subs |-> Zeros, x |-> Zeros, y |-> Zeros,
          softwareAt |-> 0, imageAt |-> 0, image |-> [from |-> 0, length |-> 0],
          length |-> 0, ifd0 |-> <<>>, links |-> {}, shift |-> 0]

Init ==
  /\ line \in Lines /\ rotates \in BOOLEAN /\ i = 1 /\ pc = "open" /\ stack = <<>>
  /\ g = [order |-> FALSE, oldOrder |-> FALSE, orientation |-> 0, old |-> FALSE,
          software |-> "none", thumbIfd |-> 0, thumbOffset |-> 0, thumbLength |-> 0,
          calc |-> 0, subs |-> Zeros, x |-> [value |-> 0, order |-> FALSE],
          y |-> [value |-> 0, order |-> FALSE]]
  /\ out = NoJpg

-----------------------------------------------------------------------------
(* ProcessFileJPG: opening a file.                                          *)

\* stat or fopen fails.
NotOpened ==
  /\ pc = "open" /\ i <= Len(line)
  /\ i' = i + 1
  /\ UNCHANGED <<line, rotates, pc, stack, g, out>>

\* A JPG by its name, or a header that is not of a NEF: exit.
Refused ==
  /\ pc = "open" /\ i <= Len(line) /\ F.kind # "nef"
  /\ pc' = "exit"
  /\ UNCHANGED <<line, rotates, i, stack, g, out>>

Open ==
  /\ pc = "open" /\ i <= Len(line) /\ F.kind = "nef"
  /\ g' = [g EXCEPT !.order = F.order["IFD0"]]
  /\ stack' = <<NewFrame("IFD0")>>
  /\ pc' = "walk"
  /\ UNCHANGED <<line, rotates, i, out>>

Over ==
  /\ pc = "open" /\ i > Len(line)
  /\ pc' = "done"
  /\ UNCHANGED <<line, rotates, i, stack, g, out>>

-----------------------------------------------------------------------------
(* dump_jpg_image_file_directory, one step per entry.                       *)

Top == Head(stack)
D == Top.dir

\* In the wrong byte order no tag is known.
Unread == [tag |-> "other", value |-> 0]
Seen == IF g.order = F.order[D] THEN F.dirs[D][Top.n] ELSE Unread

AtEntry == pc = "walk" /\ Top.n <= Len(F.dirs[D])
At(tag) == AtEntry /\ Seen.tag = tag

Next1 == <<[Top EXCEPT !.n = @ + 1, !.sub = 0]>> \o Tail(stack)
NextEntry == stack' = Next1 /\ UNCHANGED <<line, rotates, i, pc, out>>
Call(d) == stack' = <<NewFrame(d)>> \o Next1 /\ UNCHANGED <<line, rotates, i, pc, out>>

SetModel == At("Model") /\ g' = [g EXCEPT !.old = F.old] /\ NextEntry
SetSoftware == At("Software") /\ g' = [g EXCEPT !.software = F.software] /\ NextEntry
SetOrientation == At("Orientation") /\ g' = [g EXCEPT !.orientation = Seen.value] /\ NextEntry
SetThumbnailLength ==
  At("ThumbLength") /\ g' = [g EXCEPT !.thumbLength = Seen.value] /\ NextEntry

SetThumbnailOffset ==
  /\ At("ThumbOffset")
  /\ g' = [g EXCEPT !.thumbOffset = Seen.value,
                    !.thumbIfd = IF D = "SUB_IFD0" THEN Seen.value + g.calc ELSE @]
  /\ NextEntry

\* The offsets are kept as they are in the file.
SetResolution ==
  /\ At("XResolution") \/ At("YResolution")
  /\ D = "IFD0"
  /\ LET raw == [value |-> Seen.value, order |-> F.order[D]]
     IN  g' = IF Seen.tag = "XResolution" THEN [g EXCEPT !.x = raw] ELSE [g EXCEPT !.y = raw]
  /\ NextEntry

\* Followed with dump_image_file_directory, for a D100 or D2H only.
SetThumbIfd ==
  /\ At("ThumbIfd")
  /\ g' = [g EXCEPT !.thumbIfd = Seen.value + g.calc]
  /\ IF g.old THEN Call("THUMBNAIL") ELSE NextEntry

CallExif == At("Exif") /\ Call("EXIF") /\ UNCHANGED g

CallMakerNote ==
  /\ At("MakerNote") /\ F.note
  /\ g' = [g EXCEPT !.oldOrder = g.order, !.order = F.order["MAKER_NOTES"],
                    !.calc = Seen.value + 10]
  /\ Call("MAKER_NOTES")

\* inspect_image_file_header ends the program.
BadMakerNote ==
  /\ At("MakerNote") /\ ~F.note
  /\ pc' = "exit"
  /\ UNCHANGED <<line, rotates, i, stack, g, out>>

\* A single SubIFD is not followed: its offset is in the entry (ByteCount > 4).
Followed == IF F.subs > 1 THEN F.subs ELSE 0

CallSubIfd ==
  /\ At("SubIfds") /\ Top.sub < Followed
  /\ LET k == Top.sub + 1
     IN  /\ g' = [g EXCEPT !.subs = [@ EXCEPT ![k] = F.at[SubIfd[k]]]]
         /\ stack' = <<NewFrame(SubIfd[k]), [Top EXCEPT !.sub = k]>> \o Tail(stack)
  /\ UNCHANGED <<line, rotates, i, pc, out>>

PlainEntry ==
  /\ \/ At("Bits") \/ At("other")
     \/ (At("XResolution") \/ At("YResolution")) /\ D # "IFD0"
     \/ At("SubIfds") /\ Top.sub = Followed
  /\ NextEntry /\ UNCHANGED g

OrderAfter == IF D = "MAKER_NOTES" THEN g.oldOrder ELSE g.order

Return ==
  /\ pc = "walk" /\ Top.n > Len(F.dirs[D])
  /\ g' = [g EXCEPT !.order = OrderAfter]
  /\ stack' = Tail(stack)
  /\ pc' = IF Tail(stack) = <<>> THEN "end" ELSE "walk"
  /\ UNCHANGED <<line, rotates, i, out>>

-----------------------------------------------------------------------------
(* output_thumbnail: the header.                                            *)

Write(label) == pc' = label /\ UNCHANGED <<line, rotates, i, stack, g>>

\* get_header_end_offset: the offset of the preview image, in the directory that
\* the maker note has for it.
PreviewOffset ==
  IF F.at["THUMBNAIL"] = g.thumbIfd /\ F.order["THUMBNAIL"] = g.order
  THEN Value(F, "THUMBNAIL", "ThumbOffset") ELSE F.junk

\* (Mutant: all that two bytes can hold.)
CappedLate(p) == IF p > 65535 THEN 65535 ELSE p
Capped(p) == IF p > 61439 THEN 61439 ELSE p    \* 0xEFFF

PreviewAt(p) == p + g.calc

HeaderEnd ==
  CASE g.software = "Capture" -> Capped(g.thumbIfd)
    [] g.software # "Capture" /\ PreviewOffset # 0 -> PreviewAt(PreviewOffset)
    [] OTHER -> 0

\* strlen(software_ptr) of NULL.
NoSoftware ==
  /\ pc = "end" /\ g.software = "none"
  /\ Write("crash") /\ UNCHANGED out

ChooseEnd ==
  /\ pc = "end" /\ g.software # "none"
  /\ out' = [out EXCEPT !.end = HeaderEnd]
  /\ Write("header")

\* The file is created; 20 bytes, then those of the NEF from 8 to end.
WriteHeader ==
  /\ pc = "header" /\ out.end > 8
  /\ out' = [out EXCEPT !.size = 20 + (out.end - 8),
                        !.ifd0 = [n \in 1..Len(F.dirs["IFD0"]) |-> F.dirs["IFD0"][n].value]]
  /\ Write("subs")

\* Nothing to write, or fewer bytes than none.
NoHeader ==
  /\ pc = "header" /\ out.end <= 8
  /\ Write("exit") /\ UNCHANGED out

-----------------------------------------------------------------------------
(* output_thumbnail: SubIFDs, software and image.                           *)

\* Get32u, to read or to write.
Swapped(v) == (v % 256) * 16777216 + ((v \div 256) % 256) * 65536
              + ((v \div 65536) % 256) * 256 + ((v \div 16777216) % 256)
Get32u(raw) == IF raw.order = g.order THEN raw.value ELSE Swapped(raw.value)
Stored(v) == Get32u([value |-> v, order |-> F.order["IFD0"]])

\* Added for jpegtran, in every build.
Turned == g.orientation \in {6, 8}
Added == IF Turned THEN 18 ELSE 0

\* (Mutant: the JFIF header is forgotten.)
MovedOnce(v) == v + 12
\* By the 12 bytes before the EXIF header, and what jpegtran adds.
Moved(v) == v + 12 + Added

SubsAt(p) == {d \in SubNames : F.at[d] = p}
EntriesAt(p) == IF SubsAt(p) = {} THEN F.junk ELSE Len(F.dirs[CHOOSE d \in SubsAt(p) : TRUE])

\* output_sub_ifd: a count, the entries, two bytes.
WriteSubIfd ==
  /\ pc = "subs" /\ out.k <= 4 /\ g.subs[out.k] # 0
  /\ out' = [out EXCEPT !.subs[out.k] = out.size,
                        !.x[out.k] = Stored(Moved(Get32u(g.x))),
                        !.y[out.k] = Stored(Moved(Get32u(g.y))),
                        !.size = out.size + 4 + 12 * EntriesAt(g.subs[out.k]),
                        !.k = out.k + 1]
  /\ Write("subs")

NoSubIfd ==
  /\ pc = "subs" /\ out.k <= 4 /\ g.subs[out.k] = 0
  /\ out' = [out EXCEPT !.k = out.k + 1]
  /\ Write("subs")

WriteSoftware ==
  /\ pc = "subs" /\ out.k = 5
  /\ out' = [out EXCEPT !.softwareAt = out.size, !.size = out.size + 128,
                        !.imageAt = out.size + 128]
  /\ Write("image")

\* (Mutant: the base of the maker note is forgotten.)
OffsetOnly == g.thumbOffset + 2
\* The image without its SOI, which the header has.
ImageFrom == g.thumbOffset + 2 + (IF g.old THEN g.calc ELSE 0)

WriteImage ==
  /\ pc = "image"
  /\ out' = [out EXCEPT !.image = [from |-> ImageFrom, length |-> g.thumbLength],
                        !.size = out.size + g.thumbLength]
  /\ Write("length")

-----------------------------------------------------------------------------
(* output_thumbnail: update_header_length and update_sub_ifd_offset.        *)

InIfd0(tag, n) == Entries(F, "IFD0", tag) # {} /\ n = First(Entries(F, "IFD0", tag))

\* (Mutant: an int.)
WholeLength(p) == p - 4
SegmentLength(p) == (p - 4) % 65536

UpdateLength ==
  /\ pc = "length"
  /\ out' = [out EXCEPT
       !.length = SegmentLength(out.imageAt),
       !.ifd0 = [n \in DOMAIN @ |-> CASE InIfd0("Bits", n) -> Stored(Moved(Stored(@[n])))
                                      [] InIfd0("Software", n) -> Stored(out.softwareAt - 12)
                                      [] OTHER -> @[n]],
       !.k = 1]
  /\ Write("links")

\* jpegtran runs only where the build lets it.
Turns == Turned /\ rotates

\* The name of the file that jpegtran would read is given to fopen for every
\* turned image, and is NULL in a build without rotation.
Unnamed == Turned /\ ~rotates
AtLink == pc = "links" /\ out.k <= 4 /\ out.subs[out.k] # 0

NoTmpName == AtLink /\ Unnamed /\ (Write("exit") \/ Write("crash")) /\ UNCHANGED out

\* The first SubIFD moves the pointer to the array, each is put into the array.
LinkSubIfd ==
  /\ AtLink /\ ~Unnamed
  /\ \E n \in 1..Len(out.ifd0) :
       /\ InIfd0("SubIfds", n)
       /\ LET p == IF out.k = 1 THEN Moved(Stored(out.ifd0[n])) ELSE Stored(out.ifd0[n])
          IN  out' = [out EXCEPT
                !.ifd0[n] = Stored(p),
                !.links = @ \cup {[at |-> p - Added + 4 * (out.k - 1),
                                   value |-> Stored(out.subs[out.k] + Added)]},
                !.k = out.k + 1]
  /\ Write("links")

NoLink ==
  /\ pc = "links" /\ out.k <= 4 /\ out.subs[out.k] = 0
  /\ out' = [out EXCEPT !.k = out.k + 1]
  /\ Write("links")

\* (Mutant: the array is left.)
SubsKept == g.subs
SubsAfter == Zeros

Shift == IF Turns THEN 18 ELSE 0

\* jpegtran turns the image; the array is cleared.
Finish ==
  /\ pc = "links" /\ out.k = 5
  /\ out' = [out EXCEPT !.shift = Shift]
  /\ g' = [g EXCEPT !.subs = SubsAfter]
  /\ pc' = "written"
  /\ UNCHANGED <<line, rotates, i, stack>>

\* A file is not created, written, opened again or turned: exit.
Fails ==
  /\ \/ pc \in {"header", "image", "length"}
     \/ pc = "subs" /\ out.k <= 4 /\ g.subs[out.k] # 0
     \/ AtLink /\ ~Unnamed
     \/ pc = "links" /\ out.k = 5 /\ Turns
  /\ Write("exit") /\ UNCHANGED out

NextFile ==
  /\ pc = "written"
  /\ i' = i + 1
  /\ g' = [g EXCEPT !.orientation = 0]
  /\ out' = NoJpg
  /\ pc' = "open"
  /\ UNCHANGED <<line, rotates, stack>>

Ended == {"done", "exit", "crash"}
Stopped == pc \in Ended /\ UNCHANGED vars

Next ==
  \/ NotOpened \/ Refused \/ Open \/ Over
  \/ SetModel \/ SetSoftware \/ SetOrientation \/ SetThumbnailLength \/ SetThumbnailOffset
  \/ SetResolution \/ SetThumbIfd \/ CallExif \/ CallMakerNote \/ BadMakerNote
  \/ CallSubIfd \/ PlainEntry \/ Return
  \/ NoSoftware \/ ChooseEnd \/ WriteHeader \/ NoHeader
  \/ WriteSubIfd \/ NoSubIfd \/ WriteSoftware \/ WriteImage
  \/ UpdateLength \/ NoTmpName \/ LinkSubIfd \/ NoLink \/ Finish \/ Fails
  \/ NextFile \/ Stopped

Spec == Init /\ [][Next]_vars

-----------------------------------------------------------------------------
(* Properties.                                                              *)

Running == {"open", "walk", "end", "header", "subs", "image", "length", "links", "written"}

\* Every variable has a value the code can give it; ul_sub_ifd_array is indexed
\* within its bounds, and the length of the EXIF segment is an unsigned short.
TypeOK ==
  /\ line \in Lines /\ rotates \in BOOLEAN /\ i \in Nat \ {0} /\ pc \in Running \cup Ended
  /\ pc \notin {"open", "done", "exit", "crash"} => i <= Len(line)
  /\ stack \in Seq(Frame) /\ (pc = "walk" => stack # <<>>)
  /\ g \in Globals /\ out \in Jpg

\* What d70reader finds when it reads the finished JPG again: arrays of SubIFDs and
\* of shorts at offsets from the beginning of the file, everything else from the
\* EXIF header, 12 bytes into the file, or 30 after a JFIF header.
Read(tag) == out.ifd0[First(Entries(F, "IFD0", tag))]
ReadAt(tag) == Read(tag) + 12 + out.shift

\* The SubIFDs in the JPG are those the walk followed in this NEF, each is where
\* its element of the array points, and the array is where IFD0 points, before and
\* after the image is turned (output_sub_ifd and update_sub_ifd_offset, which
\* ul_sub_ifd_array and the orientation connect).
SubIfdsLinked ==
  pc = "written" =>
    /\ \A k \in 1..4 : out.subs[k] # 0 <=> k <= Followed
    /\ out.links =
         {[at |-> Value(F, "IFD0", "SubIfds") + 12 + 4 * (k - 1),
           value |-> out.subs[k] + out.shift] : k \in 1..Followed}
    /\ Followed > 0 => Read("SubIfds") = Value(F, "IFD0", "SubIfds") + 12 + out.shift

\* The bits per sample, the software and the resolutions of the SubIFDs are read
\* from where the writer put them in this JPG (update_header_length,
\* output_sub_ifd), whatever the byte orders of the NEF and the build; save that
\* the bits per sample of a vertical image that the build does not turn are looked
\* for 18 bytes beyond them.
TagsLinked ==
  pc = "written" =>
    /\ Read("Bits") = Value(F, "IFD0", "Bits") + 12 + (IF Unnamed THEN 18 ELSE out.shift)
    /\ Entries(F, "IFD0", "Software") # {} => ReadAt("Software") = out.softwareAt + out.shift
    /\ \A k \in 1..Followed :
         /\ out.x[k] = Value(F, "IFD0", "XResolution") + 12 + out.shift
         /\ out.y[k] = Value(F, "IFD0", "YResolution") + 12 + out.shift

\* "fix some additional tag offsets" (d70reader.c:6301): the bits per sample are where
\* IFD0 of the finished JPG says, in every build of update_header_length.
BitsFixed == pc = "written" => Read("Bits") = Value(F, "IFD0", "Bits") + 12 + out.shift

\* "The header length MUST fit in two bytes" (d70reader.c:5788): whenever it was
\* chosen for that, or the preview is near enough, the EXIF segment ends where the
\* image begins, with all SubIFDs that were added to it.
SegmentEnds ==
  pc = "written" /\ (g.software = "Capture" \/ out.end <= 61439) =>
    4 + out.length = out.imageAt

Before(f, tag1, tag2) ==
  \A m \in Entries(f, "IFD0", tag1), n \in Entries(f, "IFD0", tag2) : m < n

\* The directories to the preview image of the maker note.
NamesPreview(f) ==
  /\ Once(f, "IFD0", "Exif") /\ Once(f, "EXIF", "MakerNote")
  /\ Once(f, "MAKER_NOTES", "ThumbIfd") /\ Before(f, "SubIfds", "Exif")
  /\ f.at["THUMBNAIL"] = Value(f, "MAKER_NOTES", "ThumbIfd") + NoteBase(f)

\* A NEF with a preview image and its software: the header that is copied ends at
\* its own preview, or its directory for Nikon Capture, or at the limit; nothing an
\* earlier file left (software_ptr, tag_thumbnail_ifd_offset, the base of the maker
\* note) decides.  The byte orders must agree: the preview's directory is read in
\* that of IFD0.
HeaderOwn ==
  pc = "written" /\ NamesPreview(F) /\ Once(F, "IFD0", "Software")
                 /\ F.order["IFD0"] = F.order["MAKER_NOTES"] =>
    \/ F.software = "camera" /\ out.end = Value(F, "THUMBNAIL", "ThumbOffset") + NoteBase(F)
    \/ F.software = "Capture" /\ out.end = F.at["THUMBNAIL"] /\ out.end <= 61439
    \/ F.software = "Capture" /\ out.end = 61439 /\ out.end < F.at["THUMBNAIL"]

ImageTags == {"ThumbOffset", "ThumbLength"}
HasImage(f, d) == \A tag \in ImageTags : Once(f, d, tag)
NoImage(f, S) == \A d \in S, tag \in ImageTags : Entries(f, d, tag) = {}
HasPreview(f) == HasImage(f, "THUMBNAIL") /\ NoImage(f, {"IFD0", "EXIF", "MAKER_NOTES"})
OnlyImage(f, d) == HasImage(f, d) /\ NoImage(f, Dirs \ {d, "THUMBNAIL"})

\* The image written is all of the NEF's own: of the preview for a D100 or D2H,
\* whose offsets count from the maker note, else of the one SubIFD that has it;
\* never the range of an earlier file, nor the two directories mixed.  The model
\* must be known before the maker note is read (the tags of IFD0 ascend).
ImageOwn ==
  pc = "written" /\ Before(F, "Model", "Exif") =>
    /\ F.old /\ NamesPreview(F) /\ HasPreview(F) =>
         out.image = [from |-> Value(F, "THUMBNAIL", "ThumbOffset") + NoteBase(F) + 2,
                      length |-> Value(F, "THUMBNAIL", "ThumbLength")]
    /\ \A k \in 1..Followed :
         ~F.old /\ OnlyImage(F, SubIfd[k]) =>
           out.image = [from |-> Value(F, SubIfd[k], "ThumbOffset") + 2,
                        length |-> Value(F, SubIfd[k], "ThumbLength")]

\* What is copied from the NEF, header and image, are its own.
RangesOwn == HeaderOwn /\ ImageOwn
=============================================================================
