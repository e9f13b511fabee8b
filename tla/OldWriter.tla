----------------------------- MODULE OldWriter -----------------------------
(***************************************************************************)
(* The option -jold: dump_jpg_image_file_directory puts the entries of all *)
(* directories of a NEF in one list, and output_thumbnail_old writes those *)
(* it knows in one directory, in the byte order II, in front of the image. *)
(* Where the directories are is the subject of IfdWalk; what a second file *)
(* finds in the globals is that of ThumbnailWriter.                        *)
(*                                                                         *)
(* An entry of the NEF is known by its directory and its number.  What it  *)
(* holds is four bytes, or else data somewhere, that are in the order of   *)
(* their units or turned round.                                            *)
(***************************************************************************)
EXTENDS Integers, Sequences

CONSTANTS
  Files,       \* the NEFs
  Leftovers    \* what may be in ulOrientation when nothing was stored in it

Dirs == {"IFD0", "SUB_IFD0", "SUB_IFD1", "EXIF", "MAKER_NOTES", "THUMBNAIL"}

\* Numbers: the rational numbers 0x829a, 0x829d, 0x9204, 0x920a; Shorts: 0x8822,
\* 0x9207, 0x9209, 0xa405; Frame: 0x0100, 0x0101; Quality: 0x0004; Other: the
\* tags of the list that are treated like any; Unlisted: tags not in the list.
Copied == {"Software", "Quality", "Number", "Lens", "Short", "Orientation", "LensType", "Frame", "Other"}
Tags == Copied \cup {"ThumbOffset", "ThumbLength", "Exif", "MakerNote", "SubIfds", "ThumbIfd", "Unlisted"}
NotOfIfd0 == {"Orientation", "Frame"}

Units == {"byte", "short", "long"}
Byte == {n \in Nat : n < 256}
Four == [1..4 -> Byte]

\* size is the number of bytes that the entry holds; four are those in it, as they
\* are in the file; number is that of an offset or a length.
Entry == [tag : Tags, units : Units, size : Nat, four : Four, number : Nat]

\* order is TRUE for MM; leads are the SubIFDs; calc is the base of the maker note;
\* old is TRUE for the models D100 and D2H.
File == [dirs : [Dirs -> Seq(Entry)], order : [Dirs -> BOOLEAN], subs : Seq(Dirs),
         calc : Nat, old : BOOLEAN, software : {"Capture", "camera"}]

ASSUME FilesAssumption == Files \subseteq File /\ Leftovers \subseteq Nat

\* The numbers that the writer knows have the types that EXIF and the maker note give
\* them.
ASSUME FieldsAssumption ==
  \A f \in Files : \A d \in Dirs : \A i \in DOMAIN f.dirs[d] :
    LET e == f.dirs[d][i]
    IN  /\ e.tag \in {"Short", "Orientation"} => e.units = "short" /\ e.size <= 2
        /\ e.tag = "LensType" => e.units = "byte" /\ e.size <= 1

\* Where a NEF has the tags that lead to others, once and in ascending order, and
\* those of an image.
ASSUME PlacesAssumption ==
  \A f \in Files :
    /\ f.subs \in Seq({"SUB_IFD0", "SUB_IFD1"})
    /\ \A d \in Dirs : \A i \in DOMAIN f.dirs[d] :
         LET tag == f.dirs[d][i].tag
         IN  /\ tag \in {"SubIfds", "Exif"} => d = "IFD0"
             /\ tag = "MakerNote" => d = "EXIF"
             /\ tag = "ThumbIfd" => d = "MAKER_NOTES"
             /\ tag \in {"ThumbOffset", "ThumbLength"} => d \in {"SUB_IFD0", "THUMBNAIL"}
             /\ \A j \in DOMAIN f.dirs[d] :
                  /\ tag = "ThumbOffset" /\ f.dirs[d][j].tag = tag => i = j
                  /\ tag = "SubIfds" /\ f.dirs[d][j].tag = "Exif" => i < j

\* A D100 and a D2H have an image in the maker note.
Has(f, d, tag) == \E i \in DOMAIN f.dirs[d] : f.dirs[d][i].tag = tag
ASSUME OldImageAssumption ==
  \A f \in Files : f.old =>
    /\ Has(f, "IFD0", "Exif") /\ Has(f, "EXIF", "MakerNote") /\ Has(f, "MAKER_NOTES", "ThumbIfd")
    /\ Has(f, "THUMBNAIL", "ThumbOffset")

-----------------------------------------------------------------------------
VARIABLES
  file,      \* the NEF; never changes
  rotates,   \* ALLOW_ROTATE, of the build
  pc,        \* how far ProcessFileJPG and output_thumbnail_old are
  stack,     \* the calls of dump_jpg_image_file_directory, the innermost last
  list,      \* the nodes of start_header_ptr: the entry last put in each
  g,         \* the globals that the walk sets and the writer uses
  out,       \* the header being made
  disk       \* the files written

vars == <<file, rotates, pc, stack, list, g, out, disk>>

\* n = 0: a node with no entry.
Node == [dir : Dirs, n : Nat]
Blank == [dir |-> "IFD0", n |-> 0]

\* sub: how many of the directories that the entry leads to were followed; read: it
\* is in the list.
Frame == [dir : Dirs, n : Nat, read : BOOLEAN, sub : Nat]
NewFrame(d) == [dir |-> d, n |-> 1, read |-> FALSE, sub |-> 0]

\* A data piece in data_buffer: its entry, its size, and whether it is turned round.
Piece == [of : Node, size : Nat, turned : BOOLEAN]
Written == [of : Node, size : Nat, four : Four, offset : Nat]

NoHeader == [count |-> 0, offset |-> 0, length |-> 0, at |-> 1, dir |-> <<>>, data |-> <<>>,
             orientation |-> 0]
NoFile == [header |-> 0, from |-> 0, length |-> 0, turned |-> 0]

Init ==
  /\ file \in Files
  /\ rotates \in BOOLEAN
  /\ pc = "walk"
  /\ stack = <<NewFrame("IFD0")>>
  /\ list = <<Blank>>
  /\ g = [order |-> file.order["IFD0"], calc |-> 0, software |-> "none",
          thumbOffset |-> 0, thumbLength |-> 0]
  /\ out = NoHeader
  /\ disk = [jpg |-> NoFile, tmp |-> NoFile]

-----------------------------------------------------------------------------
(* dump_jpg_image_file_directory. *)

Top == stack[Len(stack)]
E == file.dirs[Top.dir][Top.n]
EntryOf(node) == file.dirs[node.dir][node.n]
AtEntry == pc = "walk" /\ stack # <<>> /\ Top.n <= Len(file.dirs[Top.dir])

Replaced(frame) == [stack EXCEPT ![Len(stack)] = frame]

\* The directories that the entry at hand is followed to; that of the thumbnail is
\* followed with dump_image_file_directory, for a D100 or D2H only.
Leads ==
  CASE E.tag = "SubIfds" -> IF Len(file.subs) > 1 THEN file.subs ELSE <<>>
    [] E.tag = "Exif" -> <<"EXIF">>
    [] E.tag = "MakerNote" -> <<"MAKER_NOTES">>
    [] E.tag = "ThumbIfd" -> IF file.old THEN <<"THUMBNAIL">> ELSE <<>>
    [] OTHER -> <<>>

\* dump_image_file_directory has a list of its own.
Lists(d) == d # "THUMBNAIL"

\* Put in the node at the end, over what is there.
ReadEntry ==
  /\ AtEntry /\ ~Top.read
  /\ list' = IF Lists(Top.dir)
               THEN [list EXCEPT ![Len(list)] = [dir |-> Top.dir, n |-> Top.n]] ELSE list
  /\ g' = CASE E.tag = "Software" /\ E.size > 4 -> [g EXCEPT !.software = file.software]
            [] E.tag = "ThumbOffset" -> [g EXCEPT !.thumbOffset = E.number]
            [] E.tag = "ThumbLength" -> [g EXCEPT !.thumbLength = E.number]
            [] E.tag = "MakerNote" -> [g EXCEPT !.calc = file.calc]
            [] OTHER -> g
  /\ stack' = Replaced([Top EXCEPT !.read = TRUE])
  /\ UNCHANGED <<file, rotates, pc, out, disk>>

\* The header of the maker note has the byte order of its directory.
Call ==
  /\ AtEntry /\ Top.read /\ Top.sub < Len(Leads)
  /\ LET d == Leads[Top.sub + 1]
     IN  /\ stack' = Append(Replaced([Top EXCEPT !.sub = @ + 1]), NewFrame(d))
         /\ g' = IF d = "MAKER_NOTES" THEN [g EXCEPT !.order = file.order[d]] ELSE g
  /\ UNCHANGED <<file, rotates, pc, list, out, disk>>

\* An empty node is put at the end, whatever the calls did to the list.
\* Mutant: it is not.
SameList(d) == list
NodeAfter(d) == IF Lists(d) THEN Append(list, Blank) ELSE list
NextEntry ==
  /\ AtEntry /\ Top.read /\ Top.sub = Len(Leads)
  /\ list' = NodeAfter(Top.dir)
  /\ stack' = Replaced([NewFrame(Top.dir) EXCEPT !.n = Top.n + 1])
  /\ UNCHANGED <<file, rotates, pc, g, out, disk>>

\* To the caller, and to its byte order.
Return ==
  /\ pc = "walk" /\ stack # <<>> /\ Top.n > Len(file.dirs[Top.dir])
  /\ g' = [g EXCEPT !.order = IF Top.dir = "MAKER_NOTES" THEN file.order["EXIF"] ELSE @]
  /\ stack' = SubSeq(stack, 1, Len(stack) - 1)
  /\ UNCHANGED <<file, rotates, pc, list, out, disk>>

-----------------------------------------------------------------------------
(* output_thumbnail_old: the header. *)

Begins == pc = "walk" /\ stack = <<>>

\* strlen(software_ptr) of NULL.
NoSoftware ==
  /\ Begins /\ g.software = "none"
  /\ pc' = "crash"
  /\ UNCHANGED <<file, rotates, stack, list, g, out, disk>>

Capture == g.software = "Capture"

\* The image of Nikon Capture has a header of its own.  ulOrientation is not set.
NoHeaderNeeded ==
  /\ Begins /\ Capture
  /\ \E o \in Leftovers : out' = [out EXCEPT !.orientation = o]
  /\ pc' = "image"
  /\ UNCHANGED <<file, rotates, stack, list, g, disk>>

\* The sums of the first numbers.
SumsOf(numbers) ==
  LET sums[k \in 0..Len(numbers)] == IF k = 0 THEN 0 ELSE sums[k - 1] + numbers[k]
  IN  sums

\* The nodes that are copied.
IsCopied(node) ==
  /\ node.n # 0
  /\ EntryOf(node).tag \in Copied
  /\ ~(EntryOf(node).tag \in NotOfIfd0 /\ node.dir = "IFD0")

\* How many of the first nodes are.
Counts(nodes) == SumsOf([i \in DOMAIN nodes |-> IF IsCopied(nodes[i]) THEN 1 ELSE 0])

\* count_tags: the last node, an empty one, is not looked at.
CountTags(nodes) == Counts(nodes)[Len(nodes) - 1]

HeaderSize == 24    \* sizeof(struct exif_header); the last two bytes are not written
BufferSize == 1024  \* of data_buffer

\* The length of the segment is stored in the byte order of the NEF, that of a JPG
\* being MM.
BeginHeader ==
  /\ Begins /\ g.software = "camera"
  /\ LET n == CountTags(list)
         length == 12 * n + 4 + HeaderSize + BufferSize - 6
     IN  \E o \in Leftovers :
           out' = [out EXCEPT !.count = n, !.orientation = o,
                              !.offset = HeaderSize + 12 * n + 4 - 14,
                              !.length = IF g.order THEN length
                                         ELSE 256 * (length % 256) + length \div 256]
  /\ pc' = "copy"
  /\ UNCHANGED <<file, rotates, stack, list, g, disk>>

Swapped(four) == <<four[4], four[3], four[2], four[1]>>

\* The bytes of the number that Get32u made of an entry's, in the order II.
Number(node) ==
  IF file.order[node.dir] THEN Swapped(EntryOf(node).four) ELSE EntryOf(node).four

\* What is written in place of an offset.
Orientation(node) == <<Number(node)[3], Number(node)[4], 0, 0>>
FourOf(node) ==
  LET tag == EntryOf(node).tag
  IN  CASE tag = "Orientation" /\ rotates -> <<1, 0, 0, 0>>
        [] tag \in {"Short", "Orientation"} /\ g.order -> Orientation(node)
        [] tag = "LensType" -> <<Number(node)[4], 0, 0, 0>>
        [] OTHER -> Number(node)

\* The numbers are made with Get32u; the data of others is copied as it is.
\* Mutant: that of a lens as well.
AsItIs(node) ==
  IF EntryOf(node).tag = "Number" THEN file.order[node.dir] # g.order ELSE file.order[node.dir]
Turned(node) ==
  IF EntryOf(node).tag \in {"Number", "Lens"} THEN file.order[node.dir] # g.order
                                              ELSE file.order[node.dir]

\* "BASIC" and the name of the program are written in place of two of them.
SizeOf(node) ==
  CASE EntryOf(node).tag = "Quality" -> 6
    [] EntryOf(node).tag = "Software" -> 18
    [] OTHER -> EntryOf(node).size

\* The bytes of the first pieces, and of all.
Sizes(data) == SumsOf([k \in DOMAIN data |-> data[k].size])
Used == Sizes(out.data)[Len(out.data)]

AtNode == pc = "copy" /\ out.at < Len(list)
N == list[out.at]

SkipNode ==
  /\ AtNode /\ ~IsCopied(N)
  /\ out' = [out EXCEPT !.at = @ + 1]
  /\ UNCHANGED <<file, rotates, pc, stack, list, g, disk>>

CopySmall ==
  /\ AtNode /\ IsCopied(N) /\ EntryOf(N).size <= 4
  /\ out' = [out EXCEPT !.at = @ + 1,
                        !.dir = Append(@, [of |-> N, size |-> EntryOf(N).size,
                                           four |-> FourOf(N), offset |-> 0]),
                        !.orientation = IF EntryOf(N).tag # "Orientation" THEN @
                                        ELSE IF g.order THEN Orientation(N)[1] ELSE Number(N)[1]]
  /\ UNCHANGED <<file, rotates, pc, stack, list, g, disk>>

\* Mutant: the size of what was there in its place.
OldSize(node) == EntryOf(node).size
OffsetAfter(node) == SizeOf(node)

CopyData ==
  /\ AtNode /\ IsCopied(N) /\ EntryOf(N).size > 4
  /\ Used + SizeOf(N) <= BufferSize
  /\ out' = [out EXCEPT !.at = @ + 1,
                        !.dir = Append(@, [of |-> N, size |-> SizeOf(N),
                                           four |-> <<0, 0, 0, 0>>, offset |-> out.offset]),
                        !.data = Append(@, [of |-> N, size |-> SizeOf(N), turned |-> Turned(N)]),
                        !.offset = @ + OffsetAfter(N)]
  /\ UNCHANGED <<file, rotates, pc, stack, list, g, disk>>

\* data_buffer is left behind.
Overrun ==
  /\ AtNode /\ IsCopied(N) /\ EntryOf(N).size > 4
  /\ Used + SizeOf(N) > BufferSize
  /\ pc' = "crash"
  /\ UNCHANGED <<file, rotates, stack, list, g, out, disk>>

HeaderDone ==
  /\ pc = "copy" /\ out.at = Len(list)
  /\ pc' = "image"
  /\ UNCHANGED <<file, rotates, stack, list, g, out, disk>>

-----------------------------------------------------------------------------
(* output_thumbnail_old: the files. *)

Turns == rotates /\ out.orientation \in {6, 8}
Name == IF Turns THEN "tmp" ELSE "jpg"

\* fopen fails: exit.
NotCreated ==
  /\ pc = "image"
  /\ pc' = "exit"
  /\ UNCHANGED <<file, rotates, stack, list, g, out, disk>>

\* The header, and the image without its first two bytes.
Skipped == IF Capture THEN 0 ELSE 2
Image == [header |-> IF Capture THEN 0 ELSE HeaderSize - 2 + 12 * out.count + 4 + BufferSize,
          from |-> g.thumbOffset + Skipped + (IF file.old THEN g.calc ELSE 0),
          length |-> g.thumbLength, turned |-> 0]

\* fwrite of no bytes returns 0: exit, with the header written.
NoImage ==
  /\ pc = "image" /\ g.thumbLength = 0
  /\ disk' = [disk EXCEPT ![Name] = Image]
  /\ pc' = "exit"
  /\ UNCHANGED <<file, rotates, stack, list, g, out>>

WriteImage ==
  /\ pc = "image" /\ g.thumbLength > 0
  /\ disk' = [disk EXCEPT ![Name] = Image]
  /\ pc' = "written"
  /\ UNCHANGED <<file, rotates, stack, list, g, out>>

\* jpegtran writes the turned image to the file, and the first one is removed.
Turn ==
  /\ pc = "written" /\ Turns
  /\ disk' = [jpg |-> [disk.tmp EXCEPT !.turned = IF out.orientation = 6 THEN 90 ELSE 270],
              tmp |-> NoFile]
  /\ pc' = "done"
  /\ UNCHANGED <<file, rotates, stack, list, g, out>>

NotTurned ==
  /\ pc = "written" /\ ~Turns
  /\ pc' = "done"
  /\ UNCHANGED <<file, rotates, stack, list, g, out, disk>>

Stopped == pc \in {"done", "exit", "crash"} /\ UNCHANGED vars

Next ==
  \/ ReadEntry \/ Call \/ NextEntry \/ Return
  \/ NoSoftware \/ NoHeaderNeeded \/ BeginHeader
  \/ SkipNode \/ CopySmall \/ CopyData \/ Overrun \/ HeaderDone
  \/ NotCreated \/ NoImage \/ WriteImage \/ Turn \/ NotTurned
  \/ Stopped

Spec == Init /\ [][Next]_vars

-----------------------------------------------------------------------------
(* Properties. *)

IsNode(node) == node = Blank \/ (node.dir \in Dirs /\ node.n \in DOMAIN file.dirs[node.dir])

\* The calls are at entries of their directories, or behind the last; every node
\* holds one of these; the header has as many entries as its buffer has room for.
TypeOK ==
  /\ pc \in {"walk", "copy", "image", "written", "done", "exit", "crash"}
  /\ stack \in Seq(Frame)
  /\ \A k \in DOMAIN stack : stack[k].n <= Len(file.dirs[stack[k].dir]) + 1
  /\ list # <<>> /\ \A k \in DOMAIN list : IsNode(list[k])
  /\ pc # "walk" => list[Len(list)] = Blank
  /\ g \in [order : BOOLEAN, calc : Nat, software : {"none", "Capture", "camera"},
            thumbOffset : Nat, thumbLength : Nat]
  /\ out.at \in 1..Len(list) /\ out.dir \in Seq(Written) /\ out.data \in Seq(Piece)
  /\ Len(out.dir) <= out.count /\ Used <= BufferSize
  /\ \A name \in {"jpg", "tmp"} : disk[name].turned \in {0, 90, 270}

HeaderMade == pc \in {"image", "written", "done"} /\ ~Capture

\* A reader of the JPG finds as many entries as the header says; an entry of more
\* than four bytes points to the data of its own, behind the directory and within
\* the buffer, whatever was put in place of the NEF's.
StartOf(k) == 12 * out.count + 14 + Sizes(out.data)[k - 1]
EntriesFound ==
  HeaderMade =>
    /\ Len(out.dir) = out.count
    /\ \A i \in DOMAIN out.dir : EntryOf(out.dir[i].of).size > 4 =>
         \E k \in DOMAIN out.data :
           /\ out.data[k].of = out.dir[i].of /\ out.data[k].size = out.dir[i].size
           /\ out.dir[i].offset = StartOf(k)

\* The bytes of a value as the order II has them.
InOrderII(node) ==
  LET b == EntryOf(node).four
  IN  CASE ~file.order[node.dir] \/ EntryOf(node).units = "byte" -> b
        [] file.order[node.dir] /\ EntryOf(node).units = "short" -> <<b[2], b[1], b[4], b[3]>>
        [] file.order[node.dir] /\ EntryOf(node).units = "long" -> Swapped(b)

ReadsRight(w) ==
  IF EntryOf(w.of).size > 4
    THEN \A k \in DOMAIN out.data :
           out.data[k].of = w.of => ~out.data[k].turned \/ EntryOf(w.of).units = "byte"
    ELSE SubSeq(w.four, 1, w.size) = SubSeq(InOrderII(w.of), 1, w.size)

\* What the writer does not convert: of a NEF in the order MM, texts of up to four
\* bytes and short numbers that it does not know; of one in II, the type of lens.
NotConverted(node) ==
  LET e == EntryOf(node)
  IN  IF file.order[node.dir]
        THEN \/ e.size <= 4 /\ e.units = "byte" /\ e.tag # "LensType"
             \/ e.units = "short" /\ e.tag \notin {"Short", "Orientation"}
             \/ e.units = "long" /\ e.size > 4 /\ e.tag \notin {"Number", "Lens"}
        ELSE e.tag = "LensType"

OneOrder == \A d \in Dirs : file.order[d] = file.order["IFD0"]

\* Of a NEF with one byte order, every entry of the JPG reads as it does in the NEF,
\* but those not converted, and the orientation that is set to 1 in a turned image.
ValuesRight ==
  HeaderMade /\ OneOrder =>
    \A i \in DOMAIN out.dir :
      \/ ReadsRight(out.dir[i]) \/ NotConverted(out.dir[i].of)
      \/ rotates /\ EntryOf(out.dir[i].of).tag = "Orientation"

\* The number that the first entry of a directory with this tag has.
NumberIn(d, tag) ==
  LET found == {i \in DOMAIN file.dirs[d] : file.dirs[d][i].tag = tag}
  IN  IF found = {} THEN 0
      ELSE file.dirs[d][CHOOSE i \in found : \A j \in found : i <= j].number

\* Where a D100 and a D2H, and where the other cameras, have their image.
ImageAt ==
  IF file.old THEN file.calc + NumberIn("THUMBNAIL", "ThumbOffset")
              ELSE NumberIn("SUB_IFD0", "ThumbOffset")

\* When all is done there is one file.  It has the image, without the two bytes
\* that its header has already; and if the NEF is in the order MM, the image begins
\* where the length in the header says.
ImageRight ==
  pc = "done" =>
    /\ disk.tmp = NoFile
    /\ disk.jpg.from = ImageAt + (IF disk.jpg.header = 0 THEN 0 ELSE 2)
    /\ g.order /\ ~Capture => disk.jpg.header = out.length + 4

\* What the JPG shows, of its tags and of its image, is what the NEF has.
ContentsRight == ValuesRight /\ ImageRight
=============================================================================
