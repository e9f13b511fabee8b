------------------------------ MODULE Records ------------------------------
(***************************************************************************)
(* What a run prints of its images, and how that follows from the file     *)
(* d70reader.conf: display_data turns the tags of the directories into     *)
(* rows, and output_csv and output_js print one column for every tag of    *)
(* the file that is wanted.  The file and the lists made from it are the   *)
(* module Config; which image fails, and how, is the module Batch.         *)
(***************************************************************************)
EXTENDS Config

CONSTANTS
  Files,        \* the names on the command lines
  NoFile,       \* none of them
  Image,        \* what each of them names
  Orientation, FrameWidth, FrameLength, WebWidth, WebLength,  \* 0x0112, 0x0100, 0x0101, 0xA002, 0xA003
  NameTag,      \* 0xFFFE, the tag of the row with the file name
  MaxFiles      \* bound: images of one run

\* A tag of an image and what it says; of an orientation n is the number.
Entry == [tag : Tag, n : Nat]
Directory == [type : {"IFD0", "other"}, entries : Seq(Entry)]

ASSUME ImageAssumption ==
  \A f \in Files : /\ Image[f].dirs \in Seq(Directory)
                   /\ Image[f].xmp \in Seq(Entry)
                   /\ Image[f].frame \in BOOLEAN    \* it has a frame header

ASSUME TagAssumption ==
  /\ {Orientation, FrameWidth, FrameLength, WebWidth, WebLength} \subseteq Tag
  /\ NameTag \notin Tag
  /\ MaxFiles \in Nat

\* What a column shows: a tag or the name of an image, the size the page shows
\* it in, nothing, or what is read from released memory.
Value == [kind : {"own", "name", "size", "empty", "junk"}, file : Files \cup {NoFile}, n : Nat]
Empty == [kind |-> "empty", file |-> NoFile, n |-> 0]
Junk == [kind |-> "junk", file |-> NoFile, n |-> 0]
NameOf(f) == [kind |-> "name", file |-> f, n |-> 0]
SizeOf(f) == [kind |-> "size", file |-> f, n |-> 0]
OwnRow(f, e) == [tag |-> e.tag, value |-> [kind |-> "own", file |-> f, n |-> e.n]]

Row == [tag : Tag \cup {NameTag}, value : Value]

VARIABLES
  mode,         \* "columns" for -c and -js, "web" for -web
  argv,         \* the images the run has taken so far
  step,         \* what happens next to the last of them
  dir, entry,   \* the directory and the entry display_data comes to
  rows,         \* the rows that my_printf has collected
  orientation,  \* ulGlobalOrientation
  header,       \* the header lines printed: their tags
  out           \* the records printed

shown == <<mode, argv, step, dir, entry, rows, orientation, header, out>>
vars == <<conf, shown>>

File == argv[Len(argv)]
Img == Image[File]
Ready == phase \in {"ready", "made", "unread"}

Init ==
  /\ ConfigInit
  /\ mode \in {"columns", "web"}
  /\ argv = <<>>
  /\ step = "next"
  /\ dir = 1 /\ entry = 1
  /\ rows = <<>>
  /\ orientation = 0
  /\ header = <<>>
  /\ out = <<>>

-----------------------------------------------------------------------------
(* Rows. *)

\* display_data prints the first orientation that is not zero.
FirstOrientation(e) == e.tag = Orientation => orientation = 0

\* IFD0 holds the size of the small picture, which is not printed.
NotOfIfd0(type, e) == ~(type = "IFD0" /\ e.tag \in {FrameWidth, FrameLength})

\* The tags that display_data has a case for are those check_for_config writes.
Displayed(type, e) ==
  IsPrinted(e.tag) /\ e.tag \in Defaults /\ NotOfIfd0(type, e) /\ FirstOrientation(e)

\* The first row of a tag, 0 when there is none.
RowOf(tag) == IF \E i \in DOMAIN rows : rows[i].tag = tag
                THEN CHOOSE i \in DOMAIN rows :
                       rows[i].tag = tag /\ \A j \in DOMAIN rows : rows[j].tag = tag => i <= j
                ELSE 0

BeginFile ==
  /\ Ready /\ step = "next"
  /\ Len(argv) < MaxFiles
  /\ \E f \in Files :
       /\ argv' = Append(argv, f)
       /\ rows' = <<[tag |-> NameTag, value |-> NameOf(f)]>>
  /\ dir' = 1 /\ entry' = 1
  /\ orientation' = 0
  /\ step' = "dirs"
  /\ UNCHANGED <<conf, mode, header, out>>

InDirectory == step = "dirs" /\ dir <= Len(Img.dirs)

ShowEntry ==
  /\ InDirectory
  /\ entry <= Len(Img.dirs[dir].entries)
  /\ LET e == Img.dirs[dir].entries[entry]
     IN  IF Displayed(Img.dirs[dir].type, e)
           THEN /\ rows' = Append(rows, OwnRow(File, e))
                /\ orientation' = IF e.tag = Orientation THEN e.n ELSE orientation
           ELSE UNCHANGED <<rows, orientation>>
  /\ entry' = entry + 1
  /\ UNCHANGED <<conf, mode, argv, step, dir, header, out>>

NextDirectory ==
  /\ InDirectory
  /\ entry > Len(Img.dirs[dir].entries)
  /\ dir' = dir + 1 /\ entry' = 1
  /\ UNCHANGED <<conf, mode, argv, step, rows, orientation, header, out>>

XmpRows == [i \in DOMAIN Img.xmp |-> OwnRow(File, Img.xmp[i])]

\* Mutant: the rows of the XMP packet come before those of the directories.
XmpFirst == SubSeq(rows, 1, 1) \o XmpRows \o SubSeq(rows, 2, Len(rows))

\* The rows of the XMP packet are added without a look at the wanted tags.
XmpLast == rows \o XmpRows

ShowXmp ==
  /\ step = "dirs" /\ dir > Len(Img.dirs)
  /\ rows' = XmpLast
  /\ step' = IF mode = "web" /\ Img.frame THEN "width" ELSE "print"
  /\ UNCHANGED <<conf, mode, argv, dir, entry, orientation, header, out>>

\* replace_description_value: a row that there is loses its value, and the new
\* one is not stored in it; the memory may be the same again.
Replaced(tag) ==
  IF RowOf(tag) = 0
    THEN {Append(rows, [tag |-> tag, value |-> SizeOf(File)])}
    ELSE {[rows EXCEPT ![RowOf(tag)].value = v] : v \in {SizeOf(File), Junk}}

\* get_sof0_data records the size in which the page shows the image.
SetWidth ==
  /\ step = "width"
  /\ rows' \in Replaced(WebWidth)
  /\ step' = "length"
  /\ UNCHANGED <<conf, mode, argv, dir, entry, orientation, header, out>>

SetLength ==
  /\ step = "length"
  /\ rows' \in Replaced(WebLength)
  /\ step' = "print"
  /\ UNCHANGED <<conf, mode, argv, dir, entry, orientation, header, out>>

-----------------------------------------------------------------------------
(* Columns. *)

\* The elements of s that are in S, in their order.
KeptOf(s, S) ==
  LET kept[i \in 0..Len(s)] ==
        IF i = 0 THEN <<>>
        ELSE IF s[i] \in S THEN Append(kept[i - 1], s[i]) ELSE kept[i - 1]
  IN  kept
Kept(s, S) == KeptOf(s, S)[Len(s)]

Columns == Kept(all, {t \in Tag : IsPrinted(t)})

FirstValue(tag) == IF RowOf(tag) = 0 THEN Empty ELSE rows[RowOf(tag)].value

Cells(tags) == [i \in DOMAIN tags |-> FirstValue(tags[i])]

\* Mutant: a header line before every record.
HeaderEveryTime == Append(header, Columns)

\* iCsv_First_Time and iJS_First_Time.
HeaderOnce == IF header = <<>> THEN <<Columns>> ELSE header

\* The list of the tags of the file is followed without a test for NULL.
NullList ==
  /\ step = "print"
  /\ all = <<>>
  /\ step' = "crash"
  /\ UNCHANGED <<conf, mode, argv, dir, entry, rows, orientation, header, out>>

PrintRecord ==
  /\ step = "print"
  /\ all # <<>>
  /\ header' = HeaderOnce
  /\ out' = Append(out, [name |-> FirstValue(NameTag), cells |-> Cells(Columns)])
  /\ step' = "next"
  /\ UNCHANGED <<conf, mode, argv, dir, entry, rows, orientation>>

\* The run ends, whichever way, and the next starts with empty memory.
Leave ==
  /\ argv' = <<>>
  /\ step' = "next"
  /\ dir' = 1 /\ entry' = 1
  /\ rows' = <<>>
  /\ orientation' = 0
  /\ header' = <<>>
  /\ out' = <<>>
  /\ UNCHANGED mode

EndRun ==
  /\ Ready /\ step \in {"next", "crash"}
  /\ phase' = "off"
  /\ Leave
  /\ UNCHANGED <<exists, lines, stream, at, wanted, all, runs, edits, lost>>

Run ==
  \/ CheckForConfig /\ UNCHANGED shown
  \/ BeginFile \/ ShowEntry \/ NextDirectory \/ ShowXmp \/ SetWidth \/ SetLength
  \/ NullList \/ PrintRecord \/ EndRun

\* The bound on the runs is reached.
Stopped == phase = "off" /\ runs = MaxRuns /\ UNCHANGED vars

Next ==
  \/ Run
  \/ Killed /\ Leave
  \/ (Edit \/ DeleteFile) /\ UNCHANGED shown
  \/ Stopped

Spec == Init /\ [][Next]_vars

-----------------------------------------------------------------------------
(* Properties *)

\* Every variable has its type.
TypeOK ==
  /\ exists \in BOOLEAN /\ lost \in BOOLEAN
  /\ {lines, stream} \subseteq Seq(Line)
  /\ at \in Nat \ {0}
  /\ {wanted, all} \subseteq Seq(Tag)
  /\ phase \in {"off", "write", "read", "ready", "made", "unread"}
  /\ runs \in 0..MaxRuns /\ edits \in 0..MaxEdits
  /\ mode \in {"columns", "web"}
  /\ argv \in Seq(Files) /\ Len(argv) <= MaxFiles
  /\ step \in {"next", "dirs", "width", "length", "print", "crash"}
  /\ {dir, entry} \subseteq Nat \ {0}
  /\ rows \in Seq(Row)
  /\ orientation \in Nat
  /\ header \in Seq(Seq(Tag)) /\ Len(header) <= 1
  /\ out \in Seq([name : Value, cells : Seq(Value)])

\* While nobody edits the file and all of it reached the disk, the run that wrote
\* it and every run that reads it print the same columns: the default tags in
\* the order of the table, and each default name stands for its own tag although
\* the table has some names twice.
TableTags == [i \in DOMAIN Table |-> Table[i].tag]
DefaultTags == Kept(TableTags, Defaults)
DefaultsReadBack ==
  phase \in {"ready", "made"} /\ edits = 0 /\ ~lost =>
    wanted = DefaultTags /\ all = DefaultTags

\* The same, whatever became of the text when the file was written.
DefaultsComeBack == phase = "ready" /\ edits = 0 => wanted = DefaultTags

\* A run that read the file prints a column for a tag exactly when a line of the
\* file says yes to it, however the file was edited or torn.
ColumnsAsConfigured ==
  phase = "ready" =>
    \A t \in Tag : (\E i \in DOMAIN Columns : Columns[i] = t) <=>
      \E i \in DOMAIN lines : /\ lines[i].yes
                             /\ Named(lines[i].name) # {} /\ FirstNamed(lines[i].name) = t

\* What an image says of a tag: the first directory that shows it says it, leaving
\* out the size of the small picture, and after the directories the XMP packet.
EntriesOf(f, d) == Image[f].dirs[d].entries
Shows(f, tag, d, i) ==
  /\ EntriesOf(f, d)[i].tag = tag /\ tag \in Defaults
  /\ Image[f].dirs[d].type = "IFD0" => tag \notin {FrameWidth, FrameLength}
\* No directory before d shows the tag, and no entry before i of d.
NoneBefore(f, tag, d, i) ==
  \A c \in DOMAIN Image[f].dirs : \A j \in DOMAIN EntriesOf(f, c) :
    c < d \/ (c = d /\ j < i) => ~Shows(f, tag, c, j)
FirstInDirs(f, tag, d, i) ==
  /\ d \in DOMAIN Image[f].dirs /\ i \in DOMAIN EntriesOf(f, d)
  /\ Shows(f, tag, d, i) /\ NoneBefore(f, tag, d, i)
FirstInXmp(f, tag, i) ==
  /\ i \in DOMAIN Image[f].xmp /\ Image[f].xmp[i].tag = tag
  /\ \A j \in 1..i - 1 : Image[f].xmp[j].tag # tag
ValueIn(f, e) == [kind |-> "own", file |-> f, n |-> e.n]
SaysOf(f, tag, value) ==
  \/ \E d \in DOMAIN Image[f].dirs : \E i \in DOMAIN EntriesOf(f, d) :
       FirstInDirs(f, tag, d, i) /\ value = ValueIn(f, EntriesOf(f, d)[i])
  \/ /\ NoneBefore(f, tag, Len(Image[f].dirs) + 1, 1)
     /\ \/ \E i \in DOMAIN Image[f].xmp :
             FirstInXmp(f, tag, i) /\ value = ValueIn(f, Image[f].xmp[i])
        \/ (\A i \in DOMAIN Image[f].xmp : Image[f].xmp[i].tag # tag) /\ value = Empty
IsSize(f, tag) == mode = "web" /\ Image[f].frame /\ tag \in {WebWidth, WebLength}

\* A column shows what its own image says of the tag, and nothing when the image
\* says nothing of it; the columns are those of the header line.
OwnCells ==
  \A k \in DOMAIN out :
    /\ out[k].name = NameOf(argv[k])
    /\ Len(out[k].cells) = Len(header[1])
    /\ \A i \in DOMAIN Columns :
         ~IsSize(argv[k], Columns[i]) => SaysOf(argv[k], Columns[i], out[k].cells[i])

\* In the record of an image of a web site, width and length are the size in
\* which the page shows it.
SizesShown ==
  \A k \in DOMAIN out : \A i \in DOMAIN Columns :
    IsSize(argv[k], Columns[i]) => out[k].cells[i] = SizeOf(argv[k])

=============================================================================
