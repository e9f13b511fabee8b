------------------------------- MODULE Batch -------------------------------
(***************************************************************************)
(* A run of the program over the files of its command line: the loop of    *)
(* main, ProcessFile, ProcessFileJPG and free_memory of d70reader.c.  What *)
(* the files of one run share is state here: the open descriptors, the     *)
(* list of rows that my_printf builds, the list of directories, the        *)
(* orientation, the texts of the camera and the counters of the JavaScript *)
(* output.  The file system may refuse to make any file the run writes, or *)
(* to take its data.                                                       *)
(*                                                                         *)
(* The walk over the directories of one file is the module IfdWalk; here   *)
(* it is one step with the ways it can end.                                *)
(***************************************************************************)
EXTENDS Integers, Sequences, FiniteSets

CONSTANTS
  Files,     \* the names on the command line
  Image,     \* what each of them names
  Modes,     \* the options the runs may be given
  MaxFiles,  \* bound: files on a command line
  MaxOpen    \* how many files the C library can have open
             \* (FOPEN_MAX, at least 8 in C; 3 is the most that one file takes)

\* The options that collect rows before they print anything, and the option
\* that prints every row at once.
Collecting == {"table", "js"}
Reporting == Collecting \cup {"plain"}
AllModes == Reporting \cup {"extract", "remove"}

\* make_ptr, model_ptr and software_ptr.
Texts == {"make", "model", "software"}

ImageKind ==
  [ext : {"JPG", "NEF", "other"},
   found : BOOLEAN,       \* stat succeeds
   readable : BOOLEAN,    \* fopen succeeds
   exif : BOOLEAN,        \* a JPG with an EXIF marker
   header : {"ok", "bad"},
   walk : {"done", "empty", "exit"},
   texts : SUBSET Texts,  \* what the walk sets of the camera's texts
   compared : SUBSET {"make", "model"},  \* and what it has to know of them
   table : BOOLEAN,       \* a JPG with a table or a baseline frame
   tags : BOOLEAN,        \* some tag of it is wanted and printed
   xmp : {"none", "rows", "bad"},
   orientation : 0..8]    \* its first orientation tag, 0 when it has none

ASSUME ImageAssumption == \A f \in Files : Image[f] \in ImageKind
ASSUME ModesAssumption == Modes \subseteq AllModes
ASSUME BoundAssumption == MaxFiles \in Nat /\ MaxOpen \in Nat \ 0..2

Row == [file : 1..MaxFiles, what : {"name", "tags", "xmp"}]
RowList == [rows : SUBSET Row, alive : BOOLEAN]

\* One report: the rows of the list when it was printed, and the index and the
\* header line that -js gives it.
Report == [file : 1..MaxFiles, rows : SUBSET Row, index : Nat, header : BOOLEAN]

-----------------------------------------------------------------------------
VARIABLES
  argv,         \* the files of the command line
  n,            \* how many of them the loop has taken
  mode,         \* the option given
  pc,           \* what happens next to file n, or how the program ended
  opened,       \* the descriptors that are open
  lists,        \* every row list ever allocated, and whether it is released
  last,         \* html_header_ptr: the list rows are added to, 0 for NULL
  start,        \* html_header_start_ptr: the list that is printed and released
  dirs,         \* the files whose directories main_header_start_ptr leads to
  orientation,  \* ulGlobalOrientation
  label,        \* GlobalOrientationPtr: 0 stands for the "X" of ProcessFile
  jsIndex,      \* js_ctr1
  jsFirst,      \* iJS_First_Time
  out,          \* what was reported, in order
  count,        \* the intExifDataArrayCount printed at the end of -js
  texts,        \* those of make_ptr, model_ptr and software_ptr that are not NULL
  refused,      \* history: the files whose output could not be created,
  unwritten     \* or took no data, because of the file system

reporting == <<lists, last, start, dirs, label, jsIndex, jsFirst, out>>
failures == <<refused, unwritten>>
outside == <<texts, failures>>
vars == <<argv, n, mode, pc, opened, orientation, count, outside, reporting>>

Ended == {"finished", "exit", "crash"}
Img == Image[argv[n]]

Init ==
  /\ argv \in UNION {[1..k -> Files] : k \in 0..MaxFiles}
  /\ mode \in Modes
  /\ n = 0
  /\ pc = "next"
  /\ opened = 0
  /\ lists = <<>>
  /\ last = 0
  /\ start = 0
  /\ dirs = {}
  /\ orientation = 0
  /\ label = 0
  /\ jsIndex = 0
  /\ jsFirst = TRUE
  /\ out = <<>>
  /\ count = 0
  /\ texts = {}
  /\ refused = {}
  /\ unwritten = {}

-----------------------------------------------------------------------------
(* The row list. *)

\* my_printf: a row goes to the list being built, or starts a new one.
AddRows(rows) ==
  IF last = 0
    THEN /\ lists' = Append(lists, [rows |-> rows, alive |-> TRUE])
         /\ last' = Len(lists')
         /\ start' = Len(lists')
    ELSE /\ lists' = [lists EXCEPT ![last].rows = @ \cup rows]
         /\ UNCHANGED <<last, start>>

OneRow(what) == {[file |-> n, what |-> what]}

\* free_memory also forgets the two lists, but not html_header_start_ptr.
ForgetLists ==
  /\ last' = 0
  /\ dirs' = {}

\* Mutant: the rows are not released.
RowsForgotten(next) ==
  /\ lists' = lists
  /\ pc' = next

\* Releasing the list at html_header_start_ptr a second time is undefined: the
\* allocator aborts, or does not notice.
ReleaseRows(next) ==
  \/ start = 0 /\ UNCHANGED lists /\ pc' = next
  \/ /\ start # 0
     /\ lists[start].alive
     /\ lists' = [lists EXCEPT ![start].alive = FALSE]
     /\ pc' = next
  \/ /\ start # 0
     /\ ~lists[start].alive
     /\ UNCHANGED lists
     /\ pc' \in {"crash", next}

FreeMemory(next) == ReleaseRows(next) /\ ForgetLists /\ UNCHANGED start

-----------------------------------------------------------------------------
(* main: the loop over the command line. *)

\* Mutant: the program stops at the first file it cannot find.
StopAtMissing == IF Image[argv[n + 1]].found THEN "file" ELSE "finished"

\* A name that stat does not find is reported and passed over.
AfterStat == IF Image[argv[n + 1]].found THEN "file" ELSE "next"

NextFile ==
  /\ pc = "next"
  /\ n < Len(argv)
  /\ n' = n + 1
  /\ pc' = AfterStat
  /\ UNCHANGED <<argv, mode, opened, orientation, count, outside, reporting>>

\* Mutant: the number of records, not the index of the last one.
RecordCount == jsIndex

LastIndex == jsIndex - 1

Finish ==
  /\ pc = "next"
  /\ n = Len(argv)
  /\ pc' = "finished"
  /\ count' = IF mode = "js" THEN LastIndex ELSE count
  /\ UNCHANGED <<argv, n, mode, opened, orientation, outside, reporting>>

\* Mutant: the orientation of one file is left for the next.
OrientationKept == orientation

OrientationReset == 0

AfterFile == "next"

\* Back in main after each file.
EndFile ==
  /\ pc = "reset"
  /\ orientation' = OrientationReset
  /\ pc' = AfterFile
  /\ UNCHANGED <<argv, n, mode, opened, count, outside, reporting>>

-----------------------------------------------------------------------------
(* ProcessFile and ProcessFileJPG: opening the file. *)

\* With -j a JPG ends the program.
RefuseJpg ==
  /\ pc = "file"
  /\ mode = "extract"
  /\ Img.ext = "JPG"
  /\ pc' = "exit"
  /\ UNCHANGED <<argv, n, mode, opened, orientation, count, outside, reporting>>

\* Without it a file that is neither JPG nor NEF is passed over; with it
\* everything else is taken for a NEF file.
WrongType ==
  /\ pc = "file"
  /\ mode # "extract"
  /\ Img.ext = "other"
  /\ pc' = "reset"
  /\ UNCHANGED <<argv, n, mode, opened, orientation, count, outside, reporting>>

RightType == IF mode = "extract" THEN Img.ext # "JPG" ELSE Img.ext # "other"

\* Mutant: there is always another descriptor.
EveryOpenSucceeds == Img.readable

CanOpen == Img.readable /\ opened < MaxOpen

OpenFails ==
  /\ pc = "file"
  /\ RightType
  /\ ~CanOpen
  /\ pc' = "reset"
  /\ UNCHANGED <<argv, n, mode, opened, orientation, count, outside, reporting>>

Open ==
  /\ pc = "file"
  /\ RightType
  /\ CanOpen
  /\ opened' = opened + 1
  /\ pc' = "opened"
  /\ UNCHANGED <<argv, n, mode, orientation, count, outside, reporting>>

-----------------------------------------------------------------------------
(* ProcessFile and ProcessFileJPG: the open file. *)

\* -rm makes a second file, and returns without closing the file it read.
RemoveNef ==
  /\ pc = "opened"
  /\ mode = "remove"
  /\ Img.ext # "JPG"
  /\ pc' = "reset"
  /\ UNCHANGED <<argv, n, mode, opened, orientation, count, outside, reporting>>

\* remove_exif makes no file when it finds no place to copy from.
NothingToCopy ==
  /\ pc = "opened"
  /\ mode = "remove"
  /\ Img.ext = "JPG" /\ ~Img.table
  /\ pc' = "reset"
  /\ UNCHANGED <<argv, n, mode, opened, orientation, count, outside, reporting>>

Copies == pc = "opened" /\ mode = "remove" /\ Img.ext = "JPG" /\ Img.table

\* Its fopen fails when there is no descriptor left, or the file system refuses.
CopyNotOpened ==
  /\ Copies
  /\ refused' = IF opened < MaxOpen THEN refused \cup {n} ELSE refused
  /\ pc' = "reset"
  /\ UNCHANGED <<argv, n, mode, opened, orientation, count, texts, unwritten, reporting>>

\* When the data is not taken, the new file stays open too.
CopyNotWritten ==
  /\ Copies
  /\ opened < MaxOpen
  /\ opened' = opened + 1
  /\ unwritten' = unwritten \cup {n}
  /\ pc' = "reset"
  /\ UNCHANGED <<argv, n, mode, orientation, count, texts, refused, reporting>>

Written == out' = Append(out, [file |-> n, rows |-> {}, index |-> 0, header |-> FALSE])

RemoveExif ==
  /\ Copies
  /\ opened < MaxOpen
  /\ Written
  /\ pc' = "reset"
  /\ UNCHANGED <<argv, n, mode, opened, orientation, count, outside, lists, last, start, dirs,
                 label, jsIndex, jsFirst>>

\* So does a report for a JPG without EXIF data.
NoExif ==
  /\ pc = "opened"
  /\ mode \in Reporting
  /\ Img.ext = "JPG" /\ ~Img.exif
  /\ pc' = "reset"
  /\ UNCHANGED <<argv, n, mode, opened, orientation, count, outside, reporting>>

\* The first rows of a collected report are the version and the file name.
BeginReport ==
  /\ pc = "opened"
  /\ mode \in Reporting
  /\ Img.ext = "JPG" => Img.exif
  /\ IF mode \in Collecting THEN AddRows(OneRow("name")) ELSE UNCHANGED <<lists, last, start>>
  /\ pc' = "header"
  /\ UNCHANGED <<argv, n, mode, opened, orientation, count, outside, dirs, label, jsIndex, jsFirst, out>>

BeginExtract ==
  /\ pc = "opened"
  /\ mode = "extract"
  /\ pc' = "header"
  /\ UNCHANGED <<argv, n, mode, opened, orientation, count, outside, reporting>>

\* inspect_image_file_header ends the program on a header it does not know.
BadHeader ==
  /\ pc = "header"
  /\ Img.header = "bad"
  /\ pc' = "exit"
  /\ UNCHANGED <<argv, n, mode, opened, orientation, count, outside, reporting>>

\* The texts of the camera that are known during the walk, those of an earlier file
\* among them, and those it compares: dump_jpg_image_file_directory only the model.
Known == texts \cup Img.texts
Compared == IF mode = "extract" THEN Img.compared \ {"make"} ELSE Img.compared

\* upper_case copies a text that is NULL.
NoText ==
  /\ pc = "header"
  /\ Img.header = "ok"
  /\ ~(Compared \subseteq Known)
  /\ pc' = "crash"
  /\ UNCHANGED <<argv, n, mode, opened, orientation, count, outside, reporting>>

\* A maker note with an unknown header ends the program, as in BadHeader.
BadNote ==
  /\ pc = "header"
  /\ Img.header = "ok" /\ Compared \subseteq Known
  /\ Img.walk = "exit"
  /\ pc' = "exit"
  /\ UNCHANGED <<argv, n, mode, opened, orientation, count, outside, reporting>>

\* The walk lists the directories of the file behind those already listed.
Walk ==
  /\ pc = "header"
  /\ Img.header = "ok" /\ Compared \subseteq Known
  /\ mode \in Reporting
  /\ Img.walk = "done"
  /\ dirs' = dirs \cup {n}
  /\ texts' = Known
  /\ pc' = "xmp"
  /\ UNCHANGED <<argv, n, mode, opened, orientation, count, failures, lists, last, start, label,
                 jsIndex, jsFirst, out>>

\* Mutant: the rows of a file that failed stay listed.
ForgetNothing(next) ==
  pc' = next /\ dirs' = dirs \cup {n} /\ UNCHANGED <<lists, last, start>>

ReleaseAfterError(next) == FreeMemory(next)

\* An empty directory: the rows are released, the descriptor is not.
WalkFails ==
  /\ pc = "header"
  /\ Img.header = "ok" /\ Compared \subseteq Known
  /\ mode \in Reporting
  /\ Img.walk = "empty"
  /\ ReleaseAfterError("reset")
  /\ texts' = Known
  /\ UNCHANGED <<argv, n, mode, opened, orientation, count, failures, label, jsIndex, jsFirst, out>>

\* A JPG whose XMP packet the SDK could not read: the NULL result is used.
BadXmp ==
  /\ pc = "xmp"
  /\ Img.ext = "JPG" /\ Img.xmp = "bad"
  /\ pc' = "crash"
  /\ UNCHANGED <<argv, n, mode, opened, orientation, count, outside, reporting>>

\* The rows that display_data and the XMP packet give, over every listed
\* directory; the first orientation that is not zero is kept.
Displayed ==
  {[file |-> i, what |-> "tags"] : i \in {j \in dirs : Image[argv[j]].tags}}
  \cup (IF Img.ext = "JPG" /\ Img.xmp = "rows" THEN OneRow("xmp") ELSE {})

Display ==
  /\ pc = "xmp"
  /\ ~(Img.ext = "JPG" /\ Img.xmp = "bad")
  /\ IF Displayed = {} THEN UNCHANGED <<lists, last, start>> ELSE AddRows(Displayed)
  /\ IF orientation = 0
       THEN orientation' = Img.orientation /\ label' = Img.orientation
       ELSE label' = 0 /\ UNCHANGED orientation
  /\ pc' = "report"
  /\ UNCHANGED <<argv, n, mode, opened, count, outside, dirs, jsIndex, jsFirst, out>>

\* Close the file and print what was collected.
PrintReport ==
  /\ pc = "report"
  /\ opened' = opened - 1
  /\ out' = Append(out, [file |-> n,
                         rows |-> IF mode \in Collecting THEN lists[start].rows ELSE {},
                         index |-> IF mode = "js" THEN jsIndex ELSE 0,
                         header |-> mode = "js" /\ jsFirst])
  /\ jsIndex' = IF mode = "js" THEN jsIndex + 1 ELSE jsIndex
  /\ jsFirst' = (jsFirst /\ mode # "js")
  /\ pc' = "free"
  /\ UNCHANGED <<argv, n, mode, orientation, count, outside, lists, last, start, dirs, label>>

Release ==
  /\ pc = "free"
  /\ FreeMemory("reset")
  /\ UNCHANGED <<argv, n, mode, opened, orientation, count, outside, label, jsIndex, jsFirst, out>>

\* -j: the walk of ProcessFileJPG, whose result is not looked at, keeps the last
\* orientation, and the thumbnail is turned by it.
WalkJpg ==
  /\ pc = "header"
  /\ Img.header = "ok" /\ Compared \subseteq Known
  /\ mode = "extract"
  /\ Img.walk \in {"done", "empty"}
  /\ orientation' = IF Img.orientation = 0 THEN orientation ELSE Img.orientation
  /\ texts' = Known
  /\ pc' = "write"
  /\ UNCHANGED <<argv, n, mode, opened, count, failures, reporting>>

\* output_thumbnail takes the length of the software and the model in capitals.
Nameless == ~({"model", "software"} \subseteq texts)

NoSoftware ==
  /\ pc = "write"
  /\ Nameless
  /\ pc' = "crash"
  /\ UNCHANGED <<argv, n, mode, opened, orientation, count, outside, reporting>>

\* It ends the program when the file cannot be created,
ThumbnailNotCreated ==
  /\ pc = "write"
  /\ ~Nameless
  /\ refused' = refused \cup {n}
  /\ pc' = "exit"
  /\ UNCHANGED <<argv, n, mode, opened, orientation, count, texts, unwritten, reporting>>

\* or takes no data, cannot be opened again for its offsets or is not turned.
ThumbnailNotWritten ==
  /\ pc = "write"
  /\ ~Nameless
  /\ unwritten' = unwritten \cup {n}
  /\ pc' = "exit"
  /\ UNCHANGED <<argv, n, mode, opened, orientation, count, texts, refused, reporting>>

WriteThumbnail ==
  /\ pc = "write"
  /\ ~Nameless
  /\ opened' = opened - 1
  /\ Written
  /\ pc' = "reset"
  /\ UNCHANGED <<argv, n, mode, orientation, count, outside, lists, last, start, dirs, label,
                 jsIndex, jsFirst>>

\* The program has ended.
Stopped == pc \in Ended /\ UNCHANGED vars

Next ==
  \/ NextFile \/ Finish \/ EndFile
  \/ RefuseJpg \/ WrongType \/ OpenFails \/ Open
  \/ RemoveNef \/ NothingToCopy \/ CopyNotOpened \/ CopyNotWritten \/ RemoveExif
  \/ NoExif \/ BeginReport \/ BeginExtract
  \/ BadHeader \/ NoText \/ BadNote \/ Walk \/ WalkFails \/ BadXmp
  \/ Display \/ PrintReport \/ Release
  \/ WalkJpg \/ NoSoftware \/ ThumbnailNotCreated \/ ThumbnailNotWritten \/ WriteThumbnail
  \/ Stopped

Spec == Init /\ [][Next]_vars

-----------------------------------------------------------------------------
(* Properties *)

\* Every variable has its type.
TypeOK ==
  /\ argv \in Seq(Files) /\ Len(argv) <= MaxFiles
  /\ n \in 0..Len(argv)
  /\ mode \in Modes
  /\ pc \in {"next", "file", "opened", "header", "xmp", "report", "free", "write",
             "reset"} \cup Ended
  /\ opened \in 0..MaxOpen
  /\ lists \in Seq(RowList)
  /\ {last, start} \subseteq 0..Len(lists)
  /\ dirs \subseteq 1..Len(argv)
  /\ {orientation, label} \subseteq 0..8
  /\ jsIndex \in Nat
  /\ jsFirst \in BOOLEAN
  /\ out \in Seq(Report)
  /\ count \in Int
  /\ texts \subseteq Texts
  /\ refused \cup unwritten \subseteq 1..n

\* A collected report has the name, the tags and the XMP rows of its own file and
\* no row of an earlier one, whatever became of the earlier files.
OwnRows(i) ==
  {[file |-> i, what |-> w] : w \in
     {"name"} \cup (IF Image[argv[i]].tags THEN {"tags"} ELSE {})
              \cup (IF Image[argv[i]].ext = "JPG" /\ Image[argv[i]].xmp = "rows"
                      THEN {"xmp"} ELSE {})}
ReportOwnRows ==
  mode \in Collecting => \A k \in 1..Len(out) : out[k].rows = OwnRows(out[k].file)

\* An image is turned, and its orientation reported, by its own tag only.
OwnOrientation ==
  /\ pc \in {"report", "write"} => orientation = Img.orientation
  /\ pc \in {"report", "free"} => label = Img.orientation

\* With a collecting option the rows are still allocated when they are printed
\* and released, and between two files none are.
RowsReleasedOnce ==
  mode \in Collecting =>
    /\ pc \in {"header", "xmp", "report", "free"} => start # 0 /\ lists[start].alive
    /\ pc \in {"next", "finished"} => \A k \in 1..Len(lists) : ~lists[k].alive

\* -js numbers the records of a run from 0 without a gap, writes the header
\* line before the first only, and ends with the index of the last.
JsNumbered ==
  mode = "js" =>
    /\ \A k \in 1..Len(out) : out[k].index = k - 1 /\ out[k].header = (k = 1)
    /\ pc = "finished" => count = Len(out) - 1

\* A file that the program is able to report on.
Reportable(i) ==
  LET f == Image[argv[i]]
  IN  /\ f.found /\ f.readable
      /\ CASE mode = "remove" -> f.ext = "JPG" /\ f.table
           [] mode = "extract" -> f.ext # "JPG" /\ f.header = "ok"
                                  /\ f.walk \in {"done", "empty"}
           [] OTHER -> /\ f.ext = "NEF" \/ (f.ext = "JPG" /\ f.exif)
                       /\ f.header = "ok" /\ f.walk = "done"
Reported == {out[k].file : k \in 1..Len(out)}

\* A file whose descriptor stays open when the program goes on to the next.
LeavesOpen(i) ==
  LET f == Image[argv[i]]
  IN  /\ f.found /\ f.readable
      /\ CASE mode = "remove" -> f.ext # "other"
           [] mode \in Reporting -> \/ f.ext = "JPG" /\ ~f.exif
                                    \/ /\ f.ext = "NEF" \/ (f.ext = "JPG" /\ f.exif)
                                       /\ f.header = "ok" /\ f.walk = "empty"
           [] OTHER -> FALSE

\* How many descriptors the first k files leave open, and how many it takes to report on
\* a file beside its own.  A copy that took no data is another one left open.
LeftBy(k) ==
  Cardinality({j \in 1..k : LeavesOpen(j)}) + Cardinality({j \in 1..k : j \in unwritten})
Beside == IF mode = "remove" THEN 1 ELSE 0

\* What makes the program end in the middle of its command line: something in the file
\* at hand, a text that neither it nor a file before it has, or the file system.
EndsProgram ==
  \/ Img.header = "bad" \/ Img.walk = "exit"
  \/ ~(Compared \subseteq Known)
  \/ Img.ext = "JPG" /\ Img.xmp = "bad"
  \/ mode = "plain" /\ (Img.walk = "empty" \/ ~Img.tags)
  \/ mode = "extract" /\ (Img.ext = "JPG" \/ Nameless \/ n \in refused \cup unwritten)

\* The program reports, in order and once, on every file it comes to and is able to
\* report on whose output the file system takes, until the descriptors that earlier
\* files left open use up those it may have; a file is copied as long as there are two.
\* It ends before the last file because of the file at hand only.
AllReported ==
  /\ \A j, k \in 1..Len(out) : j < k => out[j].file < out[k].file
  /\ \A i \in 1..(IF pc \in {"next", "finished"} THEN n ELSE n - 1) :
       i \in Reported <=> /\ Reportable(i)
                          /\ i \notin refused \cup unwritten
                          /\ LeftBy(i - 1) + Beside < MaxOpen
  /\ pc = "finished" => n = Len(argv)
  /\ pc \in {"exit", "crash"} => EndsProgram

\* A run that reaches the end has reported on every file it is able to report on.
AnyNumberReported ==
  pc = "finished" =>
    Reported = {i \in 1..Len(argv) : Reportable(i)} \ (refused \cup unwritten)

\* The program goes on to the next file after an error in one.
GoesOn == pc \in {"exit", "crash"} => n = Len(argv)

=============================================================================
