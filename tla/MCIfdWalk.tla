----------------------------- MODULE MCIfdWalk -----------------------------
(***************************************************************************)
(* Files for TLC: an IFD0 with an optional Make and Model, SubIFDs, an     *)
(* EXIF directory with a maker note and entries after it, and a maker note *)
(* that may hold the thumbnail directory of a D100.  A second maker note   *)
(* with its own byte order may sit in a SubIFD.                            *)
(***************************************************************************)
EXTENDS IfdWalk

CONSTANTS ifd0, sub0, sub1, exif, note, note2, thumb, \* the directories
          nikon, other, d100, d70                     \* makes and models

MCDir == {ifd0, sub0, sub1, exif, note, note2, thumb}
MCText == {nikon, other, d100, d70}
MCNikonMakes == {nikon}
MCThumbModels == {d100}
FirstFile == {NoText}
AfterNikonD100 == {NoText, nikon, d100}

E(kind, to) == [kind |-> kind, to |-> to, text |-> d70, header |-> "II"]
T(kind, text) == [kind |-> kind, to |-> <<>>, text |-> text, header |-> "II"]
N(to, header) == [kind |-> "makerNote", to |-> <<to>>, text |-> d70, header |-> header]
Thumbnail == <<T("thumbOffset", d70), T("thumbLength", d70)>>
Plain == <<T("plain", d70)>>

\* A file is named by its choices: the byte order of its header, its Make and
\* Model entries, how many SubIFDs, the header of the maker note in EXIF, that of
\* one in sub0, whether the former holds a thumbnail directory, and which
\* directory is empty.
MCFiles ==
  [tiff : ByteOrder, make : {"none", "nikon", "other", "short"}, model : {d70, d100},
   subs : {0, 1, 2}, hdr : ByteOrder \cup {"bad"}, hdr2 : {"none", "MM"},
   thumbIfd : BOOLEAN, empty : {NoDir, sub1, note}]

\* Cameras whose own Make fits in the four bytes of its entry (LGE and its NUL).
ShortMakeFiles == {f \in MCFiles : f.make = "short"}

MakeEntry(m) ==
  CASE m = "none" -> <<>>
    [] m = "nikon" -> <<T("make", nikon)>>
    [] m = "other" -> <<T("make", other)>>
    [] m = "short" -> <<T("shortMake", other)>>

EntriesOf(f, d) ==
  CASE d = f.empty -> <<>>
    [] d = ifd0 -> MakeEntry(f.make)
                   \o <<T("model", f.model), E("subIfds", SubSeq(<<sub0, sub1>>, 1, f.subs)),
                        E("exif", <<exif>>)>> \o Plain
    [] d = sub0 -> Thumbnail
                   \o (IF f.hdr2 = "none" THEN <<>> ELSE <<N(note2, f.hdr2)>>) \o Plain
    [] d = exif -> <<N(note, f.hdr)>> \o Plain
    [] d = note -> (IF f.thumbIfd THEN <<E("thumbIfd", <<thumb>>)>> ELSE <<>>) \o Plain
    [] d = thumb -> Thumbnail
    [] OTHER -> Plain

HomeOf(d) == CASE d \in {note, thumb} -> note [] d = note2 -> note2 [] OTHER -> NoDir

HeaderOf(f, h) ==
  CASE h = note /\ f.hdr # "bad" -> f.hdr
    [] h = note2 /\ f.hdr2 # "none" -> f.hdr2
    [] OTHER -> f.tiff

MCLayout ==
  [f \in MCFiles |->
     [root |-> ifd0,
      entries |-> [d \in MCDir |-> EntriesOf(f, d)],
      home |-> [d \in MCDir |-> HomeOf(d)],
      order |-> [h \in MCDir \cup {NoDir} |-> HeaderOf(f, h)]]]

ASSUME TagsAssumption ==
  \A n \in Files : /\ TagsInOrder(Layout[n])
                    /\ CameraFirst(Layout[n])
                    /\ NoCycle(Layout[n])
=============================================================================
