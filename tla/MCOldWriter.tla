---------------------------- MODULE MCOldWriter ----------------------------
(***************************************************************************)
(* NEFs of both kinds of cameras, in both byte orders, with software of a  *)
(* camera, of Nikon Capture or none; with no image that is followed, with  *)
(* an orientation in a SubIFD, with an empty maker note, and with more     *)
(* data than the buffer holds.                                             *)
(***************************************************************************)
EXTENDS OldWriter

Nothing == <<0, 0, 0, 0>>
E1(tag, units, size, four) == [tag |-> tag, units |-> units, size |-> size, four |-> four, number |-> 0]
Data(tag, units, size) == E1(tag, units, size, Nothing)
Short(tag, mm, v) == E1(tag, "short", 2, IF mm THEN <<0, v, 0, 0>> ELSE <<v, 0, 0, 0>>)
Long(tag, mm, v) == E1(tag, "long", 4, IF mm THEN <<0, 0, 1, v>> ELSE <<v, 1, 0, 0>>)
Num(tag, n) == [Data(tag, "long", 4) EXCEPT !.number = n]
If(b, s) == IF b THEN s ELSE <<>>

Ifd0(mm, software) ==
  <<Long("Frame", mm, 7)>> \o If(software # "none", <<Data("Software", "byte", 9)>>)
  \o <<Short("Orientation", mm, 6), Num("SubIfds", 0), Num("Exif", 0)>>

SubIfd0(mm, turned) ==
  <<Long("Frame", mm, 5), Num("ThumbOffset", 3000), Num("ThumbLength", 900)>>
  \o If(turned # 0, <<Short("Orientation", mm, turned)>>)

ExifDir(mm, large) ==
  <<Data("Number", "long", 8), Short("Short", mm, 2), Data("Other", "byte", large),
    Data("MakerNote", "byte", 700), Data("Other", "short", 6)>>

Note(mm, empty) ==
  If(~empty, <<Data("Quality", "byte", 8), E1("Other", "byte", 2, <<8, 9, 0, 0>>), Num("ThumbIfd", 0),
               E1("LensType", "byte", 1, <<6, 0, 0, 0>>), Short("Other", mm, 4),
               Data("Lens", "long", 32), Num("Unlisted", 0)>>)

Nef(mm, note, old, software, subs, turned, empty, large) ==
  [dirs |-> [d \in Dirs |->
     CASE d = "IFD0" -> Ifd0(mm, software) [] d = "EXIF" -> ExifDir(mm, large)
       [] d = "SUB_IFD0" -> SubIfd0(mm, turned) [] d = "SUB_IFD1" -> <<Long("Frame", mm, 3)>>
       [] d = "MAKER_NOTES" -> Note(note, empty)
       [] d = "THUMBNAIL" -> <<Num("ThumbOffset", 2000), Num("ThumbLength", 800)>>],
   order |-> [d \in Dirs |-> IF d \in {"MAKER_NOTES", "THUMBNAIL"} THEN note ELSE mm],
   subs |-> SubSeq(<<"SUB_IFD0", "SUB_IFD1">>, 1, subs), calc |-> 510, old |-> old,
   software |-> IF software = "Capture" THEN "Capture" ELSE "camera"]

\* A D100 has its image in the maker note.
HasImage(f) == f.old => Len(f.dirs["MAKER_NOTES"]) > 0

MCFiles ==
  {f \in {Nef(mm, note, old, software, subs, turned, empty, large) :
             mm, note, old, empty \in BOOLEAN, software \in {"none", "Capture", "camera"},
             subs \in {1, 2}, turned \in {0, 1, 8}, large \in {20, 1000}} : HasImage(f)}

MCLeftovers == {0, 6}
=============================================================================
