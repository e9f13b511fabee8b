------------------------ MODULE MCThumbnailWriter ------------------------
(***************************************************************************)
(* NEFs for TLC: both kinds of models, software of a camera, of Nikon      *)
(* Capture or none, upright and vertical, any byte orders, no to three     *)
(* SubIFDs, with and without a preview image in the maker note, near or    *)
(* beyond what an EXIF header can hold; one by one, and in pairs.          *)
(***************************************************************************)
EXTENDS ThumbnailWriter, FiniteSets

E(tag, value) == [tag |-> tag, value |-> value]
If(b, s) == IF b THEN s ELSE <<>>

Ifd0(software, orientation, subs, exif) ==
  <<E("Bits", 300), E("Model", 0), E("Orientation", orientation),
    E("XResolution", 320), E("YResolution", 328)>>
  \o If(software # "none", <<E("Software", 336)>>)
  \o If(subs > 0, <<E("SubIfds", 340)>>) \o If(exif, <<E("Exif", 400)>>)

ImageDir(at) == <<E("XResolution", 0), E("ThumbOffset", at), E("ThumbLength", 1000)>>

At0 == [d \in Dirs |->
  CASE d = "IFD0" -> 8 [] d = "EXIF" -> 400 [] d = "MAKER_NOTES" -> 518 [] d = "THUMBNAIL" -> 1012
    [] d = "SUB_IFD0" -> 2000 [] d = "SUB_IFD1" -> 2100 [] d = "SUB_IFD2" -> 2200
    [] d = "SUB_IFD3" -> 2300]

\* preview is the offset of the preview image from the header of the maker note, 0
\* if there is none; a far one has its directory far as well.
Nef(old, software, orientation, first, second, subs, preview) ==
  LET far == IF preview > 60000 THEN 66000 ELSE 502
  IN  [kind |-> "nef", old |-> old,
       software |-> IF software = "none" THEN "camera" ELSE software,
       dirs |-> [d \in Dirs |->
         CASE d = "IFD0" -> Ifd0(software, orientation, subs, TRUE)
           [] d = "EXIF" -> <<E("MakerNote", 500)>>
           [] d = "MAKER_NOTES" -> If(preview # 0, <<E("ThumbIfd", far)>>) \o <<E("other", 0)>>
           [] d = "THUMBNAIL" -> ImageDir(preview)
           [] d = "SUB_IFD0" -> ImageDir(3064) [] OTHER -> <<E("other", 0), E("YResolution", 0)>>],
       order |-> [d \in Dirs |-> IF d \in {"MAKER_NOTES", "THUMBNAIL"} THEN second ELSE first],
       at |-> [At0 EXCEPT !["THUMBNAIL"] = far + 510],
       subs |-> subs, note |-> TRUE, junk |-> 502]

Nefs == {Nef(old, software, orientation, first, second, subs, preview) :
          old \in BOOLEAN, software \in {"none", "Capture", "camera"}, orientation \in {1, 6},
          first \in BOOLEAN, second \in BOOLEAN, subs \in {0, 1, 2, 3}, preview \in {0, 758, 66038}}

Typical == Nef(FALSE, "camera", 1, TRUE, TRUE, 2, 758)
Jpg0 == [Typical EXCEPT !.kind = "jpg"]
NoNote == [Typical EXCEPT !.note = FALSE]
NoExif == [Typical EXCEPT !.dirs["IFD0"] = Ifd0("camera", 1, 2, FALSE), !.junk = 0]

Some == {Typical, Jpg0, NoNote, NoExif,
         Nef(FALSE, "Capture", 8, FALSE, TRUE, 3, 0), Nef(FALSE, "none", 1, TRUE, FALSE, 1, 758),
         Nef(TRUE, "camera", 6, TRUE, TRUE, 1, 758), Nef(TRUE, "Capture", 1, FALSE, FALSE, 0, 66038)}

MCLines == {<<f>> : f \in Nefs \cup Some} \cup {<<e, f>> : e \in Some, f \in Some}
=============================================================================
