---------------------------- MODULE MCMarkerScan ----------------------------
(***************************************************************************)
(* Files for TLC: JPGs and the images of NEFs with their segments in the   *)
(* orders met in practice, with and without JFIF, EXIF, XMP and a colour   *)
(* profile, and files cut off before the picture.                          *)
(***************************************************************************)
EXTENDS MarkerScan, SequencesExt

Seg(marker, length, text) == [marker |-> marker, length |-> length, text |-> text, height |-> 0]
Jfif == Seg("APP0", 16, "other")
LongJfif == Seg("APP0", 18, "other")
Exif == Seg("APP1", 516, "Exif")
Xmp == Seg("APP1", 260, "http:")
Profile == Seg("APP2", 9, "other")
Dqt == Seg("DQT", 67, "other")
Dht == Seg("DHT", 31, "other")
Sof0 == [Seg("SOF0", 11, "other") EXCEPT !.height = 772]
Sof2 == Seg("SOF2", 11, "other")
Sos == Seg("SOS", 8, "other")

Heads == {<<>>, <<Jfif>>, <<LongJfif>>}
Apps == {<<>>, <<Exif>>, <<Xmp>>, <<Exif, Xmp>>, <<Xmp, Exif>>, <<Exif, Profile>>,
         <<Profile>>, <<Exif, Xmp, Xmp>>}
Pictures == {<<Dqt, Sof0, Dht>>, <<Dqt, Dqt, Sof0, Dht>>, <<Sof0, Dqt, Dht>>,
             <<Dht, Dqt, Sof0>>, <<Dqt, Sof2, Dht>>, <<Sof0, Dht>>, <<Dht, Dht, Dqt, Sof0, Sof0>>}
SegLists == {h \o a \o p \o <<Sos>> : h \in Heads, a \in Apps, p \in Pictures}

Starts(origin, segs) ==
  LET s[n \in 1..Len(segs)] ==
        IF n = 1 THEN origin + 2 ELSE s[n - 1] + segs[n - 1].length + 2
  IN  s

FileOf(jpg, origin, segs, tail, junk, order) ==
  LET s == Starts(origin, segs)
  IN  [jpg |-> jpg, origin |-> origin, segs |-> segs, start |-> s,
       size |-> s[Len(segs)] + tail, junk |-> junk, order |-> order, after |-> 40]

JpgFiles == {FileOf(TRUE, 0, segs, 25, Zero, order) : segs \in SegLists, order \in BOOLEAN}
NefFiles == {FileOf(FALSE, 3000, p \o <<Sos>>, 25, Zero, order) :
             p \in Pictures, order \in BOOLEAN}
WholeFiles == JpgFiles \cup NefFiles

\* Cut off in the first segment of the picture, with bytes there that look like
\* short segments.
CutFiles == {FileOf(TRUE, 0, a \o <<Dqt>>, 12, Seg("none", 4, "other"), FALSE) : a \in Apps}

Reports == {"show", "web"}
AllModes == {"show", "web", "remove"}
Removal == {"remove"}
=============================================================================
