----------------------------- MODULE MarkerScan -----------------------------
(***************************************************************************)
(* The scans over the segments of a JPG, in the order ProcessFile makes    *)
(* them for one file: check_for_exif_data, inspect_image_file_header,      *)
(* chk_get_xmp_data and get_sof0_data, or with -rm the two calls of        *)
(* get_marker_offset and the copy of remove_exif.  One step per segment.   *)
(*                                                                         *)
(* All share the position of one FILE and MotorolaOrder, which they save   *)
(* before a scan.  A file is a sequence of segments with the positions     *)
(* they start at; a read anywhere else finds file.junk.                    *)
(***************************************************************************)
EXTENDS Integers, Sequences

CONSTANTS
  Files,   \* the files that may be given
  Modes    \* "show": a report, "web": -web, "remove": -rm

Markers == {"APP0", "APP1", "APP2", "DQT", "DHT", "SOF0", "SOF2", "SOS", "none"}
Scans == {"exif", "xmp", "sof0", "db", "c0"}

Word == 0..65535                  \* unsigned short

\* What a read at the beginning of a segment finds: the marker, the length (of
\* the segment without its two marker bytes), the text its data begins with,
\* and for SOF0 the height of the picture.
Header == [marker : Markers, length : Word, text : {"Exif", "http:", "other"},
           height : Word]
Zero == [marker |-> "none", length |-> 0, text |-> "other", height |-> 0]

\* origin is 0 for a JPG, in a NEF the position of its JPG image (lThumbnailOffset,
\* or this plus the maker note base for a D100 or D2H).  order is the byte order
\* of the EXIF header (TRUE: MM), after where the directory walk leaves the FILE.
File == [jpg : BOOLEAN, origin : Nat, segs : Seq(Header), start : Seq(Nat),
         size : Nat, junk : Header, order : BOOLEAN, after : Nat]

WellFormed(f) ==
  /\ f.segs # <<>> /\ Len(f.start) = Len(f.segs)
  /\ f.jpg => f.origin = 0
  /\ f.start[1] = f.origin + 2
  /\ \A n \in 1..Len(f.segs) : f.segs[n].length >= 2 /\ f.start[n] + 4 <= f.size
  /\ \A n \in 1..(Len(f.segs) - 1) : f.start[n + 1] = f.start[n] + f.segs[n].length + 2
  /\ \A m, n \in 1..Len(f.segs) : m < n => f.start[m] < f.start[n]
  /\ f.size >= 10

\* The headers end with SOS, after which the picture itself follows.  A file cut
\* off before that is not complete.
Complete(f) ==
  /\ \A n \in 1..Len(f.segs) : f.segs[n].marker = "SOS" <=> n = Len(f.segs)
  /\ f.start[Len(f.segs)] + 10 <= f.size

ASSUME FilesAssumption == \A f \in Files : f \in File /\ WellFormed(f)
ASSUME ModesAssumption == Modes \subseteq {"show", "web", "remove"}

-----------------------------------------------------------------------------
VARIABLES
  file,     \* the file at hand; never changes
  mode,     \* the option given; never changes
  pc,       \* how far ProcessFile is
  scan,     \* the scan that is going on, or "none"
  pos,      \* where the FILE stands
  motorola, \* MotorolaOrder
  saved,    \* old_position and oldMotorolaOrder of the scan
  result,   \* for each scan the position it found, 0 if none; Unset before
  jpgType,  \* iJPG_Type
  height,   \* iGlobalImageHeight
  packet,   \* the bytes chk_get_xmp_data returns
  out       \* the bytes of the file that follow the SOI in NOEXIF_...

vars == <<file, mode, pc, scan, pos, motorola, saved, result, jpgType, height,
          packet, out>>

Unset == 1                        \* no segment starts here
NoBytes == [from |-> 0, length |-> 0]
Bytes == [from : Nat, length : Nat]
Ended == {"done", "noExif", "exit", "failed"}

Init ==
  /\ file \in Files /\ mode \in Modes
  /\ pc = "open" /\ scan = "none" /\ pos = 0
  /\ motorola \in BOOLEAN         \* left by an earlier file
  /\ saved = [pos |-> 0, motorola |-> FALSE]
  /\ result = [k \in Scans |-> Unset]
  /\ jpgType = 0 /\ height = 0
  /\ packet = NoBytes /\ out = NoBytes

-----------------------------------------------------------------------------
(* A scan.                                                                  *)

\* struct marker with and without test_data.
StructSize(k) == IF k \in {"exif", "xmp"} THEN 10 ELSE 4

StartOf(k) == IF k \in {"exif", "xmp"} \/ file.jpg THEN 2 ELSE file.origin + 2

StartsAt(p) == {n \in 1..Len(file.segs) : file.start[n] = p}

\* fread into the zeroed structure.
Reading(p) ==
  IF p >= file.size THEN Zero
  ELSE IF StartsAt(p) = {} THEN file.junk
  ELSE file.segs[CHOOSE n \in StartsAt(p) : TRUE]

AfterRead(k, p) ==
  IF p + StructSize(k) <= file.size THEN p + StructSize(k)
  ELSE IF p < file.size THEN file.size ELSE p

\* Get16u, of a value the file holds with its high byte first.
Get16u(v) == IF motorola THEN v ELSE (v % 256) * 256 + v \div 256

Matches(k, h) ==
  CASE k = "exif" -> h.text = "Exif"
    [] k = "xmp" -> h.text = "http:"
    [] k = "db" -> h.marker = "DQT"
    [] OTHER -> h.marker = "SOF0"

\* (Mutant: MotorolaOrder is not set.)
OrderOfFile == motorola
ScanOrder == TRUE                 \* the order a scan sets before its first read

BeginScan(k) ==
  /\ scan = "none"
  /\ scan' = k
  /\ saved' = [pos |-> pos, motorola |-> motorola]
  /\ motorola' = ScanOrder
  /\ pos' = StartOf(k)
  /\ UNCHANGED <<file, mode, result, jpgType, height, packet, out>>

\* (Mutant: the length is counted from the beginning of the file.)
SeekFromStart(k, p, h) == Get16u(h.length) + 2 - StructSize(k)

\* fseek(rfd, Get16u(&length) - sizeof(struct marker) + 2, 1)
AfterSegment(k, p, h) == AfterRead(k, p) + Get16u(h.length) + 2 - StructSize(k)

\* (Mutant: oldMotorolaOrder is not restored.)
KeepOrder == motorola
RestoredPosition == saved.pos
\* get_marker_offset leaves MotorolaOrder set.
RestoredOrder == IF scan \in {"db", "c0"} THEN motorola ELSE saved.motorola

\* (Mutant: the position is taken after the read.)
EndScanAfterRead(p) ==
  /\ scan' = "none"
  /\ pos' = RestoredPosition
  /\ motorola' = RestoredOrder
  /\ result' = [result EXCEPT ![scan] = IF p = 0 THEN 0 ELSE AfterRead(scan, p)]

EndScan(p) ==
  /\ scan' = "none"
  /\ pos' = RestoredPosition
  /\ motorola' = RestoredOrder
  /\ result' = [result EXCEPT ![scan] = p]

\* The segment is neither the one looked for nor SOS.
SkipSegment ==
  /\ scan # "none"
  /\ LET h == Reading(pos)
     IN  /\ ~Matches(scan, h) /\ h.marker # "SOS"
         /\ pos' = AfterSegment(scan, pos, h)
  /\ UNCHANGED <<file, mode, pc, scan, motorola, saved, result, jpgType, height,
                 packet, out>>

\* (Mutant: the height is converted after MotorolaOrder is restored.)
HeightInOldOrder(h) ==
  IF saved.motorola THEN h.height ELSE (h.height % 256) * 256 + h.height \div 256

\* What get_sof0_data and chk_get_xmp_data keep: the height, still read with the
\* order of the scan, and the bytes after the length.
HeightIn(h) == Get16u(h.height)
PacketAt(p, h) == [from |-> p + 4, length |-> Get16u(h.length)]

Found ==
  /\ scan # "none"
  /\ LET h == Reading(pos)
     IN  /\ Matches(scan, h)
         /\ height' = IF scan = "sof0" THEN HeightIn(h) ELSE height
         /\ packet' = IF scan = "xmp" THEN PacketAt(pos, h) ELSE packet
  /\ EndScan(pos)
  /\ UNCHANGED <<file, mode, pc, saved, jpgType, out>>

StartOfScan ==
  /\ scan # "none"
  /\ LET h == Reading(pos) IN ~Matches(scan, h) /\ h.marker = "SOS"
  /\ EndScan(0)
  /\ UNCHANGED <<file, mode, pc, saved, jpgType, height, packet, out>>

-----------------------------------------------------------------------------
(* ProcessFile for a report.                                                *)

CheckForExif ==
  /\ pc = "open" /\ mode # "remove" /\ file.jpg
  /\ BeginScan("exif") /\ pc' = "checked"

NoExif ==
  /\ scan = "none" /\ pc = "checked" /\ result["exif"] = 0
  /\ pc' = "noExif"
  /\ UNCHANGED <<file, mode, scan, pos, motorola, saved, result, jpgType, height,
                 packet, out>>

Inspecting ==
  /\ scan = "none" /\ mode # "remove"
  /\ (pc = "checked" /\ result["exif"] # 0) \/ (pc = "open" /\ ~file.jpg)

\* The EXIF header must be in the first segment or, after an APP0 of 16 bytes, in
\* the second: it is read at 18 with a structure that begins with an SOI.
ExifIsAt(n) == n \in DOMAIN file.segs /\ file.segs[n].text = "Exif"
HeaderOK ==
  /\ pos = 0
  /\ CASE ~file.jpg -> TRUE
       [] file.segs[1].marker = "APP0" -> ExifIsAt(2) /\ file.start[2] = 20
       [] file.segs[1].marker = "APP1" -> ExifIsAt(1)
       [] OTHER -> FALSE

Inspect ==
  /\ Inspecting /\ HeaderOK
  /\ motorola' = file.order
  /\ jpgType' = IF ~file.jpg THEN 99 ELSE IF file.segs[1].marker = "APP0" THEN 0 ELSE 1
  /\ pos' = file.after            \* where the walk over the directories ends
  /\ pc' = "walked"
  /\ UNCHANGED <<file, mode, scan, saved, result, height, packet, out>>

BadHeader ==
  /\ Inspecting /\ ~HeaderOK
  /\ pc' = "exit"
  /\ UNCHANGED <<file, mode, scan, pos, motorola, saved, result, jpgType, height,
                 packet, out>>

GetXmp ==
  /\ pc = "walked" /\ jpgType = 0
  /\ BeginScan("xmp") /\ pc' = "shown"

NoXmp ==
  /\ scan = "none" /\ pc = "walked" /\ jpgType # 0
  /\ pc' = "shown"
  /\ UNCHANGED <<file, mode, scan, pos, motorola, saved, result, jpgType, height,
                 packet, out>>

GetSize ==
  /\ pc = "shown" /\ mode = "web"
  /\ BeginScan("sof0") /\ pc' = "sized"

Close ==
  /\ scan = "none"
  /\ pc = "sized" \/ (pc = "shown" /\ mode # "web")
  /\ pc' = "done"
  /\ UNCHANGED <<file, mode, scan, pos, motorola, saved, result, jpgType, height,
                 packet, out>>

-----------------------------------------------------------------------------
(* remove_exif.                                                             *)

\* "Can't process NEF files"
RefuseNef ==
  /\ scan = "none" /\ pc = "open" /\ mode = "remove" /\ ~file.jpg
  /\ pc' = "done"
  /\ UNCHANGED <<file, mode, scan, pos, motorola, saved, result, jpgType, height,
                 packet, out>>

FindTables ==
  /\ pc = "open" /\ mode = "remove" /\ file.jpg
  /\ BeginScan("db") /\ pc' = "tables"

FindFrame ==
  /\ pc = "tables"
  /\ BeginScan("c0") /\ pc' = "cut"

\* (Mutant: the later of the two positions.)
CutLate(db, c0) == IF c0 # 0 /\ c0 > db THEN c0 ELSE db

\* The earlier of the two; 0 when there is no DQT, even with an SOF0.
Cut(db, c0) == IF c0 # 0 /\ c0 < db THEN c0 ELSE db
CutAt == Cut(result["db"], result["c0"])

NothingToCut ==
  /\ scan = "none" /\ pc = "cut" /\ CutAt = 0
  /\ pc' = "done"
  /\ UNCHANGED <<file, mode, scan, pos, motorola, saved, result, jpgType, height,
                 packet, out>>

\* fseek is from where the FILE stands, which the scans left at 0.
Copy ==
  /\ scan = "none" /\ pc = "cut" /\ CutAt # 0
  /\ pos' = file.size
  /\ out' = [from |-> pos + CutAt, length |-> file.size - CutAt]
  /\ pc' = "done"
  /\ UNCHANGED <<file, mode, scan, motorola, saved, result, jpgType, height, packet>>

\* The copy is not opened, or its one fwrite fails.
CopyFails ==
  /\ scan = "none" /\ pc = "cut" /\ CutAt # 0
  /\ pos' = file.size
  /\ pc' = "failed"
  /\ UNCHANGED <<file, mode, scan, motorola, saved, result, jpgType, height, packet, out>>

Stopped == pc \in Ended /\ scan = "none" /\ UNCHANGED vars

Next ==
  \/ SkipSegment \/ Found \/ StartOfScan
  \/ CheckForExif \/ NoExif \/ Inspect \/ BadHeader \/ GetXmp \/ NoXmp
  \/ GetSize \/ Close
  \/ RefuseNef \/ FindTables \/ FindFrame \/ NothingToCut \/ Copy \/ CopyFails
  \/ Stopped

Spec == Init /\ [][Next]_vars /\ WF_vars(Next)

-----------------------------------------------------------------------------
(* Properties.                                                              *)

\* Every variable has a value the code can give it.
TypeOK ==
  /\ file \in Files /\ mode \in Modes
  /\ pc \in {"open", "checked", "walked", "shown", "sized", "tables", "cut"} \cup Ended
  /\ scan \in Scans \cup {"none"}
  /\ pos \in Nat /\ motorola \in BOOLEAN
  /\ saved \in [pos : Nat, motorola : BOOLEAN]
  /\ result \in [Scans -> Nat]
  /\ jpgType \in {0, 1, 99}
  /\ height \in Word
  /\ packet \in Bytes /\ out \in Bytes

Hits(k) == {n \in 1..Len(file.segs) : Matches(k, file.segs[n])}
IsFirst(n, S) == n \in S /\ \A m \in S : n <= m

\* Each scan of a complete file found the first segment of its kind, whatever
\* lies before it, or none because there is none (the do loops of the four scans
\* of d70reader.c, whose lengths are in the byte order of the EXIF header unless
\* they set MotorolaOrder).
ScanRight ==
  Complete(file) => \A k \in Scans :
    \/ result[k] = Unset
    \/ result[k] = 0 /\ Hits(k) = {}
    \/ \E n \in Hits(k) : result[k] = file.start[n] /\ IsFirst(n, Hits(k))

Walked == mode # "remove" /\ pc \in {"walked", "shown", "sized", "done"}

\* Once the header is read and until the file is closed, the byte order is that of
\* the file's EXIF header, and the FILE stands where the walk left it, between any
\* two scans: values formatted after a scan are read as those before it.
LeftAsFound ==
  scan = "none" /\ Walked => motorola = file.order /\ pos = file.after

\* What cameras write: EXIF first, or second after a JFIF segment of 16 bytes.
CameraLayout(f) ==
  \/ f.segs[1].marker = "APP1" /\ f.segs[1].text = "Exif"
  \/ /\ f.segs[1].marker = "APP0" /\ f.segs[1].length = 16 /\ Len(f.segs) > 1
     /\ f.segs[2].text = "Exif" /\ f.segs[1].text = "other"

\* A JPG as cameras write it is always reported: the check for EXIF finds the
\* data that inspect_image_file_header then reads, from the beginning of the file,
\* and neither ends the program.
CameraFileRead ==
  Complete(file) /\ file.jpg /\ CameraLayout(file) => pc \notin {"noExif", "exit"}

\* The height that output_web sizes the picture with is that of the file's own
\* first baseline frame, in a NEF that of its JPG image, once it was looked for.
HeightOwn ==
  Complete(file) /\ pc = "sized" /\ scan = "none" =>
    IF Hits("sof0") = {} THEN height = 0
    ELSE \E n \in Hits("sof0") : IsFirst(n, Hits("sof0")) /\ height = file.segs[n].height

\* The packet given to the XMP toolkit begins with the data of the first XMP
\* segment and holds all of it (d70reader.c:5366-5379; it holds two bytes more,
\* as the length counts itself).
PacketWhole ==
  Complete(file) /\ packet # NoBytes =>
    \E n \in Hits("xmp") :
      /\ IsFirst(n, Hits("xmp"))
      /\ packet.from = file.start[n] + 4
      /\ packet.from + packet.length >= file.start[n] + file.segs[n].length + 2

\* What a report takes from the segments of a file is the file's own and whole.
SegmentsRead == CameraFileRead /\ HeightOwn /\ PacketWhole

Tables == Hits("db") \cup Hits("c0")
Copied(n) == out.from <= file.start[n]

\* A NOEXIF_ file goes from the first quantization table or baseline frame of the
\* original to its end: no segment before that is left, EXIF data included, and
\* none from there on is cut (remove_exif, d70reader.c:5685-5714).
CopyFromTables ==
  Complete(file) /\ out # NoBytes =>
    /\ \E n \in Tables : IsFirst(n, Tables) /\ out.from = file.start[n]
    /\ out.from + out.length = file.size

\* The scans of a complete file end.
ScansEnd == Complete(file) => <>(pc \in Ended)

\* README:28 "-rm = remove all EXIF data from JPG file": only EXIF is removed.
\* The code also drops every other segment before the first table, a colour
\* profile or Huffman tables among them.
OnlyExifRemoved ==
  out # NoBytes => \A n \in 1..Len(file.segs) : file.segs[n].text # "Exif" => Copied(n)

\* d70reader.c:465 "No EXIF data found" is what a file without EXIF data leads to;
\* in one cut off before its SOS the scan goes back from the end of the file again
\* and again, as no loop looks at what fread returns.
AlwaysAnswers == <>(pc \in Ended)

=============================================================================
