------------------------- MODULE MarkerScan_proofs -------------------------
(***************************************************************************)
(* Theorems about MarkerScan, for every set of files, any number, kind and *)
(* length of their segments: the type invariant, what a scan finds and     *)
(* keeps of it, and what remove_exif copies.                               *)
(***************************************************************************)
EXTENDS MarkerScan, TLAPS

-----------------------------------------------------------------------------
(* The inductive invariant. *)

\* A scan of a complete file stands at the beginning of a segment and has met
\* none of its kind before.
AtSegment ==
  \E n \in 1..Len(file.segs) :
    /\ pos = file.start[n]
    /\ \A m \in 1..(n - 1) : ~Matches(scan, file.segs[m])

\* A scan reads lengths in the order they are written in, and those for EXIF and
\* XMP are made of JPGs only.
ScanningInv ==
  /\ scan # "none" => /\ motorola
                      /\ scan \in {"exif", "xmp"} => file.jpg
                      /\ Complete(file) => AtSegment
  /\ pc = "walked" /\ jpgType = 0 => file.jpg

\* What was found is in the file.
InFile == \A k \in Scans : result[k] < file.size

ScanInv == TypeOK /\ ScanningInv /\ InFile /\ ScanRight

-----------------------------------------------------------------------------
(* Facts about reading. *)

LEMMA FileFacts ==
  ASSUME TypeOK
  PROVE  /\ file \in File /\ WellFormed(file)
         /\ file.segs \in Seq(Header) /\ file.start \in Seq(Nat)
         /\ file.size \in Nat /\ file.size >= 10
         /\ file.junk \in Header /\ file.jpg \in BOOLEAN /\ file.order \in BOOLEAN
         /\ file.after \in Nat /\ file.origin \in Nat
         /\ Len(file.segs) \in Nat /\ Len(file.segs) >= 1 /\ Len(file.start) = Len(file.segs)
<1>1. file \in File /\ WellFormed(file)
  BY FilesAssumption DEF TypeOK
<1>2. /\ file.segs \in Seq(Header) /\ file.start \in Seq(Nat) /\ file.size \in Nat
      /\ file.junk \in Header /\ file.jpg \in BOOLEAN /\ file.order \in BOOLEAN
      /\ file.after \in Nat /\ file.origin \in Nat
  BY <1>1 DEF File
<1>3. file.size >= 10 /\ file.segs # <<>> /\ Len(file.start) = Len(file.segs)
  BY <1>1 DEF WellFormed
<1>4. Len(file.segs) \in Nat /\ Len(file.segs) >= 1
  BY <1>2, <1>3
<1> QED
  BY <1>1, <1>2, <1>3, <1>4

LEMMA HeaderFacts ==
  ASSUME NEW h \in Header
  PROVE  /\ h.length \in Nat /\ h.length <= 65535
         /\ h.height \in Nat /\ h.height <= 65535
         /\ h.marker \in Markers /\ h.text \in {"Exif", "http:", "other"}
<1>1. /\ h.length \in Word /\ h.height \in Word
      /\ h.marker \in Markers /\ h.text \in {"Exif", "http:", "other"}
  BY DEF Header
<1>2. \A v \in Word : v \in Nat /\ v <= 65535
  BY DEF Word
<1> QED
  BY <1>1, <1>2

LEMMA WellFormedFacts ==
  ASSUME NEW f, WellFormed(f)
  PROVE  /\ \A n \in 1..Len(f.segs) : f.segs[n].length >= 2 /\ f.start[n] + 4 <= f.size
         /\ \A m, n \in 1..Len(f.segs) : m < n => f.start[m] < f.start[n]
         /\ \A n \in 1..(Len(f.segs) - 1) : f.start[n + 1] = f.start[n] + f.segs[n].length + 2
         /\ f.start[1] = f.origin + 2
         /\ f.jpg => f.origin = 0
BY DEF WellFormed

LEMMA SegmentFacts ==
  ASSUME TypeOK, NEW n \in 1..Len(file.segs)
  PROVE  /\ file.segs[n] \in Header /\ file.start[n] \in Nat
         /\ file.segs[n].length \in Nat /\ file.segs[n].length <= 65535
         /\ file.segs[n].length >= 2
         /\ file.start[n] + 4 <= file.size
<1>1. file.segs[n] \in Header
  BY FileFacts
<1>2. file.start[n] \in Nat
  BY FileFacts
<1>3. file.segs[n].length \in Nat /\ file.segs[n].length <= 65535
  BY <1>1, HeaderFacts
<1>4. file.segs[n].length >= 2 /\ file.start[n] + 4 <= file.size
  BY FileFacts, WellFormedFacts
<1> QED
  BY <1>1, <1>2, <1>3, <1>4

LEMMA Increasing ==
  ASSUME TypeOK, NEW m \in 1..Len(file.segs), NEW n \in 1..Len(file.segs)
  PROVE  /\ m < n <=> file.start[m] < file.start[n]
         /\ m = n <=> file.start[m] = file.start[n]
<1>1. /\ m < n => file.start[m] < file.start[n]
      /\ n < m => file.start[n] < file.start[m]
  BY FileFacts, WellFormedFacts
<1>2. file.start[m] \in Nat
  BY SegmentFacts
<1>3. file.start[n] \in Nat
  BY SegmentFacts
<1> QED
  BY <1>1, <1>2, <1>3

LEMMA ReadingType ==
  ASSUME TypeOK, NEW p \in Nat
  PROVE  Reading(p) \in Header
<1>1. Zero \in Header
  BY DEF Zero, Header, Markers, Word
<1>2. ASSUME StartsAt(p) # {}
      PROVE  file.segs[CHOOSE n \in StartsAt(p) : TRUE] \in Header
  BY <1>2, SegmentFacts DEF StartsAt
<1> QED
  BY <1>1, <1>2, FileFacts DEF Reading

LEMMA ReadingSegment ==
  ASSUME TypeOK, NEW n \in 1..Len(file.segs)
  PROVE  Reading(file.start[n]) = file.segs[n]
<1>1. StartsAt(file.start[n]) = {n}
  BY Increasing DEF StartsAt
<1>2. (CHOOSE m \in StartsAt(file.start[n]) : TRUE) = n
  BY <1>1
<1>3. ~(file.start[n] >= file.size)
  BY SegmentFacts, FileFacts
<1> QED
  BY <1>1, <1>2, <1>3 DEF Reading

LEMMA SeekType ==
  ASSUME TypeOK, motorola, NEW k, NEW p \in Nat, NEW h \in Header
  PROVE  AfterSegment(k, p, h) \in Nat
<1> DEFINE after == AfterRead(k, p)
<1>1. h.length \in Nat /\ Get16u(h.length) = h.length
  BY HeaderFacts DEF Get16u
<1>2. StructSize(k) \in {4, 10}
  BY DEF StructSize
<1>3. after \in Nat /\ after + 2 >= StructSize(k)
  BY <1>2, FileFacts DEF AfterRead
<1>4. AfterSegment(k, p, h) = after + h.length + 2 - StructSize(k)
  BY <1>1 DEF AfterSegment
<1> HIDE DEF after
<1> QED
  BY <1>1, <1>2, <1>3, <1>4

\* In a complete file a scan goes from one segment to the next.
LEMMA SeekNext ==
  ASSUME TypeOK, motorola, Complete(file), NEW k,
         NEW n \in 1..(Len(file.segs) - 1)
  PROVE  AfterSegment(k, file.start[n], file.segs[n]) = file.start[n + 1]
<1> DEFINE last == Len(file.segs)
<1>1. last \in 1..Len(file.segs) /\ n \in 1..Len(file.segs) /\ n < last
  BY FileFacts
<1>2. file.start[n] < file.start[last]
  BY <1>1, Increasing
<1>3. file.start[last] + 10 <= file.size
  BY DEF Complete
<1>4. StructSize(k) \in {4, 10}
  BY DEF StructSize
<1>5. AfterRead(k, file.start[n]) = file.start[n] + StructSize(k)
  <2>1. file.start[n] \in Nat /\ file.start[last] \in Nat /\ file.size \in Nat
    BY <1>1, SegmentFacts, FileFacts
  <2>2. file.start[n] + StructSize(k) <= file.size
    <3> DEFINE s == StructSize(k)
               a == file.start[n]
               b == file.start[last]
               z == file.size
    <3>1. (s = 4 \/ s = 10) /\ a < b /\ b + 10 <= z /\ a \in Nat /\ b \in Nat /\ z \in Nat
      BY <2>1, <1>2, <1>3, <1>4
    <3> HIDE DEF s, a, b, z
    <3>2. a + s <= z
      BY <3>1
    <3> QED
      BY <3>2 DEF s, a, z
  <2> QED
    BY <2>2 DEF AfterRead
<1>6. file.start[n + 1] = file.start[n] + file.segs[n].length + 2
  BY FileFacts, WellFormedFacts
<1>7. Get16u(file.segs[n].length) = file.segs[n].length
  BY DEF Get16u
<1>8. AfterSegment(k, file.start[n], file.segs[n])
        = file.start[n] + StructSize(k) + file.segs[n].length + 2 - StructSize(k)
  BY <1>5, <1>7 DEF AfterSegment
<1>9. file.start[n] \in Nat /\ file.segs[n].length \in Nat
  BY <1>1, SegmentFacts
<1> QED
  BY <1>4, <1>6, <1>8, <1>9

-----------------------------------------------------------------------------
(* Steps. *)

\* A step that neither begins, continues nor ends a scan.
Quiet ==
  \/ NoExif \/ Inspect \/ BadHeader \/ NoXmp \/ Close
  \/ RefuseNef \/ NothingToCut \/ Copy \/ CopyFails \/ UNCHANGED vars

\* A step that begins one.
Begins == CheckForExif \/ GetXmp \/ GetSize \/ FindTables \/ FindFrame

LEMMA Steps ==
  ASSUME [Next]_vars
  PROVE  SkipSegment \/ Found \/ StartOfScan \/ Begins \/ Quiet
  BY DEF Next, Stopped, Begins, Quiet

LEMMA QuietKeeps ==
  ASSUME Quiet
  PROVE  UNCHANGED <<file, mode, scan, saved, result, height, packet>>
  BY DEF Quiet, NoExif, Inspect, BadHeader, NoXmp, Close, RefuseNef, NothingToCut,
         Copy, CopyFails, vars

LEMMA BeginsScan ==
  ASSUME Begins
  PROVE  /\ scan = "none" /\ scan' \in Scans /\ BeginScan(scan')
         /\ pc' \in {"checked", "shown", "sized", "tables", "cut"}
         /\ scan' = "exif" => file.jpg
         /\ scan' = "xmp" => pc = "walked" /\ jpgType = 0
  BY DEF Begins, CheckForExif, GetXmp, GetSize, FindTables, FindFrame, BeginScan, Scans

LEMMA BeginFacts ==
  ASSUME TypeOK, Begins
  PROVE  /\ UNCHANGED <<file, mode, result, jpgType, height, packet, out>>
         /\ saved' = [pos |-> pos, motorola |-> motorola]
         /\ motorola' = TRUE /\ pos' = StartOf(scan') /\ pos' \in Nat
<1>1. BeginScan(scan')
  BY BeginsScan
<1>2. \A k : StartOf(k) \in Nat
  BY FileFacts DEF StartOf
<1> QED
  BY <1>1, <1>2 DEF BeginScan, ScanOrder

LEMMA EndFacts ==
  ASSUME TypeOK, scan # "none", NEW p \in Nat, EndScan(p)
  PROVE  /\ scan' = "none" /\ pos' = saved.pos /\ pos' \in Nat
         /\ scan \in {"exif", "xmp", "sof0"} => motorola' = saved.motorola
         /\ motorola' \in BOOLEAN
         /\ scan \in Scans
         /\ result' \in [Scans -> Nat] /\ result'[scan] = p
         /\ \A k \in Scans : k # scan => result'[k] = result[k]
<1>1. /\ scan \in Scans /\ result \in [Scans -> Nat] /\ motorola \in BOOLEAN
      /\ saved \in [pos : Nat, motorola : BOOLEAN]
  BY DEF TypeOK
<1>2. result' = [result EXCEPT ![scan] = p]
  BY DEF EndScan
<1>3. /\ scan' = "none" /\ pos' = saved.pos
      /\ motorola' = IF scan \in {"db", "c0"} THEN motorola ELSE saved.motorola
  BY DEF EndScan, RestoredPosition, RestoredOrder
<1> QED
  BY <1>1, <1>2, <1>3

LEMMA SkipType ==
  ASSUME TypeOK, ScanningInv, SkipSegment
  PROVE  TypeOK'
<1>1. motorola /\ pos \in Nat
  BY DEF SkipSegment, ScanningInv, TypeOK
<1>2. Reading(pos) \in Header
  BY <1>1, ReadingType
<1>3. pos' \in Nat
  BY <1>1, <1>2, SeekType DEF SkipSegment
<1> QED
  BY <1>3 DEF TypeOK, SkipSegment

LEMMA FoundType ==
  ASSUME TypeOK, ScanningInv, Found
  PROVE  TypeOK'
<1> DEFINE h == Reading(pos)
<1>1. motorola /\ pos \in Nat
  BY DEF Found, ScanningInv, TypeOK
<1>2. h \in Header
  BY <1>1, ReadingType
<1>3. h.height \in Word /\ h.length \in Nat
  BY <1>2, HeaderFacts DEF Header
<1>4. HeightIn(h) = h.height /\ Get16u(h.length) = h.length
  BY <1>1 DEF HeightIn, Get16u
<1>5. PacketAt(pos, h) \in Bytes
  BY <1>1, <1>3, <1>4 DEF PacketAt, Bytes
<1>6. height' \in Word
  BY <1>3, <1>4 DEF Found, TypeOK
<1>7. packet' \in Bytes
  BY <1>5 DEF Found, TypeOK
<1>8. EndScan(pos) /\ scan # "none" /\ UNCHANGED <<file, mode, pc, saved, jpgType, out>>
  BY DEF Found
<1>9. scan' = "none" /\ pos' \in Nat /\ motorola' \in BOOLEAN /\ result' \in [Scans -> Nat]
  BY <1>1, <1>8, EndFacts
<1> QED
  BY <1>6, <1>7, <1>8, <1>9 DEF TypeOK

LEMMA StartOfScanType ==
  ASSUME TypeOK, StartOfScan
  PROVE  TypeOK'
<1>1. EndScan(0) /\ scan # "none"
      /\ UNCHANGED <<file, mode, pc, saved, jpgType, height, packet, out>>
  BY DEF StartOfScan
<1>2. scan' = "none" /\ pos' \in Nat /\ motorola' \in BOOLEAN /\ result' \in [Scans -> Nat]
  BY <1>1, EndFacts
<1> QED
  BY <1>1, <1>2 DEF TypeOK

LEMMA BeginsType ==
  ASSUME TypeOK, Begins
  PROVE  TypeOK'
<1>1. saved' \in [pos : Nat, motorola : BOOLEAN]
  <2>1. pos \in Nat /\ motorola \in BOOLEAN
    BY DEF TypeOK
  <2>2. saved' = [pos |-> pos, motorola |-> motorola]
    BY BeginFacts
  <2> QED
    BY <2>1, <2>2
<1>2. scan' \in Scans /\ pc' \in {"checked", "shown", "sized", "tables", "cut"}
  BY BeginsScan
<1> QED
  BY <1>1, <1>2, BeginFacts DEF TypeOK

\* What is copied is not longer than the file.
LEMMA CutFacts ==
  ASSUME TypeOK, InFile
  PROVE  CutAt \in Nat /\ CutAt < file.size
<1>1. result["db"] \in Nat /\ result["c0"] \in Nat
  BY DEF TypeOK, Scans
<1>2. result["db"] < file.size /\ result["c0"] < file.size
  BY DEF InFile, Scans
<1> QED
  BY <1>1, <1>2 DEF CutAt, Cut

LEMMA QuietType ==
  ASSUME TypeOK, InFile, Quiet
  PROVE  TypeOK'
<1>1. UNCHANGED <<file, mode, scan, saved, result, height, packet>>
  BY QuietKeeps
<1>2. pc' \in {"open", "checked", "walked", "shown", "sized", "tables", "cut"} \cup Ended
  BY DEF Quiet, NoExif, Inspect, BadHeader, NoXmp, Close, RefuseNef, NothingToCut,
         Copy, CopyFails, vars, TypeOK, Ended
<1>3. pos' \in Nat
  BY FileFacts DEF Quiet, NoExif, Inspect, BadHeader, NoXmp, Close, RefuseNef, NothingToCut,
         Copy, CopyFails, vars, TypeOK
<1>4. motorola' \in BOOLEAN
  BY FileFacts DEF Quiet, NoExif, Inspect, BadHeader, NoXmp, Close, RefuseNef, NothingToCut,
         Copy, CopyFails, vars, TypeOK
<1>5. jpgType' \in {0, 1, 99}
  BY DEF Quiet, NoExif, Inspect, BadHeader, NoXmp, Close, RefuseNef, NothingToCut,
         Copy, CopyFails, vars, TypeOK
<1>6. out' \in Bytes
  <2>1. CASE Copy
    <3>1. out' = [from |-> pos + CutAt, length |-> file.size - CutAt] /\ pos \in Nat
      BY <2>1 DEF Copy, TypeOK
    <3> QED
      BY <3>1, CutFacts, FileFacts DEF Bytes
  <2>2. CASE ~Copy
    BY <2>2 DEF Quiet, NoExif, Inspect, BadHeader, NoXmp, Close, RefuseNef, NothingToCut,
           CopyFails, vars, TypeOK
  <2> QED
    BY <2>1, <2>2
<1> QED
  BY <1>1, <1>2, <1>3, <1>4, <1>5, <1>6 DEF TypeOK

LEMMA SkipScanning ==
  ASSUME TypeOK, ScanningInv, SkipSegment
  PROVE  ScanningInv'
<1> DEFINE h == Reading(pos)
<1>1. /\ scan # "none" /\ motorola /\ ~Matches(scan, h) /\ h.marker # "SOS"
      /\ pos' = AfterSegment(scan, pos, h)
      /\ UNCHANGED <<file, pc, scan, motorola, jpgType>>
  BY DEF SkipSegment, ScanningInv
<1>2. ASSUME Complete(file)
      PROVE  AtSegment'
  <2>1. PICK n \in 1..Len(file.segs) :
          /\ pos = file.start[n]
          /\ \A m \in 1..(n - 1) : ~Matches(scan, file.segs[m])
    BY <1>1, <1>2 DEF ScanningInv, AtSegment
  <2>2. h = file.segs[n]
    BY <2>1, ReadingSegment
  <2>3. n # Len(file.segs)
    BY <1>1, <1>2, <2>2 DEF Complete
  <2>4. n \in 1..(Len(file.segs) - 1)
    BY <2>3, FileFacts
  <2>5. pos' = file.start[n + 1]
    BY <1>1, <1>2, <2>1, <2>2, <2>4, SeekNext
  <2>6. \A m \in 1..n : ~Matches(scan, file.segs[m])
    BY <1>1, <2>1, <2>2
  <2>7. n + 1 \in 1..Len(file.segs) /\ (n + 1) - 1 = n
    BY <2>4, FileFacts
  <2>8. \A s : Matches(scan, s)' <=> Matches(scan, s')
    BY <1>1 DEF Matches
  <2> QED
    BY <1>1, <2>5, <2>6, <2>7 DEF AtSegment, Matches
<1> QED
  BY <1>1, <1>2 DEF ScanningInv, Complete

LEMMA EndScanning ==
  ASSUME TypeOK, ScanningInv, Found \/ StartOfScan
  PROVE  ScanningInv'
<1>1. scan' = "none" /\ UNCHANGED <<file, pc, jpgType>>
  BY DEF Found, StartOfScan, EndScan
<1> QED
  BY <1>1 DEF ScanningInv

LEMMA BeginsScanning ==
  ASSUME TypeOK, ScanningInv, Begins
  PROVE  ScanningInv'
<1>1. /\ scan' \in Scans /\ pc' # "walked" /\ scan = "none"
      /\ scan' = "exif" => file.jpg
      /\ scan' = "xmp" => pc = "walked" /\ jpgType = 0
  BY BeginsScan
<1>2. UNCHANGED file /\ motorola' = TRUE /\ pos' = StartOf(scan')
  BY BeginFacts
<1>3. scan' \in {"exif", "xmp"} => file.jpg
  BY <1>1 DEF ScanningInv
<1>4. pos' = file.origin + 2
  BY <1>2, <1>3, FileFacts, WellFormedFacts DEF StartOf
<1>5. pos' = file.start[1] /\ 1 \in 1..Len(file.segs)
  BY <1>4, FileFacts, WellFormedFacts
<1>6. AtSegment'
  BY <1>2, <1>5 DEF AtSegment
<1> QED
  BY <1>1, <1>2, <1>3, <1>6 DEF ScanningInv

LEMMA QuietScanning ==
  ASSUME TypeOK, ScanningInv, Quiet
  PROVE  ScanningInv'
<1>1. UNCHANGED <<file, scan>>
  BY QuietKeeps
<1>2. CASE UNCHANGED vars
  BY <1>2 DEF vars, ScanningInv, AtSegment, Matches, Complete
<1>3. CASE ~UNCHANGED vars
  <2>1. scan = "none"
    BY <1>3 DEF Quiet, NoExif, Inspecting, Inspect, BadHeader, NoXmp, Close, RefuseNef, NothingToCut,
           Copy, CopyFails
  <2>2. pc' = "walked" /\ jpgType' = 0 => file.jpg
    BY <1>3 DEF Quiet, NoExif, Inspect, BadHeader, NoXmp, Close, RefuseNef, NothingToCut,
           Copy, CopyFails
  <2> QED
    BY <1>1, <2>1, <2>2 DEF ScanningInv
<1> QED
  BY <1>2, <1>3

-----------------------------------------------------------------------------
(* What is found. *)

FoundIn(k) ==
  \/ result[k] = Unset
  \/ result[k] = 0 /\ Hits(k) = {}
  \/ \E n \in Hits(k) : result[k] = file.start[n] /\ IsFirst(n, Hits(k))

LEMMA HitsKept ==
  ASSUME UNCHANGED file
  PROVE  \A k : Hits(k)' = Hits(k)
BY DEF Hits, Matches

LEMMA Unfound ==
  ASSUME UNCHANGED <<file, result>>, ScanRight, InFile
  PROVE  ScanRight' /\ InFile'
BY DEF ScanRight, InFile, Hits, Matches, IsFirst, Complete

\* A match is never read beyond the end of the file.
LEMMA MatchInFile ==
  ASSUME TypeOK, NEW p \in Nat, NEW k \in Scans, Matches(k, Reading(p))
  PROVE  p < file.size
<1>1. ~Matches(k, Zero)
  BY DEF Matches, Zero, Scans
<1> QED
  BY <1>1, FileFacts DEF Reading

LEMMA FoundRight ==
  ASSUME TypeOK, ScanInv, Found
  PROVE  ScanRight' /\ InFile'
<1> DEFINE h == Reading(pos)
<1>1. /\ Matches(scan, h) /\ EndScan(pos) /\ scan # "none" /\ UNCHANGED file
      /\ pos \in Nat /\ ScanningInv /\ InFile /\ ScanRight
  BY DEF Found, ScanInv, TypeOK
<1>2. /\ scan \in Scans /\ result'[scan] = pos
      /\ \A k \in Scans : k # scan => result'[k] = result[k]
  BY <1>1, EndFacts
<1>3. InFile'
  BY <1>1, <1>2, MatchInFile DEF InFile
<1>4. ASSUME Complete(file)
      PROVE  \E n \in Hits(scan) : result'[scan] = file.start[n] /\ IsFirst(n, Hits(scan))
  <2>1. PICK n \in 1..Len(file.segs) :
          /\ pos = file.start[n]
          /\ \A m \in 1..(n - 1) : ~Matches(scan, file.segs[m])
    BY <1>1, <1>4 DEF ScanningInv, AtSegment
  <2>2. n \in Hits(scan)
    BY <1>1, <2>1, ReadingSegment DEF Hits
  <2>3. ASSUME NEW m \in Hits(scan)
        PROVE  n <= m
    <3>1. m \in 1..Len(file.segs) /\ Matches(scan, file.segs[m])
      BY DEF Hits
    <3>2. m \notin 1..(n - 1)
      BY <2>1, <3>1
    <3> QED
      BY <2>1, <3>1, <3>2, FileFacts
  <2> QED
    BY <1>2, <2>1, <2>2, <2>3 DEF IsFirst
<1>5. ScanRight'
  <2> SUFFICES ASSUME Complete(file), NEW k \in Scans
               PROVE  FoundIn(k)'
    BY <1>1 DEF ScanRight, Complete, FoundIn
  <2>1. CASE k = scan
    BY <1>1, <1>4, <2>1 DEF FoundIn, Hits, Matches, IsFirst
  <2>2. CASE k # scan
    <3>1. FoundIn(k)
      BY <1>1 DEF ScanRight, FoundIn
    <3> QED
      BY <1>1, <1>2, <2>2, <3>1 DEF FoundIn, Hits, Matches, IsFirst
  <2> QED
    BY <2>1, <2>2
<1> QED
  BY <1>3, <1>5

LEMMA StartOfScanRight ==
  ASSUME TypeOK, ScanInv, StartOfScan
  PROVE  ScanRight' /\ InFile'
<1> DEFINE h == Reading(pos)
<1>1. /\ ~Matches(scan, h) /\ h.marker = "SOS" /\ EndScan(0) /\ scan # "none"
      /\ UNCHANGED file /\ ScanningInv /\ InFile /\ ScanRight
  BY DEF StartOfScan, ScanInv
<1>2. /\ scan \in Scans /\ result'[scan] = 0
      /\ \A k \in Scans : k # scan => result'[k] = result[k]
  BY <1>1, EndFacts
<1>3. InFile'
  BY <1>1, <1>2, FileFacts DEF InFile
<1>4. ASSUME Complete(file)
      PROVE  Hits(scan) = {}
  <2>1. PICK n \in 1..Len(file.segs) :
          /\ pos = file.start[n]
          /\ \A m \in 1..(n - 1) : ~Matches(scan, file.segs[m])
    BY <1>1, <1>4 DEF ScanningInv, AtSegment
  <2>2. h = file.segs[n]
    BY <2>1, ReadingSegment
  <2>3. n = Len(file.segs)
    BY <1>1, <1>4, <2>2 DEF Complete
  <2>4. ASSUME NEW m \in 1..Len(file.segs)
        PROVE  ~Matches(scan, file.segs[m])
    <3>1. m = n \/ m \in 1..(n - 1)
      BY <2>3, FileFacts
    <3> QED
      BY <1>1, <2>1, <2>2, <3>1
  <2> QED
    BY <2>4 DEF Hits
<1>5. ScanRight'
  <2> SUFFICES ASSUME Complete(file), NEW k \in Scans
               PROVE  FoundIn(k)'
    BY <1>1 DEF ScanRight, Complete, FoundIn
  <2>1. CASE k = scan
    BY <1>1, <1>2, <1>4, <2>1 DEF FoundIn, Hits, Matches
  <2>2. CASE k # scan
    <3>1. FoundIn(k)
      BY <1>1 DEF ScanRight, FoundIn
    <3> QED
      BY <1>1, <1>2, <2>2, <3>1 DEF FoundIn, Hits, Matches, IsFirst
  <2> QED
    BY <2>1, <2>2
<1> QED
  BY <1>3, <1>5

LEMMA InitScan == Init => ScanInv
<1> SUFFICES ASSUME Init PROVE ScanInv
  OBVIOUS
<1>1. TypeOK
  BY DEF Init, TypeOK, Bytes, NoBytes, Word, Unset
<1>2. InFile
  BY <1>1, FileFacts DEF Init, InFile, Unset
<1> QED
  BY <1>1, <1>2 DEF Init, ScanInv, ScanningInv, ScanRight

LEMMA ScanStep == ScanInv /\ [Next]_vars => ScanInv'
<1> SUFFICES ASSUME ScanInv, [Next]_vars PROVE ScanInv'
  OBVIOUS
<1>1. TypeOK /\ ScanningInv /\ InFile /\ ScanRight
  BY DEF ScanInv
<1>2. CASE SkipSegment
  BY <1>1, <1>2, SkipType, SkipScanning, Unfound DEF SkipSegment, ScanInv
<1>3. CASE Found
  BY <1>1, <1>3, FoundType, EndScanning, FoundRight DEF ScanInv
<1>4. CASE StartOfScan
  BY <1>1, <1>4, StartOfScanType, EndScanning, StartOfScanRight DEF ScanInv
<1>5. CASE Begins
  BY <1>1, <1>5, BeginsType, BeginsScanning, BeginFacts, Unfound DEF ScanInv
<1>6. CASE Quiet
  BY <1>1, <1>6, QuietType, QuietScanning, QuietKeeps, Unfound DEF ScanInv
<1> QED
  BY <1>2, <1>3, <1>4, <1>5, <1>6, Steps

\* Every variable keeps its type; no scan seeks to before the file, complete or
\* not, and nothing beyond it is copied.
THEOREM TypeCorrect == Spec => []TypeOK
<1>1. ScanInv => TypeOK
  BY DEF ScanInv
<1> QED
  BY InitScan, ScanStep, <1>1, PTL DEF Spec

\* In every complete file each scan finds the first segment of its kind or, when
\* there is none, nothing: for any segments before it and any byte order.
THEOREM ScanCorrect == Spec => []ScanRight
<1>1. ScanInv => ScanRight
  BY DEF ScanInv
<1> QED
  BY InitScan, ScanStep, <1>1, PTL DEF Spec

-----------------------------------------------------------------------------
(* Between the scans. *)

\* Where the FILE stands and the byte order in force, those a scan will restore.
Standing == IF scan = "none" THEN [pos |-> pos, motorola |-> motorola] ELSE saved

\* The scan that goes on is the one ProcessFile or remove_exif is at.
ScanOf(p) ==
  CASE p = "checked" -> "exif" [] p = "shown" -> "xmp" [] p = "sized" -> "sof0"
    [] p = "tables" -> "db" [] p = "cut" -> "c0" [] OTHER -> "none"

\* remove_exif and a report do not mix, and before the walk the FILE stands at its
\* beginning.
StageInv ==
  /\ scan \in {"none", ScanOf(pc)}
  /\ pc \in {"tables", "cut"} => mode = "remove"
  /\ pc \in {"checked", "walked", "shown", "sized"} => mode # "remove"
  /\ pc \in {"open", "checked", "tables", "cut"} => Standing.pos = 0
  /\ Walked => Standing = [pos |-> file.after, motorola |-> file.order]

\* What is needed next has been looked for.
LookedFor ==
  Complete(file) =>
    /\ pc = "checked" /\ scan = "none" => result["exif"] # Unset
    /\ pc = "tables" /\ scan = "none" => result["db"] # Unset
    /\ pc = "cut" => result["db"] # Unset
    /\ pc = "cut" /\ scan = "none" => result["c0"] # Unset

LEMMA StartPositive ==
  ASSUME TypeOK, NEW n \in 1..Len(file.segs)
  PROVE  file.start[n] >= 2
<1>1. 1 \in 1..Len(file.segs) /\ file.start[1] >= 2
  BY FileFacts, WellFormedFacts
<1>2. n = 1 \/ 1 < n
  OBVIOUS
<1>3. file.start[n] \in Nat
  BY SegmentFacts
<1>4. file.start[1] \in Nat
  BY <1>1, SegmentFacts
<1> QED
  BY <1>1, <1>2, <1>3, <1>4, Increasing

LEMMA SkipStage ==
  ASSUME ScanInv, StageInv, LookedFor, SkipSegment
  PROVE  StageInv' /\ LookedFor'
<1>1. scan # "none" /\ UNCHANGED <<file, mode, pc, scan, saved, result>>
  BY DEF SkipSegment
<1> QED
  BY <1>1 DEF StageInv, LookedFor, Standing, Walked, ScanOf, Complete

LEMMA EndStage ==
  ASSUME ScanInv, StageInv, LookedFor, Found \/ StartOfScan
  PROVE  StageInv' /\ LookedFor'
<1>1. /\ TypeOK /\ scan # "none" /\ UNCHANGED <<file, mode, pc, saved>>
      /\ EndScan(0) \/ (Found /\ EndScan(pos))
      /\ pos \in Nat
  BY DEF Found, StartOfScan, ScanInv, TypeOK
<1>2. /\ scan' = "none" /\ pos' = saved.pos
      /\ scan \in {"exif", "xmp", "sof0"} => motorola' = saved.motorola
      /\ scan \in Scans /\ \A k \in Scans : k # scan => result'[k] = result[k]
  BY <1>1, EndFacts
<1>3. saved = [pos |-> saved.pos, motorola |-> saved.motorola]
  BY <1>1 DEF TypeOK
<1>4. /\ Standing'.pos = Standing.pos
      /\ scan \in {"exif", "xmp", "sof0"} => Standing' = Standing
  BY <1>1, <1>2, <1>3 DEF Standing
<1>5. StageInv'
  BY <1>1, <1>2, <1>4 DEF StageInv, Walked, ScanOf
<1>6. ASSUME Complete(file)
      PROVE  result'[scan] # Unset
  <2>1. CASE EndScan(0)
    BY <1>1, <2>1, EndFacts DEF Unset
  <2>2. CASE Found /\ EndScan(pos)
    <3>1. result'[scan] = pos
      BY <1>1, <2>2, EndFacts
    <3>2. PICK n \in 1..Len(file.segs) : pos = file.start[n]
      BY <1>1, <1>6 DEF ScanInv, ScanningInv, AtSegment
    <3> QED
      BY <1>1, <3>1, <3>2, StartPositive DEF Unset
  <2> QED
    BY <1>1, <2>1, <2>2
<1>7. scan = ScanOf(pc) /\ pc' = pc
  BY <1>1 DEF StageInv
<1>8. LookedFor'
  <2> SUFFICES ASSUME Complete(file)
               PROVE  /\ pc = "checked" => result'["exif"] # Unset
                      /\ pc = "tables" => result'["db"] # Unset
                      /\ pc = "cut" => result'["db"] # Unset /\ result'["c0"] # Unset
    BY <1>1, <1>2 DEF LookedFor, Complete
  <2>1. pc = "cut" => result["db"] # Unset
    BY DEF LookedFor
  <2> QED
    BY <1>2, <1>6, <1>7, <2>1 DEF ScanOf, Scans
<1> QED
  BY <1>5, <1>8

LEMMA BeginsStage ==
  ASSUME ScanInv, StageInv, LookedFor, Begins
  PROVE  StageInv' /\ LookedFor'
<1>1. TypeOK /\ scan = "none" /\ scan' # "none"
  BY BeginsScan DEF ScanInv, Scans
<1>2. /\ UNCHANGED <<file, mode, result>>
      /\ saved' = [pos |-> pos, motorola |-> motorola]
  BY <1>1, BeginFacts
<1>3. Standing' = Standing
  BY <1>1, <1>2 DEF Standing
<1>4. \/ pc = "open" /\ mode # "remove" /\ pc' = "checked" /\ scan' = "exif"
      \/ pc = "walked" /\ pc' = "shown" /\ scan' = "xmp"
      \/ pc = "shown" /\ mode = "web" /\ pc' = "sized" /\ scan' = "sof0"
      \/ pc = "open" /\ mode = "remove" /\ pc' = "tables" /\ scan' = "db"
      \/ pc = "tables" /\ pc' = "cut" /\ scan' = "c0"
  BY DEF Begins, CheckForExif, GetXmp, GetSize, FindTables, FindFrame, BeginScan
<1>5. StageInv'
  BY <1>2, <1>3, <1>4 DEF StageInv, Walked, ScanOf
<1>6. LookedFor'
  BY <1>1, <1>2, <1>4 DEF LookedFor, Complete
<1> QED
  BY <1>5, <1>6

LEMMA QuietStage ==
  ASSUME ScanInv, StageInv, LookedFor, Quiet
  PROVE  StageInv' /\ LookedFor'
<1>1. TypeOK /\ UNCHANGED <<file, mode, scan, saved, result>>
  BY QuietKeeps DEF ScanInv
<1>2. CASE UNCHANGED <<pc, pos, motorola>>
  BY <1>1, <1>2 DEF StageInv, LookedFor, Standing, Walked, ScanOf, Complete
<1>3. CASE Inspect
  <2>1. scan = "none" /\ mode # "remove" /\ pc' = "walked"
        /\ pos' = file.after /\ motorola' = file.order
    BY <1>3 DEF Inspect, Inspecting
  <2> QED
    BY <1>1, <2>1 DEF StageInv, LookedFor, Standing, Walked, ScanOf
<1>4. CASE NoXmp \/ Close
  <2>1. /\ scan = "none" /\ pc' \in {"shown", "done"} /\ UNCHANGED <<pos, motorola>>
        /\ pc \in {"walked", "shown", "sized"}
    BY <1>4 DEF NoXmp, Close
  <2>2. Standing' = Standing
    BY <1>1, <2>1 DEF Standing
  <2> QED
    BY <1>1, <2>1, <2>2 DEF StageInv, LookedFor, Walked, ScanOf
<1>5. CASE RefuseNef \/ NothingToCut \/ Copy \/ CopyFails
  <2>1. scan = "none" /\ pc' \in {"done", "failed"} /\ mode = "remove"
    BY <1>5 DEF RefuseNef, NothingToCut, Copy, CopyFails, StageInv
  <2> QED
    BY <1>1, <2>1 DEF StageInv, LookedFor, Walked, ScanOf
<1>6. CASE NoExif \/ BadHeader
  <2>1. scan = "none" /\ pc' \in {"noExif", "exit"}
    BY <1>6 DEF NoExif, BadHeader, Inspecting
  <2> QED
    BY <1>1, <2>1 DEF StageInv, LookedFor, Walked, ScanOf
<1>7. UNCHANGED vars => UNCHANGED <<pc, pos, motorola>>
  BY DEF vars
<1> QED
  BY <1>2, <1>3, <1>4, <1>5, <1>6, <1>7 DEF Quiet

LEMMA InitStage == Init => StageInv /\ LookedFor
BY DEF Init, StageInv, LookedFor, Standing, Walked, ScanOf

LEMMA StageStep ==
  ASSUME ScanInv, StageInv, LookedFor, [Next]_vars
  PROVE  StageInv' /\ LookedFor'
BY Steps, SkipStage, EndStage, BeginsStage, QuietStage

-----------------------------------------------------------------------------
(* What is copied, and what is read. *)

\* The cut is the beginning of the first table or frame.
LEMMA CutRight ==
  ASSUME ScanInv, LookedFor, Complete(file), pc = "cut", scan = "none", CutAt # 0
  PROVE  \E n \in Tables : IsFirst(n, Tables) /\ CutAt = file.start[n]
<1> DEFINE db == result["db"]
           c0 == result["c0"]
<1>1. TypeOK /\ FoundIn("db") /\ FoundIn("c0") /\ db # Unset /\ c0 # Unset
  BY DEF ScanInv, ScanRight, FoundIn, LookedFor, Scans
<1>2. db # 0 /\ db \in Nat /\ c0 \in Nat
  <2>1. db \in Nat /\ c0 \in Nat
    BY <1>1 DEF TypeOK, Scans
  <2> QED
    BY <2>1 DEF CutAt, Cut
<1>3. PICK m \in Hits("db") : db = file.start[m] /\ IsFirst(m, Hits("db"))
  BY <1>1, <1>2 DEF FoundIn
<1>4. \A k : Hits(k) \subseteq 1..Len(file.segs)
  BY DEF Hits
<1>5. \A k : \A n \in Hits(k) : file.start[n] # 0
  BY <1>1, <1>4, StartPositive
<1>6. CASE c0 = 0
  <2>1. Hits("c0") = {}
    BY <1>1, <1>6, <1>5 DEF FoundIn
  <2>2. Tables = Hits("db") /\ CutAt = db
    BY <2>1, <1>6 DEF Tables, CutAt, Cut
  <2> QED
    BY <1>3, <2>2
<1>7. CASE c0 # 0
  <2>1. PICK n \in Hits("c0") : c0 = file.start[n] /\ IsFirst(n, Hits("c0"))
    BY <1>1, <1>7 DEF FoundIn
  <2>2. m \in 1..Len(file.segs) /\ n \in 1..Len(file.segs)
    BY <1>3, <1>4, <2>1
  <2>3. n < m <=> c0 < db
    BY <1>1, <1>3, <2>1, <2>2, Increasing
  <2>4. CASE c0 < db
    <3>1. n \in Tables /\ CutAt = file.start[n]
      BY <1>7, <2>1, <2>4 DEF Tables, CutAt, Cut
    <3>2. \A x \in Tables : n <= x
      BY <1>3, <1>4, <2>1, <2>2, <2>3, <2>4 DEF Tables, IsFirst
    <3> QED
      BY <3>1, <3>2 DEF IsFirst
  <2>5. CASE ~(c0 < db)
    <3>1. m \in Tables /\ CutAt = file.start[m]
      BY <1>3, <2>5 DEF Tables, CutAt, Cut
    <3>2. \A x \in Tables : m <= x
      BY <1>3, <1>4, <2>1, <2>2, <2>3, <2>5 DEF Tables, IsFirst
    <3> QED
      BY <3>1, <3>2 DEF IsFirst
  <2> QED
    BY <2>4, <2>5
<1> QED
  BY <1>6, <1>7

\* A camera's JPG passes both checks.
LEMMA CameraHeader ==
  ASSUME ScanInv, StageInv, LookedFor, Complete(file), file.jpg, CameraLayout(file),
         pc = "checked", scan = "none"
  PROVE  result["exif"] # 0 /\ HeaderOK
<1>1. TypeOK /\ FoundIn("exif") /\ result["exif"] # Unset /\ Standing.pos = 0
  BY DEF ScanInv, ScanRight, FoundIn, LookedFor, StageInv, Scans
<1>2. pos = 0
  BY <1>1 DEF Standing
<1>3. Hits("exif") # {}
  <2>1. 1 \in 1..Len(file.segs) /\ (Len(file.segs) > 1 => 2 \in 1..Len(file.segs))
    BY <1>1, FileFacts
  <2> QED
    BY <2>1 DEF CameraLayout, Hits, Matches
<1>4. result["exif"] # 0
  <2>1. \A n \in Hits("exif") : file.start[n] # 0
    BY <1>1, StartPositive DEF Hits
  <2> QED
    BY <1>1, <1>3, <2>1 DEF FoundIn
<1>5. DOMAIN file.segs = 1..Len(file.segs)
  BY <1>1, FileFacts
<1>6. CASE file.segs[1].marker = "APP1" /\ file.segs[1].text = "Exif"
  BY <1>1, <1>2, <1>4, <1>5, <1>6, FileFacts DEF HeaderOK, ExifIsAt
<1>7. CASE /\ file.segs[1].marker = "APP0" /\ file.segs[1].length = 16
           /\ Len(file.segs) > 1 /\ file.segs[2].text = "Exif"
  <2>1. 1 \in 1..(Len(file.segs) - 1) /\ 2 \in 1..Len(file.segs)
    BY <1>1, <1>7, FileFacts
  <2>2. file.start[1] = 2
    BY <1>1, FileFacts, WellFormedFacts
  <2>3. \A n \in 1..(Len(file.segs) - 1) :
          file.start[n + 1] = file.start[n] + file.segs[n].length + 2
    BY <1>1, FileFacts, WellFormedFacts
  <2>4. file.start[2] = 20
    <3>1. file.start[1 + 1] = file.start[1] + file.segs[1].length + 2
      BY <2>1, <2>3
    <3> QED
      BY <1>7, <2>2, <3>1
  <2> QED
    BY <1>2, <1>4, <1>5, <1>7, <2>1, <2>4 DEF HeaderOK, ExifIsAt
<1> QED
  BY <1>4, <1>6, <1>7 DEF CameraLayout

PromiseInv == ScanInv /\ StageInv /\ LookedFor /\ CopyFromTables /\ CameraFileRead

LEMMA PromiseStep ==
  ASSUME PromiseInv, [Next]_vars
  PROVE  PromiseInv'
<1>1. ScanInv /\ StageInv /\ LookedFor /\ CopyFromTables /\ CameraFileRead /\ TypeOK
  BY DEF PromiseInv, ScanInv
<1>2. UNCHANGED file
  BY <1>1, Steps, QuietKeeps, BeginFacts DEF SkipSegment, Found, StartOfScan
<1>3. CopyFromTables'
  <2>1. CASE Copy
    <3>1. /\ pc = "cut" /\ scan = "none" /\ CutAt # 0
          /\ out' = [from |-> pos + CutAt, length |-> file.size - CutAt]
      BY <2>1 DEF Copy
    <3>2. pos = 0 /\ CutAt \in Nat /\ file.size \in Nat
      BY <1>1, <3>1, CutFacts, FileFacts DEF StageInv, Standing, ScanInv
    <3>3. out'.from = CutAt /\ out'.from + out'.length = file.size
      BY <3>1, <3>2
    <3>4. Complete(file) => \E n \in Tables : IsFirst(n, Tables) /\ out'.from = file.start[n]
      BY <1>1, <3>1, <3>3, CutRight
    <3> QED
      BY <1>2, <3>3, <3>4 DEF CopyFromTables, Tables, Hits, Matches, IsFirst, Complete
  <2>2. CASE ~Copy
    <3>1. UNCHANGED out
      BY <1>1, <2>2, BeginFacts, Steps
      DEF SkipSegment, Found, StartOfScan, Quiet, NoExif, Inspect, BadHeader, NoXmp,
          Close, RefuseNef, NothingToCut, CopyFails, vars
    <3> QED
      BY <1>1, <1>2, <3>1 DEF CopyFromTables, Tables, Hits, Matches, IsFirst, Complete
  <2> QED
    BY <2>1, <2>2
<1>4. CameraFileRead'
  <2> SUFFICES ASSUME Complete(file), file.jpg, CameraLayout(file)
               PROVE  pc' \notin {"noExif", "exit"}
    BY <1>2 DEF CameraFileRead, Complete, CameraLayout
  <2>1. pc \notin {"noExif", "exit"}
    BY <1>1 DEF CameraFileRead
  <2>2. ~NoExif
    BY <1>1, CameraHeader DEF NoExif
  <2>3. ~BadHeader
    BY <1>1, CameraHeader DEF BadHeader, Inspecting
  <2> QED
    BY <2>1, <2>2, <2>3, Steps, BeginsScan
    DEF SkipSegment, Found, StartOfScan, Quiet, Inspect, NoXmp,
        Close, RefuseNef, NothingToCut, Copy, CopyFails, vars
<1> QED
  BY <1>1, <1>3, <1>4, ScanStep, StageStep DEF PromiseInv

LEMMA InitPromise == Init => PromiseInv
BY InitScan, InitStage DEF Init, PromiseInv, CopyFromTables, CameraFileRead

\* Between any two scans of a report the byte order is that of the file's own
\* EXIF header and the FILE stands where the walk left it: complete or not.
THEOREM NoTrace == Spec => []LeftAsFound
<1>1. PromiseInv => LeftAsFound
  BY DEF PromiseInv, StageInv, Standing, LeftAsFound
<1>2. PromiseInv /\ [Next]_vars => PromiseInv'
  BY PromiseStep
<1> QED
  BY InitPromise, <1>1, <1>2, PTL DEF Spec

\* A NOEXIF_ file goes from the first quantization table or baseline frame of the
\* original to its end, whatever segments the original is made of.
THEOREM CopyCorrect == Spec => []CopyFromTables
<1>1. PromiseInv => CopyFromTables
  BY DEF PromiseInv
<1>2. PromiseInv /\ [Next]_vars => PromiseInv'
  BY PromiseStep
<1> QED
  BY InitPromise, <1>1, <1>2, PTL DEF Spec

\* A complete JPG as cameras write it is neither refused nor ends the program.
THEOREM CameraFilesRead == Spec => []CameraFileRead
<1>1. PromiseInv => CameraFileRead
  BY DEF PromiseInv
<1>2. PromiseInv /\ [Next]_vars => PromiseInv'
  BY PromiseStep
<1> QED
  BY InitPromise, <1>1, <1>2, PTL DEF Spec

-----------------------------------------------------------------------------
(* What a report takes from the segments. *)

\* The height is that of no file until get_sof0_data has ended.
HeightUnread == pc \notin {"sized", "done"} \/ scan = "sof0" => height = 0

ReadInv == PromiseInv /\ HeightUnread /\ HeightOwn /\ PacketWhole

\* A complete file's scan ends at the first segment of its kind, whose header it
\* has read.
LEMMA FoundFirst ==
  ASSUME ScanInv, Complete(file), scan # "none", Matches(scan, Reading(pos))
  PROVE  \E n \in Hits(scan) : /\ IsFirst(n, Hits(scan)) /\ n \in 1..Len(file.segs)
                               /\ pos = file.start[n] /\ Reading(pos) = file.segs[n]
<1>1. TypeOK /\ ScanningInv
  BY DEF ScanInv
<1>2. PICK n \in 1..Len(file.segs) :
        /\ pos = file.start[n]
        /\ \A m \in 1..(n - 1) : ~Matches(scan, file.segs[m])
  BY <1>1 DEF ScanningInv, AtSegment
<1>3. Reading(pos) = file.segs[n]
  BY <1>1, <1>2, ReadingSegment
<1>4. n \in Hits(scan)
  BY <1>2, <1>3 DEF Hits
<1>5. ASSUME NEW m \in Hits(scan)
      PROVE  n <= m
  <2>1. m \in 1..Len(file.segs) /\ Matches(scan, file.segs[m])
    BY DEF Hits
  <2>2. m \notin 1..(n - 1)
    BY <1>2, <2>1
  <2> QED
    BY <1>1, <1>2, <2>1, <2>2, FileFacts
<1> QED
  BY <1>2, <1>3, <1>4, <1>5 DEF IsFirst

\* It ends at SOS when there is none.
LEMMA NoneBeforeScan ==
  ASSUME ScanInv, Complete(file), StartOfScan
  PROVE  Hits(scan) = {}
<1>1. TypeOK /\ ScanningInv /\ scan # "none" /\ ~Matches(scan, Reading(pos))
      /\ Reading(pos).marker = "SOS"
  BY DEF ScanInv, StartOfScan
<1>2. PICK n \in 1..Len(file.segs) :
        /\ pos = file.start[n]
        /\ \A m \in 1..(n - 1) : ~Matches(scan, file.segs[m])
  BY <1>1 DEF ScanningInv, AtSegment
<1>3. Reading(pos) = file.segs[n]
  BY <1>1, <1>2, ReadingSegment
<1>4. n = Len(file.segs)
  BY <1>1, <1>3 DEF Complete
<1>5. ASSUME NEW m \in 1..Len(file.segs)
      PROVE  ~Matches(scan, file.segs[m])
  <2>1. m = n \/ m \in 1..(n - 1)
    BY <1>1, <1>4, FileFacts
  <2> QED
    BY <1>1, <1>2, <1>3, <2>1
<1> QED
  BY <1>5 DEF Hits

LEMMA FoundRead ==
  ASSUME ReadInv, Found
  PROVE  HeightUnread' /\ HeightOwn' /\ PacketWhole'
<1> DEFINE h == Reading(pos)
<1>1. /\ ScanInv /\ TypeOK /\ StageInv /\ HeightUnread /\ HeightOwn /\ PacketWhole
      /\ scan # "none" /\ scan' = "none" /\ UNCHANGED <<file, pc>>
      /\ Matches(scan, h) /\ motorola
      /\ height' = IF scan = "sof0" THEN HeightIn(h) ELSE height
      /\ packet' = IF scan = "xmp" THEN PacketAt(pos, h) ELSE packet
  BY DEF ReadInv, PromiseInv, ScanInv, ScanningInv, Found, EndScan
<1>2. scan = ScanOf(pc)
  BY <1>1 DEF StageInv
<1>3. scan = "sof0" <=> pc = "sized"
  BY <1>2 DEF ScanOf
<1>4. \A k : Hits(k)' = Hits(k)
  BY <1>1, HitsKept
<1>5. pos \in Nat
  BY <1>1 DEF TypeOK
<1>6. ASSUME Complete(file)
      PROVE  \E n \in Hits(scan) : /\ IsFirst(n, Hits(scan)) /\ n \in 1..Len(file.segs)
                                   /\ pos = file.start[n] /\ h = file.segs[n]
  BY <1>1, <1>6, FoundFirst
<1>7. HeightUnread'
  <2>1. pc \notin {"sized", "done"} => height = 0
    BY <1>1 DEF HeightUnread
  <2> QED
    BY <1>1, <1>3, <2>1 DEF HeightUnread
<1>8. HeightOwn'
  <2> SUFFICES ASSUME Complete(file), pc = "sized"
               PROVE  \E n \in Hits("sof0") : /\ IsFirst(n, Hits("sof0"))
                                              /\ height' = file.segs[n].height
    BY <1>1, <1>4 DEF HeightOwn, Complete, IsFirst
  <2>1. PICK n \in Hits("sof0") : IsFirst(n, Hits("sof0")) /\ h = file.segs[n]
    BY <1>3, <1>6
  <2>2. height' = h.height
    BY <1>1, <1>3 DEF HeightIn, Get16u
  <2> QED
    BY <2>1, <2>2
<1>9. PacketWhole'
  <2>1. CASE scan # "xmp"
    BY <1>1, <1>4, <2>1 DEF PacketWhole, Complete, IsFirst
  <2>2. CASE scan = "xmp"
    <3> SUFFICES ASSUME Complete(file)
                 PROVE  \E n \in Hits("xmp") :
                          /\ IsFirst(n, Hits("xmp"))
                          /\ packet'.from = file.start[n] + 4
                          /\ packet'.from + packet'.length
                               >= file.start[n] + file.segs[n].length + 2
      BY <1>1, <1>4 DEF PacketWhole, Complete, IsFirst
    <3>1. PICK n \in Hits("xmp") : /\ IsFirst(n, Hits("xmp")) /\ n \in 1..Len(file.segs)
                                   /\ pos = file.start[n] /\ h = file.segs[n]
      BY <1>6, <2>2
    <3>2. file.segs[n].length \in Nat
      BY <1>1, <3>1, SegmentFacts
    <3>3. packet' = [from |-> pos + 4, length |-> file.segs[n].length]
      BY <1>1, <2>2, <3>1 DEF PacketAt, Get16u
    <3>4. packet'.from + packet'.length >= pos + file.segs[n].length + 2
      BY <1>5, <3>2, <3>3
    <3> QED
      BY <3>1, <3>3, <3>4
  <2> QED
    BY <2>1, <2>2
<1> QED
  BY <1>7, <1>8, <1>9

LEMMA StartOfScanRead ==
  ASSUME ReadInv, StartOfScan
  PROVE  HeightUnread' /\ HeightOwn' /\ PacketWhole'
<1>1. /\ ScanInv /\ TypeOK /\ StageInv /\ HeightUnread /\ PacketWhole
      /\ scan # "none" /\ scan' = "none" /\ UNCHANGED <<file, pc, height, packet>>
  BY DEF ReadInv, PromiseInv, ScanInv, StartOfScan, EndScan
<1>2. scan = "sof0" <=> pc = "sized"
  BY <1>1 DEF StageInv, ScanOf
<1>3. \A k : Hits(k)' = Hits(k)
  BY <1>1, HitsKept
<1>4. HeightUnread'
  BY <1>1 DEF HeightUnread
<1>5. HeightOwn'
  <2>1. Complete(file) /\ pc = "sized" => Hits("sof0") = {}
    BY <1>1, <1>2, NoneBeforeScan
  <2>2. pc = "sized" => height = 0
    BY <1>1, <1>2 DEF HeightUnread
  <2> QED
    BY <1>1, <1>3, <2>1, <2>2 DEF HeightOwn, Complete
<1>6. PacketWhole'
  BY <1>1, <1>3 DEF PacketWhole, Complete, IsFirst
<1> QED
  BY <1>4, <1>5, <1>6

LEMMA OtherRead ==
  ASSUME ReadInv, SkipSegment \/ Begins \/ Quiet
  PROVE  HeightUnread' /\ HeightOwn' /\ PacketWhole'
<1>1. TypeOK /\ HeightUnread /\ HeightOwn /\ PacketWhole
  BY DEF ReadInv, PromiseInv, ScanInv
<1>2. UNCHANGED <<file, height, packet>>
  BY <1>1, BeginFacts, QuietKeeps DEF SkipSegment
<1>3. \A k : Hits(k)' = Hits(k)
  BY <1>2, HitsKept
<1>4. PacketWhole'
  BY <1>1, <1>2, <1>3 DEF PacketWhole, Complete, IsFirst
<1>5. CASE UNCHANGED <<scan, pc>>
  BY <1>1, <1>2, <1>3, <1>4, <1>5 DEF HeightUnread, HeightOwn, Complete, IsFirst
<1>6. CASE Begins
  <2>1. scan' # "none" /\ pc \notin {"sized", "done"}
    BY <1>6, BeginsScan DEF Begins, CheckForExif, GetXmp, GetSize, FindTables, FindFrame, Scans
  <2> QED
    BY <1>1, <1>2, <1>4, <2>1 DEF HeightUnread, HeightOwn
<1>7. CASE Quiet /\ ~UNCHANGED <<scan, pc>>
  <2>1. UNCHANGED scan
    BY <1>7, QuietKeeps
  <2>2. pc' # "sized" /\ (pc' # "done" => pc \notin {"sized", "done"})
    BY <1>7, <2>1 DEF Quiet, NoExif, Inspect, Inspecting, BadHeader, NoXmp, Close, RefuseNef,
           NothingToCut, Copy, CopyFails, vars
  <2> QED
    BY <1>1, <1>2, <1>4, <2>1, <2>2 DEF HeightUnread, HeightOwn
<1>8. SkipSegment => UNCHANGED <<scan, pc>>
  BY DEF SkipSegment
<1> QED
  BY <1>5, <1>6, <1>7, <1>8

LEMMA InitRead == Init => ReadInv
BY InitPromise DEF Init, ReadInv, HeightUnread, HeightOwn, PacketWhole

LEMMA ReadStep ==
  ASSUME ReadInv, [Next]_vars
  PROVE  ReadInv'
BY Steps, PromiseStep, FoundRead, StartOfScanRead, OtherRead DEF ReadInv

\* What a report takes from the segments of a complete file is the file's own:
\* the height of the first baseline frame, whatever byte order is saved, and the
\* first XMP packet to its end, wherever they are in the file.
THEOREM SegmentsCorrect == Spec => []SegmentsRead
<1>1. ReadInv => SegmentsRead
  BY DEF ReadInv, PromiseInv, SegmentsRead
<1>2. ReadInv /\ [Next]_vars => ReadInv'
  BY ReadStep
<1> QED
  BY InitRead, <1>1, <1>2, PTL DEF Spec
=============================================================================
